SPECIFICATION AnnouncedSpec
CONSTANTS
    Rows = {r1, r2}
    Sessions = {s1, s2}
    MaxDeletions = 1
    NoRow = noRow
    Ops = {"lookup", "renew", "resume"}
    Admins = {s1}
    Revisions <- SomeRevisions
    LastPlan = 1
PROPERTIES LapsedEventuallyExpired
