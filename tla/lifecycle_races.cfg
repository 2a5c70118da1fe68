SPECIFICATION SideBySideSpec
CONSTANTS
    Rows = {r1, r2}
    Sessions = {s1, s2}
    MaxDeletions = 1
    NoRow = noRow
    Ops = {"lookup", "assign", "renew", "cancel", "change", "suspend", "resume", "expire", "payment"}
    Admins = {s1, s2}
    Revisions <- SomeRevisions
    LastPlan = 2
SYMMETRY Interchangeable
INVARIANTS OneActivePlan RenewedAsAnnounced
PROPERTIES RunningEndsOnPurpose LegalUnlessDisturbed DefaultStaysUnlessStale SettingFollowsUnlessStale
