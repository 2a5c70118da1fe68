SPECIFICATION Spec
CONSTANTS
    Invitations = {i1, i2, i3}
    Pairs = {c1}
    Senders = {s1, s2}
    Readers = {r1, r2}
    Limit = 1
    LastWeek = 1
    NoPair = noPair
    NoInvitation = noInvitation
    Jobs = {a1, a2}
    Recruiters = {s1, s2}
    Admins = {}
    Batches = {}
    BatchSize = 0
    PublishLimit = 1
    d1 = d1
    d2 = d2
    k1 = k1
    Details = {d1, d2}
    Keys = {k1}
    Drafts <- SomeDrafts
    Edits <- SomeEdits
    LastDay = 1
    NoKey = noKey
    NoJob = noJob
    Instances = {s1, s2}
    Alerts = {m1}
    LastWindow = 2
    MaxStarts = 3
    NoAlert = noAlert
    NoInstance = noInstance
    Tabs = {s1, s2}
    ResumeLimit = 2
    LastResume = 3
    Editors = {s1, s2}
    Sections = {"skills", "certifications"}
    Names = {m1}
    Replacements <- SomeLists
    LastEntry = 2
    NoName = noName
    NoEditor = noEditor
    Workers = {w1}
    Addresses = {x1}
    Accounts = {s1, s2}
    Rules <- LoginRules
    LastTick = 3
    MaxRestarts = 1
    NoAccount = noAccount
    AISessions = {s1, s2}
    Candidates = {m1}
    MonthlyLimit <- SomeLimits
    CandidateLimit = 2
    LastVersion = 1
    MaxGenerations = 3
    NoInsight = noInsight
    NoCandidate = noCandidate
CHECK_DEADLOCK FALSE

PROPERTIES PublishedIsAnnounced
