SPECIFICATION Spec
CONSTANTS
    Persons = {p1, p2, p3}
    Proved = {p2, p3}
    Visitors = {v1, v2}
    EmailCodes = {e1, e2, e3}
    LastRow = 3
    Nobody = nobody
    Clients = {v1, v2}
    Passwords = {w1, w2}
    Tokens = {t1, t2}
    ResetCodes = {k1, k2}
    MaxCuts = 1
    NoValue = noValue
    Jobs = {e1, e2, e3}
    Recruiters = {q1}
    Admins = {b1}
    Batches <- PairsOfJobs
    BatchSize = 2
    PublishLimit = 1
    d1 = d1
    d2 = d2
    Details = {d1, d2}
    Keys = {}
    Drafts <- NoDrafts
    Edits <- Publishing
    LastDay = 0
    NoKey = noKey
    NoJob = noJob
CHECK_DEADLOCK FALSE
SYMMETRY Interchangeable
INVARIANTS
    CodesBounded WholeUnlessCutOff NextCompanyFree ResetsBounded StaleLoginsBounded
    PublishedBounded
