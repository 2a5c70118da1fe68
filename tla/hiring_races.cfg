SPECIFICATION HiringSpec
CONSTANTS
    Applications = {a1, a2, a3}
    Interviews = {i1, i2}
    Candidates = {c1, c2}
    Recruiters = {r1}
    Schedulers = {s1, s2}
    Rounds = {1}
    Slots = {d1}
    MaxActive = 1
    Requested = {"REJECTED", "WITHDRAWN"}
    Outcomes = {"CANCELLED", "RESCHEDULED"}
    None = none
SYMMETRY Interchangeable
INVARIANTS HistoryTellsStatus AppliedBounded RoundSharedBounded
PROPERTIES ClosedStaysUnlessStale SettledStaysUnlessStale
