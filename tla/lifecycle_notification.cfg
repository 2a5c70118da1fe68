SPECIFICATION Spec
CONSTANTS
    Rows = {r1, r2}
    Sessions = {s1}
    MaxDeletions = 1
    NoRow = noRow
    Ops = {"assign", "renew"}
PROPERTIES NotificationNeverInterrupts
