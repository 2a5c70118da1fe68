SPECIFICATION Spec
CONSTANTS
    Owners = {u1}
    Orders = {o1}
    Payments = {p1}
    Requests = {r1, r2}
    NewOwners = {u1}
    Scheduler = scheduler
    Nobody = nobody
    NoPayment = noPayment
    Free = free
    Price = 1
    Charged <- AsAsked
    Ops = {"create", "sync", "webhook"}
    BatchLimit = 1
INVARIANTS VerifiedOnce
