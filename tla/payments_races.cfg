SPECIFICATION Spec
CONSTANTS
    Owners = {u1}
    Orders = {o1, o2}
    Payments = {p1, p2}
    Requests = {r1, r2}
    NewOwners = {u1}
    Scheduler = scheduler
    Nobody = nobody
    NoPayment = noPayment
    Free = free
    Price = 1
    Charged <- AsAsked
    Ops = {"create", "sync", "webhook", "checkout", "scheduler", "lookup"}
    BatchLimit = 1
SYMMETRY Interchangeable
INVARIANTS SingleCompleter NoDeadlock
PROPERTIES PromiseKept CoverNeverDropped
