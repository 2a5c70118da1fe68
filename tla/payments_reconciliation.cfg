SPECIFICATION Spec
CONSTANTS
    Owners = {u1}
    Orders = {o1}
    Payments = {p1}
    Requests = {r1}
    NewOwners = {u1}
    Scheduler = scheduler
    Nobody = nobody
    NoPayment = noPayment
    Free = free
    Price = 1
    Charged <- AsAsked
    Ops = {"create", "scheduler"}
    BatchLimit = 1
PROPERTIES ReconciliationKept
CHECK_DEADLOCK FALSE
