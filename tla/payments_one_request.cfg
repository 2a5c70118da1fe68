SPECIFICATION RedeliverySpec
CONSTANTS
    Owners = {u1}
    Orders = {o1, o2}
    Payments = {p1, p2}
    Requests = {r1}
    NewOwners = {u1}
    Scheduler = scheduler
    Nobody = nobody
    NoPayment = noPayment
    Free = free
    Price = 1
    Charged <- OneShort
    Ops = {"create", "sync", "webhook", "checkout", "lookup", "lapse", "planChange", "failed", "deletion"}
    BatchLimit = 1
INVARIANTS PaidOnlyWhenCaptured
PROPERTIES ActsAsTheLifecycleAssumes StatusFollowsTable CapturedEventuallyPaid
