--------------------------- MODULE RazorpayPayments ---------------------------
(***************************************************************************)
(* app/service/payment_service.py with its three entry points (the HTTP    *)
(* endpoints, the provider's webhook, the reconciliation scheduler), at    *)
(* the granularity of the statements other sessions can come between: each *)
(* await of the database or of the provider ends a step.                   *)
(*                                                                         *)
(* A session is an SQLAlchemy session and the PostgreSQL transaction under *)
(* it.  Its identity map (loaded) keeps the attributes of a row as first   *)
(* read: a later SELECT ... FOR UPDATE in the same session locks the row   *)
(* but returns the attributes already loaded.  Its own uncommitted writes  *)
(* are in buf.  A request ends by closing its session, which rolls back    *)
(* and releases the row locks.                                             *)
(*                                                                         *)
(* The scheduler's session is different.  It is bound to a connection on   *)
(* which pg_try_advisory_lock has already begun a transaction, so that     *)
(* session.commit() leaves the transaction open (SQLAlchemy's              *)
(* "rollback_only" way of joining a transaction): its writes and locks     *)
(* stay its own until the run ends, and closing the connection then rolls  *)
(* them back.                                                              *)
(***************************************************************************)
EXTENDS RazorpayProvider, Naturals

CONSTANTS
    Requests,    \* sessions that serve HTTP requests
    Scheduler,   \* the session of the reconciliation job
    Ops,         \* the operations in play
    BatchLimit,  \* rows the scheduler reads per run
    NewOwners,   \* users who may have registered since the startup backfill
    Free         \* the holder of a row lock nobody holds

Sessions == Requests \cup {Scheduler}

Handlers == {"create", "sync", "webhook", "checkout", "failed", "lookup", "scheduler"}
AllOps == Handlers \cup {"lapse", "planChange", "deletion"}

ASSUME PaymentsAssumption ==
    /\ Scheduler \notin Requests
    /\ Free \notin Sessions
    /\ Nobody \notin Rows
    /\ Ops \subseteq AllOps
    /\ BatchLimit \in Nat
    /\ NewOwners \subseteq Owners
    /\ Price \in Nat
    /\ Charged \in [Payments -> Nat]

VARIABLES
    subs,        \* the committed user_subscriptions table
    lock,        \* the session that holds each row's lock
    verified,    \* PAYMENT_VERIFIED history rows per order, counted to 2
    keys,        \* event keys of the orders' announcements that exist
    planActive,  \* is_active of the paid plan
    pc, job,     \* what each session is doing
    loaded,      \* each session's identity map
    buf,         \* each session's uncommitted writes
    todo         \* orders the scheduler's run has still to reconcile

dbVars == <<subs, lock, verified, keys, planActive>>
sessionVars == <<pc, job, loaded, buf, todo>>
vars == <<dbVars, sessionVars, providerVars>>

-----------------------------------------------------------------------------
\* The source written into history and into the notification's event key.
Source(op) == IF op \in {"webhook", "checkout"} THEN op ELSE "scheduler"
Sources == {"webhook", "checkout", "scheduler"}

Steps == {"idle", "expire", "postOrder", "insertPending", "fetchOrder",
          "fetchPayments", "lock", "fetchPayment", "expireDuplicates", "activate",
          "markFailed", "ensureDefault", "insertDefault", "next"}

\* The steps during which complete_order_payment holds the order's row.
Completing == {"fetchPayment", "expireDuplicates", "activate"}

Job == [op : Handlers \cup {"none"}, owner : Owners \cup {Nobody},
        row : Rows \cup {Nobody}, pay : Payments \cup {NoPayment}, entity : BOOLEAN]

NoJob == [op |-> "none", owner |-> Nobody, row |-> Nobody,
          pay |-> NoPayment, entity |-> FALSE]

NewJob(op, u, r, p, e) == [op |-> op, owner |-> u, row |-> r, pay |-> p, entity |-> e]

Nothing == [r \in Rows |-> NoRow]

TypeOK ==
    /\ ProviderTypeOK
    /\ subs \in [Rows -> Row]
    /\ lock \in [Rows -> Sessions \cup {Free}]
    /\ verified \in [Orders -> 0..2]
    /\ keys \subseteq Orders \X Sources
    /\ planActive \in BOOLEAN
    /\ pc \in [Sessions -> Steps]
    /\ job \in [Sessions -> Job]
    /\ loaded \in [Sessions -> [Rows -> Row]]
    /\ buf \in [Sessions -> [Rows -> Row]]
    /\ todo \subseteq Orders

\* Startup gives the default plan to every user it finds; one who has
\* registered since has no row yet.
Init ==
    /\ ProviderInit
    /\ \E assigned \in SUBSET Owners :
         /\ Owners \ NewOwners \subseteq assigned
         /\ subs = [r \in Rows |-> IF r \in assigned THEN DefaultRow(r) ELSE NoRow]
    /\ lock = [r \in Rows |-> Free]
    /\ verified = [o \in Orders |-> 0]
    /\ keys = {}
    /\ planActive = TRUE
    /\ pc = [s \in Sessions |-> "idle"]
    /\ job = [s \in Sessions |-> NoJob]
    /\ loaded = [s \in Sessions |-> Nothing]
    /\ buf = [s \in Sessions |-> Nothing]
    /\ todo = {}

-----------------------------------------------------------------------------
\* Sessions and transactions.

CanLock(s, R) == \A r \in R : lock[r] \in {Free, s}

NoRowLock(s, R) == lock  \* mutant: SELECT without FOR UPDATE
LockedBy(s, R) == [r \in Rows |-> IF r \in R THEN s ELSE lock[r]]

Unlocked(s) == [r \in Rows |-> IF lock[r] = s THEN Free ELSE lock[r]]

\* What s reads: committed rows under its own writes.
View(s) == [r \in Rows |-> IF buf[s][r] = NoRow THEN subs[r] ELSE buf[s][r]]

\* The attributes a SELECT returns: those already loaded, if any.
Seen(s, r) == IF loaded[s][r] = NoRow THEN View(s)[r] ELSE loaded[s][r]

\* The session is closed (or its transaction rolled back and the run over).
Close(s) ==
    /\ pc' = [pc EXCEPT ![s] = "idle"]
    /\ job' = [job EXCEPT ![s] = NoJob]
    /\ loaded' = [loaded EXCEPT ![s] = Nothing]
    /\ buf' = [buf EXCEPT ![s] = Nothing]
    /\ lock' = Unlocked(s)
    /\ todo' = IF s = Scheduler THEN {} ELSE todo

\* An operation that ends without writing, having locked rows R.  The
\* scheduler catches what its row raised, keeps the transaction and its
\* locks, and goes on with the next row.
Return(s, R) ==
    \/ /\ s \in Requests
       /\ Close(s)
    \/ /\ s = Scheduler
       /\ pc' = [pc EXCEPT ![s] = "next"]
       /\ lock' = LockedBy(s, R)
       /\ UNCHANGED <<job, loaded, buf, todo>>

Goto(s, step) == pc' = [pc EXCEPT ![s] = step]

\* An idle request session takes up an operation, having read the rows R.
Begin(s, op, u, r, p, e, R, step) ==
    /\ op \in Ops
    /\ s \in Requests
    /\ pc[s] = "idle"
    /\ Goto(s, step)
    /\ job' = [job EXCEPT ![s] = NewJob(op, u, r, p, e)]
    /\ loaded' = [loaded EXCEPT ![s] = [x \in Rows |-> IF x \in R THEN subs[x] ELSE NoRow]]
    /\ UNCHANGED <<dbVars, buf, todo, providerVars>>

-----------------------------------------------------------------------------
\* create_subscription_order.  A pending order of the same owner is
\* reconciled first; an active paid plan refuses the request, which then
\* changes nothing.
CreateOrder(s, u) ==
    /\ planActive
    /\ \/ \E o \in PendingOf(subs, u) :
            Begin(s, "create", u, o, NoPayment, FALSE, {o}, "fetchOrder")
       \/ /\ PendingOf(subs, u) = {}
          /\ \E r \in ActiveOf(subs, u) :
               /\ subs[r].over
               /\ Begin(s, "create", u, r, NoPayment, FALSE, {r}, "expire")
       \/ /\ PendingOf(subs, u) = {}
          /\ ActiveOf(subs, u) \subseteq {r \in Owners : ~subs[r].over}
          /\ Begin(s, "create", u, Nobody, NoPayment, FALSE, {}, "postOrder")

\* Another session has expired the default row meanwhile: the row this one
\* read is not the owner's new default row, and is expired already.
Replaced(r) == r \in Owners /\ ~subs[r].over

\* _expire_if_needed: the status and the announcement commit together, or fail
\* together when an earlier expiry of the row is announced.  Rows are renewed
\* and announcements deleted elsewhere (SubscriptionLifecycle, which keeps
\* them), so that either may be the case here.
ExpireLapsed(s) ==
    LET r == job[s].row IN
    /\ pc[s] = "expire"
    /\ CanLock(s, {r})
    /\ \/ /\ Close(s)
          /\ UNCHANGED subs
       \/ /\ subs' = IF Replaced(r) THEN subs ELSE [subs EXCEPT ![r].status = "EXPIRED"]
          /\ Goto(s, IF job[s].op = "create" THEN "postOrder" ELSE "ensureDefault")
          /\ UNCHANGED <<lock, job, loaded, buf, todo>>
    /\ UNCHANGED <<verified, keys, planActive, providerVars>>

PostOrder(s) ==
    /\ pc[s] = "postOrder"
    /\ \/ \E o \in Orders :
            /\ ProviderCreatesOrder(o)
            /\ Goto(s, "insertPending")
            /\ job' = [job EXCEPT ![s].row = o]
            /\ UNCHANGED <<lock, loaded, buf, todo>>
       \/ /\ Close(s)
          /\ UNCHANGED providerVars
    /\ UNCHANGED <<subs, verified, keys, planActive>>

InsertPending(s) ==
    LET o == job[s].row
        u == job[s].owner
    IN
    /\ pc[s] = "insertPending"
    /\ subs' = IF PendingIndexAccepts(subs, u, o)
               THEN [subs EXCEPT ![o] = PendingRow(u)]
               ELSE subs
    /\ Close(s)
    /\ UNCHANGED <<verified, keys, planActive, providerVars>>

\* get_pending_subscription_payment with sync=true.
SyncPending(s, u) ==
    \E o \in PendingOf(subs, u) :
        Begin(s, "sync", u, o, NoPayment, FALSE, {o}, "fetchOrder")

\* The webhook for payment.captured or order.paid.  When the event carries
\* no payment entity the controller asks for the order's payments.
WebhookCaptured(s, p) ==
    /\ payState[p] = "captured"
    /\ \/ Begin(s, "webhook", Nobody, payOrder[p], p, TRUE, {}, "lock")
       \/ Begin(s, "webhook", Nobody, payOrder[p], NoPayment, FALSE, {}, "fetchPayments")

\* verify_checkout_payment, called by the page that made the payment.
VerifyCheckout(s, p) ==
    /\ payState[p] # "none"
    /\ Begin(s, "checkout", Nobody, payOrder[p], p, FALSE, {}, "lock")

FailableUnlessFailed(row) ==  \* mutant: a paid row may be marked failed
    row.status # "PAYMENT_FAILED"

Failable(row) == row.status = "PENDING"

\* The webhook for payment.failed, up to mark_order_failed's guard, which
\* reads the row without locking it.
WebhookFailed(s, p) ==
    /\ payState[p] = "failed"
    /\ Failable(subs[payOrder[p]])
    /\ Begin(s, "failed", Nobody, payOrder[p], p, FALSE, {payOrder[p]}, "markFailed")

\* The rest of mark_order_failed: the flush waits for the row lock, then
\* writes the columns it changed.
MarkOrderFailed(s) ==
    LET o == job[s].row IN
    /\ pc[s] = "markFailed"
    /\ CanLock(s, {o})
    /\ subs' = [subs EXCEPT ![o].status = "PAYMENT_FAILED", ![o].pay = "FAILED"]
    /\ Close(s)
    /\ UNCHANGED <<verified, keys, planActive, providerVars>>

-----------------------------------------------------------------------------
\* reconcile_pending_order: only an order the provider calls paid goes on.
\* A request the provider does not answer raises, and every caller catches.
FetchOrder(s) ==
    /\ pc[s] = "fetchOrder"
    /\ \/ /\ orderState[job[s].row] = "paid"
          /\ Goto(s, "fetchPayments")
          /\ UNCHANGED <<lock, job, loaded, buf, todo>>
       \/ Return(s, {})
    /\ UNCHANGED <<subs, verified, keys, planActive, providerVars>>

FetchOrderPayments(s) ==
    /\ pc[s] = "fetchPayments"
    /\ \/ \E p \in ReportedPayments(job[s].row) :
            /\ Goto(s, "lock")
            /\ job' = [job EXCEPT ![s].pay = p]
            /\ UNCHANGED <<lock, loaded, buf, todo>>
       \/ Return(s, {})
    /\ UNCHANGED <<subs, verified, keys, planActive, providerVars>>

-----------------------------------------------------------------------------
\* complete_order_payment.

\* The checks on the row the SELECT ... FOR UPDATE returned.
Completable(seen) == seen.status = "PENDING" /\ planActive

\* SELECT ... FOR UPDATE, and whether the payment is pursued.
LockOrder(s) ==
    LET o == job[s].row
        seen == Seen(s, o)
    IN
    /\ pc[s] = "lock"
    /\ CanLock(s, {o})
    /\ \/ /\ Completable(seen)
          /\ Goto(s, "fetchPayment")
          /\ lock' = LockedBy(s, {o})
          /\ loaded' = [loaded EXCEPT ![s][o] = seen]
          /\ UNCHANGED <<job, buf, todo>>
       \/ /\ ~Completable(seen)
          /\ Return(s, {o})
    /\ UNCHANGED <<subs, verified, keys, planActive, providerVars>>

\* fetch_order, fetch_payment unless the webhook carried the payment, and
\* _validate_provider_payment.
FetchAndValidate(s) ==
    /\ pc[s] = "fetchPayment"
    /\ \/ /\ ValidPayment(job[s].pay, job[s].row)
          /\ Goto(s, "expireDuplicates")
          /\ UNCHANGED <<lock, job, loaded, buf, todo>>
       \/ Return(s, {})
    /\ UNCHANGED <<subs, verified, keys, planActive, providerVars>>

DuplicatesCommitted(s) ==  \* mutant: the duplicates are committed on their own
    LET o == job[s].row
        dups == DuplicatesOf(View(s), loaded[s][o].owner, o)
    IN
    /\ pc[s] = "expireDuplicates"
    /\ CanLock(s, dups)
    /\ subs' = [r \in Rows |-> IF r \in dups
                               THEN [subs[r] EXCEPT !.status = "EXPIRED"]
                               ELSE subs[r]]
    /\ Goto(s, "activate")
    /\ UNCHANGED <<lock, verified, keys, planActive, job, loaded, buf, todo, providerVars>>

\* expire_duplicate_active_subscriptions, not yet committed.
ExpireDuplicates(s) ==
    LET o == job[s].row
        dups == DuplicatesOf(View(s), loaded[s][o].owner, o)
    IN
    /\ pc[s] = "expireDuplicates"
    /\ CanLock(s, dups)
    /\ lock' = LockedBy(s, dups)
    /\ buf' = [buf EXCEPT ![s] =
                 [r \in Rows |-> IF r \in dups
                                 THEN [View(s)[r] EXCEPT !.status = "EXPIRED"]
                                 ELSE buf[s][r]]]
    /\ Goto(s, "activate")
    /\ UNCHANGED <<subs, verified, keys, planActive, job, loaded, todo, providerVars>>

\* The row activated by payment p; the columns not assigned keep the
\* committed value.
Activated(row, p) ==
    [row EXCEPT !.status = "ACTIVE", !.pay = "PAID", !.payId = p, !.over = FALSE]

WrittenBack(s) == View(s)  \* mutant: the end date is written back as well
\* What the commit of s leaves: a plan that s expired keeps its end date, which
\* time may have passed since.
Committed(s) == [r \in Rows |-> [View(s)[r] EXCEPT !.over = subs[r].over]]

\* The flush of the row, the history row, the notification and the commit.
\* The active-role index or the event key may refuse, which rolls back.
Activate(s) ==
    LET o == job[s].row
        u == loaded[s][o].owner
        e == <<o, Source(job[s].op)>>
        refused == ~ActiveIndexAccepts(View(s), u, o) \/ e \in keys
        paid == Activated(View(s)[o], job[s].pay)
    IN
    /\ pc[s] = "activate"
    /\ \/ /\ refused
          /\ Close(s)
          /\ UNCHANGED <<subs, verified, keys>>
       \/ /\ ~refused
          /\ s \in Requests
          /\ subs' = [Committed(s) EXCEPT ![o] = paid]
          /\ verified' = [verified EXCEPT ![o] = IF @ < 2 THEN @ + 1 ELSE @]
          /\ keys' = keys \cup {e}
          /\ Close(s)
       \/ /\ ~refused
          /\ s = Scheduler
          /\ buf' = [buf EXCEPT ![s][o] = paid]
          /\ Goto(s, "next")
          /\ UNCHANGED <<subs, verified, keys, lock, job, loaded, todo>>
    /\ UNCHANGED <<planActive, providerVars>>

-----------------------------------------------------------------------------
\* The lookups that end in _expire_if_needed and ensure_user_subscription.
LookUpActive(s, u) ==
    \/ \E r \in ActiveOf(subs, u) :
         /\ subs[r].over
         /\ Begin(s, "lookup", u, r, NoPayment, FALSE, {r}, "expire")
    \/ /\ ActiveOf(subs, u) = {}
       /\ Begin(s, "lookup", u, Nobody, NoPayment, FALSE, {}, "insertDefault")

EnsureDefault(s) ==
    /\ pc[s] = "ensureDefault"
    /\ \/ /\ ActiveOf(subs, job[s].owner) = {}
          /\ Goto(s, "insertDefault")
          /\ UNCHANGED <<lock, job, loaded, buf, todo>>
       \/ /\ ActiveOf(subs, job[s].owner) # {}
          /\ Close(s)
    /\ UNCHANGED <<subs, verified, keys, planActive, providerVars>>

\* A new default row; the index refuses it beside any active row.
InsertDefault(s) ==
    LET u == job[s].owner IN
    /\ pc[s] = "insertDefault"
    /\ subs' = IF ActiveOf(subs, u) = {} THEN [subs EXCEPT ![u] = DefaultRow(u)] ELSE subs
    /\ Close(s)
    /\ UNCHANGED <<verified, keys, planActive, providerVars>>

-----------------------------------------------------------------------------
\* execute_payment_reconciliation.  The advisory lock leaves one run at a
\* time; which pending rows lie in its time window is left open.
SchedulerReads ==
    /\ "scheduler" \in Ops
    /\ pc[Scheduler] = "idle"
    /\ \E B \in SUBSET UNION {PendingOf(subs, u) : u \in Owners} :
         /\ B # {}
         /\ Cardinality(B) <= BatchLimit
         /\ todo' = B
         /\ loaded' = [loaded EXCEPT ![Scheduler] =
                         [r \in Rows |-> IF r \in B THEN subs[r] ELSE NoRow]]
    /\ Goto(Scheduler, "next")
    /\ UNCHANGED <<dbVars, job, buf, providerVars>>

SchedulerTakesRow ==
    /\ pc[Scheduler] = "next"
    /\ \E o \in todo :
         /\ todo' = todo \ {o}
         /\ job' = [job EXCEPT ![Scheduler] =
                      NewJob("scheduler", loaded[Scheduler][o].owner, o, NoPayment, FALSE)]
    /\ Goto(Scheduler, "fetchOrder")
    /\ UNCHANGED <<dbVars, loaded, buf, providerVars>>

\* The connection is closed on a transaction nobody committed.
SchedulerEnds ==
    /\ pc[Scheduler] = "next"
    /\ todo = {}
    /\ Close(Scheduler)
    /\ UNCHANGED <<subs, verified, keys, planActive, providerVars>>

-----------------------------------------------------------------------------
\* A lock wait that exceeds command_timeout, a cancelled task, a crash.
Interrupted(s) ==
    /\ pc[s] # "idle"
    /\ Close(s)
    /\ UNCHANGED <<subs, verified, keys, planActive, providerVars>>

\* Time passes the end of an active row's period.
Lapse(r) ==
    /\ "lapse" \in Ops
    /\ subs[r].status = "ACTIVE"
    /\ ~subs[r].over
    /\ subs' = [subs EXCEPT ![r].over = TRUE]
    /\ UNCHANGED <<lock, verified, keys, planActive, sessionVars, providerVars>>

\* An administrator switches the paid plan off or on.
PlanSwitched ==
    /\ "planChange" \in Ops
    /\ planActive' = ~planActive
    /\ UNCHANGED <<subs, lock, verified, keys, sessionVars, providerVars>>

\* The owner deletes an announcement (NotificationRepo.delete_notification),
\* which frees its key.
AnnouncementDeleted ==
    /\ "deletion" \in Ops
    /\ \E key \in keys : keys' = keys \ {key}
    /\ UNCHANGED <<subs, lock, verified, planActive, sessionVars, providerVars>>

\* Payments are made on orders whose id reached the customer.
CustomerActs ==
    /\ \E p \in Payments :
         \/ \E o \in Orders : subs[o] # NoRow /\ CustomerPays(p, o)
         \/ PaymentCaptured(p)
         \/ PaymentFails(p)
    /\ UNCHANGED <<dbVars, sessionVars>>

Handle(s) ==
    \/ ExpireLapsed(s) \/ PostOrder(s) \/ InsertPending(s)
    \/ FetchOrder(s) \/ FetchOrderPayments(s)
    \/ LockOrder(s) \/ FetchAndValidate(s) \/ ExpireDuplicates(s) \/ Activate(s)
    \/ MarkOrderFailed(s)
    \/ EnsureDefault(s) \/ InsertDefault(s)

Arrive(s) ==
    \/ \E u \in Owners : CreateOrder(s, u) \/ SyncPending(s, u) \/ LookUpActive(s, u)
    \/ \E p \in Payments : WebhookCaptured(s, p) \/ VerifyCheckout(s, p) \/ WebhookFailed(s, p)

SchedulerActs == SchedulerReads \/ SchedulerTakesRow \/ SchedulerEnds

Next ==
    \/ \E s \in Requests : Arrive(s)
    \/ \E s \in Sessions : Handle(s) \/ Interrupted(s)
    \/ SchedulerActs
    \/ CustomerActs
    \/ \E r \in Rows : Lapse(r)
    \/ PlanSwitched
    \/ AnnouncementDeleted

Spec == Init /\ [][Next]_vars

-----------------------------------------------------------------------------
\* Fairness.  A request or a scheduler run goes on or is cut off; the provider
\* delivers a captured payment's webhook again and again, and no step of its
\* handling fails every time.  Nothing is assumed of other payments, of the
\* customer, of lookups or of the administrator.

GoesOn(s) ==
    \/ Handle(s) \/ Interrupted(s)
    \/ s = Scheduler /\ (SchedulerTakesRow \/ SchedulerEnds)

Succeeds(s, step, p) ==
    /\ pc[s] = step
    /\ job[s].row = payOrder[p]
    /\ job[s].pay = p
    /\ Handle(s)
    /\ pc'[s] # "idle" \/ subs' # subs

Redelivery ==
    \A s \in Requests, p \in {q \in Payments : Charged[q] = Price} :
        /\ SF_vars(WebhookCaptured(s, p) /\ job'[s].entity)
        /\ \A step \in Completing \cup {"lock"} : SF_vars(Succeeds(s, step, p))

RedeliverySpec == Spec /\ (\A s \in Sessions : WF_vars(GoesOn(s))) /\ Redelivery

-----------------------------------------------------------------------------
\* A subscription is paid only by a payment of its own order that the
\* provider captured at the asked price, whichever of the webhook, the
\* checkout page and the reconciliation brought it (complete_order_payment
\* and _validate_provider_payment).
PaidOnlyWhenCaptured ==
    \A o \in Orders :
        subs[o].pay = "PAID" =>
            /\ subs[o].payId \in Payments
            /\ payOrder[subs[o].payId] = o
            /\ payState[subs[o].payId] = "captured"
            /\ Charged[subs[o].payId] = Price

\* Between locking an order and committing it, no other session is
\* completing the same order (get_by_razorpay_order_id_for_update).
SingleCompleter ==
    \A s, t \in Sessions :
        /\ pc[s] \in Completing
        /\ pc[t] \in Completing
        /\ job[s].row = job[t].row
        => s = t

\* The rows whose lock the next statement of s asks for.
Wanted(s) ==
    LET r == job[s].row IN
    CASE pc[s] \in {"lock", "expire", "markFailed"} -> {r}
      [] pc[s] = "expireDuplicates" -> DuplicatesOf(View(s), loaded[s][r].owner, r)
      [] OTHER -> {}

\* Sessions never wait for each other in a circle, although a completion
\* locks its order first and the owner's other plans later, and the
\* scheduler keeps the locks of one order while it asks for the next
\* (expire_duplicate_active_subscriptions; two sessions may complete two
\* orders of one owner, when one of them read its order long before).
NoDeadlock ==
    ~\E S \in SUBSET Sessions :
        /\ S # {}
        /\ \A s \in S : \E r \in Wanted(s) : lock[r] \in S \ {s}

Covered(t, u) == \E r \in ActiveOf(t, u) : ~t[r].over

\* What s is about to write was decided on a row that has changed since: its
\* end date has moved, or its order has been settled.
Outdated(s) ==
    \/ pc[s] = "expire" /\ ~subs[job[s].row].over
    \/ pc[s] = "markFailed" /\ subs[job[s].row].status # "PENDING"

\* Switching an owner from one plan to another never leaves them, even for
\* one committed state, without the running plan they had: expiring the
\* duplicates and activating the new row are one commit.  Only time takes a
\* running plan away, or an expiry or a failure recorded of an outdated row
\* (_expire_if_needed, mark_order_failed).
CoverNeverDropped ==
    [][\A u \in Owners :
         /\ Covered(subs, u)
         /\ ~(\E r \in Rows : Lapse(r))
         /\ ~(\E s \in Requests : Outdated(s) /\ Handle(s))
         => Covered(subs', u)]_vars

\* VALID_STATUS_TRANSITIONS of user_subscription_service.py, on the statuses
\* this module keeps.
ValidTransitions ==
    [NONE |-> {"PENDING", "ACTIVE"}, PENDING |-> {"ACTIVE", "PAYMENT_FAILED"},
     ACTIVE |-> {"EXPIRED"}, EXPIRED |-> {"ACTIVE"}, PAYMENT_FAILED |-> {"ACTIVE"}]

\* The status of an order's subscription only ever changes along that table,
\* whatever late or repeated webhooks arrive.
StatusFollowsTable ==
    [][\A o \in Orders :
         subs'[o].status # subs[o].status =>
            subs'[o].status \in ValidTransitions[subs[o].status]]_vars

\* An order's payment is verified, recorded and announced once, however
\* many entry points report it.
VerifiedOnce == \A o \in Orders : verified[o] <= 1

\* When a reconciliation run ends, the orders it completed are paid.
ReconciliationKept ==
    [][SchedulerEnds =>
         \A o \in Orders : buf[Scheduler][o].pay = "PAID" => subs'[o].pay = "PAID"]_vars

\* The payment flow implements the promise to the customer.
Promise ==
    INSTANCE SubscriptionPayment WITH
        outcome <- [o \in Orders |-> subs[o].pay],
        captured <- [o \in Orders |-> {p \in Payments : /\ payOrder[p] = o
                                                     /\ payState[p] = "captured"}]

PromiseKept == Promise!Spec

\* The rows of an owner as SubscriptionLifecycle sees them.
RowsOf(u) ==
    [r \in Rows |-> IF subs[r].owner = u THEN [status |-> subs[r].status, over |-> subs[r].over]
                                         ELSE [status |-> "NONE", over |-> FALSE]]

Lifecycle(u) == INSTANCE SubscriptionRows WITH row <- RowsOf(u)

\* All that the payment flow ever does to the rows of an owner is what the
\* lifecycle takes it for (PaymentActs), beside the lookups and the passing
\* of time that the lifecycle has itself: no commit of an order, however late
\* or repeated, changes a second row but to expire it for the one it pays, and
\* none shows a step of another order half done.
ActsAsTheLifecycleAssumes ==
    [][\A u \in Owners :
         \/ RowsOf(u)' = RowsOf(u)
         \/ Lifecycle(u)!PaymentActs
         \/ Lifecycle(u)!LookUpActs
         \/ Lifecycle(u)!TimePasses]_vars

\* A payment that was captured at the asked price reaches the subscription in
\* the end, by whichever redelivery gets through, unless the order was marked
\* failed first (mark_order_failed) or the plan is switched off again and again.
CapturedEventuallyPaid ==
    \A p \in Payments, o \in Orders :
        payState[p] = "captured" /\ payOrder[p] = o /\ Charged[p] = Price
            ~> subs[o].pay \in {"PAID", "FAILED"} \/ ~planActive

=============================================================================
