----------------------- MODULE RazorpayPayments_proofs -----------------------
(***************************************************************************)
(* Theorems about RazorpayPayments, for every set of owners, orders,       *)
(* payments and request sessions.                                          *)
(***************************************************************************)
EXTENDS RazorpayPayments, TLAPS

-----------------------------------------------------------------------------
\* The inductive invariant.  It adds to the type invariant which row a
\* session works on at each step, that the session completing an order holds
\* its row lock, and that every copy of a paid row, committed or not yet,
\* names the captured payment that paid it.

OrderSteps == Completing \cup {"insertPending", "fetchOrder", "fetchPayments", "lock", "markFailed"}
OwnerSteps == {"expire", "postOrder", "insertPending", "ensureDefault", "insertDefault"}

JobsOK ==
    \A s \in Sessions :
        /\ pc[s] \in OrderSteps => job[s].row \in Orders
        /\ pc[s] = "expire" => job[s].row \in Rows
        /\ pc[s] \in OwnerSteps => job[s].owner \in Owners

PaymentsPlaced ==
    \A p \in Payments : payState[p] # "none" => payOrder[p] \in Orders

LocksHeld == \A s \in Sessions : pc[s] \in Completing => lock[job[s].row] = s

PaidBy(row, o) ==
    row.pay = "PAID" => /\ row.payId \in Payments
                        /\ ValidPayment(row.payId, o)

PaidRows ==
    \A o \in Orders :
        /\ PaidBy(subs[o], o)
        /\ \A s \in Sessions : PaidBy(buf[s][o], o)

PaymentsChecked ==
    \A s \in Sessions :
        /\ pc[s] \in Completing \cup {"lock"} => job[s].pay \in Payments
        /\ pc[s] \in {"expireDuplicates", "activate"} =>
               ValidPayment(job[s].pay, job[s].row)

-----------------------------------------------------------------------------
\* Types of the operators the actions are built from.

LEMMA RowTypes ==
    /\ NoRow \in Row
    /\ \A u \in Owners : PendingRow(u) \in Row /\ DefaultRow(u) \in Row
    /\ \A r \in Row, p \in Payments \cup {NoPayment} : Activated(r, p) \in Row
    /\ \A r \in Row : [r EXCEPT !.status = "EXPIRED"] \in Row
    /\ \A r \in Row : [r EXCEPT !.status = "PAYMENT_FAILED", !.pay = "FAILED"] \in Row
    /\ \A r \in Row : [r EXCEPT !.over = TRUE] \in Row
  BY DEF Row, NoRow, PendingRow, DefaultRow, Activated, Statuses, PaymentStatuses

LEMMA SessionTypes ==
    ASSUME TypeOK, NEW s \in Sessions
    PROVE  /\ View(s) \in [Rows -> Row]
           /\ \A r \in Rows : Seen(s, r) \in Row
           /\ Unlocked(s) \in [Rows -> Sessions \cup {Free}]
           /\ \A R : LockedBy(s, R) \in [Rows -> Sessions \cup {Free}]
<1>1. View(s) \in [Rows -> Row]
  BY DEF TypeOK, View
<1>2. ASSUME NEW r \in Rows PROVE Seen(s, r) \in Row
  BY <1>1 DEF TypeOK, Seen
<1>3. Unlocked(s) \in [Rows -> Sessions \cup {Free}]
  BY DEF TypeOK, Unlocked
<1>4. ASSUME NEW R PROVE LockedBy(s, R) \in [Rows -> Sessions \cup {Free}]
  BY DEF TypeOK, LockedBy
<1>. QED
  BY <1>1, <1>2, <1>3, <1>4

\* A commit leaves the rows its session did not write, and of those it wrote
\* everything but the end date as the session has it.
LEMMA CommittedRows ==
    ASSUME TypeOK, NEW s \in Sessions
    PROVE  /\ Committed(s) \in [Rows -> Row]
           /\ \A r \in Rows :
                /\ Committed(s)[r] = IF buf[s][r] = NoRow THEN subs[r]
                                     ELSE [buf[s][r] EXCEPT !.over = subs[r].over]
                /\ Committed(s)[r].pay = View(s)[r].pay
                /\ Committed(s)[r].payId = View(s)[r].payId
<1>1. ASSUME NEW r \in Rows
      PROVE  /\ Committed(s)[r] \in Row
             /\ Committed(s)[r] = IF buf[s][r] = NoRow THEN subs[r]
                                  ELSE [buf[s][r] EXCEPT !.over = subs[r].over]
             /\ Committed(s)[r].pay = View(s)[r].pay
             /\ Committed(s)[r].payId = View(s)[r].payId
  <2>1. subs[r] \in Row /\ buf[s][r] \in Row /\ View(s)[r] \in Row
    BY SessionTypes DEF TypeOK
  <2>2. Committed(s)[r] = [View(s)[r] EXCEPT !.over = subs[r].over]
    BY DEF Committed
  <2>3. View(s)[r] = IF buf[s][r] = NoRow THEN subs[r] ELSE buf[s][r]
    BY DEF View
  <2>4. [subs[r] EXCEPT !.over = subs[r].over] = subs[r]
    BY <2>1 DEF Row
  <2>. QED
    BY <2>1, <2>2, <2>3, <2>4 DEF Row
<1>2. Committed(s) = [r \in Rows |-> Committed(s)[r]]
  BY DEF Committed
<1>. QED
  BY <1>1, <1>2

\* What an action leaves typed of the sessions' state.
SessionsTyped ==
    /\ lock \in [Rows -> Sessions \cup {Free}]
    /\ pc \in [Sessions -> Steps]
    /\ job \in [Sessions -> Job]
    /\ loaded \in [Sessions -> [Rows -> Row]]
    /\ buf \in [Sessions -> [Rows -> Row]]
    /\ todo \subseteq Orders

LEMMA CloseTypes ==
    ASSUME TypeOK, NEW s \in Sessions, Close(s)
    PROVE  SessionsTyped'
<1>1. lock' \in [Rows -> Sessions \cup {Free}]
  BY SessionTypes DEF Close
<1>2. pc' \in [Sessions -> Steps]
  BY DEF TypeOK, Close, Steps
<1>3. job' \in [Sessions -> Job]
  BY DEF TypeOK, Close, NoJob, Job
<1>4. Nothing \in [Rows -> Row]
  BY RowTypes DEF Nothing
<1>5. loaded' \in [Sessions -> [Rows -> Row]] /\ buf' \in [Sessions -> [Rows -> Row]]
  BY <1>4 DEF TypeOK, Close
<1>6. todo' \subseteq Orders
  BY DEF TypeOK, Close
<1>. QED
  BY <1>1, <1>2, <1>3, <1>5, <1>6 DEF SessionsTyped

LEMMA ReturnTypes ==
    ASSUME TypeOK, NEW s \in Sessions, NEW R, Return(s, R)
    PROVE  SessionsTyped'
<1>1. CASE Close(s)
  BY <1>1, CloseTypes
<1>2. CASE /\ pc' = [pc EXCEPT ![s] = "next"]
           /\ lock' = LockedBy(s, R)
           /\ UNCHANGED <<job, loaded, buf, todo>>
  BY <1>2, SessionTypes DEF TypeOK, SessionsTyped, Steps
<1>. QED
  BY <1>1, <1>2 DEF Return

LEMMA BeginTypes ==
    ASSUME TypeOK, NEW s, NEW op \in Handlers, NEW u \in Owners \cup {Nobody},
           NEW r \in Rows \cup {Nobody}, NEW p \in Payments \cup {NoPayment},
           NEW e \in BOOLEAN, NEW R, NEW step \in Steps,
           Begin(s, op, u, r, p, e, R, step)
    PROVE  TypeOK'
<1>1. NewJob(op, u, r, p, e) \in Job
  BY DEF NewJob, Job
<1>2. [x \in Rows |-> IF x \in R THEN subs[x] ELSE NoRow] \in [Rows -> Row]
  BY RowTypes DEF TypeOK
<1>3. job' \in [Sessions -> Job] /\ loaded' \in [Sessions -> [Rows -> Row]]
  BY <1>1, <1>2 DEF TypeOK, Begin
<1>4. pc' \in [Sessions -> Steps]
  BY DEF TypeOK, Begin, Goto
<1>. QED
  BY <1>3, <1>4 DEF TypeOK, Begin, dbVars, providerVars, ProviderTypeOK

-----------------------------------------------------------------------------
\* Type correctness, with what it needs: which rows the sessions work on.

TypedJobs == TypeOK /\ JobsOK /\ PaymentsPlaced

LEMMA InitTyped == Init => TypedJobs
<1>. SUFFICES ASSUME Init PROVE TypedJobs
  OBVIOUS
<1>1. subs \in [Rows -> Row]
  BY RowTypes DEF Init, Rows
<1>2. Nothing \in [Rows -> Row]
  BY RowTypes DEF Nothing
<1>3. SessionsTyped
  BY <1>2 DEF Init, SessionsTyped, NoJob, Job, Steps
<1>4. ProviderTypeOK
  BY DEF Init, ProviderInit, ProviderTypeOK, OrderStates, PayStates
<1>5. TypeOK
  BY <1>1, <1>3, <1>4 DEF Init, TypeOK, SessionsTyped
<1>6. JobsOK /\ PaymentsPlaced
  BY DEF Init, ProviderInit, JobsOK, PaymentsPlaced, OrderSteps, OwnerSteps, Completing
<1>. QED
  BY <1>5, <1>6 DEF TypedJobs

LEMMA ArriveTyped ==
    ASSUME TypedJobs, NEW s \in Requests, Arrive(s)
    PROVE  TypeOK'
<1>. USE DEF TypedJobs
<1>1. ASSUME NEW u \in Owners, CreateOrder(s, u) PROVE TypeOK'
  <2>1. ASSUME NEW o \in PendingOf(subs, u),
               Begin(s, "create", u, o, NoPayment, FALSE, {o}, "fetchOrder")
        PROVE TypeOK'
    BY <2>1, BeginTypes DEF PendingOf, Rows, Handlers, Steps
  <2>2. ASSUME NEW r \in ActiveOf(subs, u),
               Begin(s, "create", u, r, NoPayment, FALSE, {r}, "expire")
        PROVE TypeOK'
    BY <2>2, BeginTypes DEF ActiveOf, Handlers, Steps
  <2>3. ASSUME Begin(s, "create", u, Nobody, NoPayment, FALSE, {}, "postOrder")
        PROVE TypeOK'
    BY <2>3, BeginTypes DEF Handlers, Steps
  <2>. QED
    BY <1>1, <2>1, <2>2, <2>3 DEF CreateOrder
<1>2. ASSUME NEW u \in Owners, SyncPending(s, u) PROVE TypeOK'
  BY <1>2, BeginTypes DEF SyncPending, PendingOf, Rows, Handlers, Steps
<1>3. ASSUME NEW u \in Owners, LookUpActive(s, u) PROVE TypeOK'
  <2>1. ASSUME NEW r \in ActiveOf(subs, u),
               Begin(s, "lookup", u, r, NoPayment, FALSE, {r}, "expire")
        PROVE TypeOK'
    BY <2>1, BeginTypes DEF ActiveOf, Handlers, Steps
  <2>2. ASSUME Begin(s, "lookup", u, Nobody, NoPayment, FALSE, {}, "insertDefault")
        PROVE TypeOK'
    BY <2>2, BeginTypes DEF Handlers, Steps
  <2>. QED
    BY <1>3, <2>1, <2>2 DEF LookUpActive
<1>4. ASSUME NEW p \in Payments, WebhookCaptured(s, p) PROVE TypeOK'
  <2>1. payOrder[p] \in Rows
    BY <1>4 DEF WebhookCaptured, PaymentsPlaced, Rows
  <2>2. ASSUME Begin(s, "webhook", Nobody, payOrder[p], p, TRUE, {}, "lock") PROVE TypeOK'
    BY <2>1, <2>2, BeginTypes DEF Handlers, Steps
  <2>3. ASSUME Begin(s, "webhook", Nobody, payOrder[p], NoPayment, FALSE, {}, "fetchPayments")
        PROVE TypeOK'
    BY <2>1, <2>3, BeginTypes DEF Handlers, Steps
  <2>. QED
    BY <1>4, <2>2, <2>3 DEF WebhookCaptured
<1>5. ASSUME NEW p \in Payments, VerifyCheckout(s, p) PROVE TypeOK'
  <2>1. payOrder[p] \in Rows
    BY <1>5 DEF VerifyCheckout, PaymentsPlaced, Rows
  <2>. QED
    BY <1>5, <2>1, BeginTypes DEF VerifyCheckout, Handlers, Steps
<1>6. ASSUME NEW p \in Payments, WebhookFailed(s, p) PROVE TypeOK'
  <2>1. payOrder[p] \in Rows
    BY <1>6 DEF WebhookFailed, PaymentsPlaced, Rows
  <2>. QED
    BY <1>6, <2>1, BeginTypes DEF WebhookFailed, Handlers, Steps
<1>. QED
  BY <1>1, <1>2, <1>3, <1>4, <1>5, <1>6 DEF Arrive

LEMMA HandleTyped ==
    ASSUME TypedJobs, NEW s \in Sessions, Handle(s)
    PROVE  TypeOK'
<1>. USE DEF TypedJobs
<1>. DEFINE SameRest == UNCHANGED <<subs, verified, keys, planActive, providerVars>>
<1>1. ASSUME SessionsTyped', SameRest PROVE TypeOK'
  BY <1>1 DEF TypeOK, SessionsTyped, providerVars, ProviderTypeOK
<1>2. ASSUME NEW step \in Steps, Goto(s, step), UNCHANGED <<lock, job, loaded, buf, todo>>
      PROVE  SessionsTyped'
  BY <1>2 DEF TypeOK, SessionsTyped, Goto
<1>3. ASSUME ExpireLapsed(s) PROVE TypeOK'
  <2>1. CASE Close(s) /\ UNCHANGED subs
    BY <1>1, <1>3, <2>1, CloseTypes DEF ExpireLapsed
  <2>2. CASE /\ subs' = IF Replaced(job[s].row) THEN subs
                        ELSE [subs EXCEPT ![job[s].row].status = "EXPIRED"]
             /\ Goto(s, IF job[s].op = "create" THEN "postOrder" ELSE "ensureDefault")
             /\ UNCHANGED <<lock, job, loaded, buf, todo>>
    <3>1. job[s].row \in Rows
      BY <1>3 DEF ExpireLapsed, JobsOK
    <3>2. subs' \in [Rows -> Row]
      BY <2>2, <3>1, RowTypes DEF TypeOK
    <3>3. SessionsTyped'
      BY <1>2, <2>2 DEF Steps
    <3>. QED
      BY <1>3, <3>2, <3>3 DEF ExpireLapsed, TypeOK, SessionsTyped, providerVars, ProviderTypeOK
  <2>. QED
    BY <1>3, <2>1, <2>2 DEF ExpireLapsed
<1>4. ASSUME PostOrder(s) PROVE TypeOK'
  <2>1. ASSUME Close(s), UNCHANGED providerVars PROVE TypeOK'
    BY <1>1, <1>4, <2>1, CloseTypes DEF PostOrder
  <2>2. ASSUME NEW o \in Orders, ProviderCreatesOrder(o), Goto(s, "insertPending"),
               job' = [job EXCEPT ![s].row = o], UNCHANGED <<lock, loaded, buf, todo>>
        PROVE TypeOK'
    <3>1. SessionsTyped'
      BY <2>2 DEF TypeOK, SessionsTyped, Goto, Steps, Job, Rows
    <3>2. ProviderTypeOK'
      BY <2>2 DEF TypeOK, ProviderTypeOK, ProviderCreatesOrder, OrderStates
    <3>. QED
      BY <1>4, <3>1, <3>2 DEF PostOrder, TypeOK, SessionsTyped
  <2>. QED
    BY <1>4, <2>1, <2>2 DEF PostOrder
<1>5. ASSUME InsertPending(s) PROVE TypeOK'
  <2>1. subs' \in [Rows -> Row]
    <3>1. job[s].owner \in Owners
      BY <1>5 DEF InsertPending, JobsOK, OwnerSteps
    <3>. QED
      BY <1>5, <3>1, RowTypes DEF InsertPending, TypeOK
  <2>2. SessionsTyped'
    BY <1>5, CloseTypes DEF InsertPending
  <2>. QED
    BY <1>5, <2>1, <2>2 DEF InsertPending, TypeOK, SessionsTyped, providerVars, ProviderTypeOK
<1>6. ASSUME FetchOrder(s) PROVE TypeOK'
  BY <1>1, <1>2, <1>6, ReturnTypes DEF FetchOrder, Steps
<1>7. ASSUME FetchOrderPayments(s) PROVE TypeOK'
  <2>1. ASSUME Return(s, {}) PROVE SessionsTyped'
    BY <2>1, ReturnTypes
  <2>2. ASSUME NEW p \in ReportedPayments(job[s].row), Goto(s, "lock"),
               job' = [job EXCEPT ![s].pay = p], UNCHANGED <<lock, loaded, buf, todo>>
        PROVE SessionsTyped'
    <3>1. p \in Payments
      BY <2>2 DEF ReportedPayments
    <3>2. [job[s] EXCEPT !.pay = p] \in Job
      BY <3>1 DEF TypeOK, Job
    <3>. QED
      BY <2>2, <3>2 DEF TypeOK, SessionsTyped, Goto, Steps
  <2>. QED
    BY <1>1, <1>7, <2>1, <2>2 DEF FetchOrderPayments
<1>8. ASSUME LockOrder(s) PROVE TypeOK'
  <2>1. ASSUME NEW R, Return(s, R) PROVE SessionsTyped'
    BY <2>1, ReturnTypes
  <2>2. ASSUME Goto(s, "fetchPayment"), lock' = LockedBy(s, {job[s].row}),
               loaded' = [loaded EXCEPT ![s][job[s].row] = Seen(s, job[s].row)],
               UNCHANGED <<job, buf, todo>>
        PROVE SessionsTyped'
    <3>1. job[s].row \in Rows
      BY <1>8 DEF LockOrder, JobsOK, OrderSteps, Rows
    <3>2. Seen(s, job[s].row) \in Row
      BY <3>1, SessionTypes
    <3>3. loaded' \in [Sessions -> [Rows -> Row]]
      BY <2>2, <3>1, <3>2 DEF TypeOK
    <3>4. lock' \in [Rows -> Sessions \cup {Free}]
      BY <2>2, SessionTypes
    <3>. QED
      BY <2>2, <3>3, <3>4 DEF TypeOK, SessionsTyped, Goto, Steps
  <2>. QED
    BY <1>1, <1>8, <2>1, <2>2 DEF LockOrder
<1>9. ASSUME FetchAndValidate(s) PROVE TypeOK'
  BY <1>1, <1>2, <1>9, ReturnTypes DEF FetchAndValidate, Steps
<1>10. ASSUME ExpireDuplicates(s) PROVE TypeOK'
  <2>. DEFINE dups == DuplicatesOf(View(s), loaded[s][job[s].row].owner, job[s].row)
  <2>1. [r \in Rows |-> IF r \in dups THEN [View(s)[r] EXCEPT !.status = "EXPIRED"]
                                      ELSE buf[s][r]] \in [Rows -> Row]
    BY SessionTypes, RowTypes DEF TypeOK
  <2>2. buf' \in [Sessions -> [Rows -> Row]]
    BY <1>10, <2>1 DEF ExpireDuplicates, TypeOK
  <2>3. lock' \in [Rows -> Sessions \cup {Free}]
    BY <1>10, SessionTypes DEF ExpireDuplicates
  <2>. QED
    BY <1>10, <2>2, <2>3 DEF ExpireDuplicates, TypeOK, Goto, Steps, providerVars, ProviderTypeOK
<1>11. ASSUME Activate(s) PROVE TypeOK'
  <2>. DEFINE o == job[s].row
              paid == Activated(View(s)[o], job[s].pay)
              e == <<o, Source(job[s].op)>>
  <2>1. o \in Orders /\ o \in Rows
    BY <1>11 DEF Activate, JobsOK, OrderSteps, Completing, Rows
  <2>2. paid \in Row
    BY <2>1, SessionTypes, RowTypes DEF TypeOK, Job
  <2>3. ASSUME Close(s), UNCHANGED <<subs, verified, keys>> PROVE TypeOK'
    BY <1>1, <1>11, <2>3, CloseTypes DEF Activate
  <2>4. ASSUME subs' = [Committed(s) EXCEPT ![o] = paid],
               verified' = [verified EXCEPT ![o] = IF @ < 2 THEN @ + 1 ELSE @],
               keys' = keys \cup {e}, Close(s)
        PROVE TypeOK'
    <3>1. subs' \in [Rows -> Row]
      BY <2>1, <2>2, <2>4, CommittedRows
    <3>2. verified' \in [Orders -> 0..2]
      BY <2>1, <2>4 DEF TypeOK
    <3>3. keys' \subseteq Orders \X Sources
      BY <2>1, <2>4 DEF TypeOK, Source, Sources
    <3>4. SessionsTyped'
      BY <2>4, CloseTypes
    <3>. QED
      BY <1>11, <3>1, <3>2, <3>3, <3>4 DEF Activate, TypeOK, SessionsTyped, providerVars, ProviderTypeOK
  <2>5. ASSUME buf' = [buf EXCEPT ![s][o] = paid], Goto(s, "next"),
               UNCHANGED <<subs, verified, keys, lock, job, loaded, todo>>
        PROVE TypeOK'
    <3>1. buf' \in [Sessions -> [Rows -> Row]]
      BY <2>1, <2>2, <2>5 DEF TypeOK
    <3>. QED
      BY <1>11, <2>5, <3>1 DEF Activate, TypeOK, Goto, Steps, providerVars, ProviderTypeOK
  <2>. QED
    BY <1>11, <2>3, <2>4, <2>5 DEF Activate
<1>12. ASSUME MarkOrderFailed(s) PROVE TypeOK'
  <2>1. job[s].row \in Rows
    BY <1>12 DEF MarkOrderFailed, JobsOK, OrderSteps, Rows
  <2>2. subs' \in [Rows -> Row]
    BY <1>12, <2>1, RowTypes DEF MarkOrderFailed, TypeOK
  <2>3. SessionsTyped'
    BY <1>12, CloseTypes DEF MarkOrderFailed
  <2>. QED
    BY <1>12, <2>2, <2>3 DEF MarkOrderFailed, TypeOK, SessionsTyped, providerVars, ProviderTypeOK
<1>13. ASSUME EnsureDefault(s) PROVE TypeOK'
  BY <1>1, <1>2, <1>13, CloseTypes DEF EnsureDefault, Steps
<1>14. ASSUME InsertDefault(s) PROVE TypeOK'
  <2>1. job[s].owner \in Owners
    BY <1>14 DEF InsertDefault, JobsOK, OwnerSteps
  <2>2. subs' \in [Rows -> Row]
    BY <1>14, <2>1, RowTypes DEF InsertDefault, TypeOK
  <2>3. SessionsTyped'
    BY <1>14, CloseTypes DEF InsertDefault
  <2>. QED
    BY <1>14, <2>2, <2>3 DEF InsertDefault, TypeOK, SessionsTyped, providerVars, ProviderTypeOK
<1>. QED
  BY <1>3, <1>4, <1>5, <1>6, <1>7, <1>8, <1>9, <1>10, <1>11, <1>12, <1>13, <1>14 DEF Handle

\* No step moves a session onto a row or owner it does not know.
LEMMA HandleJobs ==
    ASSUME TypedJobs, NEW s \in Sessions, Handle(s)
    PROVE  JobsOK' /\ PaymentsPlaced'
<1>. USE DEF TypedJobs, OrderSteps, OwnerSteps, Completing
<1>1. ASSUME NEW step, Goto(s, step), job' = job,
             step \in OrderSteps => job[s].row \in Orders,
             step = "expire" => job[s].row \in Rows,
             step \in OwnerSteps => job[s].owner \in Owners
      PROVE  JobsOK'
  BY <1>1 DEF Goto, JobsOK, TypeOK
<1>2. ASSUME Close(s) PROVE JobsOK'
  BY <1>2 DEF Close, JobsOK, TypeOK
<1>3. ASSUME NEW R, Return(s, R) PROVE JobsOK'
  BY <1>1, <1>2, <1>3 DEF Return, Goto
<1>4. ASSUME UNCHANGED providerVars PROVE PaymentsPlaced'
  BY <1>4 DEF providerVars, PaymentsPlaced
<1>5. ASSUME ExpireLapsed(s) PROVE JobsOK' /\ PaymentsPlaced'
  <2>1. job[s].owner \in Owners
    BY <1>5 DEF ExpireLapsed, JobsOK
  <2>. QED
    BY <1>1, <1>2, <1>4, <1>5, <2>1 DEF ExpireLapsed
<1>6. ASSUME PostOrder(s) PROVE JobsOK' /\ PaymentsPlaced'
  <2>1. ASSUME NEW o \in Orders, ProviderCreatesOrder(o), Goto(s, "insertPending"),
               job' = [job EXCEPT ![s].row = o]
        PROVE JobsOK' /\ PaymentsPlaced'
    BY <1>6, <2>1 DEF PostOrder, JobsOK, Goto, TypeOK, Job, PaymentsPlaced, ProviderCreatesOrder
  <2>. QED
    BY <1>2, <1>4, <1>6, <2>1 DEF PostOrder
<1>7. ASSUME FetchOrderPayments(s) PROVE JobsOK' /\ PaymentsPlaced'
  <2>1. ASSUME NEW p, Goto(s, "lock"), job' = [job EXCEPT ![s].pay = p]
        PROVE JobsOK'
    BY <1>7, <2>1 DEF FetchOrderPayments, JobsOK, Goto, TypeOK, Job
  <2>. QED
    BY <1>3, <1>4, <1>7, <2>1 DEF FetchOrderPayments
<1>8. ASSUME FetchOrder(s) PROVE JobsOK' /\ PaymentsPlaced'
  BY <1>1, <1>3, <1>4, <1>8 DEF FetchOrder, JobsOK
<1>9. ASSUME LockOrder(s) PROVE JobsOK' /\ PaymentsPlaced'
  BY <1>1, <1>3, <1>4, <1>9 DEF LockOrder, JobsOK
<1>10. ASSUME FetchAndValidate(s) PROVE JobsOK' /\ PaymentsPlaced'
  BY <1>1, <1>3, <1>4, <1>10 DEF FetchAndValidate, JobsOK
<1>11. ASSUME ExpireDuplicates(s) PROVE JobsOK' /\ PaymentsPlaced'
  BY <1>1, <1>4, <1>11 DEF ExpireDuplicates, JobsOK
<1>12. ASSUME Activate(s) PROVE JobsOK' /\ PaymentsPlaced'
  BY <1>1, <1>2, <1>4, <1>12 DEF Activate, JobsOK
<1>13. ASSUME InsertPending(s) \/ MarkOrderFailed(s) \/ InsertDefault(s)
       PROVE  JobsOK' /\ PaymentsPlaced'
  BY <1>2, <1>4, <1>13 DEF InsertPending, MarkOrderFailed, InsertDefault
<1>14. ASSUME EnsureDefault(s) PROVE JobsOK' /\ PaymentsPlaced'
  BY <1>1, <1>2, <1>4, <1>14 DEF EnsureDefault, JobsOK
<1>. QED
  BY <1>5, <1>6, <1>7, <1>8, <1>9, <1>10, <1>11, <1>12, <1>13, <1>14 DEF Handle

LEMMA BeginJobs ==
    ASSUME TypedJobs, NEW s, NEW op \in Handlers, NEW u \in Owners \cup {Nobody},
           NEW r \in Rows \cup {Nobody}, NEW p \in Payments \cup {NoPayment},
           NEW e \in BOOLEAN, NEW R, NEW step \in Steps,
           step \in OrderSteps => r \in Orders,
           step = "expire" => r \in Rows,
           step \in OwnerSteps => u \in Owners,
           Begin(s, op, u, r, p, e, R, step)
    PROVE  JobsOK' /\ PaymentsPlaced'
  BY DEF TypedJobs, Begin, Goto, NewJob, JobsOK, PaymentsPlaced, TypeOK, providerVars, Sessions

LEMMA ArriveJobs ==
    ASSUME TypedJobs, NEW s \in Requests, Arrive(s)
    PROVE  JobsOK' /\ PaymentsPlaced'
<1>. USE DEF OrderSteps, OwnerSteps, Completing, Steps, Handlers
<1>1. ASSUME NEW u \in Owners, CreateOrder(s, u) PROVE JobsOK' /\ PaymentsPlaced'
  <2>1. ASSUME NEW o \in PendingOf(subs, u),
               Begin(s, "create", u, o, NoPayment, FALSE, {o}, "fetchOrder")
        PROVE  JobsOK' /\ PaymentsPlaced'
    BY <2>1, BeginJobs DEF PendingOf, Rows
  <2>2. ASSUME NEW r \in ActiveOf(subs, u),
               Begin(s, "create", u, r, NoPayment, FALSE, {r}, "expire")
        PROVE  JobsOK' /\ PaymentsPlaced'
    BY <2>2, BeginJobs DEF ActiveOf
  <2>3. ASSUME Begin(s, "create", u, Nobody, NoPayment, FALSE, {}, "postOrder")
        PROVE  JobsOK' /\ PaymentsPlaced'
    BY <2>3, BeginJobs
  <2>. QED
    BY <1>1, <2>1, <2>2, <2>3 DEF CreateOrder
<1>2. ASSUME NEW u \in Owners, SyncPending(s, u) PROVE JobsOK' /\ PaymentsPlaced'
  BY <1>2, BeginJobs DEF SyncPending, PendingOf, Rows
<1>3. ASSUME NEW u \in Owners, LookUpActive(s, u) PROVE JobsOK' /\ PaymentsPlaced'
  <2>1. ASSUME NEW r \in ActiveOf(subs, u),
               Begin(s, "lookup", u, r, NoPayment, FALSE, {r}, "expire")
        PROVE  JobsOK' /\ PaymentsPlaced'
    BY <2>1, BeginJobs DEF ActiveOf
  <2>2. ASSUME Begin(s, "lookup", u, Nobody, NoPayment, FALSE, {}, "insertDefault")
        PROVE  JobsOK' /\ PaymentsPlaced'
    BY <2>2, BeginJobs
  <2>. QED
    BY <1>3, <2>1, <2>2 DEF LookUpActive
<1>4. ASSUME NEW p \in Payments, WebhookCaptured(s, p) PROVE JobsOK' /\ PaymentsPlaced'
  <2>1. payOrder[p] \in Orders /\ payOrder[p] \in Rows
    BY <1>4 DEF WebhookCaptured, TypedJobs, PaymentsPlaced, Rows
  <2>2. ASSUME Begin(s, "webhook", Nobody, payOrder[p], p, TRUE, {}, "lock")
        PROVE  JobsOK' /\ PaymentsPlaced'
    BY <2>1, <2>2, BeginJobs
  <2>3. ASSUME Begin(s, "webhook", Nobody, payOrder[p], NoPayment, FALSE, {}, "fetchPayments")
        PROVE  JobsOK' /\ PaymentsPlaced'
    BY <2>1, <2>3, BeginJobs
  <2>. QED
    BY <1>4, <2>2, <2>3 DEF WebhookCaptured
<1>5. ASSUME NEW p \in Payments, VerifyCheckout(s, p) \/ WebhookFailed(s, p)
      PROVE  JobsOK' /\ PaymentsPlaced'
  <2>1. payOrder[p] \in Orders /\ payOrder[p] \in Rows
    BY <1>5 DEF VerifyCheckout, WebhookFailed, TypedJobs, PaymentsPlaced, Rows
  <2>. QED
    BY <1>5, <2>1, BeginJobs DEF VerifyCheckout, WebhookFailed
<1>. QED
  BY <1>1, <1>2, <1>3, <1>4, <1>5 DEF Arrive

LEMMA OthersTyped ==
    ASSUME TypedJobs,
           \/ \E s \in Sessions : Interrupted(s)
           \/ SchedulerActs
           \/ CustomerActs
           \/ \E r \in Rows : Lapse(r)
           \/ PlanSwitched \/ AnnouncementDeleted
           \/ UNCHANGED vars
    PROVE  TypedJobs'
<1>. USE DEF TypedJobs
<1>1. ASSUME NEW s \in Sessions, Close(s), UNCHANGED <<subs, verified, keys, planActive, providerVars>>
      PROVE  TypedJobs'
  <2>1. TypeOK'
    BY <1>1, CloseTypes DEF TypeOK, SessionsTyped, providerVars, ProviderTypeOK
  <2>2. JobsOK' /\ PaymentsPlaced'
    BY <1>1 DEF Close, JobsOK, PaymentsPlaced, TypeOK, OrderSteps, OwnerSteps, Completing, providerVars
  <2>. QED
    BY <2>1, <2>2
<1>2. ASSUME SchedulerReads PROVE TypedJobs'
  <2>1. PICK B \in SUBSET UNION {PendingOf(subs, u) : u \in Owners} :
          /\ todo' = B
          /\ loaded' = [loaded EXCEPT ![Scheduler] =
                          [r \in Rows |-> IF r \in B THEN subs[r] ELSE NoRow]]
    BY <1>2 DEF SchedulerReads
  <2>2. todo' \subseteq Orders
    BY <2>1 DEF PendingOf
  <2>3. loaded' \in [Sessions -> [Rows -> Row]]
    BY <2>1, RowTypes DEF TypeOK
  <2>4. TypeOK'
    BY <1>2, <2>2, <2>3 DEF SchedulerReads, TypeOK, Goto, Steps, dbVars, providerVars, ProviderTypeOK
  <2>5. JobsOK' /\ PaymentsPlaced'
    BY <1>2 DEF SchedulerReads, Goto, JobsOK, PaymentsPlaced, TypeOK, OrderSteps, OwnerSteps,
                Completing, providerVars
  <2>. QED
    BY <2>4, <2>5
<1>3. ASSUME SchedulerTakesRow PROVE TypedJobs'
  <2>1. PICK o \in todo :
          /\ todo' = todo \ {o}
          /\ job' = [job EXCEPT ![Scheduler] =
                       NewJob("scheduler", loaded[Scheduler][o].owner, o, NoPayment, FALSE)]
    BY <1>3 DEF SchedulerTakesRow
  <2>2. o \in Orders /\ o \in Rows
    BY DEF TypeOK, Rows
  <2>3. loaded[Scheduler][o].owner \in Owners \cup {Nobody}
    BY <2>2 DEF TypeOK, Sessions, Row
  <2>4. NewJob("scheduler", loaded[Scheduler][o].owner, o, NoPayment, FALSE) \in Job
    BY <2>2, <2>3 DEF NewJob, Job, Handlers
  <2>5. job' \in [Sessions -> Job]
    BY <2>1, <2>4 DEF TypeOK
  <2>6. TypeOK'
    BY <1>3, <2>1, <2>5 DEF SchedulerTakesRow, TypeOK, Goto, Steps, dbVars, providerVars, ProviderTypeOK
  <2>7. JobsOK' /\ PaymentsPlaced'
    BY <1>3, <2>1, <2>2 DEF SchedulerTakesRow, Goto, JobsOK, PaymentsPlaced, TypeOK, NewJob, OrderSteps,
                       OwnerSteps, Completing, providerVars
  <2>. QED
    BY <2>6, <2>7
<1>4. ASSUME CustomerActs PROVE TypedJobs'
  <2>1. ProviderTypeOK' /\ PaymentsPlaced'
    <3>1. ASSUME NEW p \in Payments, NEW o \in Orders, CustomerPays(p, o)
          PROVE  ProviderTypeOK' /\ PaymentsPlaced'
      BY <3>1 DEF CustomerPays, TypeOK, ProviderTypeOK, OrderStates, PayStates, PaymentsPlaced
    <3>2. ASSUME NEW p \in Payments, PaymentCaptured(p)
          PROVE  ProviderTypeOK' /\ PaymentsPlaced'
      BY <3>2 DEF PaymentCaptured, TypeOK, ProviderTypeOK, OrderStates, PayStates, PaymentsPlaced
    <3>3. ASSUME NEW p \in Payments, PaymentFails(p)
          PROVE  ProviderTypeOK' /\ PaymentsPlaced'
      BY <3>3 DEF PaymentFails, TypeOK, ProviderTypeOK, OrderStates, PayStates, PaymentsPlaced
    <3>. QED
      BY <1>4, <3>1, <3>2, <3>3 DEF CustomerActs
  <2>. QED
    BY <1>4, <2>1 DEF CustomerActs, TypeOK, JobsOK, dbVars, sessionVars
<1>5. ASSUME NEW r \in Rows, Lapse(r) PROVE TypedJobs'
  <2>1. subs' \in [Rows -> Row]
    BY <1>5, RowTypes DEF Lapse, TypeOK
  <2>. QED
    BY <1>5, <2>1 DEF Lapse, TypeOK, JobsOK, PaymentsPlaced, sessionVars, providerVars, ProviderTypeOK
<1>6. ASSUME PlanSwitched \/ AnnouncementDeleted PROVE TypedJobs'
  BY <1>6 DEF PlanSwitched, AnnouncementDeleted, TypeOK, JobsOK, PaymentsPlaced, sessionVars, providerVars, ProviderTypeOK
<1>7. ASSUME UNCHANGED vars PROVE TypedJobs'
  BY <1>7 DEF vars, dbVars, TypeOK, JobsOK, PaymentsPlaced, sessionVars, providerVars, ProviderTypeOK
<1>8. Scheduler \in Sessions
  BY DEF Sessions
<1>. QED
  BY <1>1, <1>2, <1>3, <1>4, <1>5, <1>6, <1>7, <1>8 DEF Interrupted, SchedulerActs, SchedulerEnds

LEMMA NextTyped == TypedJobs /\ [Next]_vars => TypedJobs'
<1>. SUFFICES ASSUME TypedJobs, [Next]_vars PROVE TypedJobs'
  OBVIOUS
<1>1. ASSUME NEW s \in Requests, Arrive(s) PROVE TypedJobs'
  BY <1>1, ArriveTyped, ArriveJobs DEF TypedJobs
<1>2. ASSUME NEW s \in Sessions, Handle(s) PROVE TypedJobs'
  BY <1>2, HandleTyped, HandleJobs DEF TypedJobs
<1>. QED
  BY <1>1, <1>2, OthersTyped DEF Next

\* Every reachable state is well typed (the type invariant of the payment
\* flow, its sessions and the provider).
THEOREM TypeCorrect == Spec => []TypeOK
<1>1. Spec => []TypedJobs
  BY InitTyped, NextTyped, PTL DEF Spec
<1>. QED
  BY <1>1, PTL DEF TypedJobs

-----------------------------------------------------------------------------
\* The session that completes an order holds its row lock.

LEMMA LocksOfOthers ==
    ASSUME TypedJobs, LocksHeld, NEW s \in Sessions, NEW t \in Sessions, t # s,
           pc[t] \in Completing,
           \/ lock' = lock
           \/ lock' = Unlocked(s)
           \/ \E R : CanLock(s, R) /\ lock' = LockedBy(s, R)
    PROVE  lock'[job[t].row] = t
<1>1. job[t].row \in Rows /\ lock[job[t].row] = t
  BY DEF TypedJobs, JobsOK, OrderSteps, LocksHeld, Rows
<1>2. CASE lock' = Unlocked(s)
  BY <1>1, <1>2 DEF Unlocked
<1>3. ASSUME NEW R, CanLock(s, R), lock' = LockedBy(s, R) PROVE lock'[job[t].row] = t
  <2>1. job[t].row \notin R
    BY <1>1, <1>3, PaymentsAssumption DEF CanLock
  <2>. QED
    BY <1>1, <1>3, <2>1 DEF LockedBy
<1>. QED
  BY <1>1, <1>2, <1>3

LEMMA HandleLocks ==
    ASSUME TypedJobs, LocksHeld, NEW s \in Sessions, Handle(s)
    PROVE  LocksHeld'
<1>. USE DEF TypedJobs
<1>0. pc \in [Sessions -> Steps] /\ job \in [Sessions -> Job]
  BY DEF TypeOK
<1>. DEFINE Mine == pc'[s] \in Completing => lock'[job'[s].row] = s
            OthersSame == \A t \in Sessions : t # s => pc'[t] = pc[t] /\ job'[t] = job[t]
            LockStep == \/ lock' = lock
                        \/ lock' = Unlocked(s)
                        \/ \E R : CanLock(s, R) /\ lock' = LockedBy(s, R)
<1>1. ASSUME Mine, OthersSame, LockStep PROVE LocksHeld'
  BY <1>1, LocksOfOthers DEF LocksHeld
<1>2. ASSUME Close(s) PROVE LocksHeld'
  BY <1>0, <1>1, <1>2 DEF Close, Completing
<1>3. ASSUME NEW step, Goto(s, step), step \notin Completing, lock' = lock,
             \A t \in Sessions : t # s => job'[t] = job[t]
      PROVE  LocksHeld'
  BY <1>0, <1>1, <1>3 DEF Goto
<1>4. CanLock(s, {})
  BY DEF CanLock
<1>5. ASSUME NEW R, CanLock(s, R), Return(s, R) PROVE LocksHeld'
  <2>1. CASE pc' = [pc EXCEPT ![s] = "next"] /\ lock' = LockedBy(s, R) /\ job' = job
    <3>1. Mine
      BY <1>0, <2>1 DEF Completing
    <3>2. OthersSame
      BY <1>0, <2>1
    <3>3. LockStep
      BY <1>5, <2>1
    <3>. QED
      BY <1>1, <3>1, <3>2, <3>3
  <2>. QED
    BY <1>2, <1>5, <2>1 DEF Return
<1>6. ASSUME ExpireLapsed(s) \/ EnsureDefault(s) PROVE LocksHeld'
  BY <1>2, <1>3, <1>6 DEF ExpireLapsed, EnsureDefault, Completing
<1>7. ASSUME PostOrder(s) PROVE LocksHeld'
  BY <1>0, <1>2, <1>3, <1>7 DEF PostOrder, Completing
<1>8. ASSUME InsertPending(s) \/ MarkOrderFailed(s) \/ InsertDefault(s) PROVE LocksHeld'
  BY <1>2, <1>8 DEF InsertPending, MarkOrderFailed, InsertDefault
<1>9. ASSUME FetchOrder(s) PROVE LocksHeld'
  BY <1>3, <1>4, <1>5, <1>9 DEF FetchOrder, Completing
<1>10. ASSUME FetchOrderPayments(s) PROVE LocksHeld'
  BY <1>0, <1>3, <1>4, <1>5, <1>10 DEF FetchOrderPayments, Completing
<1>11. ASSUME LockOrder(s) PROVE LocksHeld'
  <2>1. CanLock(s, {job[s].row})
    BY <1>11 DEF LockOrder
  <2>2. CASE Goto(s, "fetchPayment") /\ lock' = LockedBy(s, {job[s].row}) /\ job' = job
    <3>1. job[s].row \in Rows
      BY <1>11 DEF LockOrder, JobsOK, OrderSteps, Rows
    <3>2. Mine
      BY <2>2, <3>1 DEF LockedBy
    <3>3. OthersSame
      BY <1>0, <2>2 DEF Goto
    <3>. QED
      BY <1>1, <2>1, <2>2, <3>2, <3>3
  <2>. QED
    BY <1>5, <1>11, <2>1, <2>2 DEF LockOrder
<1>12. ASSUME FetchAndValidate(s) PROVE LocksHeld'
  <2>1. CASE Goto(s, "expireDuplicates") /\ UNCHANGED <<lock, job>>
    BY <1>0, <1>1, <1>12, <2>1 DEF FetchAndValidate, Goto, LocksHeld, Completing
  <2>. QED
    BY <1>4, <1>5, <1>12, <2>1 DEF FetchAndValidate
<1>13. ASSUME ExpireDuplicates(s) PROVE LocksHeld'
  <2>. DEFINE dups == DuplicatesOf(View(s), loaded[s][job[s].row].owner, job[s].row)
  <2>1. CanLock(s, dups) /\ lock' = LockedBy(s, dups) /\ job' = job
    BY <1>13 DEF ExpireDuplicates
  <2>2. LockStep
    BY <2>1
  <2>3. job[s].row \in Rows /\ lock[job[s].row] = s
    BY <1>13 DEF ExpireDuplicates, JobsOK, OrderSteps, LocksHeld, Completing, Rows
  <2>4. Mine
    BY <2>1, <2>3 DEF LockedBy
  <2>5. OthersSame
    BY <1>0, <1>13, <2>1 DEF ExpireDuplicates, Goto
  <2>. QED
    BY <1>1, <2>2, <2>4, <2>5
<1>14. ASSUME Activate(s) PROVE LocksHeld'
  BY <1>2, <1>3, <1>14 DEF Activate, Completing
<1>. QED
  BY <1>6, <1>7, <1>8, <1>9, <1>10, <1>11, <1>12, <1>13, <1>14 DEF Handle

LEMMA NextLocks == TypedJobs /\ LocksHeld /\ [Next]_vars => LocksHeld'
<1>. SUFFICES ASSUME TypedJobs, LocksHeld, [Next]_vars PROVE LocksHeld'
  OBVIOUS
<1>0. pc \in [Sessions -> Steps] /\ job \in [Sessions -> Job]
  BY DEF TypedJobs, TypeOK
<1>1. ASSUME NEW s \in Requests, Arrive(s) PROVE LocksHeld'
  <2>. DEFINE Begun == /\ lock' = lock
                       /\ pc'[s] \notin Completing
                       /\ \A t \in Sessions : t # s => pc'[t] = pc[t] /\ job'[t] = job[t]
  <2>. USE <1>0 DEF Begin, Goto, Completing, dbVars, Sessions
  <2>1. ASSUME NEW u \in Owners, CreateOrder(s, u) PROVE Begun
    BY <2>1 DEF CreateOrder
  <2>2. ASSUME NEW u \in Owners, SyncPending(s, u) \/ LookUpActive(s, u) PROVE Begun
    BY <2>2 DEF SyncPending, LookUpActive
  <2>3. ASSUME NEW p \in Payments, WebhookCaptured(s, p) PROVE Begun
    BY <2>3 DEF WebhookCaptured
  <2>4. ASSUME NEW p \in Payments, VerifyCheckout(s, p) \/ WebhookFailed(s, p) PROVE Begun
    BY <2>4 DEF VerifyCheckout, WebhookFailed
  <2>5. Begun
    BY <1>1, <2>1, <2>2, <2>3, <2>4 DEF Arrive
  <2>. QED
    BY <2>5 DEF LocksHeld
<1>2. ASSUME NEW s \in Sessions, Close(s) PROVE LocksHeld'
  <2>1. \A t \in Sessions : t # s /\ pc[t] \in Completing => lock'[job[t].row] = t
    BY <1>2, LocksOfOthers DEF Close
  <2>. QED
    BY <1>0, <1>2, <2>1 DEF Close, LocksHeld, Completing
<1>3. ASSUME SchedulerReads \/ SchedulerTakesRow PROVE LocksHeld'
  BY <1>0, <1>3 DEF SchedulerReads, SchedulerTakesRow, Goto, LocksHeld, Completing, dbVars, Sessions
<1>4. ASSUME CustomerActs \/ (\E r \in Rows : Lapse(r)) \/ PlanSwitched \/ AnnouncementDeleted \/ UNCHANGED vars
      PROVE  LocksHeld'
  BY <1>4 DEF CustomerActs, Lapse, PlanSwitched, AnnouncementDeleted, vars, LocksHeld, dbVars, sessionVars
<1>. QED
  BY <1>1, <1>2, <1>3, <1>4, HandleLocks
     DEF Next, Interrupted, SchedulerActs, SchedulerEnds, Sessions

\* For any number of concurrent webhooks, checkout confirmations, lookups
\* and the scheduler, at most one session is between locking an order and
\* committing it.
THEOREM OneCompleter == Spec => []SingleCompleter
<1>1. Init => LocksHeld
  BY DEF Init, LocksHeld, Completing
<1>2. LocksHeld => SingleCompleter
  BY DEF LocksHeld, SingleCompleter
<1>3. Spec => [](TypedJobs /\ LocksHeld)
  BY <1>1, InitTyped, NextTyped, NextLocks, PTL DEF Spec
<1>. QED
  BY <1>2, <1>3, PTL

-----------------------------------------------------------------------------
\* Only a captured payment of the order, at the asked price, pays it.

SettleInv == TypedJobs /\ PaidRows /\ PaymentsChecked

\* What the provider has captured stays captured, for the same order.
LEMMA CapturesStay ==
    ASSUME TypeOK, CustomerActs, NEW p \in Payments, NEW o, ValidPayment(p, o)
    PROVE  ValidPayment(p, o)'
<1>1. ASSUME NEW q \in Payments, NEW x \in Orders, CustomerPays(q, x) PROVE ValidPayment(p, o)'
  BY <1>1 DEF CustomerPays, ValidPayment, TypeOK, ProviderTypeOK
<1>2. ASSUME NEW q \in Payments, PaymentCaptured(q) PROVE ValidPayment(p, o)'
  BY <1>2 DEF PaymentCaptured, ValidPayment, TypeOK, ProviderTypeOK
<1>3. ASSUME NEW q \in Payments, PaymentFails(q) PROVE ValidPayment(p, o)'
  BY <1>3 DEF PaymentFails, ValidPayment, TypeOK, ProviderTypeOK
<1>. QED
  BY <1>1, <1>2, <1>3 DEF CustomerActs

LEMMA HandlePaid ==
    ASSUME SettleInv, NEW s \in Sessions, Handle(s)
    PROVE  PaidRows' /\ PaymentsChecked'
<1>. USE DEF SettleInv
<1>0. /\ pc \in [Sessions -> Steps] /\ job \in [Sessions -> Job]
      /\ subs \in [Rows -> Row] /\ buf \in [Sessions -> [Rows -> Row]]
      /\ Orders \subseteq Rows
  BY DEF TypedJobs, TypeOK, Rows
<1>1. UNCHANGED <<payState, payOrder>>
  BY DEF Handle, ExpireLapsed, PostOrder, ProviderCreatesOrder, InsertPending, FetchOrder,
         FetchOrderPayments, LockOrder, FetchAndValidate, ExpireDuplicates, Activate,
         MarkOrderFailed, EnsureDefault, InsertDefault, providerVars
<1>2. \A p, o : ValidPayment(p, o)' <=> ValidPayment(p, o)
  BY <1>1 DEF ValidPayment
<1>3. \A r, o : PaidBy(r, o)' <=> PaidBy(r, o)
  BY <1>2 DEF PaidBy
<1>4. \A o \in Orders : PaidBy(View(s)[o], o) /\ View(s)[o] \in Row
  BY <1>0 DEF PaidRows, View
<1>. DEFINE BufKept == /\ \A t \in Sessions : t # s => buf'[t] = buf[t]
                       /\ \A o \in Orders : PaidBy(buf'[s][o], o)
            SubsKept == \A o \in Orders : PaidBy(subs'[o], o)
            JobKept == /\ \A t \in Sessions : t # s => pc'[t] = pc[t] /\ job'[t] = job[t]
                       /\ pc'[s] \in Completing \cup {"lock"} => job'[s].pay \in Payments
                       /\ pc'[s] \in {"expireDuplicates", "activate"} =>
                              ValidPayment(job'[s].pay, job'[s].row)
<1>5. ASSUME BufKept, SubsKept, JobKept PROVE PaidRows' /\ PaymentsChecked'
  BY <1>2, <1>3, <1>5 DEF PaidRows, PaymentsChecked
<1>6. subs' = subs => SubsKept
  BY DEF PaidRows
<1>7. buf' = buf => BufKept
  BY DEF PaidRows
<1>8. Close(s) => BufKept /\ JobKept
  <2>1. \A o \in Orders : PaidBy(Nothing[o], o)
    BY <1>0 DEF Nothing, NoRow, PaidBy
  <2>. QED
    BY <1>0, <2>1 DEF Close, Completing
<1>9. ASSUME NEW step, Goto(s, step), job' = job, step \notin Completing \cup {"lock"} PROVE JobKept
  BY <1>0, <1>9 DEF Goto, Completing
<1>10. ASSUME NEW R, Return(s, R) PROVE BufKept /\ JobKept
  BY <1>7, <1>8, <1>9, <1>10 DEF Return, Goto, Completing
<1>11. ASSUME ExpireLapsed(s) PROVE PaidRows' /\ PaymentsChecked'
  <2>1. ASSUME subs' = [subs EXCEPT ![job[s].row].status = "EXPIRED"], NEW o \in Orders
        PROVE  PaidBy(subs'[o], o)
    <3>1. subs'[o].pay = subs[o].pay /\ subs'[o].payId = subs[o].payId
      BY <1>0, <2>1 DEF Row
    <3>. QED
      BY <3>1 DEF PaidRows, PaidBy
  <2>2. SubsKept
    BY <1>6, <1>11, <2>1 DEF ExpireLapsed
  <2>3. BufKept /\ JobKept
    BY <1>7, <1>8, <1>9, <1>11 DEF ExpireLapsed, Completing
  <2>. QED
    BY <1>5, <2>2, <2>3
<1>12. ASSUME PostOrder(s) PROVE PaidRows' /\ PaymentsChecked'
  <2>1. BufKept /\ JobKept
    BY <1>0, <1>7, <1>8, <1>12 DEF PostOrder, Goto, Completing
  <2>. QED
    BY <1>5, <1>6, <1>12, <2>1 DEF PostOrder
<1>13. ASSUME InsertPending(s) PROVE PaidRows' /\ PaymentsChecked'
  <2>1. SubsKept
    BY <1>0, <1>6, <1>13 DEF InsertPending, PaidRows, PaidBy, PendingRow
  <2>. QED
    BY <1>5, <1>8, <1>13, <2>1 DEF InsertPending
<1>14. ASSUME FetchOrder(s) PROVE PaidRows' /\ PaymentsChecked'
  BY <1>5, <1>6, <1>7, <1>9, <1>10, <1>14 DEF FetchOrder, Completing
<1>15. ASSUME FetchOrderPayments(s) PROVE PaidRows' /\ PaymentsChecked'
  <2>1. ASSUME NEW p \in ReportedPayments(job[s].row), Goto(s, "lock"),
               job' = [job EXCEPT ![s].pay = p]
        PROVE  JobKept
    <3>1. p \in Payments /\ job'[s].pay = p
      BY <1>0, <2>1 DEF ReportedPayments, Job
    <3>. QED
      BY <1>0, <2>1, <3>1 DEF Goto, Completing
  <2>. QED
    BY <1>5, <1>6, <1>7, <1>10, <1>15, <2>1 DEF FetchOrderPayments
<1>16. ASSUME LockOrder(s) PROVE PaidRows' /\ PaymentsChecked'
  <2>1. ASSUME Goto(s, "fetchPayment"), job' = job PROVE JobKept
    BY <1>0, <1>16, <2>1 DEF LockOrder, Goto, PaymentsChecked
  <2>. QED
    BY <1>5, <1>6, <1>7, <1>10, <1>16, <2>1 DEF LockOrder
<1>17. ASSUME FetchAndValidate(s) PROVE PaidRows' /\ PaymentsChecked'
  <2>1. ASSUME Goto(s, "expireDuplicates"), job' = job, ValidPayment(job[s].pay, job[s].row)
        PROVE  JobKept
    BY <1>0, <1>17, <2>1 DEF FetchAndValidate, Goto, PaymentsChecked, Completing
  <2>. QED
    BY <1>5, <1>6, <1>7, <1>10, <1>17, <2>1 DEF FetchAndValidate
<1>18. ASSUME ExpireDuplicates(s) PROVE PaidRows' /\ PaymentsChecked'
  <2>1. JobKept
    BY <1>0, <1>18 DEF ExpireDuplicates, Goto, PaymentsChecked, Completing
  <2>2. BufKept
    <3>. DEFINE dups == DuplicatesOf(View(s), loaded[s][job[s].row].owner, job[s].row)
    <3>1. \A o \in Orders : buf'[s][o] = IF o \in dups THEN [View(s)[o] EXCEPT !.status = "EXPIRED"]
                                                       ELSE buf[s][o]
      BY <1>0, <1>18 DEF ExpireDuplicates
    <3>2. ASSUME NEW o \in Orders PROVE PaidBy(buf'[s][o], o)
      <4>1. CASE o \in dups
        <5>1. buf'[s][o].pay = View(s)[o].pay /\ buf'[s][o].payId = View(s)[o].payId
          BY <1>4, <3>1, <4>1 DEF Row
        <5>. QED
          BY <1>4, <5>1 DEF PaidBy
      <4>2. CASE o \notin dups
        BY <3>1, <4>2 DEF PaidRows
      <4>. QED
        BY <4>1, <4>2
    <3>3. \A t \in Sessions : t # s => buf'[t] = buf[t]
      BY <1>0, <1>18 DEF ExpireDuplicates
    <3>. QED
      BY <3>2, <3>3
  <2>. QED
    BY <1>5, <1>6, <1>18, <2>1, <2>2 DEF ExpireDuplicates
<1>19. ASSUME Activate(s) PROVE PaidRows' /\ PaymentsChecked'
  <2>. DEFINE o == job[s].row
              paid == Activated(View(s)[o], job[s].pay)
  <2>1. o \in Orders
    BY <1>19 DEF Activate, TypedJobs, JobsOK, OrderSteps, Completing
  <2>2. PaidBy(paid, o)
    <3>1. job[s].pay \in Payments /\ ValidPayment(job[s].pay, o)
      BY <1>19 DEF Activate, PaymentsChecked, Completing
    <3>2. paid.payId = job[s].pay
      BY <1>4, <2>1 DEF Activated, Row
    <3>. QED
      BY <3>1, <3>2 DEF PaidBy
  <2>3. ASSUME Close(s), subs' = subs PROVE PaidRows' /\ PaymentsChecked'
    BY <1>5, <1>6, <1>8, <2>3
  <2>4. ASSUME Close(s), subs' = [Committed(s) EXCEPT ![o] = paid]
        PROVE  PaidRows' /\ PaymentsChecked'
    <3>1. \A q \in Orders : PaidBy(Committed(s)[q], q)
      BY <1>0, <1>4, CommittedRows DEF TypedJobs, PaidBy
    <3>2. Committed(s) \in [Rows -> Row]
      BY CommittedRows DEF TypedJobs
    <3>3. SubsKept
      BY <1>0, <2>2, <2>4, <3>1, <3>2
    <3>. QED
      BY <1>5, <1>8, <2>4, <3>3
  <2>5. ASSUME buf' = [buf EXCEPT ![s][o] = paid], Goto(s, "next"), UNCHANGED <<subs, job>>
        PROVE  PaidRows' /\ PaymentsChecked'
    <3>1. BufKept
      BY <1>0, <2>2, <2>5 DEF PaidRows
    <3>2. JobKept
      BY <1>9, <2>5 DEF Completing
    <3>. QED
      BY <1>5, <1>6, <2>5, <3>1, <3>2
  <2>. QED
    BY <1>19, <2>3, <2>4, <2>5 DEF Activate
<1>20. ASSUME MarkOrderFailed(s) PROVE PaidRows' /\ PaymentsChecked'
  <2>1. SubsKept
    BY <1>0, <1>20 DEF MarkOrderFailed, PaidRows, PaidBy, Row
  <2>. QED
    BY <1>5, <1>8, <1>20, <2>1 DEF MarkOrderFailed
<1>21. ASSUME EnsureDefault(s) PROVE PaidRows' /\ PaymentsChecked'
  BY <1>5, <1>6, <1>7, <1>8, <1>9, <1>21 DEF EnsureDefault, Completing
<1>22. ASSUME InsertDefault(s) PROVE PaidRows' /\ PaymentsChecked'
  <2>1. job[s].owner \notin Orders
    BY <1>22, TableAssumption DEF InsertDefault, TypedJobs, JobsOK, OwnerSteps
  <2>2. SubsKept
    BY <1>0, <1>6, <1>22, <2>1 DEF InsertDefault, PaidRows
  <2>. QED
    BY <1>5, <1>8, <1>22, <2>2 DEF InsertDefault
<1>. QED
  BY <1>11, <1>12, <1>13, <1>14, <1>15, <1>16, <1>17, <1>18, <1>19, <1>20, <1>21, <1>22 DEF Handle

LEMMA NextPaid == SettleInv /\ [Next]_vars => PaidRows' /\ PaymentsChecked'
<1>. SUFFICES ASSUME SettleInv, [Next]_vars PROVE PaidRows' /\ PaymentsChecked'
  OBVIOUS
<1>. USE DEF SettleInv
<1>0. /\ pc \in [Sessions -> Steps] /\ job \in [Sessions -> Job]
      /\ subs \in [Rows -> Row] /\ buf \in [Sessions -> [Rows -> Row]]
      /\ Orders \subseteq Rows /\ TypeOK /\ JobsOK
  BY DEF TypedJobs, TypeOK, Rows
<1>1. ASSUME UNCHANGED providerVars
      PROVE  /\ \A p, o : ValidPayment(p, o)' <=> ValidPayment(p, o)
             /\ \A r, o : PaidBy(r, o)' <=> PaidBy(r, o)
  BY <1>1 DEF providerVars, ValidPayment, PaidBy
<1>2. ASSUME UNCHANGED <<subs, buf, providerVars>> PROVE PaidRows'
  BY <1>1, <1>2 DEF PaidRows
<1>3. ASSUME NEW s \in Requests, Arrive(s) PROVE PaidRows' /\ PaymentsChecked'
  <2>. DEFINE Begun == /\ UNCHANGED <<subs, buf, providerVars>>
                       /\ pc'[s] \notin Completing
                       /\ pc'[s] = "lock" => job'[s].pay \in Payments
                       /\ \A t \in Sessions : t # s => pc'[t] = pc[t] /\ job'[t] = job[t]
  <2>. USE <1>0 DEF Begin, Goto, NewJob, Completing, dbVars, Sessions
  <2>1. ASSUME NEW u \in Owners, CreateOrder(s, u) PROVE Begun
    BY <2>1 DEF CreateOrder
  <2>2. ASSUME NEW u \in Owners, SyncPending(s, u) \/ LookUpActive(s, u) PROVE Begun
    BY <2>2 DEF SyncPending, LookUpActive
  <2>3. ASSUME NEW p \in Payments, WebhookCaptured(s, p) PROVE Begun
    BY <2>3 DEF WebhookCaptured
  <2>4. ASSUME NEW p \in Payments, VerifyCheckout(s, p) \/ WebhookFailed(s, p) PROVE Begun
    BY <2>4 DEF VerifyCheckout, WebhookFailed
  <2>5. Begun
    BY <1>3, <2>1, <2>2, <2>3, <2>4 DEF Arrive
  <2>. QED
    BY <1>1, <1>2, <2>5 DEF PaymentsChecked
<1>4. ASSUME NEW s \in Sessions, Close(s), UNCHANGED <<subs, providerVars>>
      PROVE  PaidRows' /\ PaymentsChecked'
  <2>1. \A o \in Orders : PaidBy(Nothing[o], o)
    BY <1>0 DEF Nothing, NoRow, PaidBy
  <2>. QED
    BY <1>0, <1>1, <1>4, <2>1 DEF Close, PaidRows, PaymentsChecked, Completing
<1>5. ASSUME SchedulerReads \/ SchedulerTakesRow PROVE PaidRows' /\ PaymentsChecked'
  <2>1. UNCHANGED <<subs, buf, providerVars>>
    BY <1>5 DEF SchedulerReads, SchedulerTakesRow, dbVars
  <2>2. /\ pc'[Scheduler] \notin Completing \cup {"lock"}
        /\ \A t \in Sessions : t # Scheduler => pc'[t] = pc[t] /\ job'[t] = job[t]
    BY <1>0, <1>5 DEF SchedulerReads, SchedulerTakesRow, Goto, Completing, Sessions
  <2>. QED
    BY <1>1, <1>2, <2>1, <2>2 DEF PaymentsChecked, Completing
<1>6. ASSUME CustomerActs PROVE PaidRows' /\ PaymentsChecked'
  <2>1. UNCHANGED <<subs, buf, pc, job>>
    BY <1>6 DEF CustomerActs, dbVars, sessionVars
  <2>2. \A p \in Payments : \A o : ValidPayment(p, o) => ValidPayment(p, o)'
    BY <1>0, <1>6, CapturesStay
  <2>3. PaidRows'
    BY <2>1, <2>2 DEF PaidRows, PaidBy
  <2>4. PaymentsChecked'
    BY <2>1, <2>2 DEF PaymentsChecked, Completing
  <2>. QED
    BY <2>3, <2>4
<1>7. ASSUME NEW r \in Rows, Lapse(r) PROVE PaidRows' /\ PaymentsChecked'
  <2>1. ASSUME NEW o \in Orders PROVE PaidBy(subs'[o], o)
    <3>1. subs'[o].pay = subs[o].pay /\ subs'[o].payId = subs[o].payId
      BY <1>0, <1>7 DEF Lapse, Row
    <3>. QED
      BY <3>1 DEF PaidRows, PaidBy
  <2>2. UNCHANGED <<pc, job, buf, providerVars>>
    BY <1>7 DEF Lapse, sessionVars
  <2>. QED
    BY <1>1, <2>1, <2>2 DEF PaidRows, PaymentsChecked
<1>8. ASSUME PlanSwitched \/ AnnouncementDeleted \/ UNCHANGED vars PROVE PaidRows' /\ PaymentsChecked'
  <2>1. UNCHANGED <<subs, buf, pc, job, providerVars>>
    BY <1>8 DEF PlanSwitched, AnnouncementDeleted, vars, dbVars, sessionVars
  <2>. QED
    BY <1>1, <1>2, <2>1 DEF PaymentsChecked
<1>. QED
  BY <1>3, <1>4, <1>5, <1>6, <1>7, <1>8, HandlePaid
     DEF Next, Interrupted, SchedulerActs, SchedulerEnds, Sessions

LEMMA SpecSettle == Spec => []SettleInv
<1>1. Init => PaidRows /\ PaymentsChecked
  BY TableAssumption DEF Init, PaidRows, PaymentsChecked, PaidBy, NoRow, Nothing, Completing, Rows
<1>. QED
  BY <1>1, InitTyped, NextTyped, NextPaid, PTL DEF Spec, SettleInv

\* Whatever webhooks, checkout confirmations and reconciliations race, a
\* subscription is marked paid only by a payment that the provider captured
\* for that order at the asked price.
THEOREM PaidIsCaptured == Spec => []PaidOnlyWhenCaptured
<1>1. SettleInv => PaidOnlyWhenCaptured
  BY DEF SettleInv, PaidRows, PaidBy, PaidOnlyWhenCaptured, ValidPayment
<1>. QED
  BY <1>1, SpecSettle, PTL

-----------------------------------------------------------------------------
\* What the sessions know of the table: the invariant behind the remaining
\* theorems.

Exists(r) == subs[r].owner \in Owners

\* A row is there or empty; an order's is there only if the provider has the
\* order, and payments are made on orders that have one.
RowsInv ==
    /\ \A r \in Rows : Exists(r) \/ subs[r] = NoRow
    /\ \A u \in Owners : Exists(u) => subs[u].owner = u
    /\ \A o \in Orders :
         /\ Exists(o) => orderState[o] # "none" /\ subs[o].pay \in {"PENDING", "PAID", "FAILED"}
         /\ subs[o].status = "PENDING" => subs[o].pay = "PENDING"
    /\ \A p \in Payments : payState[p] # "none" => Exists(payOrder[p])

\* What the two partial unique indexes keep.
Alike(r, q, status) ==
    subs[r].status = status /\ subs[q].status = status /\ subs[r].owner = subs[q].owner

IndexInv ==
    /\ \A r, q \in Rows : Alike(r, q, "ACTIVE") => r = q
    /\ \A o, q \in Orders : Alike(o, q, "PENDING") => o = q

\* A session about to insert the row of an order is the only one.
InsertOf(s) ==
    pc[s] = "insertPending" =>
        /\ orderState[job[s].row] # "none" /\ subs[job[s].row] = NoRow
        /\ \A t \in Sessions : pc[t] = "insertPending" /\ job[t].row = job[s].row => t = s

\* The rows a session works on are there, its copies are of the same owner,
\* and what it has not committed is of rows it has locked.
WorkSteps == Completing \cup {"expire", "fetchOrder", "fetchPayments", "lock", "markFailed"}

CopiesOf(s) ==
    /\ pc[s] \in WorkSteps => Exists(job[s].row)
    /\ pc[s] \in Completing => loaded[s][job[s].row] # NoRow
    /\ \A r \in Rows :
         /\ loaded[s][r] # NoRow => Exists(r) /\ loaded[s][r].owner = subs[r].owner
         /\ buf[s][r] # NoRow => Exists(r) /\ buf[s][r].owner = subs[r].owner /\ lock[r] = s

\* A request holds the lock of the order it completes, and those of the
\* owner's other plans once it has expired them.
RequestOf(s) ==
    \A r \in Rows :
        /\ lock[r] = s => pc[s] \in Completing /\ (r = job[s].row \/ pc[s] = "activate")
        /\ buf[s][r] # NoRow =>
               /\ pc[s] = "activate" /\ r # job[s].row
               /\ subs[r].owner = subs[job[s].row].owner
               /\ buf[s][r].status = "EXPIRED" /\ subs[r].status = "ACTIVE"
               /\ buf[s][r].pay = subs[r].pay

\* The orders of the scheduler's run are of different owners, and the rows it
\* has locked are of owners it has come to already.
Looking == {"fetchOrder", "fetchPayments", "lock"}
Reconciling == pc[Scheduler] \in Completing \cup Looking

TodoInv ==
    \A o \in todo :
        /\ Exists(o)
        /\ \A q \in todo : subs[q].owner = subs[o].owner => q = o
        /\ Reconciling => subs[job[Scheduler].row].owner # subs[o].owner

RunLocksInv ==
    \A r \in Rows : lock[r] = Scheduler =>
        /\ Exists(r) /\ pc[Scheduler] # "idle"
        /\ \A o \in todo : subs[r].owner # subs[o].owner
        /\ subs[r].owner = subs[job[Scheduler].row].owner =>
             /\ pc[Scheduler] \notin Looking
             /\ pc[Scheduler] \in {"fetchPayment", "expireDuplicates"} => r = job[Scheduler].row

SchedulerInv ==
    /\ Reconciling \/ pc[Scheduler] \in {"idle", "next"}
    /\ TodoInv /\ RunLocksInv

FlowInv ==
    /\ RowsInv /\ IndexInv
    /\ \A s \in Sessions : InsertOf(s) /\ CopiesOf(s)
    /\ \A s \in Requests : RequestOf(s)
    /\ SchedulerInv

Flow == TypedJobs /\ LocksHeld /\ FlowInv

-----------------------------------------------------------------------------
\* What a step of one session leaves to the others.

OnlyBy(s) ==
    /\ \A t \in Sessions : t # s => /\ pc'[t] = pc[t] /\ job'[t] = job[t]
                                    /\ loaded'[t] = loaded[t] /\ buf'[t] = buf[t]
                                    /\ \A r \in Rows : lock'[r] = t <=> lock[r] = t
    /\ s # Scheduler => todo' = todo

\* Rows keep their owners, empty orders stay empty, and what other sessions
\* have locked keeps its status and payment.
OwnersKept == \A r \in Rows : Exists(r) => subs'[r].owner = subs[r].owner
EmptyKept == \A o \in Orders : subs[o] = NoRow => subs'[o] = NoRow
HeldKept(s) ==
    \A r \in Rows, t \in Sessions :
        t # s /\ lock[r] = t /\ subs[r].status = "ACTIVE" =>
            subs'[r].status = "ACTIVE" /\ subs'[r].pay = subs[r].pay

LEMMA FlowTypes ==
    ASSUME Flow
    PROVE  /\ subs \in [Rows -> Row] /\ lock \in [Rows -> Sessions \cup {Free}]
           /\ pc \in [Sessions -> Steps] /\ job \in [Sessions -> Job]
           /\ loaded \in [Sessions -> [Rows -> Row]] /\ buf \in [Sessions -> [Rows -> Row]]
           /\ todo \subseteq Orders /\ Orders \subseteq Rows /\ Owners \subseteq Rows
           /\ Requests \subseteq Sessions /\ Scheduler \in Sessions
           /\ Scheduler \notin Requests /\ Free \notin Sessions
           /\ \A s \in Sessions : s = Scheduler \/ s \in Requests
           /\ ~(Nobody \in Owners) /\ NoRow.owner = Nobody
           /\ orderState \in [Orders -> OrderStates] /\ payState \in [Payments -> PayStates]
           /\ payOrder \in [Payments -> Orders \cup {Nobody}]
  BY PaymentsAssumption, TableAssumption
     DEF Flow, TypedJobs, TypeOK, Rows, Sessions, NoRow, ProviderTypeOK

LEMMA OthersKeep ==
    ASSUME Flow, NEW s \in Sessions, OnlyBy(s), OwnersKept, HeldKept(s)
    PROVE  /\ \A t \in Sessions : t # s => CopiesOf(t)'
           /\ \A t \in Requests : t # s => RequestOf(t)'
           /\ s # Scheduler => SchedulerInv'
<1>. USE FlowTypes DEF Flow, FlowInv
<1>1. ASSUME NEW r \in Rows, Exists(r) PROVE Exists(r)' /\ subs'[r].owner = subs[r].owner
  BY <1>1 DEF OwnersKept, Exists
<1>2. ASSUME NEW t \in Sessions, t # s PROVE CopiesOf(t)'
  <2>1. CopiesOf(t)
    OBVIOUS
  <2>2. /\ pc'[t] = pc[t] /\ job'[t] = job[t] /\ loaded'[t] = loaded[t] /\ buf'[t] = buf[t]
        /\ \A r \in Rows : lock'[r] = t <=> lock[r] = t
    BY <1>2 DEF OnlyBy
  <2>3. pc[t] \in WorkSteps => job[t].row \in Rows
    BY DEF TypedJobs, JobsOK, OrderSteps, WorkSteps
  <2>. QED
    BY <1>1, <2>1, <2>2, <2>3 DEF CopiesOf
<1>3. ASSUME NEW t \in Requests, t # s PROVE RequestOf(t)'
  <2>1. RequestOf(t) /\ CopiesOf(t)
    OBVIOUS
  <2>2. /\ pc'[t] = pc[t] /\ job'[t] = job[t] /\ loaded'[t] = loaded[t] /\ buf'[t] = buf[t]
        /\ \A r \in Rows : lock'[r] = t <=> lock[r] = t
    BY <1>3 DEF OnlyBy
  <2>3. pc[t] = "activate" => job[t].row \in Rows
    BY DEF TypedJobs, JobsOK, OrderSteps, Completing
  <2>4. pc[t] = "activate" => Exists(job[t].row)
    BY <2>1 DEF CopiesOf, WorkSteps, Completing
  <2>5. ASSUME NEW r \in Rows, buf[t][r] # NoRow PROVE Exists(r) /\ lock[r] = t
    BY <2>1, <2>5 DEF CopiesOf
  <2>6. ASSUME NEW r \in Rows, buf[t][r] # NoRow
        PROVE  subs'[r].status = "ACTIVE" /\ subs'[r].pay = subs[r].pay
    <3>1. subs[r].status = "ACTIVE" /\ lock[r] = t /\ t \in Sessions
      BY <2>1, <2>5, <2>6 DEF RequestOf
    <3>. QED
      BY <1>3, <3>1 DEF HeldKept
  <2>. QED
    BY <1>1, <2>1, <2>2, <2>3, <2>4, <2>5, <2>6 DEF RequestOf
<1>4. ASSUME s # Scheduler PROVE SchedulerInv'
  <2>1. /\ pc'[Scheduler] = pc[Scheduler] /\ job'[Scheduler] = job[Scheduler] /\ todo' = todo
        /\ \A r \in Rows : lock'[r] = Scheduler <=> lock[r] = Scheduler
    BY <1>4 DEF OnlyBy
  <2>2. Reconciling => job[Scheduler].row \in Rows /\ Exists(job[Scheduler].row)
    BY DEF TypedJobs, JobsOK, OrderSteps, Reconciling, Looking, CopiesOf, WorkSteps
  <2>3. Reconciling' <=> Reconciling
    BY <2>1 DEF Reconciling
  <2>4. TodoInv'
    BY <1>1, <2>1, <2>2, <2>3 DEF SchedulerInv, TodoInv
  <2>5. RunLocksInv'
    <3>. SUFFICES ASSUME NEW r \in Rows, lock[r] = Scheduler
                  PROVE  /\ Exists(r)' /\ pc[Scheduler] # "idle"
                         /\ \A o \in todo : subs'[r].owner # subs'[o].owner
                         /\ subs'[r].owner = subs'[job[Scheduler].row].owner =>
                              /\ pc[Scheduler] \notin Looking
                              /\ pc[Scheduler] \in {"fetchPayment", "expireDuplicates"} => r = job[Scheduler].row
      BY <2>1 DEF RunLocksInv
    <3>1. Exists(r) /\ pc[Scheduler] # "idle" /\ \A o \in todo : subs[r].owner # subs[o].owner
      BY DEF SchedulerInv, RunLocksInv
    <3>2. CASE Reconciling
      BY <1>1, <2>2, <3>1, <3>2 DEF SchedulerInv, RunLocksInv, TodoInv
    <3>3. CASE ~Reconciling
      BY <1>1, <3>1, <3>3 DEF SchedulerInv, TodoInv, Reconciling, Completing
    <3>. QED
      BY <3>2, <3>3
  <2>. QED
    BY <2>1, <2>3, <2>4, <2>5 DEF SchedulerInv
<1>. QED
  BY <1>2, <1>3, <1>4

\* A session that inserts no order keeps its and the others' claims.
LEMMA InsertsKeep ==
    ASSUME Flow, NEW s \in Sessions, OnlyBy(s), EmptyKept,
           pc'[s] # "insertPending", UNCHANGED orderState
    PROVE  \A t \in Sessions : InsertOf(t)'
<1>. SUFFICES ASSUME NEW t \in Sessions, t # s, pc[t] = "insertPending"
              PROVE  InsertOf(t)'
  BY DEF OnlyBy, InsertOf
<1>1. InsertOf(t) /\ job[t].row \in Orders
  BY DEF Flow, FlowInv, TypedJobs, JobsOK, OrderSteps
<1>. QED
  BY <1>1 DEF OnlyBy, InsertOf, EmptyKept

LEMMA SessionStep ==
    ASSUME Flow, NEW s \in Sessions, OnlyBy(s), OwnersKept, HeldKept(s), RowsInv', IndexInv',
           \A t \in Sessions : InsertOf(t)',
           CopiesOf(s)', s \in Requests => RequestOf(s)', s = Scheduler => SchedulerInv'
    PROVE  FlowInv'
  BY OthersKeep DEF FlowInv

\* A step of a session that leaves the table as it is.
LEMMA QuietStep ==
    ASSUME Flow, NEW s \in Sessions, OnlyBy(s), UNCHANGED <<subs, providerVars>>,
           pc'[s] # "insertPending",
           CopiesOf(s)', s \in Requests => RequestOf(s)', s = Scheduler => SchedulerInv'
    PROVE  FlowInv'
<1>. USE FlowTypes DEF Flow, FlowInv
<1>1. OwnersKept /\ HeldKept(s) /\ EmptyKept
  BY DEF OwnersKept, HeldKept, EmptyKept
<1>2. RowsInv'
  BY DEF RowsInv, Exists, providerVars
<1>3. IndexInv'
  BY DEF IndexInv, Alike
<1>4. \A t \in Sessions : InsertOf(t)'
  BY <1>1, InsertsKeep DEF providerVars
<1>. QED
  BY <1>1, <1>2, <1>3, <1>4, SessionStep

\* A session that is closed, whatever it has just written.
LEMMA CloseStep ==
    ASSUME Flow, NEW s \in Sessions, Close(s)
    PROVE  /\ OnlyBy(s) /\ CopiesOf(s)' /\ pc'[s] = "idle"
           /\ s \in Requests => RequestOf(s)'
           /\ s = Scheduler => SchedulerInv'
<1>. USE FlowTypes DEF Close
<1>1. pc'[s] = "idle" /\ \A r \in Rows : loaded'[s][r] = NoRow /\ buf'[s][r] = NoRow
  BY DEF Nothing
<1>2. \A r \in Rows : lock'[r] = IF lock[r] = s THEN Free ELSE lock[r]
  BY DEF Unlocked
<1>3. OnlyBy(s)
  BY <1>2 DEF OnlyBy
<1>4. CopiesOf(s)'
  BY <1>1 DEF CopiesOf, WorkSteps, Completing
<1>5. s \in Requests => RequestOf(s)'
  BY <1>1, <1>2 DEF RequestOf
<1>6. s = Scheduler => SchedulerInv'
  BY <1>1, <1>2 DEF SchedulerInv, TodoInv, RunLocksInv
<1>. QED
  BY <1>1, <1>3, <1>4, <1>5, <1>6

LEMMA QuietClose ==
    ASSUME Flow, NEW s \in Sessions, Close(s), UNCHANGED <<subs, providerVars>>
    PROVE  FlowInv'
  BY CloseStep, QuietStep

\* A session that goes on, having done nothing but to read.
LEMMA QuietGoto ==
    ASSUME Flow, NEW s \in Sessions, NEW step, Goto(s, step),
           \A t \in Sessions : t # s => job'[t] = job[t],
           job'[s].row = job[s].row,
           UNCHANGED <<subs, lock, loaded, buf, todo, providerVars>>,
           step \in WorkSteps => Exists(job[s].row),
           step \in Completing => loaded[s][job[s].row] # NoRow,
           step # "insertPending", step # "activate",
           s \in Requests /\ pc[s] \in Completing => step \in Completing,
           s \in Requests => pc[s] # "activate",
           s = Scheduler => \/ pc[s] \in Looking /\ step \in Looking
                            \/ pc[s] = "fetchPayment" /\ step = "expireDuplicates"
    PROVE  FlowInv'
<1>. USE FlowTypes DEF Flow, FlowInv
<1>1. pc'[s] = step /\ \A t \in Sessions : t # s => pc'[t] = pc[t]
  BY DEF Goto
<1>2. OnlyBy(s)
  BY <1>1 DEF OnlyBy
<1>3. CopiesOf(s)'
  BY <1>1 DEF CopiesOf, Exists
<1>4. s \in Requests => RequestOf(s)'
  BY <1>1 DEF RequestOf
<1>5. s = Scheduler => SchedulerInv'
  BY <1>1 DEF SchedulerInv, TodoInv, RunLocksInv, Reconciling, Looking, Completing, Exists
<1>. QED
  BY <1>1, <1>2, <1>3, <1>4, <1>5, QuietStep

LEMMA ReturnFlow ==
    ASSUME Flow, NEW s \in Sessions, NEW R, Return(s, R), CanLock(s, R),
           R = {} \/ (R = {job[s].row} /\ pc[s] = "lock"),
           s = Scheduler => Reconciling,
           UNCHANGED <<subs, providerVars>>
    PROVE  FlowInv'
<1>. USE FlowTypes DEF Flow, FlowInv
<1>1. CASE Close(s)
  BY <1>1, QuietClose
<1>2. CASE /\ s = Scheduler
           /\ pc' = [pc EXCEPT ![s] = "next"]
           /\ lock' = LockedBy(s, R)
           /\ UNCHANGED <<job, loaded, buf, todo>>
  <2>1. pc'[s] = "next" /\ \A t \in Sessions : t # s => pc'[t] = pc[t]
    BY <1>2
  <2>2. \A r \in Rows : lock'[r] = IF r \in R THEN s ELSE lock[r]
    BY <1>2 DEF LockedBy
  <2>3. OnlyBy(s)
    BY <1>2, <2>1, <2>2 DEF OnlyBy, CanLock
  <2>4. Exists(job[s].row)
    BY <1>2 DEF Reconciling, Looking, CopiesOf, WorkSteps
  <2>5. CopiesOf(s)'
    BY <1>2, <2>1, <2>2 DEF CopiesOf, WorkSteps, Completing, Exists
  <2>6. TodoInv'
    BY <1>2, <2>1 DEF SchedulerInv, TodoInv, Reconciling, Looking, Completing, Exists
  <2>7. RunLocksInv'
    <3>. SUFFICES ASSUME NEW r \in Rows, lock'[r] = Scheduler
                  PROVE  Exists(r) /\ \A o \in todo : subs[r].owner # subs[o].owner
      BY <1>2, <2>1 DEF RunLocksInv, Exists, Looking
    <3>1. CASE r \in R
      BY <1>2, <2>4, <3>1 DEF SchedulerInv, TodoInv
    <3>2. CASE r \notin R
      BY <2>2, <3>2 DEF SchedulerInv, RunLocksInv
    <3>. QED
      BY <3>1, <3>2
  <2>8. SchedulerInv'
    BY <1>2, <2>1, <2>6, <2>7 DEF SchedulerInv
  <2>. QED
    BY <1>2, <2>1, <2>3, <2>5, <2>8, QuietStep
<1>. QED
  BY <1>1, <1>2 DEF Return

-----------------------------------------------------------------------------
\* The steps that write the table.

\* A row that is not empty, and of which no other session holds the lock,
\* gets a status that no index looks at.
LEMMA RetireRow ==
    ASSUME Flow, NEW s \in Sessions, NEW r \in Rows, NEW row \in Row, Exists(r), CanLock(s, {r}),
           subs' = [subs EXCEPT ![r] = row], row.owner = subs[r].owner,
           row.status \notin {"ACTIVE", "PENDING"},
           row.pay = subs[r].pay \/ row.pay = "FAILED", UNCHANGED providerVars
    PROVE  OwnersKept /\ EmptyKept /\ HeldKept(s) /\ RowsInv' /\ IndexInv'
<1>. USE FlowTypes DEF Flow, FlowInv
<1>1. \A q \in Rows : subs'[q] = IF q = r THEN row ELSE subs[q]
  OBVIOUS
<1>2. OwnersKept /\ EmptyKept /\ HeldKept(s)
  BY <1>1 DEF OwnersKept, EmptyKept, HeldKept, Exists, CanLock
<1>3. RowsInv'
  <2>1. \A q \in Rows : Exists(q)' <=> Exists(q)
    BY <1>1 DEF Exists
  <2>2. \A q \in Rows : subs[q] = NoRow => subs'[q] = NoRow
    BY <1>1 DEF Exists
  <2>3. \A p \in Payments : payState[p] # "none" => payOrder[p] \in Rows
    BY DEF TypedJobs, PaymentsPlaced
  <2>. QED
    BY <1>1, <2>1, <2>2, <2>3 DEF RowsInv, providerVars, Exists
<1>4. IndexInv'
  BY <1>1 DEF IndexInv, Alike
<1>. QED
  BY <1>2, <1>3, <1>4

LEMMA ExpireLapsedFlow ==
    ASSUME Flow, NEW s \in Sessions, ExpireLapsed(s)
    PROVE  FlowInv'
<1>. USE FlowTypes DEF Flow, FlowInv
<1>. DEFINE r == job[s].row
<1>1. CASE Close(s) /\ UNCHANGED subs
  BY <1>1, QuietClose DEF ExpireLapsed
<1>3. CASE /\ UNCHANGED subs
           /\ Goto(s, IF job[s].op = "create" THEN "postOrder" ELSE "ensureDefault")
           /\ UNCHANGED <<lock, job, loaded, buf, todo>>
  <2>1. s # Scheduler
    BY DEF ExpireLapsed, SchedulerInv, Reconciling, Looking, Completing
  <2>. QED
    BY <1>3, <2>1, QuietGoto DEF ExpireLapsed, WorkSteps, Completing
<1>2. CASE /\ subs' = [subs EXCEPT ![r].status = "EXPIRED"]
           /\ Goto(s, IF job[s].op = "create" THEN "postOrder" ELSE "ensureDefault")
           /\ UNCHANGED <<lock, job, loaded, buf, todo>>
  <2>1. r \in Rows /\ Exists(r) /\ s \in Requests
    BY DEF ExpireLapsed, CopiesOf, WorkSteps, TypedJobs, JobsOK, SchedulerInv, Reconciling,
           Looking, Completing
  <2>. DEFINE row == [subs[r] EXCEPT !.status = "EXPIRED"]
  <2>2. /\ row \in Row /\ row.owner = subs[r].owner /\ row.status = "EXPIRED"
        /\ row.pay = subs[r].pay
    <3>1. subs[r] \in Row
      BY <2>1
    <3>2. row \in Row
      BY <3>1, RowTypes
    <3>. QED
      BY <3>1, <3>2 DEF Row
  <2>3. OwnersKept /\ EmptyKept /\ HeldKept(s) /\ RowsInv' /\ IndexInv'
    <3>1. subs' = [subs EXCEPT ![r] = row] /\ CanLock(s, {r}) /\ UNCHANGED providerVars
      BY <1>2, <2>1 DEF ExpireLapsed
    <3>. HIDE DEF r, row
    <3>. QED
      BY <2>1, <2>2, <3>1, RetireRow
  <2>4. pc'[s] \in {"postOrder", "ensureDefault"} /\ \A t \in Sessions : t # s => pc'[t] = pc[t]
    BY <1>2 DEF Goto
  <2>5. OnlyBy(s)
    BY <1>2, <2>4 DEF OnlyBy
  <2>6. \A q \in Rows : lock[q] # s
    BY <2>1 DEF ExpireLapsed, RequestOf, Completing
  <2>7. RequestOf(s)' /\ CopiesOf(s)'
    <3>1. \A q \in Rows : buf[s][q] = NoRow
      BY <2>6 DEF CopiesOf
    <3>2. RequestOf(s)'
      BY <1>2, <2>6, <3>1 DEF RequestOf
    <3>3. \A q \in Rows : loaded[s][q] # NoRow => Exists(q)' /\ loaded[s][q].owner = subs'[q].owner
      BY <2>3 DEF CopiesOf, OwnersKept, Exists
    <3>. QED
      BY <1>2, <2>4, <3>1, <3>2, <3>3 DEF CopiesOf, WorkSteps, Completing
  <2>8. \A t \in Sessions : InsertOf(t)'
    BY <2>3, <2>4, <2>5, InsertsKeep DEF ExpireLapsed, providerVars
  <2>. QED
    BY <2>1, <2>3, <2>5, <2>7, <2>8, SessionStep
<1>. QED
  BY <1>1, <1>2, <1>3 DEF ExpireLapsed

LEMMA MarkOrderFailedFlow ==
    ASSUME Flow, NEW s \in Sessions, MarkOrderFailed(s)
    PROVE  FlowInv'
<1>. USE FlowTypes DEF Flow, FlowInv
<1>. DEFINE o == job[s].row
<1>1. o \in Rows /\ Exists(o)
  BY DEF MarkOrderFailed, CopiesOf, WorkSteps, TypedJobs, JobsOK, OrderSteps
<1>. DEFINE row == [subs[o] EXCEPT !.status = "PAYMENT_FAILED", !.pay = "FAILED"]
<1>2. row \in Row /\ row.owner = subs[o].owner /\ row.status = "PAYMENT_FAILED" /\ row.pay = "FAILED"
  <2>1. subs[o] \in Row
    BY <1>1
  <2>2. row \in Row
    BY <2>1, RowTypes
  <2>. QED
    BY <2>1, <2>2 DEF Row
<1>3. subs' = [subs EXCEPT ![o] = row]
  BY <1>1 DEF MarkOrderFailed
<1>4. OwnersKept /\ EmptyKept /\ HeldKept(s) /\ RowsInv' /\ IndexInv'
  <2>1. CanLock(s, {o}) /\ UNCHANGED providerVars
    BY DEF MarkOrderFailed
  <2>. HIDE DEF o, row
  <2>. QED
    BY <1>1, <1>2, <1>3, <2>1, RetireRow
<1>5. OnlyBy(s) /\ CopiesOf(s)' /\ pc'[s] = "idle"
      /\ (s \in Requests => RequestOf(s)') /\ (s = Scheduler => SchedulerInv')
  BY CloseStep DEF MarkOrderFailed
<1>6. \A t \in Sessions : InsertOf(t)'
  BY <1>4, <1>5, InsertsKeep DEF MarkOrderFailed, providerVars
<1>. QED
  BY <1>4, <1>5, <1>6, SessionStep

LEMMA PostOrderFlow ==
    ASSUME Flow, NEW s \in Sessions, PostOrder(s)
    PROVE  FlowInv'
<1>. USE FlowTypes DEF Flow, FlowInv
<1>1. ASSUME NEW o \in Orders, ProviderCreatesOrder(o), Goto(s, "insertPending"),
             job' = [job EXCEPT ![s].row = o], UNCHANGED <<lock, loaded, buf, todo>>
      PROVE  FlowInv'
  <2>1. orderState[o] = "none" /\ orderState'[o] = "created"
        /\ (\A x \in Orders : x # o => orderState'[x] = orderState[x])
        /\ UNCHANGED <<subs, payState, payOrder>>
    BY <1>1 DEF PostOrder, ProviderCreatesOrder
  <2>2. subs[o] = NoRow
    BY <2>1 DEF RowsInv
  <2>3. s \in Requests
    BY DEF PostOrder, SchedulerInv, Reconciling, Looking, Completing
  <2>4. pc'[s] = "insertPending" /\ job'[s].row = o
        /\ \A t \in Sessions : t # s => pc'[t] = pc[t] /\ job'[t] = job[t]
    BY <1>1 DEF Goto, Job
  <2>5. OnlyBy(s)
    BY <1>1, <2>4 DEF OnlyBy
  <2>6. \A t \in Sessions : pc[t] = "insertPending" => job[t].row \in Orders /\ job[t].row # o
    BY <2>1 DEF InsertOf, TypedJobs, JobsOK, OrderSteps
  <2>7. \A t \in Sessions : InsertOf(t)'
    <3>1. InsertOf(s)'
      BY <2>1, <2>2, <2>4, <2>6 DEF InsertOf
    <3>2. ASSUME NEW t \in Sessions, t # s PROVE InsertOf(t)'
      BY <2>1, <2>4, <2>6, <3>2 DEF InsertOf
    <3>. QED
      BY <3>1, <3>2
  <2>8. OwnersKept /\ HeldKept(s)
    BY <2>1 DEF OwnersKept, HeldKept
  <2>9. RowsInv' /\ IndexInv'
    BY <2>1 DEF RowsInv, IndexInv, Alike, Exists
  <2>10. CopiesOf(s)'
    BY <1>1, <2>1, <2>4 DEF CopiesOf, WorkSteps, Completing, Exists
  <2>11. RequestOf(s)'
    <3>1. \A r \in Rows : lock[r] # s
      BY <2>3 DEF PostOrder, RequestOf, Completing
    <3>2. \A r \in Rows : buf[s][r] = NoRow
      BY <3>1 DEF CopiesOf
    <3>. QED
      BY <1>1, <3>1, <3>2 DEF RequestOf
  <2>. QED
    BY <2>3, <2>5, <2>7, <2>8, <2>9, <2>10, <2>11, SessionStep
<1>. QED
  BY <1>1, QuietClose DEF PostOrder

LEMMA InsertPendingFlow ==
    ASSUME Flow, NEW s \in Sessions, InsertPending(s)
    PROVE  FlowInv'
<1>. USE FlowTypes DEF Flow, FlowInv
<1>. DEFINE o == job[s].row
            u == job[s].owner
<1>1. CASE subs' = subs
  BY <1>1, QuietClose DEF InsertPending
<1>2. CASE PendingIndexAccepts(subs, u, o) /\ subs' = [subs EXCEPT ![o] = PendingRow(u)]
  <2>1. o \in Orders /\ u \in Owners /\ o \notin Owners
    BY TableAssumption DEF InsertPending, TypedJobs, JobsOK, OrderSteps, OwnerSteps
  <2>2. orderState[o] # "none" /\ subs[o] = NoRow
        /\ \A t \in Sessions : pc[t] = "insertPending" /\ job[t].row = o => t = s
    BY DEF InsertPending, InsertOf
  <2>3. \A r \in Rows : subs'[r] = IF r = o THEN PendingRow(u) ELSE subs[r]
    BY <1>2
  <2>4. PendingRow(u).owner = u /\ PendingRow(u).status = "PENDING" /\ PendingRow(u).pay = "PENDING"
    BY DEF PendingRow
  <2>5. ~Exists(o) /\ subs[o].status = "NONE"
    BY <2>2 DEF Exists, NoRow
  <2>6. OwnersKept /\ HeldKept(s)
    BY <2>3, <2>5 DEF OwnersKept, HeldKept
  <2>7. RowsInv'
    <3>1. \A r \in Rows : Exists(r) => Exists(r)'
      BY <2>3, <2>5 DEF Exists
    <3>2. \A p \in Payments : payState[p] # "none" => payOrder[p] \in Rows
      BY DEF TypedJobs, PaymentsPlaced
    <3>. QED
      BY <2>1, <2>2, <2>3, <2>4, <3>1, <3>2 DEF RowsInv, InsertPending, providerVars, Exists
  <2>8. \A q \in Orders : subs[q].owner = u /\ subs[q].status = "PENDING" => q = o
    BY <1>2 DEF PendingIndexAccepts, PendingOf, RowsInv
  <2>9. IndexInv'
    <3>1. \A r, q \in Rows : Alike(r, q, "ACTIVE")' => Alike(r, q, "ACTIVE")
      BY <2>3, <2>4 DEF Alike
    <3>2. ASSUME NEW r \in Orders, NEW q \in Orders, Alike(r, q, "PENDING")' PROVE r = q
      <4>1. CASE r # o /\ q # o
        BY <2>3, <3>2, <4>1 DEF Alike, IndexInv
      <4>2. CASE r = o \/ q = o
        BY <2>3, <2>4, <2>8, <3>2, <4>2 DEF Alike
      <4>. QED
        BY <4>1, <4>2
    <3>. QED
      BY <3>1, <3>2 DEF IndexInv
  <2>10. OnlyBy(s) /\ CopiesOf(s)' /\ pc'[s] = "idle"
         /\ (s \in Requests => RequestOf(s)') /\ (s = Scheduler => SchedulerInv')
    BY CloseStep DEF InsertPending
  <2>11. \A t \in Sessions : InsertOf(t)'
    <3>. SUFFICES ASSUME NEW t \in Sessions, t # s, pc[t] = "insertPending" PROVE InsertOf(t)'
      BY <2>10 DEF OnlyBy, InsertOf
    <3>1. InsertOf(t) /\ job[t].row \in Orders /\ job[t].row # o
      BY <2>2 DEF TypedJobs, JobsOK, OrderSteps
    <3>2. job'[t].row = job[t].row /\ orderState' = orderState
      BY <2>10 DEF OnlyBy, InsertPending, providerVars
    <3>3. subs'[job[t].row] = subs[job[t].row]
      BY <2>3, <3>1
    <3>4. \A x \in Sessions : pc'[x] = "insertPending" =>
            pc[x] = "insertPending" /\ job'[x].row = job[x].row
      BY <2>10 DEF OnlyBy
    <3>. QED
      BY <3>1, <3>2, <3>3, <3>4 DEF InsertOf
  <2>. QED
    BY <2>6, <2>7, <2>9, <2>10, <2>11, SessionStep
<1>. QED
  BY <1>1, <1>2 DEF InsertPending

LEMMA InsertDefaultFlow ==
    ASSUME Flow, NEW s \in Sessions, InsertDefault(s)
    PROVE  FlowInv'
<1>. USE FlowTypes DEF Flow, FlowInv
<1>. DEFINE u == job[s].owner
<1>1. CASE subs' = subs
  BY <1>1, QuietClose DEF InsertDefault
<1>2. CASE ActiveOf(subs, u) = {} /\ subs' = [subs EXCEPT ![u] = DefaultRow(u)]
  <2>1. u \in Owners /\ u \notin Orders /\ u \in Rows
    BY TableAssumption DEF InsertDefault, TypedJobs, JobsOK, OwnerSteps
  <2>2. \A r \in Rows : subs'[r] = IF r = u THEN DefaultRow(u) ELSE subs[r]
    BY <1>2
  <2>3. DefaultRow(u).owner = u /\ DefaultRow(u).status = "ACTIVE"
    BY DEF DefaultRow
  <2>4. \A r \in Rows : ~(subs[r].owner = u /\ subs[r].status = "ACTIVE")
    BY <1>2 DEF ActiveOf
  <2>5. subs[u].status # "ACTIVE"
    BY <2>1, <2>4 DEF RowsInv, NoRow
  <2>6. OwnersKept /\ HeldKept(s) /\ EmptyKept
    BY <2>1, <2>2, <2>3, <2>5 DEF OwnersKept, HeldKept, EmptyKept, RowsInv
  <2>7. RowsInv'
    <3>1. \A r \in Rows : Exists(r) => Exists(r)'
      BY <2>1, <2>2, <2>3 DEF Exists
    <3>2. \A p \in Payments : payState[p] # "none" => payOrder[p] \in Rows
      BY DEF TypedJobs, PaymentsPlaced
    <3>. QED
      BY <2>1, <2>2, <2>3, <3>1, <3>2 DEF RowsInv, InsertDefault, providerVars, Exists
  <2>8. IndexInv'
    BY <2>1, <2>2, <2>3, <2>4 DEF IndexInv, Alike
  <2>9. OnlyBy(s) /\ CopiesOf(s)' /\ pc'[s] = "idle"
         /\ (s \in Requests => RequestOf(s)') /\ (s = Scheduler => SchedulerInv')
    BY CloseStep DEF InsertDefault
  <2>10. \A t \in Sessions : InsertOf(t)'
    BY <2>6, <2>9, InsertsKeep DEF InsertDefault, providerVars
  <2>. QED
    BY <2>6, <2>7, <2>8, <2>9, <2>10, SessionStep
<1>. QED
  BY <1>1, <1>2 DEF InsertDefault

-----------------------------------------------------------------------------
\* The steps of a completion.

LEMMA FetchFlow ==
    ASSUME Flow, NEW s \in Sessions,
           FetchOrder(s) \/ FetchOrderPayments(s) \/ FetchAndValidate(s) \/ EnsureDefault(s)
    PROVE  FlowInv'
<1>. USE FlowTypes DEF Flow, FlowInv
<1>1. CopiesOf(s) /\ (s \in Requests => RequestOf(s))
      /\ (s = Scheduler => SchedulerInv)
  OBVIOUS
<1>2. CASE FetchOrder(s)
  <2>1. CASE Goto(s, "fetchPayments") /\ UNCHANGED <<lock, job, loaded, buf, todo>>
    BY <1>1, <1>2, <2>1, QuietGoto
       DEF FetchOrder, CopiesOf, WorkSteps, Completing, Looking
  <2>2. CASE Return(s, {})
    BY <1>2, <2>2, ReturnFlow DEF FetchOrder, CanLock, Reconciling, Looking
  <2>. QED
    BY <1>2, <2>1, <2>2 DEF FetchOrder
<1>3. CASE FetchOrderPayments(s)
  <2>1. ASSUME NEW p, Goto(s, "lock"), job' = [job EXCEPT ![s].pay = p],
               UNCHANGED <<lock, loaded, buf, todo>>
        PROVE  FlowInv'
    <3>1. job'[s].row = job[s].row /\ \A t \in Sessions : t # s => job'[t] = job[t]
      BY <2>1 DEF Job
    <3>. QED
      BY <1>1, <1>3, <2>1, <3>1, QuietGoto
         DEF FetchOrderPayments, CopiesOf, WorkSteps, Completing, Looking
  <2>2. CASE Return(s, {})
    BY <1>3, <2>2, ReturnFlow DEF FetchOrderPayments, CanLock, Reconciling, Looking
  <2>. QED
    BY <1>3, <2>1, <2>2 DEF FetchOrderPayments
<1>4. CASE FetchAndValidate(s)
  <2>1. CASE Goto(s, "expireDuplicates") /\ UNCHANGED <<lock, job, loaded, buf, todo>>
    BY <1>1, <1>4, <2>1, QuietGoto
       DEF FetchAndValidate, CopiesOf, WorkSteps, Completing, Looking
  <2>2. CASE Return(s, {})
    BY <1>4, <2>2, ReturnFlow DEF FetchAndValidate, CanLock, Reconciling, Completing
  <2>. QED
    BY <1>4, <2>1, <2>2 DEF FetchAndValidate
<1>5. CASE EnsureDefault(s)
  <2>1. CASE Goto(s, "insertDefault") /\ UNCHANGED <<lock, job, loaded, buf, todo>>
    <3>1. s # Scheduler
      BY <1>1, <1>5 DEF EnsureDefault, SchedulerInv, Reconciling, Looking, Completing
    <3>. QED
      BY <1>1, <1>5, <2>1, <3>1, QuietGoto DEF EnsureDefault, WorkSteps, Completing
  <2>2. CASE Close(s)
    BY <1>5, <2>2, QuietClose DEF EnsureDefault
  <2>. QED
    BY <1>5, <2>1, <2>2 DEF EnsureDefault
<1>. QED
  BY <1>2, <1>3, <1>4, <1>5

LEMMA LockOrderFlow ==
    ASSUME Flow, NEW s \in Sessions, LockOrder(s)
    PROVE  FlowInv'
<1>. USE FlowTypes DEF Flow, FlowInv
<1>. DEFINE o == job[s].row
            seen == Seen(s, o)
<1>1. o \in Orders /\ Exists(o) /\ CopiesOf(s) /\ CanLock(s, {o}) /\ pc[s] = "lock"
  BY DEF LockOrder, TypedJobs, JobsOK, OrderSteps, CopiesOf, WorkSteps
<1>2. CASE Return(s, {o})
  BY <1>1, <1>2, ReturnFlow DEF LockOrder, Reconciling, Looking
<1>3. CASE /\ Goto(s, "fetchPayment")
           /\ lock' = LockedBy(s, {o})
           /\ loaded' = [loaded EXCEPT ![s][o] = seen]
           /\ UNCHANGED <<job, buf, todo>>
  <2>1. seen # NoRow /\ seen.owner = subs[o].owner
    BY <1>1 DEF CopiesOf, Seen, View, Exists
  <2>2. /\ pc'[s] = "fetchPayment" /\ \A t \in Sessions : t # s => pc'[t] = pc[t]
        /\ \A r \in Rows : lock'[r] = IF r = o THEN s ELSE lock[r]
        /\ \A r \in Rows : loaded'[s][r] = IF r = o THEN seen ELSE loaded[s][r]
        /\ \A t \in Sessions : t # s => loaded'[t] = loaded[t]
        /\ UNCHANGED <<subs, job, buf, todo>>
    <3>. HIDE DEF seen
    <3>. QED
      BY <1>1, <1>3 DEF Goto, LockedBy, LockOrder
  <2>. HIDE DEF seen, o
  <2>3. OnlyBy(s)
    BY <1>1, <2>2 DEF OnlyBy, CanLock
  <2>4. CopiesOf(s)'
    BY <1>1, <2>1, <2>2 DEF CopiesOf, Exists, o
  <2>5. s \in Requests => RequestOf(s)'
    BY <1>1, <2>2 DEF RequestOf, Completing, o, CopiesOf
  <2>6. ASSUME s = Scheduler PROVE SchedulerInv'
    <3>1. pc'[Scheduler] = "fetchPayment" /\ pc[Scheduler] = "lock" /\ o = job[Scheduler].row
      BY <1>1, <2>2, <2>6 DEF o
    <3>2. Reconciling /\ Reconciling'
      BY <3>1 DEF Reconciling, Completing, Looking
    <3>3. TodoInv'
      BY <2>2, <3>2 DEF SchedulerInv, TodoInv, Exists
    <3>4. ASSUME NEW r \in Rows, lock'[r] = Scheduler
          PROVE  /\ Exists(r) /\ \A q \in todo : subs[r].owner # subs[q].owner
                 /\ subs[r].owner = subs[o].owner => r = o
      BY <1>1, <2>2, <3>1, <3>2, <3>4 DEF SchedulerInv, TodoInv, RunLocksInv, Looking
    <3>. QED
      BY <2>2, <3>1, <3>2, <3>3, <3>4 DEF SchedulerInv, RunLocksInv, Exists, Looking
  <2>7. UNCHANGED providerVars /\ pc'[s] # "insertPending"
    BY <2>2 DEF LockOrder
  <2>. QED
    BY <2>2, <2>3, <2>4, <2>5, <2>6, <2>7, QuietStep
<1>. QED
  BY <1>2, <1>3 DEF LockOrder

\* The copy a completion reads its owner from is of the order's owner.
LEMMA OwnerRead ==
    ASSUME Flow, NEW s \in Sessions, pc[s] \in Completing
    PROVE  /\ job[s].row \in Orders /\ Exists(job[s].row)
           /\ loaded[s][job[s].row].owner = subs[job[s].row].owner
           /\ subs[job[s].row].owner \in Owners
           /\ lock[job[s].row] = s
  BY FlowTypes DEF Flow, FlowInv, TypedJobs, JobsOK, OrderSteps, LocksHeld, CopiesOf, WorkSteps, Exists

LEMMA ExpireDuplicatesFlow ==
    ASSUME Flow, NEW s \in Sessions, ExpireDuplicates(s)
    PROVE  FlowInv'
<1>. USE FlowTypes DEF Flow, FlowInv
<1>. DEFINE o == job[s].row
            u == subs[o].owner
            dups == DuplicatesOf(View(s), u, o)
<1>1. o \in Orders /\ Exists(o) /\ loaded[s][o].owner = u /\ u \in Owners /\ lock[o] = s
      /\ pc[s] = "expireDuplicates" /\ loaded[s][o] # NoRow
  BY OwnerRead DEF ExpireDuplicates, Completing, CopiesOf
<1>2. CanLock(s, dups) /\ lock' = LockedBy(s, dups) /\ Goto(s, "activate")
      /\ buf' = [buf EXCEPT ![s] = [r \in Rows |-> IF r \in dups
                                                    THEN [View(s)[r] EXCEPT !.status = "EXPIRED"]
                                                    ELSE buf[s][r]]]
      /\ UNCHANGED <<subs, job, loaded, todo, providerVars>>
  BY <1>1 DEF ExpireDuplicates
<1>3. \A r \in Rows : View(s)[r] = (IF buf[s][r] = NoRow THEN subs[r] ELSE buf[s][r])
                      /\ View(s)[r] \in Row
  BY DEF View
<1>4. \A r \in dups : r \in Rows /\ r # o /\ View(s)[r].owner = u /\ View(s)[r].status = "ACTIVE"
  BY DEF DuplicatesOf, ActiveOf
<1>5. CopiesOf(s)
  OBVIOUS
<1>6. \A r \in dups : Exists(r) /\ subs[r].owner = u
  BY <1>1, <1>3, <1>4, <1>5 DEF CopiesOf, Exists
<1>. HIDE DEF dups, o
<1>7. /\ pc'[s] = "activate" /\ \A t \in Sessions : t # s => pc'[t] = pc[t] /\ buf'[t] = buf[t]
      /\ \A r \in Rows : lock'[r] = IF r \in dups THEN s ELSE lock[r]
      /\ \A r \in Rows : buf'[s][r] = IF r \in dups THEN [View(s)[r] EXCEPT !.status = "EXPIRED"]
                                      ELSE buf[s][r]
  BY <1>2 DEF Goto, LockedBy
<1>8. \A r \in dups : buf'[s][r].owner = u /\ buf'[s][r].status = "EXPIRED"
                      /\ buf'[s][r].pay = View(s)[r].pay
  BY <1>3, <1>4, <1>7 DEF Row
<1>9. OnlyBy(s)
  BY <1>2, <1>7 DEF OnlyBy, CanLock
<1>10. CopiesOf(s)'
  <2>1. subs'[o].owner \in Owners /\ loaded'[s][o] # NoRow
    BY <1>1, <1>2 DEF Exists
  <2>2. ASSUME NEW r \in Rows, buf'[s][r] # NoRow
        PROVE  Exists(r)' /\ buf'[s][r].owner = subs'[r].owner /\ lock'[r] = s
    <3>1. CASE r \in dups
      BY <1>2, <1>6, <1>7, <1>8, <3>1 DEF Exists
    <3>2. CASE r \notin dups
      BY <1>2, <1>5, <1>7, <2>2, <3>2 DEF CopiesOf, Exists
    <3>. QED
      BY <3>1, <3>2
  <2>3. ASSUME NEW r \in Rows, loaded'[s][r] # NoRow
        PROVE  Exists(r)' /\ loaded'[s][r].owner = subs'[r].owner
    BY <1>2, <1>5, <2>3 DEF CopiesOf, Exists
  <2>. QED
    BY <1>2, <2>1, <2>2, <2>3 DEF CopiesOf, Exists, o
<1>11. ASSUME s \in Requests PROVE RequestOf(s)'
  <2>1. RequestOf(s)
    BY <1>11
  <2>2. \A r \in Rows : buf[s][r] = NoRow
    BY <1>1, <2>1 DEF RequestOf
  <2>3. \A r \in dups : subs[r].status = "ACTIVE" /\ View(s)[r].pay = subs[r].pay
    BY <1>3, <1>4, <2>2
  <2>4. ASSUME NEW r \in Rows, buf'[s][r] # NoRow PROVE r \in dups
    BY <1>7, <2>2, <2>4
  <2>. QED
    BY <1>2, <1>4, <1>6, <1>7, <1>8, <2>1, <2>3, <2>4 DEF RequestOf, Completing, o
<1>12. ASSUME s = Scheduler PROVE SchedulerInv'
  <2>1. pc[Scheduler] = "expireDuplicates" /\ pc'[Scheduler] = "activate" /\ o = job[Scheduler].row
    BY <1>1, <1>7, <1>12 DEF o
  <2>2. Reconciling /\ Reconciling'
    BY <2>1 DEF Reconciling, Completing, Looking
  <2>3. TodoInv'
    BY <1>2, <2>2 DEF SchedulerInv, TodoInv, Exists
  <2>4. ASSUME NEW r \in Rows, lock'[r] = Scheduler
        PROVE  Exists(r) /\ \A q \in todo : subs[r].owner # subs[q].owner
    BY <1>6, <1>7, <1>12, <2>1, <2>2, <2>4 DEF SchedulerInv, TodoInv, RunLocksInv
  <2>. QED
    BY <1>2, <2>1, <2>2, <2>3, <2>4 DEF SchedulerInv, RunLocksInv, Exists, Looking
<1>. QED
  BY <1>2, <1>7, <1>9, <1>10, <1>11, <1>12, QuietStep

\* The row a completion writes is one of its own: it activates it in place of
\* the owner's other rows, which it has expired.
LEMMA ActivateFlow ==
    ASSUME Flow, NEW s \in Sessions, Activate(s)
    PROVE  FlowInv'
<1>. USE FlowTypes DEF Flow, FlowInv
<1>. DEFINE o == job[s].row
            u == subs[o].owner
            paid == Activated(View(s)[o], job[s].pay)
<1>1. o \in Orders /\ Exists(o) /\ loaded[s][o].owner = u /\ u \in Owners /\ lock[o] = s
      /\ pc[s] = "activate" /\ loaded[s][o] # NoRow /\ o \in Rows
  BY OwnerRead DEF Activate, Completing, CopiesOf
<1>2. CopiesOf(s) /\ RowsInv /\ IndexInv
  OBVIOUS
<1>3. CASE Close(s) /\ UNCHANGED subs
  BY <1>3, QuietClose DEF Activate
<1>4. /\ View(s)[o] \in Row /\ View(s)[o].owner = u
      /\ \A r \in Rows : View(s)[r] = IF buf[s][r] = NoRow THEN subs[r] ELSE buf[s][r]
  BY <1>1, <1>2 DEF View, CopiesOf
<1>5. /\ paid.owner = u /\ paid.status = "ACTIVE" /\ paid.pay = "PAID" /\ paid \in Row
      /\ paid # NoRow
  <2>1. paid.owner = u /\ paid.status = "ACTIVE" /\ paid.pay = "PAID"
    BY <1>4 DEF Activated, Row
  <2>2. paid \in Row
    BY <1>1, <1>4, RowTypes DEF TypedJobs, TypeOK, Job
  <2>. QED
    BY <2>1, <2>2 DEF NoRow
<1>6. CASE /\ ActiveIndexAccepts(View(s), u, o)
           /\ s \in Requests
           /\ subs' = [Committed(s) EXCEPT ![o] = paid]
           /\ Close(s)
  <2>1. RequestOf(s)
    BY <1>6
  <2>2. /\ subs'[o] = paid
        /\ \A r \in Rows : r # o /\ buf[s][r] = NoRow => subs'[r] = subs[r]
    BY <1>1, <1>6, CommittedRows DEF TypedJobs
  <2>3. \A r \in Rows : buf[s][r] # NoRow =>
           /\ r # o /\ lock[r] = s /\ Exists(r) /\ subs'[r].owner = subs[r].owner
           /\ subs'[r].status = "EXPIRED" /\ subs'[r].pay = subs[r].pay
    <3>1. \A r \in Rows : buf[s][r] # NoRow =>
             /\ r # o /\ lock[r] = s /\ Exists(r) /\ buf[s][r].owner = subs[r].owner
             /\ buf[s][r].status = "EXPIRED" /\ buf[s][r].pay = subs[r].pay
      BY <1>2, <2>1 DEF RequestOf, CopiesOf
    <3>2. \A r \in Rows : r # o /\ buf[s][r] # NoRow =>
             subs'[r] = [buf[s][r] EXCEPT !.over = subs[r].over]
      BY <1>1, <1>6, CommittedRows DEF TypedJobs
    <3>. HIDE DEF o, paid
    <3>3. ASSUME NEW r \in Rows, buf[s][r] # NoRow
          PROVE  /\ r # o /\ lock[r] = s /\ Exists(r) /\ subs'[r].owner = subs[r].owner
                 /\ subs'[r].status = "EXPIRED" /\ subs'[r].pay = subs[r].pay
      <4>1. subs'[r] = [buf[s][r] EXCEPT !.over = subs[r].over]
        BY <3>1, <3>2, <3>3
      <4>2. buf[s][r] \in Row
        OBVIOUS
      <4>. QED
        BY <3>1, <3>3, <4>1, <4>2 DEF Row
    <3>. QED
      BY <3>3
  <2>4. \A r \in Rows : View(s)[r].owner = u /\ View(s)[r].status = "ACTIVE" => r = o
    BY <1>6 DEF ActiveIndexAccepts, ActiveOf
  <2>. HIDE DEF o, paid
  <2>5. OwnersKept
    BY <1>1, <1>5, <2>2, <2>3 DEF OwnersKept
  <2>6. EmptyKept
    <3>1. ASSUME NEW q \in Orders, subs[q] = NoRow PROVE subs'[q] = NoRow
      <4>1. q \in Rows /\ ~Exists(q)
        BY <3>1 DEF Exists
      <4>2. q # o /\ buf[s][q] = NoRow
        BY <1>1, <2>3, <4>1
      <4>. QED
        BY <2>2, <3>1, <4>1, <4>2
    <3>. QED
      BY <3>1 DEF EmptyKept
  <2>7. HeldKept(s)
    BY <1>1, <2>2, <2>3 DEF HeldKept
  <2>8. RowsInv'
    <3>1. \A r \in Rows : Exists(r)' <=> Exists(r)
      BY <1>1, <1>5, <2>2, <2>3 DEF Exists
    <3>2. \A r \in Rows : subs[r] = NoRow => subs'[r] = NoRow
      BY <1>1, <2>2, <2>3 DEF Exists
    <3>3. \A p \in Payments : payState[p] # "none" => payOrder[p] \in Rows
      BY DEF TypedJobs, PaymentsPlaced
    <3>4. UNCHANGED providerVars
      BY DEF Activate
    <3>5. \A v \in Owners : Exists(v) => subs'[v].owner = v
      BY <1>2, <2>5 DEF RowsInv, OwnersKept
    <3>6. ASSUME NEW q \in Orders
          PROVE  /\ Exists(q) => orderState[q] # "none" /\ subs'[q].pay \in {"PENDING", "PAID", "FAILED"}
                 /\ subs'[q].status = "PENDING" => subs'[q].pay = "PENDING"
      <4>1. q \in Rows
        OBVIOUS
      <4>2. /\ Exists(q) => orderState[q] # "none" /\ subs[q].pay \in {"PENDING", "PAID", "FAILED"}
            /\ subs[q].status = "PENDING" => subs[q].pay = "PENDING"
        BY <1>2 DEF RowsInv
      <4>3. CASE q = o
        BY <1>5, <2>2, <4>1, <4>2, <4>3
      <4>4. CASE q # o /\ buf[s][q] = NoRow
        BY <2>2, <4>1, <4>2, <4>4
      <4>5. CASE q # o /\ buf[s][q] # NoRow
        BY <2>2, <2>3, <4>1, <4>2, <4>5
      <4>. QED
        BY <4>3, <4>4, <4>5
    <3>. QED
      BY <1>2, <3>1, <3>2, <3>3, <3>4, <3>5, <3>6 DEF RowsInv, providerVars
  <2>9. IndexInv'
    <3>1. ASSUME NEW r \in Rows, NEW q \in Rows, Alike(r, q, "ACTIVE")' PROVE r = q
      <4>1. \A x \in Rows : x # o /\ subs'[x].status = "ACTIVE" =>
                subs'[x] = subs[x] /\ View(s)[x] = subs[x]
        BY <1>4, <2>2, <2>3
      <4>2. subs'[o].owner = u
        BY <1>1, <1>5, <2>2
      <4>3. CASE r # o /\ q # o
        BY <1>2, <3>1, <4>1, <4>3 DEF Alike, IndexInv
      <4>4. CASE r = o \/ q = o
        BY <2>4, <3>1, <4>1, <4>2, <4>4 DEF Alike
      <4>. QED
        BY <4>3, <4>4
    <3>2. \A x \in Orders : subs'[x].status = "PENDING" => subs'[x] = subs[x]
      BY <1>5, <2>2, <2>3
    <3>. QED
      BY <1>2, <3>1, <3>2 DEF IndexInv, Alike
  <2>10. OnlyBy(s) /\ CopiesOf(s)' /\ pc'[s] = "idle" /\ RequestOf(s)' /\ s # Scheduler
    BY <1>6, CloseStep
  <2>11. \A t \in Sessions : InsertOf(t)'
    BY <2>6, <2>10, InsertsKeep DEF Activate, providerVars
  <2>. QED
    BY <2>5, <2>7, <2>8, <2>9, <2>10, <2>11, SessionStep
<1>7. CASE /\ s = Scheduler
           /\ buf' = [buf EXCEPT ![s][o] = paid]
           /\ Goto(s, "next")
           /\ UNCHANGED <<subs, lock, job, loaded, todo>>
  <2>. HIDE DEF o, paid
  <2>1. /\ pc'[s] = "next" /\ \A t \in Sessions : t # s => pc'[t] = pc[t] /\ buf'[t] = buf[t]
        /\ \A r \in Rows : buf'[s][r] = IF r = o THEN paid ELSE buf[s][r]
    BY <1>1, <1>7 DEF Goto
  <2>2. OnlyBy(s)
    BY <1>7, <2>1 DEF OnlyBy
  <2>3. CopiesOf(s)'
    BY <1>1, <1>2, <1>5, <1>7, <2>1 DEF CopiesOf, WorkSteps, Completing, Exists
  <2>4. SchedulerInv'
    <3>1. Reconciling
      BY <1>1, <1>7 DEF Reconciling, Completing
    <3>2. TodoInv'
      BY <1>7, <2>1 DEF SchedulerInv, TodoInv, Reconciling, Looking, Completing, Exists
    <3>3. RunLocksInv'
      BY <1>7, <2>1 DEF SchedulerInv, RunLocksInv, Looking, Exists
    <3>. QED
      BY <1>7, <2>1, <3>2, <3>3 DEF SchedulerInv
  <2>5. UNCHANGED providerVars /\ s \notin Requests
    BY <1>7 DEF Activate
  <2>. QED
    BY <1>7, <2>1, <2>2, <2>3, <2>4, <2>5, QuietStep
<1>. QED
  BY <1>1, <1>3, <1>6, <1>7 DEF Activate

LEMMA HandleFlow ==
    ASSUME Flow, NEW s \in Sessions, Handle(s)
    PROVE  FlowInv'
  BY ExpireLapsedFlow, PostOrderFlow, InsertPendingFlow, FetchFlow, LockOrderFlow,
     ExpireDuplicatesFlow, ActivateFlow, MarkOrderFailedFlow, InsertDefaultFlow DEF Handle

-----------------------------------------------------------------------------
\* Arrivals, the scheduler's run, and what happens outside the sessions.

\* A request begins with no locks and no writes; what it has read is there.
LEMMA BeginFlow ==
    ASSUME Flow, NEW s, NEW op \in Handlers, NEW u \in Owners \cup {Nobody},
           NEW r \in Rows \cup {Nobody}, NEW p \in Payments \cup {NoPayment},
           NEW e \in BOOLEAN, NEW R, NEW step \in Steps,
           Begin(s, op, u, r, p, e, R, step),
           R \in {{}, {r}}, R # {} => Exists(r),
           step \in WorkSteps => Exists(r),
           step \notin Completing, step # "insertPending"
    PROVE  FlowInv'
<1>. USE FlowTypes DEF Flow, FlowInv
<1>1. s \in Requests /\ s \in Sessions /\ s # Scheduler /\ pc[s] = "idle"
      /\ UNCHANGED <<dbVars, buf, todo, providerVars>>
  BY DEF Begin
<1>2. pc'[s] = step /\ job'[s].row = r
      /\ \A x \in Rows : loaded'[s][x] = IF x \in R THEN subs[x] ELSE NoRow
  BY <1>1 DEF Begin, Goto, NewJob
<1>3. \A t \in Sessions : t # s => pc'[t] = pc[t] /\ job'[t] = job[t] /\ loaded'[t] = loaded[t]
  BY <1>1 DEF Begin, Goto
<1>4. UNCHANGED <<subs, lock, buf, todo>>
  BY <1>1 DEF dbVars
<1>5. OnlyBy(s)
  BY <1>3, <1>4 DEF OnlyBy
<1>6. \A x \in Rows : lock[x] # s
  BY <1>1 DEF RequestOf, Completing
<1>7. \A x \in Rows : buf[s][x] = NoRow
  BY <1>1, <1>6 DEF CopiesOf
<1>8. RequestOf(s)'
  BY <1>4, <1>6, <1>7 DEF RequestOf
<1>9. CopiesOf(s)'
  <2>1. \A x \in Rows : loaded'[s][x] # NoRow => Exists(x) /\ loaded'[s][x].owner = subs[x].owner
    BY <1>2
  <2>2. step \in WorkSteps => subs'[job'[s].row].owner \in Owners
    BY <1>2, <1>4 DEF Exists
  <2>. QED
    BY <1>2, <1>4, <1>7, <2>1, <2>2 DEF CopiesOf, Exists
<1>. QED
  BY <1>1, <1>2, <1>4, <1>5, <1>8, <1>9, QuietStep

LEMMA ArriveFlow ==
    ASSUME Flow, NEW s \in Requests, Arrive(s)
    PROVE  FlowInv'
<1>. USE DEF Handlers, Steps, Completing
<1>1. \A p \in Payments : payState[p] # "none" => payOrder[p] \in Rows /\ Exists(payOrder[p])
  BY DEF Flow, FlowInv, RowsInv, TypedJobs, PaymentsPlaced, Rows
<1>2. ASSUME NEW u \in Owners, CreateOrder(s, u) PROVE FlowInv'
  <2>1. ASSUME NEW o \in PendingOf(subs, u),
               Begin(s, "create", u, o, NoPayment, FALSE, {o}, "fetchOrder")
        PROVE  FlowInv'
    <3>1. o \in Rows /\ Exists(o)
      BY <1>2 DEF PendingOf, Exists, Rows
    <3>. QED
      BY <2>1, <3>1, BeginFlow
  <2>2. ASSUME NEW r \in ActiveOf(subs, u),
               Begin(s, "create", u, r, NoPayment, FALSE, {r}, "expire")
        PROVE  FlowInv'
    <3>1. r \in Rows /\ Exists(r)
      BY <1>2 DEF ActiveOf, Exists
    <3>. QED
      BY <2>2, <3>1, BeginFlow
  <2>3. CASE Begin(s, "create", u, Nobody, NoPayment, FALSE, {}, "postOrder")
    BY <2>3, BeginFlow DEF WorkSteps
  <2>. QED
    BY <1>2, <2>1, <2>2, <2>3 DEF CreateOrder
<1>3. ASSUME NEW u \in Owners, SyncPending(s, u) PROVE FlowInv'
  <2>1. PICK o \in PendingOf(subs, u) : Begin(s, "sync", u, o, NoPayment, FALSE, {o}, "fetchOrder")
    BY <1>3 DEF SyncPending
  <2>2. o \in Rows /\ Exists(o)
    BY <1>3 DEF PendingOf, Exists, Rows
  <2>. QED
    BY <2>1, <2>2, BeginFlow
<1>4. ASSUME NEW u \in Owners, LookUpActive(s, u) PROVE FlowInv'
  <2>1. ASSUME NEW r \in ActiveOf(subs, u),
               Begin(s, "lookup", u, r, NoPayment, FALSE, {r}, "expire")
        PROVE  FlowInv'
    <3>1. r \in Rows /\ Exists(r)
      BY <1>4 DEF ActiveOf, Exists
    <3>. QED
      BY <2>1, <3>1, BeginFlow
  <2>2. CASE Begin(s, "lookup", u, Nobody, NoPayment, FALSE, {}, "insertDefault")
    BY <2>2, BeginFlow DEF WorkSteps
  <2>. QED
    BY <1>4, <2>1, <2>2 DEF LookUpActive
<1>5. ASSUME NEW p \in Payments, WebhookCaptured(s, p) PROVE FlowInv'
  <2>1. payOrder[p] \in Rows /\ Exists(payOrder[p])
    BY <1>1, <1>5 DEF WebhookCaptured
  <2>2. CASE Begin(s, "webhook", Nobody, payOrder[p], p, TRUE, {}, "lock")
    BY <2>1, <2>2, BeginFlow
  <2>3. CASE Begin(s, "webhook", Nobody, payOrder[p], NoPayment, FALSE, {}, "fetchPayments")
    BY <2>1, <2>3, BeginFlow
  <2>. QED
    BY <1>5, <2>2, <2>3 DEF WebhookCaptured
<1>6. ASSUME NEW p \in Payments, VerifyCheckout(s, p) PROVE FlowInv'
  BY <1>1, <1>6, BeginFlow DEF VerifyCheckout
<1>7. ASSUME NEW p \in Payments, WebhookFailed(s, p) PROVE FlowInv'
  <2>1. payOrder[p] \in Rows /\ Exists(payOrder[p])
    BY <1>1, <1>7 DEF WebhookFailed
  <2>. QED
    BY <1>7, <2>1, BeginFlow DEF WebhookFailed
<1>. QED
  BY <1>2, <1>3, <1>4, <1>5, <1>6, <1>7 DEF Arrive

LEMMA SchedulerFlow ==
    ASSUME Flow, SchedulerActs
    PROVE  FlowInv'
<1>. USE FlowTypes DEF Flow, FlowInv
<1>. DEFINE s == Scheduler
<1>0. CopiesOf(s) /\ RowsInv /\ IndexInv /\ SchedulerInv
  OBVIOUS
<1>1. CASE SchedulerReads
  <2>1. PICK B \in SUBSET UNION {PendingOf(subs, u) : u \in Owners} :
          /\ todo' = B
          /\ loaded' = [loaded EXCEPT ![s] = [r \in Rows |-> IF r \in B THEN subs[r] ELSE NoRow]]
    BY <1>1 DEF SchedulerReads
  <2>2. /\ pc[s] = "idle" /\ pc'[s] = "next" /\ \A t \in Sessions : t # s => pc'[t] = pc[t]
        /\ UNCHANGED <<subs, lock, job, buf, providerVars>>
    BY <1>1 DEF SchedulerReads, Goto, dbVars
  <2>3. \A r \in Rows : lock[r] # s
    BY <1>0, <2>2 DEF SchedulerInv, RunLocksInv
  <2>4. \A r \in Rows : buf[s][r] = NoRow
    BY <1>0, <2>3 DEF CopiesOf
  <2>5. \A o \in B : o \in Orders /\ Exists(o) /\ subs[o].status = "PENDING"
    BY DEF PendingOf, Exists
  <2>6. \A r \in Rows : loaded'[s][r] = IF r \in B THEN subs[r] ELSE NoRow
    BY <2>1
  <2>7. OnlyBy(s)
    BY <2>1, <2>2 DEF OnlyBy
  <2>8. CopiesOf(s)'
    BY <2>2, <2>4, <2>5, <2>6 DEF CopiesOf, WorkSteps, Completing, Exists
  <2>9. SchedulerInv'
    BY <1>0, <2>1, <2>2, <2>3, <2>5
       DEF SchedulerInv, TodoInv, RunLocksInv, Reconciling, Looking, Completing, Exists, IndexInv, Alike
  <2>. QED
    BY <2>2, <2>7, <2>8, <2>9, QuietStep
<1>2. CASE SchedulerTakesRow
  <2>1. PICK o \in todo :
          /\ todo' = todo \ {o}
          /\ job' = [job EXCEPT ![s] =
                       NewJob("scheduler", loaded[s][o].owner, o, NoPayment, FALSE)]
    BY <1>2 DEF SchedulerTakesRow
  <2>2. /\ pc[s] = "next" /\ pc'[s] = "fetchOrder" /\ \A t \in Sessions : t # s => pc'[t] = pc[t]
        /\ UNCHANGED <<subs, lock, loaded, buf, providerVars>>
    BY <1>2 DEF SchedulerTakesRow, Goto, dbVars
  <2>3. job'[s].row = o /\ \A t \in Sessions : t # s => job'[t] = job[t]
    BY <2>1 DEF NewJob
  <2>4. Exists(o) /\ o \in Orders
    BY <1>0 DEF SchedulerInv, TodoInv
  <2>5. OnlyBy(s)
    BY <2>2, <2>3 DEF OnlyBy
  <2>6. CopiesOf(s)'
    BY <1>0, <2>2, <2>3, <2>4 DEF CopiesOf, WorkSteps, Completing, Exists
  <2>7. TodoInv'
    <3>. SUFFICES ASSUME NEW q \in todo, q # o
                  PROVE  /\ subs[q].owner \in Owners
                         /\ \A x \in todo : subs[x].owner = subs[q].owner => x = q
                         /\ subs[o].owner # subs[q].owner
      BY <2>1, <2>2, <2>3 DEF TodoInv, Exists
    <3>. QED
      BY <1>0 DEF SchedulerInv, TodoInv, Exists
  <2>8. RunLocksInv'
    <3>. SUFFICES ASSUME NEW r \in Rows, lock[r] = Scheduler
                  PROVE  /\ subs[r].owner \in Owners
                         /\ \A x \in todo : subs[r].owner # subs[x].owner
      BY <2>1, <2>2, <2>3 DEF RunLocksInv, Exists
    <3>. QED
      BY <1>0 DEF SchedulerInv, RunLocksInv, Exists
  <2>9. SchedulerInv'
    BY <2>2, <2>7, <2>8 DEF SchedulerInv, Reconciling, Looking
  <2>. QED
    BY <2>2, <2>5, <2>6, <2>9, QuietStep
<1>3. CASE SchedulerEnds
  BY <1>3, QuietClose DEF SchedulerEnds
<1>. QED
  BY <1>1, <1>2, <1>3 DEF SchedulerActs

\* What no session does changes no row's owner, status or payment.
LEMMA OutsideFlow ==
    ASSUME Flow, CustomerActs \/ PlanSwitched \/ AnnouncementDeleted \/ \E r \in Rows : Lapse(r)
    PROVE  FlowInv'
<1>. USE FlowTypes DEF Flow, FlowInv
<1>1. UNCHANGED sessionVars /\ UNCHANGED lock
  BY DEF CustomerActs, PlanSwitched, AnnouncementDeleted, Lapse, dbVars
<1>. DEFINE Same ==
       \A r \in Rows : /\ subs'[r].owner = subs[r].owner /\ subs'[r].status = subs[r].status
                       /\ subs'[r].pay = subs[r].pay
                       /\ subs[r] = NoRow => subs'[r] = NoRow
<1>2. Same
  <2>1. ASSUME NEW x \in Rows, Lapse(x) PROVE Same
    <3>1. subs[x] \in Row /\ subs[x].status = "ACTIVE" /\ subs' = [subs EXCEPT ![x].over = TRUE]
      BY <2>1 DEF Lapse
    <3>2. \A r \in Rows : subs'[r] = IF r = x THEN [subs[r] EXCEPT !.over = TRUE] ELSE subs[r]
      BY <3>1
    <3>. QED
      BY <3>1, <3>2 DEF Row, NoRow
  <2>2. CASE UNCHANGED subs
    BY <2>2
  <2>. QED
    BY <2>1, <2>2 DEF CustomerActs, PlanSwitched, AnnouncementDeleted, dbVars
<1>. DEFINE Grown ==
       /\ \A o \in Orders : orderState[o] # "none" => orderState'[o] # "none"
       /\ \A p \in Payments : payState'[p] # "none" =>
             (payState[p] # "none" /\ payOrder'[p] = payOrder[p]) \/ Exists(payOrder'[p])
<1>3. Grown
  <2>1. ASSUME NEW p \in Payments, NEW o \in Orders, subs[o] # NoRow, CustomerPays(p, o)
        PROVE  Grown
    <3>1. Exists(o)
      BY <2>1 DEF RowsInv
    <3>. QED
      BY <2>1, <3>1 DEF CustomerPays
  <2>2. ASSUME NEW p \in Payments, PaymentCaptured(p) \/ PaymentFails(p) PROVE Grown
    <3>1. payOrder[p] \in Orders
      BY <2>2 DEF PaymentCaptured, PaymentFails, TypedJobs, PaymentsPlaced
    <3>. QED
      BY <2>2, <3>1 DEF PaymentCaptured, PaymentFails
  <2>3. CASE UNCHANGED providerVars
    BY <2>3 DEF providerVars
  <2>. QED
    BY <2>1, <2>2, <2>3 DEF CustomerActs, PlanSwitched, AnnouncementDeleted, Lapse
<1>4. RowsInv'
  <2>1. \A r \in Rows : Exists(r)' <=> Exists(r)
    BY <1>2 DEF Exists
  <2>2. TypedJobs'
    BY NextTyped DEF Next
  <2>3. \A p \in Payments : payState'[p] # "none" => payOrder'[p] \in Rows
    BY <2>2 DEF TypedJobs, PaymentsPlaced
  <2>. QED
    BY <1>2, <1>3, <2>1, <2>3 DEF RowsInv, Exists
<1>5. IndexInv'
  <2>1. \A r, q \in Rows : \A status : Alike(r, q, status)' => Alike(r, q, status)
    BY <1>2 DEF Alike
  <2>. QED
    BY <2>1 DEF IndexInv
<1>6. ASSUME NEW s \in Sessions PROVE InsertOf(s)' /\ CopiesOf(s)' /\ (s \in Requests => RequestOf(s)')
  <2>1. pc[s] \in WorkSteps \cup {"insertPending"} => job[s].row \in Rows
    BY DEF TypedJobs, JobsOK, OrderSteps, WorkSteps
  <2>2. pc[s] = "insertPending" => job[s].row \in Orders
    BY DEF TypedJobs, JobsOK, OrderSteps
  <2>3. InsertOf(s)'
    BY <1>1, <1>2, <1>3, <2>1, <2>2 DEF InsertOf, sessionVars
  <2>4. CopiesOf(s)'
    BY <1>1, <1>2, <2>1 DEF CopiesOf, sessionVars, Exists
  <2>5. s \in Requests => RequestOf(s)'
    <3>1. pc' = pc /\ job' = job /\ buf' = buf /\ lock' = lock
      BY <1>1 DEF sessionVars
    <3>2. pc[s] = "activate" => job[s].row \in Rows
      BY <2>1 DEF WorkSteps, Completing
    <3>3. s \in Requests => RequestOf(s)
      OBVIOUS
    <3>4. ASSUME NEW r \in Rows, s \in Requests
          PROVE  /\ lock'[r] = s => pc'[s] \in Completing /\ (r = job'[s].row \/ pc'[s] = "activate")
                 /\ buf'[s][r] # NoRow =>
                        /\ pc'[s] = "activate" /\ r # job'[s].row
                        /\ subs'[r].owner = subs'[job'[s].row].owner
                        /\ buf'[s][r].status = "EXPIRED" /\ subs'[r].status = "ACTIVE"
                        /\ buf'[s][r].pay = subs'[r].pay
      <4>. HIDE DEF Flow, FlowInv
      <4>. QED
        BY <1>2, <3>1, <3>2, <3>3, <3>4 DEF RequestOf
    <3>. QED
      BY <3>4 DEF RequestOf
  <2>. QED
    BY <2>3, <2>4, <2>5
<1>7. SchedulerInv'
  <2>1. Reconciling => job[Scheduler].row \in Rows
    BY DEF TypedJobs, JobsOK, OrderSteps, Reconciling, Looking, Completing
  <2>2. Reconciling' <=> Reconciling
    BY <1>1 DEF Reconciling, sessionVars
  <2>3. TodoInv'
    BY <1>1, <1>2, <2>1, <2>2 DEF SchedulerInv, TodoInv, sessionVars, Exists
  <2>4. RunLocksInv'
    BY <1>1, <1>2, <2>1 DEF SchedulerInv, RunLocksInv, sessionVars, Exists, Reconciling, Looking, Completing
  <2>. QED
    BY <1>1, <2>2, <2>3, <2>4 DEF SchedulerInv, sessionVars
<1>. QED
  BY <1>4, <1>5, <1>6, <1>7


LEMMA InitFlow == Init => FlowInv
<1>. SUFFICES ASSUME Init PROVE FlowInv
  OBVIOUS
<1>. USE PaymentsAssumption, TableAssumption DEF Init, ProviderInit
<1>1. PICK assigned \in SUBSET Owners :
        subs = [r \in Rows |-> IF r \in assigned THEN DefaultRow(r) ELSE NoRow]
  OBVIOUS
<1>2. /\ \A r \in Rows : subs[r] = IF r \in assigned THEN DefaultRow(r) ELSE NoRow
      /\ \A r \in assigned : r \in Owners /\ r \notin Orders /\ DefaultRow(r).owner = r
      /\ NoRow.owner = Nobody /\ NoRow.status = "NONE"
  BY <1>1 DEF DefaultRow, NoRow
<1>3. RowsInv
  BY <1>2 DEF RowsInv, Exists, Rows
<1>4. IndexInv
  <2>1. \A r \in Rows : subs[r].status \in {"ACTIVE", "NONE"}
    BY <1>2 DEF DefaultRow
  <2>2. \A r \in Rows : subs[r].status = "ACTIVE" => r \in Owners /\ subs[r].owner = r
    BY <1>2
  <2>3. Orders \subseteq Rows
    BY DEF Rows
  <2>. QED
    BY <2>1, <2>2, <2>3 DEF IndexInv, Alike
<1>5. ASSUME NEW s \in Sessions PROVE InsertOf(s) /\ CopiesOf(s) /\ RequestOf(s)
  BY <1>5 DEF InsertOf, CopiesOf, RequestOf, WorkSteps, Completing, Nothing, Sessions
<1>6. SchedulerInv
  BY DEF SchedulerInv, TodoInv, RunLocksInv, Sessions
<1>. QED
  BY <1>3, <1>4, <1>5, <1>6 DEF FlowInv, Sessions

LEMMA NextFlow == Flow /\ [Next]_vars => Flow'
<1>. SUFFICES ASSUME Flow, [Next]_vars PROVE Flow'
  OBVIOUS
<1>1. TypedJobs' /\ LocksHeld'
  BY NextTyped, NextLocks DEF Flow
<1>2. FlowInv'
  <2>1. ASSUME NEW s \in Requests, Arrive(s) PROVE FlowInv'
    BY <2>1, ArriveFlow
  <2>2. ASSUME NEW s \in Sessions, Handle(s) PROVE FlowInv'
    BY <2>2, HandleFlow
  <2>3. ASSUME NEW s \in Sessions, Interrupted(s) PROVE FlowInv'
    BY <2>3, QuietClose DEF Interrupted
  <2>4. CASE SchedulerActs
    BY <2>4, SchedulerFlow
  <2>5. CASE CustomerActs \/ PlanSwitched \/ AnnouncementDeleted \/ \E r \in Rows : Lapse(r)
    BY <2>5, OutsideFlow
  <2>6. CASE UNCHANGED vars
    BY <2>6 DEF vars, dbVars, sessionVars, providerVars, Flow, FlowInv, RowsInv, IndexInv, Alike,
                InsertOf, CopiesOf, RequestOf, SchedulerInv, TodoInv, RunLocksInv, Reconciling, Exists
  <2>. QED
    BY <2>1, <2>2, <2>3, <2>4, <2>5, <2>6 DEF Next
<1>. QED
  BY <1>1, <1>2 DEF Flow

\* Every step of the sessions keeps what they know of the table.
LEMMA SpecFlow == Spec => []Flow
<1>1. Init => Flow
  BY InitTyped, InitFlow DEF Init, Flow, LocksHeld, Completing
<1>. QED
  BY <1>1, NextFlow, PTL DEF Spec

-----------------------------------------------------------------------------
\* Sessions never wait for each other in a circle.

\* A session that expires an owner's other plans wants active rows of that
\* owner; those it has not written are active in the table.
LEMMA DuplicatesWanted ==
    ASSUME Flow, NEW s \in Sessions, pc[s] = "expireDuplicates",
           NEW q \in Wanted(s), buf[s][q] = NoRow
    PROVE  /\ q \in Rows /\ q # job[s].row /\ subs[q].status = "ACTIVE"
           /\ subs[q].owner = subs[job[s].row].owner
  BY OwnerRead DEF Wanted, Completing, DuplicatesOf, ActiveOf, View

\* A request that holds a row and waits for another has locked its order only.
LEMMA RequestWaits ==
    ASSUME Flow, NEW t \in Requests, NEW r \in Rows, lock[r] = t, NEW q \in Wanted(t)
    PROVE  /\ pc[t] = "expireDuplicates" /\ r = job[t].row /\ q \in Rows /\ q # r
           /\ subs[q].status = "ACTIVE" /\ subs[q].owner = subs[r].owner
<1>1. RequestOf(t) /\ t \in Sessions
  BY FlowTypes DEF Flow, FlowInv
<1>2. pc[t] \in Completing /\ (r = job[t].row \/ pc[t] = "activate")
  BY <1>1 DEF RequestOf
<1>3. pc[t] \in {"lock", "expire", "markFailed", "expireDuplicates"}
  BY DEF Wanted
<1>4. pc[t] = "expireDuplicates" /\ r = job[t].row
  BY <1>2, <1>3 DEF Completing
<1>5. q \in Rows
  BY <1>4 DEF Wanted, DuplicatesOf, ActiveOf
<1>6. buf[t][q] = NoRow
  BY <1>1, <1>4, <1>5 DEF RequestOf
<1>. QED
  BY <1>1, <1>4, <1>6, DuplicatesWanted

\* For any number of requests beside the scheduler: the only locks ever held
\* while waiting are a request's order, by a request that waits for the plan
\* its owner has now, and those of the scheduler's run.
THEOREM LocksAcyclic == Spec => []NoDeadlock
<1>1. Flow => NoDeadlock
  <2>. SUFFICES ASSUME Flow, NEW S \in SUBSET Sessions, S # {},
                       \A s \in S : \E r \in Wanted(s) : lock[r] \in S \ {s}
                PROVE  FALSE
    BY DEF NoDeadlock
  <2>. USE FlowTypes
  <2>. DEFINE Waits(s, t, r) == r \in Wanted(s) /\ lock[r] = t
              Blocked(t, r) == t \in S /\ r \in Rows /\ lock[r] = t
  <2>0. IndexInv /\ SchedulerInv /\ CopiesOf(Scheduler)
    BY DEF Flow, FlowInv
  <2>1. ASSUME NEW s \in S PROVE \E t \in S, r \in Rows : t # s /\ Waits(s, t, r)
    <3>1. \A r \in Wanted(s) : r \in Rows
      BY DEF Wanted, DuplicatesOf, ActiveOf, Flow, TypedJobs, JobsOK, OrderSteps
    <3>. QED
      BY <3>1
  <2>2. ASSUME NEW t \in Requests, NEW r, Blocked(t, r) PROVE Scheduler \in S /\ \E q \in Rows : Waits(t, Scheduler, q)
    <3>1. PICK t2 \in S, q \in Rows : t2 # t /\ Waits(t, t2, q)
      BY <2>1, <2>2
    <3>2. ASSUME t2 \in Requests PROVE FALSE
      <4>1. subs[q].status = "ACTIVE"
        BY <2>2, <3>1, RequestWaits
      <4>2. PICK t3 \in S, q3 \in Rows : Waits(t2, t3, q3)
        BY <2>1
      <4>3. q3 # q /\ subs[q3].status = "ACTIVE" /\ subs[q3].owner = subs[q].owner
        BY <3>1, <3>2, <4>2, RequestWaits
      <4>. QED
        BY <2>0, <4>1, <4>3 DEF IndexInv, Alike
    <3>. QED
      BY <3>1, <3>2
  <2>3. Scheduler \in S
    <3>1. PICK s \in S : TRUE
      OBVIOUS
    <3>2. PICK t \in S, r \in Rows : Waits(s, t, r)
      BY <2>1
    <3>. QED
      BY <2>2, <3>2
  <2>4. PICK t \in S, r \in Rows : t # Scheduler /\ Waits(Scheduler, t, r)
    BY <2>1, <2>3
  <2>5. t \in Requests /\ lock[r] = t
    BY <2>4
  <2>6. PICK q \in Rows : Waits(t, Scheduler, q)
    BY <2>2, <2>5
  <2>7. q # r /\ subs[q].status = "ACTIVE" /\ subs[q].owner = subs[r].owner /\ lock[q] = Scheduler
    BY <2>5, <2>6, RequestWaits
  <2>8. CASE pc[Scheduler] = "expireDuplicates"
    <3>1. buf[Scheduler][r] = NoRow
      BY <2>0, <2>5 DEF CopiesOf
    <3>2. subs[r].status = "ACTIVE"
      BY <2>4, <2>8, <3>1, DuplicatesWanted
    <3>. QED
      BY <2>0, <2>7, <3>2 DEF IndexInv, Alike
  <2>9. CASE pc[Scheduler] # "expireDuplicates"
    <3>1. pc[Scheduler] = "lock" /\ r = job[Scheduler].row
      BY <2>0, <2>4, <2>9 DEF Wanted, SchedulerInv, Reconciling, Looking, Completing
    <3>. QED
      BY <2>0, <2>7, <3>1 DEF SchedulerInv, RunLocksInv, Looking
  <2>. QED
    BY <2>8, <2>9
<1>. QED
  BY <1>1, SpecFlow, PTL

-----------------------------------------------------------------------------
\* A running plan is never dropped, not even for one committed state.

\* What an activation makes of the table.
LEMMA ActivatedTable ==
    ASSUME Flow, NEW s \in Requests, Activate(s), subs' # subs
    PROVE  LET o == job[s].row
           IN  /\ o \in Orders /\ pc[s] = "activate" /\ lock[o] = s
               /\ subs'[o] = Activated(subs[o], job[s].pay)
               /\ \A r \in Rows : r # o /\ buf[s][r] = NoRow => subs'[r] = subs[r]
               /\ \A r \in Rows : buf[s][r] # NoRow =>
                    /\ r # o /\ subs[r].owner = subs[o].owner /\ lock[r] = s
                    /\ subs[r].status = "ACTIVE" /\ subs'[r].status = "EXPIRED"
                    /\ subs'[r].owner = subs[r].owner /\ subs'[r].pay = subs[r].pay
                    /\ subs'[r].over = subs[r].over
               /\ \A r \in ActiveOf(subs, subs[o].owner) \ {o} : buf[s][r] # NoRow
<1>. USE FlowTypes
<1>. DEFINE o == job[s].row
<1>1. o \in Orders /\ pc[s] = "activate" /\ lock[o] = s
  BY OwnerRead DEF Activate, Completing
<1>2. CopiesOf(s) /\ RequestOf(s) /\ loaded[s][o].owner = subs[o].owner
  BY OwnerRead DEF Flow, FlowInv, Activate, Completing
<1>3. /\ subs' = [Committed(s) EXCEPT ![o] = Activated(View(s)[o], job[s].pay)]
      /\ ActiveIndexAccepts(View(s), subs[o].owner, o)
  BY <1>2 DEF Activate
<1>4. \A r \in Rows : buf[s][r] # NoRow =>
         /\ r # o /\ subs[r].owner = subs[o].owner /\ lock[r] = s
         /\ buf[s][r].owner = subs[r].owner
         /\ buf[s][r].status = "EXPIRED" /\ subs[r].status = "ACTIVE"
         /\ buf[s][r].pay = subs[r].pay
  BY <1>2 DEF CopiesOf, RequestOf
<1>5. \A r \in Rows : View(s)[r] = IF buf[s][r] = NoRow THEN subs[r] ELSE buf[s][r]
  BY DEF View
<1>6. View(s)[o] = subs[o]
  BY <1>1, <1>4, <1>5
<1>7. /\ Committed(s) \in [Rows -> Row]
      /\ \A r \in Rows : Committed(s)[r] = IF buf[s][r] = NoRow THEN subs[r]
                                            ELSE [buf[s][r] EXCEPT !.over = subs[r].over]
  BY CommittedRows DEF Flow, TypedJobs
<1>8. /\ subs'[o] = Activated(subs[o], job[s].pay)
      /\ \A r \in Rows : r # o => subs'[r] = IF buf[s][r] = NoRow THEN subs[r]
                                             ELSE [buf[s][r] EXCEPT !.over = subs[r].over]
  BY <1>1, <1>3, <1>6, <1>7
<1>9. \A r \in ActiveOf(subs, subs[o].owner) \ {o} : buf[s][r] # NoRow
  BY <1>3, <1>5 DEF ActiveIndexAccepts, ActiveOf
<1>. HIDE DEF o
<1>10. ASSUME NEW r \in Rows, buf[s][r] # NoRow
       PROVE  /\ subs'[r].status = "EXPIRED" /\ subs'[r].owner = subs[r].owner
              /\ subs'[r].pay = subs[r].pay /\ subs'[r].over = subs[r].over
  <2>1. subs'[r] = [buf[s][r] EXCEPT !.over = subs[r].over]
    BY <1>4, <1>8, <1>10
  <2>2. buf[s][r] \in Row
    OBVIOUS
  <2>. QED
    BY <1>4, <1>10, <2>1, <2>2 DEF Row
<1>11. \A r \in Rows : r # o /\ buf[s][r] = NoRow => subs'[r] = subs[r]
  BY <1>8
<1>. QED
  BY <1>1, <1>4, <1>8, <1>9, <1>10, <1>11 DEF o

LEMMA CoverKept ==
    ASSUME Flow, [Next]_vars, NEW u \in Owners, Covered(subs, u),
           ~(\E r \in Rows : Lapse(r)), ~(\E s \in Requests : Outdated(s) /\ Handle(s))
    PROVE  Covered(subs', u)
<1>. USE FlowTypes
<1>1. PICK x \in Rows : subs[x].owner = u /\ subs[x].status = "ACTIVE" /\ ~subs[x].over
  BY DEF Covered, ActiveOf
<1>2. SUFFICES ASSUME subs' # subs, subs'[x] # subs[x]
               PROVE  Covered(subs', u)
  BY <1>1 DEF Covered, ActiveOf
<1>3. PICK s \in Sessions : Handle(s)
  <2>1. ASSUME NEW s \in Requests, Arrive(s) PROVE UNCHANGED subs
    BY <2>1 DEF Arrive, CreateOrder, SyncPending, LookUpActive, WebhookCaptured, VerifyCheckout,
                WebhookFailed, Begin, dbVars
  <2>2. ASSUME NEW s \in Sessions, Interrupted(s) PROVE UNCHANGED subs
    BY <2>2 DEF Interrupted
  <2>3. ASSUME SchedulerActs \/ CustomerActs \/ PlanSwitched \/ AnnouncementDeleted \/ UNCHANGED vars PROVE UNCHANGED subs
    BY <2>3 DEF SchedulerActs, SchedulerReads, SchedulerTakesRow, SchedulerEnds, CustomerActs,
                PlanSwitched, AnnouncementDeleted, vars, dbVars
  <2>. QED
    BY <1>2, <2>1, <2>2, <2>3 DEF Next
<1>4. s \in Requests \/ pc[s] \in {"idle", "next"} \cup Completing \cup Looking
  BY DEF Flow, FlowInv, SchedulerInv, Reconciling
<1>5. CASE ExpireLapsed(s)
  <2>1. subs' = [subs EXCEPT ![job[s].row].status = "EXPIRED"] /\ pc[s] = "expire"
    BY <1>2, <1>5 DEF ExpireLapsed
  <2>2. s \in Requests
    BY <1>4, <2>1 DEF Completing, Looking
  <2>3. subs[job[s].row].over
    BY <1>3, <2>1, <2>2 DEF Outdated
  <2>. QED
    BY <1>1, <1>2, <2>1, <2>3
<1>6. CASE MarkOrderFailed(s)
  <2>1. /\ subs' = [subs EXCEPT ![job[s].row].status = "PAYMENT_FAILED", ![job[s].row].pay = "FAILED"]
        /\ pc[s] = "markFailed"
    BY <1>6 DEF MarkOrderFailed
  <2>2. s \in Requests
    BY <1>4, <2>1 DEF Completing, Looking
  <2>3. subs[job[s].row].status = "PENDING"
    BY <1>3, <2>1, <2>2 DEF Outdated
  <2>4. x # job[s].row
    BY <1>1, <2>3
  <2>. QED
    BY <1>2, <2>1, <2>4
<1>7. CASE InsertPending(s)
  <2>1. subs' = [subs EXCEPT ![job[s].row] = PendingRow(job[s].owner)] /\ pc[s] = "insertPending"
    BY <1>2, <1>7 DEF InsertPending
  <2>2. subs[job[s].row] = NoRow
    BY <2>1 DEF Flow, FlowInv, InsertOf
  <2>3. x # job[s].row
    BY <1>1, <2>2 DEF NoRow
  <2>. QED
    BY <1>2, <2>1, <2>3
<1>8. CASE InsertDefault(s)
  <2>1. /\ ActiveOf(subs, job[s].owner) = {} /\ pc[s] = "insertDefault"
        /\ subs' = [subs EXCEPT ![job[s].owner] = DefaultRow(job[s].owner)]
    BY <1>2, <1>8 DEF InsertDefault
  <2>2. x = job[s].owner
    BY <1>2, <2>1
  <2>3. subs[x].owner = x
    BY <1>1, <2>1, <2>2 DEF Flow, FlowInv, RowsInv, Exists, TypedJobs, JobsOK, OwnerSteps
  <2>. QED
    BY <1>1, <2>1, <2>2, <2>3 DEF ActiveOf
<1>9. CASE Activate(s)
  <2>1. s \in Requests
    BY <1>2, <1>9 DEF Activate
  <2>. DEFINE o == job[s].row
  <2>2. /\ o \in Rows /\ subs'[o] = Activated(subs[o], job[s].pay)
        /\ x = o \/ subs[x].owner = subs[o].owner
    BY <1>2, <1>9, <2>1, ActivatedTable
  <2>3. subs'[o].status = "ACTIVE" /\ ~subs'[o].over /\ subs'[o].owner = u
    BY <1>1, <2>2 DEF Activated, Row
  <2>. QED
    BY <2>2, <2>3 DEF Covered, ActiveOf
<1>10. CASE \/ PostOrder(s) \/ FetchOrder(s) \/ FetchOrderPayments(s) \/ LockOrder(s)
            \/ FetchAndValidate(s) \/ ExpireDuplicates(s) \/ EnsureDefault(s)
  BY <1>2, <1>10 DEF PostOrder, FetchOrder, FetchOrderPayments, LockOrder, FetchAndValidate,
                     ExpireDuplicates, EnsureDefault
<1>. QED
  BY <1>3, <1>5, <1>6, <1>7, <1>8, <1>9, <1>10 DEF Handle

\* Whatever requests, webhooks and scheduler runs do at the same time, an
\* owner with a running plan has one after every commit, unless its time has
\* run out or an expiry or a failure is recorded of a row that has changed
\* since it was read.
THEOREM CoverStays == Spec => CoverNeverDropped
<1>1. Flow /\ [Next]_vars =>
        [\A u \in Owners :
           /\ Covered(subs, u)
           /\ ~(\E r \in Rows : Lapse(r))
           /\ ~(\E s \in Requests : Outdated(s) /\ Handle(s))
           => Covered(subs', u)]_vars
  BY CoverKept
<1>. QED
  BY <1>1, SpecFlow, PTL DEF Spec, CoverNeverDropped

-----------------------------------------------------------------------------
\* What the payment flow does to the rows of an owner is what the lifecycle
\* takes it for.

StatusKnown == \A r \in Rows : subs[r].status = "NONE" => subs[r] = NoRow

RowExpires(r) == Exists(r) /\ subs' = [subs EXCEPT ![r].status = "EXPIRED"]
RowFails(r) ==
    Exists(r) /\ subs' = [subs EXCEPT ![r].status = "PAYMENT_FAILED", ![r].pay = "FAILED"]
RowPlaced(r, u) == subs[r] = NoRow /\ subs' = [subs EXCEPT ![r] = PendingRow(u)]
DefaultStarts(u) == ActiveOf(subs, u) = {} /\ subs' = [subs EXCEPT ![u] = DefaultRow(u)]

\* The commits there are.
LEMMA TableSteps ==
    ASSUME Flow, [Next]_vars, subs' # subs
    PROVE  \/ \E r \in Rows : RowExpires(r) \/ RowFails(r) \/ Lapse(r)
           \/ \E r \in Rows, u \in Owners : RowPlaced(r, u)
           \/ \E u \in Owners : DefaultStarts(u)
           \/ \E s \in Requests : Activate(s)
<1>. USE FlowTypes
<1>1. SUFFICES ASSUME ~(\E r \in Rows : Lapse(r))
               PROVE  \/ \E r \in Rows : RowExpires(r) \/ RowFails(r)
                      \/ \E r \in Rows, u \in Owners : RowPlaced(r, u)
                      \/ \E u \in Owners : DefaultStarts(u)
                      \/ \E s \in Requests : Activate(s)
  OBVIOUS
<1>2. PICK s \in Sessions : Handle(s)
  <2>1. ASSUME NEW s \in Requests, Arrive(s) PROVE UNCHANGED subs
    BY <2>1 DEF Arrive, CreateOrder, SyncPending, LookUpActive, WebhookCaptured, VerifyCheckout,
                WebhookFailed, Begin, dbVars
  <2>2. ASSUME NEW s \in Sessions, Interrupted(s) PROVE UNCHANGED subs
    BY <2>2 DEF Interrupted
  <2>3. ASSUME SchedulerActs \/ CustomerActs \/ PlanSwitched \/ AnnouncementDeleted \/ UNCHANGED vars PROVE UNCHANGED subs
    BY <2>3 DEF SchedulerActs, SchedulerReads, SchedulerTakesRow, SchedulerEnds, CustomerActs,
                PlanSwitched, AnnouncementDeleted, vars, dbVars
  <2>. QED
    BY <1>1, <2>1, <2>2, <2>3 DEF Next
<1>3. CopiesOf(s) /\ InsertOf(s)
  BY DEF Flow, FlowInv
<1>4. /\ pc[s] \in OrderSteps => job[s].row \in Orders
      /\ pc[s] = "expire" => job[s].row \in Rows
      /\ pc[s] \in OwnerSteps => job[s].owner \in Owners
  BY DEF Flow, TypedJobs, JobsOK
<1>5. CASE ExpireLapsed(s)
  BY <1>3, <1>4, <1>5 DEF ExpireLapsed, RowExpires, CopiesOf, WorkSteps
<1>6. CASE MarkOrderFailed(s)
  BY <1>3, <1>4, <1>6 DEF MarkOrderFailed, RowFails, CopiesOf, WorkSteps, OrderSteps
<1>7. CASE InsertPending(s)
  <2>1. subs' = [subs EXCEPT ![job[s].row] = PendingRow(job[s].owner)] /\ pc[s] = "insertPending"
    BY <1>7 DEF InsertPending
  <2>. QED
    BY <1>3, <1>4, <2>1 DEF RowPlaced, InsertOf, OrderSteps, OwnerSteps
<1>8. CASE InsertDefault(s)
  BY <1>4, <1>8 DEF InsertDefault, DefaultStarts, OwnerSteps
<1>9. CASE Activate(s)
  BY <1>9 DEF Activate
<1>10. CASE \/ PostOrder(s) \/ FetchOrder(s) \/ FetchOrderPayments(s) \/ LockOrder(s)
            \/ FetchAndValidate(s) \/ ExpireDuplicates(s) \/ EnsureDefault(s)
  BY <1>10 DEF PostOrder, FetchOrder, FetchOrderPayments, LockOrder, FetchAndValidate,
               ExpireDuplicates, EnsureDefault
<1>. QED
  BY <1>2, <1>5, <1>6, <1>7, <1>8, <1>9, <1>10 DEF Handle

\* The row that a commit changes on its own has a status.
LEMMA StatusGiven ==
    ASSUME Flow, NEW r \in Rows, RowExpires(r) \/ RowFails(r) \/ Lapse(r)
    PROVE  /\ \A x \in Rows \ {r} : subs'[x] = subs[x]
           /\ subs'[r].owner = subs[r].owner
           /\ \/ subs'[r].status = "EXPIRED" /\ subs'[r].over = subs[r].over /\ RowExpires(r)
              \/ subs'[r].status = "PAYMENT_FAILED" /\ subs'[r].over = subs[r].over /\ RowFails(r)
              \/ subs'[r].status = "ACTIVE" /\ subs[r].status = "ACTIVE"
                 /\ subs'[r].over = TRUE /\ ~subs[r].over
<1>1. subs \in [Rows -> Row] /\ subs[r] \in Row
  BY FlowTypes
<1>2. CASE RowExpires(r)
  BY <1>1, <1>2 DEF RowExpires, Row
<1>3. CASE RowFails(r)
  BY <1>1, <1>3 DEF RowFails, Row
<1>4. CASE Lapse(r)
  BY <1>1, <1>4 DEF Lapse, Row
<1>. QED
  BY <1>2, <1>3, <1>4

LEMMA NextStatus == Flow /\ StatusKnown /\ [Next]_vars => StatusKnown'
<1>. SUFFICES ASSUME Flow, StatusKnown, [Next]_vars, subs' # subs PROVE StatusKnown'
  BY DEF StatusKnown
<1>1. subs \in [Rows -> Row] /\ Orders \subseteq Rows /\ Requests \subseteq Sessions
  BY FlowTypes
<1>2. ASSUME NEW r \in Rows, RowExpires(r) \/ RowFails(r) \/ Lapse(r) PROVE StatusKnown'
  BY <1>2, StatusGiven DEF StatusKnown
<1>3. ASSUME NEW r \in Rows, NEW u \in Owners, RowPlaced(r, u) PROVE StatusKnown'
  BY <1>1, <1>3 DEF RowPlaced, PendingRow, StatusKnown
<1>4. ASSUME NEW u \in Owners, DefaultStarts(u) PROVE StatusKnown'
  BY <1>1, <1>4 DEF DefaultStarts, DefaultRow, StatusKnown
<1>5. ASSUME NEW s \in Requests, Activate(s) PROVE StatusKnown'
  <2>. DEFINE o == job[s].row
  <2>1. /\ subs'[o] = Activated(subs[o], job[s].pay) /\ o \in Rows
        /\ \A r \in Rows : r # o /\ buf[s][r] = NoRow => subs'[r] = subs[r]
        /\ \A r \in Rows : buf[s][r] # NoRow => subs'[r].status = "EXPIRED"
    BY <1>1, <1>5, ActivatedTable
  <2>2. subs'[o].status = "ACTIVE"
    BY <1>1, <2>1 DEF Activated, Row
  <2>. HIDE DEF o
  <2>. QED
    BY <2>1, <2>2 DEF StatusKnown
<1>. QED
  BY <1>2, <1>3, <1>4, <1>5, TableSteps

LEMMA SpecStatus == Spec => []StatusKnown
<1>1. Init => StatusKnown
  BY DEF Init, StatusKnown, DefaultRow, Rows
<1>2. UNCHANGED vars /\ StatusKnown => StatusKnown'
  BY DEF vars, dbVars, StatusKnown
<1>. QED
  BY <1>1, <1>2, SpecFlow, NextStatus, PTL DEF Spec

\* Each kind of commit, as the lifecycle of one owner sees it.
LEMMA OwnerSees ==
    ASSUME Flow, StatusKnown, NEW u \in Owners, [Next]_vars, subs' # subs
    PROVE  \/ RowsOf(u)' = RowsOf(u)
           \/ Lifecycle(u)!PaymentActs
           \/ Lifecycle(u)!LookUpActs
           \/ Lifecycle(u)!TimePasses
<1>. DEFINE now == RowsOf(u)
            next == RowsOf(u)'
<1>1. subs \in [Rows -> Row] /\ Orders \subseteq Rows /\ Owners \subseteq Rows
  BY FlowTypes
<1>2. /\ now = [r \in Rows |-> now[r]] /\ next = [r \in Rows |-> next[r]]
      /\ \A r \in Rows :
           /\ subs[r].owner = u => now[r] = [status |-> subs[r].status, over |-> subs[r].over]
           /\ subs[r].owner # u => now[r] = [status |-> "NONE", over |-> FALSE]
           /\ subs'[r].owner = u => next[r] = [status |-> subs'[r].status, over |-> subs'[r].over]
           /\ subs'[r].owner # u => next[r] = [status |-> "NONE", over |-> FALSE]
           /\ subs'[r] = subs[r] => next[r] = now[r]
  BY DEF RowsOf
<1>3. ASSUME NEW r \in Rows, RowExpires(r) \/ RowFails(r) \/ Lapse(r)
      PROVE  next = now \/ Lifecycle(u)!PaymentActs \/ Lifecycle(u)!LookUpActs
                        \/ Lifecycle(u)!TimePasses
  <2>1. /\ \A x \in Rows \ {r} : next[x] = now[x]
        /\ subs'[r].owner = subs[r].owner
    BY <1>2, <1>3, StatusGiven
  <2>2. CASE subs[r].owner # u
    <3>1. next[r] = now[r]
      BY <1>2, <2>1, <2>2
    <3>. HIDE DEF now, next
    <3>2. \A x \in Rows : next[x] = now[x]
      BY <2>1, <3>1
    <3>. QED
      BY <1>2, <3>2
  <2>3. CASE subs[r].owner = u
    <3>1. /\ now[r] = [status |-> subs[r].status, over |-> subs[r].over]
          /\ next[r] = [status |-> subs'[r].status, over |-> subs'[r].over]
      BY <1>2, <2>1, <2>3
    <3>2. now[r].status # "NONE"
      BY <1>1, <2>3, <3>1, FlowTypes DEF StatusKnown
    <3>3. CASE subs'[r].status = "EXPIRED" /\ subs'[r].over = subs[r].over
      <4>1. next = [now EXCEPT ![r].status = "EXPIRED"]
        BY <1>2, <2>1, <3>1, <3>3
      <4>. QED
        BY <3>2, <4>1 DEF Lifecycle!LookUpActs, Lifecycle!PlanExpires, Lifecycle!Existing
    <3>4. CASE subs'[r].status = "PAYMENT_FAILED" /\ subs'[r].over = subs[r].over
      <4>1. next = [now EXCEPT ![r].status = "PAYMENT_FAILED"]
        BY <1>2, <2>1, <3>1, <3>4
      <4>. QED
        BY <3>2, <4>1 DEF Lifecycle!PaymentActs, Lifecycle!OrderFails, Lifecycle!Existing
    <3>5. CASE subs'[r].status = subs[r].status /\ subs'[r].over = TRUE /\ ~subs[r].over
      <4>. HIDE DEF now, next
      <4>1. next[r] = [status |-> subs[r].status, over |-> TRUE]
        BY <3>1, <3>5
      <4>2. now[r] \in [status : Statuses, over : BOOLEAN] /\ now[r].status = subs[r].status
        BY <1>1, <3>1 DEF Row
      <4>3. next = [now EXCEPT ![r].over = TRUE]
        BY <1>2, <2>1, <4>1, <4>2
      <4>4. ~now[r].over
        BY <3>1, <3>5
      <4>. QED
        BY <4>3, <4>4 DEF now, next, Lifecycle!TimePasses, Lifecycle!PeriodEnds
    <3>. QED
      BY <1>1, <1>3, <3>3, <3>4, <3>5, StatusGiven DEF Lapse
  <2>. QED
    BY <2>2, <2>3
<1>4. ASSUME NEW r \in Rows, NEW v \in Owners, RowPlaced(r, v)
      PROVE  next = now \/ Lifecycle(u)!PaymentActs
  <2>1. /\ \A x \in Rows \ {r} : subs'[x] = subs[x]
        /\ subs'[r] = PendingRow(v) /\ subs[r] = NoRow
    BY <1>1, <1>4 DEF RowPlaced
  <2>2. \A x \in Rows \ {r} : next[x] = now[x]
    BY <1>2, <2>1
  <2>3. subs[r].owner # u /\ subs'[r].owner = v /\ subs'[r].status = "PENDING" /\ ~subs'[r].over
    BY <2>1, TableAssumption DEF NoRow, PendingRow
  <2>4. now[r] = [status |-> "NONE", over |-> FALSE]
    BY <1>2, <2>3
  <2>5. CASE v # u
    <3>1. next[r] = now[r]
      BY <1>2, <2>3, <2>4, <2>5
    <3>. HIDE DEF now, next
    <3>. QED
      BY <1>2, <2>2, <3>1
  <2>6. CASE v = u
    <3>1. next[r] = [status |-> "PENDING", over |-> FALSE]
      BY <1>2, <2>1, <2>3, <2>6 DEF PendingRow
    <3>2. next = [now EXCEPT ![r] = [status |-> "PENDING", over |-> FALSE]]
      BY <1>2, <2>2, <3>1
    <3>3. now[r].status = "NONE"
      BY <2>4
    <3>. QED
      BY <3>2, <3>3 DEF Lifecycle!PaymentActs, Lifecycle!OrderPlaced
  <2>. QED
    BY <2>5, <2>6
<1>5. ASSUME NEW v \in Owners, DefaultStarts(v)
      PROVE  next = now \/ Lifecycle(u)!LookUpActs
  <2>1. /\ v \in Rows /\ \A x \in Rows \ {v} : subs'[x] = subs[x]
        /\ subs'[v] = DefaultRow(v) /\ subs[v].owner \in {v, Nobody}
    BY <1>1, <1>5 DEF DefaultStarts, Flow, FlowInv, RowsInv, Exists, NoRow
  <2>2. \A x \in Rows \ {v} : next[x] = now[x]
    BY <1>2, <2>1
  <2>3. subs'[v].owner = v
    BY <2>1 DEF DefaultRow
  <2>4. CASE v # u
    <3>1. subs[v].owner # u
      BY <2>1, <2>4, TableAssumption
    <3>2. next[v] = now[v]
      BY <1>2, <2>1, <2>3, <2>4, <3>1
    <3>. HIDE DEF now, next
    <3>. QED
      BY <1>2, <2>1, <2>2, <3>2
  <2>5. CASE v = u
    <3>1. next[v] = [status |-> "ACTIVE", over |-> FALSE]
      BY <1>2, <2>1, <2>5 DEF DefaultRow
    <3>2. next = [now EXCEPT ![v] = [status |-> "ACTIVE", over |-> FALSE]]
      BY <1>2, <2>1, <2>2, <3>1
    <3>3. \A x \in Rows : now[x].status # "ACTIVE"
      BY <1>2, <1>5, <2>5 DEF DefaultStarts, ActiveOf
    <3>. QED
      BY <2>1, <3>2, <3>3 DEF Lifecycle!LookUpActs, Lifecycle!PlanStarts, Lifecycle!Active
  <2>. QED
    BY <2>4, <2>5
<1>6. ASSUME NEW s \in Requests, Activate(s)
      PROVE  next = now \/ Lifecycle(u)!PaymentActs
  <2>. DEFINE o == job[s].row
              v == subs[o].owner
  <2>1. /\ o \in Orders /\ o \in Rows
        /\ subs'[o] = Activated(subs[o], job[s].pay)
        /\ \A r \in Rows : r # o /\ buf[s][r] = NoRow => subs'[r] = subs[r]
        /\ \A r \in Rows : buf[s][r] # NoRow =>
             /\ r # o /\ subs[r].owner = v
             /\ subs[r].status = "ACTIVE" /\ subs'[r].status = "EXPIRED"
             /\ subs'[r].owner = subs[r].owner /\ subs'[r].over = subs[r].over
        /\ \A r \in ActiveOf(subs, v) \ {o} : buf[s][r] # NoRow
    BY <1>1, <1>6, ActivatedTable
  <2>2. v \in Owners
    BY <1>6, OwnerRead, FlowTypes DEF Activate, Completing
  <2>3. subs'[o].owner = v /\ subs'[o].status = "ACTIVE" /\ subs'[o].over = FALSE
    BY <1>1, <2>1 DEF Activated, Row
  <2>. HIDE DEF o
  <2>4. CASE v # u
    <3>1. ASSUME NEW x \in Rows PROVE next[x] = now[x]
      <4>1. CASE subs'[x] = subs[x]
        BY <1>2, <4>1
      <4>2. CASE subs[x].owner = v /\ subs'[x].owner = v
        BY <1>2, <2>4, <4>2
      <4>. QED
        BY <2>1, <2>3, <4>1, <4>2
    <3>. HIDE DEF now, next
    <3>. QED
      BY <1>2, <3>1
  <2>5. CASE v = u
    <3>1. /\ next[o] = [status |-> "ACTIVE", over |-> FALSE]
          /\ now[o].status # "NONE"
      <4>1. next[o] = [status |-> "ACTIVE", over |-> FALSE]
        BY <1>2, <2>1, <2>3, <2>5
      <4>2. now[o].status = subs[o].status
        BY <1>2, <2>1, <2>5
      <4>3. subs[o].status # "NONE"
        BY <2>1, <2>2, TableAssumption DEF StatusKnown, NoRow
      <4>. QED
        BY <4>1, <4>2, <4>3
    <3>2. ASSUME NEW x \in Rows, x # o
          PROVE  next[x] = IF now[x].status = "ACTIVE" THEN [now[x] EXCEPT !.status = "EXPIRED"]
                           ELSE now[x]
      <4>1. CASE buf[s][x] = NoRow
        <5>1. next[x] = now[x]
          BY <1>2, <2>1, <3>2, <4>1
        <5>2. now[x].status # "ACTIVE"
          BY <1>2, <2>1, <2>5, <3>2, <4>1 DEF ActiveOf
        <5>. QED
          BY <5>1, <5>2
      <4>2. CASE buf[s][x] # NoRow
        <5>1. /\ now[x] = [status |-> "ACTIVE", over |-> subs[x].over]
              /\ next[x] = [status |-> "EXPIRED", over |-> subs[x].over]
          BY <1>2, <2>1, <2>5, <4>2
        <5>. HIDE DEF now, next
        <5>. QED
          BY <5>1
      <4>. QED
        BY <4>1, <4>2
    <3>. HIDE DEF now, next
    <3>3. next = [x \in Rows |->
                    IF x = o THEN [status |-> "ACTIVE", over |-> FALSE]
                    ELSE IF x \in {r \in Rows : now[r].status = "ACTIVE"}
                         THEN [now[x] EXCEPT !.status = "EXPIRED"]
                    ELSE now[x]]
      BY <1>2, <3>1, <3>2
    <3>. QED
      BY <2>1, <3>1, <3>3 DEF now, next, Lifecycle!PaymentActs, Lifecycle!OrderPaid,
                              Lifecycle!Existing, Lifecycle!Active
  <2>. QED
    BY <2>4, <2>5
<1>. QED
  BY <1>3, <1>4, <1>5, <1>6, TableSteps

\* For every number of orders, requests and webhooks, the payment flow does to
\* an owner's subscriptions only what SubscriptionLifecycle lets payments do,
\* beside expiring lapsed plans and starting the default one.
THEOREM LifecycleAssumesRightly == Spec => ActsAsTheLifecycleAssumes
<1>1. Flow /\ StatusKnown /\ [Next]_vars =>
        [\A u \in Owners :
           \/ RowsOf(u)' = RowsOf(u)
           \/ Lifecycle(u)!PaymentActs
           \/ Lifecycle(u)!LookUpActs
           \/ Lifecycle(u)!TimePasses]_vars
  <2>1. SUFFICES ASSUME Flow, StatusKnown, [Next]_vars, NEW u \in Owners
                 PROVE  \/ RowsOf(u)' = RowsOf(u)
                        \/ Lifecycle(u)!PaymentActs
                        \/ Lifecycle(u)!LookUpActs
                        \/ Lifecycle(u)!TimePasses
    OBVIOUS
  <2>2. CASE subs' = subs
    BY <2>2 DEF RowsOf
  <2>. QED
    BY <2>1, <2>2, OwnerSees
<1>. QED
  BY <1>1, SpecFlow, SpecStatus, PTL DEF Spec, ActsAsTheLifecycleAssumes

-----------------------------------------------------------------------------
\* What a request has read stands, when requests are served one at a time.

OneAtATime == \A s, t \in Requests : s = t

\* The request works on what it has read: nobody has settled its row since.
ReadsStand(s) ==
    LET r == job[s].row
    IN  /\ pc[s] = "expire" => subs[r].status = "ACTIVE"
        /\ pc[s] \in {"markFailed"} \cup Completing => subs[r].status = "PENDING"
        /\ pc[s] \in Looking /\ loaded[s][r] # NoRow => loaded[s][r].status = subs[r].status

AllReadsStand == \A s \in Requests : ReadsStand(s)

Alone == Flow /\ AllReadsStand

\* The steps that leave the statuses of the rows to the request.
StatusesStay == \A r \in Rows : subs'[r].status = subs[r].status
RequestStays(s) == pc'[s] = pc[s] /\ job'[s] = job[s] /\ loaded'[s] = loaded[s]

LEMMA StandsStill ==
    ASSUME Alone, NEW s \in Requests, StatusesStay, RequestStays(s)
    PROVE  ReadsStand(s)'
<1>1. pc[s] \in {"expire", "markFailed"} \cup Completing \cup Looking => job[s].row \in Rows
  BY FlowTypes DEF Alone, Flow, TypedJobs, JobsOK, OrderSteps, Completing, Looking
<1>. QED
  BY <1>1 DEF Alone, AllReadsStand, ReadsStand, StatusesStay, RequestStays

LEMMA ArriveReads ==
    ASSUME Alone, NEW s \in Requests, Arrive(s)
    PROVE  ReadsStand(s)'
<1>. USE FlowTypes DEF Begin, Goto, NewJob
<1>1. ASSUME NEW u \in Owners, CreateOrder(s, u)
      PROVE  ReadsStand(s)'
  <2>1. CASE \E o \in PendingOf(subs, u) :
               Begin(s, "create", u, o, NoPayment, FALSE, {o}, "fetchOrder")
    <3>1. PICK o \in PendingOf(subs, u) :
               Begin(s, "create", u, o, NoPayment, FALSE, {o}, "fetchOrder")
      BY <2>1
    <3>2. /\ pc'[s] = "fetchOrder" /\ job'[s].row = o /\ o \in Rows
          /\ loaded'[s][o] = subs[o] /\ UNCHANGED subs
      BY <3>1 DEF PendingOf, dbVars, Alone
    <3>. QED
      BY <3>2 DEF ReadsStand, Completing
  <2>2. CASE \E r \in ActiveOf(subs, u) :
               Begin(s, "create", u, r, NoPayment, FALSE, {r}, "expire")
    BY <2>2 DEF ActiveOf, dbVars, Alone, ReadsStand, Completing, Looking
  <2>3. CASE Begin(s, "create", u, Nobody, NoPayment, FALSE, {}, "postOrder")
    BY <2>3 DEF Alone, ReadsStand, Completing, Looking
  <2>. QED
    BY <1>1, <2>1, <2>2, <2>3 DEF CreateOrder
<1>2. ASSUME NEW u \in Owners, SyncPending(s, u)
      PROVE  ReadsStand(s)'
  <2>1. PICK o \in PendingOf(subs, u) :
             Begin(s, "sync", u, o, NoPayment, FALSE, {o}, "fetchOrder")
    BY <1>2 DEF SyncPending
  <2>2. /\ pc'[s] = "fetchOrder" /\ job'[s].row = o /\ o \in Rows
        /\ loaded'[s][o] = subs[o] /\ UNCHANGED subs
    BY <2>1 DEF PendingOf, dbVars, Alone
  <2>. QED
    BY <2>2 DEF ReadsStand, Completing
<1>3. ASSUME NEW u \in Owners, LookUpActive(s, u)
      PROVE  ReadsStand(s)'
  BY <1>3 DEF LookUpActive, ActiveOf, dbVars, Alone, ReadsStand, Completing, Looking
<1>4. ASSUME NEW p \in Payments, WebhookCaptured(s, p) \/ VerifyCheckout(s, p)
      PROVE  ReadsStand(s)'
  <2>1. /\ pc'[s] \in {"lock", "fetchPayments"} /\ job'[s].row = payOrder[p]
        /\ \A x \in Rows : loaded'[s][x] = NoRow
    BY <1>4 DEF WebhookCaptured, VerifyCheckout, Alone
  <2>2. payOrder[p] \in Rows
    BY <1>4 DEF WebhookCaptured, VerifyCheckout, Alone, Flow, TypedJobs, PaymentsPlaced
  <2>. QED
    BY <2>1, <2>2 DEF ReadsStand, Completing
<1>5. ASSUME NEW p \in Payments, WebhookFailed(s, p)
      PROVE  ReadsStand(s)'
  BY <1>5 DEF WebhookFailed, Failable, dbVars, Alone, ReadsStand, Completing, Looking
<1>. QED
  BY <1>1, <1>2, <1>3, <1>4, <1>5 DEF Arrive

\* A request that is closed, or goes on to a step of no row, has nothing to
\* have read.
LEMMA NothingRead ==
    ASSUME Flow, NEW s \in Requests, pc'[s] \notin {"expire", "markFailed"} \cup Completing \cup Looking
    PROVE  ReadsStand(s)'
  BY DEF ReadsStand

LEMMA HandleReads ==
    ASSUME Alone, NEW s \in Requests, Handle(s)
    PROVE  ReadsStand(s)'
<1>. USE FlowTypes DEF Alone
<1>1. ReadsStand(s) /\ RequestOf(s)
  BY DEF AllReadsStand, Flow, FlowInv
<1>2. ASSUME Close(s) PROVE ReadsStand(s)'
  <2>1. pc'[s] = "idle"
    BY <1>2 DEF Close
  <2>. QED
    BY <2>1, NothingRead DEF Completing, Looking
<1>3. ASSUME NEW R, Return(s, R) PROVE ReadsStand(s)'
  BY <1>2, <1>3 DEF Return
<1>4. CASE \/ ExpireLapsed(s) \/ PostOrder(s) \/ InsertPending(s) \/ EnsureDefault(s)
           \/ InsertDefault(s) \/ MarkOrderFailed(s)
  <2>1. Close(s) \/ pc'[s] \in {"postOrder", "insertPending", "ensureDefault", "insertDefault"}
    BY <1>4 DEF ExpireLapsed, PostOrder, InsertPending, EnsureDefault, InsertDefault,
                MarkOrderFailed, Goto
  <2>. QED
    BY <1>2, <2>1, NothingRead DEF Completing, Looking
<1>5. CASE FetchOrder(s) \/ FetchOrderPayments(s)
  <2>1. UNCHANGED subs
    BY <1>5 DEF FetchOrder, FetchOrderPayments
  <2>2. CASE /\ pc[s] \in Looking /\ pc'[s] \in Looking
             /\ job'[s].row = job[s].row /\ loaded' = loaded
    BY <1>1, <2>1, <2>2 DEF ReadsStand, Looking, Completing
  <2>3. CASE FetchOrder(s) /\ ~Return(s, {})
    BY <2>2, <2>3 DEF FetchOrder, Goto, Looking
  <2>4. CASE FetchOrderPayments(s) /\ ~Return(s, {})
    <3>1. PICK p \in Payments : job' = [job EXCEPT ![s].pay = p]
      BY <2>4 DEF FetchOrderPayments, ReportedPayments
    <3>2. job[s] \in Job
      OBVIOUS
    <3>3. job'[s].row = job[s].row
      BY <3>1, <3>2 DEF Job
    <3>. QED
      BY <2>2, <2>4, <3>3 DEF FetchOrderPayments, Goto, Looking
  <2>. QED
    BY <1>3, <1>5, <2>3, <2>4
<1>6. CASE LockOrder(s)
  <2>. DEFINE o == job[s].row
  <2>1. UNCHANGED subs /\ pc[s] = "lock" /\ o \in Rows
    BY <1>6 DEF LockOrder, Flow, TypedJobs, JobsOK, OrderSteps
  <2>2. CASE Completable(Seen(s, o)) /\ pc'[s] = "fetchPayment" /\ job' = job
    <3>1. buf[s][o] = NoRow
      BY <1>1, <2>1 DEF RequestOf
    <3>2. Seen(s, o).status = subs[o].status
      BY <1>1, <2>1, <3>1 DEF Seen, View, ReadsStand, Looking
    <3>3. subs[o].status = "PENDING"
      BY <2>2, <3>2 DEF Completable
    <3>. QED
      BY <2>1, <2>2, <3>3 DEF ReadsStand, Completing, Looking
  <2>. QED
    BY <1>3, <1>6, <2>2 DEF LockOrder, Goto
<1>7. CASE FetchAndValidate(s) \/ ExpireDuplicates(s)
  <2>1. UNCHANGED subs /\ pc[s] \in Completing
    BY <1>7 DEF FetchAndValidate, ExpireDuplicates, Completing
  <2>2. CASE pc'[s] \in Completing /\ job' = job
    BY <1>1, <2>1, <2>2 DEF ReadsStand, Looking, Completing
  <2>. QED
    BY <1>3, <1>7, <2>2 DEF FetchAndValidate, ExpireDuplicates, Goto, Completing
<1>8. CASE Activate(s)
  BY <1>2, <1>8 DEF Activate
<1>. QED
  BY <1>4, <1>5, <1>6, <1>7, <1>8 DEF Handle

\* Whoever is not a request leaves the statuses, and the requests, alone.
LEMMA OthersLeave ==
    ASSUME Flow, [Next]_vars,
           ~(\E s \in Requests : Arrive(s) \/ Handle(s) \/ Interrupted(s))
    PROVE  StatusesStay /\ \A s \in Requests : RequestStays(s)
<1>. USE FlowTypes DEF Goto
<1>1. ASSUME Close(Scheduler) PROVE \A s \in Requests : RequestStays(s)
  BY <1>1 DEF Close, RequestStays
<1>2. ASSUME NEW R, Return(Scheduler, R) PROVE \A s \in Requests : RequestStays(s)
  BY <1>1, <1>2 DEF Return, RequestStays
<1>3. ASSUME UNCHANGED subs PROVE StatusesStay
  BY <1>3 DEF StatusesStay
<1>4. CASE Handle(Scheduler)
  <2>1. pc[Scheduler] \in {"idle", "next"} \cup Completing \cup Looking
    BY DEF Flow, FlowInv, SchedulerInv, Reconciling
  <2>2. CASE FetchOrder(Scheduler) \/ FetchOrderPayments(Scheduler)
    BY <1>2, <1>3, <2>2 DEF FetchOrder, FetchOrderPayments, RequestStays
  <2>3. CASE LockOrder(Scheduler) \/ FetchAndValidate(Scheduler)
    BY <1>2, <1>3, <2>3 DEF LockOrder, FetchAndValidate, RequestStays
  <2>4. CASE ExpireDuplicates(Scheduler) \/ Activate(Scheduler)
    BY <1>1, <1>3, <2>4 DEF ExpireDuplicates, Activate, RequestStays
  <2>. QED
    BY <1>4, <2>1, <2>2, <2>3, <2>4 DEF Handle, ExpireLapsed, PostOrder, InsertPending,
         MarkOrderFailed, EnsureDefault, InsertDefault, Completing, Looking
<1>5. CASE Interrupted(Scheduler)
  BY <1>1, <1>3, <1>5 DEF Interrupted
<1>6. CASE SchedulerActs
  BY <1>1, <1>3, <1>6 DEF SchedulerActs, SchedulerReads, SchedulerTakesRow, SchedulerEnds,
                          dbVars, RequestStays
<1>7. CASE CustomerActs \/ PlanSwitched \/ AnnouncementDeleted \/ UNCHANGED vars
  BY <1>3, <1>7 DEF CustomerActs, PlanSwitched, AnnouncementDeleted, vars, dbVars, sessionVars, RequestStays
<1>8. ASSUME NEW r \in Rows, Lapse(r) PROVE StatusesStay /\ \A s \in Requests : RequestStays(s)
  <2>1. subs[r] \in Row /\ subs' = [subs EXCEPT ![r].over = TRUE]
    BY <1>8 DEF Lapse
  <2>2. StatusesStay
    BY <2>1 DEF Row, StatusesStay
  <2>. QED
    BY <1>8, <2>2 DEF Lapse, sessionVars, RequestStays
<1>. QED
  BY <1>4, <1>5, <1>6, <1>7, <1>8 DEF Next

LEMMA NextReads ==
    ASSUME OneAtATime, Alone, [Next]_vars
    PROVE  AllReadsStand'
<1>1. ASSUME NEW s \in Requests, Interrupted(s) PROVE ReadsStand(s)'
  <2>1. pc'[s] = "idle"
    BY <1>1, FlowTypes DEF Interrupted, Close, Alone
  <2>. QED
    BY <2>1, NothingRead DEF Completing, Looking, Alone
<1>2. ASSUME NEW s \in Requests, Arrive(s) \/ Handle(s) \/ Interrupted(s)
      PROVE  AllReadsStand'
  <2>1. ReadsStand(s)'
    BY <1>1, <1>2, ArriveReads, HandleReads
  <2>. QED
    BY <2>1 DEF OneAtATime, AllReadsStand
<1>3. CASE ~(\E s \in Requests : Arrive(s) \/ Handle(s) \/ Interrupted(s))
  <2>1. StatusesStay /\ \A s \in Requests : RequestStays(s)
    BY <1>3, OthersLeave DEF Alone
  <2>. QED
    BY <2>1, StandsStill DEF AllReadsStand
<1>. QED
  BY <1>2, <1>3

LEMMA SpecAlone == ASSUME OneAtATime PROVE Spec => []Alone
<1>1. Init => AllReadsStand
  BY DEF Init, AllReadsStand, ReadsStand, Completing, Looking, Sessions
<1>2. Flow /\ AllReadsStand /\ [Next]_vars => AllReadsStand'
  BY NextReads DEF Alone
<1>3. Flow /\ AllReadsStand => Alone
  BY DEF Alone
<1>. QED
  BY <1>1, <1>2, <1>3, SpecFlow, PTL DEF Spec

-----------------------------------------------------------------------------
\* What becomes of an order, when its payments do not both fail and succeed, or
\* requests are served one at a time.

\* No order has a failed payment beside a captured one, or the provider's
\* payment.failed webhook is not configured.
OneOutcome ==
    "failed" \in Ops =>
        \A p, q \in Payments :
            payState[p] = "failed" /\ payState[q] = "captured" => payOrder[p] # payOrder[q]

Failed(o) ==
    "failed" \in Ops /\ \E p \in Payments : payOrder[p] = o /\ payState[p] = "failed"

\* The status and the payment of an order's row go together.
Together(row) ==
    /\ row.status = "PENDING" <=> row.pay = "PENDING"
    /\ row.status \in {"ACTIVE", "EXPIRED"} <=> row.pay = "PAID"
    /\ row.status = "PAYMENT_FAILED" <=> row.pay = "FAILED"

\* A failure is recorded of orders with a failed payment only, and only rows
\* that a payment activated run out.
OutcomeOf(s) ==
    /\ pc[s] = "markFailed" => Failed(job[s].row)
    /\ pc[s] = "expire" /\ job[s].row \in Orders => subs[job[s].row].pay = "PAID"

OutcomesInv ==
    /\ \A o \in Orders : Together(subs[o]) /\ (subs[o].pay = "FAILED" => Failed(o))
    /\ \A s \in Requests : OutcomeOf(s)

\* What one step may make of an order's row.
Stays(o) ==
    /\ subs'[o].pay = subs[o].pay
    /\ \/ subs'[o].status = subs[o].status
       \/ subs[o].pay = "PAID" /\ subs'[o].status = "EXPIRED"

Placed(o) == subs[o] = NoRow /\ subs'[o].status = "PENDING" /\ subs'[o].pay = "PENDING"

PaidNow(o) ==
    /\ subs[o].pay \in {"PENDING", "PAID"}
    /\ subs'[o].status = "ACTIVE" /\ subs'[o].pay = "PAID"
    /\ \E p \in Payments : ValidPayment(p, o)

FailedNow(o) ==
    /\ subs[o].pay \in {"PENDING", "FAILED"}
    /\ subs'[o].status = "PAYMENT_FAILED" /\ subs'[o].pay = "FAILED"
    /\ Failed(o)

OrdersStep ==
    \/ \A q \in Orders : Stays(q)
    \/ \E o \in Orders :
         /\ Placed(o) \/ PaidNow(o) \/ FailedNow(o)
         /\ \A q \in Orders \ {o} : Stays(q)

\* Nothing a request read of an order can be outdated by the order's other
\* outcome.
Undisputed == OneOutcome \/ (OneAtATime /\ AllReadsStand)

OneWay == Flow /\ SettleInv /\ OutcomesInv /\ Undisputed

LEMMA NotBoth ==
    ASSUME OneOutcome, NEW o \in Orders, Failed(o)
    PROVE  ~\E p \in Payments : ValidPayment(p, o)
  BY DEF OneOutcome, Failed, ValidPayment

\* A failure is not recorded of a paid order, nor a payment of a failed one.
LEMMA OutcomeFits ==
    ASSUME OneWay, NEW s \in Requests, NEW o \in Orders, o = job[s].row,
           Exists(o)
    PROVE  /\ pc[s] = "markFailed" => subs[o].pay \in {"PENDING", "FAILED"}
           /\ pc[s] = "activate" => subs[o].pay \in {"PENDING", "PAID"}
<1>. USE FlowTypes DEF OneWay
<1>1. subs[o].pay \in {"PENDING", "PAID", "FAILED"}
  BY DEF Flow, FlowInv, RowsInv
<1>2. CASE OneOutcome
  <2>1. ASSUME pc[s] = "markFailed" PROVE subs[o].pay # "PAID"
    <3>1. Failed(o)
      BY <2>1 DEF OutcomesInv, OutcomeOf
    <3>. QED
      BY <1>2, <3>1, NotBoth DEF SettleInv, PaidRows, PaidBy
  <2>2. ASSUME pc[s] = "activate" PROVE subs[o].pay # "FAILED"
    <3>1. ValidPayment(job[s].pay, o) /\ job[s].pay \in Payments
      BY <2>2 DEF SettleInv, PaymentsChecked, Completing
    <3>. QED
      BY <1>2, <3>1, NotBoth DEF OutcomesInv
  <2>. QED
    BY <1>1, <2>1, <2>2
<1>3. CASE OneAtATime /\ AllReadsStand
  <2>1. pc[s] \in {"markFailed", "activate"} => subs[o].status = "PENDING"
    BY <1>3 DEF AllReadsStand, ReadsStand, Completing
  <2>. QED
    BY <2>1 DEF OutcomesInv, Together
<1>. QED
  BY <1>2, <1>3 DEF Undisputed

LEMMA HandleOrders ==
    ASSUME OneWay, NEW s \in Sessions, Handle(s), subs' # subs
    PROVE  OrdersStep
<1>. USE FlowTypes DEF OneWay
<1>1. s \in Requests \/ pc[s] \in {"idle", "next"} \cup Completing \cup Looking
  BY DEF Flow, FlowInv, SchedulerInv, Reconciling
<1>2. CASE ExpireLapsed(s)
  <2>. DEFINE r == job[s].row
  <2>1. subs' = [subs EXCEPT ![r].status = "EXPIRED"] /\ pc[s] = "expire"
    BY <1>2 DEF ExpireLapsed
  <2>2. s \in Requests
    BY <1>1, <2>1 DEF Completing, Looking
  <2>3. r \in Orders => subs[r].pay = "PAID"
    BY <2>1, <2>2 DEF OutcomesInv, OutcomeOf
  <2>4. \A q \in Rows : subs'[q] = IF q = r THEN [subs[q] EXCEPT !.status = "EXPIRED"] ELSE subs[q]
    BY <2>1
  <2>5. ASSUME NEW q \in Orders PROVE Stays(q)
    <3>1. CASE q = r
      <4>1. subs[q] \in Row /\ subs'[q] = [subs[q] EXCEPT !.status = "EXPIRED"] /\ subs[q].pay = "PAID"
        BY <2>3, <2>4, <3>1
      <4>. QED
        BY <4>1 DEF Stays, Row
    <3>2. CASE q # r
      BY <2>4, <3>2 DEF Stays
    <3>. QED
      BY <3>1, <3>2
  <2>. QED
    BY <2>5 DEF OrdersStep
<1>3. CASE MarkOrderFailed(s)
  <2>. DEFINE o == job[s].row
  <2>1. /\ subs' = [subs EXCEPT ![o].status = "PAYMENT_FAILED", ![o].pay = "FAILED"]
        /\ pc[s] = "markFailed"
    BY <1>3 DEF MarkOrderFailed
  <2>2. s \in Requests
    BY <1>1, <2>1 DEF Completing, Looking
  <2>3. o \in Orders /\ Failed(o) /\ Exists(o)
    BY <2>1, <2>2 DEF OutcomesInv, OutcomeOf, Flow, FlowInv, CopiesOf, WorkSteps, RowsInv,
                      TypedJobs, JobsOK, OrderSteps
  <2>4. subs[o].pay \in {"PENDING", "FAILED"}
    BY <2>1, <2>2, <2>3, OutcomeFits
  <2>5. subs[o] \in Row /\ subs'[o] = [subs[o] EXCEPT !.status = "PAYMENT_FAILED", !.pay = "FAILED"]
        /\ \A q \in Orders : q # o => subs'[q] = subs[q]
    BY <2>1, <2>3
  <2>6. FailedNow(o)
    BY <2>3, <2>4, <2>5 DEF FailedNow, Row
  <2>7. \A q \in Orders \ {o} : Stays(q)
    BY <2>5 DEF Stays
  <2>. HIDE DEF o
  <2>. QED
    BY <2>3, <2>6, <2>7 DEF OrdersStep
<1>4. CASE InsertPending(s)
  <2>. DEFINE o == job[s].row
  <2>1. subs' = [subs EXCEPT ![o] = PendingRow(job[s].owner)] /\ pc[s] = "insertPending"
    BY <1>4 DEF InsertPending
  <2>2. o \in Orders /\ subs[o] = NoRow
    BY <2>1 DEF Flow, FlowInv, InsertOf, TypedJobs, JobsOK, OrderSteps
  <2>3. subs'[o] = PendingRow(job[s].owner) /\ \A q \in Orders : q # o => subs'[q] = subs[q]
    BY <2>1, <2>2
  <2>4. Placed(o)
    BY <2>2, <2>3 DEF Placed, PendingRow
  <2>5. \A q \in Orders \ {o} : Stays(q)
    BY <2>3 DEF Stays
  <2>. HIDE DEF o
  <2>. QED
    BY <2>2, <2>4, <2>5 DEF OrdersStep
<1>5. CASE InsertDefault(s)
  <2>1. subs' = [subs EXCEPT ![job[s].owner] = DefaultRow(job[s].owner)] /\ job[s].owner \in Owners
    BY <1>5 DEF InsertDefault, Flow, TypedJobs, JobsOK, OwnerSteps
  <2>2. \A q \in Orders : subs'[q] = subs[q]
    BY <2>1, TableAssumption
  <2>. QED
    BY <2>2 DEF OrdersStep, Stays
<1>6. CASE Activate(s)
  <2>. DEFINE o == job[s].row
  <2>1. s \in Requests
    BY <1>6 DEF Activate
  <2>2. /\ o \in Orders /\ pc[s] = "activate"
        /\ subs'[o] = Activated(subs[o], job[s].pay)
        /\ \A r \in Rows : r # o /\ buf[s][r] = NoRow => subs'[r] = subs[r]
        /\ \A r \in Rows : buf[s][r] # NoRow =>
             subs'[r].status = "EXPIRED" /\ subs[r].status = "ACTIVE" /\ subs'[r].pay = subs[r].pay
    BY <1>6, <2>1, ActivatedTable
  <2>3. ValidPayment(job[s].pay, o) /\ job[s].pay \in Payments
    BY <2>2 DEF SettleInv, PaymentsChecked, Completing
  <2>4. Exists(o)
    BY <2>2, OwnerRead DEF Completing
  <2>5. subs[o].pay \in {"PENDING", "PAID"}
    BY <2>1, <2>2, <2>4, OutcomeFits
  <2>6. PaidNow(o)
    <3>1. subs[o] \in Row /\ subs'[o] = Activated(subs[o], job[s].pay)
      BY <2>2
    <3>2. subs'[o].status = "ACTIVE" /\ subs'[o].pay = "PAID"
      BY <3>1 DEF Activated, Row
    <3>3. \E p \in Payments : ValidPayment(p, o)
      BY <2>3
    <3>. HIDE DEF o
    <3>. QED
      BY <2>4, <2>5, <3>2, <3>3 DEF PaidNow
  <2>7. ASSUME NEW q \in Orders \ {o} PROVE Stays(q)
    <3>1. CASE buf[s][q] = NoRow
      BY <2>2, <3>1 DEF Stays
    <3>2. CASE buf[s][q] # NoRow
      BY <2>2, <3>2 DEF Stays, OutcomesInv, Together
    <3>. QED
      BY <3>1, <3>2
  <2>. HIDE DEF o
  <2>. QED
    BY <2>2, <2>6, <2>7 DEF OrdersStep
<1>7. CASE \/ PostOrder(s) \/ FetchOrder(s) \/ FetchOrderPayments(s) \/ LockOrder(s)
           \/ FetchAndValidate(s) \/ ExpireDuplicates(s) \/ EnsureDefault(s)
  BY <1>7 DEF PostOrder, FetchOrder, FetchOrderPayments, LockOrder, FetchAndValidate,
              ExpireDuplicates, EnsureDefault
<1>. QED
  BY <1>2, <1>3, <1>4, <1>5, <1>6, <1>7 DEF Handle

\* The steps that are not a session's handling leave orders as they are.
LEMMA TableOnlyHandled ==
    ASSUME Flow, [Next]_vars, ~(\E s \in Sessions : Handle(s))
    PROVE  \A o \in Orders : subs'[o].status = subs[o].status /\ subs'[o].pay = subs[o].pay
<1>1. ASSUME NEW s \in Requests, Arrive(s) PROVE UNCHANGED subs
  BY <1>1 DEF Arrive, CreateOrder, SyncPending, LookUpActive, WebhookCaptured, VerifyCheckout,
              WebhookFailed, Begin, dbVars
<1>2. ASSUME NEW s \in Sessions, Interrupted(s) PROVE UNCHANGED subs
  BY <1>2 DEF Interrupted
<1>3. ASSUME SchedulerActs \/ CustomerActs \/ PlanSwitched \/ AnnouncementDeleted \/ UNCHANGED vars PROVE UNCHANGED subs
  BY <1>3 DEF SchedulerActs, SchedulerReads, SchedulerTakesRow, SchedulerEnds, CustomerActs,
              PlanSwitched, AnnouncementDeleted, vars, dbVars
<1>4. ASSUME NEW r \in Rows, Lapse(r), NEW o \in Orders
      PROVE  subs'[o].status = subs[o].status /\ subs'[o].pay = subs[o].pay
  <2>1. subs[r] \in Row /\ subs' = [subs EXCEPT ![r].over = TRUE] /\ o \in Rows
    BY <1>4, FlowTypes DEF Lapse
  <2>2. subs'[o] = IF o = r THEN [subs[r] EXCEPT !.over = TRUE] ELSE subs[o]
    BY <2>1, FlowTypes
  <2>. QED
    BY <2>1, <2>2 DEF Row
<1>. QED
  BY <1>1, <1>2, <1>3, <1>4 DEF Next

LEMMA NextOrders ==
    ASSUME OneWay, [Next]_vars
    PROVE  OrdersStep
<1>1. CASE \E s \in Sessions : Handle(s)
  BY <1>1, HandleOrders DEF OrdersStep, Stays
<1>2. CASE ~(\E s \in Sessions : Handle(s))
  BY <1>2, TableOnlyHandled DEF OneWay, OrdersStep, Stays
<1>. QED
  BY <1>1, <1>2

\* Payments are made, captured and refused outside the sessions.
LEMMA OnlyCustomersPay ==
    ASSUME [Next]_vars
    PROVE  CustomerActs \/ UNCHANGED <<payState, payOrder>>
<1>1. ASSUME NEW s \in Requests, Arrive(s) PROVE UNCHANGED providerVars
  BY <1>1 DEF Arrive, CreateOrder, SyncPending, LookUpActive, WebhookCaptured, VerifyCheckout,
              WebhookFailed, Begin
<1>2. ASSUME NEW s \in Sessions, Handle(s) PROVE UNCHANGED <<payState, payOrder>>
  BY <1>2 DEF Handle, ExpireLapsed, PostOrder, ProviderCreatesOrder, InsertPending, FetchOrder,
       FetchOrderPayments, LockOrder, FetchAndValidate, ExpireDuplicates, Activate,
       MarkOrderFailed, EnsureDefault, InsertDefault, providerVars
<1>3. ASSUME \/ \E s \in Sessions : Interrupted(s)
             \/ SchedulerActs \/ PlanSwitched \/ AnnouncementDeleted \/ UNCHANGED vars
             \/ \E r \in Rows : Lapse(r)
      PROVE  UNCHANGED providerVars
  BY <1>3 DEF Interrupted, SchedulerActs, SchedulerReads, SchedulerTakesRow, SchedulerEnds,
              PlanSwitched, AnnouncementDeleted, Lapse, vars
<1>. QED
  BY <1>1, <1>2, <1>3 DEF Next, providerVars

\* A failed payment stays one, of the same order.
LEMMA FailuresStay ==
    ASSUME TypeOK, [Next]_vars, NEW o, Failed(o)
    PROVE  Failed(o)'
<1>1. PICK p \in Payments : payOrder[p] = o /\ payState[p] = "failed"
  BY DEF Failed
<1>2. payOrder'[p] = o /\ payState'[p] = "failed"
  <2>1. CASE CustomerActs
    BY <1>1, <2>1 DEF CustomerActs, CustomerPays, PaymentCaptured, PaymentFails, TypeOK, ProviderTypeOK
  <2>. QED
    BY <1>1, <2>1, OnlyCustomersPay
<1>. QED
  BY <1>1, <1>2 DEF Failed

\* A request is at these two steps since it arrived.
LEMMA StartedOrStays ==
    ASSUME Flow, [Next]_vars, NEW s \in Requests, pc'[s] \in {"markFailed", "expire"}
    PROVE  (pc'[s] = pc[s] /\ job'[s] = job[s]) \/ Arrive(s)
<1>. USE FlowTypes DEF Goto
<1>1. ASSUME NEW t \in Requests, Arrive(t), t # s PROVE pc'[s] = pc[s] /\ job'[s] = job[s]
  BY <1>1 DEF Arrive, CreateOrder, SyncPending, LookUpActive, WebhookCaptured, VerifyCheckout,
              WebhookFailed, Begin
<1>2. ASSUME NEW t \in Sessions, Close(t) PROVE pc'[s] = pc[s] /\ job'[s] = job[s]
  BY <1>2 DEF Close
<1>3. ASSUME NEW t \in Sessions, NEW R, Return(t, R) PROVE pc'[s] = pc[s] /\ job'[s] = job[s]
  BY <1>2, <1>3 DEF Return
<1>4. ASSUME NEW t \in Sessions, Handle(t) PROVE pc'[s] = pc[s] /\ job'[s] = job[s]
  <2>1. CASE ExpireLapsed(t) \/ InsertPending(t) \/ MarkOrderFailed(t)
    BY <1>2, <2>1 DEF ExpireLapsed, InsertPending, MarkOrderFailed
  <2>2. CASE PostOrder(t)
    BY <1>2, <2>2 DEF PostOrder
  <2>3. CASE FetchOrder(t) \/ FetchOrderPayments(t)
    BY <1>3, <2>3 DEF FetchOrder, FetchOrderPayments
  <2>4. CASE LockOrder(t) \/ FetchAndValidate(t)
    BY <1>3, <2>4 DEF LockOrder, FetchAndValidate
  <2>5. CASE ExpireDuplicates(t) \/ Activate(t)
    BY <1>2, <2>5 DEF ExpireDuplicates, Activate
  <2>6. CASE EnsureDefault(t) \/ InsertDefault(t)
    BY <1>2, <2>6 DEF EnsureDefault, InsertDefault
  <2>. QED
    BY <1>4, <2>1, <2>2, <2>3, <2>4, <2>5, <2>6 DEF Handle
<1>5. ASSUME NEW t \in Sessions, Interrupted(t) PROVE pc'[s] = pc[s] /\ job'[s] = job[s]
  BY <1>2, <1>5 DEF Interrupted
<1>6. CASE SchedulerActs
  BY <1>2, <1>6 DEF SchedulerActs, SchedulerReads, SchedulerTakesRow, SchedulerEnds
<1>7. CASE CustomerActs \/ PlanSwitched \/ AnnouncementDeleted \/ UNCHANGED vars \/ \E r \in Rows : Lapse(r)
  BY <1>7 DEF CustomerActs, PlanSwitched, AnnouncementDeleted, Lapse, vars, sessionVars
<1>. QED
  BY <1>1, <1>4, <1>5, <1>6, <1>7 DEF Next

LEMMA ArriveOutcomes ==
    ASSUME OneWay, NEW s \in Requests, Arrive(s)
    PROVE  OutcomeOf(s)'
<1>. USE FlowTypes DEF Begin, Goto, NewJob
<1>1. ASSUME NEW u \in Owners, CreateOrder(s, u) \/ LookUpActive(s, u)
      PROVE  /\ pc'[s] # "markFailed" /\ UNCHANGED subs
             /\ pc'[s] = "expire" => job'[s].row \in ActiveOf(subs, u)
  BY <1>1 DEF CreateOrder, LookUpActive, dbVars, OneWay
<1>2. ASSUME NEW u \in Owners, SyncPending(s, u) PROVE pc'[s] \notin {"markFailed", "expire"}
  BY <1>2 DEF SyncPending, OneWay
<1>3. ASSUME NEW p \in Payments, WebhookCaptured(s, p) \/ VerifyCheckout(s, p)
      PROVE  pc'[s] \notin {"markFailed", "expire"}
  BY <1>3 DEF WebhookCaptured, VerifyCheckout, OneWay
<1>4. ASSUME NEW p \in Payments, WebhookFailed(s, p)
      PROVE  pc'[s] # "expire" /\ Failed(job[s].row)'
  <2>1. /\ pc'[s] = "markFailed" /\ job'[s].row = payOrder[p] /\ "failed" \in Ops
        /\ payState[p] = "failed" /\ UNCHANGED providerVars
    BY <1>4 DEF WebhookFailed, OneWay
  <2>. QED
    BY <2>1, FlowTypes DEF Failed, providerVars
<1>5. \A u \in Owners : \A r \in ActiveOf(subs, u) : r \in Orders => subs[r].pay = "PAID"
  BY DEF ActiveOf, OneWay, OutcomesInv, Together
<1>. QED
  BY <1>1, <1>2, <1>3, <1>4, <1>5 DEF Arrive, OutcomeOf

LEMMA NextOutcomes ==
    ASSUME OneWay, [Next]_vars
    PROVE  OutcomesInv'
<1>. USE FlowTypes
<1>1. OrdersStep /\ OutcomesInv
  BY NextOrders DEF OneWay
<1>2. \A o \in Orders : Failed(o) => Failed(o)'
  BY FailuresStay DEF OneWay, Flow, TypedJobs
<1>3. ASSUME NEW o \in Orders
      PROVE  /\ Together(subs'[o])
             /\ subs'[o].pay = "FAILED" => Failed(o)'
             /\ subs[o].pay = "PAID" => subs'[o].pay = "PAID"
  <2>1. Together(subs[o]) /\ (subs[o].pay = "FAILED" => Failed(o))
    BY <1>1 DEF OutcomesInv
  <2>2. CASE Stays(o)
    BY <1>2, <2>1, <2>2 DEF Stays, Together
  <2>3. CASE Placed(o)
    BY <2>3 DEF Placed, Together, NoRow
  <2>4. CASE PaidNow(o)
    BY <2>4 DEF PaidNow, Together
  <2>5. CASE FailedNow(o)
    BY <1>2, <2>5 DEF FailedNow, Together
  <2>. QED
    BY <1>1, <2>2, <2>3, <2>4, <2>5 DEF OrdersStep
<1>4. ASSUME NEW s \in Requests PROVE OutcomeOf(s)'
  <2>1. CASE Arrive(s)
    BY <2>1, ArriveOutcomes
  <2>2. CASE pc'[s] = pc[s] /\ job'[s] = job[s]
    <3>1. pc[s] = "markFailed" => job[s].row \in Orders
      BY DEF OneWay, Flow, TypedJobs, JobsOK, OrderSteps
    <3>2. pc'[s] = "markFailed" => Failed(job[s].row)'
      <4>1. pc[s] = "markFailed" => Failed(job[s].row)
        BY <1>1 DEF OutcomesInv, OutcomeOf
      <4>2. ASSUME Failed(job[s].row) PROVE Failed(job[s].row)'
        <5>1. ASSUME NEW x, Failed(x) PROVE Failed(x)'
          BY <5>1, FailuresStay DEF OneWay, Flow, TypedJobs
        <5>. QED
          BY <2>2, <4>2, <5>1 DEF Failed
      <4>. QED
        BY <2>2, <4>1, <4>2
    <3>. QED
      BY <1>1, <1>3, <2>2, <3>2 DEF OutcomesInv, OutcomeOf
  <2>. QED
    BY <2>1, <2>2, StartedOrStays DEF OneWay, OutcomeOf
<1>. QED
  BY <1>3, <1>4 DEF OutcomesInv

LEMMA SpecOneWay ==
    /\ Spec /\ []OneOutcome => []OneWay
    /\ OneAtATime => (Spec => []OneWay)
<1>1. Init => OutcomesInv
  <2>. SUFFICES ASSUME Init PROVE OutcomesInv
    OBVIOUS
  <2>1. \A o \in Orders : subs[o] = NoRow
    BY TableAssumption DEF Init, Rows
  <2>2. ASSUME NEW s \in Requests PROVE OutcomeOf(s)
    BY DEF Init, OutcomeOf, Sessions
  <2>. QED
    BY <2>1, <2>2 DEF OutcomesInv, Together, NoRow
<1>2. OneWay /\ [Next]_vars => OutcomesInv'
  BY NextOutcomes
<1>3. Flow /\ SettleInv /\ OutcomesInv /\ OneOutcome => OneWay
  BY DEF OneWay, Undisputed
<1>4. Spec /\ []OneOutcome => []OneWay
  BY <1>1, <1>2, <1>3, SpecFlow, SpecSettle, PTL DEF Spec
<1>5. ASSUME OneAtATime PROVE Spec => []OneWay
  <2>1. Flow /\ SettleInv /\ OutcomesInv /\ Alone => OneWay
    BY <1>5 DEF OneWay, Undisputed, Alone
  <2>2. Spec => []Alone
    BY <1>5, SpecAlone
  <2>. QED
    BY <1>1, <1>2, <2>1, <2>2, SpecFlow, SpecSettle, PTL DEF Spec
<1>. QED
  BY <1>4, <1>5

\* As long as no order has both a failed and a captured payment, the status
\* of an order's subscription only changes along the table of legal
\* transitions, in whatever order the webhooks, checkout confirmations and
\* lookups of any number of requests come; and with both outcomes too, when
\* requests are served one at a time beside the reconciliation job.
THEOREM LegalStatuses == Spec /\ (OneAtATime \/ []OneOutcome) => StatusFollowsTable
<1>1. OneWay /\ [Next]_vars =>
        [\A o \in Orders :
           subs'[o].status # subs[o].status =>
              subs'[o].status \in ValidTransitions[subs[o].status]]_vars
  <2>. SUFFICES ASSUME OneWay, [Next]_vars, NEW o \in Orders, subs'[o].status # subs[o].status
                PROVE  subs'[o].status \in ValidTransitions[subs[o].status]
    OBVIOUS
  <2>1. OrdersStep /\ Together(subs[o]) /\ subs[o] \in Row
    BY NextOrders, FlowTypes DEF OneWay, OutcomesInv
  <2>2. subs[o].status \in Statuses
    BY <2>1 DEF Row
  <2>3. CASE Stays(o)
    <3>1. subs[o].status = "ACTIVE" /\ subs'[o].status = "EXPIRED"
      BY <2>1, <2>3 DEF Stays, Together
    <3>. QED
      BY <3>1 DEF ValidTransitions
  <2>4. CASE Placed(o)
    BY <2>4 DEF Placed, ValidTransitions, NoRow
  <2>5. CASE PaidNow(o)
    <3>1. subs'[o].status = "ACTIVE" /\ subs[o].status \in {"PENDING", "EXPIRED"}
      BY <2>1, <2>5 DEF PaidNow, Together
    <3>. QED
      BY <3>1 DEF ValidTransitions
  <2>6. CASE FailedNow(o)
    <3>1. subs'[o].status = "PAYMENT_FAILED" /\ subs[o].status = "PENDING"
      BY <2>1, <2>6 DEF FailedNow, Together
    <3>. QED
      BY <3>1 DEF ValidTransitions
  <2>. QED
    BY <2>1, <2>3, <2>4, <2>5, <2>6 DEF OrdersStep
<1>. QED
  BY <1>1, SpecOneWay, PTL DEF Spec, StatusFollowsTable

\* The verification of a payment is recorded by the commit that activates its
\* order.
LEMMA VerifiedBy ==
    ASSUME Flow, [Next]_vars, verified' # verified
    PROVE  \E s \in Requests :
             LET o == job[s].row
             IN  /\ pc[s] = "activate" /\ o \in Orders
                 /\ verified' = [verified EXCEPT ![o] = IF @ < 2 THEN @ + 1 ELSE @]
                 /\ subs'[o].status = "ACTIVE"
<1>. USE FlowTypes
<1>1. PICK s \in Sessions : Handle(s)
  <2>1. ASSUME NEW s \in Requests, Arrive(s) PROVE UNCHANGED verified
    BY <2>1 DEF Arrive, CreateOrder, SyncPending, LookUpActive, WebhookCaptured, VerifyCheckout,
                WebhookFailed, Begin, dbVars
  <2>2. ASSUME NEW s \in Sessions, Interrupted(s) PROVE UNCHANGED verified
    BY <2>2 DEF Interrupted
  <2>3. ASSUME SchedulerActs \/ CustomerActs \/ PlanSwitched \/ AnnouncementDeleted \/ UNCHANGED vars
               \/ \E r \in Rows : Lapse(r)
        PROVE  UNCHANGED verified
    BY <2>3 DEF SchedulerActs, SchedulerReads, SchedulerTakesRow, SchedulerEnds, CustomerActs,
                PlanSwitched, AnnouncementDeleted, Lapse, vars, dbVars
  <2>. QED
    BY <2>1, <2>2, <2>3 DEF Next
<1>2. Activate(s)
  BY <1>1 DEF Handle, ExpireLapsed, PostOrder, InsertPending, FetchOrder, FetchOrderPayments,
       LockOrder, FetchAndValidate, ExpireDuplicates, MarkOrderFailed, EnsureDefault, InsertDefault
<1>. DEFINE o == job[s].row
<1>3. /\ s \in Requests /\ pc[s] = "activate"
      /\ verified' = [verified EXCEPT ![o] = IF @ < 2 THEN @ + 1 ELSE @]
      /\ subs' = [Committed(s) EXCEPT ![o] = Activated(View(s)[o], job[s].pay)]
  BY <1>2 DEF Activate
<1>4. o \in Orders /\ o \in Rows
  BY <1>3, OwnerRead DEF Completing
<1>5. Committed(s) \in [Rows -> Row] /\ View(s)[o] \in Row
  BY <1>4, CommittedRows, SessionTypes DEF Flow, TypedJobs
<1>6. subs'[o] = Activated(View(s)[o], job[s].pay)
  BY <1>3, <1>4, <1>5
<1>7. subs'[o].status = "ACTIVE"
  BY <1>5, <1>6 DEF Activated, Row
<1>. QED
  BY <1>3, <1>4, <1>7

\* An order that has been verified is settled, and stays so.
VerifiedInv ==
    \A o \in Orders : /\ verified[o] <= 1
                      /\ verified[o] # 0 => subs[o].status \notin {"NONE", "PENDING"}

LEMMA NextVerified ==
    ASSUME OneAtATime, OneWay, Alone, VerifiedInv, [Next]_vars
    PROVE  VerifiedInv'
<1>. USE FlowTypes DEF Alone
<1>1. verified \in [Orders -> 0..2]
  BY DEF Flow, TypedJobs, TypeOK
<1>2. ASSUME NEW o \in Orders, verified[o] # 0
      PROVE  subs'[o].status \notin {"NONE", "PENDING"}
  <2>1. subs[o].status \in {"ACTIVE", "EXPIRED", "PAYMENT_FAILED"}
    <3>1. subs[o] \in Row
      OBVIOUS
    <3>. QED
      BY <1>2, <3>1 DEF VerifiedInv, Row, Statuses
  <2>2. Together(subs[o]) /\ OrdersStep
    BY NextOrders DEF OneWay, OutcomesInv
  <2>. QED
    BY <2>1, <2>2 DEF OrdersStep, Stays, Placed, PaidNow, FailedNow, NoRow
<1>3. CASE verified' = verified
  BY <1>2, <1>3 DEF VerifiedInv
<1>4. CASE verified' # verified
  <2>1. PICK s \in Requests :
           /\ pc[s] = "activate" /\ job[s].row \in Orders
           /\ verified' = [verified EXCEPT ![job[s].row] = IF @ < 2 THEN @ + 1 ELSE @]
           /\ subs'[job[s].row].status = "ACTIVE"
    BY <1>4, VerifiedBy
  <2>2. subs[job[s].row].status = "PENDING"
    BY <2>1 DEF AllReadsStand, ReadsStand, Completing
  <2>3. verified[job[s].row] = 0
    BY <2>1, <2>2 DEF VerifiedInv
  <2>4. verified'[job[s].row] = 1 /\ \A q \in Orders : q # job[s].row => verified'[q] = verified[q]
    BY <1>1, <2>1, <2>3
  <2>. QED
    BY <1>2, <2>1, <2>4 DEF VerifiedInv
<1>. QED
  BY <1>3, <1>4

\* When requests are served one at a time beside the reconciliation job, an
\* order's payment is verified, recorded and announced once, however often the
\* webhooks, the checkout page and the lookups report it.
THEOREM VerifiedOnceAtATime == OneAtATime => (Spec => []VerifiedOnce)
<1>. SUFFICES ASSUME OneAtATime PROVE Spec => []VerifiedOnce
  OBVIOUS
<1>1. Init => VerifiedInv
  BY DEF Init, VerifiedInv
<1>2. OneWay /\ Alone /\ VerifiedInv /\ [Next]_vars => VerifiedInv'
  BY NextVerified
<1>3. VerifiedInv => VerifiedOnce
  BY DEF VerifiedInv, VerifiedOnce
<1>4. Spec => []OneWay
  BY SpecOneWay
<1>. QED
  BY <1>1, <1>2, <1>3, <1>4, SpecAlone, PTL DEF Spec

-----------------------------------------------------------------------------
\* The payment flow implements SubscriptionPayment.

Captures(o) == {p \in Payments : payOrder[p] = o /\ payState[p] = "captured"}

\* A step that leaves the provider's captures alone settles at most one order.
LEMMA PromiseOfTable ==
    ASSUME OneWay, OrdersStep, UNCHANGED <<payState, payOrder>>
    PROVE  [Promise!Next]_(Promise!avars)
<1>. DEFINE paid == [o \in Orders |-> subs[o].pay]
            held == [o \in Orders |-> Captures(o)]
<1>1. held' = held
  BY DEF Captures
<1>2. CASE \A q \in Orders : Stays(q)
  <2>1. paid' = paid
    BY <1>2 DEF Stays
  <2>. QED
    BY <1>1, <2>1 DEF Promise!avars, Captures
<1>3. ASSUME NEW o \in Orders, Placed(o) \/ PaidNow(o) \/ FailedNow(o),
             \A q \in Orders \ {o} : Stays(q)
      PROVE  [Promise!Next]_(Promise!avars)
  <2>1. \A x : subs'[o].pay = x => paid' = [paid EXCEPT ![o] = x]
    BY <1>3 DEF Stays
  <2>2. CASE Placed(o)
    <3>1. paid[o] = "NONE" /\ paid' = [paid EXCEPT ![o] = "PENDING"]
      BY <2>1, <2>2 DEF Placed, NoRow
    <3>2. Promise!Place(o)
      BY <1>1, <3>1 DEF Promise!Place, Captures
    <3>. QED
      BY <3>2 DEF Promise!Next
  <2>3. CASE PaidNow(o)
    <3>1. paid[o] \in {"PENDING", "PAID"} /\ paid' = [paid EXCEPT ![o] = "PAID"]
      BY <2>1, <2>3 DEF PaidNow
    <3>2. held[o] # {}
      BY <2>3 DEF PaidNow, ValidPayment, Captures
    <3>3. CASE paid[o] = "PENDING"
      <4>1. Promise!Settle(o)
        BY <1>1, <3>1, <3>2, <3>3 DEF Promise!Settle, Captures
      <4>. QED
        BY <4>1 DEF Promise!Next
    <3>4. CASE paid[o] = "PAID"
      <4>1. paid' = paid
        BY <3>1, <3>4
      <4>. QED
        BY <1>1, <4>1 DEF Promise!avars, Captures
    <3>. QED
      BY <3>1, <3>3, <3>4
  <2>4. CASE FailedNow(o)
    <3>1. paid[o] \in {"PENDING", "FAILED"} /\ paid' = [paid EXCEPT ![o] = "FAILED"]
      BY <2>1, <2>4 DEF FailedNow
    <3>2. CASE paid[o] = "PENDING"
      <4>1. Promise!GiveUp(o)
        BY <1>1, <3>1, <3>2 DEF Promise!GiveUp, Captures
      <4>. QED
        BY <4>1 DEF Promise!Next
    <3>3. CASE paid[o] = "FAILED"
      <4>1. paid' = paid
        BY <3>1, <3>3
      <4>. QED
        BY <1>1, <4>1 DEF Promise!avars, Captures
    <3>. QED
      BY <3>1, <3>2, <3>3
  <2>. QED
    BY <1>3, <2>2, <2>3, <2>4
<1>. QED
  BY <1>2, <1>3 DEF OrdersStep

\* What the customer does captures at most one payment, of an order that is
\* there.
LEMMA PromiseOfCustomer ==
    ASSUME OneWay, CustomerActs
    PROVE  [Promise!Next]_(Promise!avars)
<1>. USE FlowTypes DEF OneWay
<1>. DEFINE paid == [o \in Orders |-> subs[o].pay]
            held == [o \in Orders |-> Captures(o)]
<1>1. paid' = paid
  BY DEF CustomerActs, dbVars
<1>2. CASE held' = held
  BY <1>1, <1>2 DEF Promise!avars, Captures
<1>3. ASSUME NEW p \in Payments, PaymentCaptured(p) PROVE [Promise!Next]_(Promise!avars)
  <2>1. PICK o \in Orders : o = payOrder[p] /\ Exists(o)
    BY <1>3 DEF PaymentCaptured, Flow, TypedJobs, PaymentsPlaced, FlowInv, RowsInv
  <2>2. paid[o] # "NONE"
    BY <2>1 DEF Flow, FlowInv, RowsInv
  <2>3. payOrder' = payOrder /\ \A q \in Payments : payState'[q] = IF q = p THEN "captured" ELSE payState[q]
    BY <1>3, FlowTypes DEF PaymentCaptured
  <2>4. \A x \in Orders : held'[x] = IF x = o THEN held[o] \cup {p} ELSE held[x]
    BY <2>1, <2>3 DEF Captures
  <2>5. held' = [held EXCEPT ![o] = @ \cup {p}]
    BY <2>1, <2>4
  <2>6. Promise!Capture(o, p)
    BY <1>1, <2>1, <2>2, <2>5 DEF Promise!Capture, Captures
  <2>. QED
    BY <2>1, <2>6 DEF Promise!Next
<1>4. ASSUME NEW p \in Payments, NEW x \in Orders, CustomerPays(p, x) PROVE held' = held
  BY <1>4 DEF CustomerPays, Captures
<1>5. ASSUME NEW p \in Payments, PaymentFails(p) PROVE held' = held
  BY <1>5 DEF PaymentFails, Captures
<1>. HIDE DEF held
<1>. QED
  BY <1>2, <1>3, <1>4, <1>5 DEF CustomerActs

\* As long as no order has both a failed and a captured payment, whatever
\* the sessions do at the same time and however often the provider repeats
\* itself, or as long as requests are served one at a time: an order is placed once, is settled only by a payment captured
\* for it, and keeps its outcome.
THEOREM PromiseIsKept == Spec /\ (OneAtATime \/ []OneOutcome) => PromiseKept
<1>1. Init => Promise!Init
  <2>. SUFFICES ASSUME Init PROVE Promise!Init
    OBVIOUS
  <2>1. \A o \in Orders : subs[o].pay = "NONE"
    BY TableAssumption DEF Init, Rows, NoRow
  <2>2. \A p \in Payments : payState[p] # "captured"
    BY DEF Init, ProviderInit
  <2>. QED
    BY <2>1, <2>2 DEF Promise!Init
<1>2. OneWay /\ [Next]_vars => [Promise!Next]_(Promise!avars)
  <2>. SUFFICES ASSUME OneWay, [Next]_vars PROVE [Promise!Next]_(Promise!avars)
    OBVIOUS
  <2>1. CASE CustomerActs
    BY <2>1, PromiseOfCustomer
  <2>2. CASE UNCHANGED <<payState, payOrder>>
    BY <2>2, NextOrders, PromiseOfTable
  <2>. QED
    BY <2>1, <2>2, OnlyCustomersPay
<1>. QED
  BY <1>1, <1>2, SpecOneWay, PTL DEF Spec, PromiseKept, Promise!Spec

=============================================================================
