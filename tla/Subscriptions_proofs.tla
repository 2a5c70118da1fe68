-------------------------- MODULE Subscriptions_proofs --------------------------
(***************************************************************************)
(* Two parts that share no state, each with its own specification.         *)
(* SubscriptionLifecycle: type correctness, that the renewals recorded of  *)
(* a row are the announced ones, that one plan is active at most, and that *)
(* a request sets statuses along the table, for any number of rows and     *)
(* sessions.  PlanCatalogue: type correctness, and when the default plan   *)
(* may be lost or part from the setting, for any number of plans and       *)
(* sessions.  Side by side (MCSubscriptions), each behaves as its own      *)
(* specification says, so that what is proved of it holds of both.         *)
(***************************************************************************)
EXTENDS MCSubscriptions, FiniteSetTheorems, TLAPS

-----------------------------------------------------------------------------
\* A session that is about to write a row has read one.
HasRow ==
    \A s \in Sessions : pc[s] \in {"expire", "write"} => job[s].row \in Rows

Inv == TypeOK /\ HasRow /\ RenewedAsAnnounced

LEMMA FinishKeeps ==
    ASSUME Inv, NEW s \in Sessions, Finish(s)
    PROVE  pc' \in [Sessions -> Steps] /\ job' \in [Sessions -> Job] /\ HasRow'
  BY DEF Inv, TypeOK, HasRow, Finish, Steps, Job, NoJob, Row, Statuses

\* Whatever an operation does next is a step.
LEMMA NextStepType ==
    ASSUME NEW op, NEW seen
    PROVE  NextStep(op, seen) \in {"ensure", "insert", "write"}
<1>1. CASE op = "lookup"
  BY <1>1 DEF NextStep
<1>2. CASE op = "assign"
  BY <1>2 DEF NextStep
<1>3. CASE op = "change" /\ seen.status \in Final
  BY <1>3 DEF NextStep
<1>4. CASE op # "lookup" /\ op # "assign" /\ ~(op = "change" /\ seen.status \in Final)
  BY <1>4 DEF NextStep
<1>. QED
  BY <1>1, <1>2, <1>3, <1>4

LEMMA BeginKeeps ==
    ASSUME Inv, NEW s \in Sessions, NEW op \in Operations, NEW r \in Rows, Begin(s, op, r)
    PROVE  Inv'
<1>1. job' = [job EXCEPT ![s] = [op |-> op, row |-> r, seen |-> row[r]]]
  BY DEF Begin
<1>2. job' \in [Sessions -> Job] /\ job'[s].row = r
  BY <1>1 DEF Inv, TypeOK, Job
<1>3. PICK step \in Steps : pc' = [pc EXCEPT ![s] = step]
  BY NextStepType DEF Begin, Goto, Steps
<1>4. pc' \in [Sessions -> Steps]
  BY <1>3 DEF Inv, TypeOK
<1>5. HasRow'
  BY <1>1, <1>2, <1>3 DEF Inv, TypeOK, HasRow
<1>. QED
  BY <1>2, <1>4, <1>5 DEF Begin, Inv, TypeOK, RenewedAsAnnounced

\* A request that has to insert a row has none yet.
LEMMA InsertsNext ==
    ASSUME Inv, NEW s \in Sessions, NEW op \in {"lookup", "assign"},
           Goto(s, "insert"), job' = [job EXCEPT ![s].op = op],
           UNCHANGED <<row, renewed, keys, deleted>>
    PROVE  Inv'
  BY DEF Inv, TypeOK, HasRow, RenewedAsAnnounced, Goto, Steps, Job, Operations

LEMMA ArriveKeeps ==
    ASSUME Inv, NEW s \in Sessions, Arrive(s)
    PROVE  Inv'
<1>. Active \subseteq Rows
  BY DEF Active
<1>1. CASE LookUp(s)
  <2>1. ASSUME NEW r \in Active, Begin(s, "lookup", r) PROVE Inv'
    BY <2>1, BeginKeeps DEF Operations
  <2>. QED
    BY <1>1, <2>1, InsertsNext DEF LookUp
<1>2. CASE Assign(s)
  <2>1. ASSUME NEW r \in Active, Begin(s, "assign", r) PROVE Inv'
    BY <2>1, BeginKeeps DEF Operations
  <2>. QED
    BY <1>2, <2>1, InsertsNext DEF Assign
<1>3. ASSUME NEW r \in Rows, Renew(s, r) PROVE Inv'
  BY <1>3, BeginKeeps DEF Renew, Operations
<1>4. ASSUME NEW r \in Rows, Change(s, r) PROVE Inv'
  BY <1>4, BeginKeeps DEF Change, Operations
<1>5. ASSUME NEW r \in Rows, NEW op \in {"cancel", "suspend", "resume", "expire"},
             SetStatus(s, op, r)
      PROVE  Inv'
  BY <1>5, BeginKeeps DEF SetStatus, Operations
<1>. QED
  BY <1>1, <1>2, <1>3, <1>4, <1>5 DEF Arrive

\* A row that is set to a status keeps the table well typed.
LEMMA RowSet ==
    ASSUME row \in [Rows -> Row], NEW r \in Rows, NEW status \in Statuses, NEW over \in BOOLEAN
    PROVE  /\ [row EXCEPT ![r] = [status |-> status, over |-> over]] \in [Rows -> Row]
           /\ [row EXCEPT ![r].status = status] \in [Rows -> Row]
           /\ [row EXCEPT ![r].over = over] \in [Rows -> Row]
  BY DEF Row

LEMMA RowField ==
    ASSUME row \in [Rows -> Row], NEW r \in Rows
    PROVE  row[r].status \in Statuses /\ row[r].over \in BOOLEAN
  BY DEF Row

\* A request that ends and leaves renewals and notices alone.
LEMMA EndKeeps ==
    ASSUME Inv, NEW s \in Sessions, Finish(s), UNCHANGED <<renewed, keys, deleted>>,
           row' \in [Rows -> Row]
    PROVE  Inv'
  BY FinishKeeps DEF Inv, TypeOK, RenewedAsAnnounced

LEMMA ExpireKeeps ==
    ASSUME Inv, NEW s \in Sessions, Expire(s)
    PROVE  Inv'
<1>. DEFINE r == job[s].row
<1>. r \in Rows
  BY DEF Inv, HasRow, Expire
<1>1. CASE Finish(s) /\ UNCHANGED <<row, keys>>
  BY <1>1, EndKeeps DEF Expire, Inv, TypeOK
<1>2. CASE /\ row' = [row EXCEPT ![r].status = "EXPIRED"]
           /\ keys' = keys \cup {<<r, "expired">>}
           /\ job' = [job EXCEPT ![s].seen = row'[r]]
           /\ Goto(s, NextStep(job[s].op, row'[r]))
  <2>1. row' \in [Rows -> Row]
    BY <1>2, RowSet DEF Inv, TypeOK, Statuses
  <2>2. job' \in [Sessions -> Job] /\ \A t \in Sessions : job'[t].row = job[t].row
    BY <1>2, <2>1 DEF Inv, TypeOK, Job
  <2>3. PICK step \in Steps : pc' = [pc EXCEPT ![s] = step]
    BY <1>2, NextStepType DEF Goto, Steps
  <2>4. pc' \in [Sessions -> Steps] /\ HasRow'
    BY <2>2, <2>3 DEF Inv, TypeOK, HasRow
  <2>5. keys' \subseteq Rows \X {"expired", "renewed"}
    BY <1>2 DEF Inv, TypeOK
  <2>6. RenewedAsAnnounced'
    <3>1. \A x \in Rows : <<x, "renewed">> \in keys' <=> <<x, "renewed">> \in keys
      BY <1>2
    <3>2. renewed' = renewed /\ deleted' = deleted
      BY DEF Expire
    <3>. QED
      BY <3>1, <3>2 DEF Inv, RenewedAsAnnounced
  <2>. QED
    BY <2>1, <2>2, <2>4, <2>5, <2>6 DEF Inv, TypeOK, Expire
<1>. QED
  BY <1>1, <1>2 DEF Expire, PlanExpires

LEMMA RenewalKeeps ==
    ASSUME Inv, NEW s \in Sessions, CommitRenewal(s)
    PROVE  Inv'
<1>. DEFINE r == job[s].row
            status == Written(r, job[s].seen, "ACTIVE")
<1>. r \in Rows
  BY DEF Inv, HasRow, CommitRenewal
<1>1. CASE UNCHANGED <<row, renewed, keys>>
  BY <1>1, EndKeeps DEF CommitRenewal, Inv, TypeOK
<1>2. CASE /\ ~Announced(r, "renewed")
           /\ row' = [row EXCEPT ![r] = [status |-> status, over |-> FALSE]]
           /\ renewed' = [renewed EXCEPT ![r] = @ + 1]
           /\ keys' = keys \cup {<<r, "renewed">>}
  <2>1. status \in Statuses
    BY RowField DEF Written, Inv, TypeOK, Statuses
  <2>2. row' \in [Rows -> Row]
    BY <1>2, <2>1, RowSet DEF Inv, TypeOK
  <2>3. renewed[r] = deleted[r]
    BY <1>2 DEF Announced, Inv, TypeOK, RenewedAsAnnounced
  <2>4. renewed' \in [Rows -> Nat]
    BY <1>2 DEF Inv, TypeOK
  <2>5. keys' \subseteq Rows \X {"expired", "renewed"}
    BY <1>2 DEF Inv, TypeOK
  <2>6. RenewedAsAnnounced'
    <3>. SUFFICES ASSUME NEW x \in Rows
                  PROVE  renewed'[x] = deleted'[x] + (IF <<x, "renewed">> \in keys' THEN 1 ELSE 0)
      BY DEF RenewedAsAnnounced
    <3>. deleted' = deleted
      BY DEF CommitRenewal
    <3>1. CASE x = r
      BY <1>2, <2>3, <3>1 DEF Inv, TypeOK
    <3>2. CASE x # r
      <4>1. renewed'[x] = renewed[x]
        BY <1>2, <3>2 DEF Inv, TypeOK
      <4>2. <<x, "renewed">> \in keys' <=> <<x, "renewed">> \in keys
        BY <1>2, <3>2
      <4>. QED
        BY <4>1, <4>2 DEF Inv, RenewedAsAnnounced
    <3>. QED
      BY <3>1, <3>2
  <2>. QED
    BY <2>2, <2>4, <2>5, <2>6, FinishKeeps DEF CommitRenewal, Inv, TypeOK
<1>. QED
  BY <1>1, <1>2 DEF CommitRenewal

LEMMA ChangeKeeps ==
    ASSUME Inv, NEW s \in Sessions, CommitChange(s)
    PROVE  Inv'
<1>. DEFINE r == job[s].row
            status == Written(r, job[s].seen, "ACTIVE")
<1>. r \in Rows
  BY DEF Inv, HasRow, CommitChange
<1>1. status \in Statuses
  BY RowField DEF Written, Inv, TypeOK, Statuses
<1>2. row' \in [Rows -> Row]
  BY <1>1, RowSet DEF CommitChange, Inv, TypeOK
<1>. QED
  BY <1>2, EndKeeps DEF CommitChange

LEMMA StatusKeeps ==
    ASSUME Inv, NEW s \in Sessions, CommitStatus(s)
    PROVE  Inv'
<1>. DEFINE r == job[s].row
            target == Target(job[s].op)
            over == row[r].over /\ ~(target = "ACTIVE" /\ job[s].seen.over)
            set == [row EXCEPT ![r] = [status |-> target, over |-> over]]
<1>. r \in Rows
  BY DEF Inv, HasRow, CommitStatus
<1>1. target \in Statuses
  BY DEF CommitStatus, Target, Statuses
<1>. HIDE DEF target
<1>2. over \in BOOLEAN
  OBVIOUS
<1>. HIDE DEF over
<1>3. set \in [Rows -> Row]
  BY <1>1, <1>2, RowSet DEF Inv, TypeOK
<1>. HIDE DEF set
<1>4. ASSUME NEW d \in Rows PROVE [set EXCEPT ![d].status = "ACTIVE"] \in [Rows -> Row]
  BY <1>3 DEF Row, Statuses
<1>5. \/ row' = set \/ row' = row
      \/ \E d \in Rows \ Existing : row' = [set EXCEPT ![d].status = "ACTIVE"]
  BY DEF CommitStatus, set, over, target
<1>6. row' \in [Rows -> Row]
  BY <1>3, <1>4, <1>5 DEF Inv, TypeOK
<1>. QED
  BY <1>6, EndKeeps DEF CommitStatus

LEMMA HandleKeeps ==
    ASSUME Inv, NEW s \in Sessions, Handle(s)
    PROVE  Inv'
<1>1. CASE Ensure(s)
  <2>1. CASE Goto(s, "insert") /\ UNCHANGED job
    BY <1>1, <2>1 DEF Ensure, Goto, Inv, TypeOK, HasRow, RenewedAsAnnounced, Steps
  <2>2. CASE Finish(s)
    BY <1>1, <2>2, EndKeeps DEF Ensure, Inv, TypeOK
  <2>. QED
    BY <1>1, <2>1, <2>2 DEF Ensure
<1>2. CASE Insert(s)
  <2>1. ASSUME NEW r \in Rows PROVE [row EXCEPT ![r].status = "ACTIVE"] \in [Rows -> Row]
    BY RowSet DEF Inv, TypeOK, Statuses
  <2>2. row' \in [Rows -> Row]
    BY <1>2, <2>1 DEF Insert, Inv, TypeOK
  <2>. QED
    BY <1>2, <2>2, EndKeeps DEF Insert
<1>. QED
  BY <1>1, <1>2, ExpireKeeps, RenewalKeeps, ChangeKeeps, StatusKeeps DEF Handle

\* What payments do, and the passing of time, touches rows only.
LEMMA EnvironmentKeeps ==
    ASSUME Inv, PaymentCommits \/ \E r \in Rows : Lapse(r)
    PROVE  Inv'
<1>1. row' \in [Rows -> Row]
  <2>. row \in [Rows -> Row] /\ [status |-> "PENDING", over |-> FALSE] \in Row
    BY DEF Inv, TypeOK, Row, Statuses
  <2>1. ASSUME NEW r \in Rows, OrderPlaced(r) \/ OrderFails(r) PROVE row' \in [Rows -> Row]
    <3>1. CASE OrderPlaced(r)
      BY <3>1 DEF OrderPlaced
    <3>2. CASE OrderFails(r)
      BY <3>2 DEF OrderFails, Row, Statuses
    <3>. QED
      BY <2>1, <3>1, <3>2
  <2>2. ASSUME NEW r \in Rows, OrderPaid(r) PROVE row' \in [Rows -> Row]
    BY <2>2 DEF OrderPaid, Inv, TypeOK, Row, Statuses
  <2>3. ASSUME NEW r \in Rows, Lapse(r) PROVE row' \in [Rows -> Row]
    BY <2>3 DEF Lapse, PeriodEnds, Inv, TypeOK, Row
  <2>. QED
    BY <2>1, <2>2, <2>3 DEF PaymentCommits, PaymentActs
<1>2. UNCHANGED <<renewed, keys, deleted, pc, job>>
  BY DEF PaymentCommits, Lapse
<1>. QED
  BY <1>1, <1>2 DEF Inv, TypeOK, HasRow, RenewedAsAnnounced

\* A deleted renewal announcement is counted as one.
LEMMA DeletionKeeps ==
    ASSUME Inv, NEW r \in Rows, NEW event \in {"expired", "renewed"},
           NotificationDeleted(r, event)
    PROVE  Inv'
<1>1. deleted' \in [Rows -> 0..MaxDeletions]
  <2>1. CASE event = "renewed"
    BY <2>1, LifecycleAssumption DEF NotificationDeleted, Inv, TypeOK
  <2>2. CASE event # "renewed"
    BY <2>2 DEF NotificationDeleted, Inv, TypeOK
  <2>. QED
    BY <2>1, <2>2
<1>2. RenewedAsAnnounced'
  <2>. SUFFICES ASSUME NEW x \in Rows
                PROVE  renewed[x] = deleted'[x] + (IF <<x, "renewed">> \in keys' THEN 1 ELSE 0)
    BY DEF RenewedAsAnnounced, NotificationDeleted
  <2>1. renewed[x] = deleted[x] + (IF <<x, "renewed">> \in keys THEN 1 ELSE 0)
    BY DEF Inv, RenewedAsAnnounced
  <2>2. CASE x = r /\ event = "renewed"
    <3>1. deleted'[x] = deleted[x] + 1 /\ <<x, "renewed">> \in keys /\ <<x, "renewed">> \notin keys'
      BY <2>2 DEF NotificationDeleted, Inv, TypeOK
    <3>2. deleted[x] \in Nat
      BY LifecycleAssumption DEF Inv, TypeOK
    <3>. QED
      BY <2>1, <3>1, <3>2
  <2>3. CASE ~(x = r /\ event = "renewed")
    <3>1. deleted'[x] = deleted[x]
      BY <2>3 DEF NotificationDeleted, Inv, TypeOK
    <3>2. <<x, "renewed">> \in keys' <=> <<x, "renewed">> \in keys
      BY <2>3 DEF NotificationDeleted
    <3>. QED
      BY <2>1, <3>1, <3>2
  <2>. QED
    BY <2>2, <2>3
<1>. QED
  BY <1>1, <1>2 DEF NotificationDeleted, Inv, TypeOK, HasRow

LEMMA InitInv == Init => Inv
<1>. SUFFICES ASSUME Init PROVE Inv
  OBVIOUS
<1>1. NoJob \in Job /\ [status |-> "NONE", over |-> FALSE] \in Row
  BY DEF NoJob, Job, Row, Statuses
<1>2. TypeOK
  BY <1>1, LifecycleAssumption DEF Init, TypeOK, Steps
<1>3. HasRow /\ RenewedAsAnnounced
  BY DEF Init, HasRow, RenewedAsAnnounced
<1>. QED
  BY <1>2, <1>3 DEF Inv

LEMMA NextInv == Inv /\ [Next]_vars => Inv'
<1>. SUFFICES ASSUME Inv, [Next]_vars PROVE Inv'
  OBVIOUS
<1>1. ASSUME NEW s \in Sessions, Interrupted(s) PROVE Inv'
  BY <1>1, EndKeeps DEF Interrupted, Inv, TypeOK
<1>2. CASE UNCHANGED vars
  BY <1>2 DEF vars, Inv, TypeOK, HasRow, RenewedAsAnnounced
<1>. QED
  BY <1>1, <1>2, ArriveKeeps, HandleKeeps, EnvironmentKeeps, DeletionKeeps DEF Next

\* Every reachable state is well typed.
THEOREM LifecycleTypeCorrect == Spec => []TypeOK
<1>1. Spec => []Inv
  BY InitInv, NextInv, PTL DEF Spec
<1>. QED
  BY <1>1, PTL DEF Inv

\* The renewals recorded of a row are the announced ones, those whose
\* announcement its owner has deleted and one more while an announcement
\* stands, however many sessions renew it and whenever the owner deletes.
THEOREM RenewalsAreAnnounced == Spec => []RenewedAsAnnounced
<1>1. Spec => []Inv
  BY InitInv, NextInv, PTL DEF Spec
<1>. QED
  BY <1>1, PTL DEF Inv

-----------------------------------------------------------------------------
\* One active plan: no write makes a row active beside another one.

Sole == \A r, x \in Active : r = x

\* The column after the write is what was written, or what it was.
LEMMA WrittenStatus ==
    ASSUME NEW r, NEW seen, NEW status
    PROVE  Written(r, seen, status) \in {status, row[r].status}
  BY DEF Written

\* An accepted write of a status leaves one active row at most.
LEMMA SoleAccepted ==
    ASSUME Sole, row \in [Rows -> Row], NEW r \in Rows, NEW status \in Statuses,
           IndexAccepts(r, status),
           row' \in [Rows -> Row], row'[r].status = status,
           \A x \in Rows \ {r} : row'[x].status = row[x].status
    PROVE  Sole'
<1>1. CASE status = "ACTIVE"
  BY <1>1 DEF Sole, IndexAccepts, Active
<1>2. CASE status # "ACTIVE"
  BY <1>2 DEF Sole, Active
<1>. QED
  BY <1>1, <1>2

LEMMA SoleNext == Inv /\ Sole /\ [Next]_vars => Sole'
<1>. SUFFICES ASSUME Inv, Sole, [Next]_vars PROVE Sole'
  OBVIOUS
<1>. row \in [Rows -> Row] /\ row' \in [Rows -> Row]
  BY NextInv DEF Inv, TypeOK
<1>1. ASSUME UNCHANGED row PROVE Sole'
  BY <1>1 DEF Sole, Active
<1>2. ASSUME NEW s \in Sessions, Arrive(s) PROVE UNCHANGED row
  BY <1>2 DEF Arrive, LookUp, Assign, Renew, Change, SetStatus, Begin
<1>3. ASSUME NEW s \in Sessions, Expire(s) PROVE Sole'
  <2>1. CASE UNCHANGED row
    BY <2>1, <1>1
  <2>2. CASE row' = [row EXCEPT ![job[s].row].status = "EXPIRED"]
    <3>1. \A x \in Rows : row'[x].status \in {"EXPIRED", row[x].status}
      BY <2>2 DEF Row
    <3>. QED
      BY <3>1 DEF Sole, Active
  <2>. QED
    BY <1>3, <2>1, <2>2 DEF Expire, PlanExpires
<1>4. ASSUME NEW s \in Sessions, Insert(s) PROVE Sole'
  <2>1. PICK r \in Rows \ Existing :
          row' = IF IndexAccepts(r, "ACTIVE") THEN [row EXCEPT ![r].status = "ACTIVE"] ELSE row
    BY <1>4 DEF Insert
  <2>2. CASE IndexAccepts(r, "ACTIVE")
    <3>1. row'[r].status = "ACTIVE" /\ \A x \in Rows \ {r} : row'[x].status = row[x].status
      BY <2>1, <2>2 DEF Row
    <3>. QED
      BY <2>2, <3>1, SoleAccepted DEF Statuses
  <2>. QED
    BY <1>1, <2>1, <2>2
<1>5. ASSUME NEW s \in Sessions, CommitRenewal(s) \/ CommitChange(s) PROVE Sole'
  <2>. DEFINE r == job[s].row
              status == Written(r, job[s].seen, "ACTIVE")
  <2>1. r \in Rows
    BY <1>5 DEF Inv, HasRow, CommitRenewal, CommitChange
  <2>2. status \in Statuses
    BY <2>1, RowField DEF Written, Statuses
  <2>3. \/ UNCHANGED row
        \/ /\ IndexAccepts(r, status)
           /\ row' = [row EXCEPT ![r] = [status |-> status, over |-> FALSE]]
    BY <1>5 DEF CommitRenewal, CommitChange
  <2>. HIDE DEF r, status
  <2>4. CASE UNCHANGED row
    BY <2>4, <1>1
  <2>5. CASE /\ IndexAccepts(r, status)
             /\ row' = [row EXCEPT ![r] = [status |-> status, over |-> FALSE]]
    <3>1. row'[r].status = status /\ \A x \in Rows \ {r} : row'[x].status = row[x].status
      BY <2>1, <2>5
    <3>. QED
      BY <2>1, <2>2, <2>5, <3>1, SoleAccepted
  <2>. QED
    BY <2>3, <2>4, <2>5
<1>6. ASSUME NEW s \in Sessions, CommitStatus(s) PROVE Sole'
  <2>. DEFINE r == job[s].row
              target == Target(job[s].op)
              over == row[r].over /\ ~(target = "ACTIVE" /\ job[s].seen.over)
              set == [row EXCEPT ![r] = [status |-> target, over |-> over]]
  <2>1. r \in Rows /\ target \in Statuses
    BY <1>6 DEF Inv, HasRow, CommitStatus, Target, Statuses
  <2>2. \/ UNCHANGED row
        \/ IndexAccepts(r, target) /\ row' = set
        \/ /\ Active \subseteq {r}
           /\ target = "EXPIRED"
           /\ \E d \in Rows \ Existing : row' = [set EXCEPT ![d].status = "ACTIVE"]
    BY <1>6 DEF CommitStatus
  <2>. HIDE DEF r, target, over
  <2>3. CASE UNCHANGED row
    BY <2>3, <1>1
  <2>4. CASE IndexAccepts(r, target) /\ row' = set
    <3>1. row'[r].status = target /\ \A x \in Rows \ {r} : row'[x].status = row[x].status
      BY <2>1, <2>4
    <3>. QED
      BY <2>1, <2>4, <3>1, SoleAccepted
  <2>5. ASSUME Active \subseteq {r}, target = "EXPIRED", NEW d \in Rows \ Existing,
               row' = [set EXCEPT ![d].status = "ACTIVE"]
        PROVE  Sole'
    <3>1. \A x \in Rows \ {d} : row'[x] = set[x]
      BY <2>5
    <3>2. \A x \in Rows \ {d} : row'[x].status # "ACTIVE"
      BY <2>1, <2>5, <3>1 DEF Active
    <3>. QED
      BY <3>2 DEF Sole, Active
  <2>. QED
    BY <2>2, <2>3, <2>4, <2>5
<1>7. CASE PaymentCommits
  <2>1. ASSUME NEW r \in Rows, OrderPlaced(r) \/ OrderFails(r) PROVE Sole'
    <3>1. \A x \in Rows : row'[x].status \in {"PENDING", "PAYMENT_FAILED", row[x].status}
      BY <2>1 DEF OrderPlaced, OrderFails, Row
    <3>. QED
      BY <3>1 DEF Sole, Active
  <2>2. ASSUME NEW r \in Rows, OrderPaid(r) PROVE Sole'
    <3>1. ASSUME NEW x \in Rows \ {r} PROVE row'[x].status # "ACTIVE"
      <4>1. CASE x \in Active
        BY <2>2, <4>1 DEF OrderPaid, Row
      <4>2. CASE x \notin Active
        BY <2>2, <4>2 DEF OrderPaid, Active
      <4>. QED
        BY <4>1, <4>2
    <3>. QED
      BY <3>1 DEF Sole, Active
  <2>. QED
    BY <1>7, <2>1, <2>2 DEF PaymentCommits, PaymentActs
<1>8. ASSUME NEW r \in Rows, Lapse(r) PROVE Sole'
  BY <1>8 DEF Lapse, PeriodEnds, Sole, Active, Row
<1>. QED
  BY <1>1, <1>2, <1>3, <1>4, <1>5, <1>6, <1>7, <1>8
  DEF Next, Handle, Ensure, Interrupted, NotificationDeleted, vars

\* At most one of a user's rows is active, however many sessions assign,
\* renew, change, resume and expire them while payments come in.
THEOREM OneActive == Spec => []OneActivePlan
<1>1. Init => Sole
  BY DEF Init, Sole, Active
<1>2. Spec => [](Inv /\ Sole)
  BY <1>1, InitInv, NextInv, SoleNext, PTL DEF Spec
<1>3. Sole => OneActivePlan
  <2>. SUFFICES ASSUME Sole PROVE Cardinality(Active) <= 1
    BY DEF OneActivePlan
  <2>1. CASE Active = {}
    BY <2>1, FS_EmptySet
  <2>2. CASE Active # {}
    <3>1. PICK r \in Active : Active = {r}
      BY <2>2 DEF Sole
    <3>. QED
      <4>1. Cardinality({r}) = 1
        BY FS_Singleton
      <4>. QED
        BY <3>1, <4>1
  <2>. QED
    BY <2>1, <2>2
<1>. QED
  BY <1>2, <1>3, PTL

-----------------------------------------------------------------------------
\* Statuses are set along the table: a session that is about to write has
\* accepted the status it read.

FourWrites == {"cancel", "suspend", "resume", "expire"}

AgreedTo(op, seen) ==
    /\ op \in {"renew", "change"} => seen.status \notin {"NONE", "CANCELLED"}
    /\ op \in FourWrites => Allowed(seen, op)

Decided(s) ==
    /\ pc[s] = "expire" => job[s].op \notin FourWrites /\ Lapsed(job[s].seen)
    /\ pc[s] = "write" => AgreedTo(job[s].op, job[s].seen)

AllDecided == \A s \in Sessions : Decided(s)

\* Whoever touches no other session leaves its decision.
LEMMA DecidedKeeps ==
    ASSUME Inv, AllDecided, NEW s \in Sessions,
           \A t \in Sessions \ {s} : pc'[t] = pc[t] /\ job'[t] = job[t],
           Decided(s)'
    PROVE  AllDecided'
  BY DEF AllDecided, Decided, AgreedTo, Allowed, Lapsed

LEMMA FinishDecides ==
    ASSUME Inv, AllDecided, NEW s \in Sessions, Finish(s)
    PROVE  AllDecided'
<1>1. \A t \in Sessions \ {s} : pc'[t] = pc[t] /\ job'[t] = job[t]
  BY DEF Finish, Inv, TypeOK
<1>2. pc'[s] = "idle"
  BY DEF Finish, Inv, TypeOK
<1>. QED
  BY <1>1, <1>2, DecidedKeeps DEF Decided

\* What has been read and accepted when an operation begins.
LEMMA BeginDecides ==
    ASSUME Inv, AllDecided, NEW s \in Sessions, NEW op \in Operations, NEW r \in Rows,
           Begin(s, op, r), AgreedTo(op, row[r])
    PROVE  AllDecided'
<1>1. \A t \in Sessions \ {s} : pc'[t] = pc[t] /\ job'[t] = job[t]
  BY DEF Begin, Goto, Inv, TypeOK
<1>2. job'[s] = [op |-> op, row |-> r, seen |-> row[r]]
  BY DEF Begin, Inv, TypeOK
<1>3. pc'[s] = "expire" => op \in {"lookup", "assign", "renew", "change"} /\ Lapsed(row[r])
  BY NextStepType DEF Begin, Goto, Inv, TypeOK
<1>4. Decided(s)'
  BY <1>2, <1>3 DEF Decided, AgreedTo, Allowed, Lapsed, FourWrites, Target
<1>. QED
  BY <1>1, <1>4, DecidedKeeps

LEMMA InsertDecides ==
    ASSUME Inv, AllDecided, NEW s \in Sessions, Goto(s, "insert"),
           \A t \in Sessions \ {s} : job'[t] = job[t]
    PROVE  AllDecided'
<1>1. \A t \in Sessions \ {s} : pc'[t] = pc[t] /\ job'[t] = job[t]
  BY DEF Goto, Inv, TypeOK
<1>2. pc'[s] = "insert"
  BY DEF Goto, Inv, TypeOK
<1>. QED
  BY <1>1, <1>2, DecidedKeeps DEF Decided

LEMMA ArriveDecides ==
    ASSUME Inv, AllDecided, NEW s \in Sessions, Arrive(s)
    PROVE  AllDecided'
<1>. Active \subseteq Rows
  BY DEF Active
<1>1. CASE LookUp(s)
  <2>1. ASSUME NEW r \in Active, Begin(s, "lookup", r) PROVE AllDecided'
    BY <2>1, BeginDecides DEF Operations, AgreedTo, FourWrites
  <2>2. CASE Goto(s, "insert") /\ job' = [job EXCEPT ![s].op = "lookup"]
    BY <2>2, InsertDecides DEF Inv, TypeOK
  <2>. QED
    BY <1>1, <2>1, <2>2 DEF LookUp
<1>2. CASE Assign(s)
  <2>1. ASSUME NEW r \in Active, Begin(s, "assign", r) PROVE AllDecided'
    BY <2>1, BeginDecides DEF Operations, AgreedTo, FourWrites
  <2>2. CASE Goto(s, "insert") /\ job' = [job EXCEPT ![s].op = "assign"]
    BY <2>2, InsertDecides DEF Inv, TypeOK
  <2>. QED
    BY <1>2, <2>1, <2>2 DEF Assign
<1>3. ASSUME NEW r \in Rows, Renew(s, r) PROVE AllDecided'
  <2>1. AgreedTo("renew", row[r])
    BY <1>3 DEF Renew, Existing, Renewable, Final, AgreedTo, FourWrites
  <2>. QED
    BY <1>3, <2>1, BeginDecides DEF Renew, Operations
<1>4. ASSUME NEW r \in Rows, Change(s, r) PROVE AllDecided'
  <2>1. CASE row[r].status # "CANCELLED"
    <3>1. AgreedTo("change", row[r])
      BY <1>4, <2>1 DEF Change, Existing, AgreedTo, FourWrites
    <3>. QED
      BY <1>4, <3>1, BeginDecides DEF Change, Operations
  <2>2. CASE row[r].status = "CANCELLED"
    <3>1. ~Lapsed(row[r]) /\ NextStep("change", row[r]) = "insert"
      BY <2>2 DEF Lapsed, NextStep, Final
    <3>2. Goto(s, "insert") /\ job' = [job EXCEPT ![s] = [op |-> "change", row |-> r, seen |-> row[r]]]
      BY <1>4, <3>1 DEF Change, Begin
    <3>. QED
      BY <3>2, InsertDecides DEF Inv, TypeOK
  <2>. QED
    BY <2>1, <2>2
<1>5. ASSUME NEW r \in Rows, NEW op \in FourWrites, SetStatus(s, op, r)
      PROVE  AllDecided'
  <2>1. AgreedTo(op, row[r])
    BY <1>5 DEF SetStatus, AgreedTo, FourWrites
  <2>. QED
    BY <1>5, <2>1, BeginDecides DEF SetStatus, Operations, FourWrites
<1>. QED
  BY <1>1, <1>2, <1>3, <1>4, <1>5 DEF Arrive, FourWrites

\* An expiry goes on with the row as it left it.
LEMMA ExpireDecides ==
    ASSUME Inv, AllDecided, NEW s \in Sessions, Expire(s)
    PROVE  AllDecided'
<1>. DEFINE r == job[s].row
<1>. r \in Rows
  BY DEF Inv, HasRow, Expire
<1>1. CASE Finish(s)
  BY <1>1, FinishDecides
<1>2. CASE /\ row' = [row EXCEPT ![r].status = "EXPIRED"]
           /\ job' = [job EXCEPT ![s].seen = row'[r]]
           /\ Goto(s, NextStep(job[s].op, row'[r]))
  <2>1. row'[r].status = "EXPIRED"
    BY <1>2 DEF Inv, TypeOK, Row
  <2>2. \A t \in Sessions \ {s} : pc'[t] = pc[t] /\ job'[t] = job[t]
    BY <1>2 DEF Goto, Inv, TypeOK
  <2>3. job'[s].op = job[s].op /\ job'[s].seen = row'[r]
    BY <1>2 DEF Inv, TypeOK, Job
  <2>4. job[s].op \notin FourWrites
    BY DEF AllDecided, Decided, Expire
  <2>5. pc'[s] # "expire"
    BY <1>2, NextStepType DEF Goto, Inv, TypeOK
  <2>6. AgreedTo(job[s].op, row'[r])
    BY <2>1, <2>4 DEF AgreedTo
  <2>7. Decided(s)'
    BY <2>3, <2>5, <2>6 DEF Decided, AgreedTo, Allowed, Target
  <2>. QED
    BY <2>2, <2>7, DecidedKeeps
<1>. QED
  BY <1>1, <1>2 DEF Expire, PlanExpires

LEMMA DecidedNext == Inv /\ AllDecided /\ [Next]_vars => AllDecided'
<1>. SUFFICES ASSUME Inv, AllDecided, [Next]_vars PROVE AllDecided'
  OBVIOUS
<1>1. ASSUME NEW s \in Sessions, Ensure(s) PROVE AllDecided'
  <2>1. CASE Finish(s)
    BY <2>1, FinishDecides
  <2>2. CASE Goto(s, "insert") /\ UNCHANGED job
    BY <2>2, InsertDecides
  <2>. QED
    BY <1>1, <2>1, <2>2 DEF Ensure
<1>2. ASSUME NEW s \in Sessions, Handle(s) PROVE AllDecided'
  <2>1. Expire(s) \/ Ensure(s) \/ Finish(s)
    BY <1>2 DEF Handle, Insert, CommitRenewal, CommitChange, CommitStatus
  <2>. QED
    BY <1>1, <2>1, ExpireDecides, FinishDecides
<1>3. ASSUME NEW s \in Sessions, Interrupted(s) PROVE AllDecided'
  BY <1>3, FinishDecides DEF Interrupted
<1>4. CASE UNCHANGED <<pc, job>>
  BY <1>4 DEF AllDecided, Decided, AgreedTo, Allowed, Lapsed
<1>. QED
  BY <1>2, <1>3, <1>4, ArriveDecides DEF Next, PaymentCommits, Lapse, NotificationDeleted, vars

\* What is written is allowed by the table from the status that was accepted.
LEMMA ActiveAllowed ==
    ASSUME NEW status \in Statuses, status \notin {"NONE", "CANCELLED"}
    PROVE  "ACTIVE" \in ValidTransitions[status] \cup {status}
  BY DEF Statuses, ValidTransitions

LEMMA LegalStep ==
    ASSUME Inv, AllDecided, NEW s \in Sessions, Handle(s),
           pc[s] \in {"expire", "write"}, row[job[s].row].status = job[s].seen.status
    PROVE  row'[job[s].row].status
             \in ValidTransitions[row[job[s].row].status] \cup {row[job[s].row].status}
<1>. DEFINE r == job[s].row
            Legal(status) == status \in ValidTransitions[row[r].status] \cup {row[r].status}
<1>. r \in Rows
  BY DEF Inv, HasRow
<1>. row \in [Rows -> Row] /\ row[r].status \in Statuses
  BY RowField DEF Inv, TypeOK
<1>. SUFFICES Legal(row'[r].status)
  OBVIOUS
<1>1. CASE UNCHANGED row
  BY <1>1
<1>2. CASE Expire(s)
  <2>1. row[r].status = "ACTIVE"
    BY <1>2 DEF Expire, AllDecided, Decided, Lapsed
  <2>2. UNCHANGED row \/ row' = [row EXCEPT ![r].status = "EXPIRED"]
    BY <1>2 DEF Expire, PlanExpires
  <2>3. row'[r].status \in {"ACTIVE", "EXPIRED"}
    BY <2>1, <2>2 DEF Row
  <2>. QED
    BY <2>1, <2>3 DEF ValidTransitions
<1>3. CASE CommitRenewal(s) \/ CommitChange(s)
  <2>1. row[r].status \notin {"NONE", "CANCELLED"}
    BY <1>3 DEF CommitRenewal, CommitChange, AllDecided, Decided, AgreedTo
  <2>2. \/ UNCHANGED row
        \/ row' = [row EXCEPT ![r] = [status |-> Written(r, job[s].seen, "ACTIVE"), over |-> FALSE]]
    BY <1>3 DEF CommitRenewal, CommitChange
  <2>3. row'[r].status \in {"ACTIVE", row[r].status}
    BY <2>2, WrittenStatus
  <2>. QED
    BY <2>1, <2>3, ActiveAllowed
<1>4. CASE CommitStatus(s)
  <2>. DEFINE target == Target(job[s].op)
              over == row[r].over /\ ~(target = "ACTIVE" /\ job[s].seen.over)
              set == [row EXCEPT ![r] = [status |-> target, over |-> over]]
  <2>1. target \in ValidTransitions[row[r].status]
    BY <1>4 DEF CommitStatus, AllDecided, Decided, AgreedTo, Allowed, FourWrites
  <2>2. \/ UNCHANGED row
        \/ row' = set
        \/ /\ target = "EXPIRED"
           /\ \E d \in Rows \ Existing : row' = [set EXCEPT ![d].status = "ACTIVE"]
    BY <1>4 DEF CommitStatus
  <2>. HIDE DEF target, over
  <2>3. CASE row' = set
    BY <2>1, <2>3
  <2>4. ASSUME target = "EXPIRED", NEW d \in Rows \ Existing,
               row' = [set EXCEPT ![d].status = "ACTIVE"]
        PROVE  row'[r].status = target
    <3>1. row[r].status # "NONE"
      BY <2>1, <2>4 DEF ValidTransitions
    <3>2. d # r
      BY <3>1 DEF Existing
    <3>. QED
      BY <2>4, <3>2
  <2>. QED
    BY <1>1, <2>1, <2>2, <2>3, <2>4
<1>5. pc[s] # "ensure" /\ pc[s] # "insert"
  OBVIOUS
<1>. HIDE DEF Legal
<1>. QED
  BY <1>2, <1>3, <1>4, <1>5 DEF Handle, Ensure, Insert

\* Whatever sessions race and payments come in, a request that writes a row as
\* it read it moves its status along VALID_STATUS_TRANSITIONS.
THEOREM StatusesFollowTable == Spec => LegalUnlessDisturbed
<1>1. Init => AllDecided
  BY DEF Init, AllDecided, Decided
<1>2. Spec => [](Inv /\ AllDecided)
  BY <1>1, InitInv, NextInv, DecidedNext, PTL DEF Spec
<1>3. Inv /\ AllDecided =>
        [\A s \in Sessions :
           LET r == job[s].row IN
           /\ pc[s] \in {"expire", "write"}
           /\ Handle(s)
           /\ row[r].status = job[s].seen.status
           => row'[r].status \in ValidTransitions[row[r].status] \cup {row[r].status}]_vars
  BY LegalStep
<1>. QED
  BY <1>2, <1>3, PTL DEF LegalUnlessDisturbed

-----------------------------------------------------------------------------
\* A running plan is taken away on purpose, or by a session that read it when
\* its period was over.

EndsIt(s) ==
    \/ pc[s] = "write" /\ job[s].op \in {"cancel", "suspend", "expire"}
    \/ pc[s] = "expire" /\ job[s].seen.over

\* The rows that a request writes beside its own did not exist.
LEMMA HandledRow ==
    ASSUME Inv, AllDecided, NEW s \in Sessions, Handle(s), NEW r \in Rows,
           Running(r), ~Running(r)'
    PROVE  job[s].row = r /\ EndsIt(s)
<1>. row \in [Rows -> Row]
  BY DEF Inv, TypeOK
<1>1. row'[r] # row[r] /\ r \in Existing
  BY DEF Running, Existing
<1>2. CASE Expire(s)
  <2>1. row' = [row EXCEPT ![job[s].row].status = "EXPIRED"]
    BY <1>1, <1>2 DEF Expire, PlanExpires
  <2>2. job[s].row = r
    BY <1>1, <2>1
  <2>3. job[s].seen.over
    BY <1>2 DEF Expire, AllDecided, Decided, Lapsed
  <2>. QED
    BY <1>2, <2>2, <2>3 DEF Expire, EndsIt
<1>3. CASE Insert(s)
  <2>1. PICK x \in Rows \ Existing :
          row' = IF IndexAccepts(x, "ACTIVE") THEN [row EXCEPT ![x].status = "ACTIVE"] ELSE row
    BY <1>3 DEF Insert
  <2>. QED
    BY <1>1, <2>1
<1>4. CASE CommitRenewal(s) \/ CommitChange(s)
  <2>. DEFINE q == job[s].row
              status == Written(q, job[s].seen, "ACTIVE")
  <2>1. row' = [row EXCEPT ![q] = [status |-> status, over |-> FALSE]]
    BY <1>1, <1>4 DEF CommitRenewal, CommitChange
  <2>2. CASE q = r
    <3>1. row'[r] = [status |-> status, over |-> FALSE]
      BY <2>1, <2>2
    <3>2. status = "ACTIVE"
      BY <2>2 DEF Written, Running
    <3>. QED
      BY <3>1, <3>2 DEF Running
  <2>3. CASE q # r
    BY <1>1, <2>1, <2>3
  <2>. QED
    BY <2>2, <2>3
<1>5. CASE CommitStatus(s)
  <2>. DEFINE q == job[s].row
              target == Target(job[s].op)
              over == row[q].over /\ ~(target = "ACTIVE" /\ job[s].seen.over)
              set == [row EXCEPT ![q] = [status |-> target, over |-> over]]
  <2>1. \/ row' = set
        \/ \E d \in Rows \ Existing : row' = [set EXCEPT ![d].status = "ACTIVE"]
    BY <1>1, <1>5 DEF CommitStatus
  <2>2. q \in Rows /\ pc[s] = "write" /\ job[s].op \in FourWrites
    BY <1>5 DEF CommitStatus, Inv, HasRow, FourWrites
  <2>3. row'[r] = set[r]
    BY <1>1, <2>1
  <2>4. q = r
    BY <1>1, <2>3
  <2>5. job[s].op # "resume"
    <3>1. ASSUME job[s].op = "resume" PROVE FALSE
      <4>1. target = "ACTIVE" /\ ~over
        BY <2>4, <3>1 DEF Target, Running
      <4>. HIDE DEF target, over
      <4>2. row'[r] = [status |-> target, over |-> over]
        BY <2>3, <2>4
      <4>. QED
        BY <4>1, <4>2 DEF Running
    <3>. QED
      BY <3>1
  <2>. QED
    BY <2>2, <2>4, <2>5 DEF EndsIt, FourWrites
<1>. QED
  BY <1>1, <1>2, <1>3, <1>4, <1>5 DEF Handle, Ensure

\* For any number of rows and sessions, renewals, changes, assignments and
\* default plans never end a running plan, and an automatic expiry ends one only
\* where it was decided on an older state of the row.
THEOREM RunningIsKept == Spec => RunningEndsOnPurpose
<1>1. Init => AllDecided
  BY DEF Init, AllDecided, Decided
<1>2. Spec => [](Inv /\ AllDecided)
  BY <1>1, InitInv, NextInv, DecidedNext, PTL DEF Spec
<1>3. Inv /\ AllDecided /\ [Next]_vars =>
        [\A r \in Rows :
           Running(r) /\ ~Running(r)' =>
              \/ PaymentCommits \/ Lapse(r)
              \/ \E s \in Sessions :
                   /\ Handle(s)
                   /\ job[s].row = r
                   /\ \/ pc[s] = "write" /\ job[s].op \in {"cancel", "suspend", "expire"}
                      \/ pc[s] = "expire" /\ job[s].seen.over]_vars
  <2>1. SUFFICES ASSUME Inv, AllDecided, [Next]_vars, NEW r \in Rows, Running(r), ~Running(r)',
                        ~PaymentCommits, ~Lapse(r)
                 PROVE  \E s \in Sessions : Handle(s) /\ job[s].row = r /\ EndsIt(s)
    BY DEF EndsIt
  <2>2. row' # row /\ row'[r] # row[r]
    BY <2>1 DEF Running
  <2>3. ASSUME NEW s \in Sessions, Arrive(s) \/ Interrupted(s) PROVE FALSE
    BY <2>2, <2>3 DEF Arrive, LookUp, Assign, Renew, Change, SetStatus, Begin, Interrupted
  <2>4. ASSUME NEW x \in Rows, Lapse(x) PROVE FALSE
    BY <2>1, <2>2, <2>4 DEF Lapse, PeriodEnds, Inv, TypeOK
  <2>5. PICK s \in Sessions : Handle(s)
    BY <2>1, <2>2, <2>3, <2>4 DEF Next, NotificationDeleted, vars
  <2>. QED
    BY <2>1, <2>5, HandledRow
<1>. QED
  BY <1>2, <1>3, PTL DEF Spec, RunningEndsOnPurpose

-----------------------------------------------------------------------------
\* The plan catalogue.

\* What a request's next step needs of what it remembers: the plan it is about
\* was made, other plans lose the flag only to one that gets it, a default plan
\* is not asked to be anything else in its type, and a plan with the flag is
\* not deleted.
RequestOk(q, m) ==
    /\ q.plan <= m
    /\ q.at \in {"update", "updateDefault", "sync", "default", "delete", "assign"} => q.plan # 0
    /\ q.at = "create" /\ q.new.default => q.new = DefaultRow
    /\ q.at \in {"updateDefault", "default", "repair", "bootstrap"} => q.new = DefaultRow
    /\ q.at = "update" /\ q.seen = DefaultRow =>
         q.new.type # "CANDIDATE" \/ q.new = DefaultRow
    /\ q.at = "sync" => q.seen.type = "CANDIDATE" /\ q.seen.default
    /\ q.at = "delete" => ~q.seen.default

Requests == [at : AdminSteps, plan : 0..LastPlan, seen : PlanRow,
             new : PlanRow, setting : 0..LastPlan]

PlanInv == PlanTypeOK /\ \A a \in Admins : RequestOk(admin[a], made)

LEMMA DefaultRowType == DefaultRow \in PlanRow /\ IdleAdmin \in Requests
  BY PlanCatalogueAssumption DEF DefaultRow, PlanRow, IdleAdmin, About, Request, Requests, AdminSteps

LEMMA RequestType ==
    ASSUME NEW step \in AdminSteps, NEW p \in 0..LastPlan, NEW seen \in PlanRow,
           NEW new \in PlanRow, NEW setting \in 0..LastPlan
    PROVE  Request(step, p, seen, new, setting) \in Requests
  BY DEF Request, Requests

LEMMA PlanRange == PlanInv => /\ made \in Nat \ {0} /\ made <= LastPlan
                              /\ DOMAIN plan \subseteq 1..LastPlan
                              /\ 1..made \subseteq 1..LastPlan
  BY PlanCatalogueAssumption DEF PlanInv, PlanTypeOK, PlanIds

\* A request that begins.
LEMMA BeginsKeeps ==
    ASSUME PlanInv, NEW a \in Admins, NEW q \in Requests, RequestOk(q, made), Begins(a, q)
    PROVE  PlanInv'
<1>1. /\ admin' = [admin EXCEPT ![a] = q]
      /\ UNCHANGED <<made, plan, builtIn, configured, assigned>>
  BY DEF Begins
<1>2. admin \in [Admins -> Requests]
  BY DEF PlanInv, PlanTypeOK, Requests
<1>3. admin' \in [Admins -> Requests]
  BY <1>1, <1>2
<1>4. PlanTypeOK'
  BY <1>1, <1>3 DEF PlanInv, PlanTypeOK, Requests
<1>5. \A b \in Admins : RequestOk(admin'[b], made')
  <2>. SUFFICES ASSUME NEW b \in Admins PROVE RequestOk(admin'[b], made')
    OBVIOUS
  <2>1. admin'[b] = IF b = a THEN q ELSE admin[b]
    BY <1>1, <1>2
  <2>2. RequestOk(admin'[b], made)
    BY <2>1 DEF PlanInv
  <2>. QED
    BY <1>1, <2>2 DEF RequestOk
<1>. QED
  BY <1>4, <1>5 DEF PlanInv

\* A request that ends, or goes on to the setting, after plans and settings
\* have changed within their types.
LEMMA EndsKeeps ==
    ASSUME PlanInv, NEW a \in Admins, NEW q \in Requests,
           admin' = [admin EXCEPT ![a] = q],
           made' \in PlanIds, made <= made',
           DOMAIN plan' \subseteq 1..made', plan' \in [DOMAIN plan' -> PlanRow],
           builtIn' \in {0} \cup DOMAIN plan', configured' \in 1..made',
           assigned' \subseteq DOMAIN plan', RequestOk(q, made')
    PROVE  PlanInv'
<1>2. admin \in [Admins -> Requests]
  BY DEF PlanInv, PlanTypeOK, Requests
<1>3. admin' \in [Admins -> Requests]
  BY <1>2
<1>4. PlanTypeOK'
  BY <1>3 DEF PlanTypeOK, Requests, PlanIds
<1>5. \A b \in Admins : RequestOk(admin'[b], made')
  <2>. SUFFICES ASSUME NEW b \in Admins PROVE RequestOk(admin'[b], made')
    OBVIOUS
  <2>1. admin'[b] = IF b = a THEN q ELSE admin[b]
    BY <1>2
  <2>2. CASE b = a
    BY <2>1, <2>2 DEF RequestOk
  <2>3. CASE b # a
    <3>1. RequestOk(admin[b], made) /\ admin'[b] = admin[b] /\ admin[b] \in Requests
      BY <1>2, <2>1, <2>3 DEF PlanInv
    <3>2. admin[b].plan <= made'
      <4>1. admin[b].plan \in Int /\ made \in Int /\ made' \in Int
        BY <3>1, PlanCatalogueAssumption DEF Requests, PlanInv, PlanTypeOK, PlanIds
      <4>. QED
        BY <3>1, <4>1 DEF RequestOk
    <3>. QED
      BY <3>1, <3>2 DEF RequestOk
  <2>. QED
    BY <2>2, <2>3
<1>. QED
  BY <1>4, <1>5 DEF PlanInv

LEMMA IdleOk == PlanInv => RequestOk(IdleAdmin, made)
  BY PlanRange DEF RequestOk, IdleAdmin, About, Request

LEMMA RequestOf ==
    ASSUME PlanInv, NEW a \in Admins
    PROVE  admin[a] \in Requests /\ RequestOk(admin[a], made)
  BY DEF PlanInv, PlanTypeOK, Requests

LEMMA ClearedType ==
    ASSUME PlanInv, NEW a \in Admins
    PROVE  ClearedFor(a) \in [DOMAIN plan -> PlanRow]
<1>1. \A p \in DOMAIN plan : [plan[p] EXCEPT !.default = FALSE] \in PlanRow /\ plan[p] \in PlanRow
  BY DEF PlanInv, PlanTypeOK, PlanRow
<1>2. CASE Clears(a)
  BY <1>1, <1>2 DEF ClearedFor, Cleared
<1>3. CASE ~Clears(a)
  <2>1. plan \in [DOMAIN plan -> PlanRow]
    BY <1>1 DEF PlanInv, PlanTypeOK
  <2>. QED
    BY <1>3, <2>1 DEF ClearedFor
<1>. QED
  BY <1>2, <1>3

LEMMA FlushedType ==
    ASSUME PlanInv, NEW a \in Admins
    PROVE  FlushedPlans(a) \in [DOMAIN plan -> PlanRow]
<1>1. \A p \in DOMAIN plan : FlushedRow(plan[p], admin[a].seen, admin[a].new) \in PlanRow
  <2>. SUFFICES ASSUME NEW p \in DOMAIN plan
                PROVE  FlushedRow(plan[p], admin[a].seen, admin[a].new) \in PlanRow
    OBVIOUS
  <2>1. plan[p] \in PlanRow /\ admin[a].seen \in PlanRow /\ admin[a].new \in PlanRow
    BY RequestOf DEF PlanInv, PlanTypeOK, Requests
  <2>. QED
    BY <2>1 DEF FlushedRow, Column, PlanRow
<1>2. \A p \in DOMAIN plan : ClearedFor(a)[p] \in PlanRow
  BY ClearedType
<1>. QED
  BY <1>1, <1>2 DEF FlushedPlans

\* A request that follows its commit is in order.
LEMMA SyncOk ==
    ASSUME PlanInv, made' \in Nat, made <= made', NEW p \in 1..made', p <= LastPlan,
           p \in DOMAIN plan', plan'[p] \in PlanRow, plan'[p].default,
           plan'[p].type = "CANDIDATE"
    PROVE  LET q == Request("sync", p, plan'[p], DefaultRow, 0)
           IN  q \in Requests /\ RequestOk(q, made')
<1>. DEFINE q == Request("sync", p, plan'[p], DefaultRow, 0)
<1>2. p \in 0..LastPlan /\ 0 \in 0..LastPlan
  BY PlanCatalogueAssumption
<1>3. q \in Requests
  <2>1. "sync" \in AdminSteps
    BY DEF AdminSteps
  <2>. QED
    BY <1>2, <2>1, DefaultRowType, RequestType
<1>4. p <= made' /\ p # 0
  BY PlanCatalogueAssumption
<1>5. RequestOk(q, made')
  <2>0. q = [at |-> "sync", plan |-> p, seen |-> plan'[p], new |-> DefaultRow,
             setting |-> 0]
    BY DEF Request
  <2>. HIDE DEF q
  <2>1. q.at = "sync" /\ q.plan = p /\ q.seen = plan'[p]
    BY <2>0
  <2>2. q.plan <= made' /\ q.plan # 0 /\ q.at = "sync"
    BY <1>4, <2>1
  <2>3. q.seen.type = "CANDIDATE" /\ q.seen.default
    BY <2>1, Zenon
  <2>. QED
    BY <2>2, <2>3 DEF RequestOk
<1>. QED
  BY <1>3, <1>5

\* How a request ends.
LEMMA SyncsKeeps ==
    ASSUME PlanInv, NEW a \in Admins, NEW p \in 0..made', SyncsNext(a, p) \/ Ends(a),
           made' \in PlanIds, made <= made',
           DOMAIN plan' \subseteq 1..made', plan' \in [DOMAIN plan' -> PlanRow],
           builtIn' \in {0} \cup DOMAIN plan', configured' \in 1..made',
           assigned' \subseteq DOMAIN plan'
    PROVE  PlanInv'
<1>. DEFINE q == Request("sync", p, plan'[p], DefaultRow, 0)
<1>0. made' \in Nat /\ made \in Nat /\ made <= LastPlan /\ made' <= LastPlan
  BY PlanRange, PlanCatalogueAssumption DEF PlanIds
<1>1. CASE Ends(a)
  <2>1. admin' = [admin EXCEPT ![a] = IdleAdmin]
    BY <1>1 DEF Ends
  <2>2. RequestOk(IdleAdmin, made')
    BY <1>0 DEF RequestOk, IdleAdmin, About, Request
  <2>. QED
    BY <2>1, <2>2, DefaultRowType, EndsKeeps
<1>2. CASE /\ p \in DOMAIN plan' /\ plan'[p].default /\ plan'[p].type = "CANDIDATE"
           /\ admin' = [admin EXCEPT ![a] = q]
  <2>1. p \in 1..made' /\ p <= LastPlan /\ plan'[p] \in PlanRow
    BY <1>0, <1>2, PlanCatalogueAssumption
  <2>2. q \in Requests /\ RequestOk(q, made')
    BY <1>0, <1>2, <2>1, SyncOk
  <2>. HIDE DEF q
  <2>. QED
    BY <1>2, <2>2, EndsKeeps
<1>. QED
  BY <1>1, <1>2 DEF SyncsNext

\* What a request needs, said of its parts.
LEMMA RequestOkIs ==
    ASSUME NEW step, NEW p, NEW seen, NEW new, NEW setting, NEW m, p <= m,
           step \in {"update", "updateDefault", "sync", "default", "delete", "assign"} => p # 0,
           step = "create" /\ new.default => new = DefaultRow,
           step \in {"updateDefault", "default", "repair", "bootstrap"} => new = DefaultRow,
           step = "update" /\ seen = DefaultRow =>
             new.type # "CANDIDATE" \/ new = DefaultRow,
           step = "sync" => seen.type = "CANDIDATE" /\ seen.default,
           step = "delete" => ~seen.default
    PROVE  RequestOk(Request(step, p, seen, new, setting), m)
<1>. DEFINE q == Request(step, p, seen, new, setting)
<1>1. q = [at |-> step, plan |-> p, seen |-> seen, new |-> new, setting |-> setting]
  BY DEF Request
<1>2. q.at = step /\ q.plan = p /\ q.seen = seen /\ q.new = new
  BY <1>1
<1>. HIDE DEF q
<1>3. RequestOk(q, m)
  BY <1>2 DEF RequestOk
<1>. QED
  BY <1>3 DEF q

-----------------------------------------------------------------------------
\* The operations' first steps.

LEMMA CreateKeeps ==
    ASSUME PlanInv, NEW a \in Admins, NEW wish \in Revisions, CreatePlan(a, wish)
    PROVE  PlanInv'
<1>1. /\ wish \in PlanRow /\ wish.type = "CANDIDATE" /\ (wish.default => wish.active)
      /\ Begins(a, Request("create", 0, wish, wish, 0))
  BY PlanCatalogueAssumption DEF CreatePlan
<1>2. wish.default => wish = DefaultRow
  BY <1>1 DEF PlanRow, DefaultRow
<1>3. 0 \in 0..LastPlan /\ 0 <= made
  BY PlanRange, PlanCatalogueAssumption
<1>4. RequestOk(Request("create", 0, wish, wish, 0), made)
  BY <1>2, <1>3, RequestOkIs
<1>5. Request("create", 0, wish, wish, 0) \in Requests
  BY <1>1, <1>3, RequestType DEF AdminSteps
<1>. QED
  BY <1>1, <1>4, <1>5, BeginsKeeps

\* A plan there is.
LEMMA PlanThere ==
    ASSUME PlanInv, NEW p \in DOMAIN plan
    PROVE  /\ p \in 0..LastPlan /\ p # 0 /\ p <= made /\ 0 \in 0..LastPlan
           /\ plan[p] \in PlanRow
  BY PlanRange, PlanCatalogueAssumption DEF PlanInv, PlanTypeOK

LEMMA UpdateKeeps ==
    ASSUME PlanInv, NEW a \in Admins, NEW p \in DOMAIN plan, NEW new \in Revisions,
           UpdatePlan(a, p, new)
    PROVE  PlanInv'
<1>. DEFINE seen == plan[p]
<1>1. new \in PlanRow /\ UpdateAllowed(p, new)
  BY PlanCatalogueAssumption DEF UpdatePlan
<1>2. seen = DefaultRow => new.type # "CANDIDATE" \/ new = DefaultRow
  BY <1>1 DEF UpdateAllowed, DefaultRow, PlanRow
<1>3. PICK step \in {"update", "updateDefault"} :
        /\ Begins(a, Request(step, p, seen, new, 0))
        /\ step = "updateDefault" =>
             new.default /\ new.active /\ new.type = "CANDIDATE"
  BY DEF UpdatePlan
<1>4. step = "updateDefault" => new = DefaultRow
  BY <1>1, <1>3 DEF PlanRow, DefaultRow
<1>5. seen \in PlanRow /\ p # 0 /\ p <= made /\ p \in 0..LastPlan /\ 0 \in 0..LastPlan
  BY PlanThere
<1>. HIDE DEF seen
<1>6. RequestOk(Request(step, p, seen, new, 0), made)
  BY <1>2, <1>4, <1>5, RequestOkIs
<1>7. Request(step, p, seen, new, 0) \in Requests
  BY <1>1, <1>5, RequestType DEF AdminSteps
<1>. QED
  BY <1>3, <1>6, <1>7, BeginsKeeps

LEMMA MakeDefaultKeeps ==
    ASSUME PlanInv, NEW a \in Admins, NEW p \in DOMAIN plan,
           NEW setting \in 0..LastPlan, MakeDefault(a, p, setting)
    PROVE  PlanInv'
<1>. DEFINE seen == plan[p]
<1>1. Begins(a, Request("default", p, seen, DefaultRow, setting))
  BY DEF MakeDefault
<1>2. seen \in PlanRow /\ p # 0 /\ p <= made /\ p \in 0..LastPlan
  BY PlanThere
<1>. HIDE DEF seen
<1>3. RequestOk(Request("default", p, seen, DefaultRow, setting), made)
  BY <1>2, RequestOkIs
<1>4. Request("default", p, seen, DefaultRow, setting) \in Requests
  BY <1>2, DefaultRowType, RequestType DEF AdminSteps
<1>. QED
  BY <1>1, <1>3, <1>4, BeginsKeeps

LEMMA DeleteKeeps ==
    ASSUME PlanInv, NEW a \in Admins, NEW p \in DOMAIN plan, DeletePlan(a, p)
    PROVE  PlanInv'
<1>. DEFINE seen == plan[p]
<1>1. Begins(a, Request("delete", p, seen, seen, 0)) /\ ~seen.default
  BY DEF DeletePlan
<1>2. seen \in PlanRow /\ p # 0 /\ p <= made /\ p \in 0..LastPlan /\ 0 \in 0..LastPlan
  BY PlanThere
<1>. HIDE DEF seen
<1>3. RequestOk(Request("delete", p, seen, seen, 0), made)
  BY <1>1, <1>2, RequestOkIs
<1>4. Request("delete", p, seen, seen, 0) \in Requests
  BY <1>2, RequestType DEF AdminSteps
<1>. QED
  BY <1>1, <1>3, <1>4, BeginsKeeps

LEMMA AssignsKeeps ==
    ASSUME PlanInv, NEW a \in Admins, NEW p \in 1..made, Begins(a, About("assign", p))
    PROVE  PlanInv'
<1>1. Begins(a, Request("assign", p, DefaultRow, DefaultRow, 0))
  BY DEF About
<1>2. p \in 0..LastPlan /\ p # 0 /\ p <= made /\ 0 \in 0..LastPlan
  BY PlanRange, PlanCatalogueAssumption
<1>3. RequestOk(Request("assign", p, DefaultRow, DefaultRow, 0), made)
  BY <1>2, RequestOkIs
<1>4. Request("assign", p, DefaultRow, DefaultRow, 0) \in Requests
  BY <1>2, DefaultRowType, RequestType DEF AdminSteps
<1>. QED
  BY <1>1, <1>3, <1>4, BeginsKeeps

LEMMA EnsuresKeeps ==
    ASSUME PlanInv, NEW a \in Admins, NEW step \in {"repair", "bootstrap"},
           EnsuresDefault(a, step)
    PROVE  PlanInv'
<1>1. PICK p \in 0..made :
        /\ DefaultToEnsure(p)
        /\ Begins(a, Request(step, p, IF p = 0 THEN DefaultRow ELSE plan[p], DefaultRow, 0))
  BY DEF EnsuresDefault
<1>. DEFINE seen == IF p = 0 THEN DefaultRow ELSE plan[p]
<1>2. p = 0 \/ p \in DOMAIN plan
  BY <1>1 DEF DefaultToEnsure, DefaultPlans, DefaultsOf, PlanInv, PlanTypeOK
<1>3. seen \in PlanRow
  BY <1>2, PlanThere, DefaultRowType
<1>4. Begins(a, Request(step, p, seen, DefaultRow, 0))
  BY <1>1
<1>. HIDE DEF seen
<1>5. p \in 0..LastPlan /\ p <= made /\ 0 \in 0..LastPlan
  BY PlanRange, PlanCatalogueAssumption
<1>6. RequestOk(Request(step, p, seen, DefaultRow, 0), made)
  BY <1>5, RequestOkIs
<1>7. Request(step, p, seen, DefaultRow, 0) \in Requests
  BY <1>3, <1>5, DefaultRowType, RequestType DEF AdminSteps
<1>. QED
  BY <1>4, <1>6, <1>7, BeginsKeeps

-----------------------------------------------------------------------------
\* The operations' last steps.

LEMMA WithPlanType ==
    ASSUME NEW S, NEW rows \in [S -> PlanRow], NEW p, NEW r \in PlanRow
    PROVE  /\ DOMAIN WithPlan(rows, p, r) = S \cup {p}
           /\ WithPlan(rows, p, r) \in [S \cup {p} -> PlanRow]
  BY DEF WithPlan

LEMMA InsertKeeps ==
    ASSUME PlanInv, NEW a \in Admins, InsertPlan(a)
    PROVE  PlanInv'
<1>1. made' = made + 1 /\ made < LastPlan /\ SyncsNext(a, made')
      /\ UNCHANGED <<builtIn, configured, assigned>>
  BY DEF InsertPlan
<1>2. made' \in PlanIds /\ made <= made' /\ made' \in 0..made' /\ 1..made \subseteq 1..made'
  BY <1>1, PlanRange, PlanCatalogueAssumption DEF PlanIds
<1>3. DOMAIN plan' = DOMAIN plan \cup {made'} /\ plan' \in [DOMAIN plan' -> PlanRow]
  <2>. DEFINE cleared == ClearedFor(a)
              new == admin[a].new
  <2>1. new \in PlanRow /\ cleared \in [DOMAIN plan -> PlanRow]
    BY RequestOf, ClearedType DEF Requests
  <2>2. plan' = WithPlan(cleared, made', new)
    BY DEF InsertPlan
  <2>. HIDE DEF cleared, new
  <2>3. /\ DOMAIN WithPlan(cleared, made', new) = DOMAIN plan \cup {made'}
        /\ WithPlan(cleared, made', new) \in [DOMAIN plan \cup {made'} -> PlanRow]
    BY <2>1, WithPlanType
  <2>. QED
    BY <2>2, <2>3
<1>4. DOMAIN plan \subseteq 1..made /\ made' \in 1..made'
  BY <1>1, PlanRange DEF PlanInv, PlanTypeOK
<1>5. DOMAIN plan' \subseteq 1..made'
  BY <1>2, <1>3, <1>4
<1>6. /\ builtIn' \in {0} \cup DOMAIN plan' /\ configured' \in 1..made'
      /\ assigned' \subseteq DOMAIN plan'
  BY <1>1, <1>2, <1>3 DEF PlanInv, PlanTypeOK
<1>. QED
  BY <1>1, <1>2, <1>3, <1>5, <1>6, SyncsKeeps

\* What the flush leaves of the other parts of the state.
LEMMA FlushKeeps ==
    ASSUME PlanInv, NEW a \in Admins, plan' = FlushedPlans(a), UNCHANGED <<made, builtIn>>
    PROVE  /\ made' \in PlanIds /\ made <= made' /\ DOMAIN plan' = DOMAIN plan
           /\ DOMAIN plan' \subseteq 1..made' /\ plan' \in [DOMAIN plan' -> PlanRow]
           /\ builtIn' \in {0} \cup DOMAIN plan'
           /\ admin[a].plan \in 0..made'
<1>1. FlushedPlans(a) \in [DOMAIN plan -> PlanRow]
  BY FlushedType
<1>2. DOMAIN plan' = DOMAIN plan /\ plan' \in [DOMAIN plan' -> PlanRow]
  BY <1>1
<1>3. admin[a].plan \in 0..made'
  BY RequestOf, PlanRange, PlanCatalogueAssumption DEF Requests, RequestOk
<1>. QED
  BY <1>2, <1>3, PlanRange DEF PlanInv, PlanTypeOK

LEMMA SaveUpdateKeeps ==
    ASSUME PlanInv, NEW a \in Admins, SaveUpdate(a)
    PROVE  PlanInv'
<1>1. plan' = FlushedPlans(a) /\ SyncsNext(a, admin[a].plan)
      /\ UNCHANGED <<made, builtIn, configured, assigned>>
  BY DEF SaveUpdate
<1>2. configured' \in 1..made' /\ assigned' \subseteq DOMAIN plan'
  BY <1>1, FlushKeeps DEF PlanInv, PlanTypeOK
<1>. QED
  BY <1>1, <1>2, FlushKeeps, SyncsKeeps

LEMMA SyncKeeps ==
    ASSUME PlanInv, NEW a \in Admins, SyncDefaultSetting(a)
    PROVE  PlanInv'
<1>1. configured' = admin[a].plan /\ Ends(a) /\ admin[a].at = "sync"
      /\ UNCHANGED <<made, plan, builtIn, assigned>>
  BY DEF SyncDefaultSetting
<1>2. admin[a].plan \in 1..made /\ admin[a].plan \in 0..made
  BY <1>1, RequestOf, PlanRange, PlanCatalogueAssumption DEF Requests, RequestOk
<1>3. /\ made' \in PlanIds /\ made <= made' /\ configured' \in 1..made'
      /\ admin[a].plan \in 0..made'
  BY <1>1, <1>2, PlanRange DEF PlanInv, PlanTypeOK
<1>4. /\ DOMAIN plan' \subseteq 1..made' /\ plan' \in [DOMAIN plan' -> PlanRow]
      /\ builtIn' \in {0} \cup DOMAIN plan' /\ assigned' \subseteq DOMAIN plan'
  BY <1>1 DEF PlanInv, PlanTypeOK
<1>. QED
  BY <1>1, <1>3, <1>4, SyncsKeeps

LEMMA SaveDefaultKeeps ==
    ASSUME PlanInv, NEW a \in Admins, SaveDefault(a)
    PROVE  PlanInv'
<1>1. plan' = FlushedPlans(a) /\ Ends(a) /\ UNCHANGED <<made, builtIn, assigned>>
      /\ admin[a].at = "default"
      /\ configured' \in {configured, admin[a].plan}
  BY DEF SaveDefault
<1>2. admin[a].plan \in 1..made
  BY <1>1, RequestOf, PlanRange, PlanCatalogueAssumption DEF Requests, RequestOk
<1>3. configured' \in 1..made' /\ assigned' \subseteq DOMAIN plan'
  BY <1>1, <1>2, FlushKeeps DEF PlanInv, PlanTypeOK
<1>. QED
  BY <1>1, <1>3, FlushKeeps, SyncsKeeps

LEMMA RemoveKeeps ==
    ASSUME PlanInv, NEW a \in Admins, RemovePlan(a)
    PROVE  PlanInv'
<1>1. /\ plan' = [p \in DOMAIN plan \ {admin[a].plan} |-> plan[p]]
      /\ builtIn' = IF admin[a].plan = builtIn THEN 0 ELSE builtIn
      /\ Ends(a) /\ admin[a].plan \notin assigned
      /\ UNCHANGED <<made, configured, assigned>>
  BY DEF RemovePlan
<1>2. admin[a].plan \in 0..made'
  BY <1>1, RequestOf, PlanRange, PlanCatalogueAssumption DEF Requests, RequestOk
<1>3. made' \in PlanIds /\ made <= made' /\ configured' \in 1..made'
  BY <1>1, PlanRange DEF PlanInv, PlanTypeOK
<1>4. DOMAIN plan' = DOMAIN plan \ {admin[a].plan} /\ plan' \in [DOMAIN plan' -> PlanRow]
  BY <1>1 DEF PlanInv, PlanTypeOK
<1>5. /\ DOMAIN plan' \subseteq 1..made' /\ builtIn' \in {0} \cup DOMAIN plan'
      /\ assigned' \subseteq DOMAIN plan'
  BY <1>1, <1>4 DEF PlanInv, PlanTypeOK
<1>. QED
  BY <1>1, <1>2, <1>3, <1>4, <1>5, SyncsKeeps

LEMMA AssignKeeps ==
    ASSUME PlanInv, NEW a \in Admins, AssignPlan(a)
    PROVE  PlanInv'
<1>1. /\ admin[a].plan \in DOMAIN plan /\ assigned' = assigned \cup {admin[a].plan}
      /\ Ends(a) /\ UNCHANGED <<made, plan, builtIn, configured>>
  BY DEF AssignPlan
<1>2. admin[a].plan \in 0..made'
  BY <1>1, RequestOf, PlanRange, PlanCatalogueAssumption DEF Requests, RequestOk
<1>3. made' \in PlanIds /\ made <= made'
  BY <1>1, PlanRange DEF PlanInv, PlanTypeOK
<1>4. /\ DOMAIN plan' \subseteq 1..made' /\ plan' \in [DOMAIN plan' -> PlanRow]
      /\ builtIn' \in {0} \cup DOMAIN plan' /\ configured' \in 1..made'
      /\ assigned' \subseteq DOMAIN plan'
  BY <1>1 DEF PlanInv, PlanTypeOK
<1>. QED
  BY <1>1, <1>2, <1>3, <1>4, SyncsKeeps

\* What ensure_default_plan leaves.
LEMMA EnsureType ==
    ASSUME PlanInv, NEW a \in Admins, EnsureDefaultPlan(a)
    PROVE  /\ made' \in PlanIds /\ made <= made' /\ admin[a].plan \in 0..made'
           /\ DOMAIN plan' \subseteq 1..made' /\ plan' \in [DOMAIN plan' -> PlanRow]
           /\ builtIn' \in {0} \cup DOMAIN plan'
           /\ configured \in 1..made' /\ assigned \subseteq DOMAIN plan'
           /\ EnsuredPlan(a) \in DOMAIN plan'
<1>1. CASE admin[a].plan = 0
  <2>1. /\ made < LastPlan /\ made' = made + 1 /\ builtIn' = made'
        /\ plan' = WithPlan(ClearedFor(a), made', DefaultRow)
    BY <1>1 DEF EnsureDefaultPlan
  <2>2. made' \in PlanIds /\ made <= made' /\ 0 \in 0..made' /\ 1..made \subseteq 1..made'
    BY <2>1, PlanRange, PlanCatalogueAssumption DEF PlanIds
  <2>3. DOMAIN plan' = DOMAIN plan \cup {made'} /\ plan' \in [DOMAIN plan' -> PlanRow]
    <3>. DEFINE cleared == ClearedFor(a)
    <3>1. cleared \in [DOMAIN plan -> PlanRow] /\ plan' = WithPlan(cleared, made', DefaultRow)
      BY <2>1, ClearedType
    <3>. HIDE DEF cleared
    <3>2. /\ DOMAIN WithPlan(cleared, made', DefaultRow) = DOMAIN plan \cup {made'}
          /\ WithPlan(cleared, made', DefaultRow) \in [DOMAIN plan \cup {made'} -> PlanRow]
      BY <3>1, DefaultRowType, WithPlanType
    <3>. QED
      BY <3>1, <3>2
  <2>4. DOMAIN plan \subseteq 1..made /\ made' \in 1..made'
    BY <2>1, PlanRange DEF PlanInv, PlanTypeOK
  <2>5. EnsuredPlan(a) = made'
    BY <1>1 DEF EnsuredPlan
  <2>. QED
    BY <1>1, <2>1, <2>2, <2>3, <2>4, <2>5 DEF PlanInv, PlanTypeOK
<1>2. CASE admin[a].plan # 0
  <2>1. admin[a].plan \in DOMAIN plan /\ plan' = FlushedPlans(a) /\ UNCHANGED <<made, builtIn>>
        /\ EnsuredPlan(a) = admin[a].plan
    BY <1>2 DEF EnsureDefaultPlan, EnsuredPlan
  <2>2. configured \in 1..made' /\ assigned \subseteq DOMAIN plan
    BY <2>1 DEF PlanInv, PlanTypeOK
  <2>. QED
    BY <2>1, <2>2, FlushKeeps
<1>. QED
  BY <1>1, <1>2

LEMMA RepairKeeps ==
    ASSUME PlanInv, NEW a \in Admins, RepairDefault(a)
    PROVE  PlanInv'
<1>1. /\ EnsureDefaultPlan(a) /\ assigned' = assigned \cup {EnsuredPlan(a)}
      /\ Ends(a) /\ UNCHANGED configured
  BY DEF RepairDefault
<1>2. configured' \in 1..made' /\ assigned' \subseteq DOMAIN plan'
  BY <1>1, EnsureType
<1>. QED
  BY <1>1, <1>2, EnsureType, SyncsKeeps

LEMMA BootstrapKeeps ==
    ASSUME PlanInv, NEW a \in Admins, BootstrapDefault(a)
    PROVE  PlanInv'
<1>1. /\ EnsureDefaultPlan(a) /\ configured' = EnsuredPlan(a)
      /\ assigned' \in {assigned, assigned \cup {EnsuredPlan(a)}} /\ Ends(a)
  BY DEF BootstrapDefault
<1>2. configured' \in 1..made' /\ assigned' \subseteq DOMAIN plan'
  BY <1>1, EnsureType
<1>. QED
  BY <1>1, <1>2, EnsureType, SyncsKeeps

LEMMA InterruptedKeeps ==
    ASSUME PlanInv, NEW a \in Admins, PlanRequestInterrupted(a)
    PROVE  PlanInv'
<1>1. Ends(a) /\ UNCHANGED <<made, plan, builtIn, configured, assigned>>
  BY DEF PlanRequestInterrupted
<1>2. made' \in PlanIds /\ made <= made' /\ 0 \in 0..made'
  BY <1>1, PlanRange DEF PlanInv, PlanTypeOK
<1>3. /\ DOMAIN plan' \subseteq 1..made' /\ plan' \in [DOMAIN plan' -> PlanRow]
      /\ builtIn' \in {0} \cup DOMAIN plan' /\ configured' \in 1..made'
      /\ assigned' \subseteq DOMAIN plan'
  BY <1>1 DEF PlanInv, PlanTypeOK
<1>. QED
  BY <1>1, <1>2, <1>3, SyncsKeeps

\* What every step keeps.
LEMMA PlansNextKeeps == PlanInv /\ [PlansNext]_planVars => PlanInv'
<1>. SUFFICES ASSUME PlanInv, [PlansNext]_planVars PROVE PlanInv'
  OBVIOUS
<1>1. CASE UNCHANGED planVars
  BY <1>1 DEF planVars, PlanInv, PlanTypeOK, RequestOk
<1>2. ASSUME NEW a \in Admins, NEW wish \in Revisions, CreatePlan(a, wish) PROVE PlanInv'
  BY <1>2, CreateKeeps
<1>3. ASSUME NEW a \in Admins, NEW p \in DOMAIN plan,
             \/ \E new \in Revisions : UpdatePlan(a, p, new)
             \/ SetDefault(a, p) \/ UpdateSettings(a, p) \/ DeletePlan(a, p) \/ ChoosePlan(a, p)
      PROVE  PlanInv'
  <2>1. 0 \in 0..LastPlan /\ configured \in 0..LastPlan /\ p \in 1..made
    BY PlanRange, PlanCatalogueAssumption DEF PlanInv, PlanTypeOK
  <2>2. CASE \E new \in Revisions : UpdatePlan(a, p, new)
    BY <2>2, UpdateKeeps
  <2>3. CASE SetDefault(a, p)
    BY <2>1, <2>3, MakeDefaultKeeps DEF SetDefault
  <2>4. CASE UpdateSettings(a, p)
    BY <2>1, <2>4, MakeDefaultKeeps DEF UpdateSettings
  <2>5. CASE DeletePlan(a, p)
    BY <2>5, DeleteKeeps
  <2>6. CASE ChoosePlan(a, p)
    BY <2>1, <2>6, AssignsKeeps DEF ChoosePlan
  <2>. QED
    BY <1>3, <2>2, <2>3, <2>4, <2>5, <2>6
<1>4. ASSUME NEW a \in Admins, ResolveDefault(a) PROVE PlanInv'
  <2>1. CASE Begins(a, About("assign", configured))
    <3>1. configured \in 1..made
      BY DEF PlanInv, PlanTypeOK
    <3>. QED
      BY <2>1, <3>1, AssignsKeeps
  <2>2. CASE EnsuresDefault(a, "repair")
    BY <2>2, EnsuresKeeps
  <2>. QED
    BY <1>4, <2>1, <2>2 DEF ResolveDefault
<1>5. ASSUME NEW a \in Admins, StartReplica(a) PROVE PlanInv'
  BY <1>5, EnsuresKeeps DEF StartReplica
<1>6. ASSUME NEW a \in Admins,
             \/ InsertPlan(a) \/ SaveUpdate(a) \/ SyncDefaultSetting(a) \/ SaveDefault(a)
             \/ RemovePlan(a) \/ AssignPlan(a) \/ RepairDefault(a) \/ BootstrapDefault(a)
             \/ PlanRequestInterrupted(a)
      PROVE  PlanInv'
  BY <1>6, InsertKeeps, SaveUpdateKeeps, SyncKeeps, SaveDefaultKeeps, RemoveKeeps, AssignKeeps,
     RepairKeeps, BootstrapKeeps, InterruptedKeeps
<1>. QED
  BY <1>1, <1>2, <1>3, <1>4, <1>5, <1>6 DEF PlansNext

LEMMA PlansInitOk == PlansInit => PlanInv
<1>. SUFFICES ASSUME PlansInit PROVE PlanInv
  OBVIOUS
<1>1. /\ made = 1 /\ plan = [p \in {1} |-> DefaultRow] /\ builtIn = 1 /\ configured = 1
      /\ assigned = {} /\ admin = [a \in Admins |-> IdleAdmin]
  BY DEF PlansInit
<1>2. 1 \in PlanIds /\ 1 \in 1..made /\ DOMAIN plan = {1} /\ DOMAIN plan \subseteq 1..made
  BY <1>1, PlanCatalogueAssumption DEF PlanIds
<1>3. plan \in [DOMAIN plan -> PlanRow] /\ admin \in [Admins -> Requests]
  BY <1>1, <1>2, DefaultRowType
<1>4. PlanTypeOK
  BY <1>1, <1>2, <1>3 DEF PlanTypeOK, Requests
<1>5. RequestOk(IdleAdmin, made)
  BY <1>1 DEF RequestOk, IdleAdmin, About, Request
<1>6. \A a \in Admins : admin[a] = IdleAdmin
  BY <1>1
<1>. QED
  BY <1>4, <1>5, <1>6 DEF PlanInv

\* The rows, the setting and every session's request have the values the code
\* can give them (subscription_service.py).
THEOREM PlansTypeCorrect == PlansSpec => []PlanTypeOK
<1>1. PlanInv => PlanTypeOK
  BY DEF PlanInv
<1>. QED
  BY <1>1, PlansInitOk, PlansNextKeeps, PTL DEF PlansSpec

-----------------------------------------------------------------------------
\* The plans that are lost as defaults.

\* A request that is not stale writes what it was to write.
LEMMA FreshFlush ==
    ASSUME PlanInv, NEW a \in Admins, plan' = FlushedPlans(a), ~StaleAdmin(a),
           admin[a].plan # 0
    PROVE  /\ admin[a].plan \in DOMAIN plan /\ plan[admin[a].plan] = admin[a].seen
           /\ DOMAIN plan' = DOMAIN plan /\ plan'[admin[a].plan] = admin[a].new
           /\ \A q \in DOMAIN plan : q # admin[a].plan => plan'[q] = ClearedFor(a)[q]
<1>. DEFINE p == admin[a].plan
            seen == admin[a].seen
            new == admin[a].new
<1>1. p \in DOMAIN plan /\ plan[p] = seen
  BY DEF StaleAdmin
<1>2. seen \in PlanRow /\ new \in PlanRow
  BY RequestOf DEF Requests
<1>3. FlushedRow(seen, seen, new) = new
  <2>. HIDE DEF seen, new
  <2>1. FlushedRow(seen, seen, new) =
          [type |-> new.type, active |-> new.active, default |-> new.default]
    BY <1>2 DEF FlushedRow, Column, PlanRow
  <2>2. new = [type |-> new.type, active |-> new.active, default |-> new.default]
    BY <1>2 DEF PlanRow
  <2>. QED
    BY <2>1, <2>2
<1>4. plan' = [q \in DOMAIN plan |-> IF q = p THEN FlushedRow(plan[p], seen, new)
                                     ELSE ClearedFor(a)[q]]
  BY <1>1 DEF FlushedPlans
<1>. HIDE DEF p, seen, new
<1>5. plan'[p] = new
  BY <1>1, <1>3, <1>4
<1>6. DOMAIN plan' = DOMAIN plan /\ \A q \in DOMAIN plan : q # p => plan'[q] = ClearedFor(a)[q]
  BY <1>4
<1>. QED
  BY <1>1, <1>5, <1>6 DEF p, seen, new

\* One that makes its plan the default and takes the flag from the others
\* leaves that plan the only default.
LEMMA FreshDefault ==
    ASSUME PlanInv, NEW a \in Admins, plan' = FlushedPlans(a), ~StaleAdmin(a),
           admin[a].plan # 0,
           admin[a].at \in {"updateDefault", "default", "repair", "bootstrap"}
    PROVE  DefaultPlans' = {admin[a].plan}
<1>. DEFINE p == admin[a].plan
<1>1. p \in DOMAIN plan' /\ plan'[p] = DefaultRow
  BY FreshFlush, RequestOf DEF RequestOk
<1>2. ASSUME NEW q \in DOMAIN plan', q # p PROVE plan'[q] # DefaultRow
  <2>1. q \in DOMAIN plan /\ plan'[q] = Cleared(plan, p)[q]
    BY <1>2, FreshFlush DEF ClearedFor, Clears
  <2>2. Cleared(plan, p)[q] = IF plan[q].type = "CANDIDATE"
                              THEN [plan[q] EXCEPT !.default = FALSE] ELSE plan[q]
    BY <1>2, <2>1 DEF Cleared
  <2>3. plan[q] \in PlanRow
    BY <2>1, PlanThere
  <2>4. plan[q].type = "CANDIDATE" => plan'[q].default = FALSE
    BY <2>1, <2>2, <2>3 DEF PlanRow
  <2>5. plan[q].type # "CANDIDATE" => plan'[q].type # "CANDIDATE"
    BY <2>1, <2>2
  <2>. QED
    BY <2>4, <2>5 DEF DefaultRow
<1>. QED
  BY <1>1, <1>2 DEF DefaultPlans, DefaultsOf

\* An update or a creation that takes no flags leaves the defaults alone, but
\* for its own plan.
LEMMA FreshUpdate ==
    ASSUME PlanInv, NEW a \in Admins, SaveUpdate(a), ~StaleAdmin(a), ~MovesType(a)
    PROVE  \/ DefaultPlans' = DefaultPlans /\ admin[a].new # DefaultRow
           \/ admin[a].plan \in DefaultPlans' /\ admin[a].new = DefaultRow
<1>. DEFINE p == admin[a].plan
            new == admin[a].new
<1>1. plan' = FlushedPlans(a) /\ admin[a].at \in {"update", "updateDefault"}
  BY DEF SaveUpdate
<1>2. p # 0 /\ (admin[a].at = "updateDefault" => new = DefaultRow)
      /\ (admin[a].at = "update" /\ admin[a].seen = DefaultRow =>
            new.type # "CANDIDATE" \/ new = DefaultRow)
  BY <1>1, RequestOf DEF RequestOk
<1>3. p \in DOMAIN plan /\ plan[p] = admin[a].seen /\ DOMAIN plan' = DOMAIN plan /\ plan'[p] = new
      /\ \A q \in DOMAIN plan : q # p => plan'[q] = ClearedFor(a)[q]
  BY <1>1, <1>2, FreshFlush
<1>4. CASE new = DefaultRow
  BY <1>3, <1>4 DEF DefaultPlans, DefaultsOf
<1>5. CASE new # DefaultRow
  <2>1. admin[a].at = "update" /\ ~Clears(a)
    BY <1>1, <1>2, <1>5 DEF Clears
  <2>2. \A q \in DOMAIN plan : q # p => plan'[q] = plan[q]
    BY <1>3, <2>1 DEF ClearedFor
  <2>3. plan[p] # DefaultRow
    BY <1>2, <1>3, <1>5, <2>1 DEF MovesType, DefaultRow
  <2>4. DefaultPlans' = DefaultPlans
    BY <1>3, <1>5, <2>2, <2>3 DEF DefaultPlans, DefaultsOf
  <2>. QED
    BY <1>5, <2>4
<1>. QED
  BY <1>4, <1>5

LEMMA FreshInsert ==
    ASSUME PlanInv, NEW a \in Admins, InsertPlan(a)
    PROVE  \/ DefaultPlans' = DefaultPlans /\ admin[a].new # DefaultRow
           \/ made' \in DefaultPlans' /\ plan'[made'] = DefaultRow
<1>. DEFINE new == admin[a].new
<1>1. made' = made + 1 /\ plan' = WithPlan(ClearedFor(a), made', new) /\ admin[a].at = "create"
  BY DEF InsertPlan
<1>2. made' \notin DOMAIN plan
  BY <1>1, PlanRange DEF PlanInv, PlanTypeOK
<1>3. ClearedFor(a) \in [DOMAIN plan -> PlanRow]
  BY ClearedType
<1>4. DOMAIN plan' = DOMAIN plan \cup {made'} /\ plan'[made'] = new
      /\ \A q \in DOMAIN plan : plan'[q] = ClearedFor(a)[q]
  <2>. DEFINE rows == ClearedFor(a)
  <2>. HIDE DEF rows, new
  <2>1. rows \in [DOMAIN plan -> PlanRow] /\ plan' = WithPlan(rows, made', new)
    BY <1>1, <1>3 DEF rows
  <2>2. plan' = [q \in DOMAIN plan \cup {made'} |-> IF q = made' THEN new ELSE rows[q]]
    BY <2>1 DEF WithPlan
  <2>3. DOMAIN plan' = DOMAIN plan \cup {made'} /\ plan'[made'] = new
        /\ \A q \in DOMAIN plan : plan'[q] = rows[q]
    BY <1>2, <2>2
  <2>. QED
    BY <2>3 DEF rows
<1>5. CASE new = DefaultRow
  BY <1>4, <1>5 DEF DefaultPlans, DefaultsOf
<1>6. CASE new # DefaultRow
  <2>1. ~Clears(a)
    BY <1>1, <1>6, RequestOf DEF Clears, RequestOk
  <2>2. \A q \in DOMAIN plan : plan'[q] = plan[q]
    BY <1>4, <2>1 DEF ClearedFor
  <2>3. DefaultPlans' = DefaultPlans
    BY <1>2, <1>4, <1>6, <2>2 DEF DefaultPlans, DefaultsOf
  <2>. QED
    BY <1>6, <2>3
<1>. QED
  BY <1>5, <1>6

LEMMA FreshRemove ==
    ASSUME PlanInv, NEW a \in Admins, RemovePlan(a), ~StaleAdmin(a)
    PROVE  DefaultPlans' = DefaultPlans
<1>. DEFINE p == admin[a].plan
<1>1. admin[a].at = "delete" /\ plan' = [q \in DOMAIN plan \ {p} |-> plan[q]]
  BY DEF RemovePlan
<1>2. p # 0 /\ ~admin[a].seen.default
  BY <1>1, RequestOf DEF RequestOk
<1>3. plan[p] # DefaultRow
  <2>1. plan[p] = admin[a].seen
    BY <1>2 DEF StaleAdmin
  <2>. QED
    BY <1>2, <2>1 DEF DefaultRow
<1>. QED
  BY <1>1, <1>3 DEF DefaultPlans, DefaultsOf

\* A session whose request ends has moved.
LEMMA EndsMoves ==
    ASSUME PlanInv, NEW a \in Admins, Ends(a), admin[a].at # "idle"
    PROVE  admin'[a] # admin[a]
<1>1. admin'[a] = IdleAdmin
  BY DEF Ends, PlanInv, PlanTypeOK
<1>2. IdleAdmin.at = "idle"
  BY DEF IdleAdmin, About, Request
<1>. QED
  BY <1>1, <1>2

LEMMA SyncsMoves ==
    ASSUME PlanInv, NEW a \in Admins, NEW p, SyncsNext(a, p), admin[a].at \notin {"idle", "sync"}
    PROVE  /\ admin'[a] # admin[a]
           /\ p \in DOMAIN plan' /\ plan'[p] = DefaultRow => admin'[a].at = "sync"
<1>. DEFINE q == Request("sync", p, plan'[p], DefaultRow, 0)
<1>1. q.at = "sync"
  BY DEF Request
<1>2. CASE Ends(a) /\ ~(p \in DOMAIN plan' /\ plan'[p].default /\ plan'[p].type = "CANDIDATE")
  BY <1>2, EndsMoves DEF DefaultRow
<1>3. CASE admin' = [admin EXCEPT ![a] = q]
  <2>. HIDE DEF q
  <2>1. admin'[a] = q
    BY <1>3 DEF PlanInv, PlanTypeOK
  <2>. QED
    BY <1>1, <2>1
<1>. QED
  BY <1>2, <1>3 DEF SyncsNext

\* What the last steps of requests do to the defaults, unless they are stale
\* or move a plan to another type.
LEMMA FreshSteps ==
    ASSUME PlanInv, NEW a \in Admins, ~StaleAdmin(a), ~MovesType(a),
           \/ InsertPlan(a) \/ SaveUpdate(a) \/ SyncDefaultSetting(a) \/ SaveDefault(a)
           \/ RemovePlan(a) \/ AssignPlan(a) \/ RepairDefault(a) \/ BootstrapDefault(a)
           \/ PlanRequestInterrupted(a)
    PROVE  /\ admin'[a] # admin[a]
           /\ DefaultPlans # {} => DefaultPlans' # {}
           /\ DefaultPlans = {configured} =>
                \/ DefaultPlans' = {configured'}
                \/ admin'[a].at = "sync" \/ ~admin[a].seen.active
<1>1. CASE InsertPlan(a)
  <2>1. SyncsNext(a, made') /\ admin[a].at = "create" /\ configured' = configured
    BY <1>1 DEF InsertPlan
  <2>2. made' \in DefaultPlans' => made' \in DOMAIN plan' /\ plan'[made'] = DefaultRow
    BY DEF DefaultPlans, DefaultsOf
  <2>. QED
    BY <1>1, <2>1, <2>2, FreshInsert, SyncsMoves
<1>2. CASE SaveUpdate(a)
  <2>1. SyncsNext(a, admin[a].plan) /\ admin[a].at \notin {"idle", "sync"}
        /\ configured' = configured
    BY <1>2 DEF SaveUpdate
  <2>2. admin[a].plan \in DefaultPlans' =>
          admin[a].plan \in DOMAIN plan' /\ plan'[admin[a].plan] = DefaultRow
    BY DEF DefaultPlans, DefaultsOf
  <2>. QED
    BY <1>2, <2>1, <2>2, FreshUpdate, SyncsMoves
<1>3. CASE SyncDefaultSetting(a)
  <2>. DEFINE p == admin[a].plan
  <2>1. Ends(a) /\ admin[a].at = "sync" /\ configured' = p /\ plan' = plan
    BY <1>3 DEF SyncDefaultSetting
  <2>2. p # 0 /\ admin[a].seen.type = "CANDIDATE" /\ admin[a].seen.default
    BY <2>1, RequestOf DEF RequestOk
  <2>3. p \in DOMAIN plan /\ plan[p] = admin[a].seen /\ admin[a].seen \in PlanRow
    BY <2>2, RequestOf DEF StaleAdmin, Requests
  <2>4. admin[a].seen.active => admin[a].seen = DefaultRow
    BY <2>2, <2>3 DEF PlanRow, DefaultRow
  <2>5. admin[a].seen.active => p \in DefaultPlans
    BY <2>3, <2>4 DEF DefaultPlans, DefaultsOf
  <2>6. DefaultPlans' = DefaultPlans
    BY <2>1 DEF DefaultPlans, DefaultsOf
  <2>. QED
    BY <2>1, <2>5, <2>6, EndsMoves
<1>4. CASE SaveDefault(a)
  <2>. DEFINE p == admin[a].plan
  <2>1. Ends(a) /\ admin[a].at = "default" /\ plan' = FlushedPlans(a)
        /\ configured' = IF admin[a].setting = p THEN configured ELSE p
    BY <1>4 DEF SaveDefault
  <2>2. p # 0 /\ admin[a].setting \in {0, configured}
    BY <2>1, RequestOf DEF RequestOk, StaleAdmin
  <2>3. DefaultPlans' = {p}
    BY <2>1, <2>2, FreshDefault
  <2>4. configured' = p
    BY <2>1, <2>2
  <2>. QED
    BY <2>1, <2>3, <2>4, EndsMoves
<1>5. CASE RemovePlan(a)
  <2>1. Ends(a) /\ admin[a].at = "delete" /\ configured' = configured
    BY <1>5 DEF RemovePlan
  <2>. QED
    BY <1>5, <2>1, FreshRemove, EndsMoves
<1>6. CASE AssignPlan(a) \/ PlanRequestInterrupted(a)
  <2>1. Ends(a) /\ admin[a].at # "idle" /\ configured' = configured /\ plan' = plan
    BY <1>6 DEF AssignPlan, PlanRequestInterrupted
  <2>2. DefaultPlans' = DefaultPlans
    BY <2>1 DEF DefaultPlans, DefaultsOf
  <2>. QED
    BY <2>1, <2>2, EndsMoves
<1>7. CASE RepairDefault(a)
  <2>1. Ends(a) /\ admin[a].at = "repair" /\ EnsureDefaultPlan(a)
    BY <1>7 DEF RepairDefault
  <2>2. DefaultPlans # {configured}
    BY <2>1 DEF StaleAdmin, SettingUsable, CandidatePlans, DefaultPlans, DefaultsOf, DefaultRow
  <2>3. DefaultPlans # {} => DefaultPlans' # {}
    BY <2>1, FreshDefault DEF EnsureDefaultPlan
  <2>. QED
    BY <2>1, <2>2, <2>3, EndsMoves
<1>8. CASE BootstrapDefault(a)
  <2>1. Ends(a) /\ admin[a].at = "bootstrap" /\ EnsureDefaultPlan(a) /\ configured' = EnsuredPlan(a)
    BY <1>8 DEF BootstrapDefault
  <2>2. DefaultPlans # {} => DefaultPlans' = {configured'}
    BY <2>1, FreshDefault DEF EnsureDefaultPlan, EnsuredPlan
  <2>. QED
    BY <2>1, <2>2, EndsMoves
<1>. QED
  BY <1>1, <1>2, <1>3, <1>4, <1>5, <1>6, <1>7, <1>8

\* The first steps of requests write nothing.
LEMMA FirstSteps ==
    ASSUME PlanInv, NEW a \in Admins,
           \/ \E wish \in Revisions : CreatePlan(a, wish)
           \/ \E p \in DOMAIN plan :
                 \/ \E new \in Revisions : UpdatePlan(a, p, new)
                 \/ SetDefault(a, p) \/ UpdateSettings(a, p) \/ DeletePlan(a, p)
                 \/ ChoosePlan(a, p)
           \/ ResolveDefault(a) \/ StartReplica(a)
    PROVE  DefaultPlans' = DefaultPlans /\ configured' = configured
<1>1. plan' = plan /\ configured' = configured
  BY DEF CreatePlan, UpdatePlan, SetDefault, UpdateSettings, MakeDefault, DeletePlan,
         ChoosePlan, ResolveDefault, StartReplica, EnsuresDefault, Begins
<1>. QED
  BY <1>1 DEF DefaultPlans, DefaultsOf

LEMMA PlansStep ==
    ASSUME PlanInv, [PlansNext]_planVars
    PROVE  \/ DefaultPlans' = DefaultPlans /\ configured' = configured
           \/ \E a \in Admins :
                /\ admin'[a] # admin[a]
                /\ \/ StaleAdmin(a) \/ MovesType(a)
                   \/ /\ DefaultPlans # {} => DefaultPlans' # {}
                      /\ DefaultPlans = {configured} =>
                           \/ DefaultPlans' = {configured'}
                           \/ admin'[a].at = "sync" \/ ~admin[a].seen.active
<1>1. CASE UNCHANGED planVars
  BY <1>1 DEF planVars, DefaultPlans, DefaultsOf
<1>2. CASE PlansNext
  <2>1. PICK a \in Admins :
          \/ \E wish \in Revisions : CreatePlan(a, wish)
          \/ InsertPlan(a)
          \/ \E p \in DOMAIN plan :
                \/ \E new \in Revisions : UpdatePlan(a, p, new)
                \/ SetDefault(a, p) \/ UpdateSettings(a, p) \/ DeletePlan(a, p)
                \/ ChoosePlan(a, p)
          \/ SaveUpdate(a) \/ SyncDefaultSetting(a) \/ SaveDefault(a) \/ RemovePlan(a)
          \/ ResolveDefault(a) \/ AssignPlan(a) \/ StartReplica(a) \/ RepairDefault(a)
          \/ BootstrapDefault(a) \/ PlanRequestInterrupted(a)
    BY <1>2 DEF PlansNext
  <2>. DEFINE Last == \/ InsertPlan(a) \/ SaveUpdate(a) \/ SyncDefaultSetting(a)
                      \/ SaveDefault(a) \/ RemovePlan(a) \/ AssignPlan(a) \/ RepairDefault(a)
                      \/ BootstrapDefault(a) \/ PlanRequestInterrupted(a)
  <2>2. CASE Last
    <3>1. admin'[a] # admin[a]
      <4>1. CASE InsertPlan(a)
        BY <4>1, SyncsMoves DEF InsertPlan
      <4>2. CASE SaveUpdate(a)
        BY <4>2, SyncsMoves DEF SaveUpdate
      <4>3. CASE ~InsertPlan(a) /\ ~SaveUpdate(a)
        <5>1. Ends(a) /\ admin[a].at # "idle"
          BY <2>2, <4>3 DEF SyncDefaultSetting, SaveDefault, RemovePlan, AssignPlan,
             RepairDefault, BootstrapDefault, PlanRequestInterrupted
        <5>. QED
          BY <5>1, EndsMoves
      <4>. QED
        BY <4>1, <4>2, <4>3
    <3>. QED
      BY <2>2, <3>1, FreshSteps
  <2>3. CASE ~Last
    BY <2>1, <2>3, FirstSteps
  <2>. QED
    BY <2>2, <2>3
<1>. QED
  BY <1>1, <1>2

\* The default plan is lost only to a request whose plan is not any more as it
\* was read, or that moves it to another type (subscription_service.py).
THEOREM DefaultPlanStays == PlansSpec => DefaultStaysUnlessStale
<1>1. PlanInv /\ [PlansNext]_planVars =>
        [DefaultPlans # {} /\ DefaultPlans' = {} =>
           \E a \in Admins : admin'[a] # admin[a] /\ (StaleAdmin(a) \/ MovesType(a))]_planVars
  BY PlansStep
<1>. QED
  BY <1>1, PlansInitOk, PlansNextKeeps, PTL DEF PlansSpec, DefaultStaysUnlessStale

\* The setting and the flag part only in a request of the kinds that
\* SettingFollowsUnlessStale names (subscription_service.py,
\* system_settings_service.py).
THEOREM SettingFollows == PlansSpec => SettingFollowsUnlessStale
<1>1. PlanInv /\ [PlansNext]_planVars =>
        [DefaultPlans = {configured} /\ (DefaultPlans # {configured})' =>
           \E a \in Admins :
               /\ admin'[a] # admin[a]
               /\ \/ StaleAdmin(a) \/ MovesType(a)
                  \/ admin'[a].at = "sync" \/ ~admin[a].seen.active]_planVars
  BY PlansStep
<1>. QED
  BY <1>1, PlansInitOk, PlansNextKeeps, PTL DEF PlansSpec, SettingFollowsUnlessStale

-----------------------------------------------------------------------------
\* The two parts side by side behave each as its own specification says: what
\* is proved of the rows, or of the catalogue, holds of both together.
THEOREM SideBySideIsBoth == SideBySideSpec => Spec /\ PlansSpec
<1>1. SideBySideInit => Init /\ PlansInit
  BY DEF SideBySideInit
<1>2. [SideBySideNext]_subscriptionVars => [Next]_vars /\ [PlansNext]_planVars
  <2>1. SideBySideNext => [Next]_vars /\ [PlansNext]_planVars
    <3>1. SideBySideNext => \/ Next /\ UNCHANGED planVars
                            \/ PlansNext /\ UNCHANGED vars
      BY Zenon DEF SideBySideNext
    <3>. QED
      BY <3>1
  <2>2. UNCHANGED subscriptionVars => UNCHANGED vars /\ UNCHANGED planVars
    BY DEF subscriptionVars
  <2>. QED
    BY <2>1, <2>2
<1>. QED
  BY <1>1, <1>2, PTL DEF SideBySideSpec, Spec, PlansSpec

=============================================================================
