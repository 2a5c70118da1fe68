----------------------------- MODULE Limits_proofs -----------------------------
(***************************************************************************)
(* The limits on how often something happens, for any number of sessions   *)
(* and processes and any limits.  Of CandidateInvitations: type            *)
(* correctness, the bound on how far the weekly limit is overrun, what one *)
(* session of the candidate makes sure of, and that no use is counted      *)
(* without an invitation.  Of AIGeneration: type correctness, what the     *)
(* hash of an insight tells, and the bound on how far the monthly limits   *)
(* are overrun.  Of JobAlertDigests: type correctness, and how often a     *)
(* digest is mailed.  Of RateLimiter: type correctness, and how many       *)
(* requests pass in any span as long as a window.                          *)
(***************************************************************************)
EXTENDS CandidateInvitations, AIGeneration, JobAlertDigests, RateLimiter,
        FunctionTheorems, FiniteSetTheorems, WellFoundedInduction, TLAPS

-----------------------------------------------------------------------------
\* Counting.

\* A part of a finite set is finite, and no larger.
LEMMA Smaller ==
    ASSUME NEW A, IsFiniteSet(A), NEW B, B \subseteq A
    PROVE  /\ IsFiniteSet(B)
           /\ Cardinality(A) \in Nat /\ Cardinality(B) \in Nat
           /\ Cardinality(B) <= Cardinality(A)
  BY FS_Subset, FS_CardinalityType

\* A new element makes a finite set larger by one.
LEMMA OneMore ==
    ASSUME NEW A, IsFiniteSet(A), NEW x, x \notin A
    PROVE  Cardinality(A \cup {x}) = Cardinality(A) + 1 /\ Cardinality(A) \in Nat
  BY FS_AddElement, FS_CardinalityType

\* A part of a finite set and one element is larger by one at most.
LEMMA WithinOneMore ==
    ASSUME NEW A, IsFiniteSet(A), NEW x, NEW B, B \subseteq A \cup {x}
    PROVE  /\ Cardinality(B) <= Cardinality(A) + 1
           /\ Cardinality(B) \in Nat /\ Cardinality(A) \in Nat
<1>. DEFINE C == A \cup {x}
<1>1. IsFiniteSet(C) /\ Cardinality(A) \in Nat
  BY FS_AddElement, FS_CardinalityType
<1>2. Cardinality(C) = Cardinality(A) \/ Cardinality(C) = Cardinality(A) + 1
  <2>1. CASE x \in A
    <3>1. C = A
      BY <2>1
    <3>. QED
      BY <3>1
  <2>2. CASE x \notin A
    BY <2>2, OneMore
  <2>. QED
    BY <2>1, <2>2
<1>3. Cardinality(B) <= Cardinality(C) /\ Cardinality(B) \in Nat
  BY <1>1, Smaller
<1>. QED
  BY <1>1, <1>2, <1>3

\* The numbers up to n are n.
LEMMA UpToFinite ==
    ASSUME NEW n \in Nat
    PROVE  IsFiniteSet(1..n) /\ Cardinality(1..n) = n
<1>1. 1 \in Int /\ n \in Int
  OBVIOUS
<1>2. IsFiniteSet(1..n) /\ Cardinality(1..n) = IF 1 > n THEN 0 ELSE n - 1 + 1
  BY <1>1, FS_Interval
<1>. QED
  BY <1>2

\* A sum over a finite set counts pairs of an element and a number up to the
\* element's value.
Units(f, s) == {u \in s \X Nat : u[2] \in 1..f[u[1]]}

\* A finite set has finitely many units.
LEMMA UnitsFinite ==
    ASSUME NEW S, IsFiniteSet(S), NEW f \in [S -> Nat]
    PROVE  IsFiniteSet(Units(f, S))
<1>. DEFINE column == [i \in S |-> {i} \X (1..f[i])]
            columns == {column[i] : i \in S}
<1>1. column \in Surjection(S, columns)
  BY DEF Surjection
<1>2. IsFiniteSet(columns)
  BY <1>1, FS_Surjection
<1>3. ASSUME NEW i \in S PROVE IsFiniteSet(column[i])
  <2>1. IsFiniteSet({i}) /\ IsFiniteSet(1..f[i])
    BY FS_Singleton, UpToFinite
  <2>. QED
    BY <2>1, FS_Product
<1>4. IsFiniteSet(UNION columns)
  BY <1>2, <1>3, FS_UNION
<1>5. Units(f, S) \subseteq UNION columns
  BY DEF Units
<1>. QED
  BY <1>4, <1>5, FS_Subset

\* An element more counts with its value.
LEMMA UnitsSplit ==
    ASSUME NEW S, IsFiniteSet(S), NEW f \in [S -> Nat], NEW x \in S
    PROVE  /\ Cardinality(Units(f, S)) = f[x] + Cardinality(Units(f, S \ {x}))
           /\ Cardinality(Units(f, S \ {x})) \in Nat
<1>. DEFINE A == Units(f, S \ {x})
            B == {x} \X (1..f[x])
<1>1. IsFiniteSet(Units(f, S)) /\ A \subseteq Units(f, S)
  BY UnitsFinite DEF Units
<1>2. IsFiniteSet(A) /\ Cardinality(A) \in Nat
  BY <1>1, FS_Subset, FS_CardinalityType
<1>3. IsFiniteSet(B) /\ Cardinality(B) = f[x]
  <2>1. /\ IsFiniteSet({x}) /\ Cardinality({x}) = 1
        /\ IsFiniteSet(1..f[x]) /\ Cardinality(1..f[x]) = f[x]
    BY FS_Singleton, UpToFinite
  <2>2. IsFiniteSet(B) /\ Cardinality(B) = Cardinality({x}) * Cardinality(1..f[x])
    BY <2>1, FS_Product
  <2>. QED
    BY <2>1, <2>2
<1>4. Units(f, S) = A \cup B /\ A \cap B = {}
  BY DEF Units
<1>5. Cardinality(A \cup B) = Cardinality(A) + Cardinality(B) - Cardinality(A \cap B)
  BY <1>2, <1>3, FS_Union
<1>6. Cardinality(A \cap B) = 0
  BY <1>4, FS_EmptySet
<1>. HIDE DEF A, B
<1>7. Cardinality(A \cup B) = f[x] + Cardinality(A)
  BY <1>2, <1>3, <1>5, <1>6
<1>8. Cardinality(Units(f, S)) = f[x] + Cardinality(A)
  BY <1>4, <1>7
<1>. QED
  BY <1>2, <1>8 DEF A

\* The sum of the values is the number of units, by induction on the set.
LEMMA SumIsCount ==
    ASSUME NEW S, IsFiniteSet(S), NEW f \in [S -> Nat]
    PROVE  SumFunctionOnSet(f, S) = Cardinality(Units(f, S))
<1>. DEFINE first(s) == CHOOSE x \in s : TRUE
            Sums(g) == g = [s \in SUBSET S |->
                              IF s = {} THEN 0 ELSE f[first(s)] + g[s \ {first(s)}]]
            iter == CHOOSE g : Sums(g)
            count == [s \in SUBSET S |-> Cardinality(Units(f, s))]
            wrong == {s \in SUBSET S : iter[s] # count[s]}
<1>1. SumFunctionOnSet(f, S) = iter[S]
  BY DEF SumFunctionOnSet, FoldFunctionOnSet, MapThenFoldSet
<1>2. ASSUME NEW s \in SUBSET S, s # {}
      PROVE  /\ first(s) \in s /\ s \ {first(s)} \in SUBSET S
             /\ count[s] = f[first(s)] + count[s \ {first(s)}]
  <2>1. first(s) \in s
    BY <1>2
  <2>. HIDE DEF first
  <2>2. IsFiniteSet(s) /\ s \ {first(s)} \in SUBSET S
    BY FS_Subset
  <2>3. [i \in s |-> f[i]] \in [s -> Nat]
    BY <1>2
  <2>4. Units(f, s) = Units([i \in s |-> f[i]], s)
        /\ Units(f, s \ {first(s)}) = Units([i \in s |-> f[i]], s \ {first(s)})
    BY DEF Units
  <2>5. Cardinality(Units(f, s)) = f[first(s)] + Cardinality(Units(f, s \ {first(s)}))
    BY <2>1, <2>2, <2>3, <2>4, UnitsSplit
  <2>. QED
    BY <2>1, <2>2, <2>5
<1>3. count[{}] = 0
  <2>1. Units(f, {}) = {}
    BY DEF Units
  <2>. QED
    BY <2>1, FS_EmptySet
<1>4. Sums(count)
  <2>. DEFINE body == [s \in SUBSET S |->
                         IF s = {} THEN 0 ELSE f[first(s)] + count[s \ {first(s)}]]
  <2>. SUFFICES ASSUME NEW s \in SUBSET S PROVE count[s] = body[s]
    OBVIOUS
  <2>. HIDE DEF first, count
  <2>. QED
    BY <1>2, <1>3
<1>5. Sums(iter)
  <2>. HIDE DEF Sums, count
  <2>. QED
    BY <1>4
<1>6. wrong = {}
  <2>. SUFFICES ASSUME wrong # {} PROVE FALSE
    OBVIOUS
  <2>1. wrong \subseteq FiniteSubsetsOf(S)
    BY FS_Subset DEF FiniteSubsetsOf
  <2>. HIDE DEF wrong
  <2>2. PICK s \in wrong : \A t \in wrong : ~ (<<t, s>> \in StrictSubsetOrdering(S))
    BY <2>1, FS_StrictSubsetOrderingWellFounded, WFMin, Zenon
  <2>3. s \in SUBSET S /\ iter[s] # count[s]
    BY DEF wrong
  <2>. HIDE DEF iter, count
  <2>4. s # {}
    BY <1>3, <1>5, <2>3
  <2>. DEFINE t == s \ {first(s)}
  <2>5. first(s) \in s /\ t \in SUBSET S /\ count[s] = f[first(s)] + count[t]
    BY <1>2, <2>3, <2>4
  <2>. HIDE DEF first
  <2>6. iter[s] = f[first(s)] + iter[t]
    BY <1>5, <2>3, <2>4
  <2>7. <<t, s>> \in StrictSubsetOrdering(S)
    BY <2>3, <2>5 DEF StrictSubsetOrdering
  <2>8. iter[t] = count[t]
    BY <2>2, <2>5, <2>7 DEF wrong
  <2>. QED
    BY <2>3, <2>5, <2>6, <2>8
<1>7. iter[S] = count[S]
  BY <1>6
<1>. QED
  BY <1>1, <1>7

\* Adding one to a value adds one to the sum.
LEMMA SumGrows ==
    ASSUME NEW S, IsFiniteSet(S), NEW f \in [S -> Nat], NEW x \in S
    PROVE  /\ SumFunctionOnSet([f EXCEPT ![x] = @ + 1], S) = SumFunctionOnSet(f, S) + 1
           /\ SumFunctionOnSet(f, S) \in Nat
<1>. DEFINE g == [f EXCEPT ![x] = @ + 1]
<1>1. g \in [S -> Nat] /\ f[x] \in Nat
  OBVIOUS
<1>2. Units(g, S) = Units(f, S) \cup {<<x, f[x] + 1>>} /\ <<x, f[x] + 1>> \notin Units(f, S)
  <2>1. ASSUME NEW u \in S \X Nat
        PROVE  u \in Units(g, S) <=> u \in Units(f, S) \/ u = <<x, f[x] + 1>>
    <3>1. CASE u[1] = x
      <4>1. g[x] = f[x] + 1 /\ u = <<x, u[2]>> /\ u[2] \in Nat
        BY <3>1
      <4>. HIDE DEF g
      <4>2. u[2] \in 1..g[x] <=> u[2] \in 1..f[x] \/ u[2] = f[x] + 1
        BY <1>1, <4>1
      <4>. QED
        BY <3>1, <4>1, <4>2 DEF Units
    <3>2. CASE u[1] # x
      <4>1. g[u[1]] = f[u[1]]
        BY <3>2
      <4>. QED
        BY <3>2, <4>1 DEF Units
    <3>. QED
      BY <3>1, <3>2
  <2>2. <<x, f[x] + 1>> \in S \X Nat /\ <<x, f[x] + 1>> \notin Units(f, S)
    BY <1>1 DEF Units
  <2>3. Units(g, S) \subseteq S \X Nat /\ Units(f, S) \subseteq S \X Nat
    BY DEF Units
  <2>. HIDE DEF g
  <2>. QED
    BY <2>1, <2>2, <2>3
<1>3. SumFunctionOnSet(g, S) = Cardinality(Units(g, S)) /\ SumFunctionOnSet(f, S) = Cardinality(Units(f, S))
  BY <1>1, SumIsCount
<1>4. IsFiniteSet(Units(f, S)) /\ Cardinality(Units(f, S)) \in Nat
  BY UnitsFinite, FS_CardinalityType
<1>. HIDE DEF g
<1>5. Cardinality(Units(g, S)) = Cardinality(Units(f, S)) + 1
  BY <1>2, <1>4, FS_AddElement
<1>. QED
  BY <1>3, <1>4, <1>5 DEF g

\* What finitely many owners share, each having M at most, is M times as many.
LEMMA UnionBound ==
    ASSUME NEW Ws, IsFiniteSet(Ws), NEW M \in Nat, NEW R, IsFiniteSet(R), NEW by \in [R -> Ws],
           \A w \in Ws : Cardinality({n \in R : by[n] = w}) <= M
    PROVE  Cardinality(R) <= Cardinality(Ws) * M
<1>. DEFINE Of(w) == {n \in R : by[n] = w}
            place == [w \in Ws |-> CHOOSE g : g \in Injection(Of(w), 1..M)]
            slot == [n \in R |-> <<by[n], place[by[n]][n]>>]
<1>1. ASSUME NEW w \in Ws PROVE place[w] \in Injection(Of(w), 1..M)
  <2>1. IsFiniteSet(Of(w)) /\ Cardinality(Of(w)) \in Nat /\ Cardinality(Of(w)) <= M
    BY FS_Subset, FS_CardinalityType
  <2>2. ExistsBijection(Of(w), 1..Cardinality(Of(w)))
    BY <2>1, FS_CardinalityType, Fun_ExistsBijSymmetric
  <2>. HIDE DEF Of
  <2>3. PICK g \in Bijection(Of(w), 1..Cardinality(Of(w))) : TRUE
    BY <2>2 DEF ExistsBijection
  <2>4. \A m \in 1..Cardinality(Of(w)) : m \in 1..M
    BY <2>1
  <2>5. g \in Injection(Of(w), 1..M)
    BY <2>3, <2>4 DEF Bijection, Injection
  <2>. QED
    BY <2>5
<1>. HIDE DEF place
<1>2. ASSUME NEW n \in R
      PROVE  /\ n \in Of(by[n]) /\ by[n] \in Ws
             /\ place[by[n]] \in [Of(by[n]) -> 1..M]
             /\ slot[n] \in Ws \X (1..M)
  BY <1>1 DEF Injection
<1>3. ASSUME NEW n \in R, NEW m \in R, slot[n] = slot[m] PROVE n = m
  <2>1. by[n] = by[m] /\ place[by[n]][n] = place[by[n]][m]
    BY <1>3
  <2>2. n \in Of(by[n]) /\ m \in Of(by[n]) /\ by[n] \in Ws
    BY <1>2, <2>1
  <2>. HIDE DEF Of, slot
  <2>3. ASSUME NEW g, NEW A, NEW B, g \in Injection(A, B), n \in A, m \in A, g[n] = g[m]
        PROVE  n = m
    BY <2>3 DEF Injection, IsInjective
  <2>. QED
    BY <1>1, <2>1, <2>2, <2>3
<1>4. slot \in Injection(R, Ws \X (1..M))
  <2>1. slot \in [R -> Ws \X (1..M)]
    BY <1>2
  <2>. HIDE DEF slot
  <2>. QED
    BY <1>3, <2>1 DEF Injection, IsInjective
<1>5. /\ IsFiniteSet(1..M) /\ Cardinality(1..M) = M
  BY FS_Interval
<1>6. IsFiniteSet(Ws \X (1..M)) /\ Cardinality(Ws \X (1..M)) = Cardinality(Ws) * M
  BY <1>5, FS_Product
<1>7. Cardinality(R) <= Cardinality(Ws \X (1..M))
  BY <1>4, <1>6, FS_Injection
<1>. QED
  BY <1>6, <1>7

-----------------------------------------------------------------------------
\* Type correctness: a session that answers has an invitation and an answer.

Answering ==
    \A s \in Sessions :
        pc[s] \in {"answer", "notify"} =>
            task[s].invitation \in Invitations /\ task[s].answer \in Answers

Typed == InvitationsTypeOK /\ Answering

\* Ending a request leaves nothing to answer.
LEMMA FinishTyped ==
    ASSUME Typed, NEW s \in Sessions, Finish(s)
    PROVE  /\ pc' \in [Sessions -> Steps]
           /\ task' \in [Sessions -> Task]
           /\ Answering'
  BY DEF Typed, InvitationsTypeOK, Answering, Finish, Goto, Steps, NoTask, Task, Statuses

\* Every step of an employer's request keeps the state well typed.
LEMMA SendTyped ==
    ASSUME Typed, NEW s \in Senders, Send(s)
    PROVE  Typed'
<1>. s \in Sessions
  BY DEF Sessions
<1>1. ASSUME NEW c \in Pairs, SendInvitation(s, c) PROVE Typed'
  <2>1. task' \in [Sessions -> Task]
    BY <1>1 DEF SendInvitation, Typed, InvitationsTypeOK, Task
  <2>2. pc' \in [Sessions -> Steps]
    BY <1>1 DEF SendInvitation, Typed, InvitationsTypeOK, Goto, Steps
  <2>3. Answering'
    BY <1>1 DEF SendInvitation, Typed, InvitationsTypeOK, Answering, Goto, Task
  <2>. QED
    BY <1>1, <2>1, <2>2, <2>3 DEF SendInvitation, Typed, InvitationsTypeOK
<1>2. CASE CheckInvitable(s)
  <2>1. CASE Finish(s)
    BY <1>2, <2>1, FinishTyped DEF CheckInvitable, Typed, InvitationsTypeOK
  <2>2. CASE Goto(s, "insert") /\ UNCHANGED task
    BY <1>2, <2>2 DEF CheckInvitable, Typed, InvitationsTypeOK, Answering, Goto, Steps
  <2>. QED
    BY <1>2, <2>1, <2>2 DEF CheckInvitable
<1>3. CASE CreateInvitation(s)
  <2>1. [pair |-> task[s].pair, status |-> "PENDING", responded |-> FALSE, week |-> week] \in Invitation
    BY DEF Typed, InvitationsTypeOK, Task, Invitation, Statuses, Active
  <2>2. invitation' \in [Invitations -> Invitation]
    BY <1>3, <2>1 DEF CreateInvitation, Typed, InvitationsTypeOK
  <2>. QED
    BY <1>3, <2>2 DEF CreateInvitation, Typed, InvitationsTypeOK, Answering, Goto, Steps
<1>4. CASE ConsumeLimit(s)
  <2>1. CASE Finish(s)
    BY <1>4, <2>1, FinishTyped DEF ConsumeLimit, Typed, InvitationsTypeOK
  <2>2. CASE Goto(s, "increment") /\ UNCHANGED task
    BY <1>4, <2>2 DEF ConsumeLimit, Typed, InvitationsTypeOK, Answering, Goto, Steps
  <2>. QED
    BY <1>4, <2>1, <2>2 DEF ConsumeLimit
<1>5. CASE IncrementUsage(s)
  <2>1. used' \in [Weeks -> Nat]
    BY <1>5 DEF IncrementUsage, Typed, InvitationsTypeOK
  <2>. QED
    BY <1>5, <2>1, FinishTyped DEF IncrementUsage, Typed, InvitationsTypeOK
<1>. QED
  BY <1>1, <1>2, <1>3, <1>4, <1>5 DEF Send

\* Every step of a candidate's request keeps the state well typed.
LEMMA RespondTyped ==
    ASSUME Typed, NEW s \in Readers, Respond(s)
    PROVE  Typed'
<1>. s \in Sessions
  BY DEF Sessions
<1>. USE DEF Typed, InvitationsTypeOK
<1>1. ASSUME NEW i \in Invitations, GetInvitationDetails(s, i) PROVE Typed'
  <2>1. task' \in [Sessions -> Task]
    <3>1. invitation[i].status \in Statuses /\ task[s] \in Task
      BY DEF Invitation
    <3>2. [task[s] EXCEPT !.invitation = i, !.read = invitation[i].status] \in Task
      BY <3>1 DEF Task
    <3>. QED
      BY <1>1, <3>2 DEF GetInvitationDetails
  <2>2. pc' \in [Sessions -> Steps] /\ Answering'
    BY <1>1 DEF GetInvitationDetails, Answering, Goto, Steps, Task
  <2>. QED
    BY <1>1, <2>1, <2>2 DEF GetInvitationDetails
<1>2. ASSUME NEW i \in Invitations, NEW a \in Answers, RespondInvitation(s, i, a) PROVE Typed'
  <2>1. task' \in [Sessions -> Task]
    <3>1. invitation[i].status \in Statuses /\ task[s] \in Task
      BY DEF Invitation
    <3>2. [task[s] EXCEPT !.invitation = i, !.read = invitation[i].status, !.answer = a] \in Task
      BY <3>1 DEF Task
    <3>. QED
      BY <1>2, <3>2 DEF RespondInvitation
  <2>2. pc' \in [Sessions -> Steps] /\ Answering'
    BY <1>2 DEF RespondInvitation, Answering, Goto, Steps, Task
  <2>. QED
    BY <1>2, <2>1, <2>2 DEF RespondInvitation
<1>3. CASE MarkViewed(s)
  <2>1. invitation' \in [Invitations -> Invitation]
    BY <1>3 DEF MarkViewed, Invitation, Statuses, Active
  <2>. QED
    BY <1>3, <2>1, FinishTyped DEF MarkViewed
<1>4. CASE UpdateStatus(s)
  <2>1. task[s].answer \in Statuses
    BY <1>4 DEF UpdateStatus, Answering, Statuses
  <2>2. invitation' \in [Invitations -> Invitation]
    BY <1>4, <2>1 DEF UpdateStatus, Invitation
  <2>. QED
    BY <1>4, <2>2 DEF UpdateStatus, Answering, Goto, Steps
<1>5. CASE NotifyEmployer(s)
  <2>1. told' \subseteq Invitations \X Answers
    BY <1>5 DEF NotifyEmployer, Answering
  <2>. QED
    BY <1>5, <2>1, FinishTyped DEF NotifyEmployer
<1>. QED
  BY <1>1, <1>2, <1>3, <1>4, <1>5 DEF Respond

\* Every step keeps the state well typed.
LEMMA NextTyped == Typed /\ [InvitationsNext]_invitationVars => Typed'
<1>. SUFFICES ASSUME Typed, [InvitationsNext]_invitationVars PROVE Typed'
  OBVIOUS
<1>1. ASSUME NEW s \in Sessions, Interrupted(s) PROVE Typed'
  BY <1>1, FinishTyped DEF Typed, InvitationsTypeOK, Interrupted
<1>2. ASSUME NEW c \in Pairs, EligibilityChanges(c) PROVE Typed'
  BY <1>2 DEF Typed, InvitationsTypeOK, Answering, EligibilityChanges
<1>3. CASE ResetUsage
  BY <1>3 DEF Typed, InvitationsTypeOK, Answering, ResetUsage
<1>4. CASE WeekTurns
  BY <1>4, InvitationsAssumption DEF Typed, InvitationsTypeOK, Answering, WeekTurns, Weeks
<1>5. CASE UNCHANGED invitationVars
  BY <1>5 DEF Typed, InvitationsTypeOK, Answering, invitationVars
<1>. QED
  BY <1>1, <1>2, <1>3, <1>4, <1>5, SendTyped, RespondTyped DEF InvitationsNext

\* At the start, the state is well typed and nobody answers.
LEMMA InitTyped == InvitationsInit => Typed
  BY InvitationsAssumption
     DEF InvitationsInit, Typed, InvitationsTypeOK, Answering, Invitation, Statuses, Weeks, Steps, NoTask, Task

\* Every reachable state of the invitations is well typed, for any pairs,
\* sessions, weeks and limit.
THEOREM InvitationsTypeCorrect == InvitationsSpec => []InvitationsTypeOK
<1>1. InvitationsSpec => []Typed
  BY InitTyped, NextTyped, PTL DEF InvitationsSpec
<1>. QED
  BY <1>1, PTL DEF Typed

-----------------------------------------------------------------------------
\* The overrun: what is used this week, with what is about to be, and no
\* use of a week that has not begun.

FutureUnused == \A w \in Weeks : w > week => used[w] = 0

UseInv == Typed /\ FutureUnused /\ OverrunBounded

\* The senders about to add a use are senders, so finitely many.
LEMMA CountingFinite ==
    /\ IsFiniteSet(Counting) /\ Cardinality(Counting) \in Nat
    /\ Cardinality(Senders) \in Nat
    /\ Cardinality(Counting) <= Cardinality(Senders)
<1>1. Counting \subseteq Senders
  BY DEF Counting
<1>. QED
  BY <1>1, InvitationsAssumption, FS_Subset, FS_CardinalityType

\* A step after which no sender is about to add a use that was not so
\* before, and that adds no use, keeps the bound.
LEMMA NothingCounted ==
    ASSUME UseInv, Typed', UNCHANGED <<used, week>>, Counting' \subseteq Counting
    PROVE  UseInv'
<1>1. Cardinality(Counting') <= Cardinality(Counting) /\ Cardinality(Counting') \in Nat
  BY CountingFinite, FS_Subset, FS_CardinalityType
<1>2. FutureUnused'
  BY DEF UseInv, FutureUnused
<1>3. used[week] \in Nat
  BY DEF UseInv, Typed, InvitationsTypeOK
<1>. QED
  BY <1>1, <1>2, <1>3, CountingFinite, InvitationsAssumption DEF UseInv, OverrunBounded

\* A step of a session that takes it anywhere but to the increment makes no
\* sender count.
LEMMA NotCounting ==
    ASSUME Typed, NEW s \in Sessions, NEW step \in Steps \ {"increment"}, Goto(s, step)
    PROVE  Counting' \subseteq Counting
  BY DEF Typed, InvitationsTypeOK, Goto, Counting, Sessions

\* Every step keeps uses and sessions about to count within the bound.
LEMMA CountingNext == UseInv /\ [InvitationsNext]_invitationVars => UseInv'
<1>. SUFFICES ASSUME UseInv, [InvitationsNext]_invitationVars PROVE UseInv'
  OBVIOUS
<1>. Typed /\ Typed'
  BY NextTyped DEF UseInv
<1>. USE DEF Steps
<1>1. ASSUME NEW s \in Senders, Send(s) PROVE UseInv'
  <2>. s \in Sessions
    BY DEF Sessions
  <2>1. ASSUME NEW c \in Pairs, SendInvitation(s, c) PROVE UseInv'
    BY <2>1, NotCounting, NothingCounted DEF SendInvitation
  <2>2. CASE CheckInvitable(s)
    BY <2>2, NotCounting, NothingCounted DEF CheckInvitable, Finish
  <2>3. CASE CreateInvitation(s)
    BY <2>3, NotCounting, NothingCounted DEF CreateInvitation
  <2>4. CASE ConsumeLimit(s)
    <3>1. CASE Finish(s)
      BY <2>4, <3>1, NotCounting, NothingCounted DEF ConsumeLimit, Finish
    <3>2. CASE LimitAvailable
      <4>1. used[week] \in Nat /\ used[week] + 1 <= Limit /\ UNCHANGED <<used, week>>
        BY <2>4, <3>2 DEF ConsumeLimit, LimitAvailable, Typed, InvitationsTypeOK
      <4>2. Cardinality(Counting') \in Nat /\ Cardinality(Counting') <= Cardinality(Senders)
        <5>1. Counting' \subseteq Senders
          BY DEF Counting
        <5>. QED
          BY <5>1, InvitationsAssumption, FS_Subset, FS_CardinalityType
      <4>3. OverrunBounded'
        BY <4>1, <4>2, CountingFinite, InvitationsAssumption DEF OverrunBounded
      <4>4. FutureUnused'
        BY <4>1 DEF UseInv, FutureUnused
      <4>. QED
        BY <4>3, <4>4 DEF UseInv
    <3>. QED
      BY <2>4, <3>1, <3>2 DEF ConsumeLimit
  <2>5. CASE IncrementUsage(s)
    <3>1. Counting' = Counting \ {s} /\ s \in Counting
      BY <2>5 DEF IncrementUsage, Finish, Goto, Counting, Typed, InvitationsTypeOK, Sessions
    <3>2. Cardinality(Counting') = Cardinality(Counting) - 1
      BY <3>1, CountingFinite, FS_RemoveElement
    <3>3. used[week] \in Nat /\ used'[week] = used[week] + 1 /\ week' = week
      BY <2>5 DEF IncrementUsage, Typed, InvitationsTypeOK
    <3>4. OverrunBounded'
      BY <3>2, <3>3, CountingFinite, InvitationsAssumption DEF UseInv, OverrunBounded
    <3>5. FutureUnused'
      BY <2>5, InvitationsAssumption DEF IncrementUsage, UseInv, FutureUnused, Typed, InvitationsTypeOK, Weeks
    <3>. QED
      BY <3>4, <3>5 DEF UseInv
  <2>. QED
    BY <1>1, <2>1, <2>2, <2>3, <2>4, <2>5 DEF Send
<1>2. ASSUME NEW s \in Readers, Respond(s) PROVE UseInv'
  <2>1. UNCHANGED <<used, week>>
    BY <1>2 DEF Respond, GetInvitationDetails, RespondInvitation, MarkViewed, UpdateStatus, NotifyEmployer
  <2>2. \E step \in Steps \ {"increment"} : Goto(s, step)
    BY <1>2 DEF Respond, GetInvitationDetails, RespondInvitation, MarkViewed, UpdateStatus,
                NotifyEmployer, Finish
  <2>. QED
    BY <2>1, <2>2, NotCounting, NothingCounted DEF Sessions
<1>3. ASSUME NEW s \in Sessions, Interrupted(s) PROVE UseInv'
  BY <1>3, NotCounting, NothingCounted DEF Interrupted, Finish
<1>4. ASSUME NEW c \in Pairs, EligibilityChanges(c) PROVE UseInv'
  BY <1>4, NothingCounted DEF EligibilityChanges, Counting
<1>5. CASE ResetUsage
  <2>1. Counting' = Counting /\ used'[week'] = 0
    BY <1>5 DEF ResetUsage, Counting, Typed, InvitationsTypeOK
  <2>2. FutureUnused'
    BY <1>5 DEF ResetUsage, FutureUnused
  <2>. QED
    BY <2>1, <2>2, CountingFinite, InvitationsAssumption DEF UseInv, OverrunBounded
<1>6. CASE WeekTurns
  <2>1. Counting' = Counting /\ used'[week'] = 0
    BY <1>6, InvitationsAssumption DEF WeekTurns, Counting, UseInv, FutureUnused, Typed, InvitationsTypeOK, Weeks
  <2>2. FutureUnused'
    BY <1>6, InvitationsAssumption DEF WeekTurns, UseInv, FutureUnused, Typed, InvitationsTypeOK, Weeks
  <2>. QED
    BY <2>1, <2>2, CountingFinite, InvitationsAssumption DEF UseInv, OverrunBounded
<1>7. CASE UNCHANGED invitationVars
  BY <1>7, NothingCounted DEF invitationVars, Counting
<1>. QED
  BY <1>1, <1>2, <1>3, <1>4, <1>5, <1>6, <1>7 DEF InvitationsNext

\* The weekly limit is overrun by at most the senders that run at once, less
\* one, however their checks and increments interleave.
THEOREM OverrunIsBounded == InvitationsSpec => []OverrunBounded
<1>1. InvitationsInit => UseInv
  <2>. SUFFICES ASSUME InvitationsInit PROVE UseInv
    OBVIOUS
  <2>1. used[week] = 0 /\ FutureUnused
    BY InvitationsAssumption DEF InvitationsInit, FutureUnused, Weeks
  <2>. QED
    BY <2>1, InitTyped, CountingFinite, InvitationsAssumption DEF UseInv, OverrunBounded
<1>2. InvitationsSpec => []UseInv
  BY <1>1, CountingNext, PTL DEF InvitationsSpec
<1>. QED
  BY <1>2, PTL DEF UseInv

-----------------------------------------------------------------------------
\* What the candidate's sessions have read: whoever is about to write an
\* invitation found it sent and unanswered, and it is still sent; and an
\* answer leaves its time in the row.

HasRead ==
    \A s \in Readers :
        pc[s] \in {"markViewed", "answer"} =>
            /\ task[s].invitation \in Invitations
            /\ task[s].read \in Active
            /\ invitation[task[s].invitation].status # "NONE"

AnsweredOnce == \A i \in Invitations : invitation[i].status \in Answers => invitation[i].responded

ReadInv == Typed /\ HasRead /\ AnsweredOnce

\* A step after which no session has newly decided to write, and that keeps
\* the sent invitations.
LEMMA ReadKept ==
    ASSUME ReadInv, Typed',
           \A i \in Invitations :
             invitation[i].status # "NONE" => invitation'[i] = invitation[i],
           \A i \in Invitations : invitation'[i].status \in Answers => invitation'[i] = invitation[i],
           \A s \in Readers : \/ pc'[s] = pc[s] /\ task'[s] = task[s]
                              \/ pc'[s] \notin {"markViewed", "answer"}
    PROVE  ReadInv'
<1>1. HasRead'
  BY DEF ReadInv, HasRead
<1>2. AnsweredOnce'
  BY DEF ReadInv, AnsweredOnce
<1>. QED
  BY <1>1, <1>2 DEF ReadInv

\* Ending a request leaves other sessions of the candidate where they are.
LEMMA FinishStays ==
    ASSUME Typed, NEW s \in Sessions, Finish(s)
    PROVE  \A o \in Readers : \/ pc'[o] = pc[o] /\ task'[o] = task[o]
                              \/ pc'[o] \notin {"markViewed", "answer"}
  BY DEF Typed, InvitationsTypeOK, Finish, Goto, Sessions

\* A step of an employer's request touches no reader and no sent invitation,
\* and answers none.
LEMMA SendKeeps ==
    ASSUME Typed, NEW s \in Senders, Send(s)
    PROVE  /\ \A o \in Readers : pc'[o] = pc[o] /\ task'[o] = task[o]
           /\ \A i \in Invitations : invitation[i].status # "NONE" => invitation'[i] = invitation[i]
           /\ \A i \in Invitations : invitation'[i].status \in Answers => invitation'[i] = invitation[i]
<1>. s \notin Readers /\ Readers \subseteq Sessions
  BY InvitationsAssumption DEF Sessions
<1>1. \A o \in Readers : pc'[o] = pc[o] /\ task'[o] = task[o]
  BY DEF Send, SendInvitation, CheckInvitable, CreateInvitation, ConsumeLimit, IncrementUsage,
         Finish, Goto, Typed, InvitationsTypeOK
<1>2. \A i \in Invitations : /\ invitation[i].status # "NONE" => invitation'[i] = invitation[i]
                             /\ invitation'[i].status \in Answers => invitation'[i] = invitation[i]
  BY DEF Send, SendInvitation, CheckInvitable, CreateInvitation, ConsumeLimit, IncrementUsage,
         Typed, InvitationsTypeOK, Answers
<1>. QED
  BY <1>1, <1>2

\* Every step keeps what the sessions have read to be so.
LEMMA ReadNext == ReadInv /\ [InvitationsNext]_invitationVars => ReadInv'
<1>. SUFFICES ASSUME ReadInv, [InvitationsNext]_invitationVars PROVE ReadInv'
  OBVIOUS
<1>. Typed /\ Typed' /\ HasRead /\ AnsweredOnce
  BY NextTyped DEF ReadInv
<1>1. ASSUME NEW s \in Senders, Send(s) PROVE ReadInv'
  BY <1>1, SendKeeps, ReadKept
<1>2. ASSUME NEW s \in Readers, NEW i \in Invitations,
             GetInvitationDetails(s, i) \/ \E a \in Answers : RespondInvitation(s, i, a)
      PROVE  ReadInv'
  <2>1. /\ invitation' = invitation /\ invitation[i].status \in Active
        /\ task'[s].invitation = i /\ task'[s].read = invitation[i].status
        /\ \A o \in Readers \ {s} : pc'[o] = pc[o] /\ task'[o] = task[o]
    <3>1. task \in [Sessions -> Task] /\ s \in Sessions /\ task[s] \in Task
          /\ pc \in [Sessions -> Steps] /\ Readers \subseteq Sessions
      BY DEF Typed, InvitationsTypeOK, Sessions
    <3>2. CASE GetInvitationDetails(s, i)
      BY <3>1, <3>2 DEF GetInvitationDetails, Active, Goto, Task
    <3>3. ASSUME NEW a \in Answers, RespondInvitation(s, i, a)
          PROVE  /\ invitation' = invitation /\ invitation[i].status \in Active
                 /\ task'[s].invitation = i /\ task'[s].read = invitation[i].status
                 /\ \A o \in Readers \ {s} : pc'[o] = pc[o] /\ task'[o] = task[o]
      BY <3>1, <3>3 DEF RespondInvitation, Actionable, Goto, Task
    <3>. QED
      BY <1>2, <3>2, <3>3
  <2>2. HasRead'
    BY <2>1 DEF HasRead, Active
  <2>3. AnsweredOnce'
    BY <2>1 DEF AnsweredOnce
  <2>. QED
    BY <2>2, <2>3 DEF ReadInv
<1>3. ASSUME NEW s \in Readers, MarkViewed(s) \/ UpdateStatus(s) PROVE ReadInv'
  <2>1. task[s].invitation \in Invitations /\ s \in Sessions
    BY <1>3 DEF MarkViewed, UpdateStatus, HasRead, Sessions
  <2>2. /\ invitation'[task[s].invitation].status # "NONE"
        /\ invitation'[task[s].invitation].status \in Answers => invitation'[task[s].invitation].responded
        /\ \A i \in Invitations : i # task[s].invitation => invitation'[i] = invitation[i]
    <3>1. task[s].invitation \in Invitations /\ invitation[task[s].invitation] \in Invitation
      BY <2>1 DEF Typed, InvitationsTypeOK
    <3>2. CASE MarkViewed(s)
      BY <3>1, <3>2 DEF MarkViewed, Typed, InvitationsTypeOK, Invitation, Answers
    <3>3. CASE UpdateStatus(s)
      <4>1. task[s].answer \in Answers
        BY <2>1, <3>3 DEF UpdateStatus, Typed, Answering
      <4>2. invitation'[task[s].invitation] = [invitation[task[s].invitation] EXCEPT
                                                 !.status = task[s].answer, !.responded = TRUE]
            /\ \A i \in Invitations : i # task[s].invitation => invitation'[i] = invitation[i]
        BY <3>1, <3>3 DEF UpdateStatus, Typed, InvitationsTypeOK
      <4>. QED
        BY <3>1, <4>1, <4>2 DEF Invitation, Answers
    <3>. QED
      BY <1>3, <3>2, <3>3
  <2>3. \A o \in Readers : \/ pc'[o] = pc[o] /\ task'[o] = task[o]
                           \/ pc'[o] \notin {"markViewed", "answer"}
    BY <1>3, <2>1, FinishStays DEF MarkViewed, UpdateStatus, Goto, Typed, InvitationsTypeOK, Sessions
  <2>4. HasRead'
    BY <2>2, <2>3 DEF HasRead
  <2>5. AnsweredOnce'
    BY <2>2 DEF AnsweredOnce
  <2>. QED
    BY <2>4, <2>5 DEF ReadInv
<1>4. ASSUME NEW s \in Sessions, Interrupted(s) \/ NotifyEmployer(s) PROVE ReadInv'
  BY <1>4, FinishStays, ReadKept DEF Interrupted, NotifyEmployer
<1>5. CASE \/ \E c \in Pairs : EligibilityChanges(c)
           \/ ResetUsage \/ WeekTurns \/ UNCHANGED invitationVars
  BY <1>5, ReadKept DEF EligibilityChanges, ResetUsage, WeekTurns, invitationVars
<1>6. Readers \subseteq Sessions
  BY DEF Sessions
<1>. QED
  BY <1>1, <1>2, <1>3, <1>4, <1>5, <1>6 DEF InvitationsNext, Respond

\* At the start, nobody has read anything.
LEMMA InitRead == InvitationsInit => ReadInv
  BY InitTyped DEF ReadInv, HasRead, AnsweredOnce, InvitationsInit, Sessions, Answers

\* A step that changes the status of an answered invitation is of a session
\* that read it before it was answered.
LEMMA AnswersKept ==
    ASSUME ReadInv, [InvitationsNext]_invitationVars, NEW i \in Invitations,
           invitation[i].status \in Answers, invitation'[i].status # invitation[i].status
    PROVE  \E s \in Readers : task[s].invitation = i /\ task[s].read \in Active
<1>. Typed /\ HasRead
  BY DEF ReadInv
<1>1. ASSUME NEW s \in Senders, Send(s) PROVE FALSE
  BY <1>1, SendKeeps DEF Answers
<1>2. ASSUME NEW s \in Readers, MarkViewed(s) \/ UpdateStatus(s)
      PROVE  task[s].invitation = i /\ task[s].read \in Active
  <2>1. task[s].invitation = i
    BY <1>2 DEF MarkViewed, UpdateStatus, Typed, InvitationsTypeOK
  <2>. QED
    BY <1>2, <2>1 DEF MarkViewed, UpdateStatus, HasRead
<1>3. invitation' # invitation
  OBVIOUS
<1>. QED
  BY <1>1, <1>2, <1>3
     DEF InvitationsNext, Respond, GetInvitationDetails, RespondInvitation, NotifyEmployer,
         Interrupted, EligibilityChanges, ResetUsage, WeekTurns, invitationVars

\* An answer is changed by nobody but a session that had found the invitation
\* unanswered, for any numbers of senders, sessions of candidates and
\* invitations.
THEOREM AnswersStay == InvitationsSpec => AnswerStaysUnlessStale
<1>1. ReadInv /\ [InvitationsNext]_invitationVars =>
        [\A i \in Invitations :
           invitation[i].status \in Answers /\ invitation'[i].status # invitation[i].status
             => \E s \in Readers : task[s].invitation = i /\ task[s].read \in Active]_invitationVars
  BY AnswersKept
<1>. QED
  BY <1>1, ReadNext, InitRead, PTL DEF InvitationsSpec, AnswerStaysUnlessStale

-----------------------------------------------------------------------------
\* Duplicates: the invitations of a pair that were never answered, with the
\* senders that found none active and are about to create one.

Creating(c) == {s \in Senders : pc[s] = "insert" /\ task[s].pair = c}

DoubledInv ==
    /\ ReadInv
    /\ \A c \in Pairs : Cardinality(Unanswered(c)) + Cardinality(Creating(c)) <= Cardinality(Senders)

\* The sessions about to create an invitation of a job are finitely many.
LEMMA CreatingFinite ==
    ASSUME NEW c
    PROVE  /\ IsFiniteSet(Creating(c)) /\ Cardinality(Creating(c)) \in Nat
           /\ Cardinality(Creating(c)) <= Cardinality(Senders) /\ Cardinality(Senders) \in Nat
           /\ IsFiniteSet(Unanswered(c)) /\ Cardinality(Unanswered(c)) \in Nat
<1>1. Creating(c) \subseteq Senders /\ Unanswered(c) \subseteq Invitations
  BY DEF Creating, Unanswered, ActiveFor
<1>. QED
  BY <1>1, InvitationsAssumption, FS_Subset, FS_CardinalityType

\* They are after any step, too.
LEMMA CreatingFiniteNext ==
    ASSUME NEW c
    PROVE  /\ IsFiniteSet(Creating(c)') /\ Cardinality(Creating(c)') \in Nat
           /\ Cardinality(Creating(c)') <= Cardinality(Senders)
           /\ IsFiniteSet(Unanswered(c)') /\ Cardinality(Unanswered(c)') \in Nat
<1>1. Creating(c)' \subseteq Senders /\ Unanswered(c)' \subseteq Invitations
  BY DEF Creating, Unanswered, ActiveFor
<1>. QED
  BY <1>1, InvitationsAssumption, FS_Subset, FS_CardinalityType

\* What the invariant says of one pair.
Bounded(c) == Cardinality(Unanswered(c)) + Cardinality(Creating(c)) <= Cardinality(Senders)

\* A step that makes no invitation of a pair active, and no sender create one.
LEMMA PairUndisturbed ==
    ASSUME NEW c, Bounded(c), Unanswered(c)' \subseteq Unanswered(c), Creating(c)' \subseteq Creating(c)
    PROVE  Bounded(c)'
<1>1. Cardinality(Unanswered(c)') <= Cardinality(Unanswered(c))
  BY CreatingFinite, FS_Subset
<1>2. Cardinality(Creating(c)') <= Cardinality(Creating(c))
  BY CreatingFinite, FS_Subset
<1>. QED
  BY <1>1, <1>2, CreatingFinite, CreatingFiniteNext DEF Bounded

\* A step of a session that takes it anywhere but to the insertion.
LEMMA NotCreating ==
    ASSUME Typed, NEW s \in Sessions, NEW step \in Steps \ {"insert"}, Goto(s, step),
           \A o \in Sessions : o # s => task'[o] = task[o], NEW c
    PROVE  Creating(c)' \subseteq Creating(c) \ {s}
  BY DEF Typed, InvitationsTypeOK, Goto, Creating, Sessions

\* Every step keeps the active invitations of a job, with those about to be
\* created, within the bound.
LEMMA PairNext ==
    ASSUME ReadInv, [InvitationsNext]_invitationVars, NEW c \in Pairs, Bounded(c)
    PROVE  Bounded(c)'
<1>. Typed /\ HasRead /\ AnsweredOnce
  BY DEF ReadInv
<1>. USE DEF Steps
<1>0. ASSUME UNCHANGED invitation PROVE Unanswered(c)' = Unanswered(c)
  BY <1>0 DEF Unanswered, ActiveFor
<1>1. ASSUME NEW s \in Sessions, UNCHANGED invitation, Finish(s) PROVE Bounded(c)'
  <2>1. Creating(c)' \subseteq Creating(c) \ {s}
    BY <1>1, NotCreating DEF Finish, Typed, InvitationsTypeOK
  <2>. QED
    BY <1>0, <1>1, <2>1, PairUndisturbed
<1>2. ASSUME NEW s \in Senders, Send(s) PROVE Bounded(c)'
  <2>. s \in Sessions
    BY DEF Sessions
  <2>1. ASSUME NEW d \in Pairs, SendInvitation(s, d) PROVE Bounded(c)'
    <3>1. Creating(c)' \subseteq Creating(c) \ {s}
      BY <2>1, NotCreating DEF SendInvitation, Typed, InvitationsTypeOK
    <3>. QED
      BY <1>0, <2>1, <3>1, PairUndisturbed DEF SendInvitation
  <2>2. CASE CheckInvitable(s)
    <3>1. CASE Finish(s)
      BY <1>1, <2>2, <3>1 DEF CheckInvitable
    <3>2. CASE DuplicatesFor(task[s].pair) = {} /\ Goto(s, "insert") /\ UNCHANGED task
      <4>1. CASE task[s].pair = c
        <5>1. Unanswered(c)' = {}
          BY <1>0, <2>2, <3>2, <4>1 DEF DuplicatesFor, CheckInvitable, Unanswered
        <5>. QED
          BY <5>1, FS_EmptySet, CreatingFinite, CreatingFiniteNext DEF Bounded
      <4>2. CASE task[s].pair # c
        <5>1. Creating(c)' \subseteq Creating(c)
          BY <3>2, <4>2 DEF Creating, Goto, Typed, InvitationsTypeOK, Sessions
        <5>. QED
          BY <1>0, <2>2, <5>1, PairUndisturbed DEF CheckInvitable
      <4>. QED
        BY <4>1, <4>2
    <3>. QED
      BY <2>2, <3>1, <3>2 DEF CheckInvitable
  <2>3. CASE CreateInvitation(s)
    <3>1. Creating(c)' \subseteq Creating(c) \ {s}
      BY <2>3, NotCreating DEF CreateInvitation
    <3>2. PICK i \in Invitations :
            invitation' = [invitation EXCEPT ![i] =
                             [pair |-> task[s].pair, status |-> "PENDING", responded |-> FALSE, week |-> week]]
      BY <2>3 DEF CreateInvitation
    <3>3. CASE task[s].pair # c
      <4>1. Unanswered(c)' \subseteq Unanswered(c)
        BY <3>2, <3>3 DEF Unanswered, ActiveFor, Typed, InvitationsTypeOK
      <4>. QED
        BY <3>1, <4>1, PairUndisturbed
    <3>4. CASE task[s].pair = c
      <4>1. s \in Creating(c)
        BY <2>3, <3>4 DEF Creating, CreateInvitation
      <4>2. IsFiniteSet(Creating(c) \ {s}) /\ Cardinality(Creating(c) \ {s}) = Cardinality(Creating(c)) - 1
        BY <4>1, CreatingFinite, FS_RemoveElement
      <4>3. Cardinality(Creating(c)') <= Cardinality(Creating(c)) - 1
        BY <3>1, <4>2, FS_Subset
      <4>4. Unanswered(c)' \subseteq Unanswered(c) \cup {i}
        BY <3>2 DEF Unanswered, ActiveFor, Typed, InvitationsTypeOK
      <4>5. /\ IsFiniteSet(Unanswered(c) \cup {i})
            /\ Cardinality(Unanswered(c) \cup {i}) =
                 IF i \in Unanswered(c) THEN Cardinality(Unanswered(c)) ELSE Cardinality(Unanswered(c)) + 1
        BY CreatingFinite, FS_AddElement, Zenon
      <4>6. Cardinality(Unanswered(c)') <= Cardinality(Unanswered(c) \cup {i})
        BY <4>4, <4>5, FS_Subset
      <4>7. Cardinality(Unanswered(c)') <= Cardinality(Unanswered(c)) + 1
        BY <4>5, <4>6, CreatingFinite, CreatingFiniteNext
      <4>. QED
        BY <4>3, <4>7, CreatingFinite, CreatingFiniteNext DEF Bounded
    <3>. QED
      BY <3>3, <3>4
  <2>4. CASE ConsumeLimit(s)
    <3>1. CASE Goto(s, "increment") /\ UNCHANGED task
      <4>1. Creating(c)' \subseteq Creating(c) \ {s}
        BY <3>1, NotCreating
      <4>. QED
        BY <1>0, <2>4, <4>1, PairUndisturbed DEF ConsumeLimit
    <3>. QED
      BY <1>1, <2>4, <3>1 DEF ConsumeLimit
  <2>5. CASE IncrementUsage(s)
    BY <1>1, <2>5 DEF IncrementUsage
  <2>. QED
    BY <1>2, <2>1, <2>2, <2>3, <2>4, <2>5 DEF Send
<1>3. ASSUME NEW s \in Readers, Respond(s) PROVE Bounded(c)'
  <2>. s \in Sessions /\ s \notin Senders
    BY InvitationsAssumption DEF Sessions
  <2>1. Creating(c)' = Creating(c)
    BY <1>3 DEF Respond, GetInvitationDetails, RespondInvitation, MarkViewed, UpdateStatus, NotifyEmployer,
                Finish, Goto, Creating, Typed, InvitationsTypeOK, Sessions
  <2>0. ASSUME MarkViewed(s) \/ UpdateStatus(s) PROVE Unanswered(c)' \subseteq Unanswered(c)
    <3>. DEFINE i == task[s].invitation
    <3>1. i \in Invitations /\ invitation[i].status # "NONE"
      BY <2>0 DEF MarkViewed, UpdateStatus, HasRead
    <3>2. invitation[i].status \in Active \/ invitation[i].responded
      BY <3>1 DEF AnsweredOnce, Typed, InvitationsTypeOK, Invitation, Statuses
    <3>3. /\ invitation'[i].pair = invitation[i].pair
          /\ invitation'[i].responded = invitation[i].responded \/ invitation'[i].responded
          /\ \A o \in Invitations : o # i => invitation'[o] = invitation[o]
      BY <2>0, <3>1 DEF MarkViewed, UpdateStatus, Typed, InvitationsTypeOK, Invitation
    <3>. QED
      BY <3>2, <3>3 DEF Unanswered, ActiveFor
  <2>2. CASE MarkViewed(s)
    BY <2>0, <2>1, <2>2, PairUndisturbed
  <2>3. CASE UpdateStatus(s)
    BY <2>0, <2>1, <2>3, PairUndisturbed
  <2>4. CASE UNCHANGED invitation
    BY <1>0, <2>1, <2>4, PairUndisturbed
  <2>. QED
    BY <1>3, <2>2, <2>3, <2>4 DEF Respond, GetInvitationDetails, RespondInvitation, NotifyEmployer
<1>4. ASSUME NEW s \in Sessions, Interrupted(s) PROVE Bounded(c)'
  BY <1>1, <1>4 DEF Interrupted
<1>5. ASSUME UNCHANGED <<invitation, pc, task>> PROVE Bounded(c)'
  BY <1>0, <1>5, PairUndisturbed DEF Creating
<1>6. CASE \/ \E d \in Pairs : EligibilityChanges(d)
           \/ ResetUsage \/ WeekTurns \/ UNCHANGED invitationVars
  BY <1>5, <1>6 DEF EligibilityChanges, ResetUsage, WeekTurns, invitationVars
<1>. QED
  BY <1>2, <1>3, <1>4, <1>6 DEF InvitationsNext

\* A candidate has no more invitations to a job that were never answered than
\* the employer has sessions, however many sessions the candidate uses.
THEOREM DoubledIsBounded == InvitationsSpec => []DoubledBounded
<1>1. InvitationsInit => DoubledInv
  <2>. SUFFICES ASSUME InvitationsInit, NEW c \in Pairs
                PROVE  Bounded(c)
    BY InitRead DEF DoubledInv, Bounded
  <2>1. Unanswered(c) = {} /\ Creating(c) = {}
    BY DEF InvitationsInit, Unanswered, ActiveFor, Active, Creating, Sessions
  <2>. QED
    BY <2>1, FS_EmptySet, CreatingFinite DEF Bounded
<1>2. DoubledInv /\ [InvitationsNext]_invitationVars => DoubledInv'
  <2>. SUFFICES ASSUME DoubledInv, [InvitationsNext]_invitationVars, NEW c \in Pairs
                PROVE  Bounded(c)'
    BY ReadNext DEF DoubledInv, Bounded
  <2>. QED
    BY PairNext DEF DoubledInv, Bounded
<1>3. DoubledInv => DoubledBounded
  BY CreatingFinite DEF DoubledInv, DoubledBounded
<1>. QED
  BY <1>1, <1>2, <1>3, PTL DEF InvitationsSpec

-----------------------------------------------------------------------------
\* Uses and invitations.  A sender that has created an invitation owes one use
\* until it has counted it, or given up; what all weeks have counted, with
\* what is owed, is no more than what was sent.

Owing == {s \in Senders : pc[s] \in {"consume", "increment"}}

Uses == SumFunctionOnSet(used, Weeks)

OwedInv == Typed /\ Uses + Cardinality(Owing) <= Cardinality(Sent)

\* The counts and sets that the bound relates are finite.
LEMMA OwedTypes ==
    ASSUME Typed
    PROVE  /\ IsFiniteSet(Owing) /\ Cardinality(Owing) \in Nat
           /\ IsFiniteSet(Sent) /\ Cardinality(Sent) \in Nat
           /\ IsFiniteSet(Weeks) /\ used \in [Weeks -> Nat]
           /\ Uses \in Nat
<1>1. Owing \subseteq Senders /\ Sent \subseteq Invitations
  BY DEF Owing, Sent
<1>2. 0 \in Int /\ LastWeek \in Int
  BY InvitationsAssumption
<1>3. IsFiniteSet(Weeks)
  BY <1>2, FS_Interval DEF Weeks
<1>4. used \in [Weeks -> Nat]
  BY DEF Typed, InvitationsTypeOK
<1>5. Uses \in Nat
  BY <1>3, <1>4, SumIsCount, UnitsFinite, FS_CardinalityType DEF Uses
<1>. QED
  BY <1>1, <1>3, <1>4, <1>5, InvitationsAssumption, FS_Subset, FS_CardinalityType

\* A step that counts no use, takes nothing back and owes nothing new.
LEMMA NothingOwed ==
    ASSUME OwedInv, Typed', used' = used, Owing' \subseteq Owing, Sent \subseteq Sent'
    PROVE  OwedInv'
<1>1. Typed /\ Uses' = Uses
  BY DEF OwedInv, Uses
<1>2. Cardinality(Owing') <= Cardinality(Owing) /\ Cardinality(Owing') \in Nat
  BY <1>1, OwedTypes, Smaller
<1>3. IsFiniteSet(Sent')
  BY FS_Subset, InvitationsAssumption DEF Sent
<1>4. Cardinality(Sent) <= Cardinality(Sent') /\ Cardinality(Sent') \in Nat
  BY <1>3, Smaller
<1>5. Cardinality(Owing) \in Nat /\ Cardinality(Sent) \in Nat /\ Uses \in Nat
  BY <1>1, OwedTypes
<1>. QED
  BY <1>1, <1>2, <1>4, <1>5 DEF OwedInv

\* A session that does not go on to count.
LEMMA NotOwing ==
    ASSUME Typed, NEW s \in Sessions, NEW step \in Steps \ {"consume", "increment"}, Goto(s, step)
    PROVE  Owing' \subseteq Owing
  BY DEF Typed, InvitationsTypeOK, Goto, Owing, Sessions

\* Creating an invitation adds one to what was sent and one to what is owed
\* at most.
LEMMA CreateOwes ==
    ASSUME OwedInv, Typed', NEW s \in Senders, CreateInvitation(s)
    PROVE  OwedInv'
<1>1. Typed /\ Uses' = Uses
  BY DEF OwedInv, Uses, CreateInvitation
<1>2. PICK i \in Invitations :
        /\ invitation[i].status = "NONE"
        /\ invitation' = [invitation EXCEPT ![i] =
                            [pair |-> task[s].pair, status |-> "PENDING", responded |-> FALSE, week |-> week]]
  BY DEF CreateInvitation
<1>3. Sent' = Sent \cup {i} /\ i \notin Sent
  BY <1>1, <1>2 DEF Sent, Typed, InvitationsTypeOK
<1>4. Owing' \subseteq Owing \cup {s}
  BY <1>1 DEF CreateInvitation, Owing, Goto, Typed, InvitationsTypeOK
<1>5. Cardinality(Sent') = Cardinality(Sent) + 1
  BY <1>1, <1>3, OwedTypes, OneMore
<1>6. Cardinality(Owing') <= Cardinality(Owing) + 1 /\ Cardinality(Owing') \in Nat
  BY <1>1, <1>4, OwedTypes, WithinOneMore
<1>7. Cardinality(Owing) \in Nat /\ Cardinality(Sent) \in Nat /\ Uses \in Nat
  BY <1>1, OwedTypes
<1>. QED
  BY <1>1, <1>5, <1>6, <1>7 DEF OwedInv

\* Counting a use takes it from what its session owes.
LEMMA IncrementPays ==
    ASSUME OwedInv, Typed', NEW s \in Senders, IncrementUsage(s)
    PROVE  OwedInv'
<1>1. Typed /\ Sent' = Sent
  BY DEF OwedInv, Sent, IncrementUsage
<1>2. week \in Weeks /\ used' = [used EXCEPT ![week] = @ + 1]
  BY <1>1 DEF IncrementUsage, Typed, InvitationsTypeOK
<1>3. SumFunctionOnSet([used EXCEPT ![week] = @ + 1], Weeks) = SumFunctionOnSet(used, Weeks) + 1
  BY <1>1, <1>2, OwedTypes, SumGrows
<1>4. Uses' = Uses + 1
  BY <1>2, <1>3 DEF Uses
<1>5. s \in Owing /\ Owing' \subseteq Owing \ {s}
  BY <1>1 DEF IncrementUsage, Finish, Owing, Goto, Typed, InvitationsTypeOK, Sessions
<1>6. IsFiniteSet(Owing \ {s}) /\ Cardinality(Owing \ {s}) = Cardinality(Owing) - 1
  BY <1>1, <1>5, OwedTypes, FS_RemoveElement
<1>7. Cardinality(Owing') <= Cardinality(Owing) - 1 /\ Cardinality(Owing') \in Nat
  BY <1>5, <1>6, Smaller
<1>8. Cardinality(Owing) \in Nat /\ Cardinality(Sent) \in Nat /\ Uses \in Nat
  BY <1>1, OwedTypes
<1>. QED
  BY <1>1, <1>4, <1>7, <1>8 DEF OwedInv

\* Every step keeps uses and what is owed within what was sent.
LEMMA OwedNext == OwedInv /\ [InvitationsNext]_invitationVars => OwedInv'
<1>. SUFFICES ASSUME OwedInv, [InvitationsNext]_invitationVars PROVE OwedInv'
  OBVIOUS
<1>. Typed /\ Typed'
  BY NextTyped DEF OwedInv
<1>. USE DEF Steps
<1>0. ASSUME invitation' = invitation PROVE Sent \subseteq Sent'
  BY <1>0 DEF Sent
<1>1. ASSUME NEW s \in Senders, Send(s) PROVE OwedInv'
  <2>. s \in Sessions
    BY DEF Sessions
  <2>1. ASSUME NEW c \in Pairs, SendInvitation(s, c) PROVE OwedInv'
    BY <1>0, <2>1, NotOwing, NothingOwed DEF SendInvitation
  <2>2. CASE CheckInvitable(s)
    BY <1>0, <2>2, NotOwing, NothingOwed DEF CheckInvitable, Finish
  <2>3. CASE ConsumeLimit(s)
    <3>1. Owing' \subseteq Owing
      <4>1. s \in Owing
        BY <2>3 DEF ConsumeLimit, Owing
      <4>2. \E step : Goto(s, step)
        BY <2>3 DEF ConsumeLimit, Finish
      <4>3. \A t \in Senders \ {s} : pc'[t] = pc[t]
        BY <4>2 DEF Goto, Typed, InvitationsTypeOK, Sessions
      <4>. QED
        BY <4>1, <4>3 DEF Owing
    <3>. QED
      BY <1>0, <2>3, <3>1, NothingOwed DEF ConsumeLimit
  <2>. QED
    BY <1>1, <2>1, <2>2, <2>3, CreateOwes, IncrementPays DEF Send
<1>2. ASSUME NEW s \in Readers, Respond(s) PROVE OwedInv'
  <2>1. used' = used /\ \E step \in Steps \ {"consume", "increment"} : Goto(s, step)
    BY <1>2 DEF Respond, GetInvitationDetails, RespondInvitation, MarkViewed, UpdateStatus,
                NotifyEmployer, Finish
  <2>2. Owing' \subseteq Owing
    BY <2>1, NotOwing DEF Sessions
  <2>3. Sent \subseteq Sent'
    <3>1. CASE MarkViewed(s)
      BY <3>1 DEF MarkViewed, Sent, Typed, InvitationsTypeOK, Invitation
    <3>2. CASE UpdateStatus(s)
      <4>1. task[s].answer \in Answers
        BY <3>2 DEF UpdateStatus, Typed, Answering, Sessions
      <4>. QED
        BY <3>2, <4>1 DEF UpdateStatus, Sent, Typed, InvitationsTypeOK, Invitation, Answers
    <3>3. CASE UNCHANGED invitation
      BY <3>3, <1>0
    <3>. QED
      BY <1>2, <3>1, <3>2, <3>3 DEF Respond, GetInvitationDetails, RespondInvitation, NotifyEmployer
  <2>. QED
    BY <2>1, <2>2, <2>3, NothingOwed
<1>3. ASSUME NEW s \in Sessions, Interrupted(s) PROVE OwedInv'
  BY <1>0, <1>3, NotOwing, NothingOwed DEF Interrupted, Finish
<1>4. CASE ResetUsage
  <2>1. used' = [w \in Weeks |-> 0] /\ Owing' = Owing /\ Sent' = Sent
    BY <1>4 DEF ResetUsage, Owing, Sent
  <2>2. Units(used', Weeks) = {}
    BY <2>1 DEF Units
  <2>3. Uses' = 0
    BY <2>1, <2>2, OwedTypes, SumIsCount, FS_EmptySet DEF Uses
  <2>4. Cardinality(Owing) \in Nat /\ Cardinality(Sent) \in Nat /\ Uses \in Nat
    BY OwedTypes
  <2>. QED
    BY <2>1, <2>3, <2>4 DEF OwedInv
<1>5. ASSUME UNCHANGED <<invitation, used, pc>> PROVE OwedInv'
  BY <1>0, <1>5, NothingOwed DEF Owing
<1>6. (\E c \in Pairs : EligibilityChanges(c)) \/ WeekTurns \/ UNCHANGED invitationVars
        => UNCHANGED <<invitation, used, pc>>
  BY DEF EligibilityChanges, WeekTurns, invitationVars
<1>. QED
  BY <1>1, <1>2, <1>3, <1>4, <1>5, <1>6 DEF InvitationsNext

\* However sessions race, break off and are refused late, and whenever an
\* administrator resets the counters, they never count more uses than
\* invitations were sent.
THEOREM UsesAreCovered == InvitationsSpec => []UsesAreInvitations
<1>1. InvitationsInit => OwedInv
  <2>. SUFFICES ASSUME InvitationsInit PROVE OwedInv
    OBVIOUS
  <2>1. Typed
    BY InitTyped
  <2>2. Owing = {} /\ Units(used, Weeks) = {}
    BY DEF InvitationsInit, Owing, Units, Sessions
  <2>3. Uses = 0 /\ Cardinality(Owing) = 0
    BY <2>1, <2>2, OwedTypes, SumIsCount, FS_EmptySet DEF Uses
  <2>4. Cardinality(Sent) \in Nat
    BY <2>1, OwedTypes
  <2>. QED
    BY <2>1, <2>3, <2>4 DEF OwedInv
<1>2. OwedInv => UsesAreInvitations
  <2>. SUFFICES ASSUME OwedInv PROVE Uses + Cardinality(Counting) <= Cardinality(Sent)
    BY DEF UsesAreInvitations, Uses
  <2>1. Counting \subseteq Owing
    BY DEF Counting, Owing
  <2>2. Cardinality(Counting) <= Cardinality(Owing) /\ Cardinality(Counting) \in Nat
    BY <2>1, OwedTypes, Smaller DEF OwedInv
  <2>3. Cardinality(Owing) \in Nat /\ Cardinality(Sent) \in Nat /\ Uses \in Nat
    BY OwedTypes DEF OwedInv
  <2>. QED
    BY <2>2, <2>3 DEF OwedInv
<1>. QED
  BY <1>1, <1>2, OwedNext, PTL DEF InvitationsSpec

-----------------------------------------------------------------------------
\* Type correctness of AIGeneration: a request for insights has a candidate.

InsightSteps == {"context", "cachedInsight", "insight", "upsertInsight", "storeInsight"}

\* A session is idle with nothing left; one that has a candidate has loaded
\* no row, or one that is still there.
Concerning ==
    \A s \in AISessions :
        /\ generating[s] = "idle" => generation[s] = NoGeneration
        /\ generating[s] \in InsightSteps =>
             /\ generation[s].candidate \in Candidates
             /\ generation[s].loaded # NoInsight => insight[generation[s].candidate] # NoInsight

AITyped == AIGenerationTypeOK /\ Concerning

\* Ending a request leaves no candidate to concern.
LEMMA EndTyped ==
    ASSUME AITyped, NEW s \in AISessions, EndGeneration(s),
           \A c \in Candidates : insight[c] # NoInsight => insight'[c] # NoInsight
    PROVE  /\ generating' \in [AISessions -> GenerationSteps]
           /\ generation' \in [AISessions -> Generation]
           /\ Concerning'
<1>1. NoGeneration \in Generation
  BY AIGenerationAssumption DEF NoGeneration, Generation, Versions
<1>2. generation' \in [AISessions -> Generation]
  BY <1>1 DEF AITyped, AIGenerationTypeOK, EndGeneration
<1>3. generating' \in [AISessions -> GenerationSteps]
  BY DEF AITyped, AIGenerationTypeOK, EndGeneration, AdvanceTo, GenerationSteps
<1>4. Concerning'
  BY DEF AITyped, AIGenerationTypeOK, Concerning, EndGeneration, AdvanceTo, InsightSteps
<1>. QED
  BY <1>2, <1>3, <1>4

\* A step that ends the request or goes on to one that still concerns the
\* same candidate.
LEMMA AskTyped ==
    ASSUME AITyped, NEW s \in AISessions,
           NEW asking \in GenerationSteps, NEW answered \in GenerationSteps,
           answered # "idle", answered \in InsightSteps => asking \in InsightSteps,
           Ask(s, asking, answered)
    PROVE  AITyped'
<1>1. CASE AdvanceTo(s, answered) /\ UNCHANGED generation
  BY <1>1 DEF Ask, AdvanceTo, AITyped, AIGenerationTypeOK, Concerning
<1>2. CASE EndGeneration(s)
  BY <1>2, EndTyped DEF Ask, AITyped, AIGenerationTypeOK
<1>. QED
  BY <1>1, <1>2 DEF Ask

\* A request that begins is counted up to the bound.
LEMMA BeginTyped ==
    ASSUME AITyped, NEW s \in AISessions, NEW l, NEW step, Begin(s, l, step)
    PROVE  generations' \in 0..MaxGenerations
BY AIGenerationAssumption DEF AITyped, AIGenerationTypeOK, Begin

\* A use is added to a natural number.
LEMMA UsedTyped ==
    ASSUME AITyped, NEW l \in Limits, NEW n \in Nat
    PROVE  Used(l, n) \in [Limits -> Nat]
BY DEF AITyped, AIGenerationTypeOK, Used

\* The descriptions and the drafts keep the state well typed.
LEMMA DescriptionTyped ==
    ASSUME AITyped, NEW s \in AISessions,
           \/ \E full \in BOOLEAN : GenerateDescription(s, full)
           \/ CacheGet(s) \/ CallDescription(s) \/ RecordDescription(s) \/ CacheSet(s)
           \/ GenerateDraft(s) \/ CallDraft(s) \/ RecordDraft(s)
    PROVE  AITyped'
<1>. USE DEF AITyped, AIGenerationTypeOK
<1>1. ASSUME NEW full \in BOOLEAN, GenerateDescription(s, full) PROVE AITyped'
  <2>1. generation' \in [AISessions -> Generation]
    BY <1>1 DEF GenerateDescription, Generation
  <2>2. generating' \in [AISessions -> GenerationSteps] /\ Concerning'
    BY <1>1 DEF GenerateDescription, Begin, AdvanceTo, GenerationSteps, Concerning, InsightSteps
  <2>3. generations' \in 0..MaxGenerations
    BY <1>1, BeginTyped DEF GenerateDescription
  <2>. QED
    BY <1>1, <2>1, <2>2, <2>3 DEF GenerateDescription
<1>2. CASE CacheGet(s)
  <2>1. CASE EndGeneration(s)
    BY <1>2, <2>1, EndTyped DEF CacheGet
  <2>2. CASE AdvanceTo(s, "describe") /\ UNCHANGED generation
    BY <1>2, <2>2 DEF CacheGet, AdvanceTo, GenerationSteps, Concerning, InsightSteps
  <2>. QED
    BY <1>2, <2>1, <2>2 DEF CacheGet
<1>3. CASE CallDescription(s)
  BY <1>3, AskTyped DEF CallDescription, GenerationSteps, InsightSteps
<1>4. CASE RecordDescription(s)
  <2>1. usedInMonth' \in [Limits -> Nat]
    BY <1>4, UsedTyped DEF RecordDescription, Limits
  <2>2. CASE EndGeneration(s)
    BY <1>4, <2>1, <2>2, EndTyped DEF RecordDescription
  <2>3. CASE AdvanceTo(s, "fillCache") /\ UNCHANGED generation
    BY <1>4, <2>1, <2>3 DEF RecordDescription, AdvanceTo, GenerationSteps, Concerning, InsightSteps
  <2>. QED
    BY <1>4, <2>2, <2>3 DEF RecordDescription
<1>5. CASE CacheSet(s)
  BY <1>5, EndTyped DEF CacheSet
<1>6. CASE GenerateDraft(s)
  <2>1. generations' \in 0..MaxGenerations
    BY <1>6, BeginTyped DEF GenerateDraft
  <2>. QED
    BY <1>6, <2>1 DEF GenerateDraft, Begin, AdvanceTo, GenerationSteps, Concerning, InsightSteps
<1>7. CASE CallDraft(s)
  BY <1>7, AskTyped DEF CallDraft, GenerationSteps, InsightSteps
<1>8. CASE RecordDraft(s)
  <2>1. usedInMonth' \in [Limits -> Nat]
    BY <1>8, UsedTyped DEF RecordDraft, Limits
  <2>. QED
    BY <1>8, <2>1, EndTyped DEF RecordDraft
<1>. QED
  BY <1>1, <1>2, <1>3, <1>4, <1>5, <1>6, <1>7, <1>8

\* What is stored is an insight.
LEMMA StoredTyped ==
    ASSUME NEW g \in Generation, NEW row \in Insight \cup {NoInsight},
           g.loaded = NoInsight \/ row # NoInsight
    PROVE  Stored(g, row) \in Insight
BY DEF Stored, MadeOf, Generation, Insight

\* The insights keep the state well typed.
LEMMA InsightTyped ==
    ASSUME AITyped, NEW s \in AISessions,
           \/ \E c \in Candidates, regenerate \in BOOLEAN : GetInsights(s, c, regenerate)
           \/ BuildCandidateContext(s) \/ GetCachedInsight(s) \/ CallInsight(s)
           \/ LookUpInsight(s) \/ StoreInsight(s)
    PROVE  AITyped'
<1>. USE DEF AITyped, AIGenerationTypeOK
<1>1. ASSUME NEW c \in Candidates, NEW regenerate \in BOOLEAN, GetInsights(s, c, regenerate)
      PROVE  AITyped'
  <2>. DEFINE g == [generation[s] EXCEPT !.candidate = c, !.regenerate = regenerate]
  <2>0. generation[s] = NoGeneration /\ generation[s] \in Generation
    BY <1>1 DEF GetInsights, Begin, Concerning
  <2>6. generation[s].loaded = NoInsight
    BY <2>0 DEF NoGeneration
  <2>7. g.candidate = c /\ g.loaded = generation[s].loaded
    BY <2>0 DEF Generation
  <2>8. g \in Generation
    BY <2>0, Zenon DEF Generation
  <2>1. g \in Generation /\ g.candidate = c /\ g.loaded = NoInsight
    BY <2>6, <2>7, <2>8
  <2>2. generation' = [generation EXCEPT ![s] = g]
    BY <1>1 DEF GetInsights
  <2>. HIDE DEF g
  <2>5. generation' \in [AISessions -> Generation] /\ generation'[s] = g
    BY <2>1, <2>2
  <2>3. generating' \in [AISessions -> GenerationSteps] /\ Concerning'
    BY <1>1, <2>1, <2>2, <2>5 DEF GetInsights, Begin, AdvanceTo, GenerationSteps, Concerning, InsightSteps
  <2>4. generations' \in 0..MaxGenerations
    BY <1>1, BeginTyped DEF GetInsights
  <2>. QED
    BY <1>1, <2>5, <2>3, <2>4 DEF GetInsights
<1>2. CASE BuildCandidateContext(s)
  <2>1. generation[s].candidate \in Candidates
    BY <1>2 DEF BuildCandidateContext, Concerning, InsightSteps
  <2>2. generation' \in [AISessions -> Generation]
    BY <1>2, <2>1 DEF BuildCandidateContext, Generation
  <2>3. generating' \in [AISessions -> GenerationSteps] /\ Concerning'
    BY <1>2, <2>1 DEF BuildCandidateContext, AdvanceTo, GenerationSteps, Concerning, InsightSteps, Generation
  <2>. QED
    BY <1>2, <2>2, <2>3 DEF BuildCandidateContext
<1>3. CASE GetCachedInsight(s)
  <2>1. generation[s].candidate \in Candidates
    BY <1>3 DEF GetCachedInsight, Concerning, InsightSteps
  <2>2. CASE EndGeneration(s)
    BY <1>3, <2>2, EndTyped DEF GetCachedInsight
  <2>3. CASE AdvanceTo(s, "insight") /\ generation' = [generation EXCEPT ![s].loaded = insight[generation[s].candidate]]
    <3>1. generation' \in [AISessions -> Generation]
      BY <2>1, <2>3 DEF Generation
    <3>2. generating' \in [AISessions -> GenerationSteps] /\ Concerning'
      BY <1>3, <2>1, <2>3 DEF GetCachedInsight, AdvanceTo, GenerationSteps, Concerning, InsightSteps, Generation
    <3>. QED
      BY <1>3, <3>1, <3>2 DEF GetCachedInsight
  <2>. QED
    BY <1>3, <2>2, <2>3 DEF GetCachedInsight
<1>4. CASE CallInsight(s)
  BY <1>4, AskTyped DEF CallInsight, GenerationSteps, InsightSteps
<1>5. CASE LookUpInsight(s)
  <2>1. generation[s].candidate \in Candidates
    BY <1>5 DEF LookUpInsight, Concerning, InsightSteps
  <2>2. generation' \in [AISessions -> Generation]
    <3>1. [generation[s] EXCEPT !.loaded = insight[generation[s].candidate], !.late = TRUE] \in Generation
      BY <2>1 DEF Generation
    <3>. QED
      BY <1>5, <3>1 DEF LookUpInsight
  <2>3. generating' \in [AISessions -> GenerationSteps]
    BY <1>5 DEF LookUpInsight, AdvanceTo, GenerationSteps
  <2>4. generation'[s].candidate = generation[s].candidate
    BY <1>5 DEF LookUpInsight, Generation
  <2>5. generation'[s].loaded \in {generation[s].loaded, insight[generation[s].candidate]}
    BY <1>5 DEF LookUpInsight, Generation
  <2>6. \A t \in AISessions \ {s} : generation'[t] = generation[t] /\ generating'[t] = generating[t]
    BY <1>5 DEF LookUpInsight, AdvanceTo
  <2>7. generating'[s] = "storeInsight" /\ generating[s] \in InsightSteps /\ insight' = insight
    BY <1>5 DEF LookUpInsight, AdvanceTo, InsightSteps
  <2>8. Concerning'
    BY <2>1, <2>4, <2>5, <2>6, <2>7 DEF Concerning, InsightSteps
  <2>. QED
    BY <1>5, <2>2, <2>3, <2>8 DEF LookUpInsight
<1>6. CASE StoreInsight(s)
  <2>. DEFINE g == generation[s]
              row == insight[g.candidate]
  <2>1. g \in Generation /\ g.candidate \in Candidates /\ (g.loaded # NoInsight => row # NoInsight)
    BY <1>6 DEF StoreInsight, Concerning, InsightSteps
  <2>2. Stored(g, row) \in Insight
    BY <2>1, StoredTyped
  <2>3. insight' \in [Candidates -> Insight \cup {NoInsight}]
    BY <1>6, <2>2 DEF StoreInsight
  <2>4. \A c \in Candidates : insight[c] # NoInsight => insight'[c] # NoInsight
    BY <1>6, <2>2, NoInsightAssumption DEF StoreInsight
  <2>5. usedInMonth' \in [Limits -> Nat]
    <3>1. Used("insights", 1) \in [Limits -> Nat]
      BY UsedTyped DEF Limits
    <3>2. usedInMonth' = Used("insights", 1) \/ usedInMonth' = usedInMonth
      BY <1>6 DEF StoreInsight
    <3>. QED
      BY <3>1, <3>2
  <2>6. raced' \subseteq Candidates
    BY <1>6, <2>1 DEF StoreInsight
  <2>7. EndGeneration(s)
    BY <1>6 DEF StoreInsight
  <2>. QED
    BY <1>6, <2>3, <2>4, <2>5, <2>6, <2>7, EndTyped DEF StoreInsight
<1>. QED
  BY <1>1, <1>2, <1>3, <1>4, <1>5, <1>6

\* The matching keeps the state well typed.
LEMMA MatchTyped ==
    ASSUME AITyped, NEW s \in AISessions,
           \/ GenerateMatches(s) \/ RecordMatches(s)
           \/ \E n \in 0..CandidateLimit : CheckAnalyses(s, n)
           \/ GenerationEnds(s)
    PROVE  AITyped'
<1>. USE DEF AITyped, AIGenerationTypeOK
<1>1. CASE GenerateMatches(s)
  <2>1. generations' \in 0..MaxGenerations
    BY <1>1, BeginTyped DEF GenerateMatches
  <2>. QED
    BY <1>1, <2>1 DEF GenerateMatches, Begin, AdvanceTo, GenerationSteps, Concerning, InsightSteps
<1>2. ASSUME NEW n \in 0..CandidateLimit, CheckAnalyses(s, n) PROVE AITyped'
  <2>1. CASE EndGeneration(s)
    BY <1>2, <2>1, EndTyped DEF CheckAnalyses
  <2>2. CASE AdvanceTo(s, "match") /\ generation' = [generation EXCEPT ![s].pool = n]
    <3>1. generation' \in [AISessions -> Generation]
      BY <2>2 DEF Generation
    <3>. QED
      BY <1>2, <2>2, <3>1 DEF CheckAnalyses, AdvanceTo, GenerationSteps, Concerning, InsightSteps
  <2>. QED
    BY <1>2, <2>1, <2>2 DEF CheckAnalyses
<1>3. CASE RecordMatches(s)
  <2>1. generation[s].pool \in Nat
    BY AIGenerationAssumption DEF Generation
  <2>2. Used("runs", 1) \in [Limits -> Nat]
    BY UsedTyped DEF Limits
  <2>3. usedInMonth' \in [Limits -> Nat]
    <3>. DEFINE oneRun == Used("runs", 1)
    <3>1. usedInMonth' = [oneRun EXCEPT !["analyses"] = @ + generation[s].pool]
      BY <1>3 DEF RecordMatches
    <3>. HIDE DEF oneRun
    <3>2. oneRun \in [Limits -> Nat]
      BY <2>2 DEF oneRun
    <3>. QED
      BY <3>1, <3>2, <2>1 DEF Limits
  <2>. QED
    BY <1>3, <2>3, EndTyped DEF RecordMatches
<1>4. CASE GenerationEnds(s)
  BY <1>4, EndTyped DEF GenerationEnds
<1>. QED
  BY <1>1, <1>2, <1>3, <1>4

\* Every step keeps the state well typed.
LEMMA AIGenerationTyped ==
    AITyped /\ [AIGenerationNext]_aiVars => AITyped'
<1>. SUFFICES ASSUME AITyped, [AIGenerationNext]_aiVars PROVE AITyped'
  OBVIOUS
<1>. USE DEF AITyped, AIGenerationTypeOK, Concerning
<1>1. ASSUME NEW s \in AISessions, Generate(s) PROVE AITyped'
  BY <1>1, DescriptionTyped, InsightTyped, MatchTyped DEF Generate
<1>2. ASSUME NEW c \in Candidates, DataChanges(c) PROVE AITyped'
  BY <1>2, AIGenerationAssumption DEF DataChanges, Versions
<1>3. ASSUME NEW S \in SUBSET Limits, ResetMonth(S) PROVE AITyped'
  BY <1>3 DEF ResetMonth
<1>4. CASE CacheExpires
  BY <1>4 DEF CacheExpires
<1>5. CASE UNCHANGED aiVars
  BY <1>5 DEF aiVars
<1>. QED
  BY <1>1, <1>2, <1>3, <1>4, <1>5 DEF AIGenerationNext

\* The first state is well typed.
LEMMA AIGenerationInitTyped ==
    AIGenerationInit => AITyped
<1>. SUFFICES ASSUME AIGenerationInit PROVE AITyped
  OBVIOUS
<1>1. NoGeneration \in Generation
  BY AIGenerationAssumption DEF NoGeneration, Generation, Versions
<1>2. \A valid \in BOOLEAN : MadeOf(0, valid) \in Insight
  BY AIGenerationAssumption DEF MadeOf, Insight, Versions
<1>3. 0 \in Versions /\ 0 \in 0..MaxGenerations
  BY AIGenerationAssumption DEF Versions
<1>4. insight \in [Candidates -> Insight \cup {NoInsight}]
  BY <1>2 DEF AIGenerationInit
<1>. QED
  BY <1>1, <1>3, <1>4 DEF AIGenerationInit, AITyped, AIGenerationTypeOK, Concerning, InsightSteps, GenerationSteps

\* Every reachable state of the counters, the insights and the requests is
\* well typed.
THEOREM AIGenerationTypeCorrect == AIGenerationSpec => []AIGenerationTypeOK
<1>1. AITyped => AIGenerationTypeOK
  BY DEF AITyped
<1>. QED
  BY <1>1, AIGenerationInitTyped, AIGenerationTyped, PTL DEF AIGenerationSpec

-----------------------------------------------------------------------------
\* The hash of an insight tells its text.  A request that neither
\* regenerates nor saw no row, or a malformed one, at first asks the provider
\* only when the row it loaded has another hash, which it then writes.

Decided ==
    \A s \in AISessions :
        LET g == generation[s] IN
        generating[s] \in {"insight", "upsertInsight", "storeInsight"} =>
            (~g.regenerate /\ ~g.late /\ g.loaded # NoInsight /\ g.loaded.valid
                => g.loaded.hash # g.version)

HashInv == AITyped /\ Decided /\ HashTellsText

\* A request decides on the data it has read, whatever the others do.
LEMMA DecidedNext ==
    ASSUME AITyped, Decided, [AIGenerationNext]_aiVars
    PROVE  Decided'
<1>. USE DEF AITyped, AIGenerationTypeOK
<1>1. ASSUME NEW s \in AISessions, EndGeneration(s) PROVE Decided'
  BY <1>1 DEF EndGeneration, AdvanceTo, Decided
<1>2. ASSUME NEW s \in AISessions, NEW step \in GenerationSteps,
             step \notin {"insight", "upsertInsight", "storeInsight"}, AdvanceTo(s, step),
             \A t \in AISessions \ {s} : generation'[t] = generation[t]
      PROVE  Decided'
  BY <1>2 DEF AdvanceTo, Decided
<1>3. ASSUME NEW s \in AISessions, Generate(s) PROVE Decided'
  <2>1. CASE EndGeneration(s)
    BY <2>1, <1>1
  <2>2. CASE GetCachedInsight(s) /\ ~EndGeneration(s)
    <3>1. generation[s].candidate \in Candidates
      BY <2>2 DEF GetCachedInsight, Concerning, InsightSteps
    <3>. QED
      BY <2>2, <3>1 DEF GetCachedInsight, IsCurrent, AdvanceTo, Decided, Generation
  <2>3. CASE CallInsight(s) /\ ~EndGeneration(s)
    BY <2>3 DEF CallInsight, Ask, AdvanceTo, Decided
  <2>4. CASE LookUpInsight(s)
    <3>1. CASE generation[s].loaded # NoInsight
      BY <2>4, <3>1 DEF LookUpInsight, AdvanceTo, Decided
    <3>2. CASE generation[s].loaded = NoInsight
      <4>1. generation'[s].late
        BY <2>4, <3>2 DEF LookUpInsight, Generation
      <4>2. \A t \in AISessions \ {s} : generation'[t] = generation[t] /\ generating'[t] = generating[t]
        BY <2>4, <3>2 DEF LookUpInsight, AdvanceTo
      <4>. QED
        BY <4>1, <4>2 DEF Decided
    <3>. QED
      BY <3>1, <3>2
  <2>5. ASSUME NEW full \in BOOLEAN, GenerateDescription(s, full) PROVE Decided'
    <3>1. \A t \in AISessions \ {s} : generation'[t] = generation[t]
      BY <2>5 DEF GenerateDescription, Begin
    <3>2. AdvanceTo(s, "readCache") \/ AdvanceTo(s, "describe")
      BY <2>5 DEF GenerateDescription, Begin
    <3>. QED
      BY <2>1, <3>1, <3>2, <1>2 DEF GenerationSteps
  <2>6. CASE CacheGet(s) /\ ~EndGeneration(s)
    <3>1. \A t \in AISessions \ {s} : generation'[t] = generation[t]
      BY <2>6 DEF CacheGet
    <3>2. AdvanceTo(s, "describe")
      BY <2>6 DEF CacheGet
    <3>. QED
      BY <2>1, <3>1, <3>2, <1>2 DEF GenerationSteps
  <2>7. CASE CallDescription(s) /\ ~EndGeneration(s)
    <3>1. \A t \in AISessions \ {s} : generation'[t] = generation[t]
      BY <2>7 DEF CallDescription, Ask
    <3>2. AdvanceTo(s, "recordDescription")
      BY <2>7 DEF CallDescription, Ask
    <3>. QED
      BY <2>1, <3>1, <3>2, <1>2 DEF GenerationSteps
  <2>9. CASE RecordDescription(s) /\ ~EndGeneration(s)
    <3>1. \A t \in AISessions \ {s} : generation'[t] = generation[t]
      BY <2>9 DEF RecordDescription
    <3>2. AdvanceTo(s, "fillCache")
      BY <2>9 DEF RecordDescription
    <3>. QED
      BY <2>1, <3>1, <3>2, <1>2 DEF GenerationSteps
  <2>10. CASE GenerateDraft(s)
    <3>1. \A t \in AISessions \ {s} : generation'[t] = generation[t]
      BY <2>10 DEF GenerateDraft, Begin
    <3>2. AdvanceTo(s, "draft")
      BY <2>10 DEF GenerateDraft, Begin
    <3>. QED
      BY <2>1, <3>1, <3>2, <1>2 DEF GenerationSteps
  <2>11. CASE CallDraft(s) /\ ~EndGeneration(s)
    <3>1. \A t \in AISessions \ {s} : generation'[t] = generation[t]
      BY <2>11 DEF CallDraft, Ask
    <3>2. AdvanceTo(s, "recordDraft")
      BY <2>11 DEF CallDraft, Ask
    <3>. QED
      BY <2>1, <3>1, <3>2, <1>2 DEF GenerationSteps
  <2>12. ASSUME NEW c \in Candidates, NEW regenerate \in BOOLEAN, GetInsights(s, c, regenerate) PROVE Decided'
    <3>1. \A t \in AISessions \ {s} : generation'[t] = generation[t]
      BY <2>12 DEF GetInsights, Begin
    <3>2. AdvanceTo(s, "context")
      BY <2>12 DEF GetInsights, Begin
    <3>. QED
      BY <2>1, <3>1, <3>2, <1>2 DEF GenerationSteps
  <2>13. CASE BuildCandidateContext(s)
    <3>1. \A t \in AISessions \ {s} : generation'[t] = generation[t]
      BY <2>13 DEF BuildCandidateContext
    <3>2. AdvanceTo(s, "cachedInsight")
      BY <2>13 DEF BuildCandidateContext
    <3>. QED
      BY <2>1, <3>1, <3>2, <1>2 DEF GenerationSteps
  <2>14. CASE GenerateMatches(s)
    <3>1. \A t \in AISessions \ {s} : generation'[t] = generation[t]
      BY <2>14 DEF GenerateMatches, Begin
    <3>2. AdvanceTo(s, "pool")
      BY <2>14 DEF GenerateMatches, Begin
    <3>. QED
      BY <2>1, <3>1, <3>2, <1>2 DEF GenerationSteps
  <2>15. ASSUME NEW n \in 0..CandidateLimit, CheckAnalyses(s, n), ~EndGeneration(s) PROVE Decided'
    <3>1. \A t \in AISessions \ {s} : generation'[t] = generation[t]
      BY <2>15 DEF CheckAnalyses
    <3>2. AdvanceTo(s, "match")
      BY <2>15 DEF CheckAnalyses
    <3>. QED
      BY <2>1, <3>1, <3>2, <1>2 DEF GenerationSteps
  <2>8. CASE CacheSet(s) \/ RecordDraft(s) \/ StoreInsight(s) \/ RecordMatches(s) \/ GenerationEnds(s)
    BY <2>8, <1>1 DEF CacheSet, RecordDraft, StoreInsight, RecordMatches, GenerationEnds
  <2>. QED
    BY <1>3, <2>1, <2>2, <2>3, <2>4, <2>5, <2>6, <2>7, <2>9, <2>10, <2>11, <2>12, <2>13, <2>14, <2>15, <2>8 DEF Generate
<1>4. CASE UNCHANGED <<generating, generation>>
  BY <1>4 DEF Decided
<1>. QED
  BY <1>3, <1>4 DEF AIGenerationNext, DataChanges, ResetMonth, CacheExpires, aiVars

\* A text that goes over the text it was decided on tells its hash.
LEMMA HashNext ==
    ASSUME AITyped, Decided, HashTellsText, [AIGenerationNext]_aiVars
    PROVE  HashTellsText'
<1>. USE DEF AITyped, AIGenerationTypeOK
<1>1. CASE UNCHANGED <<insight, raced>>
  BY <1>1 DEF HashTellsText
<1>2. ASSUME NEW s \in AISessions, StoreInsight(s), ~UNCHANGED <<insight, raced>>
      PROVE  HashTellsText'
  <2>. DEFINE g == generation[s]
              row == insight[g.candidate]
  <2>1. g \in Generation /\ g.candidate \in Candidates /\ (g.loaded # NoInsight => row # NoInsight)
    BY <1>2 DEF StoreInsight, Concerning, InsightSteps
  <2>2. Stored(g, row) \in Insight
    BY <2>1, StoredTyped
  <2>3. insight' = [insight EXCEPT ![g.candidate] = Stored(g, row)]
    BY <1>2 DEF StoreInsight
  <2>4. ASSUME g.candidate \notin raced' PROVE Stored(g, row).hash = Stored(g, row).text
    <3>1. ~ /\ g.loaded # NoInsight /\ row # g.loaded
            /\ g.regenerate \/ g.late \/ ~g.loaded.valid
      BY <1>2, <2>4 DEF StoreInsight
    <3>2. CASE g.loaded = NoInsight \/ g.loaded.hash # g.version
      BY <3>2 DEF Stored, MadeOf
    <3>3. CASE g.loaded # NoInsight /\ g.loaded.hash = g.version
      <4>1. g.regenerate \/ g.late \/ ~g.loaded.valid
        BY <1>2, <2>1, <3>3 DEF StoreInsight, Decided, Generation
      <4>2. row = g.loaded
        BY <3>1, <3>3, <4>1
      <4>3. row \in Insight
        BY <2>1, <3>3
      <4>. QED
        BY <3>3, <4>2, <4>3 DEF Stored, Insight
    <3>. QED
      BY <3>2, <3>3
  <2>5. \A c \in Candidates \ {g.candidate} : insight'[c] = insight[c] /\ (c \in raced <=> c \in raced')
    BY <1>2, <2>3 DEF StoreInsight
  <2>. QED
    BY <2>1, <2>3, <2>4, <2>5 DEF HashTellsText
<1>3. ASSUME NEW s \in AISessions, Generate(s), ~StoreInsight(s) PROVE UNCHANGED <<insight, raced>>
  BY <1>3 DEF Generate, GenerateDescription, CacheGet, CallDescription, RecordDescription, CacheSet,
     GenerateDraft, CallDraft, RecordDraft, GetInsights, BuildCandidateContext, GetCachedInsight,
     CallInsight, LookUpInsight, GenerateMatches, CheckAnalyses, RecordMatches, GenerationEnds, Ask
<1>. QED
  BY <1>1, <1>2, <1>3 DEF AIGenerationNext, DataChanges, ResetMonth, CacheExpires, aiVars

\* Whatever the requests for insights do, a row whose last text did not go
\* over another request's tells by its hash which data its text is of.
THEOREM HashesTellTexts == AIGenerationSpec => []HashTellsText
<1>1. AIGenerationInit => HashInv
  <2>1. ASSUME AIGenerationInit PROVE Decided /\ HashTellsText
    BY <2>1 DEF AIGenerationInit, Decided, HashTellsText, MadeOf
  <2>. QED
    BY <2>1, AIGenerationInitTyped DEF HashInv
<1>2. HashInv /\ [AIGenerationNext]_aiVars => HashInv'
  BY AIGenerationTyped, DecidedNext, HashNext DEF HashInv
<1>3. HashInv => HashTellsText
  BY DEF HashInv
<1>. QED
  BY <1>1, <1>2, <1>3, PTL DEF AIGenerationSpec

-----------------------------------------------------------------------------
\* The bound on the overrun of the monthly limits.  Among the requests that
\* will still count a use of a limit there is one, the last that was checked,
\* whose use fits with all that are counted, and each of the others adds one
\* use at most, or one for each candidate of a matching.

StepsOf(l) ==
    CASE l = "descriptions" -> {"readCache", "describe", "recordDescription"}
      [] l = "drafts" -> {"draft", "recordDraft"}
      [] l = "insights" -> InsightSteps
      [] l = "runs" -> {"pool", "match"}
      [] l = "analyses" -> {"match"}

Underway(l) == {s \in AISessions : generating[s] \in StepsOf(l)}
Amount(s, l) == IF l = "analyses" THEN generation[s].pool ELSE 1
Most(l) == IF l = "analyses" THEN CandidateLimit ELSE 1
Room(l) == MonthlyLimit[l] + (Cardinality(AISessions) - 1) * Most(l)

Fits(l) ==
    IF Underway(l) = {}
    THEN usedInMonth[l] <= Room(l)
    ELSE \E w \in Underway(l) :
           usedInMonth[l] + Amount(w, l) + (Cardinality(Underway(l)) - 1) * Most(l) <= Room(l)

OverrunInv == AITyped /\ \A l \in Limits : Fits(l)

\* What a request may add is at most what is reckoned with.
LEMMA AmountTyped ==
    ASSUME AITyped, NEW s \in AISessions, NEW l \in Limits
    PROVE  Amount(s, l) \in 0..Most(l) /\ Most(l) \in Nat
<1>1. generation[s].pool \in 0..CandidateLimit
  BY DEF AITyped, AIGenerationTypeOK, Generation
<1>. QED
  BY <1>1, AIGenerationAssumption DEF Amount, Most

\* The requests of a limit are no more than the sessions.
LEMMA RunningFinite ==
    ASSUME NEW l
    PROVE  /\ IsFiniteSet(Underway(l))
           /\ Cardinality(Underway(l)) \in 0..Cardinality(AISessions)
           /\ Cardinality(AISessions) \in Nat \ {0}
<1>1. IsFiniteSet(AISessions) /\ Underway(l) \subseteq AISessions /\ AISessions # {}
  BY AIGenerationAssumption DEF Underway
<1>. QED
  BY <1>1, FS_Subset, FS_CardinalityType, FS_EmptySet

\* More requests need more room.
LEMMA RoomGrows ==
    ASSUME NEW a \in Int, NEW b \in Int, NEW k \in Nat, a <= b
    PROVE  a * k <= b * k /\ (b - 1) * k = b * k - k /\ a * k \in Int
OBVIOUS

\* A step of one session: what it counts is what it was reckoned with, and it
\* begins to count only after a check.
LEMMA SessionFits ==
    ASSUME AITyped, AITyped', NEW s \in AISessions, NEW l \in Limits, Fits(l),
           \A t \in AISessions \ {s} :
               generating'[t] = generating[t] /\ generation'[t] = generation[t],
           s \in Underway(l) /\ s \notin Underway(l)' =>
               usedInMonth'[l] <= usedInMonth[l] + Amount(s, l),
           s \notin Underway(l) \/ s \in Underway(l)' => usedInMonth'[l] = usedInMonth[l],
           s \in Underway(l) /\ s \in Underway(l)' => Amount(s, l)' = Amount(s, l),
           s \notin Underway(l) /\ s \in Underway(l)' =>
               usedInMonth[l] + Amount(s, l)' <= MonthlyLimit[l]
    PROVE  Fits(l)'
<1>. DEFINE R == Underway(l)
            k == Most(l)
            n == Cardinality(R)
            N == Cardinality(AISessions)
<1>1. /\ usedInMonth[l] \in Nat /\ usedInMonth'[l] \in Nat
      /\ MonthlyLimit[l] \in Nat
  BY AIGenerationAssumption DEF AITyped, AIGenerationTypeOK
<1>2. IsFiniteSet(R) /\ n \in 0..N /\ N \in Nat \ {0}
  BY RunningFinite
<1>3. IsFiniteSet(R') /\ n' \in 0..N
  <2>1. IsFiniteSet(AISessions) /\ R' \subseteq AISessions
    BY AIGenerationAssumption DEF Underway
  <2>. HIDE DEF R
  <2>. QED
    BY <2>1, FS_Subset, FS_CardinalityType
<1>4. \A t \in AISessions : Amount(t, l) \in 0..k /\ k \in Nat
  BY AmountTyped
<1>5. \A t \in AISessions : Amount(t, l)' \in 0..k /\ k' = k
  <2>1. \A t \in AISessions : generation'[t].pool \in 0..CandidateLimit
    BY DEF AITyped, AIGenerationTypeOK, Generation
  <2>. QED
    BY <2>1, AIGenerationAssumption DEF Amount, Most
<1>6. \A t \in AISessions \ {s} : Amount(t, l)' = Amount(t, l) /\ (t \in R <=> t \in R')
  BY DEF Amount, Underway
<1>7. R \subseteq AISessions /\ R' \subseteq AISessions
  BY DEF Underway
<1>8. Room(l) = MonthlyLimit[l] + (N - 1) * k /\ Room(l)' = Room(l)
  BY DEF Room, Most
<1>9. (N - 1) * k \in Nat
  BY <1>2, <1>4
<1>10. k \in Nat
  BY <1>4
<1>11. CASE s \notin R /\ s \in R'
  <2>1. (n' - 1) * k <= (N - 1) * k /\ (n' - 1) * k \in Int
    BY <1>3, <1>2, <1>10, RoomGrows
  <2>2. usedInMonth'[l] + Amount(s, l)' + (n' - 1) * k' <= Room(l)'
    BY <2>1, <1>1, <1>5, <1>8, <1>9, <1>11
  <2>. QED
    BY <2>2, <1>11 DEF Fits
<1>12. CASE s \in R <=> s \in R'
  <2>1. R' = R
    BY <1>6, <1>7, <1>12
  <2>2. usedInMonth'[l] = usedInMonth[l] /\ \A t \in R : Amount(t, l)' = Amount(t, l)
    BY <1>6, <1>7, <1>12
  <2>3. k' = k /\ n' = n
    BY <2>1, <1>5
  <2>. QED
    BY <2>1, <2>2, <2>3, <1>8, <1>7 DEF Fits
<1>13. CASE s \in R /\ s \notin R'
  <2>1. R' = R \ {s}
    BY <1>6, <1>7, <1>13
  <2>2. n' = n - 1 /\ n \in Nat \ {0}
    <3>1. Cardinality(R \ {s}) = n - 1
      BY <1>2, <1>13, FS_RemoveElement
    <3>2. n # 0
      BY <1>2, <1>13, FS_EmptySet
    <3>. QED
      BY <2>1, <3>1, <3>2, <1>2
  <2>3. PICK w \in R : usedInMonth[l] + Amount(w, l) + (n - 1) * k <= Room(l)
    BY <1>13 DEF Fits
  <2>4. usedInMonth'[l] <= usedInMonth[l] + Amount(s, l)
    BY <1>13
  <2>5. CASE R' = {}
    <3>1. R = {s}
      BY <2>1, <2>5, <1>13
    <3>2. w = s /\ n = 1
      BY <3>1, FS_Singleton
    <3>3. (n - 1) * k = 0
      BY <3>2, <1>10
    <3>4. usedInMonth'[l] <= Room(l)
      BY <2>3, <2>4, <3>2, <3>3, <1>1, <1>4, <1>8, <1>9
    <3>. QED
      BY <3>4, <2>5, <1>8 DEF Fits
  <2>6. CASE R' # {}
    <3>1. PICK t \in R' : w # s => t = w
      BY <2>1, <2>6
    <3>2. t # s /\ t \in AISessions /\ Amount(t, l)' = Amount(t, l)
      BY <3>1, <2>1, <1>7, <1>6
    <3>3. (n' - 1) * k = (n - 1) * k - k /\ (n - 1) * k \in Int
      BY <2>2, <1>10
    <3>4. Amount(s, l) + Amount(t, l) <= Amount(w, l) + k
      <4>1. CASE w = s
        BY <4>1, <3>2, <1>4
      <4>2. CASE w # s
        BY <4>2, <3>1, <3>2, <1>4
      <4>. QED
        BY <4>1, <4>2
    <3>5. usedInMonth'[l] + Amount(t, l)' + (n' - 1) * k' <= Room(l)'
      BY <2>3, <2>4, <3>2, <3>3, <3>4, <1>1, <1>4, <1>5, <1>7, <1>8, <1>9
    <3>. QED
      BY <3>1, <3>5 DEF Fits
  <2>. QED
    BY <2>5, <2>6
<1>. QED
  BY <1>11, <1>12, <1>13

\* Ending a request frees what was reckoned with for it.
LEMMA EndFits ==
    ASSUME AITyped, AITyped', NEW s \in AISessions, NEW l \in Limits, Fits(l), EndGeneration(s),
           \/ usedInMonth'[l] = usedInMonth[l]
           \/ s \in Underway(l) /\ usedInMonth'[l] = usedInMonth[l] + Amount(s, l)
    PROVE  Fits(l)'
<1>1. \A t \in AISessions \ {s} : generating'[t] = generating[t] /\ generation'[t] = generation[t]
  BY DEF EndGeneration, AdvanceTo, AITyped, AIGenerationTypeOK
<1>2. generating'[s] = "idle"
  BY DEF EndGeneration, AdvanceTo, AITyped, AIGenerationTypeOK
<1>3. s \notin Underway(l)'
  BY <1>2 DEF Underway, StepsOf, Limits, InsightSteps
<1>4. Amount(s, l) \in Nat /\ usedInMonth[l] \in Nat
  BY AmountTyped, AIGenerationAssumption DEF AITyped, AIGenerationTypeOK, Most
<1>. QED
  BY <1>1, <1>3, <1>4, SessionFits

\* A request that begins is reckoned with for the limit it was checked
\* against, and for no other.
LEMMA BeginFits ==
    ASSUME AITyped, AITyped', NEW s \in AISessions, NEW l \in Limits, Fits(l),
           NEW m \in Limits, NEW step, Begin(s, m, step), m # "analyses",
           step \in StepsOf(m), step # "match",
           \A t \in AISessions \ {s} : generation'[t] = generation[t],
           UNCHANGED usedInMonth
    PROVE  Fits(l)'
<1>1. /\ \A t \in AISessions \ {s} : generating'[t] = generating[t]
      /\ generating[s] = "idle" /\ generating'[s] = step
      /\ usedInMonth[m] + 1 <= MonthlyLimit[m]
  BY DEF Begin, AdvanceTo, MonthlyLimitAvailable, AITyped, AIGenerationTypeOK
<1>2. s \notin Underway(l)
  BY <1>1 DEF Underway, StepsOf, Limits, InsightSteps
<1>3. l # m => s \notin Underway(l)'
  BY <1>1 DEF Underway, StepsOf, Limits, InsightSteps
<1>4. l = m => usedInMonth[l] + Amount(s, l)' <= MonthlyLimit[l]
  BY <1>1 DEF Amount
<1>. QED
  BY <1>1, <1>2, <1>3, <1>4, SessionFits

\* A request that goes on is reckoned with as before.
LEMMA ProceedFits ==
    ASSUME AITyped, AITyped', NEW s \in AISessions, NEW l \in Limits, Fits(l),
           NEW step, AdvanceTo(s, step),
           generating[s] \in StepsOf(l) <=> step \in StepsOf(l),
           \A t \in AISessions \ {s} : generation'[t] = generation[t],
           generation'[s].pool = generation[s].pool,
           UNCHANGED usedInMonth
    PROVE  Fits(l)'
<1>1. (\A t \in AISessions \ {s} : generating'[t] = generating[t]) /\ generating'[s] = step
  BY DEF AdvanceTo, AITyped, AIGenerationTypeOK
<1>2. s \in Underway(l) <=> s \in Underway(l)'
  BY <1>1 DEF Underway, StepsOf
<1>3. Amount(s, l)' = Amount(s, l)
  BY DEF Amount
<1>. QED
  BY <1>1, <1>2, <1>3, SessionFits

\* An answer leaves the request where it counts, and none ends it.
LEMMA AskFits ==
    ASSUME AITyped, AITyped', NEW s \in AISessions, NEW l \in Limits, Fits(l),
           NEW asking, NEW answered, Ask(s, asking, answered),
           asking \in StepsOf(l) <=> answered \in StepsOf(l)
    PROVE  Fits(l)'
BY EndFits, ProceedFits DEF Ask

\* No step of a request lets more be counted than there is room for.
LEMMA GenerateFits ==
    ASSUME AITyped, AITyped', NEW s \in AISessions, NEW l \in Limits, Fits(l), Generate(s)
    PROVE  Fits(l)'
<1>. USE DEF AITyped, AIGenerationTypeOK
<1>. DEFINE Others == \A t \in AISessions \ {s} : generation'[t] = generation[t]
            Pool == generation'[s].pool = generation[s].pool
<1>1. ASSUME NEW full \in BOOLEAN, GenerateDescription(s, full) PROVE Fits(l)'
  <2>1. Others /\ UNCHANGED usedInMonth
    BY <1>1 DEF GenerateDescription
  <2>2. "descriptions" \in Limits /\ "readCache" \in StepsOf("descriptions") /\ "describe" \in StepsOf("descriptions")
    BY DEF Limits, StepsOf
  <2>. QED
    BY <1>1, <2>1, <2>2, BeginFits DEF GenerateDescription
<1>2. CASE CacheGet(s)
  <2>1. CASE EndGeneration(s)
    BY <1>2, <2>1, EndFits DEF CacheGet
  <2>2. CASE AdvanceTo(s, "describe") /\ UNCHANGED generation
    <3>1. "readCache" \in StepsOf(l) <=> "describe" \in StepsOf(l)
      BY DEF StepsOf, Limits, InsightSteps
    <3>. QED
      BY <1>2, <2>2, <3>1, ProceedFits DEF CacheGet
  <2>. QED
    BY <1>2, <2>1, <2>2 DEF CacheGet
<1>3. CASE CallDescription(s)
  BY <1>3, AskFits DEF CallDescription, StepsOf, Limits, InsightSteps
<1>4. CASE RecordDescription(s)
  <2>1. l # "descriptions" => usedInMonth'[l] = usedInMonth[l]
    BY <1>4 DEF RecordDescription, Used
  <2>2. l = "descriptions" => s \in Underway(l) /\ usedInMonth'[l] = usedInMonth[l] + Amount(s, l)
    BY <1>4 DEF RecordDescription, Used, Underway, StepsOf, Amount, Limits
  <2>3. CASE EndGeneration(s)
    BY <2>1, <2>2, <2>3, EndFits
  <2>4. CASE AdvanceTo(s, "fillCache") /\ UNCHANGED generation
    <3>1. (\A t \in AISessions \ {s} : generating'[t] = generating[t]) /\ generating'[s] = "fillCache"
      BY <2>4 DEF AdvanceTo
    <3>2. s \notin Underway(l)'
      BY <3>1 DEF Underway, StepsOf, Limits, InsightSteps
    <3>3. l # "descriptions" => s \notin Underway(l)
      BY <1>4 DEF RecordDescription, Underway, StepsOf, Limits, InsightSteps
    <3>4. Amount(s, l) \in Nat /\ usedInMonth[l] \in Nat
      BY AmountTyped, AIGenerationAssumption DEF Most
    <3>. QED
      BY <2>1, <2>2, <2>4, <3>1, <3>2, <3>3, <3>4, SessionFits
  <2>. QED
    BY <1>4, <2>3, <2>4 DEF RecordDescription
<1>5. CASE CacheSet(s) \/ GenerationEnds(s)
  BY <1>5, EndFits DEF CacheSet, GenerationEnds
<1>6. CASE GenerateDraft(s)
  <2>1. "drafts" \in Limits /\ "draft" \in StepsOf("drafts")
    BY DEF Limits, StepsOf
  <2>. QED
    BY <1>6, <2>1, BeginFits DEF GenerateDraft
<1>7. CASE CallDraft(s)
  BY <1>7, AskFits DEF CallDraft, StepsOf, Limits, InsightSteps
<1>8. CASE RecordDraft(s)
  <2>1. l # "drafts" => usedInMonth'[l] = usedInMonth[l]
    BY <1>8 DEF RecordDraft, Used
  <2>2. l = "drafts" => s \in Underway(l) /\ usedInMonth'[l] = usedInMonth[l] + Amount(s, l)
    BY <1>8 DEF RecordDraft, Used, Underway, StepsOf, Amount, Limits
  <2>. QED
    BY <1>8, <2>1, <2>2, EndFits DEF RecordDraft
<1>9. ASSUME NEW c \in Candidates, NEW regenerate \in BOOLEAN, GetInsights(s, c, regenerate)
      PROVE  Fits(l)'
  <2>1. Others /\ UNCHANGED usedInMonth
    BY <1>9 DEF GetInsights
  <2>2. "insights" \in Limits /\ "context" \in StepsOf("insights")
    BY DEF Limits, StepsOf, InsightSteps
  <2>. QED
    BY <1>9, <2>1, <2>2, BeginFits DEF GetInsights
<1>10. CASE BuildCandidateContext(s)
  <2>1. Others /\ Pool /\ UNCHANGED usedInMonth
    BY <1>10 DEF BuildCandidateContext, Generation
  <2>2. "context" \in StepsOf(l) <=> "cachedInsight" \in StepsOf(l)
    BY DEF StepsOf, Limits, InsightSteps
  <2>. QED
    BY <1>10, <2>1, <2>2, ProceedFits DEF BuildCandidateContext
<1>11. CASE GetCachedInsight(s)
  <2>1. CASE EndGeneration(s)
    BY <1>11, <2>1, EndFits DEF GetCachedInsight
  <2>2. CASE ~EndGeneration(s)
    <3>1. Others /\ Pool /\ UNCHANGED usedInMonth
      BY <1>11, <2>2 DEF GetCachedInsight, Generation
    <3>2. "insight" \in StepsOf(l) <=> "cachedInsight" \in StepsOf(l)
      BY DEF StepsOf, Limits, InsightSteps
    <3>. QED
      BY <1>11, <2>2, <3>1, <3>2, ProceedFits DEF GetCachedInsight
  <2>. QED
    BY <2>1, <2>2
<1>12. CASE CallInsight(s)
  BY <1>12, AskFits DEF CallInsight, StepsOf, Limits, InsightSteps
<1>13. CASE LookUpInsight(s)
  <2>1. Others /\ Pool /\ UNCHANGED usedInMonth
    BY <1>13 DEF LookUpInsight, Generation
  <2>2. "upsertInsight" \in StepsOf(l) <=> "storeInsight" \in StepsOf(l)
    BY DEF StepsOf, Limits, InsightSteps
  <2>. QED
    BY <1>13, <2>1, <2>2, ProceedFits DEF LookUpInsight
<1>14. CASE StoreInsight(s)
  <2>1. usedInMonth' = Used("insights", 1) \/ usedInMonth' = usedInMonth
    BY <1>14 DEF StoreInsight
  <2>2. l # "insights" => usedInMonth'[l] = usedInMonth[l]
    BY <2>1 DEF Used
  <2>3. generating[s] = "storeInsight" /\ EndGeneration(s)
    BY <1>14 DEF StoreInsight
  <2>4. l = "insights" => s \in Underway(l)
    BY <2>3 DEF Underway, StepsOf, InsightSteps
  <2>5. l = "insights" => \/ usedInMonth'[l] = usedInMonth[l]
                         \/ usedInMonth'[l] = usedInMonth[l] + Amount(s, l)
    BY <2>1 DEF Used, Amount
  <2>. QED
    BY <2>2, <2>3, <2>4, <2>5, EndFits
<1>15. CASE GenerateMatches(s)
  <2>1. "runs" \in Limits /\ "pool" \in StepsOf("runs")
    BY DEF Limits, StepsOf
  <2>. QED
    BY <1>15, <2>1, BeginFits DEF GenerateMatches
<1>16. ASSUME NEW n \in 0..CandidateLimit, CheckAnalyses(s, n) PROVE Fits(l)'
  <2>1. CASE EndGeneration(s)
    BY <1>16, <2>1, EndFits DEF CheckAnalyses
  <2>2. CASE ~EndGeneration(s)
    <3>1. /\ Others /\ UNCHANGED usedInMonth /\ generation'[s].pool = n
          /\ \A t \in AISessions \ {s} : generating'[t] = generating[t]
          /\ generating[s] = "pool" /\ generating'[s] = "match"
          /\ usedInMonth["analyses"] + n <= MonthlyLimit["analyses"]
      BY <1>16, <2>2 DEF CheckAnalyses, AdvanceTo, MonthlyLimitAvailable, Generation
    <3>2. l # "analyses" => (s \in Underway(l) <=> s \in Underway(l)') /\ Amount(s, l)' = Amount(s, l)
      BY <3>1 DEF Underway, StepsOf, Amount, Limits, InsightSteps
    <3>3. l = "analyses" => s \notin Underway(l) /\ usedInMonth[l] + Amount(s, l)' <= MonthlyLimit[l]
      BY <3>1 DEF Underway, StepsOf, Amount
    <3>4. l = "analyses" => s \in Underway(l)'
      BY <3>1 DEF Underway, StepsOf
    <3>. QED
      BY <3>1, <3>2, <3>3, <3>4, SessionFits
  <2>. QED
    BY <2>1, <2>2
<1>17. CASE RecordMatches(s)
  <2>1. generating[s] = "match" /\ EndGeneration(s)
    BY <1>17 DEF RecordMatches
  <2>2. l \in {"runs", "analyses"} => s \in Underway(l)
    BY <2>1 DEF Underway, StepsOf
  <2>. DEFINE oneRun == Used("runs", 1)
  <2>3. usedInMonth' = [oneRun EXCEPT !["analyses"] = @ + generation[s].pool]
    BY <1>17 DEF RecordMatches
  <2>4. /\ oneRun \in [Limits -> Nat] /\ oneRun["runs"] = usedInMonth["runs"] + 1
        /\ \A m \in Limits \ {"runs"} : oneRun[m] = usedInMonth[m]
    BY UsedTyped DEF Used, Limits
  <2>. HIDE DEF oneRun
  <2>5. l \notin {"runs", "analyses"} => usedInMonth'[l] = usedInMonth[l]
    BY <2>3, <2>4
  <2>6. l \in {"runs", "analyses"} => usedInMonth'[l] = usedInMonth[l] + Amount(s, l)
    BY <2>3, <2>4 DEF Amount, Limits
  <2>. QED
    BY <2>1, <2>2, <2>5, <2>6, EndFits
<1>. QED
  BY <1>1, <1>2, <1>3, <1>4, <1>5, <1>6, <1>7, <1>8, <1>9, <1>10, <1>11, <1>12, <1>13, <1>14,
     <1>15, <1>16, <1>17 DEF Generate

\* A month that turns leaves more room.
LEMMA ResetFits ==
    ASSUME AITyped, AITyped', NEW l \in Limits, Fits(l), UNCHANGED <<generating, generation>>,
           usedInMonth'[l] <= usedInMonth[l]
    PROVE  Fits(l)'
<1>1. usedInMonth[l] \in Nat /\ usedInMonth'[l] \in Nat /\ MonthlyLimit[l] \in Nat
  BY AIGenerationAssumption DEF AITyped, AIGenerationTypeOK
<1>2. Most(l) \in Nat /\ \A t \in AISessions : Amount(t, l) \in Nat
  <2>1. Most(l) \in Nat
    BY AIGenerationAssumption DEF Most
  <2>. QED
    BY <2>1, AmountTyped
<1>3. Underway(l)' = Underway(l) /\ Underway(l) \subseteq AISessions
  BY DEF Underway
<1>4. Room(l)' = Room(l) /\ (Cardinality(Underway(l)) - 1) * Most(l) \in Int /\ Room(l) \in Int
  <2>1. Cardinality(Underway(l)) \in Int /\ Cardinality(AISessions) \in Int
    BY RunningFinite
  <2>. QED
    BY <2>1, <1>1, <1>2 DEF Room, Most
<1>5. \A t \in AISessions : Amount(t, l)' = Amount(t, l)
  BY DEF Amount
<1>6. Most(l)' = Most(l)
  BY DEF Most
<1>. QED
  BY <1>1, <1>2, <1>3, <1>4, <1>5, <1>6 DEF Fits

\* No step lets a limit be counted beyond its room.
LEMMA OverrunInvNext ==
    OverrunInv /\ [AIGenerationNext]_aiVars => OverrunInv'
<1>. SUFFICES ASSUME OverrunInv, [AIGenerationNext]_aiVars, NEW l \in Limits
              PROVE  AITyped' /\ Fits(l)'
  BY AIGenerationTyped DEF OverrunInv
<1>1. AITyped /\ AITyped' /\ Fits(l)
  BY AIGenerationTyped DEF OverrunInv
<1>2. ASSUME NEW s \in AISessions, Generate(s) PROVE Fits(l)'
  BY <1>1, <1>2, GenerateFits
<1>3. ASSUME NEW S \in SUBSET Limits, ResetMonth(S) PROVE Fits(l)'
  <2>1. usedInMonth[l] \in Nat /\ usedInMonth'[l] \in {0, usedInMonth[l]}
    BY <1>1, <1>3 DEF ResetMonth, AITyped, AIGenerationTypeOK
  <2>. QED
    BY <1>1, <1>3, <2>1, ResetFits DEF ResetMonth
<1>4. CASE UNCHANGED <<usedInMonth, generating, generation>>
  <2>1. usedInMonth'[l] = usedInMonth[l] /\ usedInMonth[l] \in Nat
    BY <1>1, <1>4 DEF AITyped, AIGenerationTypeOK
  <2>. QED
    BY <1>1, <1>4, <2>1, ResetFits
<1>. QED
  BY <1>1, <1>2, <1>3, <1>4 DEF AIGenerationNext, DataChanges, CacheExpires, aiVars

\* For any number of sessions and any limits, requests at once overrun a
\* monthly limit by no more than what all of them but one use.
THEOREM MonthOverrunIsBounded == AIGenerationSpec => []MonthOverrunBounded
<1>1. AIGenerationInit => OverrunInv
  <2>. SUFFICES ASSUME AIGenerationInit, NEW l \in Limits
                PROVE  AITyped /\ Fits(l)
    BY AIGenerationInitTyped DEF OverrunInv
  <2>1. Underway(l) = {}
    BY DEF AIGenerationInit, Underway, StepsOf, Limits, InsightSteps
  <2>2. Cardinality(AISessions) - 1 \in Nat /\ Most(l) \in Nat /\ MonthlyLimit[l] \in Nat
    BY RunningFinite, AIGenerationAssumption DEF Most
  <2>3. (Cardinality(AISessions) - 1) * Most(l) \in Nat
    BY <2>2
  <2>4. usedInMonth[l] <= Room(l)
    BY <2>2, <2>3 DEF AIGenerationInit, Room
  <2>. QED
    BY <2>1, <2>4, AIGenerationInitTyped DEF Fits
<1>2. OverrunInv => MonthOverrunBounded
  <2>. SUFFICES ASSUME OverrunInv, NEW l \in Limits
                PROVE  usedInMonth[l] <= Room(l)
    BY DEF MonthOverrunBounded, Room, Most
  <2>1. AITyped /\ Fits(l)
    BY DEF OverrunInv
  <2>2. CASE Underway(l) # {}
    <3>1. PICK w \in Underway(l) :
            usedInMonth[l] + Amount(w, l) + (Cardinality(Underway(l)) - 1) * Most(l) <= Room(l)
      BY <2>1, <2>2 DEF Fits
    <3>2. w \in AISessions
      BY DEF Underway
    <3>3. Amount(w, l) \in Nat /\ Most(l) \in Nat
      BY <2>1, <3>2, AmountTyped, AIGenerationAssumption DEF Most
    <3>4. Cardinality(Underway(l)) - 1 \in Nat
      BY <2>2, RunningFinite, FS_EmptySet
    <3>5. (Cardinality(Underway(l)) - 1) * Most(l) \in Nat
      BY <3>3, <3>4
    <3>6. Room(l) \in Int /\ usedInMonth[l] \in Nat
      <4>1. Cardinality(AISessions) \in Nat /\ MonthlyLimit[l] \in Nat
        BY RunningFinite, AIGenerationAssumption
      <4>. QED
        BY <2>1, <4>1, <3>3 DEF Room, AITyped, AIGenerationTypeOK
    <3>. QED
      BY <3>1, <3>3, <3>5, <3>6
  <2>. QED
    BY <2>1, <2>2 DEF Fits
<1>. QED
  BY <1>1, <1>2, OverrunInvNext, PTL DEF AIGenerationSpec

-----------------------------------------------------------------------------
\* Digests of job alerts.  A start of a process may still mail a digest of a
\* window while its loop has not reached the window, or is at it and has the
\* alert before it; sending takes the alert away, the end of a run remembers
\* its window, and only a new start or a clock that is set back forgets.

\* What a loop remembers is not ahead of time, and the alert that it is about
\* to mail is no longer among those to come.
SchedulersOk ==
    \A i \in Instances :
        /\ scheduler[i].previous <= due /\ scheduler[i].runAt <= due
        /\ scheduler[i].stage = "mail" => scheduler[i].alert \notin scheduler[i].todo
        /\ scheduler[i].ahead => scheduler[i].stage = "idle" /\ scheduler[i].previous # -1

MayMail(i, a, w) ==
    \/ scheduler[i].stage = "idle" /\ scheduler[i].previous < w
    \/ scheduler[i].stage = "idle" /\ scheduler[i].ahead /\ scheduler[i].previous = w
    \/ Running(i) /\ scheduler[i].runAt < w
    \/ /\ Running(i) /\ scheduler[i].runAt = w
       /\ a \in scheduler[i].todo \/ (scheduler[i].stage = "mail" /\ scheduler[i].alert = a)

StillMailing(a, w) == {i \in Instances : MayMail(i, a, w)}

Chances == Starts + setBacks

MailBound(a, w) == mails[<<a, w>>] + Cardinality(StillMailing(a, w)) <= Chances

DigestInv ==
    /\ DigestTypeOK /\ SchedulersOk
    /\ \A a \in Alerts, w \in Windows : MailBound(a, w)

\* Starts are counted by a number, and a start adds one.
LEMMA StartsAre ==
    ASSUME DigestTypeOK
    PROVE  /\ Starts \in Nat
           /\ \A i \in Instances : starts' = [starts EXCEPT ![i] = @ + 1] => Starts' = Starts + 1
           /\ starts' = starts => Starts' = Starts
<1>1. Starts \in Nat
  BY SumIsCount, UnitsFinite, FS_CardinalityType, JobAlertDigestsAssumption DEF Starts, DigestTypeOK
<1>2. ASSUME NEW i \in Instances, starts' = [starts EXCEPT ![i] = @ + 1] PROVE Starts' = Starts + 1
  BY <1>2, SumGrows, JobAlertDigestsAssumption DEF Starts, DigestTypeOK
<1>. QED
  BY <1>1, <1>2 DEF Starts

\* The starts and the times a clock was set back, counted together.
LEMMA ChancesAre ==
    ASSUME DigestTypeOK
    PROVE  /\ Chances \in Nat
           /\ starts' = starts /\ setBacks' = setBacks => Chances' = Chances
           /\ starts' = starts /\ setBacks' = setBacks + 1 => Chances' = Chances + 1
           /\ \A i \in Instances :
                starts' = [starts EXCEPT ![i] = @ + 1] /\ setBacks' = setBacks => Chances' = Chances + 1
<1>1. setBacks \in Nat
  BY DEF DigestTypeOK
<1>. QED
  BY <1>1, StartsAre DEF Chances

\* The processes that may still mail are finitely many.
LEMMA MailersFinite ==
    ASSUME NEW a, NEW w
    PROVE  IsFiniteSet(StillMailing(a, w)) /\ Cardinality(StillMailing(a, w)) \in Nat
<1>1. StillMailing(a, w) \subseteq Instances
  BY DEF StillMailing
<1>. QED
  BY <1>1, JobAlertDigestsAssumption, FS_Subset, FS_CardinalityType

\* At the start, nothing is mailed.
LEMMA DigestInitOk == DigestInit => DigestInv
<1>. SUFFICES ASSUME DigestInit PROVE DigestInv
  OBVIOUS
<1>1. Down \in Scheduler
  BY JobAlertDigestsAssumption DEF Down, Scheduler
<1>2. DigestTypeOK
  BY <1>1, JobAlertDigestsAssumption DEF DigestInit, DigestTypeOK, DeliveryStatuses, Unmailed
<1>3. SchedulersOk
  BY DEF DigestInit, SchedulersOk, Down
<1>4. ASSUME NEW a \in Alerts, NEW w \in Windows PROVE MailBound(a, w)
  <2>1. StillMailing(a, w) = {}
    BY DEF DigestInit, StillMailing, MayMail, Running, Down
  <2>2. mails[<<a, w>>] = 0
    BY DEF DigestInit
  <2>. QED
    BY <1>2, <2>1, <2>2, ChancesAre, FS_EmptySet DEF MailBound
<1>. QED
  BY <1>2, <1>3, <1>4 DEF DigestInv

\* A loop that goes to its next alert or mails one stays well typed.
LEMMA ReservedTyped ==
    ASSUME DigestTypeOK, NEW i \in Instances,
           NEW stage \in {"mail", "next"}, NEW alert \in Alerts \cup {NoAlert},
           NEW joined \in BOOLEAN, NEW todo \in SUBSET Alerts,
           scheduler' = [scheduler EXCEPT ![i].todo = todo, ![i].joined = joined,
                                          ![i].stage = stage, ![i].alert = alert]
    PROVE  scheduler' \in [Instances -> Scheduler]
<1>1. scheduler[i] \in Scheduler
  BY DEF DigestTypeOK
<1>2. scheduler'[i] = [[scheduler[i] EXCEPT !.todo = todo, !.joined = joined]
                          EXCEPT !.stage = stage, !.alert = alert]
  BY DEF DigestTypeOK
<1>3. [scheduler[i] EXCEPT !.todo = todo, !.joined = joined] \in Scheduler
  BY <1>1 DEF Scheduler
<1>4. ASSUME NEW q \in Scheduler PROVE [q EXCEPT !.stage = stage, !.alert = alert] \in Scheduler
  BY <1>4 DEF Scheduler
<1>5. scheduler'[i] \in Scheduler
  BY <1>2, <1>3, <1>4
<1>. QED
  BY <1>5 DEF DigestTypeOK

\* Every step of a loop keeps the state well typed.
LEMMA DigestTyped == DigestInv /\ [DigestNext]_digestVars => DigestTypeOK' /\ SchedulersOk'
<1>. SUFFICES ASSUME DigestInv, [DigestNext]_digestVars PROVE DigestTypeOK' /\ SchedulersOk'
  OBVIOUS
<1>. USE DEF DigestInv, DigestTypeOK, SchedulersOk
<1>0. Down \in Scheduler /\ due \in Int /\ 0 <= due
  BY JobAlertDigestsAssumption DEF Down, Scheduler
<1>1. ASSUME NEW i \in Instances, StartScheduler(i) PROVE DigestTypeOK' /\ SchedulersOk'
  <2>1. scheduler' = [scheduler EXCEPT ![i].stage = "idle"] /\ due' = due
    BY <1>1 DEF StartScheduler
  <2>2. scheduler' \in [Instances -> Scheduler] /\ SchedulersOk'
    BY <1>1, <2>1, <1>0 DEF StartScheduler, Scheduler
  <2>. QED
    BY <1>1, <2>2, <1>0 DEF StartScheduler
<1>2. ASSUME NEW i \in Instances, TickSkipped(i) PROVE DigestTypeOK' /\ SchedulersOk'
  <2>. DEFINE latest == DueNow(scheduler[i])
  <2>1. /\ scheduler' = [scheduler EXCEPT ![i].previous = latest, ![i].ahead = FALSE]
        /\ due' = due /\ scheduler[i].stage = "idle"
    BY <1>2 DEF TickSkipped
  <2>2. latest \in 0..LastWindow /\ latest <= due
    BY <1>0 DEF DueNow, Scheduler
  <2>. HIDE DEF latest
  <2>3. scheduler' \in [Instances -> Scheduler]
    <3>1. ASSUME NEW q \in Scheduler PROVE [q EXCEPT !.previous = latest, !.ahead = FALSE] \in Scheduler
      <4>1. latest \in -1..LastWindow
        BY <2>2
      <4>. QED
        BY <4>1 DEF Scheduler
    <3>. QED
      BY <2>1, <3>1
  <2>4. SchedulersOk'
    BY <2>1, <2>2, <1>0 DEF Scheduler
  <2>. QED
    BY <1>2, <2>3, <2>4 DEF TickSkipped
<1>14. ASSUME NEW i \in Instances, ClockSetBack(i) PROVE DigestTypeOK' /\ SchedulersOk'
  <2>1. scheduler' = [scheduler EXCEPT ![i].ahead = TRUE] /\ due' = due
    BY <1>14 DEF ClockSetBack
  <2>2. scheduler' \in [Instances -> Scheduler]
    <3>1. ASSUME NEW q \in Scheduler PROVE [q EXCEPT !.ahead = TRUE] \in Scheduler
      BY DEF Scheduler
    <3>. QED
      BY <2>1, <3>1
  <2>3. /\ scheduler[i].stage = "idle" /\ scheduler[i].previous # -1
        /\ setBacks' = setBacks + 1
    BY <1>14 DEF ClockSetBack
  <2>4. SchedulersOk'
    BY <2>1, <2>3, <1>0 DEF Scheduler
  <2>. QED
    BY <1>14, <2>2, <2>3, <2>4 DEF ClockSetBack
<1>3. ASSUME NEW i \in Instances, Tick(i) PROVE DigestTypeOK' /\ SchedulersOk'
  <2>. DEFINE todo == IF DueSince(scheduler[i]) THEN Alerts ELSE {}
              held == lock = i
              latest == DueNow(scheduler[i])
              next == [scheduler[i] EXCEPT !.stage = "next", !.runAt = latest, !.ahead = FALSE,
                                           !.held = held, !.todo = todo]
  <2>0. scheduler' = [scheduler EXCEPT ![i] = next] /\ due' = due
    BY <1>3 DEF Tick
  <2>1. scheduler[i] \in Scheduler /\ latest \in 0..LastWindow /\ latest <= due
    BY <1>0 DEF DueNow, Scheduler
  <2>4. todo \in SUBSET Alerts /\ held \in BOOLEAN
    OBVIOUS
  <2>. HIDE DEF todo, held, latest
  <2>5. next \in Scheduler /\ next.previous = scheduler[i].previous /\ next.runAt = latest
        /\ next.stage = "next" /\ ~next.ahead
    BY <2>1, <2>4 DEF Scheduler
  <2>. HIDE DEF next
  <2>2. scheduler' \in [Instances -> Scheduler]
    BY <2>0, <2>5
  <2>3. SchedulersOk'
    BY <2>0, <2>1, <2>5
  <2>. QED
    BY <1>3, <2>2, <2>3 DEF Tick
<1>4. ASSUME NEW i \in Instances, StatementFails(i) PROVE DigestTypeOK' /\ SchedulersOk'
  BY <1>4, <1>0 DEF StatementFails, Scheduler
<1>5. ASSUME NEW i \in Instances, NEW a \in Alerts, ReserveDelivery(i, a)
      PROVE  DigestTypeOK' /\ SchedulersOk'
  <2>1. kept' \in [Alerts \X Windows -> DeliveryStatuses]
    BY <1>5 DEF ReserveDelivery, DeliveryStatuses
  <2>. DEFINE mailed == kept[<<a, scheduler[i].runAt>>] = Unmailed
                        \/ kept[<<a, scheduler[i].runAt>>] = "FAILED"
              joined == scheduler[i].joined /\ kept[<<a, scheduler[i].runAt>>] = Unmailed
  <2>2. scheduler' = [scheduler EXCEPT ![i].todo = @ \ {a}, ![i].joined = joined,
                        ![i].stage = IF mailed THEN "mail" ELSE "next",
                        ![i].alert = IF mailed THEN a ELSE NoAlert]
    BY <1>5 DEF ReserveDelivery
  <2>3. mailed \in BOOLEAN /\ joined \in BOOLEAN
    OBVIOUS
  <2>. HIDE DEF mailed, joined
  <2>4. scheduler' \in [Instances -> Scheduler]
    <3>1. scheduler[i].todo \ {a} \in SUBSET Alerts
      BY DEF Scheduler
    <3>2. PICK stage \in {"mail", "next"}, alert \in Alerts \cup {NoAlert},
               flag \in BOOLEAN, todo \in SUBSET Alerts :
            scheduler' = [scheduler EXCEPT ![i].todo = todo, ![i].joined = flag,
                                           ![i].stage = stage, ![i].alert = alert]
      BY <2>2, <2>3, <3>1
    <3>. HIDE DEF DigestInv
    <3>3. DigestTypeOK
      BY DEF DigestInv
    <3>. QED
      BY <3>2, <3>3, ReservedTyped, Zenon
  <2>5. SchedulersOk'
    BY <1>5, <2>2, JobAlertDigestsAssumption DEF ReserveDelivery, Scheduler
  <2>. QED
    BY <1>5, <2>1, <2>4, <2>5 DEF ReserveDelivery
<1>6. ASSUME NEW i \in Instances, InAppDigestFails(i) PROVE DigestTypeOK' /\ SchedulersOk'
  BY <1>6, <1>0 DEF InAppDigestFails, Scheduler
<1>7. ASSUME NEW i \in Instances, SendDigestEmail(i) PROVE DigestTypeOK' /\ SchedulersOk'
  <2>. DEFINE d == <<scheduler[i].alert, scheduler[i].runAt>>
  <2>1. CASE /\ mails' = [mails EXCEPT ![d] = @ + 1]
             /\ scheduler' = [scheduler EXCEPT ![i].stage = "mark"]
             /\ UNCHANGED kept
    <3>1. mails' \in [Alerts \X Windows -> Nat]
      <4>. HIDE DEF d
      <4>1. \A x \in Alerts \X Windows : mails'[x] = IF x = d THEN mails[x] + 1 ELSE mails[x]
        BY <2>1
      <4>2. DOMAIN mails' = Alerts \X Windows /\ mails' = [x \in DOMAIN mails' |-> mails'[x]]
        BY <2>1
      <4>3. \A x \in Alerts \X Windows : mails[x] \in Nat
        OBVIOUS
      <4>. QED
        BY <4>1, <4>2, <4>3
    <3>2. scheduler' \in [Instances -> Scheduler] /\ SchedulersOk'
      BY <1>7, <2>1, <1>0 DEF SendDigestEmail, Scheduler
    <3>. QED
      BY <1>7, <2>1, <3>1, <3>2 DEF SendDigestEmail
  <2>2. CASE /\ kept' = IF scheduler[i].joined THEN kept ELSE [kept EXCEPT ![d] = "FAILED"]
             /\ scheduler' = [scheduler EXCEPT ![i].stage = "next", ![i].alert = NoAlert]
             /\ UNCHANGED mails
    <3>1. kept' \in [Alerts \X Windows -> DeliveryStatuses]
      BY <2>2 DEF DeliveryStatuses
    <3>2. scheduler' \in [Instances -> Scheduler] /\ SchedulersOk'
      BY <1>7, <2>2, <1>0 DEF SendDigestEmail, Scheduler
    <3>. QED
      BY <1>7, <2>2, <3>1, <3>2 DEF SendDigestEmail
  <2>. QED
    BY <1>7, <2>1, <2>2 DEF SendDigestEmail
<1>8. ASSUME NEW i \in Instances, MarkSent(i) PROVE DigestTypeOK' /\ SchedulersOk'
  BY <1>8, <1>0 DEF MarkSent, Scheduler, DeliveryStatuses
<1>9. ASSUME NEW i \in Instances, EndRun(i) PROVE DigestTypeOK' /\ SchedulersOk'
  <2>1. ASSUME NEW q \in Scheduler PROVE AfterRun(q) \in Scheduler
    <3>1. q.runAt \in -1..LastWindow /\ 0 \in 0..LastWindow
      BY JobAlertDigestsAssumption DEF Scheduler
    <3>. QED
      BY <3>1 DEF AfterRun, Scheduler
  <2>2. /\ AfterRun(scheduler[i]).previous <= due /\ AfterRun(scheduler[i]).runAt <= due
        /\ AfterRun(scheduler[i]).stage = "idle" /\ ~AfterRun(scheduler[i]).ahead
    BY <1>9, <1>0 DEF EndRun, AfterRun, Scheduler
  <2>3. lock' \in Instances \cup {NoInstance}
    BY <1>9 DEF EndRun
  <2>. QED
    BY <1>9, <2>1, <2>2, <2>3 DEF EndRun
<1>10. ASSUME NEW i \in Instances, ConnectionRecycled(i) PROVE DigestTypeOK' /\ SchedulersOk'
  BY <1>10, <1>0 DEF ConnectionRecycled
<1>11. ASSUME NEW i \in Instances, ProcessEnds(i) PROVE DigestTypeOK' /\ SchedulersOk'
  <2>1. Down.previous <= due /\ Down.runAt <= due /\ Down.stage = "down"
    BY <1>0 DEF Down
  <2>2. ~Down.ahead
    BY DEF Down
  <2>. QED
    BY <1>11, <1>0, <2>1, <2>2 DEF ProcessEnds
<1>12. CASE WindowBecomesDue
  BY <1>12, <1>0, JobAlertDigestsAssumption DEF WindowBecomesDue, Scheduler
<1>13. CASE UNCHANGED digestVars
  BY <1>13 DEF digestVars
<1>. QED
  BY <1>1, <1>2, <1>3, <1>4, <1>5, <1>6, <1>7, <1>8, <1>9, <1>10, <1>11, <1>12, <1>13, <1>14 DEF DigestNext

\* No step but a start lets anyone mail who could not before.
LEMMA FewerMailers ==
    ASSUME DigestInv, NEW a \in Alerts, NEW w \in Windows,
           StillMailing(a, w)' \subseteq StillMailing(a, w),
           mails'[<<a, w>>] = mails[<<a, w>>], starts' = starts, setBacks' = setBacks
    PROVE  MailBound(a, w)'
<1>1. Cardinality(StillMailing(a, w)') <= Cardinality(StillMailing(a, w))
  BY MailersFinite, FS_Subset
<1>2. /\ Cardinality(StillMailing(a, w)) \in Nat /\ Cardinality(StillMailing(a, w)') \in Nat
  BY MailersFinite, FS_Subset, FS_CardinalityType
<1>3. mails[<<a, w>>] \in Nat /\ Chances \in Nat /\ Chances' = Chances
  BY ChancesAre DEF DigestInv, DigestTypeOK
<1>4. mails[<<a, w>>] + Cardinality(StillMailing(a, w)) <= Chances
  BY DEF DigestInv, MailBound
<1>. QED
  BY <1>1, <1>2, <1>3, <1>4 DEF MailBound

\* A start lets one process more mail.
LEMMA StartBound ==
    ASSUME DigestInv, NEW i \in Instances, StartScheduler(i), NEW a \in Alerts, NEW w \in Windows
    PROVE  MailBound(a, w)'
<1>1. StillMailing(a, w)' \subseteq StillMailing(a, w) \cup {i}
  BY DEF StartScheduler, StillMailing, MayMail, Running, DigestInv, DigestTypeOK, Scheduler
<1>2. Cardinality(StillMailing(a, w)') <= Cardinality(StillMailing(a, w)) + 1
      /\ Cardinality(StillMailing(a, w)') \in Nat /\ Cardinality(StillMailing(a, w)) \in Nat
  BY <1>1, MailersFinite, WithinOneMore
<1>3. mails[<<a, w>>] \in Nat /\ Chances \in Nat /\ Chances' = Chances + 1 /\ mails' = mails
  BY ChancesAre DEF StartScheduler, DigestInv, DigestTypeOK
<1>4. mails[<<a, w>>] + Cardinality(StillMailing(a, w)) <= Chances
  BY DEF DigestInv, MailBound
<1>. QED
  BY <1>2, <1>3, <1>4 DEF MailBound

\* A clock that is set back lets one process more mail.
LEMMA SetBackBound ==
    ASSUME DigestInv, NEW i \in Instances, ClockSetBack(i), NEW a \in Alerts, NEW w \in Windows
    PROVE  MailBound(a, w)'
<1>1. StillMailing(a, w)' \subseteq StillMailing(a, w) \cup {i}
  BY DEF ClockSetBack, StillMailing, MayMail, Running, DigestInv, DigestTypeOK, Scheduler
<1>2. Cardinality(StillMailing(a, w)') <= Cardinality(StillMailing(a, w)) + 1
      /\ Cardinality(StillMailing(a, w)') \in Nat /\ Cardinality(StillMailing(a, w)) \in Nat
  BY <1>1, MailersFinite, WithinOneMore
<1>3. mails[<<a, w>>] \in Nat /\ Chances \in Nat /\ Chances' = Chances + 1 /\ mails' = mails
  BY ChancesAre DEF ClockSetBack, DigestInv, DigestTypeOK
<1>4. mails[<<a, w>>] + Cardinality(StillMailing(a, w)) <= Chances
  BY DEF DigestInv, MailBound
<1>. QED
  BY <1>2, <1>3, <1>4 DEF MailBound

\* The mail of a digest is the last that its start sends of it.
LEMMA SendBound ==
    ASSUME DigestInv, NEW i \in Instances, SendDigestEmail(i), NEW a \in Alerts, NEW w \in Windows
    PROVE  MailBound(a, w)'
<1>. DEFINE d == <<scheduler[i].alert, scheduler[i].runAt>>
<1>1. /\ \A j \in Instances \ {i} : scheduler'[j] = scheduler[j]
      /\ scheduler'[i].stage \in {"mark", "next"} /\ scheduler'[i].runAt = scheduler[i].runAt
      /\ scheduler'[i].todo = scheduler[i].todo /\ scheduler[i].stage = "mail"
  BY DEF SendDigestEmail, DigestInv, DigestTypeOK, Scheduler
<1>2. StillMailing(a, w)' \subseteq StillMailing(a, w)
  BY <1>1 DEF StillMailing, MayMail, Running
<1>3. starts' = starts /\ setBacks' = setBacks
  BY DEF SendDigestEmail
<1>4. CASE mails'[<<a, w>>] = mails[<<a, w>>]
  BY <1>2, <1>3, <1>4, FewerMailers
<1>5. CASE mails'[<<a, w>>] # mails[<<a, w>>]
  <2>1. d = <<a, w>> /\ mails'[<<a, w>>] = mails[<<a, w>>] + 1
    BY <1>5 DEF SendDigestEmail, DigestInv, DigestTypeOK
  <2>2. i \in StillMailing(a, w)
    BY <1>1, <2>1 DEF StillMailing, MayMail, Running
  <2>3. i \notin StillMailing(a, w)'
    BY <1>1, <2>1 DEF StillMailing, MayMail, Running, DigestInv, SchedulersOk, Windows
  <2>4. StillMailing(a, w)' \subseteq StillMailing(a, w) \ {i}
    BY <1>2, <2>3
  <2>5. /\ Cardinality(StillMailing(a, w) \ {i}) = Cardinality(StillMailing(a, w)) - 1
        /\ IsFiniteSet(StillMailing(a, w) \ {i})
    BY <2>2, MailersFinite, FS_RemoveElement
  <2>6. /\ Cardinality(StillMailing(a, w)') <= Cardinality(StillMailing(a, w) \ {i})
        /\ Cardinality(StillMailing(a, w)') \in Nat
    BY <2>4, <2>5, FS_Subset, FS_CardinalityType
  <2>7. mails[<<a, w>>] \in Nat /\ Chances \in Nat /\ Chances' = Chances
        /\ Cardinality(StillMailing(a, w)) \in Nat
    BY <1>3, ChancesAre, MailersFinite DEF DigestInv, DigestTypeOK
  <2>8. mails[<<a, w>>] + Cardinality(StillMailing(a, w)) <= Chances
    BY DEF DigestInv, MailBound
  <2>. QED
    BY <2>1, <2>5, <2>6, <2>7, <2>8 DEF MailBound
<1>. QED
  BY <1>4, <1>5

\* Every step keeps mails and those who may still mail within the starts.
LEMMA BoundKept ==
    ASSUME DigestInv, [DigestNext]_digestVars, NEW a \in Alerts, NEW w \in Windows
    PROVE  MailBound(a, w)'
<1>. USE DEF DigestInv, DigestTypeOK, Scheduler, StillMailing, MayMail, Running, Windows
<1>1. ASSUME NEW i \in Instances, TickSkipped(i) PROVE MailBound(a, w)'
  <2>1. StillMailing(a, w)' \subseteq StillMailing(a, w)
    BY <1>1 DEF TickSkipped, SchedulersOk, DueNow
  <2>. QED
    BY <1>1, <2>1, FewerMailers DEF TickSkipped
<1>2. ASSUME NEW i \in Instances, Tick(i) PROVE MailBound(a, w)'
  <2>1. StillMailing(a, w)' \subseteq StillMailing(a, w)
    BY <1>2 DEF Tick, SchedulersOk, DueSince, DueNow
  <2>. QED
    BY <1>2, <2>1, FewerMailers DEF Tick
<1>3. ASSUME NEW i \in Instances, StatementFails(i) PROVE MailBound(a, w)'
  <2>1. StillMailing(a, w)' \subseteq StillMailing(a, w)
    BY <1>3 DEF StatementFails
  <2>. QED
    BY <1>3, <2>1, FewerMailers DEF StatementFails
<1>4. ASSUME NEW i \in Instances, NEW b \in Alerts, ReserveDelivery(i, b) PROVE MailBound(a, w)'
  <2>1. /\ \A j \in Instances \ {i} : scheduler'[j] = scheduler[j]
        /\ scheduler'[i].runAt = scheduler[i].runAt /\ scheduler'[i].todo \subseteq scheduler[i].todo
        /\ scheduler'[i].stage \in {"next", "mail"} /\ scheduler[i].stage = "next"
        /\ scheduler'[i].alert \in {b, NoAlert} /\ b \in scheduler[i].todo
    BY <1>4 DEF ReserveDelivery
  <2>2. StillMailing(a, w)' \subseteq StillMailing(a, w)
    BY <2>1, JobAlertDigestsAssumption
  <2>3. mails' = mails /\ starts' = starts /\ setBacks' = setBacks
    BY <1>4 DEF ReserveDelivery
  <2>. QED
    BY <2>2, <2>3, FewerMailers
<1>5. ASSUME NEW i \in Instances, InAppDigestFails(i) PROVE MailBound(a, w)'
  <2>1. StillMailing(a, w)' \subseteq StillMailing(a, w)
    BY <1>5 DEF InAppDigestFails
  <2>. QED
    BY <1>5, <2>1, FewerMailers DEF InAppDigestFails
<1>6. ASSUME NEW i \in Instances, MarkSent(i) PROVE MailBound(a, w)'
  <2>1. StillMailing(a, w)' \subseteq StillMailing(a, w)
    BY <1>6 DEF MarkSent
  <2>. QED
    BY <1>6, <2>1, FewerMailers DEF MarkSent
<1>7. ASSUME NEW i \in Instances, EndRun(i) PROVE MailBound(a, w)'
  <2>1. /\ \A j \in Instances \ {i} : scheduler'[j] = scheduler[j]
        /\ scheduler'[i].stage = "idle" /\ scheduler'[i].previous = scheduler[i].runAt
        /\ scheduler[i].stage = "next" /\ ~scheduler'[i].ahead
    BY <1>7 DEF EndRun, AfterRun, SchedulersOk
  <2>2. StillMailing(a, w)' \subseteq StillMailing(a, w)
    BY <2>1
  <2>. QED
    BY <1>7, <2>2, FewerMailers DEF EndRun
<1>8. ASSUME NEW i \in Instances, ProcessEnds(i) PROVE MailBound(a, w)'
  <2>1. StillMailing(a, w)' \subseteq StillMailing(a, w)
    BY <1>8 DEF ProcessEnds, Down
  <2>. QED
    BY <1>8, <2>1, FewerMailers DEF ProcessEnds
<1>9. ASSUME UNCHANGED <<scheduler, mails, starts, setBacks>> PROVE MailBound(a, w)'
  BY <1>9, FewerMailers
<1>10. (\E i \in Instances : ConnectionRecycled(i)) \/ WindowBecomesDue \/ UNCHANGED digestVars
         => UNCHANGED <<scheduler, mails, starts, setBacks>>
  BY DEF ConnectionRecycled, WindowBecomesDue, digestVars
<1>. QED
  BY <1>1, <1>2, <1>3, <1>4, <1>5, <1>6, <1>7, <1>8, <1>9, <1>10, StartBound, SetBackBound, SendBound
     DEF DigestNext

\* Every step keeps the invariant.
LEMMA DigestNextOk == DigestInv /\ [DigestNext]_digestVars => DigestInv'
  BY DigestTyped, BoundKept DEF DigestInv

\* Every reachable state of the digests is well typed.
THEOREM DigestsTypeCorrect == DigestSpec => []DigestTypeOK
<1>1. DigestInv => DigestTypeOK
  BY DEF DigestInv
<1>. QED
  BY <1>1, DigestInitOk, DigestNextOk, PTL DEF DigestSpec

\* However instances race for the lock, fail and are started again, a digest
\* is mailed at most once for every start and every time a clock is set back.
THEOREM DigestsOncePerStart == DigestSpec => []MailedOncePerStart
<1>1. DigestInv => MailedOncePerStart
  <2>. SUFFICES ASSUME DigestInv, NEW d \in Alerts \X Windows PROVE mails[d] <= Chances
    BY DEF MailedOncePerStart, Chances
  <2>1. PICK a \in Alerts, w \in Windows : d = <<a, w>>
    OBVIOUS
  <2>2. mails[d] \in Nat /\ Chances \in Nat /\ Cardinality(StillMailing(a, w)) \in Nat
    BY ChancesAre, MailersFinite DEF DigestInv, DigestTypeOK
  <2>3. mails[d] + Cardinality(StillMailing(a, w)) <= Chances
    BY <2>1 DEF DigestInv, MailBound
  <2>. QED
    BY <2>2, <2>3
<1>. QED
  BY <1>1, DigestInitOk, DigestNextOk, PTL DEF DigestSpec

-----------------------------------------------------------------------------
\* Requests that pass the rate limiter.  Each was let through by a worker as
\* it was between two restarts: one that runs, or one that is gone.

Gone == CHOOSE x : x \notin Workers

Key(i, q) == <<i, KeyOf(Rules[i], q)>>

\* Of a log of requests: those with the key of q under rule i, those of them
\* that were let through by w, and those of a set from a second on and within
\* a span.
Passed(log, i, q) ==
    {n \in DOMAIN log : Concerns(Rules[i], log[n].q) /\ Key(i, log[n].q) = Key(i, q)}
Through(log, by, w, i, q) == {n \in Passed(log, i, q) : by[n] = w}
Since(log, A, t) == {n \in A : log[n].at >= t}
Between(log, A, t, u) == {n \in A : t < log[n].at /\ log[n].at < u}

\* What a worker let through, and what it has counted of the window: the
\* request that began the window is counted, and all others let through at
\* its first second or later come on top; and the window before it let
\* through one less than the limit after its own first second.
WindowOk(log, at, A, entry, rule) ==
    LET start == entry.resetAt - rule.window IN
    /\ start <= at
    /\ \A n \in A : log[n].at < entry.resetAt
    /\ Cardinality(Since(log, A, start)) <= entry.count
    /\ Cardinality(Since(log, A, start)) <= rule.limit
    /\ Cardinality(Since(log, A, start + 1)) <= entry.count - 1
    /\ Cardinality(Since(log, A, start + 1)) <= rule.limit - 1
    /\ Cardinality(Between(log, A, start - rule.window, start)) <= rule.limit - 1

WorkerOk(log, at, A, of, k, rule) ==
    IF k \in DOMAIN of THEN WindowOk(log, at, A, of[k], rule) ELSE A = {}

MostOfSpan(i) == 2 * Rules[i].limit - 1

GoneOk(log, at, A, times, i) ==
    \A t \in Nat : t >= at =>
        Cardinality(Since(log, A, t - Rules[i].window + 1)) <= times * MostOfSpan(i)

Assigned(by) ==
    /\ by \in [DOMAIN admitted -> Workers \cup {Gone}]
    /\ \A i \in RuleIds, q \in Request :
         /\ GoneOk(admitted, now, Through(admitted, by, Gone, i, q), restarts, i)
         /\ \A w \in Workers :
              WorkerOk(admitted, now, Through(admitted, by, w, i, q), hits[w], Key(i, q), Rules[i])

RateInv == RateTypeOK /\ \E by : Assigned(by)

Rule == [by : {"ip", "id", "ip_id"}, limit : Nat \ {0}, window : Nat \ {0}]
LogEntry(rule) == [count : 1..rule.limit + 1, resetAt : Nat]

\* No worker is taken for one that is gone.
LEMMA GoneIsNew == Gone \notin Workers
  BY NoSetContainsEverything DEF Gone

\* A rule has a limit and a window of one at least.
LEMMA RulesAre ==
    ASSUME NEW i \in RuleIds
    PROVE  Rules[i] \in Rule /\ Rules[i].limit \in Nat \ {0} /\ Rules[i].window \in Nat \ {0}
<1>1. Rules \in Seq(Rule)
  BY RateLimiterAssumption DEF Rule
<1>2. Rules[i] \in Rule
  BY <1>1 DEF RuleIds
<1>. QED
  BY <1>2 DEF Rule

\* The lesser of two numbers.
LEMMA LesserOf ==
    ASSUME NEW a \in Int, NEW b \in Int
    PROVE  Min({a, b}) = IF a <= b THEN a ELSE b
<1>1. CASE a <= b
  <2>1. a \in {a, b} /\ \A y \in {a, b} : a =< y
    BY <1>1
  <2>2. \A x \in {a, b} : (\A y \in {a, b} : x =< y) => x = a
    BY <1>1
  <2>. QED
    BY <1>1, <2>1, <2>2 DEF Min
<1>2. CASE ~(a <= b)
  <2>1. b \in {a, b} /\ \A y \in {a, b} : b =< y
    BY <1>2
  <2>2. \A x \in {a, b} : (\A y \in {a, b} : x =< y) => x = b
    BY <1>2
  <2>. QED
    BY <1>2, <2>1, <2>2 DEF Min
<1>. QED
  BY <1>1, <1>2

\* A hit opens a window, or counts one more up to the limit and one.
LEMMA HitIs ==
    ASSUME NEW rule \in Rule, NEW of, NEW k, k \in DOMAIN of => of[k] \in LogEntry(rule), now \in Nat
    PROVE  /\ Hit(of, k, rule) \in LogEntry(rule)
           /\ k \notin DOMAIN of \/ now >= of[k].resetAt =>
                Hit(of, k, rule).count = 1 /\ Hit(of, k, rule).resetAt = now + rule.window
           /\ k \in DOMAIN of /\ now < of[k].resetAt =>
                /\ Hit(of, k, rule).resetAt = of[k].resetAt
                /\ Hit(of, k, rule).count =
                     IF of[k].count <= rule.limit THEN of[k].count + 1 ELSE rule.limit + 1
<1>. rule.limit \in Nat \ {0} /\ rule.window \in Nat \ {0}
  BY DEF Rule
<1>1. CASE k \notin DOMAIN of \/ now >= of[k].resetAt
  <2>1. Hit(of, k, rule) = [count |-> 1, resetAt |-> now + rule.window]
    BY <1>1 DEF Hit
  <2>2. ~(k \in DOMAIN of /\ now < of[k].resetAt)
    BY <1>1 DEF LogEntry
  <2>. QED
    BY <1>1, <2>1, <2>2 DEF LogEntry
<1>2. CASE k \in DOMAIN of /\ ~(now >= of[k].resetAt)
  <2>1. Hit(of, k, rule) = Counted(of[k], rule)
    BY <1>2 DEF Hit
  <2>2. of[k].count \in 1..rule.limit + 1 /\ of[k].resetAt \in Nat
    BY <1>2 DEF LogEntry
  <2>3. Min({of[k].count + 1, rule.limit + 1})
          = IF of[k].count + 1 <= rule.limit + 1 THEN of[k].count + 1 ELSE rule.limit + 1
    BY <2>2, LesserOf
  <2>4. Counted(of[k], rule) = [of[k] EXCEPT !.count = Min({of[k].count + 1, rule.limit + 1})]
    BY DEF Counted
  <2>5. PICK c \in 1..rule.limit + 1 :
          /\ c = Min({of[k].count + 1, rule.limit + 1})
          /\ c = IF of[k].count <= rule.limit THEN of[k].count + 1 ELSE rule.limit + 1
    BY <2>2, <2>3
  <2>6. Counted(of[k], rule) = [of[k] EXCEPT !.count = c]
    BY <2>4, <2>5
  <2>7. Counted(of[k], rule) \in LogEntry(rule) /\ Counted(of[k], rule).count = c
        /\ Counted(of[k], rule).resetAt = of[k].resetAt
    BY <1>2, <2>6 DEF LogEntry
  <2>. QED
    BY <1>2, <2>1, <2>5, <2>7
<1>. QED
  BY <1>1, <1>2

\* The window after a hit, with the request if it was let through.
LEMMA HitWindow ==
    ASSUME NEW rule \in Rule, NEW log, NEW log2, NEW of, NEW k, NEW A, IsFiniteSet(A), NEW N, NEW B, NEW entry,
           k \in DOMAIN of => of[k] \in LogEntry(rule) /\ WindowOk(log, now, A, of[k], rule),
           k \notin DOMAIN of => A = {},
           entry = Hit(of, k, rule), B \subseteq A \cup {N}, now \in Nat,
           \A n \in A : log[n].at \in Nat /\ log2[n].at = log[n].at,
           N \in B => N \notin A /\ log2[N].at = now /\ entry.count <= rule.limit
    PROVE  WindowOk(log2, now, B, entry, rule)
<1>. DEFINE L == rule.limit
            W == rule.window
            start == entry.resetAt - W
<1>1. L \in Nat \ {0} /\ W \in Nat \ {0}
  BY DEF Rule
<1>2. entry \in LogEntry(rule) /\ entry.count \in 1..L + 1 /\ entry.resetAt \in Nat
  BY HitIs DEF LogEntry
<1>3. ASSUME NEW t PROVE /\ Since(log2, B, t) \subseteq Since(log, A, t) \cup {N}
                         /\ N \notin B => Since(log2, B, t) \subseteq Since(log, A, t)
                         /\ IsFiniteSet(Since(log, A, t))
  BY FS_Subset DEF Since
<1>4. ASSUME NEW t
      PROVE  /\ Cardinality(Since(log, A, t)) \in Nat /\ Cardinality(Since(log2, B, t)) \in Nat
             /\ Cardinality(Since(log2, B, t)) <= Cardinality(Since(log, A, t)) + 1
             /\ N \notin B => Cardinality(Since(log2, B, t)) <= Cardinality(Since(log, A, t))
  <2>1. /\ Cardinality(Since(log, A, t)) \in Nat /\ Cardinality(Since(log2, B, t)) \in Nat
        /\ Cardinality(Since(log2, B, t)) <= Cardinality(Since(log, A, t)) + 1
    BY <1>3, WithinOneMore
  <2>2. ASSUME N \notin B PROVE Cardinality(Since(log2, B, t)) <= Cardinality(Since(log, A, t))
    BY <1>3, <2>2, Smaller
  <2>. QED
    BY <2>1, <2>2
<1>5. CASE k \in DOMAIN of /\ now < of[k].resetAt
  <2>1. /\ of[k].count \in 1..L + 1 /\ of[k].resetAt \in Nat
        /\ entry.resetAt = of[k].resetAt
        /\ entry.count = IF of[k].count <= L THEN of[k].count + 1 ELSE L + 1
    BY <1>5, HitIs DEF LogEntry
  <2>2. /\ start <= now
        /\ \A n \in A : log[n].at < entry.resetAt
        /\ Cardinality(Since(log, A, start)) <= of[k].count
        /\ Cardinality(Since(log, A, start)) <= L
        /\ Cardinality(Since(log, A, start + 1)) <= of[k].count - 1
        /\ Cardinality(Since(log, A, start + 1)) <= L - 1
        /\ Cardinality(Between(log, A, start - W, start)) <= L - 1
    BY <1>5, <2>1 DEF WindowOk
  <2>3. \A n \in B : log2[n].at < entry.resetAt
    BY <1>5, <2>1, <2>2
  <2>. HIDE DEF L, W
  <2>4. /\ Cardinality(Since(log2, B, start)) <= entry.count /\ Cardinality(Since(log2, B, start)) <= L
        /\ Cardinality(Since(log2, B, start + 1)) <= entry.count - 1
        /\ Cardinality(Since(log2, B, start + 1)) <= L - 1
    <3>. HIDE DEF start
    <3>1. CASE N \in B
      <4>1. entry.count <= L
        BY <3>1 DEF L
      <4>. QED
        BY <1>1, <1>4, <2>1, <2>2, <4>1
    <3>2. CASE N \notin B
      BY <1>1, <1>4, <2>1, <2>2, <3>2
    <3>. QED
      BY <3>1, <3>2
  <2>5. Cardinality(Between(log2, B, start - W, start)) <= L - 1
    <3>1. start \in Int
      BY <1>1, <1>2
    <3>2. Between(log2, B, start - W, start) \subseteq Between(log, A, start - W, start)
      <4>. HIDE DEF start
      <4>. QED
        BY <2>2, <3>1 DEF Between
    <3>3. IsFiniteSet(Between(log, A, start - W, start))
      BY FS_Subset DEF Between
    <3>. HIDE DEF start
    <3>4. /\ Cardinality(Between(log2, B, start - W, start)) <= Cardinality(Between(log, A, start - W, start))
          /\ Cardinality(Between(log2, B, start - W, start)) \in Nat
          /\ Cardinality(Between(log, A, start - W, start)) \in Nat
      BY <3>2, <3>3, Smaller
    <3>. QED
      BY <1>1, <2>2, <3>4
  <2>. QED
    BY <2>2, <2>3, <2>4, <2>5 DEF WindowOk, L, W
<1>6. CASE k \notin DOMAIN of \/ now >= of[k].resetAt
  <2>1. entry.count = 1 /\ entry.resetAt = now + W
    BY <1>6, HitIs
  <2>2. start = now
    BY <1>1, <2>1
  <2>3. \A n \in A : log[n].at < now
    BY <1>6 DEF WindowOk, LogEntry
  <2>4. \A n \in B : log2[n].at < entry.resetAt
    BY <1>1, <2>1, <2>3
  <2>5. Cardinality(Since(log2, B, now)) <= 1
    <3>1. Since(log2, B, now) \subseteq {N}
      BY <2>3 DEF Since
    <3>2. IsFiniteSet({N}) /\ Cardinality({N}) = 1
      BY FS_Singleton
    <3>3. Cardinality(Since(log2, B, now)) <= Cardinality({N})
      BY <3>1, <3>2, Smaller
    <3>. QED
      BY <3>2, <3>3
  <2>6. Cardinality(Since(log2, B, now + 1)) = 0
    <3>1. Since(log2, B, now + 1) = {}
      BY <2>3 DEF Since
    <3>. QED
      BY <3>1, FS_EmptySet
  <2>7. Cardinality(Between(log2, B, now - W, now)) <= L - 1
    <3>1. CASE k \in DOMAIN of
      <4>. DEFINE old == of[k].resetAt - W
      <4>1. of[k].resetAt \in Nat /\ now >= of[k].resetAt
        BY <1>6, <3>1 DEF LogEntry
      <4>2. Cardinality(Since(log, A, old + 1)) <= L - 1
        BY <3>1 DEF WindowOk
      <4>3. Between(log2, B, now - W, now) \subseteq Since(log, A, old + 1)
        BY <1>1, <4>1 DEF Between, Since
      <4>4. IsFiniteSet(Since(log, A, old + 1))
        BY FS_Subset DEF Since
      <4>. HIDE DEF old
      <4>5. /\ Cardinality(Between(log2, B, now - W, now)) <= Cardinality(Since(log, A, old + 1))
            /\ Cardinality(Between(log2, B, now - W, now)) \in Nat
            /\ Cardinality(Since(log, A, old + 1)) \in Nat
        BY <4>3, <4>4, Smaller
      <4>. QED
        BY <1>1, <4>2, <4>5
    <3>2. CASE k \notin DOMAIN of
      <4>1. Between(log2, B, now - W, now) = {}
        BY <3>2, <2>3 DEF Between
      <4>2. Cardinality(Between(log2, B, now - W, now)) = 0
        BY <4>1, FS_EmptySet
      <4>. HIDE DEF L, W
      <4>. QED
        BY <1>1, <4>2
    <3>. QED
      BY <3>1, <3>2
  <2>8. 1 <= L /\ 0 <= L - 1 /\ entry.count - 1 = 0
    BY <1>1, <2>1
  <2>9. Cardinality(Since(log2, B, now)) \in Nat
    BY <1>4
  <2>10. /\ Cardinality(Since(log2, B, start)) <= entry.count /\ Cardinality(Since(log2, B, start)) <= L
         /\ Cardinality(Since(log2, B, start + 1)) <= entry.count - 1
         /\ Cardinality(Since(log2, B, start + 1)) <= L - 1
         /\ Cardinality(Between(log2, B, start - W, start)) <= L - 1
         /\ start <= now
    <3>. HIDE DEF start, L, W
    <3>. QED
      BY <1>1, <2>1, <2>2, <2>5, <2>6, <2>7, <2>8, <2>9
  <2>. QED
    BY <2>4, <2>10 DEF WindowOk
<1>. QED
  BY <1>2, <1>5, <1>6 DEF LogEntry

\* What a request's check makes of one worker's counts.
HitOf(w, i, q) == Hit(hits[w], Key(i, q), Rules[i])
Concerned(q) == {i \in RuleIds : Concerns(Rules[i], q)}
Refusing(w, q) == {i \in Concerned(q) : HitOf(w, i, q).count > Rules[i].limit}
Reached(w, q) == {i \in Concerned(q) : \A r \in Refusing(w, q) : i <= r}

\* A key tells its rule and what the rule looks at.
LEMMA KeyParts ==
    ASSUME NEW i, NEW j, NEW p, NEW q, Key(i, p) = Key(j, q)
    PROVE  i = j /\ KeyOf(Rules[i], p) = KeyOf(Rules[i], q)
  BY DEF Key

\* A count and the end of its window are numbers within their bounds.
LEMMA TypedHits ==
    ASSUME RateTypeOK, NEW w \in Workers, NEW i \in RuleIds, NEW q
    PROVE  /\ now \in Nat
           /\ Key(i, q) \in DOMAIN hits[w] =>
                /\ hits[w][Key(i, q)] \in LogEntry(Rules[i])
                /\ hits[w][Key(i, q)].resetAt <= LastTick + Rules[i].window
<1>1. LastTick \in Nat /\ Rules[i].limit \in Nat \ {0} /\ Rules[i].window \in Nat \ {0}
  BY RateLimiterAssumption, RulesAre
<1>2. now \in Nat
  BY <1>1 DEF RateTypeOK
<1>3. ASSUME Key(i, q) \in DOMAIN hits[w]
      PROVE  hits[w][Key(i, q)] \in [count : 1..Rules[i].limit + 1,
                                     resetAt : 0..LastTick + Rules[i].window]
  <2>1. Key(i, q)[1] = i
    BY DEF Key
  <2>. QED
    BY <1>3, <2>1 DEF RateTypeOK
<1>4. ASSUME NEW e \in [count : 1..Rules[i].limit + 1, resetAt : 0..LastTick + Rules[i].window]
      PROVE  e \in LogEntry(Rules[i]) /\ e.resetAt <= LastTick + Rules[i].window
  BY <1>1 DEF LogEntry
<1>. QED
  BY <1>2, <1>3, <1>4

\* A check changes the counts it reaches, of its keys, and of its worker.
LEMMA CheckIs ==
    ASSUME RateTypeOK, NEW v \in Workers, NEW p \in Request, Check(v, p)
    PROVE  /\ now' = now /\ restarts' = restarts
           /\ admitted' = IF Refusing(v, p) = {} THEN Append(admitted, [at |-> now, q |-> p])
                          ELSE admitted
           /\ DOMAIN hits' = Workers
           /\ \A w \in Workers \ {v} : hits'[w] = hits[w]
           /\ DOMAIN hits'[v] = DOMAIN hits[v] \cup {Key(i, p) : i \in Reached(v, p)}
           /\ \A i \in Reached(v, p) : hits'[v][Key(i, p)] = HitOf(v, i, p)
           /\ \A k \in DOMAIN hits[v] :
                (\A i \in Reached(v, p) : Key(i, p) # k) => hits'[v][k] = hits[v][k]
<1>. DEFINE keys == {Key(i, p) : i \in Reached(v, p)}
            after == [k \in DOMAIN hits[v] \cup keys |->
                        IF k \in keys THEN Hit(hits[v], k, Rules[k[1]]) ELSE hits[v][k]]
<1>1. hits' = [hits EXCEPT ![v] = after]
  BY DEF Check, Key, HitOf, Concerned, Refusing, Reached
<1>2. /\ now' = now /\ restarts' = restarts
      /\ admitted' = IF Refusing(v, p) = {} THEN Append(admitted, [at |-> now, q |-> p])
                     ELSE admitted
  BY DEF Check, Key, HitOf, Concerned, Refusing, Reached
<1>3. DOMAIN hits = Workers
  BY DEF RateTypeOK
<1>4. hits'[v] = after /\ DOMAIN hits' = Workers
      /\ \A w \in Workers \ {v} : hits'[w] = hits[w]
  <2>. HIDE DEF after
  <2>. QED
    BY <1>1, <1>3
<1>5. \A i \in Reached(v, p) : Key(i, p) \in keys /\ Key(i, p)[1] = i
  BY DEF Key
<1>6. \A k \in keys : \E i \in Reached(v, p) : k = Key(i, p)
  OBVIOUS
<1>7. \A i \in Reached(v, p) : after[Key(i, p)] = HitOf(v, i, p)
  <2>. HIDE DEF keys
  <2>. QED
    BY <1>5 DEF HitOf
<1>8. \A k \in DOMAIN hits[v] :
        (\A i \in Reached(v, p) : Key(i, p) # k) => after[k] = hits[v][k]
  <2>. HIDE DEF keys
  <2>. QED
    BY <1>6
<1>9. DOMAIN after = DOMAIN hits[v] \cup keys
  <2>. HIDE DEF keys
  <2>. QED
    OBVIOUS
<1>. HIDE DEF after
<1>. QED
  BY <1>2, <1>4, <1>7, <1>8, <1>9

\* Every reachable state of the clock, the counts of each process and the log of
\* the requests let through is well typed: no count exceeds the limit by more
\* than one, and no window ends later than it can.
THEOREM RateTypeCorrect == RateSpec => []RateTypeOK
<1>. USE RateLimiterAssumption
<1>1. RateInit => RateTypeOK
  <2>. SUFFICES ASSUME RateInit PROVE RateTypeOK
    OBVIOUS
  <2>1. admitted \in Seq([at : 0..LastTick, q : Request])
    BY DEF RateInit
  <2>. QED
    BY <2>1 DEF RateInit, RateTypeOK, NoHits
<1>2. RateTypeOK /\ [RateNext]_rateVars => RateTypeOK'
  <2>. SUFFICES ASSUME RateTypeOK, [RateNext]_rateVars PROVE RateTypeOK'
    OBVIOUS
  <2>1. ASSUME NEW v \in Workers, NEW p \in Request, Check(v, p) PROVE RateTypeOK'
    <3>1. /\ now' = now /\ restarts' = restarts
          /\ admitted' = IF Refusing(v, p) = {} THEN Append(admitted, [at |-> now, q |-> p])
                         ELSE admitted
          /\ DOMAIN hits' = Workers
          /\ \A w \in Workers \ {v} : hits'[w] = hits[w]
          /\ DOMAIN hits'[v] = DOMAIN hits[v] \cup {Key(i, p) : i \in Reached(v, p)}
          /\ \A i \in Reached(v, p) : hits'[v][Key(i, p)] = HitOf(v, i, p)
          /\ \A k \in DOMAIN hits[v] :
               (\A i \in Reached(v, p) : Key(i, p) # k) => hits'[v][k] = hits[v][k]
      BY <2>1, CheckIs
    <3>2. admitted' \in Seq([at : 0..LastTick, q : Request])
      <4>1. [at |-> now, q |-> p] \in [at : 0..LastTick, q : Request]
        BY DEF RateTypeOK
      <4>2. admitted \in Seq([at : 0..LastTick, q : Request])
        BY DEF RateTypeOK
      <4>3. CASE Refusing(v, p) = {}
        <5>. DEFINE Entries == [at : 0..LastTick, q : Request]
        <5>1. [at |-> now, q |-> p] \in Entries /\ admitted \in Seq(Entries)
          BY <4>1, <4>2
        <5>. HIDE DEF Entries
        <5>2. Append(admitted, [at |-> now, q |-> p]) \in Seq(Entries)
          BY <5>1
        <5>. QED
          BY <3>1, <4>3, <5>2 DEF Entries
      <4>. QED
        BY <3>1, <4>2, <4>3
    <3>3. ASSUME NEW i \in Reached(v, p)
          PROVE  /\ Key(i, p) \in RateKeys /\ Key(i, p)[1] = i
                 /\ hits'[v][Key(i, p)] \in [count : 1..Rules[i].limit + 1,
                                             resetAt : 0..LastTick + Rules[i].window]
      <4>1. i \in RuleIds
        BY DEF Reached, Concerned
      <4>2. Rules[i] \in Rule /\ Rules[i].limit \in Nat \ {0} /\ Rules[i].window \in Nat \ {0}
        BY <4>1, RulesAre
      <4>3. /\ now \in Nat
            /\ Key(i, p) \in DOMAIN hits[v] =>
                 /\ hits[v][Key(i, p)] \in LogEntry(Rules[i])
                 /\ hits[v][Key(i, p)].resetAt <= LastTick + Rules[i].window
        BY <4>1, TypedHits
      <4>4. HitOf(v, i, p) \in LogEntry(Rules[i])
        BY <4>2, <4>3, HitIs DEF HitOf
      <4>5. HitOf(v, i, p).resetAt <= LastTick + Rules[i].window
        <5>1. \/ HitOf(v, i, p).resetAt = now + Rules[i].window
              \/ /\ Key(i, p) \in DOMAIN hits[v]
                 /\ HitOf(v, i, p).resetAt = hits[v][Key(i, p)].resetAt
          <6>1. CASE Key(i, p) \notin DOMAIN hits[v] \/ now >= hits[v][Key(i, p)].resetAt
            BY <4>2, <4>3, <6>1, HitIs DEF HitOf
          <6>2. CASE Key(i, p) \in DOMAIN hits[v] /\ now < hits[v][Key(i, p)].resetAt
            BY <4>2, <4>3, <6>2, HitIs DEF HitOf
          <6>. QED
            BY <4>3, <6>1, <6>2 DEF LogEntry
        <5>. QED
          BY <4>2, <4>3, <5>1 DEF RateTypeOK
      <4>6. ASSUME NEW e \in LogEntry(Rules[i]), e.resetAt <= LastTick + Rules[i].window
            PROVE  e \in [count : 1..Rules[i].limit + 1, resetAt : 0..LastTick + Rules[i].window]
        BY <4>2, <4>6 DEF LogEntry
      <4>7. hits'[v][Key(i, p)] \in [count : 1..Rules[i].limit + 1,
                                     resetAt : 0..LastTick + Rules[i].window]
        BY <3>1, <4>4, <4>5, <4>6
      <4>. QED
        BY <4>1, <4>7 DEF RateKeys, Key
    <3>4. ASSUME NEW w \in Workers
          PROVE  /\ DOMAIN hits'[w] \subseteq RateKeys
                 /\ \A k \in DOMAIN hits'[w] :
                      hits'[w][k] \in [count : 1..Rules[k[1]].limit + 1,
                                       resetAt : 0..LastTick + Rules[k[1]].window]
      <4>1. CASE w # v
        BY <3>1, <4>1 DEF RateTypeOK
      <4>2. CASE w = v
        <5>1. ASSUME NEW k \in DOMAIN hits'[v]
              PROVE  /\ k \in RateKeys
                     /\ hits'[v][k] \in [count : 1..Rules[k[1]].limit + 1,
                                         resetAt : 0..LastTick + Rules[k[1]].window]
          <6>1. CASE \E i \in Reached(v, p) : Key(i, p) = k
            <7>1. PICK i \in Reached(v, p) : Key(i, p) = k
              BY <6>1
            <7>. QED
              BY <3>3, <7>1
          <6>2. CASE \A i \in Reached(v, p) : Key(i, p) # k
            <7>1. k \in DOMAIN hits[v] /\ hits'[v][k] = hits[v][k]
              BY <3>1, <6>2
            <7>. QED
              BY <7>1 DEF RateTypeOK
          <6>. QED
            BY <6>1, <6>2
        <5>. QED
          BY <4>2, <5>1
      <4>. QED
        BY <4>1, <4>2
    <3>5. RateKeys' = RateKeys
      BY DEF RateKeys, RuleIds, Request, KeyOf
    <3>. QED
      BY <3>1, <3>2, <3>4 DEF RateTypeOK
  <2>2. ASSUME NEW v \in Workers, RestartWorker(v) PROVE RateTypeOK'
    <3>1. restarts' \in 0..MaxRestarts
      BY <2>2 DEF RestartWorker, RateTypeOK
    <3>2. ASSUME NEW w \in Workers PROVE hits'[w] = IF w = v THEN NoHits ELSE hits[w]
      BY <2>2 DEF RestartWorker, RateTypeOK
    <3>3. DOMAIN NoHits = {}
      BY DEF NoHits
    <3>. QED
      BY <2>2, <3>1, <3>2, <3>3 DEF RestartWorker, RateTypeOK
  <2>3. CASE SecondPasses
    BY <2>3 DEF SecondPasses, RateTypeOK
  <2>4. CASE UNCHANGED rateVars
    BY <2>4 DEF rateVars, RateTypeOK
  <2>. QED
    BY <2>1, <2>2, <2>3, <2>4 DEF RateNext
<1>. QED
  BY <1>1, <1>2, PTL DEF RateSpec

\* A log that says the same of some requests says the same of their windows.
LEMMA SameWindow ==
    ASSUME NEW log, NEW log2, NEW A, \A n \in A : log2[n] = log[n],
           NEW at, NEW of, NEW k, NEW rule, WorkerOk(log, at, A, of, k, rule)
    PROVE  WorkerOk(log2, at, A, of, k, rule)
<1>1. \A t : Since(log2, A, t) = Since(log, A, t)
  BY DEF Since
<1>2. \A t, u : Between(log2, A, t, u) = Between(log, A, t, u)
  BY DEF Between
<1>. QED
  BY <1>1, <1>2 DEF WorkerOk, WindowOk

\* Every request let through has its second.
LEMMA EntriesAreTyped ==
    ASSUME RateTypeOK
    PROVE  \A n \in DOMAIN admitted : admitted[n].at \in Nat
<1>. DEFINE Entries == [at : 0..LastTick, q : Request]
<1>1. \A e \in Entries : e.at \in Nat
  BY RateLimiterAssumption
<1>2. admitted \in Seq(Entries)
  BY DEF RateTypeOK
<1>. HIDE DEF Entries
<1>. QED
  BY <1>1, <1>2

\* What is let through by one in a set of requests is finite and has numbers
\* of requests for its seconds.
LEMMA ThroughIsFinite ==
    ASSUME RateTypeOK, NEW by, NEW w, NEW i, NEW q
    PROVE  /\ IsFiniteSet(Passed(admitted, i, q))
           /\ IsFiniteSet(Through(admitted, by, w, i, q))
           /\ \A n \in Passed(admitted, i, q) : n \in DOMAIN admitted /\ admitted[n].at \in Int
           /\ \A n \in Through(admitted, by, w, i, q) : n \in DOMAIN admitted /\ admitted[n].at \in Int
<1>. DEFINE Entries == [at : 0..LastTick, q : Request]
<1>1. LastTick \in Nat
  BY RateLimiterAssumption
<1>2. admitted \in Seq(Entries)
  BY DEF RateTypeOK
<1>3. \A e \in Entries : e.at \in Int
  BY <1>1
<1>. HIDE DEF Entries
<1>4. DOMAIN admitted = 1..Len(admitted) /\ Len(admitted) \in Nat
      /\ \A n \in DOMAIN admitted : admitted[n] \in Entries
  BY <1>2
<1>5. IsFiniteSet(DOMAIN admitted)
  BY <1>4, FS_Interval
<1>. QED
  BY <1>3, <1>4, <1>5, FS_Subset DEF Through, Passed

\* In any span of a window's length, a worker lets through less than twice
\* the limit.
LEMMA SpanOfWorker ==
    ASSUME NEW log, NEW A, IsFiniteSet(A), \A n \in A : log[n].at \in Int,
           NEW i \in RuleIds, NEW at \in Nat, NEW of, NEW k,
           k \in DOMAIN of => of[k] \in LogEntry(Rules[i]),
           WorkerOk(log, at, A, of, k, Rules[i]), NEW t \in Nat, t >= at
    PROVE  /\ Cardinality(Since(log, A, t - Rules[i].window + 1)) \in Nat
           /\ Cardinality(Since(log, A, t - Rules[i].window + 1)) <= MostOfSpan(i)
           /\ MostOfSpan(i) \in Nat
<1>. DEFINE L == Rules[i].limit
            W == Rules[i].window
            Span == Since(log, A, t - W + 1)
<1>1. L \in Nat \ {0} /\ W \in Nat \ {0} /\ MostOfSpan(i) \in Nat /\ MostOfSpan(i) = (L - 1) + L
  BY RulesAre DEF MostOfSpan
<1>2. CASE k \in DOMAIN of
  <2>. DEFINE start == of[k].resetAt - W
              Before == Between(log, A, start - W, start)
              During == Since(log, A, start)
  <2>1. of[k].resetAt \in Nat /\ start \in Int
    BY <1>1, <1>2 DEF LogEntry
  <2>2. start <= at /\ Cardinality(During) <= L /\ Cardinality(Before) <= L - 1
    BY <1>2 DEF WorkerOk, WindowOk
  <2>. HIDE DEF start, W
  <2>3. Span \subseteq Before \cup During
    BY <1>1, <2>1, <2>2 DEF Since, Between
  <2>4. IsFiniteSet(Before) /\ IsFiniteSet(During)
    BY FS_Subset DEF Since, Between
  <2>. HIDE DEF Before, During, Span, L
  <2>5. /\ IsFiniteSet(Before \cup During) /\ Cardinality(Before \cap During) \in Nat
        /\ Cardinality(Before \cup During)
             = Cardinality(Before) + Cardinality(During) - Cardinality(Before \cap During)
    BY <2>4, FS_Union, FS_Intersection, FS_CardinalityType
  <2>6. Cardinality(Span) <= Cardinality(Before \cup During) /\ Cardinality(Span) \in Nat
        /\ Cardinality(Before \cup During) \in Nat
    BY <2>3, <2>5, Smaller
  <2>7. Cardinality(Before) \in Nat /\ Cardinality(During) \in Nat
    BY <2>4, FS_CardinalityType
  <2>8. Cardinality(Span) <= MostOfSpan(i)
    BY <1>1, <2>2, <2>5, <2>6, <2>7
  <2>. QED
    BY <1>1, <2>6, <2>8 DEF Span, W
<1>3. CASE k \notin DOMAIN of
  <2>1. Span = {}
    BY <1>3 DEF WorkerOk, Since
  <2>2. Cardinality(Span) = 0
    BY <2>1, FS_EmptySet
  <2>. HIDE DEF Span
  <2>3. Cardinality(Span) \in Nat /\ Cardinality(Span) <= MostOfSpan(i)
    BY <1>1, <2>2
  <2>. QED
    BY <1>1, <2>3 DEF Span
<1>. QED
  BY <1>2, <1>3

\* A restart hands what its worker let through to those that are gone, for one
\* window and the one before it.
LEMMA RestartKeeps ==
    ASSUME RateTypeOK, NEW by, Assigned(by), NEW v \in Workers, RestartWorker(v)
    PROVE  \E by2 : Assigned(by2)'
<1>. USE GoneIsNew
<1>1. by \in [DOMAIN admitted -> Workers \cup {Gone}]
  BY DEF Assigned
<1>2. PICK by2 \in [DOMAIN admitted -> Workers \cup {Gone}] :
        \A n \in DOMAIN admitted : by2[n] = IF by[n] = v THEN Gone ELSE by[n]
  <2>1. [n \in DOMAIN admitted |-> IF by[n] = v THEN Gone ELSE by[n]]
          \in [DOMAIN admitted -> Workers \cup {Gone}]
    BY <1>1
  <2>. QED
    BY <2>1
<1>3. /\ now' = now /\ admitted' = admitted /\ restarts' = restarts + 1 /\ restarts \in Nat
      /\ \A w \in Workers : hits'[w] = IF w = v THEN NoHits ELSE hits[w]
  BY DEF RestartWorker, RateTypeOK
<1>4. ASSUME NEW i \in RuleIds, NEW q \in Request, NEW w \in Workers
      PROVE  WorkerOk(admitted, now, Through(admitted, by2, w, i, q), hits'[w], Key(i, q), Rules[i])
  <2>1. CASE w = v
    <3>1. Through(admitted, by2, w, i, q) = {}
      BY <1>2, <2>1 DEF Through, Passed
    <3>2. DOMAIN hits'[w] = {}
      BY <1>3, <2>1 DEF NoHits
    <3>. QED
      BY <3>1, <3>2 DEF WorkerOk
  <2>2. CASE w # v
    <3>1. Through(admitted, by2, w, i, q) = Through(admitted, by, w, i, q)
      BY <1>2, <2>2 DEF Through, Passed
    <3>2. WorkerOk(admitted, now, Through(admitted, by, w, i, q), hits[w], Key(i, q), Rules[i])
      BY DEF Assigned
    <3>. QED
      BY <1>3, <2>2, <3>1, <3>2
  <2>. QED
    BY <2>1, <2>2
<1>5. ASSUME NEW i \in RuleIds, NEW q \in Request
      PROVE  GoneOk(admitted, now, Through(admitted, by2, Gone, i, q), restarts + 1, i)
  <2>. DEFINE Old == Through(admitted, by, Gone, i, q)
              Its == Through(admitted, by, v, i, q)
              All == Through(admitted, by2, Gone, i, q)
  <2>1. All \subseteq Old \cup Its
    BY <1>2 DEF Through, Passed
  <2>2. IsFiniteSet(Old) /\ IsFiniteSet(Its) /\ \A n \in Its : admitted[n].at \in Int
    BY ThroughIsFinite
  <2>3. GoneOk(admitted, now, Old, restarts, i)
        /\ WorkerOk(admitted, now, Its, hits[v], Key(i, q), Rules[i])
    BY DEF Assigned
  <2>4. now \in Nat /\ (Key(i, q) \in DOMAIN hits[v] => hits[v][Key(i, q)] \in LogEntry(Rules[i]))
    BY TypedHits
  <2>. HIDE DEF All, Old, Its
  <2>5. ASSUME NEW t \in Nat, t >= now
        PROVE  Cardinality(Since(admitted, All, t - Rules[i].window + 1))
                 <= (restarts + 1) * MostOfSpan(i)
    <3>. DEFINE s == t - Rules[i].window + 1
    <3>1. Cardinality(Since(admitted, Its, s)) \in Nat
          /\ Cardinality(Since(admitted, Its, s)) <= MostOfSpan(i) /\ MostOfSpan(i) \in Nat
      BY <2>2, <2>3, <2>4, <2>5, SpanOfWorker
    <3>2. Cardinality(Since(admitted, Old, s)) <= restarts * MostOfSpan(i)
      BY <2>3, <2>5 DEF GoneOk
    <3>. HIDE DEF s
    <3>. DEFINE O == Since(admitted, Old, s)
                I == Since(admitted, Its, s)
                A == Since(admitted, All, s)
    <3>3. A \subseteq O \cup I /\ IsFiniteSet(O) /\ IsFiniteSet(I)
      BY <2>1, <2>2, FS_Subset DEF Since
    <3>. HIDE DEF O, I, A
    <3>4. /\ IsFiniteSet(O \cup I) /\ Cardinality(O \cap I) \in Nat
          /\ Cardinality(O \cup I) = Cardinality(O) + Cardinality(I) - Cardinality(O \cap I)
      BY <3>3, FS_Union, FS_Intersection, FS_CardinalityType
    <3>5. Cardinality(A) <= Cardinality(O \cup I) /\ Cardinality(A) \in Nat
          /\ Cardinality(O \cup I) \in Nat
      BY <3>3, <3>4, Smaller
    <3>6. Cardinality(O) \in Nat /\ Cardinality(I) \in Nat
      BY <3>3, FS_CardinalityType
    <3>7. Cardinality(O) <= restarts * MostOfSpan(i) /\ Cardinality(I) <= MostOfSpan(i)
      BY <3>1, <3>2 DEF O, I
    <3>8. (restarts + 1) * MostOfSpan(i) = restarts * MostOfSpan(i) + MostOfSpan(i)
          /\ restarts * MostOfSpan(i) \in Nat
      BY <1>3, <3>1
    <3>9. Cardinality(A) <= (restarts + 1) * MostOfSpan(i)
      BY <3>1, <3>4, <3>5, <3>6, <3>7, <3>8
    <3>. QED
      BY <3>9 DEF A, s
  <2>. QED
    BY <2>5 DEF GoneOk, All
<1>6. Assigned(by2)'
  BY <1>2, <1>3, <1>4, <1>5 DEF Assigned, RuleIds, Request
<1>. QED
  BY <1>6

\* Time only moves the span on.
LEMMA SecondKeeps ==
    ASSUME RateTypeOK, NEW by, Assigned(by), SecondPasses
    PROVE  Assigned(by)'
<1>1. now' = now + 1 /\ now \in Nat /\ admitted' = admitted /\ restarts' = restarts
      /\ hits' = hits
  BY DEF SecondPasses, RateTypeOK
<1>2. ASSUME NEW i \in RuleIds, NEW A, NEW k, NEW of, WorkerOk(admitted, now, A, of, k, Rules[i]),
             k \in DOMAIN of => of[k] \in LogEntry(Rules[i])
      PROVE  WorkerOk(admitted, now + 1, A, of, k, Rules[i])
  <2>1. Rules[i].window \in Nat
    BY RulesAre
  <2>2. k \in DOMAIN of => of[k].resetAt \in Nat
    BY <1>2 DEF LogEntry
  <2>3. k \in DOMAIN of => (of[k].resetAt - Rules[i].window <= now
                             => of[k].resetAt - Rules[i].window <= now + 1)
    BY <1>1, <2>1, <2>2
  <2>. QED
    BY <1>2, <2>3 DEF WorkerOk, WindowOk
<1>3. ASSUME NEW i \in RuleIds, NEW A, GoneOk(admitted, now, A, restarts, i)
      PROVE  GoneOk(admitted, now + 1, A, restarts, i)
  BY <1>1, <1>3 DEF GoneOk
<1>4. ASSUME NEW i \in RuleIds, NEW q \in Request
      PROVE  /\ GoneOk(admitted, now + 1, Through(admitted, by, Gone, i, q), restarts, i)
             /\ \A w \in Workers :
                  WorkerOk(admitted, now + 1, Through(admitted, by, w, i, q), hits[w], Key(i, q),
                           Rules[i])
  BY <1>2, <1>3, TypedHits DEF Assigned
<1>5. by \in [DOMAIN admitted -> Workers \cup {Gone}]
  BY DEF Assigned
<1>. QED
  BY <1>1, <1>4, <1>5 DEF Assigned, RuleIds, Request

\* A check gives the request, if it passes, to the worker that let it through;
\* all its windows have room, since each rule that it concerns has counted it.
LEMMA CheckKeeps ==
    ASSUME RateTypeOK, NEW by, Assigned(by), NEW v \in Workers, NEW p \in Request, Check(v, p)
    PROVE  \E by2 : Assigned(by2)'
<1>. DEFINE N == Len(admitted) + 1
<1>. USE GoneIsNew
<1>1. by \in [DOMAIN admitted -> Workers \cup {Gone}]
  BY DEF Assigned
<1>2. /\ now' = now /\ restarts' = restarts /\ now \in Nat
      /\ admitted' = IF Refusing(v, p) = {} THEN Append(admitted, [at |-> now, q |-> p])
                     ELSE admitted
      /\ \A w \in Workers \ {v} : hits'[w] = hits[w]
      /\ DOMAIN hits'[v] = DOMAIN hits[v] \cup {Key(i, p) : i \in Reached(v, p)}
      /\ \A i \in Reached(v, p) : hits'[v][Key(i, p)] = HitOf(v, i, p)
      /\ \A k \in DOMAIN hits[v] :
           (\A i \in Reached(v, p) : Key(i, p) # k) => hits'[v][k] = hits[v][k]
  BY CheckIs DEF RateTypeOK
\* The log grows by the request, if no rule refuses it.
<1>3. /\ N \notin DOMAIN admitted
      /\ DOMAIN admitted \subseteq DOMAIN admitted'
      /\ DOMAIN admitted' \subseteq DOMAIN admitted \cup {N}
      /\ \A n \in DOMAIN admitted : admitted'[n] = admitted[n]
      /\ N \in DOMAIN admitted' =>
           admitted'[N].at = now /\ admitted'[N].q = p /\ Refusing(v, p) = {}
  <2>1. admitted \in Seq([at : 0..LastTick, q : Request])
    BY DEF RateTypeOK
  <2>2. DOMAIN admitted = 1..Len(admitted) /\ Len(admitted) \in Nat
    BY <2>1
  <2>3. CASE Refusing(v, p) = {}
    <3>. DEFINE e == [at |-> now, q |-> p]
    <3>1. e.at = now /\ e.q = p
      OBVIOUS
    <3>. HIDE DEF e
    <3>2. admitted' = Append(admitted, e)
      BY <1>2, <2>3 DEF e
    <3>3. /\ DOMAIN admitted' = 1..N
          /\ \A n \in DOMAIN admitted : admitted'[n] = admitted[n]
          /\ admitted'[N] = e
      BY <2>1, <2>2, <3>2
    <3>. QED
      BY <2>2, <2>3, <3>1, <3>3
  <2>4. CASE Refusing(v, p) # {}
    BY <1>2, <2>2, <2>4
  <2>. QED
    BY <2>3, <2>4
<1>. HIDE DEF N
<1>4. PICK by2 \in [DOMAIN admitted' -> Workers \cup {Gone}] :
        \A n \in DOMAIN admitted' : by2[n] = IF n \in DOMAIN admitted THEN by[n] ELSE v
  <2>1. [n \in DOMAIN admitted' |-> IF n \in DOMAIN admitted THEN by[n] ELSE v]
          \in [DOMAIN admitted' -> Workers \cup {Gone}]
    BY <1>1
  <2>. QED
    BY <2>1
\* The request is new to its worker and to its own keys alone.
<1>5. ASSUME NEW w, NEW i, NEW q
      PROVE  /\ Through(admitted', by2, w, i, q) \subseteq Through(admitted, by, w, i, q) \cup {N}
             /\ Through(admitted, by, w, i, q) \subseteq Through(admitted', by2, w, i, q)
             /\ N \in Through(admitted', by2, w, i, q) =>
                  /\ N \in DOMAIN admitted' /\ w = v
                  /\ Concerns(Rules[i], p) /\ Key(i, p) = Key(i, q)
             /\ \A n \in Through(admitted, by, w, i, q) : admitted'[n] = admitted[n]
             /\ N \notin Through(admitted, by, w, i, q)
  <2>1. \A n \in DOMAIN admitted :
          n \in Through(admitted', by2, w, i, q) <=> n \in Through(admitted, by, w, i, q)
    BY <1>3, <1>4 DEF Through, Passed
  <2>2. N \in Through(admitted', by2, w, i, q) =>
          /\ N \in DOMAIN admitted' /\ w = v
          /\ Concerns(Rules[i], p) /\ Key(i, p) = Key(i, q)
    BY <1>3, <1>4 DEF Through, Passed
  <2>3. \A n \in Through(admitted', by2, w, i, q) : n \in DOMAIN admitted'
    BY DEF Through, Passed
  <2>4. \A n \in Through(admitted, by, w, i, q) : n \in DOMAIN admitted
    BY DEF Through, Passed
  <2>. QED
    BY <1>3, <2>1, <2>2, <2>3, <2>4
<1>6. ASSUME NEW w, NEW i, NEW q, N \notin Through(admitted', by2, w, i, q)
      PROVE  Through(admitted', by2, w, i, q) = Through(admitted, by, w, i, q)
  BY <1>5, <1>6
<1>7. ASSUME NEW i \in RuleIds, NEW q \in Request
      PROVE  GoneOk(admitted', now, Through(admitted', by2, Gone, i, q), restarts, i)
  <2>. DEFINE A == Through(admitted, by, Gone, i, q)
  <2>1. GoneOk(admitted, now, A, restarts, i)
    BY DEF Assigned
  <2>2. Through(admitted', by2, Gone, i, q) = A
    BY <1>5, <1>6
  <2>3. \A t : Since(admitted', A, t) = Since(admitted, A, t)
    BY <1>5 DEF Since
  <2>. HIDE DEF A
  <2>. QED
    BY <2>1, <2>2, <2>3 DEF GoneOk
<1>8. ASSUME NEW i \in RuleIds, NEW q \in Request, NEW w \in Workers
      PROVE  WorkerOk(admitted', now, Through(admitted', by2, w, i, q), hits'[w], Key(i, q),
                      Rules[i])
  <2>. DEFINE A == Through(admitted, by, w, i, q)
              B == Through(admitted', by2, w, i, q)
  <2>1. WorkerOk(admitted, now, A, hits[w], Key(i, q), Rules[i])
    BY DEF Assigned
  <2>2. WorkerOk(admitted', now, A, hits[w], Key(i, q), Rules[i])
    BY <1>5, <2>1, SameWindow
  <2>3. ASSUME w # v PROVE WorkerOk(admitted', now, B, hits'[w], Key(i, q), Rules[i])
    <3>1. B = A
      BY <1>5, <1>6, <2>3
    <3>. QED
      BY <1>2, <2>2, <2>3, <3>1
  <2>4. ASSUME w = v, Key(i, q) # Key(i, p) \/ i \notin Reached(v, p)
        PROVE  WorkerOk(admitted', now, B, hits'[w], Key(i, q), Rules[i])
    <3>1. N \notin B
      <4>1. SUFFICES ASSUME N \in B PROVE FALSE
        OBVIOUS
      <4>2. N \in DOMAIN admitted' /\ Concerns(Rules[i], p) /\ Key(i, p) = Key(i, q)
        BY <1>5, <4>1
      <4>3. i \in Reached(v, p)
        BY <1>3, <4>2 DEF Reached, Concerned
      <4>. QED
        BY <2>4, <4>2, <4>3
    <3>2. B = A
      BY <1>6, <3>1
    <3>3. \A r \in Reached(v, p) : Key(r, p) # Key(i, q)
      BY <2>4, KeyParts
    <3>4. /\ Key(i, q) \in DOMAIN hits'[v] <=> Key(i, q) \in DOMAIN hits[v]
          /\ Key(i, q) \in DOMAIN hits[v] => hits'[v][Key(i, q)] = hits[v][Key(i, q)]
      BY <1>2, <3>3
    <3>. HIDE DEF A, B
    <3>. QED
      BY <2>2, <2>4, <3>2, <3>4 DEF WorkerOk
  <2>5. ASSUME w = v, Key(i, q) = Key(i, p), i \in Reached(v, p)
        PROVE  WorkerOk(admitted', now, B, hits'[w], Key(i, q), Rules[i])
    <3>. DEFINE of == hits[v]
                k == Key(i, q)
                entry == HitOf(v, i, p)
    <3>1. Rules[i] \in Rule /\ (k \in DOMAIN of => of[k] \in LogEntry(Rules[i]))
      BY RulesAre, TypedHits
    <3>2. /\ IsFiniteSet(A) /\ \A n \in A : admitted[n].at \in Nat /\ admitted'[n].at = admitted[n].at
          /\ \A n \in A : n \in DOMAIN admitted
      <4>1. IsFiniteSet(A) /\ \A n \in A : n \in DOMAIN admitted
        BY ThroughIsFinite
      <4>2. \A n \in DOMAIN admitted : admitted[n].at \in Nat
        BY EntriesAreTyped
      <4>. QED
        BY <1>3, <4>1, <4>2
    <3>3. /\ k \in DOMAIN of => WindowOk(admitted, now, A, of[k], Rules[i])
          /\ k \notin DOMAIN of => A = {}
      BY <2>1, <2>5 DEF WorkerOk
    <3>4. entry = Hit(of, k, Rules[i])
      BY <2>5 DEF HitOf
    <3>5. B \subseteq A \cup {N}
      BY <1>5
    <3>6. N \in B => N \notin A /\ admitted'[N].at = now /\ entry.count <= Rules[i].limit
      <4>1. SUFFICES ASSUME N \in B
                     PROVE  N \notin A /\ admitted'[N].at = now /\ entry.count <= Rules[i].limit
        OBVIOUS
      <4>2. N \in DOMAIN admitted' /\ i \in Concerned(p)
        BY <1>5, <4>1 DEF Concerned
      <4>3. Refusing(v, p) = {} /\ admitted'[N].at = now
        BY <1>3, <4>2
      <4>4. ~(entry.count > Rules[i].limit)
        BY <4>2, <4>3 DEF Refusing
      <4>5. entry.count \in Nat /\ Rules[i].limit \in Nat
        BY <1>2, <3>1, <3>4, HitIs DEF LogEntry, Rule
      <4>6. N \notin A
        BY <1>5
      <4>. HIDE DEF entry, A
      <4>. QED
        BY <4>3, <4>4, <4>5, <4>6
    <3>7. WindowOk(admitted', now, B, entry, Rules[i])
      <4>. HIDE DEF A, B, of, k, entry
      <4>1. k \in DOMAIN of =>
              of[k] \in LogEntry(Rules[i]) /\ WindowOk(admitted, now, A, of[k], Rules[i])
        BY <3>1, <3>3
      <4>2. \A n \in A : admitted[n].at \in Nat /\ admitted'[n].at = admitted[n].at
        BY <3>2
      <4>3. IsFiniteSet(A) /\ Rules[i] \in Rule /\ now \in Nat /\ (k \notin DOMAIN of => A = {})
        BY <1>2, <3>1, <3>2, <3>3
      <4>. QED
        BY <4>1, <4>2, <4>3, <3>4, <3>5, <3>6, HitWindow
    <3>8. k \in DOMAIN hits'[v] /\ hits'[v][k] = entry
      BY <1>2, <2>5
    <3>. HIDE DEF A, B, of, entry
    <3>. QED
      BY <2>5, <3>7, <3>8 DEF WorkerOk
  <2>. QED
    BY <2>3, <2>4, <2>5
<1>9. Assigned(by2)'
  BY <1>2, <1>4, <1>7, <1>8 DEF Assigned, RuleIds, Request
<1>. QED
  BY <1>9

\* Every reachable log is made up of what each worker let through.
LEMMA RateInvHolds == RateSpec => []RateInv
<1>1. RateInit => \E by : Assigned(by)
  <2>. SUFFICES ASSUME RateInit PROVE \E by : Assigned(by)
    OBVIOUS
  <2>1. admitted = <<>> /\ DOMAIN admitted = {} /\ restarts = 0
        /\ \A w \in Workers : hits[w] = NoHits
    BY DEF RateInit
  <2>2. ASSUME NEW by, NEW w, NEW i, NEW q PROVE Through(admitted, by, w, i, q) = {}
    BY <2>1 DEF Through, Passed
  <2>3. ASSUME NEW i \in RuleIds PROVE GoneOk(admitted, now, {}, restarts, i)
    <3>1. \A t : Since(admitted, {}, t) = {}
      BY DEF Since
    <3>2. MostOfSpan(i) \in Int
      BY RulesAre DEF MostOfSpan
    <3>3. 0 <= 0 * MostOfSpan(i)
      BY <3>2
    <3>. QED
      BY <2>1, <3>1, <3>3, FS_EmptySet DEF GoneOk
  <2>4. ASSUME NEW w \in Workers, NEW i, NEW q
        PROVE  WorkerOk(admitted, now, {}, hits[w], Key(i, q), Rules[i])
    BY <2>1 DEF WorkerOk, NoHits
  <2>5. PICK by : by = [n \in DOMAIN admitted |-> Gone]
    OBVIOUS
  <2>6. Assigned(by)
    BY <2>2, <2>3, <2>4, <2>5 DEF Assigned
  <2>. QED
    BY <2>6
<1>2. RateTypeOK /\ (\E by : Assigned(by)) /\ [RateNext]_rateVars => (\E by : Assigned(by))'
  <2>. SUFFICES ASSUME RateTypeOK, NEW by, Assigned(by), [RateNext]_rateVars
                PROVE  (\E by2 : Assigned(by2))'
    OBVIOUS
  <2>1. ASSUME NEW w \in Workers, NEW q \in Request, Check(w, q)
        PROVE  (\E by2 : Assigned(by2))'
    BY <2>1, CheckKeeps
  <2>2. ASSUME NEW w \in Workers, RestartWorker(w) PROVE (\E by2 : Assigned(by2))'
    BY <2>2, RestartKeeps
  <2>3. CASE SecondPasses
    BY <2>3, SecondKeeps
  <2>4. CASE UNCHANGED rateVars
    BY <2>4 DEF rateVars, Assigned, RuleIds, Request
  <2>. QED
    BY <2>1, <2>2, <2>3, <2>4 DEF RateNext
<1>. QED
  BY <1>1, <1>2, RateTypeCorrect, PTL DEF RateSpec, RateInv

\* The parts of the log together are within the bound.
LEMMA RateInvBounds == RateInv => SlidingBound
<1>. SUFFICES ASSUME RateInv, NEW i \in RuleIds, NEW q \in Request
              PROVE  LET like(r) == Concerns(Rules[i], r) /\ KeyOf(Rules[i], r) = KeyOf(Rules[i], q)
                         recent == {n \in DOMAIN admitted :
                                      admitted[n].at > now - Rules[i].window /\ like(admitted[n].q)}
                     IN  Cardinality(recent)
                           <= (Cardinality(Workers) + restarts) * (2 * Rules[i].limit - 1)
  BY DEF SlidingBound
<1>1. RateTypeOK /\ now \in Nat /\ restarts \in Nat
  BY RateLimiterAssumption DEF RateInv, RateTypeOK
<1>2. PICK by : Assigned(by)
  BY DEF RateInv
<1>. DEFINE s == now - Rules[i].window + 1
            All == Since(admitted, Passed(admitted, i, q), s)
            Theirs == {n \in All : by[n] = Gone}
            Ours == {n \in All : by[n] # Gone}
            M == MostOfSpan(i)
<1>3. Rules[i].window \in Nat /\ Rules[i].limit \in Nat \ {0} /\ M \in Nat
  BY RulesAre DEF MostOfSpan
<1>4. {n \in DOMAIN admitted : /\ admitted[n].at > now - Rules[i].window
                               /\ Concerns(Rules[i], admitted[n].q)
                               /\ KeyOf(Rules[i], admitted[n].q) = KeyOf(Rules[i], q)}
        \subseteq All
  <2>1. \A n \in DOMAIN admitted : admitted[n].at \in Nat
    BY <1>1, EntriesAreTyped
  <2>. QED
    BY <1>1, <1>3, <2>1 DEF Since, Passed, Key
<1>5. IsFiniteSet(All) /\ IsFiniteSet(Ours) /\ IsFiniteSet(Theirs)
  BY <1>1, ThroughIsFinite, FS_Subset DEF Since
<1>6. Cardinality(Theirs) <= restarts * M
  <2>1. Theirs = Since(admitted, Through(admitted, by, Gone, i, q), s)
    BY DEF Since, Through
  <2>2. GoneOk(admitted, now, Through(admitted, by, Gone, i, q), restarts, i)
    BY <1>2 DEF Assigned
  <2>. QED
    BY <1>1, <2>1, <2>2 DEF GoneOk
<1>7. Cardinality(Ours) <= Cardinality(Workers) * M
  <2>1. IsFiniteSet(Workers)
    BY RateLimiterAssumption
  <2>2. PICK f \in [Ours -> Workers] : \A n \in Ours : f[n] = by[n]
    <3>1. by \in [DOMAIN admitted -> Workers \cup {Gone}]
      BY <1>2 DEF Assigned
    <3>2. \A n \in Ours : n \in DOMAIN admitted /\ by[n] # Gone
      BY DEF Since, Passed
    <3>. HIDE DEF Ours
    <3>3. [n \in Ours |-> by[n]] \in [Ours -> Workers]
      BY <3>1, <3>2
    <3>. QED
      BY <3>3
  <2>3. ASSUME NEW w \in Workers PROVE Cardinality({n \in Ours : f[n] = w}) <= M
    <3>. DEFINE A == Through(admitted, by, w, i, q)
                Mine == {n \in Ours : f[n] = w}
    <3>1. WorkerOk(admitted, now, A, hits[w], Key(i, q), Rules[i])
      BY <1>2 DEF Assigned
    <3>2. IsFiniteSet(A) /\ \A n \in A : admitted[n].at \in Int
      BY <1>1, ThroughIsFinite
    <3>3. Key(i, q) \in DOMAIN hits[w] => hits[w][Key(i, q)] \in LogEntry(Rules[i])
      BY <1>1, TypedHits
    <3>4. Mine \subseteq Since(admitted, A, s)
      BY <2>2 DEF Since, Through
    <3>. HIDE DEF A, Mine, M, s
    <3>5. Cardinality(Since(admitted, A, s)) \in Nat /\ Cardinality(Since(admitted, A, s)) <= M
      BY <1>1, <3>1, <3>2, <3>3, SpanOfWorker DEF s, M
    <3>6. IsFiniteSet(Since(admitted, A, s))
      BY <3>2, FS_Subset DEF Since
    <3>7. Cardinality(Mine) <= Cardinality(Since(admitted, A, s)) /\ Cardinality(Mine) \in Nat
      BY <3>4, <3>6, Smaller
    <3>8. Cardinality(Mine) <= M
      BY <1>3, <3>5, <3>7
    <3>. QED
      BY <3>8 DEF Mine
  <2>. HIDE DEF Ours, M
  <2>. QED
    BY <1>3, <1>5, <2>1, <2>2, <2>3, UnionBound
<1>. DEFINE recent == {n \in DOMAIN admitted :
                         /\ admitted[n].at > now - Rules[i].window
                         /\ Concerns(Rules[i], admitted[n].q)
                         /\ KeyOf(Rules[i], admitted[n].q) = KeyOf(Rules[i], q)}
<1>8. Cardinality(recent) <= (Cardinality(Workers) + restarts) * M
  <2>1. recent \subseteq Theirs \cup Ours
    BY <1>4
  <2>. HIDE DEF recent, Theirs, Ours, M
  <2>2. /\ IsFiniteSet(Theirs \cup Ours) /\ Cardinality(Theirs \cap Ours) \in Nat
        /\ Cardinality(Theirs \cup Ours)
             = Cardinality(Theirs) + Cardinality(Ours) - Cardinality(Theirs \cap Ours)
    BY <1>5, FS_Union, FS_Intersection, FS_CardinalityType
  <2>3. /\ Cardinality(recent) <= Cardinality(Theirs \cup Ours) /\ Cardinality(recent) \in Nat
        /\ Cardinality(Theirs \cup Ours) \in Nat
    BY <2>1, <2>2, Smaller
  <2>4. /\ Cardinality(Theirs) \in Nat /\ Cardinality(Ours) \in Nat
        /\ Cardinality(Workers) \in Nat
    BY <1>5, FS_CardinalityType, RateLimiterAssumption
  <2>5. (Cardinality(Workers) + restarts) * M = Cardinality(Workers) * M + restarts * M
        /\ Cardinality(Workers) * M \in Nat /\ restarts * M \in Nat
    BY <1>1, <1>3, <2>4
  <2>. QED
    BY <1>6, <1>7, <2>2, <2>3, <2>4, <2>5
<1>. QED
  BY <1>8 DEF MostOfSpan

\* For any processes, rules and number of restarts: in any span as long as the
\* window of a rule, fewer than twice its limit of requests with the same key
\* pass for each process and each restart (InMemoryFixedWindowStorage counts by
\* fixed windows, in each process for itself, and forgets at a restart).
THEOREM SlidingIsBounded == RateSpec => []SlidingBound
  BY RateInvHolds, RateInvBounds, PTL

================================================================================
