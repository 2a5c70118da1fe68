--------------------------- MODULE JobPosting_proofs ---------------------------
(***************************************************************************)
(* Type correctness of JobPosting, and the bound on how far the plan's     *)
(* limit on published jobs is overrun, for any number of recruiters and    *)
(* super administrators, any batches and any limit.                        *)
(***************************************************************************)
EXTENDS JobPosting, FiniteSetTheorems, TLAPS

-----------------------------------------------------------------------------
\* Type correctness: an order past its first step is for a job that exists
\* and was not deleted when it was read.

Choosing == {"limit", "select", "write"}

Referring ==
    \A r \in Recruiters :
        /\ doing[r] \in Choosing \cup {"announce"} => order[r].job \in Jobs
        /\ doing[r] \in Choosing => ~order[r].seen.deleted

\* An administrator is about to activate no more jobs than a batch has.
BatchesFit == \A a \in Admins : Cardinality(listed[a]) <= BatchSize

PostingTyped == JobPostingTypeOK /\ Referring /\ BatchesFit

LEMMA NoRowTyped == NoRow \in Posting /\ NoOrder \in Order
<1>1. (CHOOSE d \in Details : TRUE) \in Details
  BY OrdersAssumption
<1>2. NoRow \in Posting
  BY <1>1, JobPostingAssumption DEF NoRow, Posting, Days, JobStatuses
<1>. QED
  BY <1>2 DEF NoOrder, Order

LEMMA PostingTypedAtFirst == JobPostingInit => PostingTyped
<1>. SUFFICES ASSUME JobPostingInit PROVE PostingTyped
  OBVIOUS
<1>1. BatchesFit
  BY FS_EmptySet, JobPostingAssumption DEF JobPostingInit, JobPostingIdle, BatchesFit
<1>. QED
  BY <1>1, NoRowTyped, JobPostingAssumption
     DEF JobPostingInit, JobPostingIdle, PostingTyped, JobPostingTypeOK, Referring, Choosing, Days, Doings

LEMMA EndOrderTyped ==
    ASSUME PostingTyped, NEW r \in Recruiters, EndOrder(r)
    PROVE  /\ doing' \in [Recruiters -> Doings] /\ order' \in [Recruiters -> Order]
           /\ Referring'
  BY NoRowTyped DEF PostingTyped, JobPostingTypeOK, Referring, Choosing, EndOrder, Proceed, Doings

\* A step that takes an order on as it is.
LEMMA ProceedTyped ==
    ASSUME PostingTyped, NEW r \in Recruiters, NEW next \in Doings, Proceed(r, next), UNCHANGED order,
           next \in Choosing => doing[r] \in Choosing,
           next # "announce"
    PROVE  doing' \in [Recruiters -> Doings] /\ order' \in [Recruiters -> Order] /\ Referring'
  BY DEF PostingTyped, JobPostingTypeOK, Referring, Choosing, Proceed

\* A request that has read a row and decided what to make of it.
LEMMA OrderTyped ==
    ASSUME PostingTyped, NEW r \in Recruiters, NEW next \in Choosing, Proceed(r, next),
           NEW j \in Jobs, NEW seen \in Posting, NEW to \in Posting, ~seen.deleted,
           order' = [order EXCEPT ![r] = [job |-> j, seen |-> seen, to |-> to]]
    PROVE  doing' \in [Recruiters -> Doings] /\ order' \in [Recruiters -> Order] /\ Referring'
<1>1. [job |-> j, seen |-> seen, to |-> to] \in Order
  BY DEF Order
<1>2. next \in Doings
  BY DEF Choosing, Doings
<1>. QED
  BY <1>1, <1>2 DEF PostingTyped, JobPostingTypeOK, Referring, Choosing, Proceed

LEMMA ExpiredTyped ==
    ASSUME PostingTyped
    PROVE  /\ ExpiredPostings \in [Jobs -> Posting]
           /\ \A j \in Jobs : ExpiredPostings[j].deleted = posting[j].deleted
  BY DEF PostingTyped, JobPostingTypeOK, ExpiredPostings, Posting, JobStatuses

LEMMA EditedTyped ==
    ASSUME PostingTyped, NEW row \in Posting, NEW edit \in Edits
    PROVE  Edited(row, edit) \in Posting
<1>1. [row EXCEPT !.status = "PUBLISHED"] \in Posting
  BY DEF Posting, JobStatuses
<1>. QED
  BY <1>1, OrdersAssumption DEF Edited

LEMMA WrittenTyped ==
    ASSUME PostingTyped, NEW r \in Recruiters, doing[r] = "write"
    PROVE  /\ Written(r) \in Posting
           /\ Written(r).status =
                IF order[r].to.status # order[r].seen.status THEN order[r].to.status
                ELSE posting[order[r].job].status
           /\ posting[order[r].job].deleted => Written(r).deleted
<1>1. posting[order[r].job] \in Posting /\ order[r].to \in Posting /\ order[r].seen \in Posting
      /\ ~order[r].seen.deleted
  BY DEF PostingTyped, JobPostingTypeOK, Referring, Choosing, Order
<1>. QED
  BY <1>1 DEF Written, Posting

\* The steps of recruiters and of time.
LEMMA RecruitersNextTyped ==
    ASSUME PostingTyped, RecruitersNext, UNCHANGED listed
    PROVE  PostingTyped'
<1>. BatchesFit' /\ listed' \in [Admins -> SUBSET Jobs]
  BY DEF BatchesFit, PostingTyped, JobPostingTypeOK
<1>1. ASSUME NEW r \in Recruiters, NEW row \in Drafts, CreatePostJob(r, row) PROVE PostingTyped'
  <2>1. row \in Posting
    BY OrdersAssumption
  <2>2. order' \in [Recruiters -> Order]
    BY <1>1, <2>1 DEF CreatePostJob, PostingTyped, JobPostingTypeOK, Order
  <2>3. Referring'
    BY <1>1 DEF CreatePostJob, Proceed, PostingTyped, JobPostingTypeOK, Referring, Choosing, Order
  <2>. QED
    BY <1>1, <2>2, <2>3 DEF CreatePostJob, Proceed, PostingTyped, JobPostingTypeOK, Doings
<1>2. ASSUME NEW r \in Recruiters, FindEarlierJob(r) PROVE PostingTyped'
  <2>1. CASE EndOrder(r)
    BY <1>2, <2>1, EndOrderTyped DEF FindEarlierJob, PostingTyped, JobPostingTypeOK
  <2>2. CASE Proceed(r, "insert") /\ UNCHANGED order
    BY <1>2, <2>2, ProceedTyped DEF FindEarlierJob, PostingTyped, JobPostingTypeOK, Doings, Choosing
  <2>. QED
    BY <1>2, <2>1, <2>2 DEF FindEarlierJob
<1>3. ASSUME NEW r \in Recruiters, InsertJob(r) PROVE PostingTyped'
  <2>1. CASE EndOrder(r) /\ UNCHANGED posting
    BY <1>3, <2>1, EndOrderTyped DEF InsertJob, PostingTyped, JobPostingTypeOK
  <2>2. ASSUME NEW j \in Jobs, posting' = [posting EXCEPT ![j] = order[r].to],
               \/ Proceed(r, "announce") /\ order' = [order EXCEPT ![r].job = j]
               \/ EndOrder(r)
        PROVE PostingTyped'
    <3>1. posting' \in [Jobs -> Posting]
      BY <2>2 DEF PostingTyped, JobPostingTypeOK, Order
    <3>2. ASSUME Proceed(r, "announce"), order' = [order EXCEPT ![r].job = j]
          PROVE doing' \in [Recruiters -> Doings] /\ order' \in [Recruiters -> Order] /\ Referring'
      BY <3>2 DEF PostingTyped, JobPostingTypeOK, Order, Proceed, Doings, Referring, Choosing
    <3>. QED
      BY <1>3, <2>2, <3>1, <3>2, EndOrderTyped DEF InsertJob, PostingTyped, JobPostingTypeOK
  <2>. QED
    BY <1>3, <2>1, <2>2 DEF InsertJob
<1>4. ASSUME NEW r \in Recruiters, NotifyMatchingJobAlerts(r) PROVE PostingTyped'
  BY <1>4, EndOrderTyped DEF NotifyMatchingJobAlerts, PostingTyped, JobPostingTypeOK, Referring
<1>5. ASSUME NEW r \in Recruiters, CheckPublishLimit(r) PROVE PostingTyped'
  <2>1. CASE EndOrder(r)
    BY <1>5, <2>1, EndOrderTyped DEF CheckPublishLimit, PostingTyped, JobPostingTypeOK
  <2>2. CASE Proceed(r, "select") /\ UNCHANGED order
    BY <1>5, <2>2, ProceedTyped DEF CheckPublishLimit, PostingTyped, JobPostingTypeOK, Doings, Choosing
  <2>. QED
    BY <1>5, <2>1, <2>2 DEF CheckPublishLimit
<1>6. ASSUME NEW r \in Recruiters, SelectJob(r) PROVE PostingTyped'
  <2>1. CASE EndOrder(r)
    BY <1>6, <2>1, EndOrderTyped DEF SelectJob, PostingTyped, JobPostingTypeOK
  <2>2. CASE Proceed(r, "write") /\ UNCHANGED order
    BY <1>6, <2>2, ProceedTyped DEF SelectJob, PostingTyped, JobPostingTypeOK, Doings, Choosing
  <2>. QED
    BY <1>6, <2>1, <2>2 DEF SelectJob
<1>7. ASSUME NEW r \in Recruiters, WriteJob(r) PROVE PostingTyped'
  <2>1. posting' \in [Jobs -> Posting]
    BY <1>7, WrittenTyped DEF WriteJob, PostingTyped, JobPostingTypeOK
  <2>. QED
    BY <1>7, <2>1, EndOrderTyped DEF WriteJob, PostingTyped, JobPostingTypeOK
<1>8. ASSUME NEW r \in Recruiters, OrderCutOff(r) PROVE PostingTyped'
  BY <1>8, EndOrderTyped DEF OrderCutOff, PostingTyped, JobPostingTypeOK
<1>9. ASSUME NEW r \in Recruiters, NEW j \in Jobs, CloseJob(r, j) PROVE PostingTyped'
  <2>1. posting[j] \in Posting /\ [posting[j] EXCEPT !.status = "CLOSED", !.closedAt = TRUE] \in Posting
    BY DEF PostingTyped, JobPostingTypeOK, Posting, JobStatuses
  <2>2. ~posting[j].deleted
    BY <1>9 DEF CloseJob, OpenJobs, Live
  <2>. QED
    BY <1>9, <2>1, <2>2, OrderTyped DEF CloseJob, Choosing, PostingTyped, JobPostingTypeOK
<1>10. ASSUME NEW r \in Recruiters, NEW j \in Jobs, DeleteJob(r, j) PROVE PostingTyped'
  <2>1. posting[j] \in Posting /\ Deleted(posting[j]) \in Posting
    BY DEF PostingTyped, JobPostingTypeOK, Posting, JobStatuses, Deleted
  <2>2. ~posting[j].deleted
    BY <1>10 DEF DeleteJob, Live
  <2>. QED
    BY <1>10, <2>1, <2>2, OrderTyped DEF DeleteJob, Choosing, PostingTyped, JobPostingTypeOK
<1>11. ASSUME NEW r \in Recruiters, NEW j \in Jobs, NEW edit \in Edits, UpdateJob(r, j, edit) PROVE PostingTyped'
  <2>1. ExpiredPostings \in [Jobs -> Posting] /\ ~ExpiredPostings[j].deleted
    BY <1>11, ExpiredTyped DEF UpdateJob, Live
  <2>2. Edited(ExpiredPostings[j], edit) \in Posting
    BY <2>1, EditedTyped
  <2>3. \E next \in Choosing : Proceed(r, next)
    BY <1>11 DEF UpdateJob, Choosing
  <2>4. order' = [order EXCEPT ![r] = [job |-> j, seen |-> ExpiredPostings[j],
                                       to |-> Edited(ExpiredPostings[j], edit)]]
    BY <1>11 DEF UpdateJob
  <2>5. doing' \in [Recruiters -> Doings] /\ order' \in [Recruiters -> Order] /\ Referring'
    BY <2>1, <2>2, <2>3, <2>4, OrderTyped
  <2>. QED
    BY <1>11, <2>1, <2>5 DEF UpdateJob, PostingTyped, JobPostingTypeOK
<1>12. CASE ExpireJobsPastDeadline
  BY <1>12, ExpiredTyped DEF ExpireJobsPastDeadline, PostingTyped, JobPostingTypeOK, Referring
<1>13. CASE DayPasses
  BY <1>13, JobPostingAssumption DEF DayPasses, PostingTyped, JobPostingTypeOK, Referring, Days
<1>. QED
  BY <1>1, <1>2, <1>3, <1>4, <1>5, <1>6, <1>7, <1>8, <1>9, <1>10, <1>11, <1>12, <1>13
     DEF RecruitersNext

\* The statement of a bulk action, whose change leaves a row a row.
LEMMA BulkTyped ==
    ASSUME PostingTyped, NEW batch,
           \/ BulkUpdate(batch, Activated) \/ BulkUpdate(batch, Paused)
           \/ BulkUpdate(batch, Closed) \/ BulkUpdate(batch, Removed)
    PROVE  posting' \in [Jobs -> Posting]
<1>1. \A j \in Jobs : /\ Activated[j] \in Posting /\ Paused[j] \in Posting
                     /\ Closed[j] \in Posting /\ Removed[j] \in Posting
  BY DEF PostingTyped, JobPostingTypeOK, Posting, JobStatuses, Activated, Paused, Closed, Removed
<1>. QED
  BY <1>1 DEF BulkUpdate, PostingTyped, JobPostingTypeOK

\* An administrator takes on a list, or is through with it.
LEMMA ListedTyped ==
    ASSUME PostingTyped, NEW a \in Admins, NEW list \in SUBSET Jobs, Cardinality(list) <= BatchSize,
           listed' = [listed EXCEPT ![a] = list]
    PROVE  listed' \in [Admins -> SUBSET Jobs] /\ BatchesFit'
  BY DEF PostingTyped, JobPostingTypeOK, BatchesFit

LEMMA NoneListed ==
    ASSUME PostingTyped, NEW a \in Admins, listed' = [listed EXCEPT ![a] = {}]
    PROVE  listed' \in [Admins -> SUBSET Jobs] /\ BatchesFit'
<1>1. Cardinality({}) <= BatchSize
  BY FS_EmptySet, JobPostingAssumption
<1>. QED
  BY <1>1, ListedTyped

\* The jobs of a batch that are there.
LEMMA BatchTyped ==
    ASSUME NEW batch \in Batches
    PROVE  /\ {j \in batch : Live(j)} \in SUBSET Jobs
           /\ Cardinality({j \in batch : Live(j)}) <= BatchSize
<1>. DEFINE there == {j \in batch : Live(j)}
<1>1. batch \subseteq Jobs /\ Cardinality(batch) <= BatchSize /\ BatchSize \in Nat
  BY JobPostingAssumption
<1>2. IsFiniteSet(batch)
  BY <1>1, JobPostingAssumption, FS_Subset
<1>3. there \subseteq batch
  OBVIOUS
<1>4. Cardinality(there) <= Cardinality(batch) /\ IsFiniteSet(there)
  BY <1>2, <1>3, FS_Subset
<1>5. Cardinality(there) \in Nat /\ Cardinality(batch) \in Nat
  BY <1>2, <1>4, FS_CardinalityType
<1>. QED
  BY <1>1, <1>3, <1>4, <1>5

LEMMA AdminsNextTyped ==
    ASSUME PostingTyped, AdminsNext
    PROVE  PostingTyped'
<1>1. UNCHANGED recruiterVars
  BY DEF AdminsNext, BulkActivate, ActivateJobs, BulkActivateCutOff, BulkPause, BulkClose, BulkDelete
<1>2. Referring'
  BY <1>1 DEF recruiterVars, PostingTyped, Referring
<1>3. posting' \in [Jobs -> Posting]
  <2>1. CASE UNCHANGED posting
    BY <2>1 DEF PostingTyped, JobPostingTypeOK
  <2>2. CASE \E batch : \/ BulkUpdate(batch, Activated) \/ BulkUpdate(batch, Paused)
                        \/ BulkUpdate(batch, Closed) \/ BulkUpdate(batch, Removed)
    BY <2>2, BulkTyped
  <2>. QED
    BY <2>1, <2>2 DEF AdminsNext, BulkActivate, ActivateJobs, BulkActivateCutOff,
                      BulkPause, BulkClose, BulkDelete
<1>4. listed' \in [Admins -> SUBSET Jobs] /\ BatchesFit'
  <2>1. ASSUME NEW a \in Admins, NEW batch \in Batches, BulkActivate(a, batch)
        PROVE listed' \in [Admins -> SUBSET Jobs] /\ BatchesFit'
    BY <2>1, BatchTyped, ListedTyped DEF BulkActivate
  <2>2. ASSUME NEW a \in Admins, ActivateJobs(a) \/ BulkActivateCutOff(a)
        PROVE listed' \in [Admins -> SUBSET Jobs] /\ BatchesFit'
    BY <2>2, NoneListed DEF ActivateJobs, BulkActivateCutOff
  <2>3. ASSUME UNCHANGED listed PROVE listed' \in [Admins -> SUBSET Jobs] /\ BatchesFit'
    BY <2>3 DEF PostingTyped, JobPostingTypeOK, BatchesFit
  <2>. QED
    BY <2>1, <2>2, <2>3 DEF AdminsNext, BulkPause, BulkClose, BulkDelete
<1>. QED
  BY <1>1, <1>2, <1>3, <1>4 DEF recruiterVars, PostingTyped, JobPostingTypeOK

LEMMA PostingStepTyped == PostingTyped /\ [JobPostingNext]_jobPostingVars => PostingTyped'
<1>1. ASSUME PostingTyped, UNCHANGED jobPostingVars PROVE PostingTyped'
  BY <1>1 DEF jobPostingVars, recruiterVars, PostingTyped, JobPostingTypeOK, Referring, BatchesFit
<1>. QED
  BY <1>1, RecruitersNextTyped, AdminsNextTyped DEF JobPostingNext

\* Every reachable state of the postings is well typed, for any jobs,
\* recruiters, edits and limit.
THEOREM PostingTypeCorrect == JobPostingSpec => []JobPostingTypeOK
<1>1. JobPostingSpec => []PostingTyped
  BY PostingTypedAtFirst, PostingStepTyped, PTL DEF JobPostingSpec
<1>. QED
  BY <1>1, PTL DEF PostingTyped

-----------------------------------------------------------------------------
\* The overrun: the published jobs, with the requests that have counted them
\* and are about to open one.

OpenInv == PostingTyped /\ PublishedBounded

LEMMA OpeningFinite ==
    /\ IsFiniteSet(Opening) /\ Cardinality(Opening) \in Nat
    /\ Cardinality(Opening) <= Cardinality(Recruiters) /\ Cardinality(Recruiters) \in Nat
<1>1. Opening \subseteq Recruiters
  BY DEF Opening
<1>. QED
  BY <1>1, JobPostingAssumption, FS_Subset, FS_CardinalityType

LEMMA PromisedFinite ==
    ASSUME PostingTyped
    PROVE  /\ IsFiniteSet(OpenJobs) /\ Cardinality(OpenJobs) \in Nat
           /\ IsFiniteSet(Promised) /\ Cardinality(Promised) \in Nat
<1>1. OpenJobs \subseteq Jobs /\ Promised \subseteq Jobs
  BY DEF OpenJobs, Promised, Listed, PostingTyped, JobPostingTypeOK
<1>. QED
  BY <1>1, JobPostingAssumption, FS_Subset, FS_CardinalityType

\* The same of the next state.
LEMMA FiniteNext ==
    ASSUME PostingTyped'
    PROVE  /\ Cardinality(Opening') \in Nat /\ Cardinality(Opening') <= Cardinality(Recruiters)
           /\ Cardinality(Promised') \in Nat
<1>1. Opening' \subseteq Recruiters /\ Promised' \subseteq Jobs
  BY DEF Opening, OpenJobs, Promised, Listed, PostingTyped, JobPostingTypeOK
<1>. QED
  BY <1>1, JobPostingAssumption, FS_Subset, FS_CardinalityType

\* Some of the administrators have listed no more than a batch each: a listed
\* job is told by an administrator and a place in a batch.
LEMMA UnionBounded ==
    ASSUME NEW f \in [Admins -> SUBSET Jobs], \A a \in Admins : Cardinality(f[a]) <= BatchSize,
           NEW some \in SUBSET Admins
    PROVE  LET union == UNION {f[a] : a \in some} IN
           /\ IsFiniteSet(union) /\ Cardinality(union) \in Nat
           /\ Cardinality(union) <= Cardinality(some) * BatchSize
<1>. DEFINE union == UNION {f[a] : a \in some}
            places == 1..BatchSize
<1>1. IsFiniteSet(some) /\ IsFiniteSet(union)
  BY JobPostingAssumption, FS_Subset
<1>2. \A a \in Admins : \E place : place \in Injection(f[a], places)
  <2>. SUFFICES ASSUME NEW a \in Admins PROVE \E place : place \in Injection(f[a], places)
    OBVIOUS
  <2>1. IsFiniteSet(f[a])
    BY JobPostingAssumption, FS_Subset
  <2>. DEFINE n == Cardinality(f[a])
  <2>2. n \in Nat /\ n <= BatchSize /\ ExistsBijection(1..n, f[a])
    BY <2>1, FS_CardinalityType
  <2>3. PICK b : b \in Bijection(1..n, f[a])
    BY <2>2 DEF ExistsBijection
  <2>. DEFINE place == [j \in f[a] |-> CHOOSE i \in 1..n : b[i] = j]
  <2>4. \A j \in f[a] : place[j] \in 1..n /\ b[place[j]] = j
    BY <2>3 DEF Bijection, Surjection
  <2>5. 1..n \subseteq places
    BY <2>2, JobPostingAssumption
  <2>6. place \in [f[a] -> places]
    BY <2>4, <2>5
  <2>7. place \in Injection(f[a], places)
    BY <2>4, <2>6 DEF Injection, IsInjective
  <2>. QED
    BY <2>7
<1>. DEFINE place == [a \in Admins |-> CHOOSE p : p \in Injection(f[a], places)]
            of == [j \in union |-> CHOOSE a \in some : j \in f[a]]
            told == [j \in union |-> <<of[j], place[of[j]][j]>>]
<1>3. \A a \in Admins : place[a] \in Injection(f[a], places)
  BY <1>2
<1>4. \A j \in union : of[j] \in some /\ of[j] \in Admins /\ j \in f[of[j]]
  OBVIOUS
<1>5. \A j \in union : place[of[j]][j] \in places
  BY <1>3, <1>4 DEF Injection
<1>6. told \in [union -> some \X places]
  BY <1>4, <1>5
<1>7. ASSUME NEW j \in union, NEW k \in union, of[j] = of[k], place[of[j]][j] = place[of[k]][k]
      PROVE j = k
  <2>1. place[of[j]] \in Injection(f[of[j]], places) /\ j \in f[of[j]] /\ k \in f[of[j]]
    BY <1>3, <1>4, <1>7
  <2>. QED
    BY <1>7, <2>1 DEF Injection, IsInjective
<1>8. told \in Injection(union, some \X places)
  <2>. HIDE DEF of, place, union, places
  <2>. QED
    BY <1>6, <1>7 DEF Injection, IsInjective
<1>9. IsFiniteSet(places) /\ Cardinality(places) = BatchSize
  BY JobPostingAssumption, FS_Interval
<1>10. IsFiniteSet(some \X places) /\ Cardinality(some \X places) = Cardinality(some) * BatchSize
  BY <1>1, <1>9, FS_Product
<1>11. Cardinality(union) <= Cardinality(some \X places)
  BY <1>8, <1>10, FS_Injection
<1>. QED
  BY <1>1, <1>10, <1>11, FS_CardinalityType

LEMMA UnionAtMost ==
    ASSUME NEW S, NEW T, IsFiniteSet(S), IsFiniteSet(T)
    PROVE  /\ IsFiniteSet(S \cup T) /\ Cardinality(S \cup T) \in Nat
           /\ Cardinality(S \cup T) <= Cardinality(S) + Cardinality(T)
<1>1. IsFiniteSet(S \cap T) /\ Cardinality(S \cap T) \in Nat
  BY FS_Intersection, FS_CardinalityType
<1>2. Cardinality(S) \in Nat /\ Cardinality(T) \in Nat
  BY FS_CardinalityType
<1>3. /\ IsFiniteSet(S \cup T)
      /\ Cardinality(S \cup T) = Cardinality(S) + Cardinality(T) - Cardinality(S \cap T)
  BY FS_Union
<1>4. Cardinality(S \cup T) \in Nat
  BY <1>3, FS_CardinalityType
<1>. QED
  BY <1>1, <1>2, <1>3, <1>4

\* What the administrators have listed adds at most their batches.
Extra == Cardinality(Admins) * BatchSize

LEMMA ExtraNat == Extra \in Nat
  BY JobPostingAssumption, FS_CardinalityType DEF Extra

LEMMA PromisedAtMost ==
    ASSUME PostingTyped
    PROVE  Cardinality(Promised) <= Cardinality(OpenJobs) + Extra
<1>1. IsFiniteSet(Listed) /\ Cardinality(Listed) \in Nat /\ Cardinality(Listed) <= Extra
  BY UnionBounded DEF Listed, Extra, PostingTyped, JobPostingTypeOK, BatchesFit
<1>2. Cardinality(Promised) <= Cardinality(OpenJobs) + Cardinality(Listed)
  BY <1>1, PromisedFinite, UnionAtMost DEF Promised
<1>. QED
  BY <1>1, <1>2, PromisedFinite, ExtraNat

\* A step after which no job more is open or listed, and nobody more is about
\* to open one.
LEMMA NothingPromised ==
    ASSUME OpenInv, PostingTyped', Promised' \subseteq Promised, Opening' \subseteq Opening
    PROVE  PublishedBounded'
<1>1. Cardinality(Promised') <= Cardinality(Promised)
  BY PromisedFinite, FS_Subset DEF OpenInv
<1>2. Cardinality(Opening') <= Cardinality(Opening)
  BY OpeningFinite, FS_Subset
<1>. QED
  BY <1>1, <1>2, PromisedFinite, OpeningFinite, FiniteNext, ExtraNat, JobPostingAssumption
     DEF OpenInv, PublishedBounded, Extra

\* The same of a step of a recruiter.
LEMMA NothingOpened ==
    ASSUME OpenInv, PostingTyped', UNCHANGED listed, OpenJobs' \subseteq OpenJobs, Opening' \subseteq Opening
    PROVE  PublishedBounded'
<1>1. Promised' \subseteq Promised
  BY DEF Promised, Listed
<1>. QED
  BY <1>1, NothingPromised

\* A request that counted fewer than the limit may open a job.
LEMMA LimitFound ==
    ASSUME OpenInv, PostingTyped', PublishLimitLeft, UNCHANGED listed, OpenJobs' = OpenJobs
    PROVE  PublishedBounded'
<1>0. Promised' = Promised
  BY DEF Promised, Listed
<1>1. Cardinality(OpenJobs) < PublishLimit
  BY DEF PublishLimitLeft
<1>2. Cardinality(Promised') <= Cardinality(OpenJobs) + Extra
  BY <1>0, PromisedAtMost DEF OpenInv
<1>. QED
  BY <1>1, <1>2, PromisedFinite, OpeningFinite, FiniteNext, ExtraNat, JobPostingAssumption
     DEF OpenInv, PublishedBounded, Extra

\* A request that opens its job no longer is about to.
LEMMA JobOpened ==
    ASSUME OpenInv, PostingTyped', NEW r \in Opening, NEW j, UNCHANGED listed,
           OpenJobs' \subseteq OpenJobs \cup {j}, Opening' \subseteq Opening \ {r}
    PROVE  PublishedBounded'
<1>0. Promised' \subseteq Promised \cup {j}
  BY DEF Promised, Listed
<1>1. IsFiniteSet(Opening \ {r}) /\ Cardinality(Opening \ {r}) = Cardinality(Opening) - 1
  BY OpeningFinite, FS_RemoveElement
<1>2. Cardinality(Opening') <= Cardinality(Opening) - 1
  BY <1>1, FS_Subset
<1>3. /\ IsFiniteSet(Promised \cup {j})
      /\ Cardinality(Promised \cup {j}) =
           IF j \in Promised THEN Cardinality(Promised) ELSE Cardinality(Promised) + 1
  BY PromisedFinite, FS_AddElement, Zenon DEF OpenInv
<1>4. Cardinality(Promised') <= Cardinality(Promised \cup {j})
  BY <1>0, <1>3, FS_Subset
<1>5. Cardinality(Promised') <= Cardinality(Promised) + 1
  BY <1>3, <1>4, PromisedFinite, FiniteNext DEF OpenInv
<1>. QED
  BY <1>2, <1>5, PromisedFinite, OpeningFinite, FiniteNext, ExtraNat, JobPostingAssumption
     DEF OpenInv, PublishedBounded, Extra

LEMMA EndOrderOpens ==
    ASSUME PostingTyped, NEW r \in Recruiters, EndOrder(r)
    PROVE  Opening' \subseteq Opening \ {r}
  BY DEF PostingTyped, JobPostingTypeOK, EndOrder, Proceed, Opening

\* A step of an order that is not about to open a job afterwards unless it
\* was before.
LEMMA ProceedOpens ==
    ASSUME PostingTyped, NEW r \in Recruiters, NEW next, Proceed(r, next),
           \A o \in Recruiters : o # r => order'[o] = order[o],
           r \in Opening' => r \in Opening
    PROVE  Opening' \subseteq Opening
  BY DEF PostingTyped, JobPostingTypeOK, Proceed, Opening

LEMMA RecruitersOpenNext ==
    ASSUME OpenInv, RecruitersNext, UNCHANGED listed
    PROVE  PublishedBounded'
<1>. PublishedBounded /\ PostingTyped /\ PostingTyped'
  BY RecruitersNextTyped DEF OpenInv
<1>0. ASSUME UNCHANGED posting PROVE OpenJobs' = OpenJobs
  BY <1>0 DEF OpenJobs, Live
<1>e. ExpiredPostings = posting' => OpenJobs' \subseteq OpenJobs
  BY DEF OpenJobs, Live, ExpiredPostings, Overdue, OpenStatuses, PostingTyped, JobPostingTypeOK, Posting
<1>1. ASSUME NEW r \in Recruiters, NEW row \in Drafts, CreatePostJob(r, row) PROVE PublishedBounded'
  <2>1. CASE row.status \in OpenStatuses
    BY <1>0, <1>1, <2>1, LimitFound DEF CreatePostJob
  <2>2. CASE row.status \notin OpenStatuses
    <3>1. order'[r].to = row /\ doing'[r] = "find" /\ \A o \in Recruiters : o # r => order'[o] = order[o]
      BY <1>1 DEF CreatePostJob, Proceed, PostingTyped, JobPostingTypeOK, Order
    <3>2. Opening' \subseteq Opening
      BY <1>1, <2>2, <3>1, ProceedOpens DEF CreatePostJob, Opening
    <3>. QED
      BY <1>0, <1>1, <3>2, NothingOpened DEF CreatePostJob
  <2>. QED
    BY <2>1, <2>2
<1>2. ASSUME NEW r \in Recruiters, FindEarlierJob(r) PROVE PublishedBounded'
  <2>1. CASE EndOrder(r)
    BY <1>0, <1>2, <2>1, EndOrderOpens, NothingOpened DEF FindEarlierJob
  <2>2. CASE Proceed(r, "insert") /\ UNCHANGED order
    <3>1. Opening' \subseteq Opening
      BY <1>2, <2>2 DEF FindEarlierJob, Opening, Proceed, PostingTyped, JobPostingTypeOK
    <3>. QED
      BY <1>0, <1>2, <3>1, NothingOpened DEF FindEarlierJob
  <2>. QED
    BY <1>2, <2>1, <2>2 DEF FindEarlierJob
<1>3. ASSUME NEW r \in Recruiters, InsertJob(r) PROVE PublishedBounded'
  <2>1. CASE EndOrder(r) /\ UNCHANGED posting
    BY <1>0, <2>1, EndOrderOpens, NothingOpened
  <2>2. ASSUME NEW j \in Jobs, posting' = [posting EXCEPT ![j] = order[r].to],
               \/ /\ order[r].to.status \in OpenStatuses
                  /\ Proceed(r, "announce") /\ order' = [order EXCEPT ![r].job = j]
               \/ order[r].to.status \notin OpenStatuses /\ EndOrder(r)
        PROVE PublishedBounded'
    <3>1. CASE order[r].to.status \in OpenStatuses
      <4>1. r \in Opening
        BY <1>3, <3>1 DEF InsertJob, Opening
      <4>2. Opening' \subseteq Opening \ {r}
        BY <2>2, <3>1 DEF Opening, Proceed, PostingTyped, JobPostingTypeOK
      <4>3. OpenJobs' \subseteq OpenJobs \cup {j}
        BY <2>2 DEF OpenJobs, Live, PostingTyped, JobPostingTypeOK
      <4>. QED
        BY <4>1, <4>2, <4>3, JobOpened
    <3>2. CASE order[r].to.status \notin OpenStatuses
      <4>1. OpenJobs' \subseteq OpenJobs
        BY <2>2, <3>2 DEF OpenJobs, Live, PostingTyped, JobPostingTypeOK
      <4>. QED
        BY <2>2, <3>2, <4>1, EndOrderOpens, NothingOpened
    <3>. QED
      BY <3>1, <3>2
  <2>. QED
    BY <1>3, <2>1, <2>2 DEF InsertJob
<1>4. ASSUME NEW r \in Recruiters, NotifyMatchingJobAlerts(r) PROVE PublishedBounded'
  BY <1>0, <1>4, EndOrderOpens, NothingOpened DEF NotifyMatchingJobAlerts
<1>5. ASSUME NEW r \in Recruiters, CheckPublishLimit(r) PROVE PublishedBounded'
  <2>1. CASE EndOrder(r)
    BY <1>0, <1>5, <2>1, EndOrderOpens, NothingOpened DEF CheckPublishLimit
  <2>2. CASE PublishLimitLeft
    BY <1>0, <1>5, <2>2, LimitFound DEF CheckPublishLimit
  <2>. QED
    BY <1>5, <2>1, <2>2 DEF CheckPublishLimit
<1>6. ASSUME NEW r \in Recruiters, SelectJob(r) PROVE PublishedBounded'
  <2>1. CASE EndOrder(r)
    BY <1>0, <1>6, <2>1, EndOrderOpens, NothingOpened DEF SelectJob
  <2>2. CASE Proceed(r, "write") /\ UNCHANGED order
    <3>1. Opening' \subseteq Opening
      BY <1>6, <2>2 DEF SelectJob, Opening, Proceed, PostingTyped, JobPostingTypeOK
    <3>. QED
      BY <1>0, <1>6, <3>1, NothingOpened DEF SelectJob
  <2>. QED
    BY <1>6, <2>1, <2>2 DEF SelectJob
<1>7. ASSUME NEW r \in Recruiters, WriteJob(r) PROVE PublishedBounded'
  <2>. DEFINE j == order[r].job
  <2>1. Opening' \subseteq Opening \ {r}
    BY <1>7, EndOrderOpens DEF WriteJob
  <2>2. CASE r \in Opening
    <3>1. OpenJobs' \subseteq OpenJobs \cup {j}
      BY <1>7 DEF WriteJob, OpenJobs, Live, PostingTyped, JobPostingTypeOK
    <3>. QED
      BY <2>1, <2>2, <3>1, JobOpened
  <2>3. CASE r \notin Opening
    <3>1. Written(r).status \in OpenStatuses => posting[j].status \in OpenStatuses
      BY <1>7, <2>3, WrittenTyped DEF WriteJob, Opening, OpenStatuses
    <3>2. posting[j].deleted => Written(r).deleted
      BY <1>7, WrittenTyped DEF WriteJob
    <3>3. OpenJobs' \subseteq OpenJobs
      BY <1>7, <3>1, <3>2 DEF WriteJob, OpenJobs, Live, OpenStatuses, PostingTyped, JobPostingTypeOK
    <3>. QED
      BY <2>1, <3>3, NothingOpened
  <2>. QED
    BY <2>2, <2>3
<1>8. ASSUME NEW r \in Recruiters, OrderCutOff(r) PROVE PublishedBounded'
  BY <1>0, <1>8, EndOrderOpens, NothingOpened DEF OrderCutOff
<1>9. ASSUME NEW r \in Recruiters, NEW j \in Jobs, CloseJob(r, j) \/ DeleteJob(r, j)
      PROVE PublishedBounded'
  <2>1. /\ order'[r].seen = posting[j]
        /\ \A o \in Recruiters : o # r => order'[o] = order[o]
    BY <1>9 DEF CloseJob, DeleteJob, PostingTyped, JobPostingTypeOK
  <2>2. doing'[r] \in {"select", "write"} /\ \E next : Proceed(r, next)
    BY <1>9 DEF CloseJob, DeleteJob, Proceed, PostingTyped, JobPostingTypeOK
  <2>3. posting[j] \in Posting
    BY DEF PostingTyped, JobPostingTypeOK
  <2>4. order'[r].to.status \in OpenStatuses => posting[j].status \in OpenStatuses
    <3>1. \/ order'[r].to = [posting[j] EXCEPT !.status = "CLOSED", !.closedAt = TRUE]
          \/ order'[r].to = Deleted(posting[j])
      BY <1>9 DEF CloseJob, DeleteJob, PostingTyped, JobPostingTypeOK
    <3>. QED
      BY <2>3, <3>1 DEF Deleted, OpenStatuses, Posting
  <2>5. Opening' \subseteq Opening
    BY <2>1, <2>2, <2>4, ProceedOpens DEF Opening
  <2>. QED
    BY <1>0, <1>9, <2>5, NothingOpened DEF CloseJob, DeleteJob
<1>10. ASSUME NEW r \in Recruiters, NEW j \in Jobs, NEW edit \in Edits, UpdateJob(r, j, edit)
       PROVE PublishedBounded'
  <2>. DEFINE row == ExpiredPostings[j]
              to  == Edited(row, edit)
  <2>1. /\ order'[r].seen = row /\ order'[r].to = to
        /\ doing'[r] = IF Opens(edit, row, to) THEN "limit" ELSE "select"
        /\ \A o \in Recruiters : o # r => order'[o] = order[o]
    BY <1>10 DEF UpdateJob, Proceed, PostingTyped, JobPostingTypeOK
  <2>2. \E next : Proceed(r, next)
    BY <1>10 DEF UpdateJob
  <2>3. r \notin Opening'
    BY <2>1 DEF Opening, Opens
  <2>4. Opening' \subseteq Opening
    BY <2>1, <2>2, <2>3, ProceedOpens
  <2>. QED
    BY <1>e, <1>10, <2>4, NothingOpened DEF UpdateJob
<1>11. CASE ExpireJobsPastDeadline
  BY <1>e, <1>11, NothingOpened DEF ExpireJobsPastDeadline, Opening
<1>12. CASE DayPasses
  BY <1>0, <1>12, NothingOpened DEF DayPasses, Opening
<1>. QED
  BY <1>1, <1>2, <1>3, <1>4, <1>5, <1>6, <1>7, <1>8, <1>9, <1>10, <1>11, <1>12
     DEF RecruitersNext

\* A list that was counted with the open jobs leaves room for what the other
\* administrators have listed.
LEMMA BatchFound ==
    ASSUME OpenInv, PostingTyped', NEW a \in Admins, NEW batch \in Batches, BulkActivate(a, batch)
    PROVE  PublishedBounded'
<1>. DEFINE there == {j \in batch : Live(j)}
            closed == {j \in batch : Live(j) /\ posting[j].status \notin OpenStatuses}
            others == UNION {listed[o] : o \in Admins \ {a}}
<1>. PostingTyped
  BY DEF OpenInv
<1>1. OpenJobs' = OpenJobs /\ Opening' = Opening
  BY DEF BulkActivate, recruiterVars, OpenJobs, Live, Opening
<1>2. listed' = [listed EXCEPT ![a] = there] /\ listed \in [Admins -> SUBSET Jobs]
  BY DEF BulkActivate, PostingTyped, JobPostingTypeOK
<1>3. there \subseteq OpenJobs \cup closed
  BY JobPostingAssumption DEF OpenJobs
<1>4. Promised' \subseteq (OpenJobs \cup closed) \cup others
  BY <1>1, <1>2, <1>3 DEF Promised, Listed
<1>5. CASE closed = {}
  <2>1. Promised' \subseteq Promised
    BY <1>4, <1>5 DEF Promised, Listed
  <2>. QED
    BY <1>1, <2>1, NothingPromised
<1>6. CASE closed # {}
  <2>1. Cardinality(OpenJobs) + Cardinality(closed) <= PublishLimit
    BY <1>6 DEF BulkActivate, BulkLimitLeft
  <2>2. closed \subseteq there /\ there \subseteq Jobs
    BY BatchTyped
  <2>3. IsFiniteSet(closed) /\ IsFiniteSet(there) /\ Cardinality(closed) <= Cardinality(there)
    BY <2>2, JobPostingAssumption, FS_Subset
  <2>4. Cardinality(closed) \in Nat /\ Cardinality(closed) # 0 /\ Cardinality(there) \in Nat
    BY <1>6, <2>3, FS_CardinalityType, FS_EmptySet
  <2>5. BatchSize \in Nat /\ BatchSize >= 1
    BY <2>3, <2>4, BatchTyped, JobPostingAssumption
  <2>6. IsFiniteSet(Admins) /\ Cardinality(Admins) \in Nat /\ Cardinality(Admins) # 0
    BY JobPostingAssumption, FS_CardinalityType, FS_EmptySet
  <2>7. Cardinality(Admins \ {a}) = Cardinality(Admins) - 1
    BY <2>6, FS_RemoveElement
  <2>8. /\ IsFiniteSet(others) /\ Cardinality(others) \in Nat
        /\ Cardinality(others) <= (Cardinality(Admins) - 1) * BatchSize
    BY <1>2, <2>7, UnionBounded DEF PostingTyped, BatchesFit
  <2>9. (Cardinality(Admins) - 1) * BatchSize = Extra - BatchSize
    BY <2>5, <2>6 DEF Extra
  <2>10. /\ IsFiniteSet(OpenJobs \cup closed) /\ Cardinality(OpenJobs \cup closed) \in Nat
         /\ Cardinality(OpenJobs \cup closed) <= Cardinality(OpenJobs) + Cardinality(closed)
    BY <2>3, <2>4, PromisedFinite, UnionAtMost
  <2>11. /\ IsFiniteSet((OpenJobs \cup closed) \cup others)
         /\ Cardinality((OpenJobs \cup closed) \cup others)
              <= Cardinality(OpenJobs \cup closed) + Cardinality(others)
    BY <2>8, <2>10, UnionAtMost
  <2>12. Cardinality(Promised') <= Cardinality((OpenJobs \cup closed) \cup others)
    BY <1>4, <2>11, FS_Subset
  <2>13. Cardinality((OpenJobs \cup closed) \cup others) \in Nat
    BY <2>11, FS_CardinalityType
  <2>14. Cardinality(Promised') <= PublishLimit + Extra - 1
    BY <2>1, <2>4, <2>5, <2>8, <2>9, <2>10, <2>11, <2>12, <2>13, PromisedFinite, FiniteNext, ExtraNat,
       JobPostingAssumption
  <2>. QED
    BY <2>14, OpeningFinite, FiniteNext, ExtraNat, JobPostingAssumption DEF PublishedBounded, Extra
<1>. QED
  BY <1>5, <1>6

LEMMA AdminsOpenNext ==
    ASSUME OpenInv, AdminsNext
    PROVE  PublishedBounded'
<1>. PostingTyped /\ PostingTyped'
  BY AdminsNextTyped DEF OpenInv
<1>1. Opening' = Opening
  BY DEF AdminsNext, BulkActivate, ActivateJobs, BulkActivateCutOff, BulkPause, BulkClose,
         BulkDelete, recruiterVars, Opening
<1>2. ASSUME NEW a \in Admins, NEW batch \in Batches, BulkActivate(a, batch) PROVE PublishedBounded'
  BY <1>2, BatchFound
<1>3. ASSUME NEW a \in Admins, ActivateJobs(a) PROVE PublishedBounded'
  <2>1. OpenJobs' \subseteq OpenJobs \cup listed[a]
    BY <1>3 DEF ActivateJobs, BulkUpdate, Activated, OpenJobs, Live, PostingTyped, JobPostingTypeOK
  <2>2. Listed' \subseteq Listed
    BY <1>3 DEF ActivateJobs, Listed, PostingTyped, JobPostingTypeOK
  <2>3. Promised' \subseteq Promised
    BY <2>1, <2>2 DEF Promised, Listed
  <2>. QED
    BY <1>1, <2>3, NothingPromised
<1>4. ASSUME NEW a \in Admins, BulkActivateCutOff(a) PROVE PublishedBounded'
  <2>1. OpenJobs' = OpenJobs
    BY <1>4 DEF BulkActivateCutOff, OpenJobs, Live
  <2>2. Listed' \subseteq Listed
    BY <1>4 DEF BulkActivateCutOff, Listed, PostingTyped, JobPostingTypeOK
  <2>. QED
    BY <1>1, <2>1, <2>2, NothingPromised DEF Promised
<1>5. ASSUME NEW batch \in Batches, BulkPause(batch) \/ BulkClose(batch) \/ BulkDelete(batch)
      PROVE PublishedBounded'
  <2>1. UNCHANGED listed
    BY <1>5 DEF BulkPause, BulkClose, BulkDelete
  <2>2. OpenJobs' \subseteq OpenJobs
    <3>1. ASSUME NEW j \in OpenJobs' PROVE j \in OpenJobs
      <4>1. j \in Jobs /\ posting[j] \in Posting /\ posting'[j].status = "PUBLISHED"
            /\ ~posting'[j].deleted
        BY <3>1 DEF OpenJobs, Live, OpenStatuses, PostingTyped, JobPostingTypeOK
      <4>2. posting'[j] = posting[j]
        BY <1>5, <4>1 DEF BulkPause, BulkClose, BulkDelete, BulkUpdate, Paused, Closed, Removed, Posting
      <4>. QED
        BY <4>1, <4>2 DEF OpenJobs, Live, OpenStatuses
    <3>. QED
      BY <3>1
  <2>. QED
    BY <1>1, <2>1, <2>2, NothingOpened
<1>. QED
  BY <1>2, <1>3, <1>4, <1>5 DEF AdminsNext

LEMMA OpenNext == OpenInv /\ [JobPostingNext]_jobPostingVars => OpenInv'
<1>. SUFFICES ASSUME OpenInv, [JobPostingNext]_jobPostingVars PROVE PublishedBounded'
  BY PostingStepTyped DEF OpenInv
<1>1. CASE UNCHANGED jobPostingVars
  <2>1. PostingTyped'
    BY PostingStepTyped DEF OpenInv
  <2>2. UNCHANGED listed /\ OpenJobs' = OpenJobs /\ Opening' = Opening
    BY <1>1 DEF jobPostingVars, recruiterVars, OpenJobs, Live, Opening
  <2>. QED
    BY <2>1, <2>2, NothingOpened
<1>. QED
  BY <1>1, RecruitersOpenNext, AdminsOpenNext DEF JobPostingNext

\* The published jobs of an employer exceed the plan's limit by no more than
\* the requests that run at once open, less one.
THEOREM PublishedIsBounded == JobPostingSpec => []PublishedBounded
<1>1. JobPostingInit => OpenInv
  <2>. SUFFICES ASSUME JobPostingInit PROVE PublishedBounded
    BY PostingTypedAtFirst DEF OpenInv
  <2>1. Promised = {} /\ Opening = {}
    BY DEF JobPostingInit, JobPostingIdle, Promised, Listed, OpenJobs, Live, NoRow, Opening
  <2>. QED
    BY <2>1, FS_EmptySet, OpeningFinite, ExtraNat, JobPostingAssumption DEF PublishedBounded, Extra
<1>2. JobPostingSpec => []OpenInv
  BY <1>1, OpenNext, PTL DEF JobPostingSpec
<1>. QED
  BY <1>2, PTL DEF OpenInv

=============================================================================
