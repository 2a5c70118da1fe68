------------------------- MODULE HiringPipeline_proofs -------------------------
(***************************************************************************)
(* Type correctness of HiringPipeline, that the history tells the status,  *)
(* that only a stale request changes a closed application or a settled     *)
(* interview, and the bounds on applications and on interviews that share  *)
(* a round, for any number of sessions.                                    *)
(***************************************************************************)
EXTENDS HiringPipeline, Functions, FiniteSetTheorems, TLAPS

-----------------------------------------------------------------------------
\* Type correctness.

LEMMA NoJobTyped == NoJob \in Job
<1>1. NoJob.read \in [{} -> Statuses \cup {"NONE"}]
  BY DEF NoJob
<1>2. NoJob.read \in UNION {[S -> Statuses \cup {"NONE"}] : S \in SUBSET Applications}
  BY <1>1
<1>. QED
  BY <1>2 DEF NoJob, Job, NoInterview, Interview

\* What a request that moves applications of A holds.
LEMMA MoveTyped ==
    ASSUME TypeOK, NEW A \in SUBSET Applications, NEW to \in Statuses
    PROVE  Move(A, to) \in Job
<1>1. [a \in A |-> application[a].status] \in [A -> Statuses \cup {"NONE"}]
  BY DEF TypeOK, Application
<1>2. [a \in A |-> application[a].status]
        \in UNION {[S -> Statuses \cup {"NONE"}] : S \in SUBSET Applications}
  BY <1>1
<1>3. {a \in A : application[a].shortlisted} \in SUBSET Applications
  OBVIOUS
<1>. QED
  BY <1>2, <1>3, NoJobTyped DEF Move, Job

\* The beginning and the end of a request keep the state well typed.
LEMMA BeginTyped ==
    ASSUME TypeOK, NEW s \in Sessions, NEW step \in Steps, NEW j \in Job, Begin(s, step, j)
    PROVE  TypeOK'
  BY DEF TypeOK, Begin, Goto

LEMMA FinishTyped ==
    ASSUME TypeOK, NEW s \in Sessions, Finish(s)
    PROVE  pc' \in [Sessions -> Steps] /\ job' \in [Sessions -> Job]
  BY NoJobTyped DEF TypeOK, Finish, Goto, Steps

LEMMA CandidateTyped ==
    ASSUME TypeOK, NEW s \in Candidates, Candidate(s)
    PROVE  TypeOK'
<1>. s \in Sessions
  BY DEF Sessions
<1>1. CASE ApplyForJob(s)
  BY <1>1, NoJobTyped, BeginTyped DEF ApplyForJob, Steps
<1>2. CASE InsertApplication(s)
  <2>1. application' \in [Applications -> Application]
    BY <1>2 DEF InsertApplication, TypeOK, Application, Statuses
  <2>. QED
    BY <1>2, <2>1, FinishTyped DEF InsertApplication, TypeOK
<1>3. CASE AnswerApplication(s)
  <2>1. job[s].to \in Statuses \cup {"NONE"}
    BY DEF TypeOK, Job
  <2>2. application' \in [Applications -> Application]
    BY <1>3, <2>1 DEF AnswerApplication, TypeOK, Application
  <2>. QED
    BY <1>3, <2>2, FinishTyped DEF AnswerApplication, TypeOK
<1>4. ASSUME NEW a \in Live, WithdrawApplication(s, a) PROVE TypeOK'
  <2>1. [NoJob EXCEPT !.own = a, !.to = "WITHDRAWN"] \in Job
    BY NoJobTyped DEF Live, Job, Statuses
  <2>. QED
    BY <1>4, <2>1, BeginTyped DEF WithdrawApplication, Steps
<1>5. ASSUME NEW a \in Live, NEW to \in Requested, UpdateOwnStatus(s, a, to) PROVE TypeOK'
  <2>1. [NoJob EXCEPT !.own = a, !.to = to] \in Job
    BY NoJobTyped, HiringAssumption DEF Live, Job
  <2>. QED
    BY <1>5, <2>1, BeginTyped DEF UpdateOwnStatus, Steps
<1>. QED
  BY <1>1, <1>2, <1>3, <1>4, <1>5 DEF Candidate

LEMMA MovedTyped ==
    ASSUME NEW row \in Application, NEW status \in Statuses \cup {"NONE"},
           NEW a, NEW D, NEW to \in Statuses \cup {"NONE"}
    PROVE  Moved(row, status, a \in D, to) \in Application
  BY DEF Moved, Flushed, Application

\* What the applicants page makes of an application, read as it is.
MovedNow(a, to) == Moved(application[a], application[a].status, application[a].shortlisted, to)

LEMMA UpdatedApplication ==
    ASSUME TypeOK, NEW s, NEW a \in Applications, NEW to, UpdateApplicationStatus(s, a, to)
    PROVE  /\ application' = [application EXCEPT ![a] = MovedNow(a, to)]
           /\ MovedNow(a, to).status \in {to, application[a].status}
           /\ to \in EmployerTransitions(application[a].status)
  BY DEF UpdateApplicationStatus, MovedNow, Moved, Flushed

LEMMA RecruiterTyped ==
    ASSUME TypeOK, NEW s \in Recruiters, Recruiter(s)
    PROVE  TypeOK'
<1>. s \in Sessions /\ Live \subseteq Applications /\ "write" \in Steps
  BY DEF Sessions, Live, Steps
<1>1. ASSUME NEW a \in Live, NEW to \in Requested, UpdateStatus(s, a, to) PROVE TypeOK'
  BY <1>1, MoveTyped, BeginTyped, HiringAssumption DEF UpdateStatus
<1>2. ASSUME NEW a \in Live, ShortlistCandidate(s, a) PROVE TypeOK'
  <2>1. "SHORTLISTED" \in Statuses
    BY DEF Statuses
  <2>. QED
    BY <1>2, <2>1, MoveTyped, BeginTyped DEF ShortlistCandidate
<1>3. ASSUME NEW a \in Live, UnshortlistCandidate(s, a) PROVE TypeOK'
  <2>1. "APPLIED" \in Statuses
    BY DEF Statuses
  <2>. QED
    BY <1>3, <2>1, MoveTyped, BeginTyped DEF UnshortlistCandidate
<1>4. ASSUME NEW A \in SUBSET Live, NEW to \in Requested, BulkUpdateStatus(s, A, to) PROVE TypeOK'
  <2>. DEFINE movable == {a \in A : to \in ShortlistTransitions(application[a].status)}
  <2>1. movable \in SUBSET Applications
    OBVIOUS
  <2>2. Begin(s, "write", Move(movable, to))
    BY <1>4 DEF BulkUpdateStatus
  <2>. HIDE DEF movable
  <2>. QED
    BY <2>1, <2>2, MoveTyped, BeginTyped, HiringAssumption
<1>5. CASE WriteApplications(s)
  <2>1. job[s] \in Job
    BY DEF TypeOK
  <2>2. ASSUME NEW a \in Applications, a \in DOMAIN job[s].read
        PROVE  Moved(application[a], job[s].read[a], a \in job[s].dated, job[s].to) \in Application
    <3>1. job[s].read[a] \in Statuses \cup {"NONE"}
      BY <2>1, <2>2 DEF Job
    <3>2. job[s].to \in Statuses \cup {"NONE"} /\ application[a] \in Application
      BY <2>1 DEF Job, TypeOK
    <3>. QED
      BY <3>1, <3>2, MovedTyped
  <2>3. application' \in [Applications -> Application]
    BY <1>5, <2>2 DEF WriteApplications, TypeOK
  <2>. QED
    BY <1>5, <2>3, FinishTyped DEF WriteApplications, TypeOK
<1>6. ASSUME NEW a \in Live, NEW to \in Requested, UpdateApplicationStatus(s, a, to)
      PROVE  TypeOK'
  <2>1. application[a] \in Application /\ to \in Statuses
    BY HiringAssumption DEF TypeOK
  <2>2. MovedNow(a, to) \in Application
    BY <2>1 DEF MovedNow, Moved, Flushed, Application
  <2>3. application' \in [Applications -> Application]
    BY <1>6, <2>2, UpdatedApplication DEF TypeOK
  <2>. QED
    BY <1>6, <2>3 DEF UpdateApplicationStatus, TypeOK
<1>. QED
  BY <1>1, <1>2, <1>3, <1>4, <1>5, <1>6 DEF Recruiter

LEMMA SchedulerTyped ==
    ASSUME TypeOK, NEW s \in Schedulers, Scheduler(s)
    PROVE  TypeOK'
<1>. s \in Sessions /\ job[s] \in Job
  BY DEF Sessions, TypeOK
<1>1. ASSUME NEW a \in Live, NEW r \in Rounds \cup {None}, NEW d \in Slots,
             ScheduleInterview(s, a, r, d)
      PROVE  TypeOK'
  <2>. DEFINE m == Move({a}, "INTERVIEW_SCHEDULED")
              new == [application |-> a, round |-> r, slot |-> d, status |-> "SCHEDULED"]
  <2>1. m \in Job
    BY MoveTyped DEF Live, Statuses
  <2>2. new \in Interview
    BY DEF Live, Interview, InterviewStatuses
  <2>. HIDE DEF m
  <2>3. [m EXCEPT !.dated = {}, !.new = new] \in Job
    BY <2>1, <2>2 DEF Job
  <2>. QED
    BY <1>1, <2>3, BeginTyped DEF ScheduleInterview, Steps, m
<1>2. CASE ValidateRoundLimit(s)
  BY <1>2, FinishTyped DEF ValidateRoundLimit, TypeOK, Goto, Steps
<1>3. CASE LookForDuplicate(s)
  BY <1>3, FinishTyped DEF LookForDuplicate, TypeOK, Goto, Steps
<1>4. CASE CreateInterview(s)
  <2>1. interview' \in [Interviews -> Interview]
    BY <1>4 DEF CreateInterview, TypeOK, Job
  <2>2. ASSUME NEW a \in Applications, a \in DOMAIN job[s].read
        PROVE  [application[a] EXCEPT
                  !.status = Flushed(job[s].to, job[s].read[a], application[a].status)] \in Application
    BY DEF TypeOK, Job, Application, Flushed
  <2>3. application' \in [Applications -> Application]
    BY <1>4, <2>2 DEF CreateInterview, TypeOK
  <2>. QED
    BY <1>4, <2>1, <2>3, FinishTyped DEF CreateInterview, TypeOK
<1>5. CASE SaveInterview(s)
  <2>1. job[s].new \in Interview /\ job[s].row \in Interview
    BY DEF Job
  <2>2. ASSUME NEW row \in Interview
        PROVE  Saved(row, job[s].row, job[s].new) \in Interview
    <3>1. /\ Flushed(job[s].new.round, job[s].row.round, row.round) \in Rounds \cup {None}
          /\ Flushed(job[s].new.slot, job[s].row.slot, row.slot) \in Slots \cup {None}
          /\ Flushed(job[s].new.status, job[s].row.status, row.status)
               \in InterviewStatuses \cup {"NONE"}
      BY <2>1 DEF Interview, Flushed
    <3>. QED
      BY <3>1 DEF Saved, Interview
  <2>3. interview' \in [Interviews -> Interview]
    BY <1>5, <2>2 DEF SaveInterview, TypeOK
  <2>. QED
    BY <1>5, <2>3, FinishTyped DEF SaveInterview, TypeOK
<1>6. ASSUME NEW i \in Interviews, NEW r \in Rounds \cup {interview[i].round}, NEW d \in Slots,
             NEW status \in Outcomes \cup {interview[i].status},
             UpdateInterview(s, i, r, d, status)
      PROVE  TypeOK'
  <2>. DEFINE new == [interview[i] EXCEPT !.round = r, !.slot = d,
                        !.status = IF d # interview[i].slot THEN "RESCHEDULED" ELSE status]
  <2>1. new \in Interview /\ interview[i] \in Interview
    BY HiringAssumption DEF TypeOK, Interview, InterviewStatuses
  <2>2. Begin(s, "look", [NoJob EXCEPT !.interview = i, !.row = interview[i], !.new = new])
    BY <1>6 DEF UpdateInterview
  <2>. HIDE DEF new
  <2>3. [NoJob EXCEPT !.interview = i, !.row = interview[i], !.new = new] \in Job
    BY <2>1, NoJobTyped DEF Job
  <2>. QED
    BY <2>2, <2>3, BeginTyped DEF Steps
<1>7. ASSUME NEW i \in Interviews, NEW to \in Outcomes, SettleInterview(s, i, to) PROVE TypeOK'
  <2>1. [interview[i] EXCEPT !.status = to] \in Interview /\ interview[i] \in Interview
    BY HiringAssumption DEF TypeOK, Interview
  <2>2. [NoJob EXCEPT !.interview = i, !.row = interview[i],
                      !.new = [interview[i] EXCEPT !.status = to]] \in Job
    BY <2>1, NoJobTyped DEF Job
  <2>. QED
    BY <1>7, <2>2, BeginTyped DEF SettleInterview, Steps
<1>. QED
  BY <1>1, <1>2, <1>3, <1>4, <1>5, <1>6, <1>7 DEF Scheduler

LEMMA NextTyped == TypeOK /\ [Next]_vars => TypeOK'
<1>. SUFFICES ASSUME TypeOK, [Next]_vars PROVE TypeOK'
  OBVIOUS
<1>1. ASSUME NEW s \in Sessions, Interrupted(s) PROVE TypeOK'
  BY <1>1, FinishTyped DEF Interrupted, TypeOK
<1>2. CASE UNCHANGED vars
  BY <1>2 DEF vars, TypeOK
<1>. QED
  BY <1>1, <1>2, CandidateTyped, RecruiterTyped, SchedulerTyped DEF Next

LEMMA InitTyped == Init => TypeOK
  BY NoJobTyped DEF Init, TypeOK, NoApplication, Application, NoInterview, Interview, Steps

\* Every reachable state of applications and interviews is well typed.
THEOREM HiringTypeCorrect == Spec => []TypeOK
  BY InitTyped, NextTyped, PTL DEF Spec

-----------------------------------------------------------------------------
\* What a session holds: a request that schedules gives INTERVIEW_SCHEDULED,
\* and one that changes an interview read it open.

JobOk(step, j) ==
    /\ step \in {"count", "create"} \/ (step = "look" /\ j.interview = None) =>
         j.to = "INTERVIEW_SCHEDULED"
    /\ step \in {"count", "look", "save"} /\ j.interview # None => j.row.status \notin Settled

JobsOk == \A s \in Sessions : JobOk(pc[s], job[s])

LEMMA BeginOk ==
    ASSUME TypeOK, JobsOk, NEW s \in Sessions, NEW step, NEW j, Begin(s, step, j), JobOk(step, j)
    PROVE  JobsOk'
  BY DEF JobsOk, TypeOK, Begin, Goto

LEMMA FinishOk ==
    ASSUME TypeOK, JobsOk, NEW s \in Sessions, Finish(s)
    PROVE  JobsOk'
<1>1. JobOk("idle", NoJob)
  BY DEF JobOk
<1>. QED
  BY <1>1 DEF JobsOk, TypeOK, Finish, Goto

LEMMA JobsOkNext == TypeOK /\ JobsOk /\ [Next]_vars => JobsOk'
<1>. SUFFICES ASSUME TypeOK, JobsOk, [Next]_vars PROVE JobsOk'
  OBVIOUS
<1>0. \A j : JobOk("insert", j) /\ JobOk("answer", j) /\ JobOk("write", j)
  BY DEF JobOk
<1>1. ASSUME NEW s \in Candidates, Candidate(s) PROVE JobsOk'
  BY <1>1, <1>0, BeginOk, FinishOk
     DEF Sessions, Candidate, ApplyForJob, InsertApplication, AnswerApplication,
         WithdrawApplication, UpdateOwnStatus
<1>2. ASSUME NEW s \in Recruiters, Recruiter(s) PROVE JobsOk'
  BY <1>2, <1>0, BeginOk, FinishOk
     DEF Sessions, Recruiter, UpdateStatus, ShortlistCandidate, UnshortlistCandidate,
         BulkUpdateStatus, WriteApplications, UpdateApplicationStatus, JobsOk
<1>3. ASSUME NEW s \in Schedulers, Scheduler(s) PROVE JobsOk'
  <2>. s \in Sessions /\ None \notin Interviews /\ JobOk(pc[s], job[s])
    BY HiringAssumption DEF Sessions, JobsOk
  <2>1. ASSUME NEW a, NEW r, NEW d, ScheduleInterview(s, a, r, d) PROVE JobsOk'
    <3>. DEFINE j == [Move({a}, "INTERVIEW_SCHEDULED") EXCEPT
                !.dated = {},
                !.new = [application |-> a, round |-> r, slot |-> d,
                         status |-> "SCHEDULED"]]
    <3>1. JobOk("count", j)
      BY DEF JobOk, Move, NoJob
    <3>2. Begin(s, "count", j)
      BY <2>1 DEF ScheduleInterview
    <3>. HIDE DEF j
    <3>. QED
      BY <3>1, <3>2, BeginOk
  <2>2. CASE ValidateRoundLimit(s)
    <3>1. CASE Goto(s, "look") /\ UNCHANGED job
      <4>1. JobOk("look", job[s])
        BY <2>2 DEF ValidateRoundLimit, JobOk
      <4>. QED
        BY <4>1, <3>1 DEF JobsOk, TypeOK, Goto
    <3>. QED
      BY <2>2, <3>1, FinishOk DEF ValidateRoundLimit
  <2>3. CASE LookForDuplicate(s)
    <3>. DEFINE step == IF job[s].interview = None THEN "create" ELSE "save"
    <3>1. CASE Goto(s, step) /\ UNCHANGED job
      <4>1. JobOk(step, job[s])
        BY <2>3 DEF LookForDuplicate, JobOk
      <4>. QED
        BY <4>1, <3>1 DEF JobsOk, TypeOK, Goto
    <3>. QED
      BY <2>3, <3>1, FinishOk DEF LookForDuplicate
  <2>4. CASE CreateInterview(s) \/ SaveInterview(s)
    BY <2>4, FinishOk DEF CreateInterview, SaveInterview
  <2>5. ASSUME NEW i \in Interviews, NEW r, NEW d, NEW status, UpdateInterview(s, i, r, d, status)
        PROVE  JobsOk'
    <3>. DEFINE new == [interview[i] EXCEPT !.round = r, !.slot = d,
                          !.status = IF d # interview[i].slot THEN "RESCHEDULED" ELSE status]
                j == [NoJob EXCEPT !.interview = i, !.row = interview[i], !.new = new]
    <3>1. JobOk("look", j)
      BY <2>5 DEF UpdateInterview, Changeable, JobOk, NoJob
    <3>2. Begin(s, "look", j)
      BY <2>5 DEF UpdateInterview
    <3>. HIDE DEF j
    <3>. QED
      BY <3>1, <3>2, BeginOk
  <2>6. ASSUME NEW i \in Interviews, NEW to, SettleInterview(s, i, to) PROVE JobsOk'
    <3>. DEFINE j == [NoJob EXCEPT !.interview = i, !.row = interview[i],
                                   !.new = [interview[i] EXCEPT !.status = to]]
    <3>1. JobOk("save", j)
      BY <2>6 DEF SettleInterview, Changeable, JobOk, NoJob
    <3>2. Begin(s, "save", j)
      BY <2>6 DEF SettleInterview
    <3>. HIDE DEF j
    <3>. QED
      BY <3>1, <3>2, BeginOk
  <2>. QED
    BY <1>3, <2>1, <2>2, <2>3, <2>4, <2>5, <2>6 DEF Scheduler
<1>4. ASSUME NEW s \in Sessions, Interrupted(s) PROVE JobsOk'
  BY <1>4, FinishOk DEF Interrupted
<1>5. CASE UNCHANGED vars
  BY <1>5 DEF vars, JobsOk
<1>. QED
  BY <1>1, <1>2, <1>3, <1>4, <1>5 DEF Next

Typed == TypeOK /\ JobsOk

LEMMA TypedAlways == Spec => []Typed
<1>1. Init => Typed
  BY InitTyped DEF Init, Typed, JobsOk, JobOk
<1>2. Typed /\ [Next]_vars => Typed'
  BY NextTyped, JobsOkNext DEF Typed
<1>. QED
  BY <1>1, <1>2, PTL DEF Spec

-----------------------------------------------------------------------------
\* The steps that change a table, by the actor that takes them.

Changes ==
    \/ \E s \in Candidates : InsertApplication(s) \/ AnswerApplication(s)
    \/ \E s \in Recruiters :
         \/ WriteApplications(s)
         \/ \E a \in Live, to \in Requested : UpdateApplicationStatus(s, a, to)
    \/ \E s \in Schedulers : CreateInterview(s) \/ SaveInterview(s)

LEMMA OnlyChanges == [Next]_vars => Changes \/ UNCHANGED <<application, interview>>
<1>. SUFFICES ASSUME [Next]_vars PROVE Changes \/ UNCHANGED <<application, interview>>
  OBVIOUS
<1>1. ASSUME NEW s \in Candidates, Candidate(s)
      PROVE  Changes \/ UNCHANGED <<application, interview>>
  BY <1>1 DEF Changes, Candidate, Begin, ApplyForJob, WithdrawApplication, UpdateOwnStatus
<1>2. ASSUME NEW s \in Recruiters, Recruiter(s)
      PROVE  Changes \/ UNCHANGED <<application, interview>>
  BY <1>2 DEF Changes, Recruiter, Begin, UpdateStatus, ShortlistCandidate,
              UnshortlistCandidate, BulkUpdateStatus
<1>3. ASSUME NEW s \in Schedulers, Scheduler(s)
      PROVE  Changes \/ UNCHANGED <<application, interview>>
  BY <1>3 DEF Changes, Scheduler, Begin, ScheduleInterview, ValidateRoundLimit,
              LookForDuplicate, UpdateInterview, SettleInterview
<1>. QED
  BY <1>1, <1>2, <1>3 DEF Next, Interrupted, vars

-----------------------------------------------------------------------------
\* The history of every application, live or not.

Told(row) ==
    \/ row.status \in {row.recorded, "INTERVIEW_SCHEDULED"}
    \/ row.status = "APPLIED" /\ row.recorded = "NONE"

AllTold == \A a \in Applications : Told(application[a])

\* A flush either writes the status with its entry or neither.
LEMMA MovedTold ==
    ASSUME NEW row \in Application, Told(row), NEW status, NEW a, NEW D, NEW to
    PROVE  Told(Moved(row, status, a \in D, to))
  BY DEF Told, Moved, Flushed

LEMMA AllToldNext == Typed /\ AllTold /\ [Next]_vars => AllTold'
<1>. SUFFICES ASSUME Typed, AllTold, [Next]_vars PROVE AllTold'
  OBVIOUS
<1>. TypeOK /\ JobsOk
  BY DEF Typed
<1>1. ASSUME NEW s \in Candidates, InsertApplication(s) PROVE AllTold'
  BY <1>1 DEF InsertApplication, AllTold, Told, Live, TypeOK, Application
<1>2. ASSUME NEW s \in Candidates, AnswerApplication(s) PROVE AllTold'
  BY <1>2 DEF AnswerApplication, AllTold, Told, TypeOK, Application
<1>3. ASSUME NEW s \in Recruiters, WriteApplications(s) PROVE AllTold'
  BY <1>3, MovedTold DEF WriteApplications, AllTold, TypeOK
<1>4. ASSUME NEW s \in Schedulers, CreateInterview(s) PROVE AllTold'
  <2>1. job[s].to = "INTERVIEW_SCHEDULED"
    BY <1>4 DEF JobsOk, JobOk, CreateInterview, Sessions
  <2>2. ASSUME NEW a \in Applications
        PROVE  Told([application[a] EXCEPT
                       !.status = Flushed(job[s].to, job[s].read[a], application[a].status)])
    BY <2>1 DEF AllTold, Told, Flushed, TypeOK, Application
  <2>. QED
    BY <1>4, <2>2 DEF CreateInterview, AllTold
<1>5. CASE UNCHANGED application
  BY <1>5 DEF AllTold
<1>6. ASSUME NEW s \in Recruiters, NEW a \in Live, NEW to, UpdateApplicationStatus(s, a, to)
      PROVE  AllTold'
  <2>1. a \in Applications /\ application[a] \in Application /\ Told(application[a])
    BY DEF Live, TypeOK, AllTold
  <2>2. Told(MovedNow(a, to))
    BY <2>1 DEF Told, MovedNow, Moved, Flushed
  <2>. QED
    BY <1>6, <2>1, <2>2, UpdatedApplication DEF AllTold, TypeOK
<1>. QED
  BY <1>1, <1>2, <1>3, <1>4, <1>5, <1>6, OnlyChanges DEF Changes, SaveInterview

\* The last entry of an application's history names its status, unless an
\* interview was scheduled since, however many sessions act on stale rows.
THEOREM HistoryIsTold == Spec => []HistoryTellsStatus
<1>1. Init => AllTold
  BY DEF Init, AllTold, Told, NoApplication
<1>2. AllTold => HistoryTellsStatus
  BY DEF AllTold, Told, HistoryTellsStatus, Live
<1>. QED
  BY <1>1, <1>2, TypedAlways, AllToldNext, PTL DEF Spec

-----------------------------------------------------------------------------
\* A settled interview is changed only by a session that read it before it
\* was settled.
THEOREM SettledInterviewStays == Spec => SettledStaysUnlessStale
<1>. DEFINE Kept ==
       \A i \in Interviews :
         interview[i].status \in Settled /\ interview'[i].status # interview[i].status =>
           \E s \in Schedulers :
             job[s].interview = i /\ job[s].row.status # interview[i].status
<1>1. Typed /\ [Next]_vars => Kept
  <2>. SUFFICES ASSUME Typed, [Next]_vars, NEW i \in Interviews,
                       interview[i].status \in Settled,
                       interview'[i].status # interview[i].status
                PROVE  \E s \in Schedulers :
                         job[s].interview = i /\ job[s].row.status # interview[i].status
    OBVIOUS
  <2>. TypeOK /\ JobsOk /\ None \notin Interviews
    BY HiringAssumption DEF Typed
  <2>1. ASSUME NEW s \in Schedulers, CreateInterview(s) PROVE FALSE
    BY <2>1 DEF CreateInterview, TypeOK, Settled
  <2>2. ASSUME NEW s \in Schedulers, SaveInterview(s)
        PROVE  job[s].interview = i /\ job[s].row.status # interview[i].status
    <3>1. job[s].interview = i
      BY <2>2 DEF SaveInterview, TypeOK
    <3>2. job[s].row.status \notin Settled
      BY <2>2, <3>1 DEF SaveInterview, JobsOk, JobOk, Sessions
    <3>. QED
      BY <3>1, <3>2
  <2>. QED
    BY <2>1, <2>2, OnlyChanges
       DEF Changes, InsertApplication, AnswerApplication, WriteApplications,
           UpdateApplicationStatus
<1>2. Spec => [][Kept]_vars
  BY <1>1, TypedAlways, PTL DEF Spec
<1>. QED
  BY <1>2 DEF SettledStaysUnlessStale

-----------------------------------------------------------------------------
\* What a request may make of the applications it read: the candidate's own
\* answers close an application, a move is one the table allows from the
\* status that was read or a button of the shortlist page, and an interview
\* is scheduled for an application that is shortlisted or has one already.

Schedulable == {"SHORTLISTED", "INTERVIEW_SCHEDULED"}

MoveOk(step, j) ==
    /\ step = "answer" => j.to \in {"ARCHIVED", "WITHDRAWN"}
    /\ step = "write" =>
         j.to \in {"SHORTLISTED", "APPLIED"} \/ \A a \in DOMAIN j.read : j.to \in ShortlistTransitions(j.read[a])
    /\ step \in {"count", "create"} \/ (step = "look" /\ j.interview = None) =>
         \A a \in DOMAIN j.read : j.read[a] \in Schedulable

MovesOk == \A s \in Sessions : MoveOk(pc[s], job[s])

LEMMA BeginMoveOk ==
    ASSUME TypeOK, MovesOk, NEW s \in Sessions, NEW step, NEW j, Begin(s, step, j), MoveOk(step, j)
    PROVE  MovesOk'
  BY DEF MovesOk, TypeOK, Begin, Goto

LEMMA FinishMoveOk ==
    ASSUME TypeOK, MovesOk, NEW s \in Sessions, Finish(s)
    PROVE  MovesOk'
<1>1. MoveOk("idle", NoJob)
  BY DEF MoveOk
<1>. QED
  BY <1>1 DEF MovesOk, TypeOK, Finish, Goto

\* A request that moves the applications of A has read their statuses.
LEMMA MoveReads ==
    ASSUME NEW A, NEW to
    PROVE  /\ Move(A, to).to = to /\ DOMAIN Move(A, to).read = A
           /\ \A a \in A : Move(A, to).read[a] = application[a].status
  BY DEF Move, NoJob

LEMMA MovesOkNext == TypeOK /\ MovesOk /\ [Next]_vars => MovesOk'
<1>. SUFFICES ASSUME TypeOK, MovesOk, [Next]_vars PROVE MovesOk'
  OBVIOUS
<1>1. ASSUME NEW s \in Candidates, Candidate(s) PROVE MovesOk'
  <2>. s \in Sessions
    BY DEF Sessions
  <2>1. CASE ApplyForJob(s)
    BY <2>1, BeginMoveOk DEF ApplyForJob, MoveOk
  <2>2. ASSUME NEW a, NEW to \in {"ARCHIVED", "WITHDRAWN"},
               Begin(s, "answer", [NoJob EXCEPT !.own = a, !.to = to])
        PROVE  MovesOk'
    <3>1. MoveOk("answer", [NoJob EXCEPT !.own = a, !.to = to])
      BY DEF MoveOk, NoJob
    <3>. QED
      BY <2>2, <3>1, BeginMoveOk
  <2>. QED
    BY <1>1, <2>1, <2>2, FinishMoveOk
       DEF Candidate, InsertApplication, AnswerApplication, WithdrawApplication, UpdateOwnStatus
<1>2. ASSUME NEW s \in Recruiters, Recruiter(s) PROVE MovesOk'
  <2>. s \in Sessions
    BY DEF Sessions
  <2>1. ASSUME NEW A, NEW to, Begin(s, "write", Move(A, to)),
               \/ to \in {"SHORTLISTED", "APPLIED"}
               \/ \A a \in A : to \in ShortlistTransitions(application[a].status)
        PROVE  MovesOk'
    <3>1. MoveOk("write", Move(A, to))
      BY <2>1, MoveReads DEF MoveOk
    <3>. QED
      BY <2>1, <3>1, BeginMoveOk
  <2>2. ASSUME NEW a \in Live, NEW to \in Requested,
               UpdateStatus(s, a, to) \/ UpdateApplicationStatus(s, a, to)
        PROVE  MovesOk'
    BY <2>1, <2>2 DEF UpdateStatus, UpdateApplicationStatus, MovesOk
  <2>3. ASSUME NEW a \in Live, ShortlistCandidate(s, a) \/ UnshortlistCandidate(s, a) PROVE MovesOk'
    BY <2>1, <2>3 DEF ShortlistCandidate, UnshortlistCandidate
  <2>4. ASSUME NEW A \in SUBSET Live, NEW to \in Requested, BulkUpdateStatus(s, A, to) PROVE MovesOk'
    <3>. DEFINE movable == {a \in A : to \in ShortlistTransitions(application[a].status)}
    <3>1. /\ Begin(s, "write", Move(movable, to))
          /\ \A a \in movable : to \in ShortlistTransitions(application[a].status)
      BY <2>4 DEF BulkUpdateStatus
    <3>. HIDE DEF movable
    <3>. QED
      BY <2>1, <3>1
  <2>. QED
    BY <1>2, <2>2, <2>3, <2>4, FinishMoveOk DEF Recruiter, WriteApplications
<1>3. ASSUME NEW s \in Schedulers, Scheduler(s) PROVE MovesOk'
  <2>. s \in Sessions /\ None \notin Interviews /\ MoveOk(pc[s], job[s])
    BY HiringAssumption DEF Sessions, MovesOk
  <2>1. ASSUME NEW a, NEW r, NEW d, ScheduleInterview(s, a, r, d) PROVE MovesOk'
    <3>. DEFINE j == [Move({a}, "INTERVIEW_SCHEDULED") EXCEPT
                !.dated = {},
                !.new = [application |-> a, round |-> r, slot |-> d,
                         status |-> "SCHEDULED"]]
    <3>1. application[a].status \in Schedulable /\ Begin(s, "count", j)
      BY <2>1 DEF ScheduleInterview, Schedulable
    <3>2. j.read = Move({a}, "INTERVIEW_SCHEDULED").read
      BY DEF Move, NoJob
    <3>. HIDE DEF j
    <3>3. MoveOk("count", j)
      BY <3>1, <3>2, MoveReads DEF MoveOk
    <3>. QED
      BY <3>1, <3>3, BeginMoveOk
  <2>2. CASE ValidateRoundLimit(s)
    <3>1. CASE Goto(s, "look") /\ UNCHANGED job
      <4>1. MoveOk("look", job[s])
        BY <2>2 DEF ValidateRoundLimit, MoveOk
      <4>. QED
        BY <4>1, <3>1 DEF MovesOk, TypeOK, Goto
    <3>. QED
      BY <2>2, <3>1, FinishMoveOk DEF ValidateRoundLimit
  <2>3. CASE LookForDuplicate(s)
    <3>. DEFINE step == IF job[s].interview = None THEN "create" ELSE "save"
    <3>1. CASE Goto(s, step) /\ UNCHANGED job
      <4>1. MoveOk(step, job[s])
        BY <2>3 DEF LookForDuplicate, MoveOk
      <4>. QED
        BY <4>1, <3>1 DEF MovesOk, TypeOK, Goto
    <3>. QED
      BY <2>3, <3>1, FinishMoveOk DEF LookForDuplicate
  <2>4. CASE CreateInterview(s) \/ SaveInterview(s)
    BY <2>4, FinishMoveOk DEF CreateInterview, SaveInterview
  <2>5. ASSUME NEW i \in Interviews, NEW r, NEW d, NEW status, UpdateInterview(s, i, r, d, status)
        PROVE  MovesOk'
    <3>. DEFINE new == [interview[i] EXCEPT !.round = r, !.slot = d,
                          !.status = IF d # interview[i].slot THEN "RESCHEDULED" ELSE status]
                j == [NoJob EXCEPT !.interview = i, !.row = interview[i], !.new = new]
    <3>1. MoveOk("look", j)
      BY DEF MoveOk, NoJob
    <3>2. Begin(s, "look", j)
      BY <2>5 DEF UpdateInterview
    <3>. HIDE DEF j
    <3>. QED
      BY <3>1, <3>2, BeginMoveOk
  <2>6. ASSUME NEW i \in Interviews, NEW to, SettleInterview(s, i, to) PROVE MovesOk'
    BY <2>6, BeginMoveOk DEF SettleInterview, MoveOk
  <2>. QED
    BY <1>3, <2>1, <2>2, <2>3, <2>4, <2>5, <2>6 DEF Scheduler
<1>4. ASSUME NEW s \in Sessions, Interrupted(s) PROVE MovesOk'
  BY <1>4, FinishMoveOk DEF Interrupted
<1>5. CASE UNCHANGED vars
  BY <1>5 DEF vars, MovesOk
<1>. QED
  BY <1>1, <1>2, <1>3, <1>4, <1>5 DEF Next

\* Neither table leads out of these two statuses.
LEMMA ClosedForGood ==
    \A status \in {"WITHDRAWN", "ARCHIVED"} :
        EmployerTransitions(status) = {} /\ ShortlistTransitions(status) = {}
  BY DEF EmployerTransitions, ShortlistTransitions

\* For any number of sessions of the candidate and the employer: a withdrawn
\* or archived application comes back only by the shortlist's own buttons, or
\* by a request that had read it before it was closed.
THEOREM ClosedApplicationStays == Spec => ClosedStaysUnlessStale
<1>. DEFINE Closed == {"WITHDRAWN", "ARCHIVED"}
<1>1. TypeOK /\ MovesOk /\ [Next]_vars =>
        [\A a \in Live :
           LET from == application[a].status
               to == application'[a].status
           IN  from \in {"WITHDRAWN", "ARCHIVED"} /\ to \notin {from, "WITHDRAWN", "ARCHIVED"} =>
                 \/ to \in {"SHORTLISTED", "APPLIED"}
                 \/ \E s \in Recruiters \cup Schedulers :
                      a \in DOMAIN job[s].read /\ job[s].read[a] # from]_vars
  <2>. SUFFICES ASSUME TypeOK, MovesOk, [Next]_vars, NEW a \in Live,
                       application[a].status \in Closed,
                       application'[a].status \notin Closed \cup {"SHORTLISTED", "APPLIED"}
                PROVE  \E s \in Recruiters \cup Schedulers :
                         a \in DOMAIN job[s].read /\ job[s].read[a] # application[a].status
    OBVIOUS
  <2>. a \in Applications
    BY DEF Live
  <2>1. ASSUME NEW s \in Candidates, InsertApplication(s) PROVE FALSE
    BY <2>1 DEF InsertApplication, Live, TypeOK
  <2>2. ASSUME NEW s \in Candidates, AnswerApplication(s) PROVE FALSE
    <3>1. job[s].to \in Closed
      BY <2>2 DEF AnswerApplication, MovesOk, MoveOk, Sessions
    <3>2. application'[a].status = IF a = job[s].own THEN job[s].to ELSE application[a].status
      BY <2>2 DEF AnswerApplication, TypeOK, Application
    <3>. QED
      BY <3>1, <3>2
  <2>3. ASSUME NEW s \in Recruiters, WriteApplications(s)
        PROVE  a \in DOMAIN job[s].read /\ job[s].read[a] # application[a].status
    <3>1. MoveOk("write", job[s])
      BY <2>3 DEF WriteApplications, MovesOk, Sessions
    <3>2. a \in DOMAIN job[s].read
      BY <2>3 DEF WriteApplications
    <3>3. application'[a].status = job[s].to /\ job[s].to # job[s].read[a]
      BY <2>3, <3>2 DEF WriteApplications, Moved, Flushed
    <3>4. job[s].to \in ShortlistTransitions(job[s].read[a])
      BY <3>1, <3>2, <3>3 DEF MoveOk
    <3>. QED
      BY <3>2, <3>4, ClosedForGood
  <2>4. ASSUME NEW s \in Schedulers, CreateInterview(s)
        PROVE  a \in DOMAIN job[s].read /\ job[s].read[a] # application[a].status
    <3>1. MoveOk("create", job[s])
      BY <2>4 DEF CreateInterview, MovesOk, Sessions
    <3>2. a \in DOMAIN job[s].read
      BY <2>4 DEF CreateInterview
    <3>. QED
      BY <3>1, <3>2 DEF MoveOk, Schedulable
  <2>5. ASSUME NEW s \in Recruiters, NEW b \in Live, NEW to, UpdateApplicationStatus(s, b, to)
        PROVE  FALSE
    <3>1. b \in Applications /\ to \in EmployerTransitions(application[b].status)
          /\ application' = [application EXCEPT ![b] = MovedNow(b, to)]
      BY <2>5, UpdatedApplication DEF Live
    <3>2. b # a
      BY <3>1, ClosedForGood
    <3>. QED
      BY <3>1, <3>2 DEF TypeOK
  <2>. QED
    BY <2>1, <2>2, <2>3, <2>4, <2>5, OnlyChanges DEF Changes, SaveInterview
<1>2. Init => MovesOk
  BY DEF Init, MovesOk, MoveOk
<1>. QED
  BY <1>1, <1>2, InitTyped, NextTyped, MovesOkNext, PTL DEF Spec, ClosedStaysUnlessStale

-----------------------------------------------------------------------------
\* Applications are never removed: what a session refers to is live, and what
\* it writes is a status.

RefersToLive ==
    \A s \in Sessions :
        /\ DOMAIN job[s].read \subseteq Live
        /\ pc[s] = "answer" => job[s].own \in Live
        /\ pc[s] \in {"answer", "write"} => job[s].to # "NONE"

LEMMA BeginRefers ==
    ASSUME TypeOK, RefersToLive, NEW s \in Sessions, NEW step, NEW j, Begin(s, step, j),
           DOMAIN j.read \subseteq Live,
           step = "answer" => j.own \in Live,
           step \in {"answer", "write"} => j.to # "NONE"
    PROVE  RefersToLive'
<1>1. Live' = Live
  BY DEF Begin, Live
<1>. QED
  BY <1>1 DEF RefersToLive, TypeOK, Begin, Goto

LEMMA FinishRefers ==
    ASSUME TypeOK, RefersToLive, NEW s \in Sessions, Finish(s), Live \subseteq Live'
    PROVE  RefersToLive'
<1>1. DOMAIN NoJob.read = {}
  BY DEF NoJob
<1>. QED
  BY <1>1 DEF RefersToLive, TypeOK, Finish, Goto

LEMMA MoveRefers ==
    ASSUME NEW A \in SUBSET Live, NEW to \in Statuses
    PROVE  DOMAIN Move(A, to).read \subseteq Live /\ Move(A, to).to # "NONE"
  BY DEF Move, NoJob, Statuses

\* Only an insertion makes an application live, and nothing ends it.
LEMMA LiveGrows ==
    ASSUME Typed, RefersToLive, [Next]_vars
    PROVE  \/ Live' = Live
           \/ \E s \in Candidates, a \in Applications \ Live :
                InsertApplication(s) /\ Live' = Live \cup {a}
<1>. TypeOK /\ JobsOk
  BY DEF Typed
<1>1. ASSUME NEW s \in Candidates, InsertApplication(s)
      PROVE  \E a \in Applications \ Live : Live' = Live \cup {a}
  <2>1. PICK a \in Applications \ Live :
          application' = [application EXCEPT ![a].status = "APPLIED"]
    BY <1>1 DEF InsertApplication
  <2>2. Live' = Live \cup {a}
    BY <2>1 DEF Live, TypeOK, Application
  <2>. QED
    BY <2>2
<1>2. ASSUME NEW s \in Candidates, AnswerApplication(s) PROVE Live' = Live
  <2>1. job[s].own \in Live /\ job[s].to # "NONE"
    BY <1>2 DEF AnswerApplication, RefersToLive, Sessions
  <2>. QED
    BY <1>2, <2>1 DEF AnswerApplication, Live, TypeOK, Application
<1>3. ASSUME NEW s \in Recruiters, WriteApplications(s) PROVE Live' = Live
  <2>1. DOMAIN job[s].read \subseteq Live /\ job[s].to # "NONE"
    BY <1>3 DEF WriteApplications, RefersToLive, Sessions
  <2>2. ASSUME NEW a \in Live, NEW status, NEW D
        PROVE  Moved(application[a], status, a \in D, job[s].to).status # "NONE"
    BY <2>1 DEF Moved, Flushed, Live
  <2>. QED
    BY <1>3, <2>1, <2>2 DEF WriteApplications, Live
<1>4. ASSUME NEW s \in Schedulers, CreateInterview(s) PROVE Live' = Live
  <2>1. DOMAIN job[s].read \subseteq Live /\ job[s].to = "INTERVIEW_SCHEDULED"
    BY <1>4 DEF CreateInterview, RefersToLive, JobsOk, JobOk, Sessions
  <2>2. ASSUME NEW a \in Live, NEW status
        PROVE  [application[a] EXCEPT
                  !.status = Flushed(job[s].to, status, application[a].status)].status # "NONE"
    BY <2>1 DEF Flushed, Live, TypeOK, Application
  <2>. QED
    BY <1>4, <2>1, <2>2 DEF CreateInterview, Live
<1>5. CASE UNCHANGED application
  BY <1>5 DEF Live
<1>6. ASSUME NEW s \in Recruiters, NEW a \in Live, NEW to \in Requested,
             UpdateApplicationStatus(s, a, to)
      PROVE  Live' = Live
  <2>1. a \in Applications /\ to # "NONE" /\ application[a].status # "NONE"
    BY HiringAssumption DEF Live, Statuses
  <2>. QED
    BY <1>6, <2>1, UpdatedApplication DEF Live, TypeOK
<1>. QED
  BY <1>1, <1>2, <1>3, <1>4, <1>5, <1>6, OnlyChanges DEF Changes, SaveInterview

LEMMA RefersNext == Typed /\ RefersToLive /\ [Next]_vars => RefersToLive'
<1>. SUFFICES ASSUME Typed, RefersToLive, [Next]_vars PROVE RefersToLive'
  OBVIOUS
<1>. TypeOK /\ Live \subseteq Live' /\ DOMAIN NoJob.read = {}
  BY LiveGrows DEF Typed, NoJob
<1>1. ASSUME NEW s \in Candidates, Candidate(s) PROVE RefersToLive'
  <2>. s \in Sessions
    BY DEF Sessions
  <2>1. CASE ApplyForJob(s)
    BY <2>1, BeginRefers DEF ApplyForJob
  <2>2. CASE InsertApplication(s) \/ AnswerApplication(s)
    BY <2>2, FinishRefers DEF InsertApplication, AnswerApplication
  <2>3. ASSUME NEW a \in Live, NEW to \in Statuses,
               Begin(s, "answer", [NoJob EXCEPT !.own = a, !.to = to])
        PROVE  RefersToLive'
    <3>. DEFINE j == [NoJob EXCEPT !.own = a, !.to = to]
    <3>1. DOMAIN j.read \subseteq Live /\ j.own \in Live /\ j.to # "NONE"
      BY DEF NoJob, Statuses
    <3>2. Begin(s, "answer", j)
      BY <2>3
    <3>. HIDE DEF j
    <3>. QED
      BY <3>1, <3>2, BeginRefers
  <2>4. "WITHDRAWN" \in Statuses
    BY DEF Statuses
  <2>. QED
    BY <1>1, <2>1, <2>2, <2>3, <2>4, HiringAssumption
       DEF Candidate, WithdrawApplication, UpdateOwnStatus
<1>2. ASSUME NEW s \in Recruiters, Recruiter(s) PROVE RefersToLive'
  <2>. s \in Sessions
    BY DEF Sessions
  <2>1. CASE WriteApplications(s)
    BY <2>1, FinishRefers DEF WriteApplications
  <2>2. ASSUME NEW A \in SUBSET Live, NEW to \in Statuses, Begin(s, "write", Move(A, to))
        PROVE  RefersToLive'
    BY <2>2, MoveRefers, BeginRefers
  <2>3. "SHORTLISTED" \in Statuses /\ "APPLIED" \in Statuses
    BY DEF Statuses
  <2>4. ASSUME NEW A \in SUBSET Live, NEW to \in Requested, BulkUpdateStatus(s, A, to)
        PROVE  RefersToLive'
    BY <2>2, <2>4, HiringAssumption DEF BulkUpdateStatus
  <2>5. ASSUME NEW a, NEW to, UpdateApplicationStatus(s, a, to)
        PROVE  RefersToLive'
    BY <2>5 DEF UpdateApplicationStatus, RefersToLive
  <2>. QED
    BY <1>2, <2>1, <2>2, <2>3, <2>4, <2>5, HiringAssumption
       DEF Recruiter, UpdateStatus, ShortlistCandidate, UnshortlistCandidate
<1>3. ASSUME NEW s \in Schedulers, Scheduler(s) PROVE RefersToLive'
  <2>. s \in Sessions
    BY DEF Sessions
  <2>1. ASSUME NEW a \in Live, NEW r, NEW d, ScheduleInterview(s, a, r, d)
        PROVE  RefersToLive'
    <3>. DEFINE j == [Move({a}, "INTERVIEW_SCHEDULED") EXCEPT
                !.dated = {},
                !.new = [application |-> a, round |-> r, slot |-> d,
                         status |-> "SCHEDULED"]]
    <3>1. DOMAIN j.read \subseteq Live
      BY DEF Move, NoJob
    <3>2. Begin(s, "count", j)
      BY <2>1 DEF ScheduleInterview
    <3>. HIDE DEF j
    <3>. QED
      BY <3>1, <3>2, BeginRefers
  <2>2. CASE UNCHANGED <<application, job>> /\ (Goto(s, "look") \/ Goto(s, "create") \/ Goto(s, "save"))
    BY <2>2 DEF RefersToLive, Goto, TypeOK, Live
  <2>3. CASE Finish(s)
    BY <2>3, FinishRefers
  <2>4. ASSUME NEW i, NEW new, NEW step \in {"look", "save"},
               Begin(s, step, [NoJob EXCEPT !.interview = i, !.row = interview[i], !.new = new])
        PROVE  RefersToLive'
    <3>. DEFINE j == [NoJob EXCEPT !.interview = i, !.row = interview[i], !.new = new]
    <3>1. DOMAIN j.read \subseteq Live
      BY DEF NoJob
    <3>2. Begin(s, step, j)
      BY <2>4
    <3>. HIDE DEF j
    <3>. QED
      BY <3>1, <3>2, BeginRefers
  <2>. QED
    BY <1>3, <2>1, <2>2, <2>3, <2>4
       DEF Scheduler, ValidateRoundLimit, LookForDuplicate, CreateInterview, SaveInterview,
           UpdateInterview, SettleInterview
<1>4. ASSUME NEW s \in Sessions, Interrupted(s) PROVE RefersToLive'
  BY <1>4, FinishRefers DEF Interrupted
<1>5. CASE UNCHANGED vars
  BY <1>5 DEF vars, RefersToLive, Live
<1>. QED
  BY <1>1, <1>2, <1>3, <1>4, <1>5 DEF Next

-----------------------------------------------------------------------------
\* The applications there are and those about to be inserted: a session that
\* joins the latter found none of the former.

Inserting == {s \in Candidates : pc[s] = "insert"}

AppliedInv ==
    /\ IsFiniteSet(Live)
    /\ Cardinality(Live) + Cardinality(Inserting) <= Cardinality(Candidates)

\* Who may insert: nobody new while there is an application.
LEMMA InsertingNext ==
    ASSUME TypeOK, [Next]_vars, Live # {}
    PROVE  Inserting' \subseteq Inserting
<1>1. ASSUME NEW s \in Sessions, NEW step \in Steps \ {"insert"}, Goto(s, step)
      PROVE  Inserting' \subseteq Inserting
  BY <1>1 DEF Goto, Inserting, TypeOK
<1>2. ASSUME NEW s \in Candidates, Candidate(s) PROVE Inserting' \subseteq Inserting
  BY <1>2, <1>1 DEF Sessions, Steps, Candidate, ApplyForJob, ApplicationExists, InsertApplication,
     AnswerApplication, WithdrawApplication, UpdateOwnStatus, Begin, Finish
<1>3. ASSUME NEW s \in Recruiters, Recruiter(s) PROVE Inserting' \subseteq Inserting
  BY <1>3, <1>1 DEF Sessions, Steps, Recruiter, UpdateStatus, ShortlistCandidate,
     UnshortlistCandidate, BulkUpdateStatus, WriteApplications, UpdateApplicationStatus,
     Inserting, Begin, Finish
<1>4. ASSUME NEW s \in Schedulers, Scheduler(s) PROVE Inserting' \subseteq Inserting
  BY <1>4, <1>1 DEF Sessions, Steps, Scheduler, ScheduleInterview, ValidateRoundLimit,
     LookForDuplicate, CreateInterview, SaveInterview, UpdateInterview, SettleInterview,
     Begin, Finish
<1>5. ASSUME NEW s \in Sessions, Interrupted(s) PROVE Inserting' \subseteq Inserting
  BY <1>5, <1>1 DEF Steps, Interrupted, Finish
<1>6. CASE UNCHANGED vars
  BY <1>6 DEF vars, Inserting
<1>. QED
  BY <1>2, <1>3, <1>4, <1>5, <1>6 DEF Next

LEMMA AppliedInvNext ==
    Typed /\ RefersToLive /\ AppliedInv /\ [Next]_vars => AppliedInv'
<1>. SUFFICES ASSUME Typed, RefersToLive, AppliedInv, [Next]_vars PROVE AppliedInv'
  OBVIOUS
<1>. TypeOK /\ IsFiniteSet(Candidates)
  BY HiringAssumption DEF Typed
<1>1. /\ IsFiniteSet(Inserting) /\ IsFiniteSet(Inserting')
      /\ Cardinality(Candidates) \in Nat
      /\ Cardinality(Inserting) \in Nat /\ Cardinality(Inserting') \in Nat
      /\ Cardinality(Inserting') <= Cardinality(Candidates)
      /\ Cardinality(Live) \in Nat
  <2>1. Inserting \subseteq Candidates /\ Inserting' \subseteq Candidates
    BY DEF Inserting
  <2>. QED
    BY <2>1, FS_Subset, FS_CardinalityType DEF AppliedInv
<1>2. CASE Live' = Live
  <2>1. CASE Live = {}
    BY <2>1, <1>1, <1>2, FS_EmptySet DEF AppliedInv
  <2>2. CASE Live # {}
    BY <2>2, <1>1, <1>2, InsertingNext, FS_Subset DEF AppliedInv
  <2>. QED
    BY <2>1, <2>2
<1>3. ASSUME NEW s \in Candidates, NEW a \in Applications \ Live,
             InsertApplication(s), Live' = Live \cup {a}
      PROVE  AppliedInv'
  <2>1. Inserting' = Inserting \ {s} /\ s \in Inserting
    BY <1>3 DEF InsertApplication, Finish, Goto, Inserting, TypeOK, Sessions
  <2>2. Cardinality(Inserting') = Cardinality(Inserting) - 1
    BY <2>1, <1>1, FS_RemoveElement
  <2>3. IsFiniteSet(Live') /\ Cardinality(Live') = Cardinality(Live) + 1
    BY <1>3, FS_AddElement DEF AppliedInv
  <2>. QED
    BY <1>1, <2>2, <2>3 DEF AppliedInv
<1>. QED
  BY <1>2, <1>3, LiveGrows

\* However many sessions apply at once, a candidate has at most one application
\* to a job for each of them.
THEOREM AppliedIsBounded == Spec => []AppliedBounded
<1>. DEFINE Inv == RefersToLive /\ AppliedInv
<1>1. Init => Inv
  <2>. SUFFICES ASSUME Init PROVE Inv
    OBVIOUS
  <2>1. Live = {} /\ Inserting = {} /\ RefersToLive
    BY DEF Init, Live, NoApplication, Inserting, Sessions, RefersToLive, NoJob
  <2>2. Cardinality(Candidates) \in Nat
    BY HiringAssumption, FS_CardinalityType
  <2>. QED
    BY <2>1, <2>2, FS_EmptySet DEF AppliedInv
<1>2. Typed /\ Inv /\ [Next]_vars => Inv'
  BY RefersNext, AppliedInvNext
<1>3. Inv => AppliedBounded
  <2>. SUFFICES ASSUME Inv PROVE AppliedBounded
    OBVIOUS
  <2>1. IsFiniteSet(Inserting) /\ IsFiniteSet(Candidates)
    BY HiringAssumption, FS_Subset DEF Inserting
  <2>2. Cardinality(Inserting) \in Nat /\ Cardinality(Live) \in Nat
        /\ Cardinality(Candidates) \in Nat
    BY <2>1, FS_CardinalityType DEF AppliedInv
  <2>. QED
    BY <2>2 DEF AppliedInv, AppliedBounded
<1>. HIDE DEF Inv
<1>. QED
  BY <1>1, <1>2, <1>3, TypedAlways, PTL DEF Spec

-----------------------------------------------------------------------------
\* The interview a session refers to exists, is of the application the session
\* writes back, and keeps a status.

RefersToInterview ==
    \A s \in Sessions : job[s].interview # None =>
        /\ interview[job[s].interview].status # "NONE"
        /\ interview[job[s].interview].application = job[s].new.application
        /\ job[s].new.status # "NONE"

LEMMA BeginRefersToInterview ==
    ASSUME TypeOK, RefersToInterview, NEW s \in Sessions, NEW step, NEW j, Begin(s, step, j),
           j.interview # None =>
             /\ interview[j.interview].status # "NONE"
             /\ interview[j.interview].application = j.new.application
             /\ j.new.status # "NONE"
    PROVE  RefersToInterview'
  BY DEF RefersToInterview, TypeOK, Begin

LEMMA FinishRefersToInterview ==
    ASSUME TypeOK, RefersToInterview, NEW s \in Sessions, Finish(s),
           \A i \in Interviews : interview[i].status # "NONE" =>
             /\ interview'[i].status # "NONE"
             /\ interview'[i].application = interview[i].application
    PROVE  RefersToInterview'
<1>1. NoJob.interview = None
  BY DEF NoJob
<1>2. \A t \in Sessions : job[t].interview \in Interviews \cup {None}
  BY DEF TypeOK, Job
<1>. QED
  BY <1>1, <1>2 DEF RefersToInterview, TypeOK, Finish

LEMMA RefersToInterviewNext ==
    Typed /\ RefersToInterview /\ [Next]_vars => RefersToInterview'
<1>. SUFFICES ASSUME Typed, RefersToInterview, [Next]_vars PROVE RefersToInterview'
  OBVIOUS
<1>. TypeOK /\ NoJob.interview = None
  BY DEF Typed, NoJob
<1>1. ASSUME NEW s \in Candidates, Candidate(s) PROVE RefersToInterview'
  <2>. s \in Sessions
    BY DEF Sessions
  <2>1. CASE InsertApplication(s) \/ AnswerApplication(s)
    BY <2>1, FinishRefersToInterview DEF InsertApplication, AnswerApplication
  <2>2. ASSUME NEW a, NEW to, Begin(s, "answer", [NoJob EXCEPT !.own = a, !.to = to])
        PROVE  RefersToInterview'
    <3>. DEFINE j == [NoJob EXCEPT !.own = a, !.to = to]
    <3>1. j.interview = None
      BY DEF NoJob
    <3>2. Begin(s, "answer", j)
      BY <2>2
    <3>. HIDE DEF j
    <3>. QED
      BY <3>1, <3>2, BeginRefersToInterview
  <2>3. CASE ApplyForJob(s)
    BY <2>3, BeginRefersToInterview DEF ApplyForJob
  <2>. QED
    BY <1>1, <2>1, <2>2, <2>3 DEF Candidate, WithdrawApplication, UpdateOwnStatus
<1>2. ASSUME NEW s \in Recruiters, Recruiter(s) PROVE RefersToInterview'
  <2>. s \in Sessions
    BY DEF Sessions
  <2>1. CASE WriteApplications(s)
    BY <2>1, FinishRefersToInterview DEF WriteApplications
  <2>2. ASSUME NEW A, NEW to, Begin(s, "write", Move(A, to)) PROVE RefersToInterview'
    <3>1. Move(A, to).interview = None
      BY DEF Move, NoJob
    <3>. QED
      BY <2>2, <3>1, BeginRefersToInterview
  <2>3. ASSUME NEW A, NEW to, BulkUpdateStatus(s, A, to) PROVE RefersToInterview'
    BY <2>2, <2>3 DEF BulkUpdateStatus
  <2>4. ASSUME NEW a, NEW to, UpdateApplicationStatus(s, a, to) PROVE RefersToInterview'
    BY <2>4 DEF UpdateApplicationStatus, RefersToInterview
  <2>. QED
    BY <1>2, <2>1, <2>2, <2>3, <2>4
       DEF Recruiter, UpdateStatus, ShortlistCandidate, UnshortlistCandidate
<1>3. ASSUME NEW s \in Schedulers, Scheduler(s) PROVE RefersToInterview'
  <2>. s \in Sessions
    BY DEF Sessions
  <2>1. ASSUME NEW a, NEW r, NEW d, ScheduleInterview(s, a, r, d) PROVE RefersToInterview'
    <3>. DEFINE j == [Move({a}, "INTERVIEW_SCHEDULED") EXCEPT
                !.dated = {},
                !.new = [application |-> a, round |-> r, slot |-> d,
                         status |-> "SCHEDULED"]]
    <3>1. j.interview = None
      BY DEF Move, NoJob
    <3>2. Begin(s, "count", j)
      BY <2>1 DEF ScheduleInterview
    <3>. HIDE DEF j
    <3>. QED
      BY <3>1, <3>2, BeginRefersToInterview
  <2>2. CASE ValidateRoundLimit(s) \/ LookForDuplicate(s)
    <3>1. CASE UNCHANGED <<interview, job>>
      BY <3>1 DEF RefersToInterview
    <3>. QED
      BY <2>2, <3>1, FinishRefersToInterview DEF ValidateRoundLimit, LookForDuplicate
  <2>3. CASE CreateInterview(s)
    <3>1. PICK i \in Interviews : interview[i].status = "NONE"
                                 /\ interview' = [interview EXCEPT ![i] = job[s].new]
      BY <2>3 DEF CreateInterview
    <3>. QED
      BY <2>3, <3>1, FinishRefersToInterview DEF CreateInterview, TypeOK
  <2>4. CASE SaveInterview(s)
    <3>1. ASSUME NEW i \in Interviews, interview[i].status # "NONE"
          PROVE  /\ interview'[i].status # "NONE"
                 /\ interview'[i].application = interview[i].application
      <4>1. CASE i = job[s].interview
        <5>1. job[s].new.status # "NONE"
          BY <4>1, HiringAssumption DEF RefersToInterview
        <5>2. interview'[i] = Saved(interview[i], job[s].row, job[s].new)
              /\ interview[i] \in Interview
          BY <2>4, <4>1 DEF SaveInterview, TypeOK
        <5>. QED
          BY <3>1, <5>1, <5>2 DEF Saved, Flushed, Interview
      <4>. QED
        BY <2>4, <3>1, <4>1 DEF SaveInterview, TypeOK
    <3>. QED
      BY <2>4, <3>1, FinishRefersToInterview DEF SaveInterview
  <2>5. ASSUME NEW i \in Interviews, NEW new, NEW step, interview[i].status # "NONE",
               new.application = interview[i].application, new.status # "NONE",
               Begin(s, step, [NoJob EXCEPT !.interview = i, !.row = interview[i], !.new = new])
        PROVE  RefersToInterview'
    <3>. DEFINE j == [NoJob EXCEPT !.interview = i, !.row = interview[i], !.new = new]
    <3>1. j.interview = i /\ j.new = new
      BY DEF NoJob
    <3>2. Begin(s, step, j)
      BY <2>5
    <3>. HIDE DEF j
    <3>. QED
      BY <2>5, <3>1, <3>2, BeginRefersToInterview
  <2>6. ASSUME NEW i \in Interviews, NEW r, NEW d, NEW status \in Outcomes \cup {interview[i].status},
               UpdateInterview(s, i, r, d, status)
        PROVE  RefersToInterview'
    <3>. DEFINE new == [interview[i] EXCEPT !.round = r, !.slot = d,
                          !.status = IF d # interview[i].slot THEN "RESCHEDULED" ELSE status]
    <3>1. new.application = interview[i].application /\ new.status # "NONE"
          /\ interview[i].status # "NONE"
      BY <2>6, HiringAssumption DEF UpdateInterview, Changeable, TypeOK, Interview, InterviewStatuses
    <3>2. Begin(s, "look", [NoJob EXCEPT !.interview = i, !.row = interview[i], !.new = new])
      BY <2>6 DEF UpdateInterview
    <3>. HIDE DEF new
    <3>. QED
      BY <2>5, <3>1, <3>2
  <2>7. ASSUME NEW i \in Interviews, NEW to \in Outcomes, SettleInterview(s, i, to)
        PROVE  RefersToInterview'
    <3>. DEFINE new == [interview[i] EXCEPT !.status = to]
    <3>1. new.application = interview[i].application /\ new.status # "NONE"
          /\ interview[i].status # "NONE"
      BY <2>7, HiringAssumption DEF SettleInterview, Changeable, TypeOK, Interview, InterviewStatuses
    <3>2. Begin(s, "save", [NoJob EXCEPT !.interview = i, !.row = interview[i], !.new = new])
      BY <2>7 DEF SettleInterview
    <3>. HIDE DEF new
    <3>. QED
      BY <2>5, <3>1, <3>2
  <2>. QED
    BY <1>3, <2>1, <2>2, <2>3, <2>4, <2>6, <2>7 DEF Scheduler
<1>4. ASSUME NEW s \in Sessions, Interrupted(s) PROVE RefersToInterview'
  BY <1>4, FinishRefersToInterview DEF Interrupted
<1>5. CASE UNCHANGED vars
  BY <1>5 DEF vars, RefersToInterview
<1>. QED
  BY <1>1, <1>2, <1>3, <1>4, <1>5 DEF Next

-----------------------------------------------------------------------------
\* The requests that are about to give an interview a round.

Savers(a, r) ==
    {t \in Schedulers : pc[t] = "save" /\ job[t].new.application = a
                         /\ job[t].new.round = r /\ job[t].row.round # r}

Sharing(a, r) == Holding(a, r) \cup Getting(a, r)

SharedBy(a, r) ==
    /\ IsFiniteSet(Sharing(a, r))
    /\ Cardinality(Sharing(a, r)) + Cardinality(Creating(a, r)) <= Cardinality(Schedulers)

\* Whoever gets or creates is a session of its own.
EachItsOwn ==
    \A a \in Applications, r \in Rounds :
        /\ IsFiniteSet(Getting(a, r))
        /\ Cardinality(Getting(a, r)) + Cardinality(Creating(a, r)) <= Cardinality(Schedulers)

LEMMA SessionsEachTheirOwn == EachItsOwn
<1>. SUFFICES ASSUME NEW a \in Applications, NEW r \in Rounds
              PROVE  /\ IsFiniteSet(Getting(a, r))
                     /\ Cardinality(Getting(a, r)) + Cardinality(Creating(a, r))
                           <= Cardinality(Schedulers)
  BY DEF EachItsOwn
<1>. DEFINE S == Savers(a, r)
            C == Creating(a, r)
            G == Getting(a, r)
            f == [t \in S |-> job[t].interview]
<1>1. S \subseteq Schedulers /\ C \subseteq Schedulers /\ S \cap C = {}
  BY DEF Savers, Creating
<1>2. f \in Surjection(S, G)
  BY DEF Surjection, Savers, Getting
<1>3. IsFiniteSet(Schedulers) /\ IsFiniteSet(S) /\ IsFiniteSet(C)
  BY <1>1, HiringAssumption, FS_Subset
<1>. HIDE DEF S, C, G, f
<1>4. IsFiniteSet(G) /\ Cardinality(G) <= Cardinality(S)
  BY <1>2, <1>3, FS_Surjection
<1>5. Cardinality(S \cup C) = Cardinality(S) + Cardinality(C)
  <2>1. Cardinality(S \cap C) = 0
    BY <1>1, FS_EmptySet
  <2>2. Cardinality(S \cup C) = Cardinality(S) + Cardinality(C) - Cardinality(S \cap C)
    BY <1>3, FS_Union
  <2>3. Cardinality(S) \in Nat /\ Cardinality(C) \in Nat
    BY <1>3, FS_CardinalityType
  <2>. QED
    BY <2>1, <2>2, <2>3
<1>6. Cardinality(S \cup C) <= Cardinality(Schedulers)
  BY <1>1, <1>3, FS_Subset
<1>7. Cardinality(G) \in Nat /\ Cardinality(S) \in Nat /\ Cardinality(C) \in Nat
      /\ Cardinality(Schedulers) \in Nat
  BY <1>3, <1>4, FS_CardinalityType
<1>8. Cardinality(G) + Cardinality(C) <= Cardinality(Schedulers)
  BY <1>4, <1>5, <1>6, <1>7
<1>. QED
  BY <1>4, <1>8 DEF G, C

\* A step by which nobody new shares a round keeps the bound.
LEMMA FewerShare ==
    ASSUME NEW a \in Applications, NEW r \in Rounds, SharedBy(a, r),
           Sharing(a, r)' \subseteq Sharing(a, r), Creating(a, r)' \subseteq Creating(a, r)
    PROVE  SharedBy(a, r)'
<1>1. IsFiniteSet(Creating(a, r)) /\ IsFiniteSet(Schedulers)
  BY HiringAssumption, FS_Subset DEF Creating
<1>2. /\ IsFiniteSet(Sharing(a, r)') /\ IsFiniteSet(Creating(a, r)')
      /\ Cardinality(Sharing(a, r)') <= Cardinality(Sharing(a, r))
      /\ Cardinality(Creating(a, r)') <= Cardinality(Creating(a, r))
  BY <1>1, FS_Subset DEF SharedBy
<1>3. /\ Cardinality(Sharing(a, r)') \in Nat /\ Cardinality(Creating(a, r)') \in Nat
      /\ Cardinality(Sharing(a, r)) \in Nat /\ Cardinality(Creating(a, r)) \in Nat
      /\ Cardinality(Schedulers) \in Nat
  BY <1>1, <1>2, FS_CardinalityType DEF SharedBy
<1>. QED
  BY <1>2, <1>3 DEF SharedBy

\* A step of one session after which it neither gets nor creates.
LEMMA OneLeaves ==
    ASSUME NEW a \in Applications, NEW r \in Rounds, NEW s,
           \A t \in Schedulers \ {s} : pc'[t] = pc[t] /\ job'[t] = job[t],
           s \notin Savers(a, r)', s \notin Creating(a, r)'
    PROVE  Getting(a, r)' \subseteq Getting(a, r) /\ Creating(a, r)' \subseteq Creating(a, r)
<1>1. \A t \in Savers(a, r)' : t \in Savers(a, r) /\ job'[t] = job[t]
  BY DEF Savers
<1>. QED
  BY <1>1 DEF Savers, Getting, Creating

LEMMA BeginShares ==
    ASSUME TypeOK, NEW a \in Applications, NEW r \in Rounds, SharedBy(a, r),
           NEW s \in Sessions, NEW step \in Steps \ {"create"}, NEW j, Begin(s, step, j),
           step = "save" => j.new.round = j.row.round
    PROVE  SharedBy(a, r)'
<1>1. Holding(a, r)' = Holding(a, r)
  BY DEF Begin, Holding, Of
<1>2. pc'[s] = step /\ job'[s] = j
      /\ \A t \in Schedulers \ {s} : pc'[t] = pc[t] /\ job'[t] = job[t]
  BY DEF Begin, Goto, TypeOK, Sessions
<1>3. s \notin Savers(a, r)' /\ s \notin Creating(a, r)'
  BY <1>2 DEF Savers, Creating
<1>. QED
  BY <1>1, <1>2, <1>3, OneLeaves, FewerShare DEF Sharing

LEMMA FinishLeaves ==
    ASSUME TypeOK, NEW a \in Applications, NEW r \in Rounds, NEW s \in Sessions, Finish(s)
    PROVE  Getting(a, r)' \subseteq Getting(a, r) /\ Creating(a, r)' \subseteq Creating(a, r)
<1>1. pc'[s] = "idle" /\ \A t \in Schedulers \ {s} : pc'[t] = pc[t] /\ job'[t] = job[t]
  BY DEF Finish, Goto, TypeOK, Sessions
<1>2. s \notin Savers(a, r)' /\ s \notin Creating(a, r)'
  BY <1>1 DEF Savers, Creating
<1>. QED
  BY <1>1, <1>2, OneLeaves

LEMMA FinishShares ==
    ASSUME TypeOK, NEW a \in Applications, NEW r \in Rounds, SharedBy(a, r),
           NEW s \in Sessions, Finish(s), UNCHANGED interview
    PROVE  SharedBy(a, r)'
<1>1. Holding(a, r)' = Holding(a, r)
  BY DEF Holding, Of
<1>. QED
  BY <1>1, FinishLeaves, FewerShare DEF Sharing

\* Who passes the look-up for a round found it free, so that all who share the
\* round from then on are sessions.
LEMMA LookShares ==
    ASSUME Typed, RefersToInterview, NEW a \in Applications, NEW r \in Rounds, SharedBy(a, r),
           NEW s \in Schedulers, LookForDuplicate(s)
    PROVE  SharedBy(a, r)'
<1>. TypeOK /\ s \in Sessions /\ r # None /\ None \notin Interviews
  BY HiringAssumption DEF Typed, Sessions
<1>. DEFINE j == job[s]
            found == Duplicates(j.new.application, j.new.round, j.new.slot) \ {j.interview}
            step == IF j.interview = None THEN "create" ELSE "save"
<1>1. CASE Finish(s)
  BY <1>1, FinishShares DEF LookForDuplicate
<1>2. CASE found = {} /\ Goto(s, step) /\ UNCHANGED job
  <2>1. Holding(a, r)' = Holding(a, r)
    BY DEF LookForDuplicate, Holding, Of
  <2>2. \A t \in Schedulers \ {s} : pc'[t] = pc[t] /\ job'[t] = job[t]
    BY <1>2 DEF Goto, TypeOK, Sessions
  <2>3. CASE j.new.application = a /\ j.new.round = r /\ (j.interview = None \/ j.row.round # r)
    <3>1. Holding(a, r) \subseteq {j.interview}
      BY <1>2, <2>3 DEF Duplicates, Holding
    <3>2. Holding(a, r) \subseteq Getting(a, r)'
      <4>1. CASE j.interview = None
        BY <3>1, <4>1 DEF Holding, Of
      <4>2. CASE j.interview # None
        <5>1. pc'[s] = "save" /\ job'[s] = j
          BY <1>2, <4>2 DEF Goto, TypeOK
        <5>2. j.interview \in Getting(a, r)'
          BY <2>3, <4>2, <5>1 DEF Getting
        <5>. QED
          BY <3>1, <5>2
      <4>. QED
        BY <4>1, <4>2
    <3>3. Sharing(a, r)' = Getting(a, r)'
      BY <2>1, <3>2 DEF Sharing
    <3>4. EachItsOwn'
      BY SessionsEachTheirOwn, PTL
    <3>. QED
      BY <3>3, <3>4 DEF EachItsOwn, SharedBy
  <2>4. CASE ~(j.new.application = a /\ j.new.round = r /\ (j.interview = None \/ j.row.round # r))
    <3>1. pc'[s] = step /\ job'[s] = j
      BY <1>2 DEF Goto, TypeOK
    <3>2. s \notin Savers(a, r)' /\ s \notin Creating(a, r)'
      BY <2>4, <3>1 DEF Savers, Creating
    <3>. QED
      BY <2>1, <2>2, <3>2, OneLeaves, FewerShare DEF Sharing
  <2>. QED
    BY <2>3, <2>4
<1>. QED
  BY <1>1, <1>2 DEF LookForDuplicate

\* The interview created takes the place of its session.
LEMMA CreateShares ==
    ASSUME Typed, NEW a \in Applications, NEW r \in Rounds, SharedBy(a, r),
           NEW s \in Schedulers, CreateInterview(s)
    PROVE  SharedBy(a, r)'
<1>. TypeOK /\ s \in Sessions
  BY DEF Typed, Sessions
<1>1. PICK i \in Interviews : interview' = [interview EXCEPT ![i] = job[s].new]
  BY DEF CreateInterview
<1>2. Getting(a, r)' \subseteq Getting(a, r) /\ Creating(a, r)' \subseteq Creating(a, r)
  BY FinishLeaves DEF CreateInterview
<1>3. CASE ~(job[s].new.application = a /\ job[s].new.round = r)
  <2>1. Holding(a, r)' \subseteq Holding(a, r)
    BY <1>1, <1>3 DEF Holding, Of, TypeOK
  <2>. QED
    BY <1>2, <2>1, FewerShare DEF Sharing
<1>4. CASE job[s].new.application = a /\ job[s].new.round = r
  <2>1. Sharing(a, r)' \subseteq Sharing(a, r) \cup {i}
    BY <1>1, <1>2 DEF Sharing, Holding, Of, TypeOK
  <2>2. s \in Creating(a, r) /\ Creating(a, r)' \subseteq Creating(a, r) \ {s}
    BY <1>2, <1>4 DEF CreateInterview, Creating, Finish, Goto, TypeOK
  <2>3. IsFiniteSet(Creating(a, r)) /\ IsFiniteSet(Schedulers) /\ IsFiniteSet(Sharing(a, r))
    BY HiringAssumption, FS_Subset DEF Creating, SharedBy
  <2>4. IsFiniteSet(Creating(a, r) \ {s})
        /\ Cardinality(Creating(a, r) \ {s}) = Cardinality(Creating(a, r)) - 1
    BY <2>2, <2>3, FS_RemoveElement
  <2>5. IsFiniteSet(Creating(a, r)')
        /\ Cardinality(Creating(a, r)') <= Cardinality(Creating(a, r) \ {s})
    BY <2>2, <2>4, FS_Subset
  <2>. DEFINE H == Sharing(a, r) \cup {i}
  <2>6. IsFiniteSet(H)
        /\ Cardinality(H) = IF i \in Sharing(a, r) THEN Cardinality(Sharing(a, r))
                                                 ELSE Cardinality(Sharing(a, r)) + 1
    BY <2>3, FS_AddElement
  <2>7. IsFiniteSet(Sharing(a, r)') /\ Cardinality(Sharing(a, r)') <= Cardinality(H)
    BY <2>1, <2>6, FS_Subset
  <2>. HIDE DEF H
  <2>8. /\ Cardinality(Sharing(a, r)') \in Nat /\ Cardinality(Creating(a, r)') \in Nat
        /\ Cardinality(Sharing(a, r)) \in Nat /\ Cardinality(Creating(a, r)) \in Nat
        /\ Cardinality(Schedulers) \in Nat
    BY <2>3, <2>5, <2>7, FS_CardinalityType
  <2>9. /\ Cardinality(Sharing(a, r)') <= Cardinality(Sharing(a, r)) + 1
        /\ Cardinality(Creating(a, r)') <= Cardinality(Creating(a, r)) - 1
    BY <2>4, <2>5, <2>6, <2>7, <2>8
  <2>10. Cardinality(Sharing(a, r)) + Cardinality(Creating(a, r)) <= Cardinality(Schedulers)
    BY DEF SharedBy
  <2>11. Cardinality(Sharing(a, r)') + Cardinality(Creating(a, r)') <= Cardinality(Schedulers)
    BY <2>8, <2>9, <2>10
  <2>. QED
    BY <2>7, <2>11 DEF SharedBy
<1>. QED
  BY <1>3, <1>4

\* The interview saved was about to get its round already.
LEMMA SaveShares ==
    ASSUME Typed, RefersToInterview, NEW a \in Applications, NEW r \in Rounds, SharedBy(a, r),
           NEW s \in Schedulers, SaveInterview(s)
    PROVE  SharedBy(a, r)'
<1>. TypeOK /\ s \in Sessions
  BY DEF Typed, Sessions
<1>1. Getting(a, r)' \subseteq Getting(a, r) /\ Creating(a, r)' \subseteq Creating(a, r)
  BY FinishLeaves DEF SaveInterview
<1>2. ASSUME NEW i \in Holding(a, r)', i \notin Holding(a, r) PROVE i \in Getting(a, r)
  <2>1. i \in Interviews /\ interview'[i].application = a /\ interview'[i].round = r
    BY DEF Holding, Of
  <2>2. ~(interview[i].application = a /\ interview[i].round = r)
    BY <1>2, <2>1 DEF Holding, Of
  <2>3. i = job[s].interview
    BY <2>1, <2>2 DEF SaveInterview, TypeOK
  <2>4. interview[i].application = job[s].new.application
    BY <2>1, <2>3, HiringAssumption DEF RefersToInterview
  <2>5. interview[i] \in Interview /\ interview'[i] = Saved(interview[i], job[s].row, job[s].new)
    BY <2>1, <2>3 DEF SaveInterview, TypeOK
  <2>6. interview'[i].application = interview[i].application
        /\ interview'[i].round = Flushed(job[s].new.round, job[s].row.round, interview[i].round)
    BY <2>5 DEF Saved, Interview
  <2>7. job[s].new.application = a /\ job[s].new.round = r /\ job[s].row.round # r
    BY <2>1, <2>2, <2>4, <2>6 DEF Flushed
  <2>. QED
    BY <2>3, <2>7 DEF SaveInterview, Getting
<1>3. Sharing(a, r)' \subseteq Sharing(a, r)
  BY <1>1, <1>2 DEF Sharing
<1>. QED
  BY <1>1, <1>3, FewerShare

LEMMA SharedNext ==
    ASSUME Typed, RefersToInterview, [Next]_vars,
           NEW a \in Applications, NEW r \in Rounds, SharedBy(a, r)
    PROVE  SharedBy(a, r)'
<1>. TypeOK
  BY DEF Typed
<1>1. ASSUME NEW s \in Candidates, Candidate(s) PROVE SharedBy(a, r)'
  BY <1>1, BeginShares, FinishShares
     DEF Sessions, Steps, Candidate, ApplyForJob, InsertApplication, AnswerApplication,
         WithdrawApplication, UpdateOwnStatus
<1>2. ASSUME NEW s \in Recruiters, Recruiter(s) PROVE SharedBy(a, r)'
  <2>1. CASE UNCHANGED <<interview, pc, job>>
    <3>1. Sharing(a, r)' = Sharing(a, r) /\ Creating(a, r)' = Creating(a, r)
      BY <2>1 DEF Sharing, Holding, Of, Getting, Creating
    <3>. QED
      BY <3>1, FewerShare
  <2>. QED
    BY <1>2, <2>1, BeginShares, FinishShares
       DEF Sessions, Steps, Recruiter, UpdateStatus, ShortlistCandidate, UnshortlistCandidate,
           BulkUpdateStatus, WriteApplications, UpdateApplicationStatus
<1>3. ASSUME NEW s \in Schedulers, Scheduler(s) PROVE SharedBy(a, r)'
  <2>. s \in Sessions
    BY DEF Sessions
  <2>1. ASSUME NEW b, NEW q, NEW d, ScheduleInterview(s, b, q, d) PROVE SharedBy(a, r)'
    BY <2>1, BeginShares DEF ScheduleInterview, Steps
  <2>2. CASE ValidateRoundLimit(s)
    <3>1. CASE Goto(s, "look") /\ UNCHANGED <<interview, job>>
      <4>1. pc'[s] = "look" /\ \A t \in Schedulers \ {s} : pc'[t] = pc[t] /\ job'[t] = job[t]
        BY <3>1 DEF Goto, TypeOK, Sessions
      <4>2. s \notin Savers(a, r)' /\ s \notin Creating(a, r)'
        BY <4>1 DEF Savers, Creating
      <4>3. Holding(a, r)' = Holding(a, r)
        BY <3>1 DEF Holding, Of
      <4>. QED
        BY <4>1, <4>2, <4>3, OneLeaves, FewerShare DEF Sharing
    <3>. QED
      BY <2>2, <3>1, FinishShares DEF ValidateRoundLimit
  <2>3. ASSUME NEW i, NEW q, NEW d, NEW status, UpdateInterview(s, i, q, d, status)
        PROVE  SharedBy(a, r)'
    BY <2>3, BeginShares DEF UpdateInterview, Steps
  <2>4. ASSUME NEW i \in Interviews, NEW to, SettleInterview(s, i, to) PROVE SharedBy(a, r)'
    <3>. DEFINE j == [NoJob EXCEPT !.interview = i, !.row = interview[i],
                                   !.new = [interview[i] EXCEPT !.status = to]]
    <3>1. j.new.round = j.row.round
      BY DEF NoJob, TypeOK, Interview
    <3>2. Begin(s, "save", j)
      BY <2>4 DEF SettleInterview
    <3>. HIDE DEF j
    <3>. QED
      BY <3>1, <3>2, BeginShares DEF Steps
  <2>. QED
    BY <1>3, <2>1, <2>2, <2>3, <2>4, LookShares, CreateShares, SaveShares DEF Scheduler
<1>4. ASSUME NEW s \in Sessions, Interrupted(s) PROVE SharedBy(a, r)'
  BY <1>4, FinishShares DEF Interrupted
<1>5. CASE UNCHANGED vars
  <2>1. Sharing(a, r)' = Sharing(a, r) /\ Creating(a, r)' = Creating(a, r)
    BY <1>5 DEF vars, Sharing, Holding, Of, Getting, Creating
  <2>. QED
    BY <2>1, FewerShare
<1>. QED
  BY <1>1, <1>2, <1>3, <1>4, <1>5 DEF Next

\* No round number of an application is shared by more interviews, and requests
\* about to give it, than there are sessions that schedule.
THEOREM RoundSharedIsBounded == Spec => []RoundSharedBounded
<1>. DEFINE Inv == RefersToInterview
                   /\ \A a \in Applications, r \in Rounds : SharedBy(a, r)
<1>1. Init => Inv
  <2>. SUFFICES ASSUME Init PROVE Inv
    OBVIOUS
  <2>1. RefersToInterview
    BY DEF Init, RefersToInterview, NoJob
  <2>2. ASSUME NEW a \in Applications, NEW r \in Rounds PROVE SharedBy(a, r)
    <3>1. Sharing(a, r) = {} /\ Creating(a, r) = {}
      BY HiringAssumption
         DEF Init, Sharing, Holding, Of, NoInterview, Getting, Creating, Sessions
    <3>2. Cardinality(Schedulers) \in Nat
      BY HiringAssumption, FS_CardinalityType
    <3>. QED
      BY <3>1, <3>2, FS_EmptySet DEF SharedBy
  <2>. QED
    BY <2>1, <2>2
<1>2. Typed /\ Inv /\ [Next]_vars => Inv'
  BY RefersToInterviewNext, SharedNext
<1>3. Inv => RoundSharedBounded
  BY DEF SharedBy, Sharing, RoundSharedBounded
<1>. HIDE DEF Inv
<1>. QED
  BY <1>1, <1>2, <1>3, TypedAlways, PTL DEF Spec

=============================================================================
