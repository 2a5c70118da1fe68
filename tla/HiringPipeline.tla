---------------------------- MODULE HiringPipeline ----------------------------
(***************************************************************************)
(* The applications of one candidate to one job, and the interviews        *)
(* scheduled for them: app/service/job_application_service.py,             *)
(* job_applicants_service.py, shortlisted_candidates_service.py and        *)
(* interview_service.py.  A request reads a row, decides, and writes after *)
(* further awaits; only the applicants page locks the row it reads, until  *)
(* it has written.  The ORM writes only the columns whose value differs    *)
(* from the one it read, the candidate's UPDATE writes unconditionally.    *)
(***************************************************************************)
EXTENDS Integers, FiniteSets

CONSTANTS
    Applications,  \* application ids
    Interviews,    \* interview ids
    Candidates,    \* sessions of the candidate
    Recruiters,    \* sessions on the applicants and shortlist pages
    Schedulers,    \* sessions on the interview pages
    Rounds,        \* round numbers
    Slots,         \* a date and a time
    MaxActive,     \* MAX_INTERVIEW_ROUNDS
    Requested,     \* bound: the application statuses asked for
    Outcomes,      \* bound: the interview statuses asked for
    None           \* no application, interview, round or slot

VARIABLES
    application,  \* job_applications, with the last application_status_history entry
    interview,    \* interviews
    pc, job       \* what each session is doing

vars == <<application, interview, pc, job>>

Sessions == Candidates \cup Recruiters \cup Schedulers

Statuses == {"APPLIED", "REVIEW", "SHORTLISTED", "REJECTED", "ON_HOLD", "INTERVIEW",
             "INTERVIEW_SCHEDULED", "OFFER", "HIRED", "ARCHIVED", "WITHDRAWN"}
InterviewStatuses == {"SCHEDULED", "RESCHEDULED", "COMPLETED", "CANCELLED", "NO_SHOW"}

ASSUME HiringAssumption ==
    /\ IsFiniteSet(Candidates) /\ IsFiniteSet(Schedulers)
    /\ MaxActive \in Nat
    /\ Requested \subseteq Statuses
    /\ Outcomes \subseteq InterviewStatuses
    /\ None \notin Applications \cup Interviews \cup Rounds \cup Slots
    /\ Candidates \cap (Recruiters \cup Schedulers) = {}
    /\ Recruiters \cap Schedulers = {}

Active == {"SCHEDULED", "RESCHEDULED"}
Settled == {"COMPLETED", "CANCELLED"}
Steps == {"idle", "insert", "answer", "write", "count", "look", "create", "save"}

\* An application with shortlisted_at set or not, and the status its history
\* recorded last ("NONE": nothing yet).
Application == [status : Statuses \cup {"NONE"}, shortlisted : BOOLEAN,
                recorded : Statuses \cup {"NONE"}]

Interview == [application : Applications \cup {None}, round : Rounds \cup {None},
              slot : Slots \cup {None}, status : InterviewStatuses \cup {"NONE"}]

NoApplication == [status |-> "NONE", shortlisted |-> FALSE, recorded |-> "NONE"]
NoInterview == [application |-> None, round |-> None, slot |-> None, status |-> "NONE"]

\* A request: the candidate's own application, or the statuses it read and
\* which of them with a shortlisted_at; the status it will give; the interview
\* it read with the row it will write.
Job == [own : Applications \cup {None},
        read : UNION {[S -> Statuses \cup {"NONE"}] : S \in SUBSET Applications},
        dated : SUBSET Applications,
        to : Statuses \cup {"NONE"},
        interview : Interviews \cup {None}, row : Interview, new : Interview]

NoJob == [own |-> None, read |-> [a \in {} |-> "NONE"], dated |-> {},
          to |-> "NONE", interview |-> None, row |-> NoInterview, new |-> NoInterview]

TypeOK ==
    /\ application \in [Applications -> Application]
    /\ interview \in [Interviews -> Interview]
    /\ pc \in [Sessions -> Steps]
    /\ job \in [Sessions -> Job]

Init ==
    /\ application = [a \in Applications |-> NoApplication]
    /\ interview = [i \in Interviews |-> NoInterview]
    /\ pc = [s \in Sessions |-> "idle"]
    /\ job = [s \in Sessions |-> NoJob]

Goto(s, step) == pc' = [pc EXCEPT ![s] = step]

Begin(s, step, j) ==
    /\ pc[s] = "idle"
    /\ Goto(s, step)
    /\ job' = [job EXCEPT ![s] = j]
    /\ UNCHANGED <<application, interview>>

Finish(s) ==
    /\ Goto(s, "idle")
    /\ job' = [job EXCEPT ![s] = NoJob]

Live == {a \in Applications : application[a].status # "NONE"}

\* A request that has read the applications of A and will give them status to.
Move(A, to) ==
    [NoJob EXCEPT !.read = [a \in A |-> application[a].status],
                  !.dated = {a \in A : application[a].shortlisted}, !.to = to]

\* A column of a row that was read, as a flush leaves it.
Flushed(new, read, current) == IF new # read THEN new ELSE current

-----------------------------------------------------------------------------
ExistsOpen == \E a \in Live : application[a].status # "WITHDRAWN"  \* mutant: one withdrawn does not count

\* application_exists: in whatever status.
ApplicationExists == Live # {}

\* apply_for_job, with a stored resume or an uploaded one, up to
\* application_exists; the job takes applications.
ApplyForJob(s) ==
    /\ ~ApplicationExists
    /\ Begin(s, "insert", NoJob)

InsertApplication(s) ==
    /\ pc[s] = "insert"
    /\ \E a \in Applications \ Live :
         application' = [application EXCEPT ![a].status = "APPLIED"]
    /\ Finish(s)
    /\ UNCHANGED interview

\* withdraw_application refuses what is withdrawn already; update_status of
\* the candidate takes either status from any.
WithdrawApplication(s, a) ==
    /\ application[a].status # "WITHDRAWN"
    /\ Begin(s, "answer", [NoJob EXCEPT !.own = a, !.to = "WITHDRAWN"])

UpdateOwnStatus(s, a, to) ==
    Begin(s, "answer", [NoJob EXCEPT !.own = a, !.to = to])

\* The UPDATE and its history entry.
AnswerApplication(s) ==
    /\ pc[s] = "answer"
    /\ application' = [application EXCEPT ![job[s].own].status = job[s].to,
                                          ![job[s].own].recorded = job[s].to]
    /\ Finish(s)
    /\ UNCHANGED interview

-----------------------------------------------------------------------------
\* _EMPLOYER_STATUS_TRANSITIONS, of the applicants page.
EmployerTransitions(status) ==
    CASE status = "APPLIED" -> {"REVIEW", "SHORTLISTED", "REJECTED", "ARCHIVED"}
      [] status = "REVIEW" -> {"SHORTLISTED", "REJECTED", "INTERVIEW", "ARCHIVED"}
      [] status = "SHORTLISTED" -> {"REJECTED", "INTERVIEW", "INTERVIEW_SCHEDULED", "ON_HOLD", "HIRED"}
      [] status = "REJECTED" -> {"SHORTLISTED"}
      [] status = "ON_HOLD" -> {"SHORTLISTED", "REJECTED", "INTERVIEW_SCHEDULED"}
      [] status = "INTERVIEW" -> {"OFFER", "REJECTED", "HIRED", "ARCHIVED"}
      [] status = "INTERVIEW_SCHEDULED" -> {"OFFER", "REJECTED", "HIRED", "ON_HOLD"}
      [] status = "OFFER" -> {"HIRED", "REJECTED", "ARCHIVED"}
      [] status = "HIRED" -> {"SHORTLISTED", "REJECTED", "ARCHIVED"}
      [] OTHER -> {}

AllowedFromAnywhere(status) == Statuses \ {status}  \* mutant: the table is not looked up
\* ALLOWED_STATUS_TRANSITIONS, of the shortlist page.  (Both tables also allow a
\* status to stay, which changes nothing.)
ShortlistTransitions(status) ==
    CASE status = "SHORTLISTED" -> {"INTERVIEW_SCHEDULED", "ON_HOLD", "REJECTED"}
      [] status = "INTERVIEW_SCHEDULED" -> {"HIRED", "ON_HOLD", "REJECTED"}
      [] status = "ON_HOLD" -> {"SHORTLISTED", "INTERVIEW_SCHEDULED", "REJECTED"}
      [] status = "REJECTED" -> {"SHORTLISTED"}
      [] status = "HIRED" -> {"SHORTLISTED", "REJECTED"}
      [] OTHER -> {}

\* update_status of the shortlist page.
UpdateStatus(s, a, to) ==
    /\ to \in ShortlistTransitions(application[a].status)
    /\ Begin(s, "write", Move({a}, to))

\* bulk_update_status, bulk_reject: rows whose transition is not allowed are
\* left out.
BulkUpdateStatus(s, A, to) ==
    LET movable == {a \in A : to \in ShortlistTransitions(application[a].status)}
    IN  movable # {} /\ Begin(s, "write", Move(movable, to))

\* shortlist_candidate and unshortlist_candidate ask for no status.
ShortlistCandidate(s, a) ==
    /\ ~(application[a].status = "SHORTLISTED" /\ application[a].shortlisted)
    /\ Begin(s, "write", Move({a}, "SHORTLISTED"))

UnshortlistCandidate(s, a) ==
    Begin(s, "write", Move({a}, "APPLIED"))

MovedWhole(row, status, dated, to) ==  \* mutant: every column of the row is written
    [status |-> to, shortlisted |-> to # "APPLIED" /\ (dated \/ to = "SHORTLISTED"),
     recorded |-> IF to # status THEN to ELSE row.recorded]

\* The row of an application read with this status and shortlisted_at, after
\* the flush of status to: shortlisted_at is set with SHORTLISTED and cleared
\* with APPLIED, and an entry of the history is written for a change.
Moved(row, status, dated, to) ==
    [status |-> Flushed(to, status, row.status),
     shortlisted |-> Flushed(to # "APPLIED" /\ (dated \/ to = "SHORTLISTED"),
                             dated, row.shortlisted),
     recorded |-> IF to # status THEN to ELSE row.recorded]

\* update_application_status of the applicants page: the row is read FOR UPDATE
\* and written, with its history entry, in the same transaction.
UpdateApplicationStatus(s, a, to) ==
    /\ pc[s] = "idle"
    /\ to \in EmployerTransitions(application[a].status)
    /\ application' = [application EXCEPT ![a] = Moved(@, @.status, @.shortlisted, to)]
    /\ UNCHANGED <<interview, pc, job>>

\* The write of the shortlist page's operations.
WriteApplications(s) ==
    /\ pc[s] = "write"
    /\ application' = [a \in Applications |->
         IF a \in DOMAIN job[s].read
         THEN Moved(application[a], job[s].read[a], a \in job[s].dated, job[s].to)
         ELSE application[a]]
    /\ Finish(s)
    /\ UNCHANGED interview

-----------------------------------------------------------------------------
Of(a) == {i \in Interviews : interview[i].application = a}
ActiveOf(a) == {i \in Of(a) : interview[i].status \in Active}

RoundsAmongActive(a, r, d) ==  \* mutant: only an active interview takes its round
    {i \in ActiveOf(a) : IF r # None THEN interview[i].round = r ELSE interview[i].slot = d}

\* get_duplicate_interview: a round number is taken by any interview, a slot
\* by an active one.
Duplicates(a, r, d) ==
    IF r # None THEN {i \in Of(a) : interview[i].round = r}
                ELSE {i \in ActiveOf(a) : interview[i].slot = d}

\* schedule_interview; schedule_interview_rounds is one after another.
ScheduleInterview(s, a, r, d) ==
    /\ application[a].status \in {"SHORTLISTED", "INTERVIEW_SCHEDULED"}
    /\ Begin(s, "count",
             [Move({a}, "INTERVIEW_SCHEDULED") EXCEPT
                !.dated = {},
                !.new = [application |-> a, round |-> r, slot |-> d,
                         status |-> "SCHEDULED"]])

\* _validate_round_limit.
ValidateRoundLimit(s) ==
    /\ pc[s] = "count"
    /\ \/ /\ Cardinality(ActiveOf(job[s].new.application)) < MaxActive
          /\ Goto(s, "look")
          /\ UNCHANGED job
       \/ /\ Cardinality(ActiveOf(job[s].new.application)) >= MaxActive
          /\ Finish(s)
    /\ UNCHANGED <<application, interview>>

\* The interview a request is about does not count as its own duplicate; two
\* duplicates fail the look-up itself.
LookForDuplicate(s) ==
    /\ pc[s] = "look"
    /\ LET found == Duplicates(job[s].new.application, job[s].new.round, job[s].new.slot)
                      \ {job[s].interview}
       IN  \/ /\ found = {}
              /\ Goto(s, IF job[s].interview = None THEN "create" ELSE "save")
              /\ UNCHANGED job
           \/ /\ found # {}
              /\ Finish(s)
    /\ UNCHANGED <<application, interview>>

\* The interview and the status of its application, in one commit; the status
\* is written without a history entry.
CreateInterview(s) ==
    /\ pc[s] = "create"
    /\ \E i \in Interviews :
         /\ interview[i].status = "NONE"
         /\ interview' = [interview EXCEPT ![i] = job[s].new]
    /\ application' = [a \in Applications |->
         IF a \in DOMAIN job[s].read
         THEN [application[a] EXCEPT
                !.status = Flushed(job[s].to, job[s].read[a], @)]
         ELSE application[a]]
    /\ Finish(s)

ChangeableUnlessCompleted(i) ==  \* mutant: a cancelled interview can be updated
    interview[i].status \notin {"NONE", "COMPLETED"}

Changeable(i) == interview[i].status \notin Settled \cup {"NONE"}

\* update_interview: a change of slot makes it RESCHEDULED whatever status was
\* asked for.  (A new end time does so too: a request for RESCHEDULED.)  Its
\* last look-up flushes the row, which is locked from there: a write of another
\* request in between is as good as one before, the look-up not minding the row.
UpdateInterview(s, i, r, d, status) ==
    /\ Changeable(i)
    /\ LET new == [interview[i] EXCEPT !.round = r, !.slot = d,
                     !.status = IF d # interview[i].slot THEN "RESCHEDULED" ELSE status]
       IN  /\ new # interview[i]
           /\ Begin(s, "look",
                    [NoJob EXCEPT !.interview = i, !.row = interview[i], !.new = new])

\* cancel_interview, complete_interview and mark_no_show.
SettleInterview(s, i, to) ==
    /\ Changeable(i)
    /\ interview[i].status # to
    /\ Begin(s, "save", [NoJob EXCEPT !.interview = i, !.row = interview[i],
                                      !.new = [interview[i] EXCEPT !.status = to]])

\* The current row of an interview, after the flush of a new one.
Saved(current, row, new) ==
    [current EXCEPT !.round = Flushed(new.round, row.round, @),
                    !.slot = Flushed(new.slot, row.slot, @),
                    !.status = Flushed(new.status, row.status, @)]

SaveInterview(s) ==
    /\ pc[s] = "save"
    /\ interview' = [interview EXCEPT ![job[s].interview] = Saved(@, job[s].row, job[s].new)]
    /\ Finish(s)
    /\ UNCHANGED application

-----------------------------------------------------------------------------
\* A request is cut off; what it committed stays.
Interrupted(s) ==
    /\ pc[s] # "idle"
    /\ Finish(s)
    /\ UNCHANGED <<application, interview>>

Candidate(s) ==
    \/ ApplyForJob(s) \/ InsertApplication(s) \/ AnswerApplication(s)
    \/ \E a \in Live :
         \/ WithdrawApplication(s, a)
         \/ \E to \in Requested \cap {"ARCHIVED", "WITHDRAWN"} : UpdateOwnStatus(s, a, to)

Recruiter(s) ==
    \/ \E a \in Live :
         \/ \E to \in Requested : UpdateApplicationStatus(s, a, to) \/ UpdateStatus(s, a, to)
         \/ ShortlistCandidate(s, a)
         \/ UnshortlistCandidate(s, a)
    \/ \E A \in SUBSET Live, to \in Requested : BulkUpdateStatus(s, A, to)
    \/ WriteApplications(s)

Scheduler(s) ==
    \/ \E a \in Live, r \in Rounds \cup {None}, d \in Slots : ScheduleInterview(s, a, r, d)
    \/ ValidateRoundLimit(s) \/ LookForDuplicate(s) \/ CreateInterview(s) \/ SaveInterview(s)
    \/ \E i \in Interviews :
         \/ \E r \in Rounds \cup {interview[i].round}, d \in Slots,
               status \in Outcomes \cup {interview[i].status} :
              UpdateInterview(s, i, r, d, status)
         \/ \E to \in Outcomes \cap {"CANCELLED", "COMPLETED", "NO_SHOW"} : SettleInterview(s, i, to)

Next ==
    \/ \E s \in Candidates : Candidate(s)
    \/ \E s \in Recruiters : Recruiter(s)
    \/ \E s \in Schedulers : Scheduler(s)
    \/ \E s \in Sessions : Interrupted(s)

Spec == Init /\ [][Next]_vars

-----------------------------------------------------------------------------
\* The history tells the status: its last entry names it, unless an interview
\* was scheduled since (the one status written without an entry).  It holds
\* against stale requests because a flush leaves out the columns it found as
\* it wants them, and the entry is left out with them.
HistoryTellsStatus ==
    \A a \in Live :
        \/ application[a].status \in {application[a].recorded, "INTERVIEW_SCHEDULED"}
        \/ application[a].status = "APPLIED" /\ application[a].recorded = "NONE"

\* A candidate has no more applications to a job than sessions that apply: each
\* of them found none (application_exists).
AppliedBounded == Cardinality(Live) <= Cardinality(Candidates)

\* The interviews that have a round number, those that are about to get it,
\* and the requests about to create one with it.
Holding(a, r) == {i \in Of(a) : interview[i].round = r}
Getting(a, r) ==
    {job[s].interview : s \in {t \in Schedulers :
       pc[t] = "save" /\ job[t].new.application = a
                      /\ job[t].new.round = r /\ job[t].row.round # r}}
Creating(a, r) ==
    {s \in Schedulers :
       pc[s] = "create" /\ job[s].new.application = a /\ job[s].new.round = r}

\* No more interviews of an application come to share a round number than
\* there are sessions that schedule: each of them found it free, in whatever
\* status the others are now (get_duplicate_interview).
RoundSharedBounded ==
    \A a \in Applications, r \in Rounds :
        Cardinality(Holding(a, r) \cup Getting(a, r)) + Cardinality(Creating(a, r))
            <= Cardinality(Schedulers)

\* What an application's owner or the employer closed for good comes back
\* only by the shortlist's own buttons, or by a request that had read it
\* before it was closed.
ClosedStaysUnlessStale ==
    [][\A a \in Live :
         LET from == application[a].status
             to == application'[a].status
         IN  from \in {"WITHDRAWN", "ARCHIVED"} /\ to \notin {from, "WITHDRAWN", "ARCHIVED"} =>
               \/ to \in {"SHORTLISTED", "APPLIED"}
               \/ \E s \in Recruiters \cup Schedulers :
                    a \in DOMAIN job[s].read /\ job[s].read[a] # from]_vars

\* A completed or cancelled interview stays so, unless a request that had
\* read it before writes what it decided then.
SettledStaysUnlessStale ==
    [][\A i \in Interviews :
         interview[i].status \in Settled /\ interview'[i].status # interview[i].status =>
           \E s \in Schedulers :
             job[s].interview = i /\ job[s].row.status # interview[i].status]_vars

=============================================================================
