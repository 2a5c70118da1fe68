------------------------------ MODULE JobPosting ------------------------------
(***************************************************************************)
(* The jobs of one employer and the plan's limit on how many of them are   *)
(* published: app/service/employer_service/job_service.py over             *)
(* JobRepository, and the bulk actions of super administrators             *)
(* (super_admin/dashboard_api_service.py).  A recruiter serves a request;  *)
(* every await of the database ends a step.  A job is loaded once per      *)
(* request, so that what a request compares and writes is the row as it    *)
(* first read it, and only the columns it changed are written; a bulk      *)
(* action writes rows whatever they have become.  reopen_job is left out:  *)
(* the repository has no such operation, and the request fails before a    *)
(* write.                                                                  *)
(***************************************************************************)
EXTENDS Integers, FiniteSets, TLC

CONSTANTS
    Jobs,            \* job ids
    Recruiters,      \* sessions of the employer
    Admins,          \* sessions of super administrators
    Batches,         \* the sets of jobs that a bulk action names
    BatchSize,       \* bound: the jobs of a batch
    PublishLimit,    \* max_published_jobs of the plan
    Details,         \* title, company, location, type and day of a posting
    Keys,            \* Idempotency-Key headers
    Drafts,          \* bound: the rows that requests ask to be created
    Edits,           \* bound: the changes that requests ask for
    LastDay,         \* bound: the days are 0..LastDay
    NoKey, NoJob     \* no header; no job

ASSUME JobPostingAssumption ==
    /\ IsFiniteSet(Jobs) /\ IsFiniteSet(Recruiters)
    /\ IsFiniteSet(Admins) /\ BatchSize \in Nat
    /\ \A batch \in Batches : batch \subseteq Jobs /\ Cardinality(batch) <= BatchSize
    /\ PublishLimit \in Nat /\ LastDay \in Nat
    /\ NoKey \notin Keys /\ NoJob \notin Jobs

VARIABLES
    posting,      \* the jobs table
    today,        \* the current day
    announced,    \* jobs whose matching alerts were looked for
    doing, order, \* what each recruiter is doing, and for which request
    listed        \* the jobs that each administrator is about to activate

recruiterVars == <<today, announced, doing, order>>
jobPostingVars == <<posting, recruiterVars, listed>>

Days == 0..LastDay
JobStatuses == {"DRAFT", "PUBLISHED", "CLOSED", "EXPIRED", "INACTIVE"}
OpenStatuses == {"PUBLISHED"}
Posting == [status : JobStatuses \cup {"NONE"}, deleted : BOOLEAN, closedAt : BOOLEAN,
            deadline : Days, details : Details, key : Keys \cup {NoKey}]
Doings == {"idle", "find", "insert", "announce", "limit", "select", "write"}

ASSUME OrdersAssumption ==
    /\ Details # {} /\ Drafts \subseteq Posting
    /\ \A edit \in Edits :
         /\ DOMAIN edit \subseteq {"status", "deadline", "details"}
         /\ \A row \in Posting : edit @@ row \in Posting

\* An order holds the job, the row the request read and the row it makes of it.
Order == [job : Jobs \cup {NoJob}, seen : Posting, to : Posting]

NoRow == [status |-> "NONE", deleted |-> FALSE, closedAt |-> FALSE, deadline |-> 0,
          details |-> CHOOSE d \in Details : TRUE, key |-> NoKey]
NoOrder == [job |-> NoJob, seen |-> NoRow, to |-> NoRow]

JobPostingTypeOK ==
    /\ posting \in [Jobs -> Posting]
    /\ today \in Days
    /\ announced \subseteq Jobs
    /\ doing \in [Recruiters -> Doings]
    /\ order \in [Recruiters -> Order]
    /\ listed \in [Admins -> SUBSET Jobs]

\* Nobody is about to do anything.
JobPostingIdle ==
    /\ today = 0
    /\ announced = {}
    /\ doing = [r \in Recruiters |-> "idle"]
    /\ order = [r \in Recruiters |-> NoOrder]
    /\ listed = [a \in Admins |-> {}]

JobPostingInit == posting = [j \in Jobs |-> NoRow] /\ JobPostingIdle

Proceed(r, next) == doing' = [doing EXCEPT ![r] = next]

EndOrder(r) ==
    /\ Proceed(r, "idle")
    /\ order' = [order EXCEPT ![r] = NoOrder]

Live(j) == posting[j].status # "NONE" /\ ~posting[j].deleted
OpenJobs == {j \in Jobs : Live(j) /\ posting[j].status \in OpenStatuses}

\* count_published_jobs against the plan's limit.
PublishLimitLeft == Cardinality(OpenJobs) < PublishLimit

\* The unique index over the open postings of an employer.
DetailsTaken(d, self) == \E j \in OpenJobs \ {self} : posting[j].details = d

-----------------------------------------------------------------------------
\* create_post_job: the plan's limit is checked first, even for a repeated key.
CreatePostJob(r, row) ==
    /\ doing[r] = "idle"
    /\ row.status \in OpenStatuses => PublishLimitLeft
    /\ row.deadline >= today
    /\ Proceed(r, "find")
    /\ order' = [order EXCEPT ![r].to = row]
    /\ UNCHANGED <<posting, today, announced>>

KeyOfLiveJob(key) == key # NoKey /\ \E j \in Jobs : Live(j) /\ posting[j].key = key

\* get_job_by_idempotency_key, whose job is the answer, and
\* find_duplicate_active_job.
FindEarlierJob(r) ==
    /\ doing[r] = "find"
    /\ IF KeyOfLiveJob(order[r].to.key) \/ DetailsTaken(order[r].to.details, NoJob)
       THEN EndOrder(r)
       ELSE Proceed(r, "insert") /\ UNCHANGED order
    /\ UNCHANGED <<posting, today, announced>>

\* The index over the keys covers deleted jobs too.
KeyTaken(key) == key # NoKey /\ \E j \in Jobs : posting[j].key = key

InsertJob(r) ==
    LET row == order[r].to IN
    /\ doing[r] = "insert"
    /\ IF KeyTaken(row.key) \/ (row.status \in OpenStatuses /\ DetailsTaken(row.details, NoJob))
       THEN EndOrder(r) /\ UNCHANGED posting
       ELSE \E j \in Jobs :
              /\ posting[j].status = "NONE"
              /\ posting' = [posting EXCEPT ![j] = row]
              /\ IF row.status \in OpenStatuses
                 THEN /\ Proceed(r, "announce")
                      /\ order' = [order EXCEPT ![r].job = j]
                 ELSE EndOrder(r)
    /\ UNCHANGED <<today, announced>>

NotifyMatchingJobAlerts(r) ==
    /\ doing[r] = "announce"
    /\ announced' = announced \cup {order[r].job}
    /\ EndOrder(r)
    /\ UNCHANGED <<posting, today>>

-----------------------------------------------------------------------------
\* expire_jobs_past_deadline: a job that was closed before is passed over.
Overdue(j) == j \in OpenJobs /\ ~posting[j].closedAt /\ posting[j].deadline < today
ExpiredPostings ==
    [j \in Jobs |-> IF Overdue(j) THEN [posting[j] EXCEPT !.status = "EXPIRED"] ELSE posting[j]]

\* Reads of jobs, by the employer or by candidates, expire first.
ExpireJobsPastDeadline ==
    /\ posting' = ExpiredPostings
    /\ UNCHANGED <<today, announced, doing, order>>

\* An edit gives some of the fields.  A deadline in the future publishes an
\* expired job again, unless the edit says otherwise.
Edited(row, edit) ==
    IF row.status = "EXPIRED" /\ "deadline" \in DOMAIN edit /\ edit.deadline >= today
    THEN edit @@ [row EXCEPT !.status = "PUBLISHED"]
    ELSE edit @@ row

OpensAsAsked(edit, row, to) ==  \* mutant: the limit is checked for a status that is given only
    "status" \in DOMAIN edit /\ to.status \in OpenStatuses /\ row.status \notin OpenStatuses
Opens(edit, row, to) == to.status \in OpenStatuses /\ row.status \notin OpenStatuses

\* update_job, up to its decision whether a job would be opened.
UpdateJob(r, j, edit) ==
    LET row == ExpiredPostings[j]
        to  == Edited(row, edit)
    IN
    /\ doing[r] = "idle"
    /\ Live(j)
    /\ posting' = ExpiredPostings
    /\ "deadline" \in DOMAIN edit => edit.deadline >= today \/ row.status = "EXPIRED"
    /\ order' = [order EXCEPT ![r] = [job |-> j, seen |-> row, to |-> to]]
    /\ Proceed(r, IF Opens(edit, row, to) THEN "limit" ELSE "select")
    /\ UNCHANGED <<today, announced>>

CheckPublishLimit(r) ==
    /\ doing[r] = "limit"
    /\ IF PublishLimitLeft
       THEN Proceed(r, "select") /\ UNCHANGED order
       ELSE EndOrder(r)
    /\ UNCHANGED <<posting, today, announced>>

\* The row is selected again, as long as it is not deleted, and must not
\* become open past its deadline.
SelectJob(r) ==
    LET to == order[r].to IN
    /\ doing[r] = "select"
    /\ IF ~Live(order[r].job) \/ (to.status \in OpenStatuses /\ to.deadline < today)
       THEN EndOrder(r)
       ELSE Proceed(r, "write") /\ UNCHANGED order
    /\ UNCHANGED <<posting, today, announced>>

\* The row with the columns the request changed from what it read.
Written(r) ==
    LET row == posting[order[r].job] IN
    [f \in DOMAIN row |-> IF order[r].to[f] # order[r].seen[f] THEN order[r].to[f] ELSE row[f]]

Refused(j, row) == ~row.deleted /\ row.status \in OpenStatuses /\ DetailsTaken(row.details, j)

\* The commit of update_job, close_job and delete_job.  update_job compares
\* the status before and after to announce a job it published, but both are
\* read from the one loaded row, which the write has changed: nothing is
\* announced.
WriteJob(r) ==
    LET j == order[r].job IN
    /\ doing[r] = "write"
    /\ posting' = IF Refused(j, Written(r)) THEN posting ELSE [posting EXCEPT ![j] = Written(r)]
    /\ EndOrder(r)
    /\ UNCHANGED <<today, announced>>

CloseJob(r, j) ==
    /\ doing[r] = "idle"
    /\ j \in OpenJobs
    /\ Proceed(r, "select")
    /\ order' = [order EXCEPT ![r] = [job |-> j, seen |-> posting[j],
                    to |-> [posting[j] EXCEPT !.status = "CLOSED", !.closedAt = TRUE]]]
    /\ UNCHANGED <<posting, today, announced>>

\* Deleting closes a job that was read as open.
Deleted(row) ==
    IF row.status \in OpenStatuses
    THEN [row EXCEPT !.deleted = TRUE, !.status = "CLOSED", !.closedAt = TRUE]
    ELSE [row EXCEPT !.deleted = TRUE]

DeleteJob(r, j) ==
    /\ doing[r] = "idle"
    /\ Live(j)
    /\ Proceed(r, "write")
    /\ order' = [order EXCEPT ![r] = [job |-> j, seen |-> posting[j], to |-> Deleted(posting[j])]]
    /\ UNCHANGED <<posting, today, announced>>

-----------------------------------------------------------------------------
\* bulk_update_jobs: one statement over the jobs that are not deleted.
BulkUpdate(batch, changed) ==
    posting' = [j \in Jobs |-> IF j \in batch /\ Live(j) THEN changed[j] ELSE posting[j]]

BatchForgotten(batch) ==  \* mutant: only drafts are counted with the open jobs
    LET drafts == {j \in batch : Live(j) /\ posting[j].status = "DRAFT"} IN
    drafts # {} => Cardinality(OpenJobs) + Cardinality(drafts) <= PublishLimit

\* _ensure_bulk_activate_within_plan_limits: the open jobs and those of the
\* batch that are not; a batch of open jobs only is not compared.
BulkLimitLeft(batch) ==
    LET closed == {j \in batch : Live(j) /\ posting[j].status \notin OpenStatuses} IN
    closed # {} => Cardinality(OpenJobs) + Cardinality(closed) <= PublishLimit

BulkActivate(a, batch) ==
    /\ listed[a] = {}
    /\ BulkLimitLeft(batch)
    /\ listed' = [listed EXCEPT ![a] = {j \in batch : Live(j)}]
    /\ UNCHANGED <<posting, recruiterVars>>

\* The index refuses the whole statement.
BatchRefused(batch) ==
    \E j, k \in OpenJobs \cup {l \in batch : Live(l)} :
        j # k /\ posting[j].details = posting[k].details

Activated == [j \in Jobs |-> [posting[j] EXCEPT !.status = "PUBLISHED", !.closedAt = FALSE]]

ActivateJobs(a) ==
    /\ listed[a] # {}
    /\ IF BatchRefused(listed[a]) THEN UNCHANGED posting ELSE BulkUpdate(listed[a], Activated)
    /\ listed' = [listed EXCEPT ![a] = {}]
    /\ UNCHANGED recruiterVars

BulkActivateCutOff(a) ==
    /\ listed[a] # {}
    /\ listed' = [listed EXCEPT ![a] = {}]
    /\ UNCHANGED <<posting, recruiterVars>>

\* The other actions are not checked; a deleted row keeps its status.
Paused == [j \in Jobs |-> [posting[j] EXCEPT !.status = "INACTIVE"]]
Closed == [j \in Jobs |-> [posting[j] EXCEPT !.status = "CLOSED", !.closedAt = TRUE]]
Removed == [j \in Jobs |-> [posting[j] EXCEPT !.deleted = TRUE]]

BulkPause(batch) == BulkUpdate(batch, Paused) /\ UNCHANGED <<recruiterVars, listed>>
BulkClose(batch) == BulkUpdate(batch, Closed) /\ UNCHANGED <<recruiterVars, listed>>
BulkDelete(batch) == BulkUpdate(batch, Removed) /\ UNCHANGED <<recruiterVars, listed>>

-----------------------------------------------------------------------------
DayPasses ==
    /\ today < LastDay
    /\ today' = today + 1
    /\ UNCHANGED <<posting, announced, doing, order>>

OrderCutOff(r) ==
    /\ doing[r] # "idle"
    /\ EndOrder(r)
    /\ UNCHANGED <<posting, today, announced>>

RecruitersNext ==
    \/ \E r \in Recruiters, row \in Drafts : CreatePostJob(r, row)
    \/ \E r \in Recruiters, j \in Jobs :
         \/ CloseJob(r, j) \/ DeleteJob(r, j)
         \/ \E edit \in Edits : UpdateJob(r, j, edit)
    \/ \E r \in Recruiters :
         \/ FindEarlierJob(r) \/ InsertJob(r) \/ NotifyMatchingJobAlerts(r)
         \/ CheckPublishLimit(r) \/ SelectJob(r) \/ WriteJob(r) \/ OrderCutOff(r)
    \/ ExpireJobsPastDeadline
    \/ DayPasses

AdminsNext ==
    \/ \E a \in Admins :
         \/ \E batch \in Batches : BulkActivate(a, batch)
         \/ ActivateJobs(a) \/ BulkActivateCutOff(a)
    \/ \E batch \in Batches : BulkPause(batch) \/ BulkClose(batch) \/ BulkDelete(batch)

JobPostingNext ==
    \/ RecruitersNext /\ UNCHANGED listed
    \/ AdminsNext

JobPostingSpec == JobPostingInit /\ [][JobPostingNext]_jobPostingVars

-----------------------------------------------------------------------------
Opening == {r \in Recruiters :
    /\ order[r].to.status \in OpenStatuses
    /\ \/ doing[r] \in {"find", "insert"}
       \/ doing[r] \in {"select", "write"} /\ order[r].seen.status \notin OpenStatuses}

Listed == UNION {listed[a] : a \in Admins}
Promised == OpenJobs \cup Listed

\* The published jobs exceed the plan's limit by no more than the requests
\* that run at once open: one job each of the recruiters, a batch each of
\* the administrators.  Every way to open a job (creation, an edited status,
\* a new deadline on an expired job, a bulk activation) counts the open ones
\* first (_ensure_published_job_limit_available,
\* _ensure_bulk_activate_within_plan_limits).
PublishedBounded ==
    PublishLimit > 0 =>
      Cardinality(Promised) + Cardinality(Opening)
        <= PublishLimit - 1 + Cardinality(Recruiters) + Cardinality(Admins) * BatchSize

\* Publishing a draft "sends matching job alerts": whenever a job is opened,
\* somebody is about to look for the alerts that match it, or has done so
\* (the test of update_job).
PublishedIsAnnounced ==
    [][RecruitersNext => \A j \in Jobs :
         posting[j].status \notin OpenStatuses /\ posting'[j].status \in OpenStatuses =>
           \/ j \in announced'
           \/ \E r \in Recruiters : doing'[r] = "announce" /\ order'[r].job = j]_jobPostingVars

=============================================================================
