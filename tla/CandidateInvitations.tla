-------------------------- MODULE CandidateInvitations --------------------------
(***************************************************************************)
(* Invitations an employer sends to candidates, and the weekly usage limit *)
(* of the employer's plan, which is counted in a transaction of its own:   *)
(* app/service/employer_service/invitations_service.py with                *)
(* SubscriptionValidator.  A sender serves a request of the one employer,  *)
(* a reader a request of the candidate; every await of the database ends a *)
(* step, and no statement locks what an earlier one read.                  *)
(***************************************************************************)
EXTENDS Integers, FiniteSets, Functions

CONSTANTS
    Invitations,   \* invitation ids
    Pairs,         \* a candidate and a job of the employer
    Senders,       \* sessions of the employer
    Readers,       \* sessions of the candidates
    Limit,         \* candidate_invitations_per_week of the plan
    LastWeek,      \* bound: the weeks are 0..LastWeek
    NoPair,        \* the pair of an invitation that does not exist
    NoInvitation   \* the invitation of a session that has none

ASSUME InvitationsAssumption ==
    /\ IsFiniteSet(Invitations)
    /\ IsFiniteSet(Senders)
    /\ Senders \cap Readers = {}
    /\ Limit \in Nat
    /\ LastWeek \in Nat
    /\ NoPair \notin Pairs
    /\ NoInvitation \notin Invitations

VARIABLES
    invitation,   \* the candidate_invitations table
    eligible,     \* pairs whose candidate is visible and whose job is open
    used,         \* used_count of each week's subscription_usage row
    week,         \* the current week
    told,         \* event keys of the answers the employer was notified of
    pc, task      \* what each session is doing

invitationVars == <<invitation, eligible, used, week, told, pc, task>>

Sessions == Senders \cup Readers
Weeks == 0..LastWeek
Active == {"PENDING", "VIEWED"}
Answers == {"ACCEPTED", "REJECTED"}
Statuses == {"NONE"} \cup Active \cup Answers
Steps == {"idle", "duplicate", "insert", "consume", "increment", "markViewed", "answer", "notify"}

\* The row; an answer sets responded_at, which nothing clears.
Invitation == [pair : Pairs \cup {NoPair}, status : Statuses, responded : BOOLEAN, week : Weeks]
Task == [pair : Pairs \cup {NoPair}, invitation : Invitations \cup {NoInvitation},
        read : Statuses, answer : Answers \cup {"NONE"}]

NoTask == [pair |-> NoPair, invitation |-> NoInvitation, read |-> "NONE", answer |-> "NONE"]

InvitationsTypeOK ==
    /\ invitation \in [Invitations -> Invitation]
    /\ eligible \subseteq Pairs
    /\ used \in [Weeks -> Nat]
    /\ week \in Weeks
    /\ told \subseteq Invitations \X Answers
    /\ pc \in [Sessions -> Steps]
    /\ task \in [Sessions -> Task]

InvitationsInit ==
    /\ invitation = [i \in Invitations |->
                      [pair |-> NoPair, status |-> "NONE", responded |-> FALSE, week |-> 0]]
    /\ eligible = Pairs
    /\ used = [w \in Weeks |-> 0]
    /\ week = 0
    /\ told = {}
    /\ pc = [s \in Sessions |-> "idle"]
    /\ task = [s \in Sessions |-> NoTask]

Goto(s, step) == pc' = [pc EXCEPT ![s] = step]

Finish(s) ==
    /\ Goto(s, "idle")
    /\ task' = [task EXCEPT ![s] = NoTask]

-----------------------------------------------------------------------------
\* ensure_limit_available, for the week that is current when it is called.
LimitOffByOne == used[week] <= Limit  \* mutant: refused one use too late
LimitAvailable == used[week] + 1 <= Limit

\* send_invitation, up to its first check of the limit.
SendInvitation(s, c) ==
    /\ pc[s] = "idle"
    /\ LimitAvailable
    /\ Goto(s, "duplicate")
    /\ task' = [task EXCEPT ![s].pair = c]
    /\ UNCHANGED <<invitation, eligible, used, week, told>>

ActiveFor(c) == {i \in Invitations : invitation[i].pair = c /\ invitation[i].status \in Active}

UnseenFor(c) ==  \* mutant: a viewed invitation does not count as active
    {i \in Invitations : invitation[i].pair = c /\ invitation[i].status = "PENDING"}

\* has_duplicate_active_invitation.
DuplicatesFor(c) == ActiveFor(c)

\* The candidate, the job and the duplicates are looked up.
CheckInvitable(s) ==
    /\ pc[s] = "duplicate"
    /\ \/ /\ task[s].pair \in eligible
          /\ DuplicatesFor(task[s].pair) = {}
          /\ Goto(s, "insert")
          /\ UNCHANGED task
       \/ /\ task[s].pair \notin eligible \/ DuplicatesFor(task[s].pair) # {}
          /\ Finish(s)
    /\ UNCHANGED <<invitation, eligible, used, week, told>>

\* create_invitation commits before the use is counted.
CreateInvitation(s) ==
    /\ pc[s] = "insert"
    /\ \E i \in Invitations :
         /\ invitation[i].status = "NONE"
         /\ invitation' = [invitation EXCEPT ![i] =
              [pair |-> task[s].pair, status |-> "PENDING", responded |-> FALSE, week |-> week]]
    /\ Goto(s, "consume")
    /\ UNCHANGED <<eligible, used, week, told, task>>

\* consume_limit: the limit is checked again, and a refusal ends the request
\* with an error although the invitation is sent.
ConsumeLimit(s) ==
    /\ pc[s] = "consume"
    /\ \/ /\ LimitAvailable
          /\ Goto(s, "increment")
          /\ UNCHANGED task
       \/ /\ ~LimitAvailable
          /\ Finish(s)
    /\ UNCHANGED <<invitation, eligible, used, week, told>>

UsageSubtracted(s) ==  \* mutant: what is used is taken off, not added
    /\ pc[s] = "increment"
    /\ used' = [used EXCEPT ![week] = @ - 1]
    /\ Finish(s)
    /\ UNCHANGED <<invitation, eligible, week, told>>

IncrementRetried(s) ==  \* mutant: the statement is retried when its answer is lost
    /\ pc[s] = "increment"
    /\ used' = [used EXCEPT ![week] = @ + 1]
    /\ Finish(s) \/ UNCHANGED <<pc, task>>
    /\ UNCHANGED <<invitation, eligible, week, told>>

\* increment_usage: one INSERT ... ON CONFLICT DO UPDATE.
IncrementUsage(s) ==
    /\ pc[s] = "increment"
    /\ used' = [used EXCEPT ![week] = @ + 1]
    /\ Finish(s)
    /\ UNCHANGED <<invitation, eligible, week, told>>

-----------------------------------------------------------------------------
\* get_invitation_details of a pending invitation reads it, and its skills,
\* before mark_viewed writes the status.
GetInvitationDetails(s, i) ==
    /\ pc[s] = "idle"
    /\ invitation[i].status = "PENDING"
    /\ Goto(s, "markViewed")
    /\ task' = [task EXCEPT ![s] = [@ EXCEPT !.invitation = i, !.read = invitation[i].status]]
    /\ UNCHANGED <<invitation, eligible, used, week, told>>

MarkViewed(s) ==
    /\ pc[s] = "markViewed"
    /\ invitation' = [invitation EXCEPT ![task[s].invitation].status = "VIEWED"]
    /\ Finish(s)
    /\ UNCHANGED <<eligible, used, week, told>>

ActionableUnlessSame(status, a) == status # "NONE" /\ status # a  \* mutant: an answer may be changed
Actionable(status, a) == status \in Active

\* _respond_invitation: the check, the write, and the employer's notification
\* (one event key per answer; a second one is skipped).
RespondInvitation(s, i, a) ==
    /\ pc[s] = "idle"
    /\ Actionable(invitation[i].status, a)
    /\ Goto(s, "answer")
    /\ task' = [task EXCEPT ![s] =
                  [@ EXCEPT !.invitation = i, !.read = invitation[i].status, !.answer = a]]
    /\ UNCHANGED <<invitation, eligible, used, week, told>>

UpdateStatus(s) ==
    /\ pc[s] = "answer"
    /\ invitation' = [invitation EXCEPT ![task[s].invitation] =
                        [@ EXCEPT !.status = task[s].answer, !.responded = TRUE]]
    /\ Goto(s, "notify")
    /\ UNCHANGED <<eligible, used, week, told, task>>

NotifyEmployer(s) ==
    /\ pc[s] = "notify"
    /\ told' = told \cup {<<task[s].invitation, task[s].answer>>}
    /\ Finish(s)
    /\ UNCHANGED <<invitation, eligible, used, week>>

-----------------------------------------------------------------------------
\* A candidate is hidden or a job closed, or the reverse.
EligibilityChanges(c) ==
    /\ eligible' = IF c \in eligible THEN eligible \ {c} ELSE eligible \cup {c}
    /\ UNCHANGED <<invitation, used, week, told, pc, task>>

\* An administrator resets the usage of the subscription.
ResetUsage ==
    /\ used' = [w \in Weeks |-> 0]
    /\ UNCHANGED <<invitation, eligible, week, told, pc, task>>

WeekTurns ==
    /\ week < LastWeek
    /\ week' = week + 1
    /\ UNCHANGED <<invitation, eligible, used, told, pc, task>>

\* A request is cut off; what it committed stays.
Interrupted(s) ==
    /\ pc[s] # "idle"
    /\ Finish(s)
    /\ UNCHANGED <<invitation, eligible, used, week, told>>

Send(s) ==
    \/ \E c \in Pairs : SendInvitation(s, c)
    \/ CheckInvitable(s) \/ CreateInvitation(s) \/ ConsumeLimit(s) \/ IncrementUsage(s)

Respond(s) ==
    \/ \E i \in Invitations :
         \/ GetInvitationDetails(s, i)
         \/ \E a \in Answers : RespondInvitation(s, i, a)
    \/ MarkViewed(s) \/ UpdateStatus(s) \/ NotifyEmployer(s)

InvitationsNext ==
    \/ \E s \in Senders : Send(s)
    \/ \E s \in Readers : Respond(s)
    \/ \E s \in Sessions : Interrupted(s)
    \/ \E c \in Pairs : EligibilityChanges(c)
    \/ ResetUsage
    \/ WeekTurns

InvitationsSpec == InvitationsInit /\ [][InvitationsNext]_invitationVars

-----------------------------------------------------------------------------
Counting == {s \in Senders : pc[s] = "increment"}

\* The limit of a week is overrun by no more than the requests that run at
\* once: each use was checked against the count before it was added, with at
\* most the other senders' additions in between (consume_limit).
OverrunBounded ==
    Limit > 0 => used[week] + Cardinality(Counting) <= Limit - 1 + Cardinality(Senders)

Sent == {i \in Invitations : invitation[i].status # "NONE"}

\* A use is counted only for an invitation that was sent, and once: the
\* counters together never exceed the invitations (send_invitation counts
\* after it creates, and increment_usage adds in one statement).
UsesAreInvitations ==
    SumFunctionOnSet(used, Weeks) + Cardinality(Counting) <= Cardinality(Sent)

Unanswered(c) == {i \in ActiveFor(c) : ~invitation[i].responded}

\* A candidate has no more invitations to a job that were never answered than
\* the employer has sessions: each of them was sent by one that had found none
\* (has_duplicate_active_invitation).  One that was answered may be active
\* again, when a page that showed it as pending writes it back to viewed
\* (mark_viewed); it is told by its responded_at.
DoubledBounded == \A c \in Pairs : Cardinality(Unanswered(c)) <= Cardinality(Senders)

\* An answer is final, but for what a session of the candidate has read before
\* it was given: whoever changes it had found the invitation unanswered
\* (_respond_invitation and mark_viewed write what they decided on a status
\* read before, without a lock).
AnswerStaysUnlessStale ==
    [][\A i \in Invitations :
         invitation[i].status \in Answers /\ invitation'[i].status # invitation[i].status
           => \E s \in Readers : task[s].invitation = i /\ task[s].read \in Active]_invitationVars

=============================================================================
