---------------------------- MODULE JobAlertDigests ----------------------------
(***************************************************************************)
(* The digests of job alerts: every instance of the application runs       *)
(* app/jobs/job_alert_digest_scheduler.py, which takes an advisory lock of *)
(* the database and lets JobAlertNotificationService mail, for one         *)
(* frequency, the window that became due since the instance's last run.    *)
(*                                                                         *)
(* The session of a run joins the transaction that taking the lock began   *)
(* on its connection, so that its commits keep nothing; a rollback ends    *)
(* that transaction, and what is committed afterwards is kept.  When a     *)
(* statement failed before, the lock cannot be given back, and stays with  *)
(* the pooled connection until that is closed.  A loop forgets its last    *)
(* run when the clock tells no later time at the next.                     *)
(***************************************************************************)
EXTENDS Integers, FiniteSets, Functions

CONSTANTS
    Instances,    \* processes of the application
    Alerts,       \* active alerts with matching jobs in every window
    LastWindow,   \* bound: the windows are 1..LastWindow
    MaxStarts,    \* bound: starts of processes, and times a clock is set back
    NoAlert, NoInstance

ASSUME JobAlertDigestsAssumption ==
    /\ IsFiniteSet(Instances) /\ IsFiniteSet(Alerts)
    /\ LastWindow \in Nat /\ MaxStarts \in Nat
    /\ NoAlert \notin Alerts /\ NoInstance \notin Instances

VARIABLES
    due,        \* the latest window that is due; 0: none yet
    scheduler,  \* each instance's loop
    lock,       \* who holds the advisory lock
    kept,       \* deliveries that are committed, by alert and window
    mails,      \* how often each digest was mailed
    starts,     \* how often each instance was started
    setBacks    \* how often the clock of an instance was set back

digestVars == <<due, scheduler, lock, kept, mails, starts, setBacks>>

Windows == 1..LastWindow
DeliveryStatuses == {"NONE", "PENDING", "SENT", "FAILED"}
Unmailed == "NONE"

\* previous: the window that was due at the last run, -1 before the first;
\* ahead: that run is not before the time the clock tells now; runAt: the
\* window that the run mails; joined: the session is in the lock's transaction;
\* failed: a statement has failed in it; held: its connection had the lock.
Scheduler == [stage : {"down", "idle", "next", "mail", "mark"}, previous : -1..LastWindow,
              ahead : BOOLEAN, runAt : 0..LastWindow, todo : SUBSET Alerts, alert : Alerts \cup {NoAlert},
              joined : BOOLEAN, failed : BOOLEAN, held : BOOLEAN]

Down == [stage |-> "down", previous |-> -1, ahead |-> FALSE, runAt |-> 0, todo |-> {},
         alert |-> NoAlert, joined |-> TRUE, failed |-> FALSE, held |-> FALSE]

DigestTypeOK ==
    /\ due \in 0..LastWindow
    /\ scheduler \in [Instances -> Scheduler]
    /\ lock \in Instances \cup {NoInstance}
    /\ kept \in [Alerts \X Windows -> DeliveryStatuses]
    /\ mails \in [Alerts \X Windows -> Nat]
    /\ starts \in [Instances -> Nat]
    /\ setBacks \in Nat

DigestInit ==
    /\ due = 0
    /\ scheduler = [i \in Instances |-> Down]
    /\ lock = NoInstance
    /\ kept = [d \in Alerts \X Windows |-> Unmailed]
    /\ mails = [d \in Alerts \X Windows |-> 0]
    /\ starts = [i \in Instances |-> 0]
    /\ setBacks = 0

Running(i) == scheduler[i].stage \in {"next", "mail", "mark"}
Starts == SumFunctionOnSet(starts, Instances)

StartScheduler(i) ==
    /\ scheduler[i].stage = "down"
    /\ Starts + setBacks < MaxStarts
    /\ scheduler' = [scheduler EXCEPT ![i].stage = "idle"]
    /\ starts' = [starts EXCEPT ![i] = @ + 1]
    /\ UNCHANGED <<due, lock, kept, mails, setBacks>>

\* A lock that a run left behind belongs to one of the pooled connections,
\* which the next run may or may not be given.
MayLock(i) == lock \in {NoInstance, i}
MayMissLock == lock # NoInstance

\* The clock of an instance is set back past its last run, though not past
\* the time its window became due.
ClockSetBack(i) ==
    /\ scheduler[i].stage = "idle"
    /\ scheduler[i].previous # -1 /\ ~scheduler[i].ahead
    /\ Starts + setBacks < MaxStarts
    /\ scheduler' = [scheduler EXCEPT ![i].ahead = TRUE]
    /\ setBacks' = setBacks + 1
    /\ UNCHANGED <<due, lock, kept, mails, starts>>

\* The latest window due by the clock of a loop.
DueNow(s) == IF s.ahead THEN s.previous ELSE due

\* _due_digest_window_utc: the window is due since the last run, and
\* process_due_notifications forgets a last run that is not before this one.
DueSince(s) == DueNow(s) \in Windows /\ (s.ahead \/ DueNow(s) > s.previous)

\* execute_due_digests finds the lock taken; the loop goes on as after a run.
TickSkipped(i) ==
    /\ scheduler[i].stage = "idle"
    /\ MayMissLock
    /\ scheduler' = [scheduler EXCEPT ![i].previous = DueNow(scheduler[i]), ![i].ahead = FALSE]
    /\ UNCHANGED <<due, lock, kept, mails, starts, setBacks>>

Tick(i) ==
    LET s == scheduler[i] IN
    /\ s.stage = "idle"
    /\ MayLock(i)
    /\ lock' = i
    /\ scheduler' = [scheduler EXCEPT ![i] =
                        [s EXCEPT !.stage = "next", !.runAt = DueNow(s), !.ahead = FALSE,
                                  !.held = lock = i,
                                  !.todo = IF DueSince(s) THEN Alerts ELSE {}]]
    /\ UNCHANGED <<due, kept, mails, starts, setBacks>>

\* A statement of the run fails; what it catches ends the digests of the run.
StatementFails(i) ==
    /\ scheduler[i].stage \in {"next", "mark"}
    /\ ~scheduler[i].failed
    /\ scheduler' = [scheduler EXCEPT ![i].stage = "next", ![i].alert = NoAlert,
                                      ![i].todo = {}, ![i].failed = TRUE]
    /\ UNCHANGED <<due, lock, kept, mails, starts, setBacks>>

\* reserve_delivery.  The key is taken by a delivery that was kept: the
\* insertion is rolled back, and only a failed one is tried again.
ReserveDelivery(i, a) ==
    LET d == <<a, scheduler[i].runAt>>
        taken == kept[d] # Unmailed
        mailed == ~taken \/ kept[d] = "FAILED"
        joined == scheduler[i].joined /\ ~taken
    IN
    /\ scheduler[i].stage = "next"
    /\ a \in scheduler[i].todo
    /\ scheduler' = [scheduler EXCEPT ![i].todo = @ \ {a}, ![i].joined = joined,
                        ![i].stage = IF mailed THEN "mail" ELSE "next",
                        ![i].alert = IF mailed THEN a ELSE NoAlert]
    /\ kept' = IF mailed /\ ~joined THEN [kept EXCEPT ![d] = "PENDING"] ELSE kept
    /\ UNCHANGED <<due, lock, mails, starts, setBacks>>

\* The in-app digest of an alert, created after its mail.  One that cannot be
\* created rolls the session back, and with it the lock's transaction.
InAppDigestFails(i) ==
    /\ scheduler[i].stage = "next"
    /\ scheduler[i].joined /\ ~scheduler[i].failed
    /\ scheduler' = [scheduler EXCEPT ![i].joined = FALSE]
    /\ UNCHANGED <<due, lock, kept, mails, starts, setBacks>>

SendDigestEmail(i) ==
    LET d == <<scheduler[i].alert, scheduler[i].runAt>> IN
    /\ scheduler[i].stage = "mail"
    /\ \/ /\ mails' = [mails EXCEPT ![d] = @ + 1]
          /\ scheduler' = [scheduler EXCEPT ![i].stage = "mark"]
          /\ UNCHANGED kept
       \/ /\ kept' = IF scheduler[i].joined THEN kept ELSE [kept EXCEPT ![d] = "FAILED"]
          /\ scheduler' = [scheduler EXCEPT ![i].stage = "next", ![i].alert = NoAlert]
          /\ UNCHANGED mails
    /\ UNCHANGED <<due, lock, starts, setBacks>>

MarkSent(i) ==
    LET d == <<scheduler[i].alert, scheduler[i].runAt>> IN
    /\ scheduler[i].stage = "mark"
    /\ kept' = IF scheduler[i].joined THEN kept ELSE [kept EXCEPT ![d] = "SENT"]
    /\ scheduler' = [scheduler EXCEPT ![i].stage = "next", ![i].alert = NoAlert]
    /\ UNCHANGED <<due, lock, mails, starts, setBacks>>

AfterRunForgotten(s) ==  \* mutant: the loop keeps the time of its first run
    [s EXCEPT !.stage = "idle", !.runAt = 0, !.joined = TRUE, !.failed = FALSE, !.held = FALSE,
              !.previous = IF s.previous = -1 THEN s.runAt ELSE s.previous]
AfterRun(s) ==
    [s EXCEPT !.stage = "idle", !.runAt = 0, !.joined = TRUE, !.failed = FALSE, !.held = FALSE,
              !.previous = s.runAt]

\* The end of _run_digest_with_lock, and of the loop's turn.  The lock is
\* given back once, also by a connection that took it twice.
EndRun(i) ==
    LET s == scheduler[i] IN
    /\ s.stage = "next" /\ s.todo = {}
    /\ lock' = IF s.held \/ (s.failed /\ s.joined) THEN lock ELSE NoInstance
    /\ scheduler' = [scheduler EXCEPT ![i] = AfterRun(s)]
    /\ UNCHANGED <<due, kept, mails, starts, setBacks>>

\* The pool closes the connection that was left with the lock.
ConnectionRecycled(i) ==
    /\ lock = i
    /\ scheduler[i].stage = "idle"
    /\ lock' = NoInstance
    /\ UNCHANGED <<due, scheduler, kept, mails, starts, setBacks>>

ProcessEnds(i) ==
    /\ scheduler[i].stage # "down"
    /\ scheduler' = [scheduler EXCEPT ![i] = Down]
    /\ lock' = IF lock = i THEN NoInstance ELSE lock
    /\ UNCHANGED <<due, kept, mails, starts, setBacks>>

WindowBecomesDue ==
    /\ due < LastWindow
    /\ due' = due + 1
    /\ UNCHANGED <<scheduler, lock, kept, mails, starts, setBacks>>

DigestNext ==
    \/ \E i \in Instances :
         \/ StartScheduler(i) \/ ClockSetBack(i) \/ TickSkipped(i) \/ Tick(i) \/ StatementFails(i)
         \/ \E a \in Alerts : ReserveDelivery(i, a)
         \/ InAppDigestFails(i) \/ SendDigestEmail(i) \/ MarkSent(i) \/ EndRun(i)
         \/ ConnectionRecycled(i) \/ ProcessEnds(i)
    \/ WindowBecomesDue

DigestSpec == DigestInit /\ [][DigestNext]_digestVars

-----------------------------------------------------------------------------
\* A digest is mailed at most once for every start of the application and
\* every time a clock is set back: since the deliveries of a run are not kept,
\* only what an instance remembers of its last run keeps it from repeating it.
MailedOncePerStart ==
    \A d \in Alerts \X Windows : mails[d] <= Starts + setBacks

=============================================================================
