----------------------------- MODULE PlanCatalogue -----------------------------
(***************************************************************************)
(* The candidates' plans and which of them is the default:                 *)
(* app/service/subscription/subscription_service.py, the default plans of  *)
(* the system settings and of the bootstrap.  Two places say which plan is *)
(* the default: a flag on the plan, one at a time by a partial unique      *)
(* index, and the setting that new users' assignments read first.  A       *)
(* request's reads are one step and each of its transactions is another.   *)
(* Plans are numbered in the order of their creation; 1 was made by the    *)
(* first bootstrap.                                                        *)
(***************************************************************************)
EXTENDS Integers, FiniteSets

CONSTANTS
    Admins,     \* sessions of administrators, assignments and replicas that start
    Revisions,  \* rows that creations and updates may ask for
    LastPlan    \* bound: the plans ever made are 1..LastPlan

PlanRow == [type : {"CANDIDATE", "OTHER"}, active : BOOLEAN, default : BOOLEAN]

ASSUME PlanCatalogueAssumption ==
    /\ Revisions \subseteq PlanRow
    /\ LastPlan \in Nat \ {0}

VARIABLES
    made,        \* number of plans ever made
    plan,        \* the row of each plan there is
    builtIn,     \* the plan that has the bootstrap's name, 0: none
    configured,  \* candidate_default_subscription_plan
    assigned,    \* plans that rows of user_subscriptions name
    admin        \* each session's next step; the plan it is about, its row as
                 \* read and as it is to be; the setting as read, 0: when the
                 \* step comes

planVars == <<made, plan, builtIn, configured, assigned, admin>>

PlanIds == 1..LastPlan
DefaultRow == [type |-> "CANDIDATE", active |-> TRUE, default |-> TRUE]
AdminSteps == {"idle", "create", "update", "updateDefault", "sync", "default", "delete",
               "assign", "repair", "bootstrap"}
Request(step, p, seen, new, setting) ==
    [at |-> step, plan |-> p, seen |-> seen, new |-> new, setting |-> setting]
About(step, p) == Request(step, p, DefaultRow, DefaultRow, 0)
IdleAdmin == About("idle", 0)

PlanTypeOK ==
    /\ made \in PlanIds
    /\ DOMAIN plan \subseteq 1..made /\ plan \in [DOMAIN plan -> PlanRow]
    /\ builtIn \in {0} \cup DOMAIN plan
    /\ configured \in 1..made
    /\ assigned \subseteq DOMAIN plan
    /\ admin \in [Admins -> [at : AdminSteps, plan : 0..LastPlan, seen : PlanRow,
                             new : PlanRow, setting : 0..LastPlan]]

PlansInit ==
    /\ made = 1
    /\ plan = [p \in {1} |-> DefaultRow]
    /\ builtIn = 1
    /\ configured = 1
    /\ assigned = {}
    /\ admin = [a \in Admins |-> IdleAdmin]

-----------------------------------------------------------------------------
CandidatePlans == {p \in DOMAIN plan : plan[p].type = "CANDIDATE"}
DefaultsOf(rows) == {p \in DOMAIN rows : rows[p] = DefaultRow}
DefaultPlans == DefaultsOf(plan)

\* uq_subscriptions_one_active_default_type
OneDefault(rows) == Cardinality(DefaultsOf(rows)) <= 1

\* clear_default_for_type, which spares one plan
Cleared(rows, spared) ==
    [p \in DOMAIN rows |->
        IF p # spared /\ rows[p].type = "CANDIDATE"
        THEN [rows[p] EXCEPT !.default = FALSE] ELSE rows[p]]

\* Who takes the flag from the other plans.
Clears(a) ==
    \/ admin[a].at \in {"updateDefault", "default", "repair", "bootstrap"}
    \/ admin[a].at = "create" /\ admin[a].new.default
ClearedFor(a) == IF Clears(a) THEN Cleared(plan, admin[a].plan) ELSE plan

\* The flush writes the columns that differ from those read.
Column(row, seen, new, c) == IF new[c] # seen[c] THEN new[c] ELSE row[c]
FlushedRow(row, seen, new) ==
    [type |-> Column(row, seen, new, "type"), active |-> Column(row, seen, new, "active"),
     default |-> Column(row, seen, new, "default")]

\* The rows after the other flags are cleared and the session's own row is
\* flushed.  A row that is gone is refused unless there is nothing to write.
Flushes(a) == admin[a].new # admin[a].seen
FlushedPlans(a) ==
    [p \in DOMAIN plan |->
        IF p = admin[a].plan THEN FlushedRow(plan[p], admin[a].seen, admin[a].new)
        ELSE ClearedFor(a)[p]]
Accepted(a) ==
    /\ Flushes(a) => admin[a].plan \in DOMAIN plan
    /\ OneDefault(FlushedPlans(a))

WithPlan(rows, p, r) == [q \in DOMAIN rows \cup {p} |-> IF q = p THEN r ELSE rows[q]]

Begins(a, request) ==
    /\ admin[a].at = "idle"
    /\ admin' = [admin EXCEPT ![a] = request]
    /\ UNCHANGED <<made, plan, builtIn, configured, assigned>>

Ends(a) == admin' = [admin EXCEPT ![a] = IdleAdmin]

\* After its commit the session reads its row again, and goes on to the
\* setting when that says it is a default.
SyncsNext(a, p) ==
    IF p \in DOMAIN plan' /\ plan'[p].default /\ plan'[p].type = "CANDIDATE"
    THEN admin' = [admin EXCEPT ![a] = Request("sync", p, plan'[p], DefaultRow, 0)]
    ELSE Ends(a)

-----------------------------------------------------------------------------
CreatePlan(a, row) ==
    /\ row.type = "CANDIDATE"
    /\ row.default => row.active
    /\ Begins(a, Request("create", 0, row, row, 0))

InsertPlan(a) ==
    /\ admin[a].at = "create"
    /\ made < LastPlan
    /\ made' = made + 1
    /\ plan' = WithPlan(ClearedFor(a), made', admin[a].new)
    /\ SyncsNext(a, made')
    /\ UNCHANGED <<builtIn, configured, assigned>>

\* What an update may ask for of a row.
UpdateUnsetting(p, new) ==  \* mutant: the flag may be taken from the default plan itself
    /\ new.type # plan[p].type => p \notin assigned
    /\ new.default /\ plan[p].active => new.active
UpdateAllowed(p, new) ==
    /\ new.type # plan[p].type => p \notin assigned
    /\ plan[p].default => new.default
    /\ new.default /\ plan[p].active => new.active

\* "is_default" may be asked for of a plan that has it.
UpdatePlan(a, p, new) ==
    /\ "CANDIDATE" \in {plan[p].type, new.type}
    /\ UpdateAllowed(p, new)
    /\ \/ /\ new.default => plan[p].default
          /\ Begins(a, Request("update", p, plan[p], new, 0))
       \/ /\ new.default /\ new.active
          /\ Begins(a, Request(IF new.type = "CANDIDATE" THEN "updateDefault" ELSE "update",
                               p, plan[p], new, 0))

SaveUpdate(a) ==
    /\ admin[a].at \in {"update", "updateDefault"}
    /\ Accepted(a)
    /\ plan' = FlushedPlans(a)
    /\ SyncsNext(a, admin[a].plan)
    /\ UNCHANGED <<made, builtIn, configured, assigned>>

SyncDefaultSetting(a) ==
    /\ admin[a].at = "sync"
    /\ configured' = admin[a].plan
    /\ Ends(a)
    /\ UNCHANGED <<made, plan, builtIn, assigned>>

\* set_default, and update_settings, which has read the setting already.
MakeDefault(a, p, setting) ==
    /\ p \in CandidatePlans
    /\ plan[p].active
    /\ Begins(a, Request("default", p, plan[p], DefaultRow, setting))
SetDefault(a, p) == MakeDefault(a, p, 0)
UpdateSettings(a, p) == MakeDefault(a, p, configured)

SaveDefaultFlag(a) ==  \* mutant: the setting keeps its value
    /\ admin[a].at = "default"
    /\ Accepted(a)
    /\ plan' = FlushedPlans(a)
    /\ Ends(a)
    /\ UNCHANGED <<made, builtIn, configured, assigned>>
SaveDefault(a) ==
    /\ admin[a].at = "default"
    /\ Accepted(a)
    /\ plan' = FlushedPlans(a)
    /\ configured' = IF admin[a].setting = admin[a].plan THEN configured ELSE admin[a].plan
    /\ Ends(a)
    /\ UNCHANGED <<made, builtIn, assigned>>

DeletePlan(a, p) ==
    /\ p \in CandidatePlans
    /\ ~plan[p].default /\ p # configured
    /\ p \notin assigned
    /\ Begins(a, Request("delete", p, plan[p], plan[p], 0))

\* The foreign key of user_subscriptions refuses the deletion of a plan in use.
RemovePlan(a) ==
    /\ admin[a].at = "delete"
    /\ admin[a].plan \notin assigned
    /\ plan' = [p \in DOMAIN plan \ {admin[a].plan} |-> plan[p]]
    /\ builtIn' = IF admin[a].plan = builtIn THEN 0 ELSE builtIn
    /\ Ends(a)
    /\ UNCHANGED <<made, configured, assigned>>

-----------------------------------------------------------------------------
\* ensure_default_plan takes the default, or the plan of its own name, or
\* (0) makes one.
DefaultToEnsure(p) ==
    \/ p \in DefaultPlans
    \/ DefaultPlans = {} /\ p = builtIn

EnsuresDefault(a, step) ==
    \E p \in 0..made :
        /\ DefaultToEnsure(p)
        /\ Begins(a, Request(step, p, IF p = 0 THEN DefaultRow ELSE plan[p], DefaultRow, 0))

SettingUsable == configured \in CandidatePlans /\ plan[configured].active

\* get_assignment_default_plan
ResolveDefault(a) ==
    IF SettingUsable
    THEN Begins(a, About("assign", configured))
    ELSE EnsuresDefault(a, "repair")

\* assign and subscribe, of a plan that an admin or the candidate chose
ChoosePlan(a, p) ==
    /\ p \in CandidatePlans
    /\ plan[p].active
    /\ Begins(a, About("assign", p))

AssignPlan(a) ==
    /\ admin[a].at = "assign"
    /\ admin[a].plan \in DOMAIN plan
    /\ assigned' = assigned \cup {admin[a].plan}
    /\ Ends(a)
    /\ UNCHANGED <<made, plan, builtIn, configured>>

\* bootstrap_defaults_and_assignments, when a replica starts
StartReplica(a) == EnsuresDefault(a, "bootstrap")

\* The end of ensure_default_plan, with the assignment it was for or, at the
\* start of a replica, the setting and the assignments that were missing.
EnsuredPlan(a) == IF admin[a].plan = 0 THEN made' ELSE admin[a].plan

EnsureDefaultPlan(a) ==
    IF admin[a].plan = 0
    THEN /\ made < LastPlan /\ builtIn = 0 /\ DefaultPlans = {}
         /\ made' = made + 1
         /\ builtIn' = made'
         /\ plan' = WithPlan(ClearedFor(a), made', DefaultRow)
    ELSE /\ admin[a].plan \in DOMAIN plan
         /\ Accepted(a)
         /\ plan' = FlushedPlans(a)
         /\ UNCHANGED <<made, builtIn>>

RepairDefault(a) ==
    /\ admin[a].at = "repair"
    /\ EnsureDefaultPlan(a)
    /\ assigned' = assigned \cup {EnsuredPlan(a)}
    /\ Ends(a)
    /\ UNCHANGED configured

BootstrapDefault(a) ==
    /\ admin[a].at = "bootstrap"
    /\ EnsureDefaultPlan(a)
    /\ configured' = EnsuredPlan(a)
    /\ assigned' \in {assigned, assigned \cup {EnsuredPlan(a)}}
    /\ Ends(a)

\* A crash, a cancelled request, or a statement that an index, a foreign key
\* or the absence of the row refuses.
PlanRequestInterrupted(a) ==
    /\ admin[a].at # "idle"
    /\ Ends(a)
    /\ UNCHANGED <<made, plan, builtIn, configured, assigned>>

PlansNext ==
    \E a \in Admins :
        \/ \E row \in Revisions : CreatePlan(a, row)
        \/ InsertPlan(a)
        \/ \E p \in DOMAIN plan :
              \/ \E new \in Revisions : UpdatePlan(a, p, new)
              \/ SetDefault(a, p)
              \/ UpdateSettings(a, p)
              \/ DeletePlan(a, p)
              \/ ChoosePlan(a, p)
        \/ SaveUpdate(a)
        \/ SyncDefaultSetting(a)
        \/ SaveDefault(a)
        \/ RemovePlan(a)
        \/ ResolveDefault(a)
        \/ AssignPlan(a)
        \/ StartReplica(a)
        \/ RepairDefault(a)
        \/ BootstrapDefault(a)
        \/ PlanRequestInterrupted(a)

PlansSpec == PlansInit /\ [][PlansNext]_planVars

-----------------------------------------------------------------------------
\* The plan, or the setting, is not any more as the session read it.
StaleAdmin(a) ==
    \/ admin[a].at = "repair" /\ SettingUsable
    \/ admin[a].setting \notin {0, configured}
    \/ admin[a].plan \notin {0} \cup DOMAIN plan
    \/ admin[a].plan \in DOMAIN plan /\ plan[admin[a].plan] # admin[a].seen
MovesType(a) == admin[a].new.type # admin[a].seen.type

\* There is always a default plan: it is replaced by another in one step, and
\* lost only to a request whose plan is not any more as it was read (made the
\* default, or not any more, before the request switched it off, deleted it or
\* took the flag from the others without writing its own) or that moves the
\* plan to another type, which update allows while nobody is assigned to it.
DefaultStaysUnlessStale ==
    [][DefaultPlans # {} /\ DefaultPlans' = {} =>
         \E a \in Admins : admin'[a] # admin[a] /\ (StaleAdmin(a) \/ MovesType(a))]_planVars

\* The setting names the plan that has the flag, and they part only in a
\* request whose plan, or the setting, is not any more as it was read, that
\* moves the plan to another type, that has committed the flag and not yet the
\* setting, or that edits a plan which such a race left flagged and inactive.
SettingFollowsUnlessStale ==
    [][DefaultPlans = {configured} /\ (DefaultPlans # {configured})' =>
         \E a \in Admins :
             /\ admin'[a] # admin[a]
             /\ \/ StaleAdmin(a) \/ MovesType(a)
                \/ admin'[a].at = "sync" \/ ~admin[a].seen.active]_planVars

=============================================================================
