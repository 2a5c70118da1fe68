------------------------------ MODULE MCAccounts ------------------------------
(***************************************************************************)
(* Three parts that share no state, side by side: Registration,            *)
(* Credentials, where registration ends, and super administrators at the   *)
(* jobs of an employer (JobPosting; recruiters among themselves are in     *)
(* MCPortal).  Which of them moves is chosen at the start, so that a       *)
(* behaviour is one of it.  Within Registration, either persons who still  *)
(* have to verify or persons who have done so move, since persons meet in  *)
(* the company numbers only.                                               *)
(***************************************************************************)
EXTENDS Registration, Credentials, JobPosting

CONSTANTS d1, d2  \* postings' details

VARIABLE moving

accountVars == <<moving, registrationVars, credentialVars, jobPostingVars>>

Movers == IF moving = "unproved" THEN Persons \ Proved ELSE Proved

\* The jobs are drafts that recruiters publish, two of them of the same
\* details; each batch is of two jobs.
Draft(d) == [NoRow EXCEPT !.status = "DRAFT", !.details = d]
Publishing == {[status |-> "PUBLISHED"]}
NoDrafts == {}
PairsOfJobs == {batch \in SUBSET Jobs : Cardinality(batch) = 2}

Init ==
    /\ moving \in {"unproved", "proved", "credentials", "jobs"}
    /\ IF moving \in {"unproved", "proved"}
       THEN EmailsProved
       ELSE emailCode = [p \in Persons |-> [k \in EmailCodes |-> "none"]]
    /\ RegistrationIdle
    /\ CredentialsInit
    /\ password = CHOOSE w \in Passwords : TRUE  \* passwords are interchangeable
    /\ \/ moving # "jobs" /\ posting = [j \in Jobs |-> NoRow]
       \/ /\ moving = "jobs"
          /\ \E odd \in Jobs :
               posting = [j \in Jobs |-> IF j = odd THEN Draft(d1) ELSE Draft(d2)]
    /\ JobPostingIdle

Next ==
    /\ UNCHANGED moving
    /\ \/ /\ moving \in {"unproved", "proved"}
          /\ RegistrationNext
          /\ \A v \in Visitors : form'[v].person \in Movers \cup {Nobody}
          /\ \A p \in Persons \ Movers : emailCode'[p] = emailCode[p]
          /\ UNCHANGED <<credentialVars, jobPostingVars>>
       \/ /\ moving = "credentials"
          /\ CredentialsNext
          /\ UNCHANGED <<registrationVars, jobPostingVars>>
       \/ /\ moving = "jobs"
          /\ JobPostingNext
          /\ UNCHANGED <<registrationVars, credentialVars>>

Spec == Init /\ [][Next]_accountVars

\* The parts are given the same sets where they can be, so that one
\* permutation serves several.
Interchangeable == Permutations(Visitors) \cup Permutations(EmailCodes)

=============================================================================
