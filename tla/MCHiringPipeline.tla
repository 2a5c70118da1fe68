-------------------------- MODULE MCHiringPipeline --------------------------
(***************************************************************************)
(* The run of HiringPipeline.  Which kind of session works in pairs,       *)
(* beside at most one of another kind, is chosen at the start.             *)
(***************************************************************************)
EXTENDS HiringPipeline, TLC

VARIABLE pairs

hiringVars == <<pairs, vars>>

HiringInit == Init /\ pairs \in {Candidates, Schedulers}

Working == {s \in Sessions : pc[s] # "idle"}

HiringNext ==
    /\ Next
    /\ UNCHANGED pairs
    /\ Cardinality(Working' \ pairs) <= 1

HiringSpec == HiringInit /\ [][HiringNext]_hiringVars

\* Applications, interviews and the sessions of a kind.
Interchangeable ==
    Permutations(Applications) \cup Permutations(Interviews)
    \cup Permutations(Candidates) \cup Permutations(Schedulers)

=============================================================================
