----------------------------- MODULE AIGeneration -----------------------------
(***************************************************************************)
(* What employers let an AI provider write, and the monthly limits of      *)
(* their plan on it: job descriptions, message drafts and insights into    *)
(* candidates (ai_job_description_service.py,                              *)
(* ai_message_drafting_service.py, candidate_ai_insights_service.py), and  *)
(* the matching of candidates to a job (ai_candidate_matching_service.py). *)
(* Every request checks its limit once, at the start, and adds its use in  *)
(* the transaction that ends it, after the provider has answered.          *)
(*                                                                         *)
(* The sessions are of one employer.  The insight into a candidate is one  *)
(* row, which tells by a hash which data of the candidate it was made      *)
(* from.  The update of a row writes only the columns whose values differ  *)
(* from those the session loaded, and a session that has loaded the row    *)
(* once does not load it again.  The text is the column in which answers   *)
(* from other data always differ, the summary; a column in which they may  *)
(* agree can be left from yet another request, and is not modelled.        *)
(***************************************************************************)
EXTENDS Integers, FiniteSets, FiniteSetsExt

CONSTANTS
    AISessions,         \* sessions of the employer
    Candidates,         \* candidates the employer can see
    MonthlyLimit,       \* of each limit, what the plan allows a month
    CandidateLimit,     \* candidates one matching considers
    LastVersion,        \* bound: the candidates' data change LastVersion times
    MaxGenerations,     \* bound: requests together
    NoInsight,          \* there is no row
    NoCandidate         \* the candidate of a request that has none

Limits == {"descriptions", "drafts", "insights", "runs", "analyses"}

ASSUME AIGenerationAssumption ==
    /\ IsFiniteSet(AISessions) /\ AISessions # {}
    /\ MonthlyLimit \in [Limits -> Nat]
    /\ CandidateLimit \in Nat \ {0}
    /\ LastVersion \in Nat /\ MaxGenerations \in Nat
    /\ NoCandidate \notin Candidates

Versions == 0..LastVersion
\* valid: the columns are of the values the response allows.
Insight == [hash : Versions, text : Versions, valid : BOOLEAN]
ASSUME NoInsightAssumption == NoInsight \notin Insight

VARIABLES
    usedInMonth,  \* used_count of the month's subscription_usage row, by limit
    data,         \* the version of each candidate's data
    insight,      \* the candidate_ai_insights row: its hash, and what its text is of
    raced,        \* history: insights whose last text went over another request's
    described,    \* the full description of the one form is in the cache
    generating, generation,  \* what each session is doing
    generations   \* requests begun

aiVars == <<usedInMonth, data, insight, raced, described, generating, generation, generations>>

GenerationSteps ==
    {"idle", "readCache", "describe", "recordDescription", "fillCache", "draft", "recordDraft",
     "context", "cachedInsight", "insight", "upsertInsight", "storeInsight", "pool", "match"}

Generation == [candidate : Candidates \cup {NoCandidate}, regenerate : BOOLEAN, full : BOOLEAN,
               version : Versions, loaded : Insight \cup {NoInsight}, late : BOOLEAN,
               pool : 0..CandidateLimit]

NoGeneration == [candidate |-> NoCandidate, regenerate |-> FALSE, full |-> FALSE, version |-> 0,
                 loaded |-> NoInsight, late |-> FALSE, pool |-> 0]

AIGenerationTypeOK ==
    /\ usedInMonth \in [Limits -> Nat]
    /\ data \in [Candidates -> Versions]
    /\ insight \in [Candidates -> Insight \cup {NoInsight}]
    /\ raced \subseteq Candidates
    /\ described \in BOOLEAN
    /\ generating \in [AISessions -> GenerationSteps]
    /\ generation \in [AISessions -> Generation]
    /\ generations \in 0..MaxGenerations

MadeOf(v, valid) == [hash |-> v, text |-> v, valid |-> valid]

\* The rows there are at first may be of an earlier form, which is not valid.
AIGenerationInit ==
    /\ usedInMonth = [l \in Limits |-> 0]
    /\ data = [c \in Candidates |-> 0]
    /\ insight \in [Candidates -> {NoInsight} \cup {MadeOf(0, valid) : valid \in BOOLEAN}]
    /\ raced = {}
    /\ described = FALSE
    /\ generating = [s \in AISessions |-> "idle"]
    /\ generation = [s \in AISessions |-> NoGeneration]
    /\ generations = 0

AdvanceTo(s, step) == generating' = [generating EXCEPT ![s] = step]

EndGeneration(s) ==
    /\ AdvanceTo(s, "idle")
    /\ generation' = [generation EXCEPT ![s] = NoGeneration]

-----------------------------------------------------------------------------
\* ensure_limit_available.
MonthlyLimitOffByOne(l, n) ==  \* mutant: refused one use too late
    usedInMonth[l] + n <= MonthlyLimit[l] + 1
MonthlyLimitAvailable(l, n) == usedInMonth[l] + n <= MonthlyLimit[l]

\* A request begins with the check of its limit; one that is refused, there
\* or by a rate limit, changes nothing.
Begin(s, l, step) ==
    /\ generating[s] = "idle"
    /\ generations < MaxGenerations
    /\ generations' = generations + 1
    /\ MonthlyLimitAvailable(l, 1)
    /\ AdvanceTo(s, step)

\* generate_json: an answer, repaired once or asked for again where the
\* service does, or none; nothing is written, and the transaction stays open.
Ask(s, asking, answered) ==
    /\ generating[s] = asking
    /\ \/ AdvanceTo(s, answered) /\ UNCHANGED generation
       \/ EndGeneration(s)
    /\ UNCHANGED <<usedInMonth, data, insight, raced, described, generations>>

\* increment_usage.
Used(l, n) == [usedInMonth EXCEPT ![l] = @ + n]

-----------------------------------------------------------------------------
\* generate_description and improve_description of the whole text look in the
\* cache first; a section, and regenerate_section, do not.
GenerateDescription(s, full) ==
    /\ Begin(s, "descriptions", IF full THEN "readCache" ELSE "describe")
    /\ generation' = [generation EXCEPT ![s].full = full]
    /\ UNCHANGED <<usedInMonth, data, insight, raced, described>>

\* What is in the cache is not counted.
CacheGet(s) ==
    /\ generating[s] = "readCache"
    /\ IF described THEN EndGeneration(s) ELSE AdvanceTo(s, "describe") /\ UNCHANGED generation
    /\ UNCHANGED <<usedInMonth, data, insight, raced, described, generations>>

CallDescription(s) == Ask(s, "describe", "recordDescription")

RecordDescription(s) ==
    /\ generating[s] = "recordDescription"
    /\ usedInMonth' = Used("descriptions", 1)
    /\ IF generation[s].full THEN AdvanceTo(s, "fillCache") /\ UNCHANGED generation ELSE EndGeneration(s)
    /\ UNCHANGED <<data, insight, raced, described, generations>>

CacheSet(s) ==
    /\ generating[s] = "fillCache"
    /\ described' = TRUE
    /\ EndGeneration(s)
    /\ UNCHANGED <<usedInMonth, data, insight, raced, generations>>

CacheExpires ==
    /\ described
    /\ described' = FALSE
    /\ UNCHANGED <<usedInMonth, data, insight, raced, generating, generation, generations>>

-----------------------------------------------------------------------------
\* generate_draft, improve_message.
GenerateDraft(s) ==
    /\ Begin(s, "drafts", "draft")
    /\ UNCHANGED <<usedInMonth, data, insight, raced, described, generation>>

CallDraft(s) == Ask(s, "draft", "recordDraft")

RecordDraft(s) ==
    /\ generating[s] = "recordDraft"
    /\ usedInMonth' = Used("drafts", 1)
    /\ EndGeneration(s)
    /\ UNCHANGED <<data, insight, raced, described, generations>>

-----------------------------------------------------------------------------
\* get_insights: the limit, the candidate's data, the row.
GetInsights(s, c, regenerate) ==
    /\ Begin(s, "insights", "context")
    /\ generation' = [generation EXCEPT ![s] = [@ EXCEPT !.candidate = c, !.regenerate = regenerate]]
    /\ UNCHANGED <<usedInMonth, data, insight, raced, described>>

BuildCandidateContext(s) ==
    /\ generating[s] = "context"
    /\ generation' = [generation EXCEPT ![s].version = data[generation[s].candidate]]
    /\ AdvanceTo(s, "cachedInsight")
    /\ UNCHANGED <<usedInMonth, data, insight, raced, described, generations>>

\* The row answers, uncounted, when its hash is that of the data and it is
\* well formed; a malformed row is as good as a stale one.
IsCurrent(g, row) == row # NoInsight /\ row.hash = g.version /\ row.valid /\ ~g.regenerate

GetCachedInsight(s) ==
    LET row == insight[generation[s].candidate] IN
    /\ generating[s] = "cachedInsight"
    /\ IF IsCurrent(generation[s], row)
       THEN EndGeneration(s)
       ELSE /\ AdvanceTo(s, "insight")
            /\ generation' = [generation EXCEPT ![s].loaded = row]
    /\ UNCHANGED <<usedInMonth, data, insight, raced, described, generations>>

\* A row that is stale answers, told so, when the provider does not.
CallInsight(s) == Ask(s, "insight", "upsertInsight")

\* upsert_insight looks again, in vain if the session has loaded the row.
LookUpInsight(s) ==
    /\ generating[s] = "upsertInsight"
    /\ AdvanceTo(s, "storeInsight")
    /\ generation' = IF generation[s].loaded # NoInsight THEN generation
                     ELSE [generation EXCEPT ![s] =
                            [@ EXCEPT !.loaded = insight[generation[s].candidate], !.late = TRUE]]
    /\ UNCHANGED <<usedInMonth, data, insight, raced, described, generations>>

\* The row after the flush: a hash that is the loaded one is not written.
\* What was malformed differs from what is written now.
HashLeft(g, row) ==  \* mutant: an update leaves the hash out
    IF g.loaded = NoInsight THEN MadeOf(g.version, TRUE)
    ELSE [row EXCEPT !.text = g.version, !.valid = TRUE]
Stored(g, row) ==
    IF g.loaded = NoInsight \/ g.loaded.hash # g.version
    THEN MadeOf(g.version, TRUE)
    ELSE [row EXCEPT !.text = g.version, !.valid = TRUE]

\* The row and its use are one transaction; a second row of the candidate is
\* refused.
StoreInsight(s) ==
    LET g == generation[s]
        row == insight[g.candidate]
        overAnother == /\ g.loaded # NoInsight /\ row # g.loaded
                       /\ g.regenerate \/ g.late \/ ~g.loaded.valid
    IN
    /\ generating[s] = "storeInsight"
    /\ \/ /\ g.loaded = NoInsight => row = NoInsight
          /\ insight' = [insight EXCEPT ![g.candidate] = Stored(g, row)]
          /\ raced' = IF overAnother THEN raced \cup {g.candidate} ELSE raced \ {g.candidate}
          /\ usedInMonth' = Used("insights", 1)
       \/ /\ g.loaded = NoInsight /\ row # NoInsight
          /\ UNCHANGED <<insight, raced, usedInMonth>>
    /\ EndGeneration(s)
    /\ UNCHANGED <<data, described, generations>>

-----------------------------------------------------------------------------
\* generate_matches: the runs are checked at the start, the analyses when the
\* candidates are known, and both are counted at the end.
GenerateMatches(s) ==
    /\ Begin(s, "runs", "pool")
    /\ UNCHANGED <<usedInMonth, data, insight, raced, described, generation>>

CheckAnalyses(s, n) ==
    /\ generating[s] = "pool"
    /\ IF n > 0 /\ MonthlyLimitAvailable("analyses", n)
       THEN /\ AdvanceTo(s, "match")
            /\ generation' = [generation EXCEPT ![s].pool = n]
       ELSE EndGeneration(s)
    /\ UNCHANGED <<usedInMonth, data, insight, raced, described, generations>>

RecordMatches(s) ==
    /\ generating[s] = "match"
    /\ usedInMonth' = [Used("runs", 1) EXCEPT !["analyses"] = @ + generation[s].pool]
    /\ EndGeneration(s)
    /\ UNCHANGED <<data, insight, raced, described, generations>>

-----------------------------------------------------------------------------
\* The candidate or a resume of theirs changes.
DataChanges(c) ==
    /\ data[c] < LastVersion
    /\ data' = [data EXCEPT ![c] = @ + 1]
    /\ UNCHANGED <<usedInMonth, insight, raced, described, generating, generation, generations>>

\* The month turns, or an administrator resets the usage.
ResetMonth(S) ==
    /\ usedInMonth' = [l \in Limits |-> IF l \in S THEN 0 ELSE usedInMonth[l]]
    /\ UNCHANGED <<data, insight, raced, described, generating, generation, generations>>

\* A request is cut off, or refused for a reason of its own.
GenerationEnds(s) ==
    /\ generating[s] # "idle"
    /\ EndGeneration(s)
    /\ UNCHANGED <<usedInMonth, data, insight, raced, described, generations>>

Generate(s) ==
    \/ \E full \in BOOLEAN : GenerateDescription(s, full)
    \/ CacheGet(s) \/ CallDescription(s) \/ RecordDescription(s) \/ CacheSet(s)
    \/ GenerateDraft(s) \/ CallDraft(s) \/ RecordDraft(s)
    \/ \E c \in Candidates, regenerate \in BOOLEAN : GetInsights(s, c, regenerate)
    \/ BuildCandidateContext(s) \/ GetCachedInsight(s) \/ CallInsight(s)
    \/ LookUpInsight(s) \/ StoreInsight(s)
    \/ GenerateMatches(s) \/ RecordMatches(s)
    \/ \E n \in 0..CandidateLimit : CheckAnalyses(s, n)
    \/ GenerationEnds(s)

AIGenerationNext ==
    \/ \E s \in AISessions : Generate(s)
    \/ \E c \in Candidates : DataChanges(c)
    \/ \E S \in {Limits} \cup {{l} : l \in Limits} : ResetMonth(S)
    \/ CacheExpires

AIGenerationSpec == AIGenerationInit /\ [][AIGenerationNext]_aiVars

-----------------------------------------------------------------------------
\* A limit is overrun by no more than what the requests that run at once
\* use, all but the one that was checked last: each was checked before it
\* asked the provider, and counted after (ensure_limit_available, and the
\* _record_success of the services).
MonthOverrunBounded ==
    \A l \in Limits :
      usedInMonth[l] <= MonthlyLimit[l]
        + (Cardinality(AISessions) - 1) * (IF l = "analyses" THEN CandidateLimit ELSE 1)

\* An insight that the hash says was made from the candidate's present data
\* was made from them, unless the last text was written over a row that
\* another request had written meanwhile, and by a request to regenerate, by
\* one that saw no row at first, or by one that had found the row malformed
\* (upsert_insight of a loaded row, and the comparison of hashes in
\* get_insights).  A request that found a well-formed row stale never leaves
\* the hash of other data.
HashTellsText ==
    \A c \in Candidates :
      insight[c] # NoInsight /\ c \notin raced => insight[c].hash = insight[c].text

=============================================================================
