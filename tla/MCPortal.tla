------------------------------- MODULE MCPortal -------------------------------
(***************************************************************************)
(* Seven parts of the portal that share no state, side by side: which of   *)
(* them moves is chosen at the start, so that a behaviour is one of it.    *)
(***************************************************************************)
EXTENDS CandidateInvitations, JobPosting, JobAlertDigests, CandidateResumes,
        ProfileSections, RateLimiter, AIGeneration

CONSTANTS d1, d2, k1  \* postings' details, and a key

VARIABLE part

portalVars == <<part, invitationVars, jobPostingVars, digestVars, resumeVars, sectionVars,
                rateVars, aiVars>>

Row(status, details, deadline, key) ==
    [NoRow EXCEPT !.status = status, !.details = details, !.deadline = deadline, !.key = key]

\* A job to publish, under a key, and a draft.
SomeDrafts == {Row("PUBLISHED", d1, 0, k1), Row("DRAFT", d2, 1, NoKey)}
SomeEdits == {[status |-> "PUBLISHED"], [deadline |-> 1]}

SomeLimits == [l \in Limits |-> IF l = "analyses" THEN 2 ELSE 1]

\* Certifications are replaced by one without an id.
SomeLists == {{[id |-> 0, name |-> n]} : n \in Names}

LoginRules ==
    <<[by |-> "ip", limit |-> 2, window |-> 2], [by |-> "ip_id", limit |-> 1, window |-> 3]>>

\* Of the invitations, the sessions of the employer meet beside one of the
\* candidate; in another part those of the candidate meet beside one of the
\* employer, at no more invitations than they are, while the week, the usage
\* and who may be invited are left alone.
AtWork(S) == {s \in S : pc[s] # "idle"}
FirstReader == CHOOSE r \in Readers : TRUE
SendersMeet == InvitationsNext /\ AtWork(Readers)' \subseteq {FirstReader}
ReadersMeet ==
    /\ \/ \E s \in Senders : Send(s)
       \/ \E s \in Readers : Respond(s)
       \/ \E s \in Sessions : Interrupted(s)
    /\ Cardinality(AtWork(Senders)') <= 1
    /\ Cardinality(Sent') <= Cardinality(Readers)

Parts == {"invitations", "answers", "jobs", "digests", "resumes", "sections", "rates", "generation"}

Init ==
    /\ part \in Parts
    /\ InvitationsInit /\ JobPostingInit /\ DigestInit /\ ResumesInit /\ SectionsInit
    /\ RateInit /\ AIGenerationInit
    /\ part # "generation" => insight = [c \in Candidates |-> NoInsight]

Next ==
    /\ UNCHANGED part
    /\ \/ /\ \/ part = "invitations" /\ SendersMeet
             \/ part = "answers" /\ ReadersMeet
          /\ UNCHANGED <<jobPostingVars, digestVars, resumeVars, sectionVars,
                         rateVars, aiVars>>
       \/ /\ part = "jobs" /\ JobPostingNext
          /\ UNCHANGED <<invitationVars, digestVars, resumeVars, sectionVars,
                         rateVars, aiVars>>
       \/ /\ part = "digests" /\ DigestNext
          /\ UNCHANGED <<invitationVars, jobPostingVars, resumeVars, sectionVars,
                         rateVars, aiVars>>
       \/ /\ part = "resumes" /\ ResumesNext
          /\ UNCHANGED <<invitationVars, jobPostingVars, digestVars, sectionVars,
                         rateVars, aiVars>>
       \/ /\ part = "sections" /\ SectionsNext
          /\ UNCHANGED <<invitationVars, jobPostingVars, digestVars, resumeVars,
                         rateVars, aiVars>>
       \/ /\ part = "rates" /\ RateNext
          /\ UNCHANGED <<invitationVars, jobPostingVars, digestVars, resumeVars,
                         sectionVars, aiVars>>
       \/ /\ part = "generation" /\ AIGenerationNext
          /\ UNCHANGED <<invitationVars, jobPostingVars, digestVars, resumeVars,
                         sectionVars, rateVars>>

Spec == Init /\ [][Next]_portalVars

\* Every variable of the part that moves has a value of the type its module
\* gives it; the other variables keep their first values.
PortalTypeOK ==
    CASE part \in {"invitations", "answers"} -> InvitationsTypeOK
      [] part = "jobs" -> JobPostingTypeOK
      [] part = "digests" -> DigestTypeOK
      [] part = "resumes" -> ResumesTypeOK
      [] part = "sections" -> SectionsTypeOK
      [] part = "rates" -> RateTypeOK
      [] part = "generation" -> AIGenerationTypeOK

\* The parts are given the same sets where they can be, so that one
\* permutation serves several; and whoever exchanges two invitations, which
\* no part with jobs has, exchanges jobs too.
Exchanges(S) == {p \in Permutations(S) : Cardinality({x \in S : p[x] # x}) = 2}
Together(p, q) == [x \in Invitations \cup Jobs |-> IF x \in Invitations THEN p[x] ELSE q[x]]

Interchangeable ==
    Permutations(Senders) \cup {Together(p, q) : p \in Exchanges(Invitations), q \in Exchanges(Jobs)}

=============================================================================
