--------------------------- MODULE CandidateResumes ---------------------------
(***************************************************************************)
(* The resumes of one candidate: app/service/candidate_service.py over     *)
(* CandidateProfileRepo.  Two places say which resume is the default: a    *)
(* flag on the resume, and the profile's active_resume_id.  A tab serves a *)
(* request; the reads of a request are one step, and each of its           *)
(* transactions, whose rows are locked until it commits, is another.       *)
(* Resumes are numbered in the order of their uploads.                     *)
(***************************************************************************)
EXTENDS Integers, FiniteSets

CONSTANTS
    Tabs,         \* sessions of the candidate
    ResumeLimit,  \* the plan's max_resume_uploads, or five when that is more
    LastResume    \* bound: the resumes are 1..LastResume

ASSUME CandidateResumesAssumption ==
    /\ IsFiniteSet(Tabs)
    /\ ResumeLimit \in Nat /\ LastResume \in Nat

VARIABLES
    uploads,   \* the number of resumes there ever were
    removed,   \* resumes with is_deleted,
    archived,  \* with is_archived,
    active,    \* and with is_active
    pointer,   \* active_resume_id of the profile; 0: none
    tab        \* the step each tab takes next, for which resume, and whether
               \* that was active when the tab read it

resumeVars == <<uploads, removed, archived, active, pointer, tab>>

ResumeIds == 1..LastResume
TabSteps == {"idle", "deactivate", "insert", "point", "activate", "delete",
             "archive", "restore", "copy"}
IdleTab == [at |-> "idle", resume |-> 0, wasActive |-> FALSE]

ResumesTypeOK ==
    /\ uploads \in 0..LastResume
    /\ removed \subseteq ResumeIds /\ archived \subseteq ResumeIds /\ active \subseteq ResumeIds
    /\ pointer \in 0..LastResume
    /\ tab \in [Tabs -> [at : TabSteps, resume : 0..LastResume, wasActive : BOOLEAN]]

ResumesInit ==
    /\ uploads = 0
    /\ removed = {} /\ archived = {} /\ active = {}
    /\ pointer = 0
    /\ tab = [t \in Tabs |-> IdleTab]

LiveResumes == 1..uploads \ removed

UnarchivedLimitLeft ==  \* mutant: archived resumes are not counted
    Cardinality(LiveResumes \ archived) < ResumeLimit
ResumeLimitLeft == Cardinality(LiveResumes) < ResumeLimit

NewResume == uploads + 1

Turn(t, step, r) ==
    tab' = [tab EXCEPT ![t] = [at |-> step, resume |-> r, wasActive |-> r \in active]]
Turned(t) == tab' = [tab EXCEPT ![t] = IdleTab]

-----------------------------------------------------------------------------
\* upload_resume_file: the count, and then three transactions.
UploadResume(t) ==
    /\ tab[t].at = "idle"
    /\ ResumeLimitLeft
    /\ Turn(t, "deactivate", 0)
    /\ UNCHANGED <<uploads, removed, archived, active, pointer>>

DeactivateDefault(t) ==  \* mutant: only the resume that the profile names is deactivated
    /\ tab[t].at = "deactivate"
    /\ active' = active \ {pointer}
    /\ Turn(t, "insert", 0)
    /\ UNCHANGED <<uploads, removed, archived, pointer>>

DeactivateResumes(t) ==
    /\ tab[t].at = "deactivate"
    /\ active' = {}
    /\ Turn(t, "insert", 0)
    /\ UNCHANGED <<uploads, removed, archived, pointer>>

InsertResume(t) ==
    /\ tab[t].at = "insert"
    /\ uploads < LastResume
    /\ uploads' = NewResume
    /\ active' = active \cup {NewResume}
    /\ Turn(t, "point", NewResume)
    /\ UNCHANGED <<removed, archived, pointer>>

PointAtResume(t) ==
    /\ tab[t].at = "point"
    /\ pointer' = tab[t].resume
    /\ Turned(t)
    /\ UNCHANGED <<uploads, removed, archived, active>>

-----------------------------------------------------------------------------
SetActiveResume(t, r) ==
    /\ tab[t].at = "idle"
    /\ r \in LiveResumes \ archived
    /\ Turn(t, "activate", r)
    /\ UNCHANGED <<uploads, removed, archived, active, pointer>>

Newest(S) == CHOOSE r \in S : \A o \in S : o <= r

\* get_most_recent_resume: an archived one when there is no other.
MostRecentResume ==
    Newest(IF LiveResumes \subseteq archived THEN LiveResumes ELSE LiveResumes \ archived)

\* _resolve_default_resume, which every list and download begins with, makes
\* the most recent resume the default when the profile names no usable one.
ResolveDefaultResume(t) ==
    /\ tab[t].at = "idle"
    /\ pointer \notin LiveResumes \ archived
    /\ LiveResumes # {}
    /\ MostRecentResume # pointer
    /\ Turn(t, "activate", MostRecentResume)
    /\ UNCHANGED <<uploads, removed, archived, active, pointer>>

\* The transaction of the repository's set_active_resume.
ActivateResume(t) ==
    /\ tab[t].at = "activate"
    /\ active' = {tab[t].resume}
    /\ pointer' = tab[t].resume
    /\ Turned(t)
    /\ UNCHANGED <<uploads, removed, archived>>

DeleteResume(t, r) ==
    /\ tab[t].at = "idle"
    /\ r \in LiveResumes
    /\ Turn(t, "delete", r)
    /\ UNCHANGED <<uploads, removed, archived, active, pointer>>

\* The UPDATE is carried over to the loaded row, so that the test whether the
\* deleted resume was the active one fails: the profile keeps pointing at it.
RemoveResume(t) ==
    /\ tab[t].at = "delete"
    /\ removed' = removed \cup {tab[t].resume}
    /\ active' = active \ {tab[t].resume}
    /\ Turned(t)
    /\ UNCHANGED <<uploads, archived, pointer>>

SetResumeArchived(t, r) ==
    /\ tab[t].at = "idle"
    /\ r \in LiveResumes
    /\ \E step \in {"archive", "restore"} : Turn(t, step, r)
    /\ UNCHANGED <<uploads, removed, archived, active, pointer>>

ArchiveResume(t) ==
    /\ tab[t].at = "archive"
    /\ archived' = archived \cup {tab[t].resume}
    /\ active' = IF tab[t].wasActive THEN active \ {tab[t].resume} ELSE active
    /\ pointer' = IF tab[t].wasActive THEN 0 ELSE pointer
    /\ Turned(t)
    /\ UNCHANGED <<uploads, removed>>

RestoreResume(t) ==
    /\ tab[t].at = "restore"
    /\ archived' = archived \ {tab[t].resume}
    /\ Turned(t)
    /\ UNCHANGED <<uploads, removed, active, pointer>>

DuplicateResume(t, r) ==
    /\ tab[t].at = "idle"
    /\ r \in LiveResumes
    /\ ResumeLimitLeft
    /\ Turn(t, "copy", r)
    /\ UNCHANGED <<uploads, removed, archived, active, pointer>>

InsertCopy(t) ==
    /\ tab[t].at = "copy"
    /\ uploads < LastResume
    /\ uploads' = NewResume
    /\ Turned(t)
    /\ UNCHANGED <<removed, archived, active, pointer>>

\* A request ends between two of its transactions: the file store refuses the
\* upload, the client goes away, the process stops.
TabCutOff(t) ==
    /\ tab[t].at # "idle"
    /\ Turned(t)
    /\ UNCHANGED <<uploads, removed, archived, active, pointer>>

ResumesNext ==
    \E t \in Tabs :
      \/ UploadResume(t) \/ DeactivateResumes(t) \/ InsertResume(t) \/ PointAtResume(t)
      \/ ResolveDefaultResume(t) \/ ActivateResume(t)
      \/ RemoveResume(t) \/ ArchiveResume(t) \/ RestoreResume(t) \/ InsertCopy(t)
      \/ TabCutOff(t)
      \/ \E r \in ResumeIds : \/ SetActiveResume(t, r) \/ DeleteResume(t, r)
                              \/ SetResumeArchived(t, r) \/ DuplicateResume(t, r)

ResumesSpec == ResumesInit /\ [][ResumesNext]_resumeVars

-----------------------------------------------------------------------------
Inserting == {t \in Tabs : tab[t].at = "insert"}
Adding == {t \in Tabs : tab[t].at \in {"deactivate", "insert", "copy"}}

\* A candidate has no more active resumes than uploads that meet: an upload
\* deactivates all of them in one transaction and adds its own in a later
\* one, and whatever else makes a resume active leaves it the only one.
DefaultsBounded == Cardinality(active) + Cardinality(Inserting) <= Cardinality(Tabs)

\* The resumes that are not deleted exceed the limit by no more than the
\* requests that run at once: uploads and copies count them before they add.
ResumesBounded ==
    ResumeLimit > 0 =>
      Cardinality(LiveResumes) + Cardinality(Adding) <= ResumeLimit - 1 + Cardinality(Tabs)

=============================================================================
