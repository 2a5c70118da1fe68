----------------------------- MODULE Portal_proofs -----------------------------
(***************************************************************************)
(* Type correctness of CandidateResumes, and the bounds on the active      *)
(* resumes and on all of them, for any number of tabs and any limit; of    *)
(* the rest of the profile (ProfileSections), type correctness and that    *)
(* skills of distinct names stay so, for any number of sessions; and that  *)
(* the parts of the portal, side by side (MCPortal), behave each as its    *)
(* own specification says, so that what is proved of a part holds of all.  *)
(***************************************************************************)
EXTENDS MCPortal, JobPosting_proofs, Limits_proofs

-----------------------------------------------------------------------------
\* Type correctness: whoever is about to write a resume has one to write.

Writing == {"point", "activate", "delete", "archive", "restore"}
HasResume == \A t \in Tabs : tab[t].at \in Writing => tab[t].resume \in ResumeIds

ResumesTyped == ResumesTypeOK /\ HasResume

\* A set of numbers that a number bounds has a greatest one: the one whose
\* interval to the bound includes no other's.
LEMMA NewestExists ==
    ASSUME NEW n \in Nat, NEW S, S \subseteq 0..n, S # {}
    PROVE  Newest(S) \in S
<1>. DEFINE rests == {r..n : r \in S}
<1>1. rests \subseteq FiniteSubsetsOf(0..n)
  <2>. SUFFICES ASSUME NEW r \in S PROVE r..n \in FiniteSubsetsOf(0..n)
    OBVIOUS
  <2>1. r \in 0..n /\ IsFiniteSet(r..n)
    BY FS_Interval
  <2>. QED
    BY <2>1 DEF FiniteSubsetsOf
<1>2. rests # {}
  OBVIOUS
<1>. HIDE DEF rests
<1>3. PICK x \in rests : \A y \in rests : ~ (<<y, x>> \in StrictSubsetOrdering(0..n))
  BY <1>1, <1>2, FS_StrictSubsetOrderingWellFounded, WFMin, Zenon
<1>4. \E r \in S : \A o \in S : o <= r
  <2>1. PICK r \in S : x = r..n
    BY DEF rests
  <2>. SUFFICES ASSUME NEW o \in S, ~ (o <= r) PROVE FALSE
    OBVIOUS
  <2>2. o \in 0..n /\ r \in 0..n
    OBVIOUS
  <2>3. o..n \in SUBSET (0..n) /\ r..n \in SUBSET (0..n) /\ o..n \subseteq r..n /\ r \in r..n /\ r \notin o..n
    BY <2>2
  <2>4. o..n # r..n
    BY <2>3
  <2>5. <<o..n, r..n>> \in StrictSubsetOrdering(0..n)
    BY <2>3, <2>4 DEF StrictSubsetOrdering
  <2>6. o..n \in rests
    BY DEF rests
  <2>. QED
    BY <1>3, <2>1, <2>5, <2>6
<1>. QED
  BY <1>4 DEF Newest

\* The most recent of some resumes is one of them.
LEMMA MostRecentTyped ==
    ASSUME ResumesTyped, LiveResumes # {}
    PROVE  MostRecentResume \in LiveResumes /\ LiveResumes \subseteq ResumeIds
<1>. DEFINE S == IF LiveResumes \subseteq archived THEN LiveResumes ELSE LiveResumes \ archived
<1>1. LiveResumes \subseteq ResumeIds /\ LiveResumes \subseteq 0..LastResume
  BY CandidateResumesAssumption DEF LiveResumes, ResumeIds, ResumesTyped, ResumesTypeOK
<1>2. S # {} /\ S \subseteq 0..LastResume
  BY <1>1
<1>3. Newest(S) \in S
  BY <1>2, NewestExists, CandidateResumesAssumption
<1>. QED
  BY <1>1, <1>3 DEF MostRecentResume

\* A turn of a tab, or its end, keeps the tabs well typed.
LEMMA TurnTyped ==
    ASSUME ResumesTyped, NEW t \in Tabs, NEW step \in TabSteps, NEW r \in 0..LastResume,
           step \in Writing => r \in ResumeIds, Turn(t, step, r)
    PROVE  HasResume' /\ tab' \in [Tabs -> [at : TabSteps, resume : 0..LastResume, wasActive : BOOLEAN]]
<1>1. [at |-> step, resume |-> r, wasActive |-> r \in active]
        \in [at : TabSteps, resume : 0..LastResume, wasActive : BOOLEAN]
  OBVIOUS
<1>. QED
  BY <1>1 DEF ResumesTyped, ResumesTypeOK, HasResume, Turn

LEMMA TurnedTyped ==
    ASSUME ResumesTyped, NEW t \in Tabs, Turned(t)
    PROVE  HasResume' /\ tab' \in [Tabs -> [at : TabSteps, resume : 0..LastResume, wasActive : BOOLEAN]]
<1>1. IdleTab \in [at : TabSteps, resume : 0..LastResume, wasActive : BOOLEAN]
  BY CandidateResumesAssumption DEF IdleTab, TabSteps
<1>. QED
  BY <1>1 DEF ResumesTyped, ResumesTypeOK, HasResume, Turned, IdleTab, Writing

LEMMA ResumesTypedAtFirst == ResumesInit => ResumesTyped
  BY CandidateResumesAssumption
     DEF ResumesInit, ResumesTyped, ResumesTypeOK, HasResume, IdleTab, TabSteps, Writing

LEMMA ResumesStepTyped == ResumesTyped /\ [ResumesNext]_resumeVars => ResumesTyped'
<1>. SUFFICES ASSUME ResumesTyped, [ResumesNext]_resumeVars PROVE ResumesTyped'
  OBVIOUS
<1>. 0 \in 0..LastResume /\ ResumeIds \subseteq 0..LastResume
  BY CandidateResumesAssumption DEF ResumeIds
<1>. LiveResumes \subseteq ResumeIds
  BY CandidateResumesAssumption DEF LiveResumes, ResumeIds, ResumesTyped, ResumesTypeOK
<1>1. ASSUME NEW t \in Tabs, UploadResume(t) PROVE ResumesTyped'
  BY <1>1, TurnTyped DEF UploadResume, TabSteps, Writing, ResumesTyped, ResumesTypeOK
<1>2. ASSUME NEW t \in Tabs, DeactivateResumes(t) PROVE ResumesTyped'
  BY <1>2, TurnTyped DEF DeactivateResumes, TabSteps, Writing, ResumesTyped, ResumesTypeOK
<1>3. ASSUME NEW t \in Tabs, InsertResume(t) PROVE ResumesTyped'
  <2>1. NewResume \in ResumeIds /\ NewResume \in 0..LastResume
    BY <1>3, CandidateResumesAssumption DEF InsertResume, NewResume, ResumeIds, ResumesTyped, ResumesTypeOK
  <2>. QED
    BY <1>3, <2>1, TurnTyped DEF InsertResume, TabSteps, ResumesTyped, ResumesTypeOK
<1>4. ASSUME NEW t \in Tabs, PointAtResume(t) PROVE ResumesTyped'
  BY <1>4, TurnedTyped DEF PointAtResume, ResumesTyped, ResumesTypeOK
<1>5. ASSUME NEW t \in Tabs, ResolveDefaultResume(t) PROVE ResumesTyped'
  <2>1. MostRecentResume \in LiveResumes
    BY <1>5, MostRecentTyped DEF ResolveDefaultResume
  <2>. QED
    BY <1>5, <2>1, TurnTyped DEF ResolveDefaultResume, TabSteps, ResumesTyped, ResumesTypeOK
<1>6. ASSUME NEW t \in Tabs, ActivateResume(t) PROVE ResumesTyped'
  BY <1>6, TurnedTyped DEF ActivateResume, ResumesTyped, ResumesTypeOK, HasResume, Writing
<1>7. ASSUME NEW t \in Tabs, RemoveResume(t) PROVE ResumesTyped'
  BY <1>7, TurnedTyped DEF RemoveResume, ResumesTyped, ResumesTypeOK, HasResume, Writing
<1>8. ASSUME NEW t \in Tabs, ArchiveResume(t) PROVE ResumesTyped'
  BY <1>8, TurnedTyped DEF ArchiveResume, ResumesTyped, ResumesTypeOK, HasResume, Writing
<1>9. ASSUME NEW t \in Tabs, RestoreResume(t) PROVE ResumesTyped'
  BY <1>9, TurnedTyped DEF RestoreResume, ResumesTyped, ResumesTypeOK
<1>10. ASSUME NEW t \in Tabs, InsertCopy(t) PROVE ResumesTyped'
  <2>1. NewResume \in 0..LastResume
    BY <1>10, CandidateResumesAssumption DEF InsertCopy, NewResume, ResumesTyped, ResumesTypeOK
  <2>. QED
    BY <1>10, <2>1, TurnedTyped DEF InsertCopy, ResumesTyped, ResumesTypeOK
<1>11. ASSUME NEW t \in Tabs, TabCutOff(t) PROVE ResumesTyped'
  BY <1>11, TurnedTyped DEF TabCutOff, ResumesTyped, ResumesTypeOK
<1>12. ASSUME NEW t \in Tabs, NEW r \in ResumeIds,
              \/ SetActiveResume(t, r) \/ DeleteResume(t, r)
              \/ SetResumeArchived(t, r) \/ DuplicateResume(t, r)
       PROVE ResumesTyped'
  <2>1. \E step \in TabSteps : Turn(t, step, r)
    BY <1>12 DEF SetActiveResume, DeleteResume, SetResumeArchived, DuplicateResume, TabSteps
  <2>2. UNCHANGED <<uploads, removed, archived, active, pointer>>
    BY <1>12 DEF SetActiveResume, DeleteResume, SetResumeArchived, DuplicateResume
  <2>. QED
    BY <2>1, <2>2, TurnTyped DEF ResumesTyped, ResumesTypeOK
<1>13. CASE UNCHANGED resumeVars
  BY <1>13 DEF resumeVars, ResumesTyped, ResumesTypeOK, HasResume
<1>. QED
  BY <1>1, <1>2, <1>3, <1>4, <1>5, <1>6, <1>7, <1>8, <1>9, <1>10, <1>11, <1>12, <1>13 DEF ResumesNext

\* Every reachable state of the resumes is well typed, for any tabs and limit.
THEOREM ResumesTypeCorrect == ResumesSpec => []ResumesTypeOK
<1>1. ResumesSpec => []ResumesTyped
  BY ResumesTypedAtFirst, ResumesStepTyped, PTL DEF ResumesSpec
<1>. QED
  BY <1>1, PTL DEF ResumesTyped

-----------------------------------------------------------------------------
\* The active resumes.  An upload that has deactivated the others counts as
\* one that is about to be active.

LEMMA TabsFinite ==
    ASSUME NEW S, S \subseteq Tabs
    PROVE  /\ IsFiniteSet(S) /\ Cardinality(S) \in Nat /\ Cardinality(S) <= Cardinality(Tabs)
           /\ Cardinality(Tabs) \in Nat
  BY CandidateResumesAssumption, FS_Subset, FS_CardinalityType

LEMMA ResumesFinite ==
    ASSUME NEW S, S \subseteq ResumeIds
    PROVE  IsFiniteSet(S) /\ Cardinality(S) \in Nat
<1>1. IsFiniteSet(ResumeIds)
  BY CandidateResumesAssumption, FS_Interval DEF ResumeIds
<1>. QED
  BY <1>1, FS_Subset, FS_CardinalityType

\* A step of a tab moves no other tab.
Moves(t) == \A o \in Tabs : o # t => tab'[o] = tab[o]

LEMMA TurnMoves ==
    ASSUME ResumesTyped, NEW t \in Tabs, NEW step, NEW r, Turn(t, step, r)
    PROVE  Moves(t) /\ tab'[t].at = step
  BY DEF ResumesTyped, ResumesTypeOK, Turn, Moves

LEMMA TurnedMoves ==
    ASSUME ResumesTyped, NEW t \in Tabs, Turned(t)
    PROVE  Moves(t) /\ tab'[t].at = "idle"
  BY DEF ResumesTyped, ResumesTypeOK, Turned, Moves, IdleTab

DefaultsInv == ResumesTyped /\ DefaultsBounded

\* A step that takes no tab to the insertion and activates nothing.
LEMMA NothingActivated ==
    ASSUME DefaultsInv, ResumesTyped', active' \subseteq active, Inserting' \subseteq Inserting
    PROVE  DefaultsBounded'
<1>1. Inserting \subseteq Tabs /\ active \subseteq ResumeIds
  BY DEF Inserting, DefaultsInv, ResumesTyped, ResumesTypeOK
<1>2. IsFiniteSet(Inserting) /\ IsFiniteSet(active) /\ Cardinality(Inserting) \in Nat
      /\ Cardinality(active) \in Nat /\ Cardinality(Tabs) \in Nat
  BY <1>1, TabsFinite, ResumesFinite
<1>3. Cardinality(Inserting') \in Nat /\ Cardinality(Inserting') <= Cardinality(Inserting)
  BY <1>2, FS_Subset, FS_CardinalityType
<1>4. Cardinality(active') \in Nat /\ Cardinality(active') <= Cardinality(active)
  BY <1>2, FS_Subset, FS_CardinalityType
<1>. QED
  BY <1>2, <1>3, <1>4 DEF DefaultsInv, DefaultsBounded

LEMMA MovedOn ==
    ASSUME NEW t \in Tabs, Moves(t), tab'[t].at # "insert"
    PROVE  Inserting' \subseteq Inserting /\ Inserting' \subseteq Tabs \ {t}
  BY DEF Moves, Inserting

LEMMA DefaultsNext == DefaultsInv /\ [ResumesNext]_resumeVars => DefaultsInv'
<1>. SUFFICES ASSUME DefaultsInv, [ResumesNext]_resumeVars PROVE DefaultsBounded'
  BY ResumesStepTyped DEF DefaultsInv
<1>. ResumesTyped /\ ResumesTyped'
  BY ResumesStepTyped DEF DefaultsInv
<1>. Inserting \subseteq Tabs /\ Inserting' \subseteq Tabs /\ active \subseteq ResumeIds
  BY DEF Inserting, ResumesTyped, ResumesTypeOK
<1>. IsFiniteSet(Inserting) /\ Cardinality(Inserting) \in Nat /\ Cardinality(Tabs) \in Nat
     /\ Cardinality(Inserting') \in Nat /\ Cardinality(Inserting') <= Cardinality(Tabs)
     /\ IsFiniteSet(active) /\ Cardinality(active) \in Nat
  BY TabsFinite, ResumesFinite
<1>1. ASSUME NEW t \in Tabs, DeactivateResumes(t) PROVE DefaultsBounded'
  <2>1. Cardinality(active') = 0
    BY <1>1, FS_EmptySet DEF DeactivateResumes
  <2>. QED
    BY <2>1 DEF DefaultsBounded
<1>2. ASSUME NEW t \in Tabs, InsertResume(t) PROVE DefaultsBounded'
  <2>1. t \in Inserting /\ Inserting' \subseteq Inserting \ {t}
    BY <1>2, TurnMoves DEF InsertResume, Inserting, Moves
  <2>2. IsFiniteSet(Inserting \ {t}) /\ Cardinality(Inserting \ {t}) = Cardinality(Inserting) - 1
    BY <2>1, FS_RemoveElement
  <2>3. Cardinality(Inserting') <= Cardinality(Inserting) - 1
    BY <2>1, <2>2, FS_Subset
  <2>4. Cardinality(active') \in Nat /\ Cardinality(active') <= Cardinality(active) + 1
    <3>1. active' = active \cup {NewResume}
      BY <1>2 DEF InsertResume
    <3>2. Cardinality(active') = IF NewResume \in active THEN Cardinality(active) ELSE Cardinality(active) + 1
      BY <3>1, FS_AddElement, Zenon
    <3>. QED
      BY <3>2
  <2>. QED
    BY <2>3, <2>4 DEF DefaultsInv, DefaultsBounded
<1>3. ASSUME NEW t \in Tabs, ActivateResume(t) PROVE DefaultsBounded'
  <2>1. Inserting' \subseteq Tabs \ {t}
    BY <1>3, TurnedMoves, MovedOn DEF ActivateResume
  <2>2. IsFiniteSet(Tabs \ {t}) /\ Cardinality(Tabs \ {t}) = Cardinality(Tabs) - 1
    BY CandidateResumesAssumption, FS_RemoveElement
  <2>3. Cardinality(Inserting') <= Cardinality(Tabs) - 1
    BY <2>1, <2>2, FS_Subset
  <2>4. Cardinality(active') = 1
    BY <1>3, FS_Singleton DEF ActivateResume
  <2>. QED
    BY <2>3, <2>4 DEF DefaultsBounded
<1>4. ASSUME NEW t \in Tabs,
             \/ UploadResume(t) \/ PointAtResume(t) \/ ResolveDefaultResume(t)
             \/ RemoveResume(t) \/ ArchiveResume(t) \/ RestoreResume(t) \/ InsertCopy(t)
             \/ TabCutOff(t)
             \/ \E r \in ResumeIds : \/ SetActiveResume(t, r) \/ DeleteResume(t, r)
                                     \/ SetResumeArchived(t, r) \/ DuplicateResume(t, r)
      PROVE DefaultsBounded'
  <2>1. active' \subseteq active
    BY <1>4 DEF UploadResume, PointAtResume, ResolveDefaultResume, RemoveResume, ArchiveResume,
                RestoreResume, InsertCopy, TabCutOff, SetActiveResume, DeleteResume,
                SetResumeArchived, DuplicateResume
  <2>2. Turned(t) \/ \E step \in TabSteps \ {"insert"} : \E r : Turn(t, step, r)
    BY <1>4
       DEF UploadResume, PointAtResume, ResolveDefaultResume, RemoveResume, ArchiveResume,
           RestoreResume, InsertCopy, TabCutOff, SetActiveResume, DeleteResume,
           SetResumeArchived, DuplicateResume, TabSteps, ResumeIds
  <2>3. Moves(t) /\ tab'[t].at # "insert"
    BY <2>2, TurnMoves, TurnedMoves
  <2>. QED
    BY <2>1, <2>3, MovedOn, NothingActivated
<1>5. CASE UNCHANGED resumeVars
  BY <1>5, NothingActivated DEF resumeVars, Inserting
<1>. QED
  BY <1>1, <1>2, <1>3, <1>4, <1>5 DEF ResumesNext

\* A candidate has no more active resumes than uploads that meet.
THEOREM DefaultsAreBounded == ResumesSpec => []DefaultsBounded
<1>1. ResumesInit => DefaultsInv
  <2>. SUFFICES ASSUME ResumesInit PROVE DefaultsBounded
    BY ResumesTypedAtFirst DEF DefaultsInv
  <2>1. active = {} /\ Inserting = {}
    BY DEF ResumesInit, Inserting, IdleTab
  <2>. QED
    BY <2>1, FS_EmptySet, TabsFinite DEF DefaultsBounded
<1>2. ResumesSpec => []DefaultsInv
  BY <1>1, DefaultsNext, PTL DEF ResumesSpec
<1>. QED
  BY <1>2, PTL DEF DefaultsInv

-----------------------------------------------------------------------------
\* All the resumes: a tab that has counted them and is about to add one
\* counts as a resume.

TotalInv == ResumesTyped /\ ResumesBounded

LiveFinite == IsFiniteSet(LiveResumes) /\ Cardinality(LiveResumes) \in Nat

LEMMA LiveIsFinite == ResumesTyped => LiveFinite
<1>1. ResumesTyped => LiveResumes \subseteq ResumeIds
  BY CandidateResumesAssumption DEF LiveResumes, ResumeIds, ResumesTyped, ResumesTypeOK
<1>. QED
  BY <1>1, ResumesFinite DEF LiveFinite

LEMMA LiveIsFiniteNext == ResumesTyped' => LiveFinite'
  BY LiveIsFinite, PTL

LEMMA AddingFinite ==
    /\ IsFiniteSet(Adding) /\ Cardinality(Adding) \in Nat
    /\ Cardinality(Adding) <= Cardinality(Tabs) /\ Cardinality(Tabs) \in Nat
<1>1. Adding \subseteq Tabs
  BY DEF Adding
<1>. QED
  BY <1>1, TabsFinite

\* A step that neither adds a resume nor brings a tab nearer to adding one.
LEMMA NothingAdded ==
    ASSUME TotalInv, ResumesTyped', LiveResumes' \subseteq LiveResumes, Adding' \subseteq Adding
    PROVE  ResumesBounded'
<1>1. LiveFinite /\ LiveFinite'
  BY LiveIsFinite, LiveIsFiniteNext DEF TotalInv
<1>2. Cardinality(LiveResumes') <= Cardinality(LiveResumes)
  BY <1>1, FS_Subset DEF LiveFinite
<1>3. Cardinality(Adding') <= Cardinality(Adding) /\ Cardinality(Adding') \in Nat
  BY AddingFinite, FS_Subset, FS_CardinalityType
<1>. QED
  BY <1>1, <1>2, <1>3, AddingFinite, CandidateResumesAssumption DEF TotalInv, ResumesBounded, LiveFinite

\* A request that found room below the limit may add one.
LEMMA RoomFound ==
    ASSUME ResumesTyped, ResumesTyped', ResumeLimitLeft, LiveResumes' = LiveResumes
    PROVE  ResumesBounded'
<1>1. LiveFinite
  BY LiveIsFinite
<1>2. Adding' \subseteq Tabs
  BY DEF Adding
<1>3. Cardinality(Adding') \in Nat /\ Cardinality(Adding') <= Cardinality(Tabs) /\ Cardinality(Tabs) \in Nat
  BY <1>2, TabsFinite
<1>. QED
  BY <1>1, <1>3, CandidateResumesAssumption DEF ResumesBounded, ResumeLimitLeft, LiveFinite

\* The insertion of a resume: the tab that adds it is then adding none.
LEMMA ResumeAdded ==
    ASSUME TotalInv, ResumesTyped', NEW t \in Adding, LiveResumes' \subseteq LiveResumes \cup {NewResume},
           Adding' \subseteq Adding \ {t}
    PROVE  ResumesBounded'
<1>1. LiveFinite /\ LiveFinite'
  BY LiveIsFinite, LiveIsFiniteNext DEF TotalInv
<1>2. IsFiniteSet(Adding \ {t}) /\ Cardinality(Adding \ {t}) = Cardinality(Adding) - 1
  BY AddingFinite, FS_RemoveElement
<1>3. Cardinality(Adding') <= Cardinality(Adding) - 1
  BY <1>2, FS_Subset
<1>4. Cardinality(Adding') \in Nat
  BY <1>2, FS_Subset, FS_CardinalityType
<1>5. /\ IsFiniteSet(LiveResumes \cup {NewResume})
      /\ Cardinality(LiveResumes \cup {NewResume}) =
           IF NewResume \in LiveResumes THEN Cardinality(LiveResumes) ELSE Cardinality(LiveResumes) + 1
  BY <1>1, FS_AddElement, Zenon DEF LiveFinite
<1>6. Cardinality(LiveResumes') <= Cardinality(LiveResumes \cup {NewResume})
  BY <1>5, FS_Subset
<1>7. Cardinality(LiveResumes') <= Cardinality(LiveResumes) + 1
  BY <1>1, <1>5, <1>6 DEF LiveFinite
<1>. QED
  BY <1>1, <1>3, <1>4, <1>7, AddingFinite, CandidateResumesAssumption DEF TotalInv, ResumesBounded, LiveFinite

LEMMA TotalNext == TotalInv /\ [ResumesNext]_resumeVars => TotalInv'
<1>. SUFFICES ASSUME TotalInv, [ResumesNext]_resumeVars PROVE ResumesBounded'
  BY ResumesStepTyped DEF TotalInv
<1>. ResumesTyped /\ ResumesTyped'
  BY ResumesStepTyped DEF TotalInv
<1>1. ASSUME NEW t \in Tabs, UploadResume(t) PROVE ResumesBounded'
  BY <1>1, RoomFound DEF UploadResume, LiveResumes
<1>2. ASSUME NEW t \in Tabs, NEW r \in ResumeIds, DuplicateResume(t, r) PROVE ResumesBounded'
  BY <1>2, RoomFound DEF DuplicateResume, LiveResumes
<1>3. ASSUME NEW t \in Tabs, InsertResume(t) \/ InsertCopy(t) PROVE ResumesBounded'
  <2>1. t \in Adding
    BY <1>3 DEF InsertResume, InsertCopy, Adding
  <2>2. Moves(t) /\ tab'[t].at \in {"point", "idle"}
    BY <1>3, TurnMoves, TurnedMoves DEF InsertResume, InsertCopy
  <2>3. Adding' \subseteq Adding \ {t}
    BY <2>2 DEF Adding, Moves
  <2>4. LiveResumes' \subseteq LiveResumes \cup {NewResume}
    <3>1. uploads \in Nat /\ uploads' = uploads + 1 /\ removed' = removed
      BY <1>3, CandidateResumesAssumption DEF InsertResume, InsertCopy, NewResume, ResumesTyped, ResumesTypeOK
    <3>. QED
      BY <3>1 DEF LiveResumes, NewResume
  <2>. QED
    BY <2>1, <2>3, <2>4, ResumeAdded
<1>4. ASSUME NEW t \in Tabs,
             \/ DeactivateResumes(t) \/ PointAtResume(t) \/ ResolveDefaultResume(t)
             \/ ActivateResume(t) \/ RemoveResume(t) \/ ArchiveResume(t) \/ RestoreResume(t)
             \/ TabCutOff(t)
             \/ \E r \in ResumeIds : \/ SetActiveResume(t, r) \/ DeleteResume(t, r)
                                     \/ SetResumeArchived(t, r)
      PROVE ResumesBounded'
  <2>1. LiveResumes' \subseteq LiveResumes
    BY <1>4 DEF DeactivateResumes, PointAtResume, ResolveDefaultResume, ActivateResume, RemoveResume,
                ArchiveResume, RestoreResume, TabCutOff, SetActiveResume, DeleteResume,
                SetResumeArchived, LiveResumes
  <2>2. \/ Turned(t)
        \/ tab[t].at = "deactivate" /\ Turn(t, "insert", 0)
        \/ \E step \in {"activate", "delete", "archive", "restore"} : \E r : Turn(t, step, r)
    BY <1>4 DEF DeactivateResumes, PointAtResume, ResolveDefaultResume, ActivateResume, RemoveResume,
                ArchiveResume, RestoreResume, TabCutOff, SetActiveResume, DeleteResume,
                SetResumeArchived
  <2>3. Adding' \subseteq Adding
    BY <2>2, TurnMoves, TurnedMoves DEF Adding, Moves
  <2>. QED
    BY <2>1, <2>3, NothingAdded
<1>5. CASE UNCHANGED resumeVars
  BY <1>5, NothingAdded DEF resumeVars, Adding, LiveResumes
<1>. QED
  BY <1>1, <1>2, <1>3, <1>4, <1>5 DEF ResumesNext

\* The resumes that are not deleted exceed the limit by no more than the
\* requests that run at once, less one.
THEOREM ResumesAreBounded == ResumesSpec => []ResumesBounded
<1>1. ResumesInit => TotalInv
  <2>. SUFFICES ASSUME ResumesInit PROVE ResumesBounded
    BY ResumesTypedAtFirst DEF TotalInv
  <2>1. LiveResumes = {} /\ Adding = {}
    BY DEF ResumesInit, LiveResumes, Adding, IdleTab
  <2>. QED
    BY <2>1, FS_EmptySet, AddingFinite, CandidateResumesAssumption DEF ResumesBounded
<1>2. ResumesSpec => []TotalInv
  BY <1>1, TotalNext, PTL DEF ResumesSpec
<1>. QED
  BY <1>2, PTL DEF TotalInv

-----------------------------------------------------------------------------
\* Skills.  A request that is to read has found the name free in the list it
\* holds, and rows and requests are there for every session.

Shaped ==
    /\ rows = [e \in Editors |-> [s \in Sections |-> rows[e][s]]]
    /\ committed \subseteq Editors
    /\ editing = [e \in Editors |-> editing[e]]

NameLookedFor ==
    \A e \in Editors : editing[e].at = "read" =>
      /\ editing[e].kind \in {"add", "rename"} /\ editing[e].section = "skills"
      /\ Named(editing[e].list, editing[e].entry.name)
           \subseteq {y \in Entry : y.id = editing[e].entry.id}

LookedFor == Shaped /\ NameLookedFor

LEMMA LookedForAtFirst == SectionsInit => LookedFor
  BY DEF SectionsInit, LookedFor, Shaped, NameLookedFor, NoEdit, EmptyRow

\* A request that changes a list has done with looking for a name.
LEMMA ChangeListLookedFor ==
    ASSUME LookedFor, NEW e \in Editors, NEW kind, NEW s, NEW list, NEW x,
           ChangeList(e, kind, s, list, x), UNCHANGED <<rows, committed>>
    PROVE  LookedFor'
  BY DEF LookedFor, Shaped, NameLookedFor, ChangeList, NoEdit

\* A written list leaves the rows their shape, whatever row it is for.
LEMMA WrittenShaped ==
    ASSUME Shaped, NEW r, NEW s, NEW list, rows' = [rows EXCEPT ![r][s] = list]
    PROVE  rows' = [e \in Editors |-> [t \in Sections |-> rows'[e][t]]]
<1>1. rows' = [e \in Editors |-> IF e = r THEN [rows[r] EXCEPT ![s] = list] ELSE rows[e]]
  BY DEF Shaped
<1>2. ASSUME NEW e \in Editors PROVE rows'[e] = [t \in Sections |-> rows'[e][t]]
  <2>1. rows[e] = [t \in Sections |-> rows[e][t]]
    BY DEF Shaped
  <2>2. CASE e = r
    <3>1. rows'[e] = [t \in Sections |-> IF t = s THEN list ELSE rows[e][t]]
      BY <1>1, <2>1, <2>2
    <3>. QED
      BY <3>1
  <2>3. CASE e # r
    BY <1>1, <2>1, <2>3
  <2>. QED
    BY <2>2, <2>3
<1>3. rows' = [e \in Editors |-> rows'[e]]
  BY <1>1
<1>. QED
  BY <1>2, <1>3

\* One that looks for a name holds the list in which it is free.
LEMMA CheckNameLookedFor ==
    ASSUME LookedFor, NEW e \in Editors, NEW kind \in {"add", "rename"}, NEW x,
           CheckName(e, kind, x)
    PROVE  LookedFor'
  BY DEF LookedFor, Shaped, NameLookedFor, CheckName, NameFree, NoEdit

LEMMA LookedForKept == LookedFor /\ [SectionsNext]_sectionVars => LookedFor'
<1>. SUFFICES ASSUME LookedFor, [SectionsNext]_sectionVars PROVE LookedFor'
  OBVIOUS
<1>1. ASSUME NEW e \in Editors, NEW s, NEW n, AddEntry(e, s, n) PROVE LookedFor'
  BY <1>1, ChangeListLookedFor DEF AddEntry
<1>2. ASSUME NEW e \in Editors, NEW s, NEW id, NEW n, UpdateEntry(e, s, id, n) PROVE LookedFor'
  BY <1>2, ChangeListLookedFor DEF UpdateEntry
<1>3. ASSUME NEW e \in Editors, NEW s, NEW id, UpdateOtherFields(e, s, id) PROVE LookedFor'
  BY <1>3, ChangeListLookedFor DEF UpdateOtherFields
<1>4. ASSUME NEW e \in Editors, NEW s, NEW id, DeleteEntry(e, s, id) PROVE LookedFor'
  BY <1>4, ChangeListLookedFor DEF DeleteEntry
<1>5. ASSUME NEW e \in Editors, NEW n, AddSkill(e, n) PROVE LookedFor'
  BY <1>5, CheckNameLookedFor DEF AddSkill
<1>6. ASSUME NEW e \in Editors, NEW id, NEW n, UpdateSkill(e, id, n) PROVE LookedFor'
  BY <1>6, CheckNameLookedFor DEF UpdateSkill
<1>7. ASSUME NEW e \in Editors, ReadSkills(e) PROVE LookedFor'
  BY <1>7, ChangeListLookedFor DEF ReadSkills
<1>8. ASSUME NEW e \in Editors, NEW list, ReplaceCertifications(e, list) PROVE LookedFor'
  BY <1>8 DEF ReplaceCertifications, LookedFor, Shaped, NameLookedFor, NoEdit
<1>9. ASSUME NEW e \in Editors, CreateRow(e) PROVE LookedFor'
  <2>1. rows' = [f \in Editors |-> [s \in Sections |-> rows'[f][s]]]
    BY <1>9, WrittenShaped DEF CreateRow, LookedFor, Shaped
  <2>2. editing'[e].at # "read"
    <3>1. CASE editing'[e] = NoEdit
      BY <3>1 DEF NoEdit
    <3>2. CASE editing'[e] = [NoEdit EXCEPT !.at = "write", !.section = editing[e].section,
                                            !.list = editing[e].list]
      BY <3>2 DEF NoEdit
    <3>. QED
      BY <1>9, <3>1, <3>2 DEF CreateRow, Answer, LookedFor, Shaped
  <2>3. /\ editing' = [f \in Editors |-> editing'[f]]
        /\ \A f \in Editors \ {e} : editing'[f] = editing[f]
    BY <1>9 DEF CreateRow, Answer, LookedFor, Shaped
  <2>4. committed' \subseteq Editors
    BY <1>9 DEF CreateRow, LookedFor, Shaped
  <2>5. NameLookedFor'
    BY <2>2, <2>3 DEF LookedFor, NameLookedFor
  <2>. QED
    BY <2>1, <2>3, <2>4, <2>5 DEF LookedFor, Shaped
<1>10. ASSUME NEW e \in Editors, WriteSection(e) PROVE LookedFor'
  <2>1. rows' = [f \in Editors |-> [s \in Sections |-> rows'[f][s]]]
    BY <1>10, WrittenShaped DEF WriteSection, LookedFor
  <2>. QED
    BY <1>10, <2>1 DEF WriteSection, Answer, LookedFor, Shaped, NameLookedFor, NoEdit
<1>11. ASSUME NEW e \in Editors, EditCutOff(e) PROVE LookedFor'
  BY <1>11 DEF EditCutOff, Answer, LookedFor, Shaped, NameLookedFor, NoEdit
<1>12. CASE UNCHANGED sectionVars
  BY <1>12 DEF sectionVars, LookedFor, Shaped, NameLookedFor
<1>. QED
  BY <1>1, <1>2, <1>3, <1>4, <1>5, <1>6, <1>7, <1>8, <1>9, <1>10, <1>11, <1>12 DEF SectionsNext

\* The changes a request makes to a list leave names distinct: nothing else
\* has the name of the entry, or that is null.
LEMMA ChangedDistinct ==
    ASSUME NEW list, Distinct(list), NEW x, NEW kind \in {"add", "rename", "touch", "delete"},
           kind \in {"add", "rename"} =>
             \/ x.name \notin Names
             \/ Named(list, x.name) \subseteq {y \in Entry : y.id = x.id}
    PROVE  Distinct(Changed(kind, list, x))
<1>1. CASE kind \in {"add", "rename"}
  BY <1>1 DEF Changed, Distinct, Named
<1>2. CASE kind \in {"touch", "delete"}
  BY <1>2 DEF Changed, Distinct
<1>. QED
  BY <1>1, <1>2

\* The latest row changes only with the rows committed and their order.
LEMMA SameLatest == committed' = committed /\ older' = older => Latest' = Latest
  BY DEF Latest

\* Where there is a row, no request makes one.
LEMMA LatestKept ==
    ASSUME LookedFor, SkillsSettled, committed' = committed, older' = older
    PROVE  Latest # NoEditor /\ Latest' = Latest
  BY SameLatest, ProfileSectionsAssumption DEF LookedFor, Shaped, SkillsSettled

\* A request that changes a list settled, and a list of other names, or of
\* another section, leaves the skills settled.
LEMMA ChangeListSettled ==
    ASSUME LookedFor, SkillsSettled, NEW e \in Editors, NEW kind, NEW s, NEW list, NEW x,
           ChangeList(e, kind, s, list, x), UNCHANGED <<rows, committed>>,
           s = "skills" => Distinct(Changed(kind, list, x))
    PROVE  SkillsSettled'
<1>1. Latest # NoEditor
  BY ProfileSectionsAssumption DEF LookedFor, Shaped, SkillsSettled
<1>2. older' = older
  BY <1>1 DEF ChangeList, MakeRow
<1>3. Latest' = Latest
  BY <1>2, LatestKept
<1>4. SavedList("skills")' = SavedList("skills")
  BY <1>3 DEF SavedList
<1>5. editing' = [editing EXCEPT ![e] =
                    [NoEdit EXCEPT !.at = "write", !.section = s, !.list = Changed(kind, list, x)]]
  BY <1>1 DEF ChangeList
<1>. QED
  BY <1>3, <1>4, <1>5 DEF SkillsSettled, LookedFor, Shaped, NoEdit

\* One that looks for a name holds the skills that are saved.
LEMMA CheckNameSettled ==
    ASSUME LookedFor, SkillsSettled, NEW e \in Editors, NEW kind, NEW x, CheckName(e, kind, x)
    PROVE  SkillsSettled'
<1>1. Latest' = Latest
  BY LatestKept DEF CheckName
<1>2. SavedList("skills")' = SavedList("skills")
  BY <1>1 DEF SavedList, CheckName
<1>. QED
  BY <1>1, <1>2 DEF CheckName, SkillsSettled, LookedFor, Shaped, NoEdit

LEMMA SettledKept == LookedFor /\ SkillsSettled /\ [SectionsNext]_sectionVars => SkillsSettled'
<1>. SUFFICES ASSUME LookedFor, SkillsSettled, [SectionsNext]_sectionVars PROVE SkillsSettled'
  OBVIOUS
<1>. DEFINE saved == SavedList("skills")
<1>0. Distinct(saved)
  BY DEF SkillsSettled
<1>1. ASSUME NEW e \in Editors, NEW s, NEW n, AddEntry(e, s, n) PROVE SkillsSettled'
  BY <1>1, ChangeListSettled DEF AddEntry
<1>2. ASSUME NEW e \in Editors, NEW s, NEW id, NEW n, UpdateEntry(e, s, id, n)
      PROVE  SkillsSettled'
  <2>. DEFINE x == [id |-> id, name |-> n]
  <2>1. s = "skills" => Distinct(Changed("rename", saved, x))
    BY <1>0, <1>2, ChangedDistinct, ProfileSectionsAssumption DEF UpdateEntry
  <2>. QED
    BY <1>2, <2>1, ChangeListSettled DEF UpdateEntry
<1>3. ASSUME NEW e \in Editors, NEW s, NEW id, UpdateOtherFields(e, s, id) PROVE SkillsSettled'
  <2>1. Distinct(Changed("touch", saved, [NoEntry EXCEPT !.id = id]))
    BY <1>0, ChangedDistinct
  <2>. QED
    BY <1>3, <2>1, ChangeListSettled DEF UpdateOtherFields
<1>4. ASSUME NEW e \in Editors, NEW s, NEW id, DeleteEntry(e, s, id) PROVE SkillsSettled'
  <2>1. Distinct(Changed("delete", saved, [NoEntry EXCEPT !.id = id]))
    BY <1>0, ChangedDistinct
  <2>. QED
    BY <1>4, <2>1, ChangeListSettled DEF DeleteEntry
<1>5. ASSUME NEW e \in Editors, NEW n, AddSkill(e, n) PROVE SkillsSettled'
  BY <1>5, CheckNameSettled DEF AddSkill
<1>6. ASSUME NEW e \in Editors, NEW id, NEW n, UpdateSkill(e, id, n) PROVE SkillsSettled'
  BY <1>6, CheckNameSettled DEF UpdateSkill
<1>7. ASSUME NEW e \in Editors, ReadSkills(e) PROVE SkillsSettled'
  <2>. DEFINE ed == editing[e]
  <2>1. ListAsLoaded(ed.row, ed.list) = ed.list
    BY <1>7 DEF ReadSkills, ListAsLoaded, SkillsSettled
  <2>2. Distinct(ed.list)
    BY <1>7 DEF ReadSkills, SkillsSettled, LookedFor, NameLookedFor
  <2>3. Distinct(Changed(ed.kind, ed.list, ed.entry))
    BY <1>7, <2>2, ChangedDistinct DEF ReadSkills, LookedFor, NameLookedFor
  <2>. QED
    BY <1>7, <2>1, <2>3, ChangeListSettled DEF ReadSkills
<1>8. ASSUME NEW e \in Editors, NEW list, ReplaceCertifications(e, list) PROVE SkillsSettled'
  <2>1. Latest # NoEditor
    BY ProfileSectionsAssumption DEF LookedFor, Shaped, SkillsSettled
  <2>2. Latest' = Latest
    BY <1>8, <2>1, LatestKept DEF ReplaceCertifications, MakeRow
  <2>3. SavedList("skills")' = SavedList("skills")
    BY <1>8, <2>2 DEF SavedList, ReplaceCertifications
  <2>. QED
    BY <1>8, <2>1, <2>2, <2>3
       DEF ReplaceCertifications, SkillsSettled, LookedFor, Shaped, NoEdit
<1>9. ASSUME NEW e \in Editors, CreateRow(e) PROVE SkillsSettled'
  BY <1>9 DEF CreateRow, SkillsSettled
<1>10. ASSUME NEW e \in Editors, WriteSection(e) PROVE SkillsSettled'
  <2>1. Latest' = Latest /\ Latest # NoEditor /\ Latest \in Editors
    BY <1>10, LatestKept DEF WriteSection, LookedFor, Shaped, SkillsSettled
  <2>2. \/ SavedList("skills")' = saved
        \/ editing[e].section = "skills" /\ SavedList("skills")' = editing[e].list
    BY <1>10, <2>1, ProfileSectionsAssumption DEF WriteSection, SavedList, LookedFor, Shaped
  <2>3. Distinct(SavedList("skills")')
    BY <1>0, <2>2 DEF SkillsSettled
  <2>. QED
    BY <1>10, <2>1, <2>3
       DEF WriteSection, Answer, SkillsSettled, LookedFor, Shaped, NoEdit, Distinct
<1>11. ASSUME NEW e \in Editors, EditCutOff(e) PROVE SkillsSettled'
  <2>1. older' = older
    BY <1>11 DEF EditCutOff, SkillsSettled
  <2>2. Latest' = Latest
    BY <1>11, <2>1, LatestKept DEF EditCutOff
  <2>3. SavedList("skills")' = SavedList("skills")
    BY <1>11, <2>2 DEF SavedList, EditCutOff
  <2>. QED
    BY <1>11, <2>2, <2>3
       DEF EditCutOff, Answer, SkillsSettled, LookedFor, Shaped, NoEdit, Distinct
<1>12. CASE UNCHANGED sectionVars
  BY <1>12 DEF sectionVars, SkillsSettled, SavedList, Latest
<1>. QED
  BY <1>1, <1>2, <1>3, <1>4, <1>5, <1>6, <1>7, <1>8, <1>9, <1>10, <1>11, <1>12 DEF SectionsNext

\* Skills that have distinct names keep them, once the row of the sections is
\* there and nobody is left who looked for a name before it was.
THEOREM DistinctSkillsStay == SectionsSpec => SkillsStayDistinct
<1>1. LookedFor /\ [SectionsNext]_sectionVars => [SkillsSettled => SkillsSettled']_sectionVars
  BY SettledKept
<1>. QED
  BY <1>1, LookedForAtFirst, LookedForKept, PTL DEF SectionsSpec, SkillsStayDistinct

-----------------------------------------------------------------------------
\* Type correctness of the sections needs the row that is selected to be one:
\* of the rows that are made, committed or not yet, one is before the other,
\* so that there is a latest one of those that are committed.

RowMakers == {e \in Editors : editing[e].at = "create"}
Makers == committed \cup RowMakers

Ordered ==
    /\ committed \cap RowMakers = {}
    /\ \A e \in Editors : older[e] \subseteq IF e \in Makers THEN Makers \ {e} ELSE {}
    /\ \A e, f \in Makers : e = f \/ f \in older[e] \/ e \in older[f]
    /\ \A e, f \in Makers : f \in older[e] => older[f] \subseteq older[e]

LatestThere == committed # {} => \E e \in committed : committed \ {e} \subseteq older[e]

SectionsTyped == SectionsTypeOK /\ Ordered /\ LatestThere

LEMMA NoEditTyped == NoEntry \in Entry /\ NoEdit \in ListEdits /\ NoEdit.at = "idle"
<1>1. 0 \in 0..LastEntry
  BY ProfileSectionsAssumption
<1>2. NoEntry \in Entry
  BY <1>1 DEF NoEntry, Entry
<1>3. "skills" \in Sections /\ {} \in SUBSET Entry
  BY ProfileSectionsAssumption
<1>. QED
  BY <1>2, <1>3 DEF NoEdit, ListEdits

LEMMA LatestTyped ==
    ASSUME SectionsTyped
    PROVE  /\ Latest \in Editors \cup {NoEditor}
           /\ Latest = NoEditor => committed = {}
           /\ committed # {} => Latest \in committed
  BY ProfileSectionsAssumption DEF SectionsTyped, SectionsTypeOK, LatestThere, Latest

LEMMA SavedTyped ==
    ASSUME SectionsTyped, NEW s \in Sections
    PROVE  SavedList(s) \in SUBSET Entry
<1>1. CASE Latest = NoEditor
  BY <1>1 DEF SavedList
<1>2. CASE Latest # NoEditor
  <2>1. rows[Latest] \in [Sections -> SUBSET Entry]
    BY <1>2, LatestTyped DEF SectionsTyped, SectionsTypeOK
  <2>. QED
    BY <1>2, <2>1 DEF SavedList
<1>. QED
  BY <1>1, <1>2

\* A session that has made no row may make one, and one that has may commit
\* it or be cut off; nothing else moves the rows made.
LEMMA OrderKept ==
    ASSUME SectionsTyped, committed' = committed, older' = older, RowMakers' = RowMakers
    PROVE  Ordered' /\ LatestThere'
<1>1. Makers' = Makers
  BY DEF Makers
<1>. QED
  BY <1>1 DEF SectionsTyped, Ordered, LatestThere

LEMMA RowMade ==
    ASSUME SectionsTyped, NEW e \in Editors, editing[e].at \in {"idle", "read"}, MakeRow(e),
           committed' = committed,
           RowMakers' = RowMakers \cup IF Latest = NoEditor THEN {e} ELSE {}
    PROVE  older' \in [Editors -> SUBSET Editors] /\ Ordered' /\ LatestThere'
<1>1. CASE Latest # NoEditor
  BY <1>1, OrderKept DEF MakeRow, SectionsTyped, SectionsTypeOK
<1>2. CASE Latest = NoEditor
  <2>1. committed = {} /\ committed' = {}
    BY <1>2, LatestTyped
  <2>2. older' = [older EXCEPT ![e] = RowMakers] /\ e \notin RowMakers
    BY <1>2 DEF MakeRow, RowMakers
  <2>3. Makers = RowMakers /\ Makers' = RowMakers \cup {e} /\ RowMakers \subseteq Editors
    BY <1>2, <2>1 DEF Makers, RowMakers
  <2>4. \A f \in Editors : older'[f] = IF f = e THEN RowMakers ELSE older[f]
    BY <2>2 DEF SectionsTyped, SectionsTypeOK
  <2>5. \A f \in Makers : e \notin older[f]
    BY <2>2, <2>3 DEF SectionsTyped, Ordered
  <2>. QED
    BY <2>1, <2>2, <2>3, <2>4, <2>5 DEF SectionsTyped, SectionsTypeOK, Ordered, LatestThere
<1>. QED
  BY <1>1, <1>2

LEMMA RowCommitted ==
    ASSUME SectionsTyped, NEW e \in RowMakers, older' = older,
           committed' = committed \cup {e}, RowMakers' = RowMakers \ {e}
    PROVE  Ordered' /\ LatestThere'
<1>1. Makers' = Makers /\ e \in Editors
  BY DEF Makers, RowMakers
<1>2. LatestThere'
  <2>1. CASE committed = {}
    BY <2>1 DEF LatestThere
  <2>2. CASE committed # {}
    <3>1. PICK n \in committed : committed \ {n} \subseteq older[n]
      BY <2>2 DEF SectionsTyped, LatestThere
    <3>2. n # e /\ n \in Makers /\ e \in Makers
      BY DEF SectionsTyped, Ordered, Makers
    <3>3. e \in older[n] \/ (n \in older[e] /\ older[n] \subseteq older[e])
      BY <3>2 DEF SectionsTyped, Ordered
    <3>. QED
      BY <3>1, <3>2, <3>3 DEF LatestThere
  <2>. QED
    BY <2>1, <2>2
<1>. QED
  BY <1>1, <1>2 DEF SectionsTyped, Ordered

LEMMA RowGivenUp ==
    ASSUME SectionsTyped, NEW e \in RowMakers, committed' = committed, RowMakers' = RowMakers \ {e},
           older' = [f \in Editors |-> IF f = e THEN {} ELSE older[f] \ {e}]
    PROVE  older' \in [Editors -> SUBSET Editors] /\ Ordered' /\ LatestThere'
<1>1. Makers' = Makers \ {e} /\ e \in Editors /\ e \notin committed /\ Makers \subseteq Editors
  BY DEF Makers, RowMakers, SectionsTyped, SectionsTypeOK, Ordered
<1>2. \A f \in Editors : older'[f] = IF f = e THEN {} ELSE older[f] \ {e}
  OBVIOUS
<1>3. older' \in [Editors -> SUBSET Editors]
  BY DEF SectionsTyped, SectionsTypeOK
<1>4. Ordered'
  BY <1>1, <1>2 DEF SectionsTyped, Ordered
<1>5. LatestThere'
  BY <1>1, <1>2 DEF SectionsTyped, SectionsTypeOK, LatestThere
<1>. QED
  BY <1>3, <1>4, <1>5

\* What a request of one session holds next, and whether it makes a row.
LEMMA EditTyped ==
    ASSUME SectionsTyped, NEW e \in Editors, NEW q \in ListEdits, editing' = [editing EXCEPT ![e] = q]
    PROVE  /\ editing' \in [Editors -> ListEdits]
           /\ RowMakers' = (RowMakers \ {e}) \cup IF q.at = "create" THEN {e} ELSE {}
<1>1. editing \in [Editors -> ListEdits]
  BY DEF SectionsTyped, SectionsTypeOK
<1>2. editing'[e] = q /\ \A f \in Editors \ {e} : editing'[f] = editing[f]
  BY <1>1
<1>. QED
  BY <1>1, <1>2 DEF RowMakers

LEMMA ChangedTyped ==
    ASSUME NEW kind \in {"add", "rename", "touch", "delete"}, NEW list \in SUBSET Entry,
           NEW x \in Entry
    PROVE  Changed(kind, list, x) \in SUBSET Entry
  BY DEF Changed

LEMMA ChangeListTyped ==
    ASSUME SectionsTyped, NEW e \in Editors, editing[e].at \in {"idle", "read"},
           NEW kind \in {"add", "rename", "touch", "delete"}, NEW s \in Sections,
           NEW list \in SUBSET Entry, NEW x \in Entry, ChangeList(e, kind, s, list, x),
           UNCHANGED <<rows, committed>>, entries' \in 0..LastEntry
    PROVE  SectionsTyped'
<1>. DEFINE at == IF Latest = NoEditor THEN "create" ELSE "write"
            new == Changed(kind, list, x)
            q == [NoEdit EXCEPT !.at = at, !.section = s, !.list = new]
<1>1. new \in SUBSET Entry /\ at \in {"create", "write"} /\ (at = "create" <=> Latest = NoEditor)
  BY ChangedTyped
<1>2. editing' = [editing EXCEPT ![e] = q]
  BY DEF ChangeList
<1>. HIDE DEF new, at
<1>3. q \in ListEdits /\ q.at = at
  BY <1>1, NoEditTyped DEF ListEdits
<1>. HIDE DEF q
<1>4. e \notin RowMakers
  BY DEF RowMakers
<1>5. /\ editing' \in [Editors -> ListEdits]
      /\ RowMakers' = RowMakers \cup IF Latest = NoEditor THEN {e} ELSE {}
  <2>1. /\ editing' \in [Editors -> ListEdits]
        /\ RowMakers' = (RowMakers \ {e}) \cup IF q.at = "create" THEN {e} ELSE {}
    BY <1>2, <1>3, EditTyped
  <2>2. q.at = "create" <=> Latest = NoEditor
    BY <1>1, <1>3
  <2>. QED
    BY <1>4, <2>1, <2>2
<1>6. older' \in [Editors -> SUBSET Editors] /\ Ordered' /\ LatestThere'
  BY <1>5, RowMade DEF ChangeList
<1>. QED
  BY <1>5, <1>6 DEF SectionsTyped, SectionsTypeOK

LEMMA CheckNameTyped ==
    ASSUME SectionsTyped, NEW e \in Editors, NEW kind \in {"add", "rename"}, NEW x \in Entry,
           CheckName(e, kind, x), entries' \in 0..LastEntry
    PROVE  SectionsTyped'
<1>. DEFINE found == Latest
            saved == SavedList("skills")
            q == [NoEdit EXCEPT !.at = "read", !.kind = kind, !.entry = x,
                                !.row = found, !.list = saved]
<1>1. found \in Editors \cup {NoEditor} /\ saved \in SUBSET Entry
  BY LatestTyped, SavedTyped, ProfileSectionsAssumption
<1>2. editing' = [editing EXCEPT ![e] = q] /\ editing[e].at = "idle"
  BY DEF CheckName
<1>. HIDE DEF found, saved
<1>3. q \in ListEdits /\ q.at = "read"
  BY <1>1, NoEditTyped DEF ListEdits
<1>. HIDE DEF q
<1>4. editing' \in [Editors -> ListEdits] /\ RowMakers' = RowMakers
  BY <1>2, <1>3, EditTyped DEF RowMakers
<1>. QED
  BY <1>4, OrderKept DEF CheckName, SectionsTyped, SectionsTypeOK

\* A list that is written is of entries, whatever row and section it is for.
LEMMA ListWrittenTyped ==
    ASSUME SectionsTyped, NEW r, NEW s, NEW list \in SUBSET Entry,
           rows' = [rows EXCEPT ![r][s] = list]
    PROVE  rows' \in [Editors -> [Sections -> SUBSET Entry]]
<1>1. rows \in [Editors -> [Sections -> SUBSET Entry]]
  BY DEF SectionsTyped, SectionsTypeOK
<1>2. ASSUME NEW e \in Editors PROVE rows'[e] \in [Sections -> SUBSET Entry]
  <2>1. rows[e] \in [Sections -> SUBSET Entry]
    BY <1>1
  <2>2. CASE e = r
    <3>1. rows'[e] = [rows[e] EXCEPT ![s] = list]
      BY <1>1, <2>2
    <3>. QED
      BY <2>1, <3>1
  <2>3. CASE e # r
    BY <1>1, <2>1, <2>3
  <2>. QED
    BY <2>2, <2>3
<1>3. rows' = [e \in Editors |-> rows'[e]]
  BY <1>1
<1>. QED
  BY <1>2, <1>3

LEMMA AnswerTyped ==
    ASSUME SectionsTyped, NEW e \in Editors, Answer(e)
    PROVE  editing' \in [Editors -> ListEdits] /\ RowMakers' = RowMakers \ {e}
  BY NoEditTyped, EditTyped DEF Answer

LEMMA ReplaceTyped ==
    ASSUME SectionsTyped, NEW e \in Editors, NEW list \in Replacements, ReplaceCertifications(e, list)
    PROVE  SectionsTyped'
<1>. DEFINE at == IF Latest = NoEditor THEN "create" ELSE "write"
            found == Latest
            q == [NoEdit EXCEPT !.at = at, !.kind = "replace", !.section = "certifications",
                                !.list = list, !.row = found]
<1>1. /\ found \in Editors \cup {NoEditor} /\ list \in SUBSET Entry
      /\ "certifications" \in Sections
      /\ at \in {"create", "write"} /\ (at = "create" <=> Latest = NoEditor)
  BY LatestTyped, ProfileSectionsAssumption
<1>2. editing' = [editing EXCEPT ![e] = q] /\ editing[e].at = "idle"
  BY DEF ReplaceCertifications
<1>. HIDE DEF found, at
<1>3. q \in ListEdits /\ q.at = at
  BY <1>1, NoEditTyped DEF ListEdits
<1>. HIDE DEF q
<1>4. e \notin RowMakers
  BY <1>2 DEF RowMakers
<1>5. /\ editing' \in [Editors -> ListEdits]
      /\ RowMakers' = RowMakers \cup IF Latest = NoEditor THEN {e} ELSE {}
  BY <1>1, <1>2, <1>3, <1>4, EditTyped
<1>6. older' \in [Editors -> SUBSET Editors] /\ Ordered' /\ LatestThere'
  BY <1>2, <1>5, RowMade DEF ReplaceCertifications
<1>. QED
  BY <1>5, <1>6 DEF ReplaceCertifications, SectionsTyped, SectionsTypeOK

LEMMA CreateRowTyped ==
    ASSUME SectionsTyped, NEW e \in Editors, CreateRow(e)
    PROVE  SectionsTyped'
<1>. DEFINE ed == editing[e]
            q == [NoEdit EXCEPT !.at = "write", !.section = ed.section, !.list = ed.list]
<1>1. e \in RowMakers /\ committed' = committed \cup {e} /\ UNCHANGED <<older, entries>>
  BY DEF CreateRow, RowMakers
<1>2. ed \in ListEdits
  BY DEF SectionsTyped, SectionsTypeOK
<1>3. /\ rows' \in [Editors -> [Sections -> SUBSET Entry]]
      /\ editing' \in [Editors -> ListEdits] /\ RowMakers' = RowMakers \ {e}
  <2>1. CASE ed.kind = "replace"
    <3>1. ed.list \in SUBSET Entry
      BY <1>2 DEF ListEdits
    <3>2. rows' = [rows EXCEPT ![e]["certifications"] = ed.list] /\ Answer(e)
      BY <2>1 DEF CreateRow
    <3>. QED
      BY <3>1, <3>2, ListWrittenTyped, AnswerTyped
  <2>2. CASE ed.kind # "replace"
    <3>1. rows' = rows /\ editing' = [editing EXCEPT ![e] = q]
      BY <2>2 DEF CreateRow
    <3>. HIDE DEF ed
    <3>2. q \in ListEdits /\ q.at = "write"
      BY <1>2, NoEditTyped DEF ListEdits
    <3>. HIDE DEF q
    <3>. QED
      BY <3>1, <3>2, EditTyped DEF SectionsTyped, SectionsTypeOK
  <2>. QED
    BY <2>1, <2>2
<1>4. Ordered' /\ LatestThere'
  BY <1>1, <1>3, RowCommitted
<1>. QED
  BY <1>1, <1>3, <1>4 DEF SectionsTyped, SectionsTypeOK

LEMMA SectionsStepTyped == LookedFor /\ SectionsTyped /\ [SectionsNext]_sectionVars => SectionsTyped'
<1>. SUFFICES ASSUME LookedFor, SectionsTyped, [SectionsNext]_sectionVars PROVE SectionsTyped'
  OBVIOUS
<1>0. /\ editing \in [Editors -> ListEdits] /\ "skills" \in Sections /\ entries \in 0..LastEntry
      /\ LastEntry \in Nat /\ NoEntry \in Entry
  BY NoEditTyped, ProfileSectionsAssumption DEF SectionsTyped, SectionsTypeOK
<1>1. ASSUME NEW e \in Editors, NEW s \in Sections, NEW n \in Names, AddEntry(e, s, n)
      PROVE  SectionsTyped'
  <2>1. entries' = entries + 1 /\ entries' \in 0..LastEntry
    BY <1>0, <1>1 DEF AddEntry
  <2>2. [id |-> entries + 1, name |-> n] \in Entry
    BY <2>1 DEF Entry
  <2>. QED
    BY <1>1, <2>1, <2>2, SavedTyped, ChangeListTyped DEF AddEntry
<1>2. ASSUME NEW e \in Editors, NEW s \in Sections, NEW id \in 1..entries,
             NEW n \in Names \cup {NoName}, UpdateEntry(e, s, id, n)
      PROVE  SectionsTyped'
  <2>1. [id |-> id, name |-> n] \in Entry
    BY <1>0 DEF Entry
  <2>. QED
    BY <1>0, <1>2, <2>1, SavedTyped, ChangeListTyped DEF UpdateEntry
<1>3. ASSUME NEW id \in 1..entries PROVE [NoEntry EXCEPT !.id = id] \in Entry
  BY <1>0 DEF Entry
<1>4. ASSUME NEW e \in Editors, NEW s \in Sections, NEW id \in 1..entries, UpdateOtherFields(e, s, id)
      PROVE  SectionsTyped'
  BY <1>0, <1>3, <1>4, SavedTyped, ChangeListTyped DEF UpdateOtherFields
<1>5. ASSUME NEW e \in Editors, NEW s \in Sections, NEW id \in 1..entries, DeleteEntry(e, s, id)
      PROVE  SectionsTyped'
  BY <1>0, <1>3, <1>5, SavedTyped, ChangeListTyped DEF DeleteEntry
<1>6. ASSUME NEW e \in Editors, NEW n \in Names, AddSkill(e, n) PROVE SectionsTyped'
  <2>1. entries' = entries + 1 /\ entries' \in 0..LastEntry
    BY <1>0, <1>6 DEF AddSkill
  <2>2. [id |-> entries + 1, name |-> n] \in Entry
    BY <2>1 DEF Entry
  <2>. QED
    BY <1>6, <2>1, <2>2, CheckNameTyped DEF AddSkill
<1>7. ASSUME NEW e \in Editors, NEW n \in Names, NEW id \in 1..entries, UpdateSkill(e, id, n)
      PROVE  SectionsTyped'
  <2>1. [id |-> id, name |-> n] \in Entry
    BY <1>0 DEF Entry
  <2>. QED
    BY <1>0, <1>7, <2>1, CheckNameTyped DEF UpdateSkill
<1>8. ASSUME NEW e \in Editors, ReadSkills(e) PROVE SectionsTyped'
  <2>. DEFINE ed == editing[e]
              list == ListAsLoaded(ed.row, ed.list)
  <2>1. ed.list \in SUBSET Entry /\ ed.entry \in Entry
    BY <1>0 DEF ListEdits
  <2>2. list \in SUBSET Entry
    BY <1>0, <2>1, SavedTyped DEF ListAsLoaded
  <2>3. ed.kind \in {"add", "rename"} /\ ed.at = "read"
    BY <1>8 DEF LookedFor, NameLookedFor, ReadSkills
  <2>4. ChangeList(e, ed.kind, "skills", list, ed.entry) /\ UNCHANGED <<rows, committed, entries>>
    BY <1>8 DEF ReadSkills
  <2>. HIDE DEF list
  <2>. QED
    BY <1>0, <2>1, <2>2, <2>3, <2>4, ChangeListTyped
<1>9. ASSUME NEW e \in Editors, NEW list \in Replacements, ReplaceCertifications(e, list)
      PROVE  SectionsTyped'
  BY <1>9, ReplaceTyped
<1>10. ASSUME NEW e \in Editors, CreateRow(e) PROVE SectionsTyped'
  BY <1>10, CreateRowTyped
<1>11. ASSUME NEW e \in Editors, WriteSection(e) PROVE SectionsTyped'
  <2>1. editing[e] \in ListEdits /\ e \notin RowMakers
    BY <1>0, <1>11 DEF WriteSection, RowMakers
  <2>2. editing[e].list \in SUBSET Entry
    BY <2>1 DEF ListEdits
  <2>3. rows' \in [Editors -> [Sections -> SUBSET Entry]]
    BY <1>11, <2>2, ListWrittenTyped DEF WriteSection
  <2>4. editing' \in [Editors -> ListEdits] /\ RowMakers' = RowMakers
    BY <1>11, <2>1, AnswerTyped DEF WriteSection
  <2>. QED
    BY <1>11, <2>3, <2>4, OrderKept DEF WriteSection, SectionsTyped, SectionsTypeOK
<1>12. ASSUME NEW e \in Editors, EditCutOff(e) PROVE SectionsTyped'
  <2>1. editing' \in [Editors -> ListEdits] /\ RowMakers' = RowMakers \ {e}
    BY <1>12, AnswerTyped DEF EditCutOff
  <2>2. older' \in [Editors -> SUBSET Editors] /\ Ordered' /\ LatestThere'
    <3>1. CASE e \in RowMakers
      BY <1>12, <2>1, <3>1, RowGivenUp DEF EditCutOff, RowMakers
    <3>2. CASE e \notin RowMakers
      BY <1>12, <2>1, <3>2, OrderKept DEF EditCutOff, RowMakers, SectionsTyped, SectionsTypeOK
    <3>. QED
      BY <3>1, <3>2
  <2>. QED
    BY <1>12, <2>1, <2>2 DEF EditCutOff, SectionsTyped, SectionsTypeOK
<1>13. CASE UNCHANGED sectionVars
  BY <1>13, OrderKept DEF sectionVars, SectionsTyped, SectionsTypeOK, RowMakers
<1>. QED
  BY <1>1, <1>2, <1>4, <1>5, <1>6, <1>7, <1>8, <1>9, <1>10, <1>11, <1>12, <1>13 DEF SectionsNext

LEMMA SectionsTypedAtFirst == SectionsInit => SectionsTyped
<1>. SUFFICES ASSUME SectionsInit PROVE SectionsTyped
  OBVIOUS
<1>1. RowMakers = {} /\ committed = {} /\ Makers = {}
  BY NoEditTyped DEF SectionsInit, RowMakers, Makers
<1>2. EmptyRow \in [Sections -> SUBSET Entry] /\ 0 \in 0..LastEntry
  BY ProfileSectionsAssumption DEF EmptyRow
<1>. QED
  BY <1>1, <1>2, NoEditTyped DEF SectionsInit, SectionsTyped, SectionsTypeOK, Ordered, LatestThere

\* Every reachable state of a profile's sections has its type: the row that a
\* request finds is one that was made, whoever made rows together.
THEOREM SectionsTypeCorrect == SectionsSpec => []SectionsTypeOK
<1>1. SectionsInit => LookedFor /\ SectionsTyped
  BY LookedForAtFirst, SectionsTypedAtFirst
<1>2. LookedFor /\ SectionsTyped /\ [SectionsNext]_sectionVars => (LookedFor /\ SectionsTyped)'
  BY LookedForKept, SectionsStepTyped
<1>3. SectionsTyped => SectionsTypeOK
  BY DEF SectionsTyped
<1>. QED
  BY <1>1, <1>2, <1>3, PTL DEF SectionsSpec

-----------------------------------------------------------------------------
\* The parts of the portal side by side.

\* A step of the portal is a step of the part that moves and leaves the
\* others' variables alone.
LEMMA PortalStep ==
    ASSUME [Next]_portalVars
    PROVE  /\ [InvitationsNext]_invitationVars
           /\ [JobPostingNext]_jobPostingVars
           /\ [DigestNext]_digestVars
           /\ [ResumesNext]_resumeVars
           /\ [SectionsNext]_sectionVars
           /\ [RateNext]_rateVars
           /\ [AIGenerationNext]_aiVars
<1>1. CASE Next
  <2>1. SendersMeet \/ ReadersMeet => InvitationsNext
    BY DEF SendersMeet, ReadersMeet, InvitationsNext
  <2>. QED
    BY <1>1, <2>1 DEF Next
<1>2. CASE UNCHANGED portalVars
  BY <1>2 DEF portalVars
<1>. QED
  BY <1>1, <1>2

\* Each part of the portal behaves as its own specification says, whichever
\* part moves: what is proved of a part's specification holds of the portal.
THEOREM PartsAreTheirOwn ==
    Spec => /\ InvitationsSpec /\ JobPostingSpec /\ DigestSpec /\ ResumesSpec
            /\ SectionsSpec /\ RateSpec /\ AIGenerationSpec
<1>1. Init => /\ InvitationsInit /\ JobPostingInit /\ DigestInit /\ ResumesInit
              /\ SectionsInit /\ RateInit /\ AIGenerationInit
  BY DEF Init
<1>. QED
  BY <1>1, PortalStep, PTL
     DEF Spec, InvitationsSpec, JobPostingSpec, DigestSpec, ResumesSpec, SectionsSpec,
         RateSpec, AIGenerationSpec

\* Every reachable state of the part that moves has the type that the part's
\* module gives it, whatever is interleaved in it.
THEOREM PortalTypeCorrect == Spec => []PortalTypeOK
<1>1. Spec => [](part \in Parts)
  <2>1. Init => part \in Parts
    BY DEF Init
  <2>2. part \in Parts /\ [Next]_portalVars => (part \in Parts)'
    <3>1. Next => part' = part
      BY Zenon DEF Next
    <3>2. UNCHANGED portalVars => part' = part
      BY DEF portalVars
    <3>. QED
      BY <3>1, <3>2 DEF Parts
  <2>. QED
    BY <2>1, <2>2, PTL DEF Spec
<1>2. ASSUME part \in Parts,
             InvitationsTypeOK, JobPostingTypeOK, DigestTypeOK, ResumesTypeOK, SectionsTypeOK,
             RateTypeOK, AIGenerationTypeOK
      PROVE  PortalTypeOK
  BY <1>2 DEF PortalTypeOK, Parts
<1>. QED
  BY <1>1, <1>2, PartsAreTheirOwn, InvitationsTypeCorrect, PostingTypeCorrect, DigestsTypeCorrect,
     ResumesTypeCorrect, SectionsTypeCorrect, RateTypeCorrect, AIGenerationTypeCorrect, PTL

=============================================================================
