--------------------------- MODULE ProfileSections ---------------------------
(***************************************************************************)
(* The sections of one candidate's profile (skills, education, experience, *)
(* certifications, projects, languages): app/service/candidate_service.py  *)
(* over CandidateProfileRepo.  A section is a JSON list in a row of        *)
(* candidate_resume_details: a request reads the list, changes it and      *)
(* writes the whole of it back to the row that is the latest by then.  The *)
(* row is made by a request that finds none: requests that race make one   *)
(* each.  A session keeps a row as it first loaded it, whatever it selects *)
(* later, and its own writes.  Left out are the fields of an entry beside  *)
(* its name, and the completion percentage that a request computes at its  *)
(* end: nothing here reads them.                                           *)
(***************************************************************************)
EXTENDS Integers

CONSTANTS
    Editors,       \* sessions of the candidate; each makes one row at most,
                   \* which bears its name
    Sections,      \* the sections, "skills" and "certifications" among them
    Names,         \* names of entries, without their case
    Replacements,  \* the lists that may replace the certifications
    LastEntry,     \* bound: the entries are 1..LastEntry
    NoName, NoEditor

Entry == [id : 0..LastEntry, name : Names \cup {NoName}]
NoEntry == [id |-> 0, name |-> NoName]

ASSUME ProfileSectionsAssumption ==
    /\ NoEditor \notin Editors
    /\ {"skills", "certifications"} \subseteq Sections
    /\ LastEntry \in Nat
    /\ NoName \notin Names
    /\ Replacements \subseteq SUBSET {x \in Entry : x.id = 0}

VARIABLES
    rows,       \* the rows by the session that made each: a list by section
    committed,  \* those that are committed
    older,      \* of each row made, those whose generated_at is before its own
    editing,    \* of each session, the request it serves and its next step
    entries     \* the number of entries there ever were

sectionVars == <<rows, committed, older, editing, entries>>

EmptyRow == [s \in Sections |-> {}]

\* A request at "read" has looked for a name in the list of the row; one that
\* is to write holds the new list, and a replacement the row it is for.
NoEdit == [at |-> "idle", kind |-> "add", section |-> "skills", entry |-> NoEntry,
           row |-> NoEditor, list |-> {}]

ListEdits ==
    [at : {"idle", "read", "create", "write"},
     kind : {"add", "rename", "touch", "delete", "replace"}, section : Sections,
     entry : Entry, row : Editors \cup {NoEditor}, list : SUBSET Entry]

SectionsTypeOK ==
    /\ rows \in [Editors -> [Sections -> SUBSET Entry]]
    /\ committed \subseteq Editors
    /\ older \in [Editors -> SUBSET Editors]
    /\ editing \in [Editors -> ListEdits]
    /\ entries \in 0..LastEntry

SectionsInit ==
    /\ rows = [e \in Editors |-> EmptyRow] /\ committed = {}
    /\ older = [e \in Editors |-> {}]
    /\ editing = [e \in Editors |-> NoEdit]
    /\ entries = 0

-----------------------------------------------------------------------------
\* get_latest_resume_detail: the latest of the rows that are committed.
Latest ==
    IF committed = {} THEN NoEditor
    ELSE CHOOSE e \in committed : \A f \in committed : f = e \/ f \in older[e]

SavedList(s) == IF Latest = NoEditor THEN {} ELSE rows[Latest][s]

Ids(list) == {x.id : x \in list}
Named(list, n) == {x \in list : x.name = n}

Changed(kind, list, x) ==
    LET others == {y \in list : y.id # x.id} IN
    CASE kind \in {"add", "rename"} -> others \cup {x}
      [] kind = "touch" -> list
      [] kind = "delete" -> others

\* A session that finds no row makes one: those made before it are not
\* committed yet.
MakeRow(e) ==
    older' = IF Latest # NoEditor THEN older
             ELSE [older EXCEPT ![e] = {f \in Editors : editing[f].at = "create"}]

\* The list read is changed and is to be written.  A row is made, with the
\* time it bears, for an entry to add where there is none; there is no
\* other entry to change (404).
ChangeList(e, kind, s, list, x) ==
    /\ kind = "add" \/ x.id \in Ids(list)
    /\ editing' = [editing EXCEPT ![e] =
                     [NoEdit EXCEPT !.at = IF Latest = NoEditor THEN "create" ELSE "write",
                                    !.section = s, !.list = Changed(kind, list, x)]]
    /\ MakeRow(e)

-----------------------------------------------------------------------------
\* Additions to the other sections than skills, updates that do not send a
\* skill's name or send null, and deletions look for nothing before they read.
AddEntry(e, s, n) ==
    /\ editing[e].at = "idle"
    /\ s # "skills" /\ entries < LastEntry
    /\ ChangeList(e, "add", s, SavedList(s), [id |-> entries + 1, name |-> n])
    /\ entries' = entries + 1
    /\ UNCHANGED <<rows, committed>>

UpdateEntry(e, s, id, n) ==
    /\ editing[e].at = "idle"
    /\ s = "skills" => n = NoName
    /\ ChangeList(e, "rename", s, SavedList(s), [id |-> id, name |-> n])
    /\ UNCHANGED <<rows, committed, entries>>

UpdateOtherFields(e, s, id) ==
    /\ editing[e].at = "idle"
    /\ ChangeList(e, "touch", s, SavedList(s), [NoEntry EXCEPT !.id = id])
    /\ UNCHANGED <<rows, committed, entries>>

DeleteEntry(e, s, id) ==
    /\ editing[e].at = "idle"
    /\ ChangeList(e, "delete", s, SavedList(s), [NoEntry EXCEPT !.id = id])
    /\ UNCHANGED <<rows, committed, entries>>

\* The name of a skill is looked for first, in the list of the row as it is.
NameFree(x) == Named(SavedList("skills"), x.name) \subseteq {y \in Entry : y.id = x.id}

CheckName(e, kind, x) ==
    /\ editing[e].at = "idle"
    /\ NameFree(x)
    /\ editing' = [editing EXCEPT ![e] =
                     [NoEdit EXCEPT !.at = "read", !.kind = kind, !.entry = x,
                                    !.row = Latest, !.list = SavedList("skills")]]
    /\ UNCHANGED <<rows, committed, older>>

AddSkill(e, n) ==
    /\ entries < LastEntry
    /\ CheckName(e, "add", [id |-> entries + 1, name |-> n])
    /\ entries' = entries + 1

UpdateSkill(e, id, n) ==
    /\ CheckName(e, "rename", [id |-> id, name |-> n])
    /\ UNCHANGED entries

\* The row is selected again, but a session keeps a row as it first loaded it.
ListReloaded(row, list) == SavedList("skills")  \* mutant: it is refreshed
ListAsLoaded(row, list) == IF Latest = row THEN list ELSE SavedList("skills")

ReadSkills(e) ==
    LET ed == editing[e] IN
    /\ ed.at = "read"
    /\ ChangeList(e, ed.kind, "skills",
                  ListAsLoaded(ed.row, ed.list), ed.entry)
    /\ UNCHANGED <<rows, committed, entries>>

\* update_certifications replaces the list, in the row it finds or in a new one.
ReplaceCertifications(e, list) ==
    /\ editing[e].at = "idle"
    /\ editing' = [editing EXCEPT ![e] =
                     [NoEdit EXCEPT !.at = IF Latest = NoEditor THEN "create" ELSE "write",
                                    !.kind = "replace", !.section = "certifications",
                                    !.list = list, !.row = Latest]]
    /\ MakeRow(e)
    /\ UNCHANGED <<rows, committed, entries>>

-----------------------------------------------------------------------------
Answer(e) == editing' = [editing EXCEPT ![e] = NoEdit]

\* The new row is committed: empty, or with the certifications that replace.
CreateRow(e) ==
    LET ed == editing[e] IN
    /\ ed.at = "create"
    /\ committed' = committed \cup {e}
    /\ \/ /\ ed.kind = "replace"
          /\ rows' = [rows EXCEPT ![e]["certifications"] = ed.list]
          /\ Answer(e)
       \/ /\ ed.kind # "replace"
          /\ UNCHANGED rows
          /\ editing' = [editing EXCEPT ![e] =
                           [NoEdit EXCEPT !.at = "write", !.section = ed.section, !.list = ed.list]]
    /\ UNCHANGED <<older, entries>>

\* _set_json_list selects the latest row once more; a replacement does not.
WriteSection(e) ==
    LET ed == editing[e]
        row == IF ed.kind = "replace" THEN ed.row ELSE Latest IN
    /\ ed.at = "write"
    /\ rows' = [rows EXCEPT ![row][ed.section] = ed.list]
    /\ Answer(e)
    /\ UNCHANGED <<committed, older, entries>>

\* The entry is not in the list (404), or the request ends between two
\* statements; a row that is not committed is gone.
EditCutOff(e) ==
    /\ editing[e].at # "idle"
    /\ older' = IF editing[e].at # "create" THEN older
                ELSE [f \in Editors |-> IF f = e THEN {} ELSE older[f] \ {e}]
    /\ Answer(e)
    /\ UNCHANGED <<rows, committed, entries>>

SectionsNext ==
    \E e \in Editors :
      \/ \E s \in Sections :
           \/ \E n \in Names : AddEntry(e, s, n)
           \/ \E id \in 1..entries :
                \/ \E n \in Names \cup {NoName} : UpdateEntry(e, s, id, n)
                \/ UpdateOtherFields(e, s, id) \/ DeleteEntry(e, s, id)
      \/ \E n \in Names : AddSkill(e, n) \/ \E id \in 1..entries : UpdateSkill(e, id, n)
      \/ ReadSkills(e)
      \/ \E list \in Replacements : ReplaceCertifications(e, list)
      \/ CreateRow(e) \/ WriteSection(e) \/ EditCutOff(e)

SectionsSpec == SectionsInit /\ [][SectionsNext]_sectionVars

-----------------------------------------------------------------------------
Distinct(list) == \A x, y \in list : x.name = y.name /\ x.name \in Names => x = y

\* There is a row, and no request that has yet to commit one or that looked
\* for a name in another; the skills it holds, and those that a request has
\* read or is to write, have a name each.
SkillsSettled ==
    /\ Latest \in committed
    /\ Distinct(SavedList("skills"))
    /\ \A e \in Editors :
         /\ editing[e].at # "create"
         /\ editing[e].at = "read" => editing[e].row = Latest
         /\ editing[e].section = "skills" => Distinct(editing[e].list)

\* From then on no two skills ever have the same name, though additions and
\* updates that race find a name free together: each writes the whole list in
\* which it looked, as it first loaded it, so that the later one undoes the
\* earlier.  (Until then both names stay: see ReadSkills.)
SkillsStayDistinct == [][SkillsSettled => SkillsSettled']_sectionVars

=============================================================================
