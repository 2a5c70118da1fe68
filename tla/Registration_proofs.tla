-------------------------- MODULE Registration_proofs --------------------------
(***************************************************************************)
(* Type correctness of Registration; that an account with parts missing    *)
(* has one session at work on it or was broken off; that company numbers   *)
(* never pass the number of companies; and that the codes an address and a *)
(* number have are bounded by the sessions.  For any number of persons,    *)
(* sessions and codes.                                                     *)
(***************************************************************************)
EXTENDS Registration, FiniteSetTheorems, TLAPS

-----------------------------------------------------------------------------
\* Type correctness: a session at work has a person, and the code or the
\* row it is about to mark.

Referring ==
    \A v \in Visitors :
        /\ stage[v] # "idle" => form[v].person \in Persons
        /\ stage[v] = "markCode" => form[v].code \in EmailCodes
        /\ stage[v] = "markRow" => form[v].row \in Rows

Typed == RegistrationTypeOK /\ Referring

LEMMA NoFormTyped == NoForm \in Form
  BY DEF NoForm, Form

LEMMA InitTyped == RegistrationInit => Typed
<1>. SUFFICES ASSUME RegistrationInit PROVE Typed
  OBVIOUS
<1>1. emailCode \in [Persons -> [EmailCodes -> CodeStates]]
  BY DEF RegistrationInit, EmailsProved, RegistrationIdle, CodeStates
<1>2. mobileRow \in [Persons -> [Rows -> RowStates]]
  BY DEF RegistrationInit, EmailsProved, RegistrationIdle, RowStates
<1>. QED
  BY <1>1, <1>2, NoFormTyped
     DEF RegistrationInit, EmailsProved, RegistrationIdle, Typed, RegistrationTypeOK, Referring, Stages

LEMMA StartFormTyped ==
    ASSUME Typed, NEW v \in Visitors, NEW next \in Stages, NEW f \in Form, StartForm(v, next, f),
           f.person \in Persons,
           next = "markCode" => f.code \in EmailCodes,
           next = "markRow" => f.row \in Rows
    PROVE  Typed'
  BY DEF Typed, RegistrationTypeOK, Referring, StartForm, EnterStage

LEMMA CloseFormTyped ==
    ASSUME Typed, NEW v \in Visitors, CloseForm(v)
    PROVE  stage' \in [Visitors -> Stages] /\ form' \in [Visitors -> Form] /\ Referring'
  BY NoFormTyped DEF Typed, RegistrationTypeOK, Referring, CloseForm, EnterStage, Stages

\* A step that takes a form on as it is.
LEMMA EnterStageTyped ==
    ASSUME Typed, NEW v \in Visitors, NEW next \in Stages, EnterStage(v, next),
           stage[v] # "idle", UNCHANGED form, next \notin {"markCode", "markRow"}
    PROVE  stage' \in [Visitors -> Stages] /\ form' \in [Visitors -> Form] /\ Referring'
  BY DEF Typed, RegistrationTypeOK, Referring, EnterStage

LEMMA AskTyped == ASSUME Typed, NEW v \in Visitors, Ask(v) PROVE Typed'
<1>. PICK p \in Persons :
        \/ SendOtp(v, p)
        \/ \E k \in EmailCodes : VerifyOtp(v, p, k)
        \/ SendMobileOtp(v, p)
        \/ VerifyMobileOtp(v, p)
        \/ \E employer \in BOOLEAN : Register(v, p, employer)
  BY DEF Ask
<1>1. CASE SendOtp(v, p)
  <2>1. [NoForm EXCEPT !.person = p] \in Form /\ [NoForm EXCEPT !.person = p].person = p
    BY DEF NoForm, Form
  <2>. QED
    BY <1>1, <2>1, StartFormTyped DEF SendOtp, Stages
<1>2. ASSUME NEW k \in EmailCodes, VerifyOtp(v, p, k) PROVE Typed'
  <2>1. [NoForm EXCEPT !.person = p, !.code = k] \in Form
    BY DEF NoForm, Form
  <2>2. [NoForm EXCEPT !.person = p, !.code = k].person = p
        /\ [NoForm EXCEPT !.person = p, !.code = k].code = k
    BY DEF NoForm
  <2>. QED
    BY <1>2, <2>1, <2>2, StartFormTyped DEF VerifyOtp, Stages
<1>3. CASE SendMobileOtp(v, p)
  <2>1. DeletedRows(p) \subseteq Rows
    BY DEF DeletedRows, LiveRows
  <2>2. [NoForm EXCEPT !.person = p, !.rows = DeletedRows(p)] \in Form
    BY <2>1 DEF NoForm, Form
  <2>3. [NoForm EXCEPT !.person = p, !.rows = DeletedRows(p)].person = p
    BY DEF NoForm
  <2>. QED
    BY <1>3, <2>2, <2>3, StartFormTyped DEF SendMobileOtp, Stages
<1>4. CASE VerifyMobileOtp(v, p)
  <2>1. PICK r \in Rows : StartForm(v, "markRow", [NoForm EXCEPT !.person = p, !.row = r])
    BY <1>4 DEF VerifyMobileOtp
  <2>2. [NoForm EXCEPT !.person = p, !.row = r] \in Form
    BY DEF NoForm, Form
  <2>3. [NoForm EXCEPT !.person = p, !.row = r].person = p
        /\ [NoForm EXCEPT !.person = p, !.row = r].row = r
    BY DEF NoForm
  <2>. QED
    BY <2>1, <2>2, <2>3, StartFormTyped DEF Stages
<1>5. ASSUME NEW employer \in BOOLEAN, Register(v, p, employer) PROVE Typed'
  <2>1. [NoForm EXCEPT !.person = p, !.employer = employer] \in Form
    BY DEF NoForm, Form
  <2>2. [NoForm EXCEPT !.person = p, !.employer = employer].person = p
    BY DEF NoForm
  <2>. QED
    BY <1>5, <2>1, <2>2, StartFormTyped DEF Register, Stages
<1>. QED
  BY <1>1, <1>2, <1>3, <1>4, <1>5

LEMMA NumberedFinite ==
    /\ Numbered \subseteq Persons /\ IsFiniteSet(Numbered) /\ Cardinality(Numbered) \in Nat
<1>1. Numbered \subseteq Persons
  BY DEF Numbered
<1>. QED
  BY <1>1, RegistrationAssumption, FS_Subset, FS_CardinalityType

LEMMA ServeTyped == ASSUME Typed, NEW v \in Visitors, Serve(v) PROVE Typed'
<1>. DEFINE Held == stage' \in [Visitors -> Stages] /\ form' \in [Visitors -> Form] /\ Referring'
<1>1. CASE InvalidateCodes(v)
  <2>1. form[v].person \in Persons /\ Held
    BY <1>1, EnterStageTyped DEF InvalidateCodes, Stages, Typed, Referring
  <2>2. emailCode' \in [Persons -> [EmailCodes -> CodeStates]]
    <3>1. InvalidatedCodes(emailCode[form[v].person]) \in [EmailCodes -> CodeStates]
      BY <2>1 DEF InvalidatedCodes, Typed, RegistrationTypeOK, CodeStates
    <3>. QED
      BY <1>1, <3>1 DEF InvalidateCodes, Typed, RegistrationTypeOK
  <2>. QED
    BY <1>1, <2>1, <2>2 DEF InvalidateCodes, Typed, RegistrationTypeOK
<1>2. CASE CreateCode(v)
  <2>1. form[v].person \in Persons
    BY <1>2 DEF CreateCode, Typed, Referring
  <2>2. PICK k \in EmailCodes : emailCode' = [emailCode EXCEPT ![form[v].person][k] = "fresh"]
    BY <1>2 DEF CreateCode
  <2>3. emailCode' \in [Persons -> [EmailCodes -> CodeStates]]
    BY <2>1, <2>2 DEF Typed, RegistrationTypeOK, CodeStates
  <2>. QED
    BY <1>2, <2>3, CloseFormTyped DEF CreateCode, Typed, RegistrationTypeOK
<1>3. CASE MarkCode(v)
  <2>1. emailCode' \in [Persons -> [EmailCodes -> CodeStates]]
    BY <1>3 DEF MarkCode, Typed, RegistrationTypeOK, Referring, CodeStates
  <2>2. Held
    BY <1>3, EnterStageTyped DEF MarkCode, Stages
  <2>. QED
    BY <1>3, <2>1, <2>2 DEF MarkCode, Typed, RegistrationTypeOK
<1>4. CASE MarkEmail(v)
  <2>1. account' \in [Persons -> SUBSET Parts]
    BY <1>4 DEF MarkEmail, Typed, RegistrationTypeOK, Parts
  <2>. QED
    BY <1>4, <2>1, CloseFormTyped DEF MarkEmail, Typed, RegistrationTypeOK
<1>5. CASE ReplaceRows(v)
  <2>. DEFINE p == form[v].person
  <2>1. p \in Persons /\ mobileRow[p] \in [Rows -> RowStates]
    BY <1>5 DEF ReplaceRows, Typed, RegistrationTypeOK, Referring
  <2>2. PICK new \in NewRow(p) :
          mobileRow' = [mobileRow EXCEPT ![p] = [r \in Rows |-> CASE r = new -> "usable"
                                                           [] r \in form[v].rows -> "none"
                                                           [] OTHER -> @[r]]]
    BY <1>5 DEF ReplaceRows
  <2>3. mobileRow'[p] \in [Rows -> RowStates]
    BY <2>1, <2>2 DEF Typed, RegistrationTypeOK, RowStates
  <2>4. mobileRow' \in [Persons -> [Rows -> RowStates]]
    BY <2>1, <2>2, <2>3 DEF Typed, RegistrationTypeOK
  <2>. QED
    BY <1>5, <2>4, CloseFormTyped DEF ReplaceRows, Typed, RegistrationTypeOK
<1>6. CASE MarkRow(v)
  <2>1. mobileRow' \in [Persons -> [Rows -> RowStates]]
    BY <1>6 DEF MarkRow, Typed, RegistrationTypeOK, Referring, RowStates
  <2>. QED
    BY <1>6, <2>1, CloseFormTyped DEF MarkRow, Typed, RegistrationTypeOK
<1>7. CASE CreateUser(v)
  <2>1. account' \in [Persons -> SUBSET Parts]
    BY <1>7 DEF CreateUser, Typed, RegistrationTypeOK, Parts
  <2>2. Held
    BY <1>7, EnterStageTyped, CloseFormTyped DEF CreateUser, Stages
  <2>. QED
    BY <1>7, <2>1, <2>2 DEF CreateUser, Typed, RegistrationTypeOK
<1>8. CASE ClearCodes(v)
  <2>1. account' \in [Persons -> SUBSET Parts] /\ emailCode' \in [Persons -> [EmailCodes -> CodeStates]]
    BY <1>8 DEF ClearCodes, Typed, RegistrationTypeOK, Parts, CodeStates
  <2>2. Held
    BY <1>8, EnterStageTyped DEF ClearCodes, Stages
  <2>. QED
    BY <1>8, <2>1, <2>2 DEF ClearCodes, Typed, RegistrationTypeOK
<1>9. CASE AddRole(v)
  <2>1. account' \in [Persons -> SUBSET Parts] /\ mobileRow' \in [Persons -> [Rows -> RowStates]]
    BY <1>9 DEF AddRole, Typed, RegistrationTypeOK, Parts, RowStates
  <2>2. Held
    BY <1>9, EnterStageTyped DEF AddRole, Stages
  <2>. QED
    BY <1>9, <2>1, <2>2 DEF AddRole, Typed, RegistrationTypeOK
<1>10. CASE AssignPlan(v)
  <2>1. account' \in [Persons -> SUBSET Parts]
    BY <1>10 DEF AssignPlan, Typed, RegistrationTypeOK, Parts
  <2>2. Held
    BY <1>10, EnterStageTyped DEF AssignPlan, ProfileStage, Stages
  <2>. QED
    BY <1>10, <2>1, <2>2 DEF AssignPlan, Typed, RegistrationTypeOK
<1>11. CASE AddCandidateProfile(v)
  <2>1. account' \in [Persons -> SUBSET Parts]
    BY <1>11 DEF AddCandidateProfile, Typed, RegistrationTypeOK, Parts
  <2>. QED
    BY <1>11, <2>1, CloseFormTyped DEF AddCandidateProfile, Typed, RegistrationTypeOK
<1>12. CASE CountCompanies(v)
  <2>1. form' \in [Visitors -> Form]
    BY <1>12, NumberedFinite DEF CountCompanies, Typed, RegistrationTypeOK, Form
  <2>2. stage' \in [Visitors -> Stages]
    BY <1>12 DEF CountCompanies, EnterStage, Typed, RegistrationTypeOK, Stages
  <2>3. Referring'
    BY <1>12 DEF CountCompanies, EnterStage, Typed, RegistrationTypeOK, Referring, Form
  <2>. QED
    BY <1>12, <2>1, <2>2, <2>3 DEF CountCompanies, Typed, RegistrationTypeOK
<1>13. CASE AddCompany(v)
  <2>1. form[v].person \in Persons /\ CompanyNumber(form[v].count) \in Nat
    BY <1>13 DEF AddCompany, CompanyNumber, Typed, RegistrationTypeOK, Referring, Form
  <2>2. account' \in [Persons -> SUBSET Parts]
    BY <1>13, <2>1 DEF AddCompany, Typed, RegistrationTypeOK, Parts
  <2>3. company' \in [Persons -> Nat]
    BY <1>13, <2>1 DEF AddCompany, Typed, RegistrationTypeOK
  <2>4. cutOff' \subseteq Persons
    BY <1>13, <2>1 DEF AddCompany, Typed, RegistrationTypeOK
  <2>. QED
    BY <1>13, <2>2, <2>3, <2>4, CloseFormTyped DEF AddCompany, Typed, RegistrationTypeOK
<1>. QED
  BY <1>1, <1>2, <1>3, <1>4, <1>5, <1>6, <1>7, <1>8, <1>9, <1>10, <1>11, <1>12, <1>13 DEF Serve

LEMMA NextTyped == Typed /\ [RegistrationNext]_registrationVars => Typed'
<1>. SUFFICES ASSUME Typed, [RegistrationNext]_registrationVars PROVE Typed'
  OBVIOUS
<1>1. ASSUME NEW v \in Visitors, BreakOff(v) PROVE Typed'
  <2>1. cutOff' \subseteq Persons
    BY <1>1 DEF BreakOff, Typed, RegistrationTypeOK, Referring
  <2>. QED
    BY <1>1, <2>1, CloseFormTyped DEF BreakOff, Typed, RegistrationTypeOK
<1>2. ASSUME NEW p \in Persons, NEW k \in EmailCodes, CodeAges(p, k) PROVE Typed'
  <2>1. Aged(emailCode[p][k]) \in CodeStates
    BY DEF Aged, Typed, RegistrationTypeOK, CodeStates
  <2>2. emailCode' \in [Persons -> [EmailCodes -> CodeStates]]
    BY <1>2, <2>1 DEF CodeAges, Typed, RegistrationTypeOK
  <2>. QED
    BY <1>2, <2>2 DEF CodeAges, Typed, RegistrationTypeOK, Referring
<1>3. ASSUME NEW p \in Persons, NEW r \in Rows, RowExpires(p, r) PROVE Typed'
  BY <1>3 DEF RowExpires, Typed, RegistrationTypeOK, Referring, RowStates
<1>4. CASE UNCHANGED registrationVars
  BY <1>4 DEF registrationVars, Typed, RegistrationTypeOK, Referring
<1>. QED
  BY <1>1, <1>2, <1>3, <1>4, AskTyped, ServeTyped DEF RegistrationNext

\* Every reachable state of the codes, the accounts and the sessions that
\* serve them is well typed.
THEOREM RegistrationTypeCorrect == RegistrationSpec => []RegistrationTypeOK
<1>1. RegistrationSpec => []Typed
  BY InitTyped, NextTyped, PTL DEF RegistrationSpec
<1>. QED
  BY <1>1, PTL DEF Typed

-----------------------------------------------------------------------------
\* The one session at work on an account.  CreateUser admits a session only
\* while there is no account, and an account never goes away, so that no two
\* sessions are past it for one person; what each stage leaves committed
\* tells what is missing when the last one ends.

After(p) == {v \in Visitors : stage[v] \in AfterUser /\ form[v].person = p}

Done(s) ==
    {"user"} \cup (IF s \in {"clearCodes"} THEN {} ELSE {"email"})
             \cup (IF s \in {"clearCodes", "addRole"} THEN {} ELSE {"role"})
             \cup (IF s \in {"clearCodes", "addRole", "assignPlan"} THEN {} ELSE {"plan"})

AccountInv(p) ==
    /\ account[p] \notin {{}, Parts} => p \in cutOff \/ After(p) # {}
    /\ \A v, w \in After(p) : v = w
    /\ \A v \in After(p) : Done(stage[v]) \subseteq account[p] /\ company[p] = 0
    /\ company[p] # 0 => account[p] # {}

WholeInv == Typed /\ \A p \in Persons : AccountInv(p)

\* A step that leaves the person's account, and the sessions at work on it,
\* as they are.
LEMMA AccountAlone ==
    ASSUME NEW p \in Persons, AccountInv(p),
           account'[p] = account[p], company'[p] = company[p], p \in cutOff => p \in cutOff',
           After(p)' = After(p), \A v \in After(p) : stage'[v] = stage[v]
    PROVE  AccountInv(p)'
  BY DEF AccountInv

\* A session that is not past the user's insertion, before or after its step.
LEMMA OutsideAlone ==
    ASSUME Typed, NEW v \in Visitors, stage[v] \notin AfterUser, NEW next, next \notin AfterUser,
           EnterStage(v, next), \A w \in Visitors \ {v} : form'[w] = form[w], NEW p \in Persons
    PROVE  After(p)' = After(p) /\ \A w \in After(p) : stage'[w] = stage[w]
  BY DEF Typed, RegistrationTypeOK, EnterStage, After

\* A session at work on another person's account.
LEMMA OthersAlone ==
    ASSUME Typed, NEW v \in Visitors, NEW next, EnterStage(v, next),
           \A w \in Visitors \ {v} : form'[w] = form[w],
           NEW p \in Persons, form[v].person # p, form'[v].person # p
    PROVE  After(p)' = After(p) /\ \A w \in After(p) : stage'[w] = stage[w]
  BY DEF Typed, RegistrationTypeOK, EnterStage, After

LEMMA FormClosed ==
    ASSUME Typed, NEW v \in Visitors, CloseForm(v)
    PROVE  /\ EnterStage(v, "idle")
           /\ \A w \in Visitors \ {v} : form'[w] = form[w]
           /\ form'[v].person \notin Persons
           /\ \A p \in Persons : After(p)' = After(p) \ {v}
  BY RegistrationAssumption DEF Typed, RegistrationTypeOK, CloseForm, EnterStage, NoForm, After, AfterUser

\* A session takes an account one part further.
LEMMA PartAdded ==
    ASSUME Typed, NEW v \in Visitors, NEW p \in Persons, AccountInv(p), form[v].person = p,
           stage[v] \in AfterUser, NEW next \in AfterUser, EnterStage(v, next),
           \A w \in Visitors : form'[w].person = form[w].person,
           account[p] \subseteq account'[p], Done(next) \subseteq account'[p],
           account'[p] \subseteq Parts, company'[p] = company[p]
    PROVE  AccountInv(p)'
<1>1. v \in After(p) /\ After(p)' = After(p) /\ stage'[v] = next
  BY DEF Typed, RegistrationTypeOK, EnterStage, After
<1>2. "user" \in account'[p]
  BY DEF Done
<1>. QED
  BY <1>1, <1>2 DEF AccountInv

\* The steps that add a part, or count, and lead on.
LEMMA AddingStages ==
    ASSUME Typed, NEW v \in Visitors, NEW p \in Persons, AccountInv(p), form[v].person = p,
           ClearCodes(v) \/ AddRole(v) \/ AssignPlan(v) \/ CountCompanies(v)
    PROVE  AccountInv(p)'
<1>1. v \in After(p) \/ stage[v] \notin AfterUser
  BY DEF After
<1>2. stage[v] \in AfterUser => Done(stage[v]) \subseteq account[p]
  BY <1>1 DEF AccountInv
<1>3. account[p] \subseteq Parts
  BY DEF Typed, RegistrationTypeOK
<1>4. CASE ClearCodes(v)
  <2>1. account'[p] = account[p] \cup {"email"}
    BY <1>4 DEF ClearCodes, Typed, RegistrationTypeOK
  <2>2. Done("addRole") \subseteq account'[p] /\ account'[p] \subseteq Parts
    BY <1>2, <1>3, <1>4, <2>1 DEF ClearCodes, Done, AfterUser, Parts
  <2>. QED
    BY <1>4, <2>1, <2>2, PartAdded DEF ClearCodes, AfterUser
<1>5. CASE AddRole(v)
  <2>1. account'[p] = account[p] \cup {"role"}
    BY <1>5 DEF AddRole, Typed, RegistrationTypeOK
  <2>2. Done("assignPlan") \subseteq account'[p] /\ account'[p] \subseteq Parts
    BY <1>2, <1>3, <1>5, <2>1 DEF AddRole, Done, AfterUser, Parts
  <2>. QED
    BY <1>5, <2>1, <2>2, PartAdded DEF AddRole, AfterUser
<1>6. CASE AssignPlan(v)
  <2>1. account'[p] = account[p] \cup {"plan"}
    BY <1>6 DEF AssignPlan, Typed, RegistrationTypeOK
  <2>2. /\ Done("countCompanies") \subseteq account'[p] /\ Done("addProfile") \subseteq account'[p]
        /\ account'[p] \subseteq Parts
    BY <1>2, <1>3, <1>6, <2>1 DEF AssignPlan, Done, AfterUser, Parts
  <2>. QED
    BY <1>6, <2>1, <2>2, PartAdded DEF AssignPlan, ProfileStage, AfterUser
<1>7. CASE CountCompanies(v)
  <2>1. \A w \in Visitors : form'[w].person = form[w].person
    BY <1>7 DEF CountCompanies, Typed, RegistrationTypeOK, Form
  <2>2. Done("addCompany") \subseteq account[p]
    BY <1>2, <1>7 DEF CountCompanies, Done, AfterUser
  <2>. QED
    BY <1>3, <1>7, <2>1, <2>2, PartAdded DEF CountCompanies, AfterUser
<1>. QED
  BY <1>4, <1>5, <1>6, <1>7

\* The last session at work on an account is done with it, or cut off.
LEMMA LastLeaves ==
    ASSUME NEW v \in Visitors, NEW p \in Persons, AccountInv(p), v \in After(p),
           After(p)' = After(p) \ {v}, p \in cutOff' \/ account'[p] = Parts, account'[p] # {}
    PROVE  AccountInv(p)'
  BY DEF AccountInv

LEMMA FinishingStages ==
    ASSUME Typed, NEW v \in Visitors, NEW p \in Persons, AccountInv(p), form[v].person = p,
           AddCandidateProfile(v) \/ AddCompany(v)
    PROVE  AccountInv(p)'
<1>1. v \in After(p) /\ CloseForm(v)
  BY DEF AddCandidateProfile, AddCompany, AfterUser, After
<1>2. After(p)' = After(p) \ {v}
  BY <1>1, FormClosed
<1>3. {"user", "email", "role", "plan"} \subseteq account[p] /\ account[p] \subseteq Parts
  BY <1>1 DEF AccountInv, AddCandidateProfile, AddCompany, Done, Typed, RegistrationTypeOK
<1>4. account[p] # {} /\ account[p] \cup {"profile"} = Parts
  BY <1>3 DEF Parts
<1>5. p \in cutOff' \/ account'[p] = account[p] \cup {"profile"}
  BY DEF AddCandidateProfile, AddCompany, Typed, RegistrationTypeOK
<1>6. account'[p] # {}
  BY <1>4 DEF AddCandidateProfile, AddCompany, Typed, RegistrationTypeOK
<1>. QED
  BY <1>1, <1>2, <1>4, <1>5, <1>6, LastLeaves

LEMMA CreateUserAccount ==
    ASSUME Typed, NEW v \in Visitors, NEW p \in Persons, AccountInv(p), form[v].person = p, CreateUser(v)
    PROVE  AccountInv(p)'
<1>1. CASE account[p] = {}
  <2>1. account'[p] = {"user"} /\ EnterStage(v, "clearCodes") /\ UNCHANGED <<form, company, cutOff>>
    BY <1>1 DEF CreateUser, Typed, RegistrationTypeOK
  <2>2. After(p) = {} /\ company[p] = 0
    BY <1>1 DEF AccountInv, Done
  <2>3. After(p)' = {v} /\ stage'[v] = "clearCodes"
    BY <2>1, <2>2 DEF After, AfterUser, EnterStage, Typed, RegistrationTypeOK
  <2>4. Done("clearCodes") = {"user"}
    BY DEF Done
  <2>. QED
    BY <2>1, <2>2, <2>3, <2>4 DEF AccountInv
<1>2. CASE account[p] # {}
  <2>1. CloseForm(v) /\ UNCHANGED <<account, company, cutOff>> /\ stage[v] \notin AfterUser
    BY <1>2 DEF CreateUser, AfterUser
  <2>2. After(p)' = After(p) /\ \A w \in After(p) : stage'[w] = stage[w]
    BY <2>1, FormClosed, OutsideAlone DEF AfterUser
  <2>. QED
    BY <2>1, <2>2, AccountAlone
<1>. QED
  BY <1>1, <1>2

\* The steps of sessions that have no account to complete.
LEMMA CodeStages ==
    ASSUME Typed, NEW v \in Visitors, NEW p \in Persons, AccountInv(p),
           \/ InvalidateCodes(v) \/ CreateCode(v) \/ MarkCode(v)
           \/ ReplaceRows(v) \/ MarkRow(v)
    PROVE  AccountInv(p)'
<1>1. /\ \/ CloseForm(v)
         \/ \E next \in {"createCode", "markEmail"} : EnterStage(v, next) /\ UNCHANGED form
      /\ UNCHANGED <<account, company, cutOff>> /\ stage[v] \notin AfterUser
  BY DEF InvalidateCodes, CreateCode, MarkCode, ReplaceRows, MarkRow, AfterUser
<1>2. After(p)' = After(p) /\ \A w \in After(p) : stage'[w] = stage[w]
  BY <1>1, FormClosed, OutsideAlone DEF AfterUser
<1>. QED
  BY <1>1, <1>2, AccountAlone

LEMMA MarkEmailAccount ==
    ASSUME Typed, NEW v \in Visitors, NEW p \in Persons, AccountInv(p), MarkEmail(v)
    PROVE  AccountInv(p)'
<1>1. CloseForm(v) /\ UNCHANGED <<company, cutOff>> /\ stage[v] \notin AfterUser
  BY DEF MarkEmail, AfterUser
<1>2. After(p)' = After(p) /\ \A w \in After(p) : stage'[w] = stage[w]
  BY <1>1, FormClosed, OutsideAlone DEF AfterUser
<1>3. account'[p] = account[p] \/ (account[p] # {} /\ account'[p] = account[p] \cup {"email"})
  BY DEF MarkEmail, Typed, RegistrationTypeOK
<1>4. account[p] = Parts => account'[p] = Parts
  BY <1>3 DEF Parts
<1>. QED
  BY <1>1, <1>2, <1>3, <1>4 DEF AccountInv

LEMMA BreakOffAccount ==
    ASSUME Typed, NEW v \in Visitors, NEW p \in Persons, AccountInv(p), BreakOff(v)
    PROVE  AccountInv(p)'
<1>1. CASE v \in After(p)
  <2>1. p \in cutOff' /\ UNCHANGED <<account, company>> /\ After(p)' = After(p) \ {v}
    BY <1>1, FormClosed DEF BreakOff, After
  <2>2. account[p] # {}
    BY <1>1 DEF AccountInv, Done
  <2>. QED
    BY <1>1, <2>1, <2>2, LastLeaves
<1>2. CASE v \notin After(p)
  <2>1. After(p)' = After(p) /\ \A w \in After(p) : stage'[w] = stage[w]
    BY <1>2, FormClosed DEF BreakOff, EnterStage, Typed, RegistrationTypeOK, After
  <2>. QED
    BY <2>1, AccountAlone DEF BreakOff
<1>. QED
  BY <1>1, <1>2

\* A step of a session at work on an account leaves the others alone.
LEMMA OtherAccount ==
    ASSUME Typed, Typed', NEW v \in Visitors, NEW p \in Persons, AccountInv(p), form[v].person # p,
           Serve(v), stage[v] \in AfterUser \cup {"createUser"}
    PROVE  AccountInv(p)'
<1>1. /\ \/ CloseForm(v)
         \/ \E next : EnterStage(v, next) /\ UNCHANGED form
         \/ CountCompanies(v)
      /\ cutOff \subseteq cutOff'
  BY DEF Serve, InvalidateCodes, CreateCode, MarkCode, MarkEmail, ReplaceRows, MarkRow, CreateUser,
         ClearCodes, AddRole, AssignPlan, AddCandidateProfile, CountCompanies, AddCompany
<1>2. account'[p] = account[p] /\ company'[p] = company[p]
  BY DEF Serve, InvalidateCodes, CreateCode, MarkCode, MarkEmail, ReplaceRows, MarkRow, CreateUser,
         ClearCodes, AddRole, AssignPlan, AddCandidateProfile, CountCompanies, AddCompany,
         AfterUser, Typed, RegistrationTypeOK
<1>3. /\ \E next : EnterStage(v, next)
      /\ \A w \in Visitors \ {v} : form'[w] = form[w]
      /\ form'[v].person # p
  BY <1>1, FormClosed DEF CountCompanies, Typed, RegistrationTypeOK, Form
<1>4. After(p)' = After(p) /\ \A w \in After(p) : stage'[w] = stage[w]
  BY <1>3, OthersAlone
<1>. QED
  BY <1>1, <1>2, <1>4, AccountAlone

LEMMA WholeNext == WholeInv /\ [RegistrationNext]_registrationVars => WholeInv'
<1>. SUFFICES ASSUME WholeInv, [RegistrationNext]_registrationVars, NEW p \in Persons
              PROVE  AccountInv(p)'
  BY NextTyped DEF WholeInv
<1>. Typed /\ Typed' /\ AccountInv(p)
  BY NextTyped DEF WholeInv
<1>1. ASSUME NEW v \in Visitors, Ask(v) PROVE AccountInv(p)'
  <2>1. /\ \E next \in {"invalidate", "markCode", "replaceRows", "markRow", "createUser"} :
             stage[v] = "idle" /\ EnterStage(v, next)
        /\ \A w \in Visitors \ {v} : form'[w] = form[w]
        /\ UNCHANGED <<account, company, cutOff>>
    BY <1>1 DEF Ask, SendOtp, VerifyOtp, SendMobileOtp, VerifyMobileOtp, Register, StartForm,
                Typed, RegistrationTypeOK
  <2>2. After(p)' = After(p) /\ \A w \in After(p) : stage'[w] = stage[w]
    BY <2>1, OutsideAlone DEF AfterUser
  <2>. QED
    BY <2>1, <2>2, AccountAlone
<1>2. ASSUME NEW v \in Visitors, Serve(v) PROVE AccountInv(p)'
  <2>1. CASE stage[v] \in AfterUser \cup {"createUser"} /\ form[v].person # p
    BY <1>2, <2>1, OtherAccount
  <2>2. CASE stage[v] \in AfterUser \cup {"createUser"} /\ form[v].person = p
    BY <1>2, <2>2, AddingStages, FinishingStages, CreateUserAccount
       DEF Serve, InvalidateCodes, CreateCode, MarkCode, MarkEmail, ReplaceRows, MarkRow, AfterUser
  <2>3. CASE stage[v] \notin AfterUser \cup {"createUser"}
    BY <1>2, <2>3, CodeStages, MarkEmailAccount
       DEF Serve, CreateUser, ClearCodes, AddRole, AssignPlan, AddCandidateProfile,
           CountCompanies, AddCompany, AfterUser
  <2>. QED
    BY <2>1, <2>2, <2>3
<1>3. ASSUME NEW v \in Visitors, BreakOff(v) PROVE AccountInv(p)'
  BY <1>3, BreakOffAccount
<1>4. ASSUME UNCHANGED <<account, company, cutOff, stage, form>> PROVE AccountInv(p)'
  BY <1>4 DEF AccountInv, After
<1>. QED
  BY <1>1, <1>2, <1>3, <1>4 DEF RegistrationNext, CodeAges, RowExpires, registrationVars

LEMMA WholeInit == RegistrationInit => WholeInv
  BY InitTyped DEF RegistrationInit, EmailsProved, RegistrationIdle, WholeInv, AccountInv, After, AfterUser

\* However requests of any number of sessions interleave, an account with
\* parts missing is being completed by exactly one of them, or its
\* registration broke off.
THEOREM AccountsAreWhole == RegistrationSpec => []WholeUnlessCutOff
<1>1. WholeInv => WholeUnlessCutOff
  <2>. SUFFICES ASSUME WholeInv, NEW p \in Persons, account[p] \notin {{}, Parts}, p \notin cutOff
                PROVE  Cardinality(After(p)) = 1
    BY DEF WholeUnlessCutOff, After
  <2>1. PICK v \in After(p) : After(p) = {v}
    BY DEF WholeInv, AccountInv
  <2>. QED
    BY <2>1, FS_Singleton
<1>2. RegistrationSpec => []WholeInv
  BY WholeInit, WholeNext, PTL DEF RegistrationSpec
<1>. QED
  BY <1>1, <1>2, PTL

-----------------------------------------------------------------------------
\* Company numbers: a count that a session holds is never above the number
\* of companies, for none goes away, and it adds a company with the next one.

NumberInv ==
    /\ WholeInv
    /\ NextCompanyFree
    /\ \A v \in Visitors : stage[v] = "addCompany" => form[v].count <= Cardinality(Numbered)

\* The companies of the next state.
LEMMA NumberedFiniteNext ==
    /\ IsFiniteSet(Numbered') /\ Cardinality(Numbered') \in Nat
<1>1. Numbered' \subseteq Persons
  BY DEF Numbered
<1>. QED
  BY <1>1, RegistrationAssumption, FS_Subset, FS_CardinalityType

LEMMA NumberNext == NumberInv /\ [RegistrationNext]_registrationVars => NumberInv'
<1>. SUFFICES ASSUME NumberInv, [RegistrationNext]_registrationVars
              PROVE  /\ NextCompanyFree'
                     /\ \A v \in Visitors :
                          stage'[v] = "addCompany" => form'[v].count <= Cardinality(Numbered')
  BY WholeNext DEF NumberInv
<1>. DEFINE Counted == \A v \in Visitors : stage'[v] = "addCompany" => form'[v].count <= Cardinality(Numbered')
<1>. Typed /\ NextCompanyFree
  BY DEF NumberInv, WholeInv
<1>1. ASSUME UNCHANGED company PROVE NextCompanyFree' /\ Numbered' = Numbered
  BY <1>1 DEF NextCompanyFree, Numbered
<1>2. ASSUME NEW v \in Visitors, UNCHANGED company,
             \E next : EnterStage(v, next) /\ next # "addCompany",
             \A w \in Visitors \ {v} : form'[w] = form[w]
      PROVE  NextCompanyFree' /\ Counted
  <2>1. \A w \in Visitors : stage'[w] = "addCompany" => stage[w] = "addCompany" /\ form'[w] = form[w]
    BY <1>2 DEF EnterStage, Typed, RegistrationTypeOK
  <2>. QED
    BY <1>1, <1>2, <2>1 DEF NumberInv
<1>3. ASSUME NEW v \in Visitors, CountCompanies(v) PROVE NextCompanyFree' /\ Counted
  <2>1. \A w \in Visitors : \/ stage'[w] = stage[w] /\ form'[w] = form[w]
                            \/ form'[w].count = Cardinality(Numbered)
    BY <1>3 DEF CountCompanies, EnterStage, Typed, RegistrationTypeOK, Form
  <2>2. UNCHANGED company
    BY <1>3 DEF CountCompanies
  <2>. QED
    BY <1>1, <2>1, <2>2, NumberedFinite DEF NumberInv
<1>4. ASSUME NEW v \in Visitors, AddCompany(v) PROVE NextCompanyFree' /\ Counted
  <2>. DEFINE p == form[v].person
              n == CompanyNumber(form[v].count)
  <2>1. CASE UNCHANGED company
    BY <1>2, <1>4, <2>1, FormClosed DEF AddCompany
  <2>2. CASE company' = [company EXCEPT ![p] = n]
    <3>1. p \in Persons /\ company[p] = 0 /\ company \in [Persons -> Nat] /\ form[v].count \in Nat
      <4>1. p \in Persons /\ v \in After(p)
        BY <1>4 DEF AddCompany, Typed, Referring, After, AfterUser
      <4>. QED
        BY <4>1 DEF NumberInv, WholeInv, AccountInv, Typed, RegistrationTypeOK, Form
    <3>2. Numbered' = Numbered \cup {p} /\ p \notin Numbered
      BY <2>2, <3>1 DEF Numbered, CompanyNumber
    <3>3. Cardinality(Numbered') = Cardinality(Numbered) + 1
      BY <3>2, NumberedFinite, FS_AddElement
    <3>4. form[v].count <= Cardinality(Numbered)
      BY <1>4 DEF AddCompany, NumberInv
    <3>5. NextCompanyFree'
      <4>. SUFFICES ASSUME NEW q \in Numbered' PROVE company'[q] <= Cardinality(Numbered')
        BY DEF NextCompanyFree
      <4>1. CASE q = p
        BY <2>2, <3>1, <3>3, <3>4, <4>1, NumberedFinite DEF CompanyNumber
      <4>2. CASE q # p
        <5>1. q \in Numbered /\ q \in Persons /\ company'[q] = company[q]
          BY <2>2, <3>1, <3>2, <4>2, NumberedFinite
        <5>2. company[q] <= Cardinality(Numbered) /\ company[q] \in Nat
          BY <3>1, <5>1 DEF NextCompanyFree
        <5>. QED
          BY <3>3, <5>1, <5>2, NumberedFinite
      <4>. QED
        BY <4>1, <4>2
    <3>6. \A w \in Visitors : stage'[w] = "addCompany" =>
             stage[w] = "addCompany" /\ form'[w] = form[w] /\ form[w].count \in Nat
      BY <1>4 DEF AddCompany, CloseForm, EnterStage, Typed, RegistrationTypeOK, Form
    <3>7. Counted
      BY <3>3, <3>6, NumberedFinite DEF NumberInv
    <3>. QED
      BY <3>5, <3>7
  <2>. QED
    BY <1>4, <2>1, <2>2 DEF AddCompany
<1>5. ASSUME NEW v \in Visitors, Ask(v) \/ BreakOff(v) \/ Serve(v), ~CountCompanies(v), ~AddCompany(v)
      PROVE  NextCompanyFree' /\ Counted
  <2>1. CASE Ask(v)
    <3>1. \E next \in {"invalidate", "markCode", "replaceRows", "markRow", "createUser"} :
             \E f : StartForm(v, next, f)
      BY <2>1 DEF Ask, SendOtp, VerifyOtp, SendMobileOtp, VerifyMobileOtp, Register
    <3>2. PICK next, f : StartForm(v, next, f) /\ next # "addCompany"
      BY <3>1
    <3>. QED
      BY <1>2, <3>2 DEF StartForm, Typed, RegistrationTypeOK
  <2>2. CASE BreakOff(v)
    BY <1>2, <2>2, FormClosed DEF BreakOff
  <2>3. CASE Serve(v)
    <3>1. /\ \/ CloseForm(v)
             \/ \E next : EnterStage(v, next) /\ next # "addCompany" /\ UNCHANGED form
          /\ UNCHANGED company
      BY <1>5, <2>3
         DEF Serve, InvalidateCodes, CreateCode, MarkCode, MarkEmail, ReplaceRows, MarkRow, CreateUser,
             ClearCodes, AddRole, AssignPlan, ProfileStage, AddCandidateProfile
    <3>. QED
      BY <1>2, <3>1, FormClosed
  <2>. QED
    BY <1>5, <2>1, <2>2, <2>3
<1>6. ASSUME UNCHANGED <<company, stage, form>> PROVE NextCompanyFree' /\ Counted
  BY <1>1, <1>6 DEF NumberInv
<1>. QED
  BY <1>3, <1>4, <1>5, <1>6 DEF RegistrationNext, CodeAges, RowExpires, registrationVars

LEMMA NumberInit == RegistrationInit => NumberInv
  BY WholeInit DEF RegistrationInit, EmailsProved, RegistrationIdle, NumberInv, NextCompanyFree, Numbered

\* For any number of employers that register at once, the numbers in use
\* never pass the count of companies, so that a registration that starts
\* after the others have ended finds the next number free.
THEOREM CompaniesAreDense == RegistrationSpec => []NextCompanyFree
<1>1. RegistrationSpec => []NumberInv
  BY NumberInit, NumberNext, PTL DEF RegistrationSpec
<1>. QED
  BY <1>1, PTL DEF NumberInv

-----------------------------------------------------------------------------
\* How many codes and rows there can be.  A session that has to insert a code
\* will add one to those that are usable; the rows that a session is about to
\* delete are all that existed when it looked, so that however many of the
\* sessions under way are set aside, the rows that none of them will delete
\* are at most as many as the other sessions.

UsableCodes(p) == {k \in EmailCodes : emailCode[p][k] \in Usable}
Sending(p) == {v \in Visitors : stage[v] = "createCode" /\ form[v].person = p}
CodesBound(p) == Cardinality(UsableCodes(p)) + Cardinality(Sending(p)) <= Cardinality(Visitors)

Replacing(p) == {v \in Visitors : stage[v] = "replaceRows" /\ form[v].person = p}
Missed(p, S) == {r \in LiveRows(p) : \A v \in S : r \notin form[v].rows}
RowsBound(p) ==
    \A S \in SUBSET Replacing(p) :
        Cardinality(Missed(p, S)) + Cardinality(S) <= Cardinality(Visitors)

BoundInv == Typed /\ \A p \in Persons : CodesBound(p) /\ RowsBound(p)

LEMMA Smaller ==
    ASSUME NEW A, IsFiniteSet(A), NEW B, B \subseteq A
    PROVE  /\ IsFiniteSet(B)
           /\ Cardinality(A) \in Nat /\ Cardinality(B) \in Nat
           /\ Cardinality(B) <= Cardinality(A)
  BY FS_Subset, FS_CardinalityType

LEMMA OneMore ==
    ASSUME NEW A, IsFiniteSet(A), NEW x, x \notin A
    PROVE  Cardinality(A \cup {x}) = Cardinality(A) + 1 /\ Cardinality(A) \in Nat
  BY FS_AddElement, FS_CardinalityType

LEMMA WithinOneMore ==
    ASSUME NEW A, IsFiniteSet(A), NEW x, NEW B, B \subseteq A \cup {x}
    PROVE  /\ Cardinality(B) <= Cardinality(A) + 1
           /\ Cardinality(B) \in Nat /\ Cardinality(A) \in Nat
<1>. DEFINE C == A \cup {x}
<1>1. IsFiniteSet(C) /\ Cardinality(A) \in Nat
  BY FS_AddElement, FS_CardinalityType
<1>2. Cardinality(C) = Cardinality(A) \/ Cardinality(C) = Cardinality(A) + 1
  <2>1. CASE x \in A
    <3>1. C = A
      BY <2>1
    <3>. QED
      BY <3>1
  <2>2. CASE x \notin A
    BY <2>2, OneMore
  <2>. QED
    BY <2>1, <2>2
<1>3. Cardinality(B) <= Cardinality(C) /\ Cardinality(B) \in Nat
  BY <1>1, Smaller
<1>. QED
  BY <1>1, <1>2, <1>3

LEMMA BoundSets ==
    ASSUME NEW p \in Persons
    PROVE  /\ IsFiniteSet(UsableCodes(p)) /\ IsFiniteSet(Sending(p))
           /\ IsFiniteSet(LiveRows(p)) /\ IsFiniteSet(Replacing(p))
<1>1. UsableCodes(p) \subseteq EmailCodes /\ Sending(p) \subseteq Visitors
  BY DEF UsableCodes, Sending
<1>2. LiveRows(p) \subseteq Rows /\ Replacing(p) \subseteq Visitors
  BY DEF LiveRows, Replacing
<1>3. IsFiniteSet(Rows)
  BY FS_Interval, RegistrationAssumption DEF Rows
<1>. QED
  BY <1>1, <1>2, <1>3, Smaller, RegistrationAssumption

LEMMA CodesAlone ==
    ASSUME NEW p \in Persons, CodesBound(p),
           UsableCodes(p)' \subseteq UsableCodes(p), Sending(p)' \subseteq Sending(p)
    PROVE  CodesBound(p)'
<1>1. Cardinality(UsableCodes(p)') <= Cardinality(UsableCodes(p))
      /\ Cardinality(UsableCodes(p)') \in Nat /\ Cardinality(UsableCodes(p)) \in Nat
  BY BoundSets, Smaller
<1>2. Cardinality(Sending(p)') <= Cardinality(Sending(p))
      /\ Cardinality(Sending(p)') \in Nat /\ Cardinality(Sending(p)) \in Nat
  BY BoundSets, Smaller
<1>3. Cardinality(Visitors) \in Nat
  BY RegistrationAssumption, FS_CardinalityType
<1>. QED
  BY <1>1, <1>2, <1>3 DEF CodesBound

LEMMA RowsAlone ==
    ASSUME NEW p \in Persons, RowsBound(p),
           LiveRows(p)' \subseteq LiveRows(p), Replacing(p)' \subseteq Replacing(p),
           \A v \in Replacing(p)' : form'[v].rows = form[v].rows
    PROVE  RowsBound(p)'
<1>. SUFFICES ASSUME NEW S \in SUBSET Replacing(p)'
              PROVE  Cardinality(Missed(p, S)') + Cardinality(S) <= Cardinality(Visitors)
  BY DEF RowsBound
<1>1. Missed(p, S)' \subseteq Missed(p, S) /\ Missed(p, S) \subseteq LiveRows(p)
  BY DEF Missed
<1>2. IsFiniteSet(Missed(p, S)) /\ IsFiniteSet(S)
  BY <1>1, BoundSets, Smaller
<1>3. /\ Cardinality(Missed(p, S)') <= Cardinality(Missed(p, S))
      /\ Cardinality(Missed(p, S)') \in Nat /\ Cardinality(Missed(p, S)) \in Nat
  BY <1>1, <1>2, Smaller
<1>4. Cardinality(S) \in Nat /\ Cardinality(Visitors) \in Nat
  BY <1>2, RegistrationAssumption, FS_CardinalityType
<1>5. Cardinality(Missed(p, S)) + Cardinality(S) <= Cardinality(Visitors)
  BY DEF RowsBound
<1>. QED
  BY <1>3, <1>4, <1>5

\* Nobody but its session touches a form.
LEMMA OthersKept ==
    ASSUME Typed, NEW v \in Visitors, Ask(v) \/ Serve(v) \/ BreakOff(v)
    PROVE  \A w \in Visitors \ {v} : stage'[w] = stage[w] /\ form'[w] = form[w]
<1>1. ASSUME CloseForm(v) PROVE \A w \in Visitors \ {v} : stage'[w] = stage[w] /\ form'[w] = form[w]
  BY <1>1 DEF CloseForm, EnterStage, Typed, RegistrationTypeOK
<1>2. ASSUME NEW next, EnterStage(v, next),
             UNCHANGED form \/ \E f : form' = [form EXCEPT ![v] = f]
      PROVE  \A w \in Visitors \ {v} : stage'[w] = stage[w] /\ form'[w] = form[w]
  BY <1>2 DEF EnterStage, Typed, RegistrationTypeOK
<1>3. CASE Ask(v)
  BY <1>2, <1>3
     DEF Ask, SendOtp, VerifyOtp, SendMobileOtp, VerifyMobileOtp, Register, StartForm
<1>4. CASE CountCompanies(v)
  BY <1>4 DEF CountCompanies, EnterStage, Typed, RegistrationTypeOK
<1>5. CASE Serve(v) /\ ~CountCompanies(v)
  BY <1>1, <1>2, <1>5
     DEF Serve, InvalidateCodes, CreateCode, MarkCode, MarkEmail, ReplaceRows, MarkRow,
         CreateUser, ClearCodes, AddRole, AssignPlan, AddCandidateProfile, AddCompany
<1>6. CASE BreakOff(v)
  BY <1>1, <1>6 DEF BreakOff
<1>. QED
  BY <1>3, <1>4, <1>5, <1>6

\* A session that does not get to inserting leaves the others' plans.
LEMMA NoSender ==
    ASSUME NEW v \in Visitors, NEW p \in Persons,
           \A w \in Visitors \ {v} : stage'[w] = stage[w] /\ form'[w] = form[w],
           stage'[v] # "createCode" \/ form'[v].person # p
    PROVE  Sending(p)' \subseteq Sending(p)
  BY DEF Sending

LEMMA NoReplacer ==
    ASSUME NEW v \in Visitors, NEW p \in Persons,
           \A w \in Visitors \ {v} : stage'[w] = stage[w] /\ form'[w] = form[w],
           stage'[v] # "replaceRows" \/ form'[v].person # p
    PROVE  /\ Replacing(p)' \subseteq Replacing(p) /\ v \notin Replacing(p)'
           /\ \A w \in Replacing(p)' : form'[w].rows = form[w].rows
  BY DEF Replacing

-----------------------------------------------------------------------------
\* The codes of an address.

LEMMA InvalidateBound ==
    ASSUME BoundInv, NEW v \in Visitors, NEW p \in Persons, InvalidateCodes(v)
    PROVE  CodesBound(p)'
<1>1. CASE form[v].person = p
  <2>1. emailCode'[p] = InvalidatedCodes(emailCode[p])
    BY <1>1 DEF InvalidateCodes, BoundInv, Typed, RegistrationTypeOK
  <2>2. \A k \in EmailCodes : emailCode'[p][k] \notin Usable
    BY <2>1 DEF InvalidatedCodes, Usable
  <2>3. UsableCodes(p)' = {} /\ Cardinality({}) = 0
    BY <2>2, FS_EmptySet DEF UsableCodes
  <2>4. Sending(p)' \subseteq Visitors
    BY DEF Sending
  <2>5. Cardinality(Sending(p)') <= Cardinality(Visitors) /\ Cardinality(Sending(p)') \in Nat
    BY <2>4, Smaller, RegistrationAssumption
  <2>. QED
    BY <2>3, <2>5 DEF CodesBound
<1>2. CASE form[v].person # p
  <2>1. emailCode'[p] = emailCode[p] /\ UNCHANGED form
    BY <1>2 DEF InvalidateCodes, BoundInv, Typed, RegistrationTypeOK
  <2>2. UsableCodes(p)' \subseteq UsableCodes(p)
    BY <2>1 DEF UsableCodes
  <2>3. Sending(p)' \subseteq Sending(p)
    BY <1>2, <2>1, OthersKept, NoSender DEF BoundInv, Serve
  <2>. QED
    BY <2>2, <2>3, CodesAlone DEF BoundInv
<1>. QED
  BY <1>1, <1>2

LEMMA CreateBound ==
    ASSUME BoundInv, NEW v \in Visitors, NEW p \in Persons, CreateCode(v)
    PROVE  CodesBound(p)'
<1>1. stage'[v] = "idle" /\ \A w \in Visitors \ {v} : stage'[w] = stage[w] /\ form'[w] = form[w]
  BY OthersKept DEF Serve, CreateCode, CloseForm, EnterStage, BoundInv, Typed, RegistrationTypeOK
<1>2. Sending(p)' \subseteq Sending(p) /\ v \notin Sending(p)'
  BY <1>1, NoSender DEF Sending
<1>3. PICK k \in EmailCodes :
        /\ emailCode[form[v].person][k] = "none"
        /\ emailCode' = [emailCode EXCEPT ![form[v].person][k] = "fresh"]
  BY DEF CreateCode
<1>4. CASE form[v].person = p
  <2>1. v \in Sending(p)
    BY <1>4 DEF CreateCode, Sending
  <2>2. Sending(p)' \cup {v} \subseteq Sending(p)
    BY <1>2, <2>1
  <2>3. Cardinality(Sending(p)' \cup {v}) <= Cardinality(Sending(p)) /\ IsFiniteSet(Sending(p)')
    BY <1>2, <2>2, BoundSets, Smaller
  <2>4. Cardinality(Sending(p)' \cup {v}) = Cardinality(Sending(p)') + 1
        /\ Cardinality(Sending(p)') \in Nat
    BY <1>2, <2>3, OneMore
  <2>5. UsableCodes(p)' = UsableCodes(p) \cup {k} /\ k \notin UsableCodes(p)
    BY <1>3, <1>4 DEF UsableCodes, Usable, BoundInv, Typed, RegistrationTypeOK
  <2>6. Cardinality(UsableCodes(p)') = Cardinality(UsableCodes(p)) + 1
        /\ Cardinality(UsableCodes(p)) \in Nat
    BY <2>5, BoundSets, OneMore
  <2>7. Cardinality(Sending(p)) \in Nat /\ Cardinality(Visitors) \in Nat
    BY BoundSets, RegistrationAssumption, FS_CardinalityType
  <2>8. Cardinality(UsableCodes(p)) + Cardinality(Sending(p)) <= Cardinality(Visitors)
    BY DEF BoundInv, CodesBound
  <2>. QED
    BY <2>3, <2>4, <2>6, <2>7, <2>8 DEF CodesBound
<1>5. CASE form[v].person # p
  <2>1. emailCode'[p] = emailCode[p]
    BY <1>3, <1>5 DEF BoundInv, Typed, RegistrationTypeOK
  <2>2. UsableCodes(p)' \subseteq UsableCodes(p)
    BY <2>1 DEF UsableCodes
  <2>. QED
    BY <1>2, <2>2, CodesAlone DEF BoundInv
<1>. QED
  BY <1>4, <1>5

\* Every other step of a session makes no code usable and sends none.
LEMMA CodesStep ==
    ASSUME BoundInv, NEW v \in Visitors, NEW p \in Persons, Ask(v) \/ Serve(v) \/ BreakOff(v)
    PROVE  CodesBound(p)'
<1>1. CASE InvalidateCodes(v)
  BY <1>1, InvalidateBound
<1>2. CASE CreateCode(v)
  BY <1>2, CreateBound
<1>3. CASE ~InvalidateCodes(v) /\ ~CreateCode(v)
  <2>1. stage'[v] # "createCode"
    <3>1. CASE Ask(v)
      BY <3>1 DEF Ask, SendOtp, VerifyOtp, SendMobileOtp, VerifyMobileOtp, Register, StartForm,
                  EnterStage, BoundInv, Typed, RegistrationTypeOK
    <3>2. CASE Serve(v)
      BY <1>3, <3>2
         DEF Serve, MarkCode, MarkEmail, ReplaceRows, MarkRow, CreateUser, ClearCodes, AddRole,
             AssignPlan, ProfileStage, AddCandidateProfile, CountCompanies, AddCompany,
             CloseForm, EnterStage, BoundInv, Typed, RegistrationTypeOK
    <3>3. CASE BreakOff(v)
      BY <3>3 DEF BreakOff, CloseForm, EnterStage, BoundInv, Typed, RegistrationTypeOK
    <3>. QED
      BY <3>1, <3>2, <3>3
  <2>2. Sending(p)' \subseteq Sending(p)
    BY <2>1, OthersKept, NoSender DEF BoundInv
  <2>3. \A k \in EmailCodes : emailCode'[p][k] \in {"verified", "none", emailCode[p][k]}
    <3>1. CASE UNCHANGED emailCode
      BY <3>1
    <3>2. CASE MarkCode(v)
      BY <3>2 DEF MarkCode, BoundInv, Typed, RegistrationTypeOK
    <3>3. CASE ClearCodes(v)
      BY <3>3 DEF ClearCodes, BoundInv, Typed, RegistrationTypeOK
    <3>4. Ask(v) => UNCHANGED emailCode
      BY DEF Ask, SendOtp, VerifyOtp, SendMobileOtp, VerifyMobileOtp, Register, StartForm
    <3>. QED
      BY <1>3, <3>1, <3>2, <3>3, <3>4
         DEF Serve, MarkEmail, ReplaceRows, MarkRow, CreateUser, AddRole,
             AssignPlan, AddCandidateProfile, CountCompanies, AddCompany, BreakOff
  <2>4. UsableCodes(p)' \subseteq UsableCodes(p)
    BY <2>3 DEF UsableCodes, Usable
  <2>. QED
    BY <2>2, <2>4, CodesAlone DEF BoundInv
<1>. QED
  BY <1>1, <1>2, <1>3

-----------------------------------------------------------------------------
\* The rows of a number.

\* Whoever looks will delete all there is.
LEMMA LookBound ==
    ASSUME BoundInv, NEW v \in Visitors, NEW p \in Persons, SendMobileOtp(v, p)
    PROVE  RowsBound(p)'
<1>. SUFFICES ASSUME NEW S \in SUBSET Replacing(p)'
              PROVE  Cardinality(Missed(p, S)') + Cardinality(S) <= Cardinality(Visitors)
  BY DEF RowsBound
<1>. UNCHANGED mobileRow /\ \A w \in Visitors \ {v} : stage'[w] = stage[w] /\ form'[w] = form[w]
  BY OthersKept DEF SendMobileOtp, StartForm, Ask, BoundInv
<1>1. form'[v].rows = LiveRows(p)
  BY DEF SendMobileOtp, DeletedRows, StartForm, NoForm, BoundInv, Typed, RegistrationTypeOK
<1>2. S \subseteq Visitors
  BY DEF Replacing
<1>3. Cardinality(S) <= Cardinality(Visitors) /\ Cardinality(S) \in Nat
  BY <1>2, Smaller, RegistrationAssumption
<1>4. CASE v \in S
  <2>1. Missed(p, S)' = {}
    BY <1>1, <1>4 DEF Missed, LiveRows
  <2>. QED
    BY <1>3, <2>1, FS_EmptySet
<1>5. CASE v \notin S
  <2>1. S \in SUBSET Replacing(p)
    BY <1>5 DEF Replacing
  <2>2. Missed(p, S)' = Missed(p, S)
    BY <1>2, <1>5 DEF Missed, LiveRows
  <2>. QED
    BY <2>1, <2>2 DEF BoundInv, RowsBound
<1>. QED
  BY <1>4, <1>5

\* Whoever inserts a row is no longer set aside, and deletes those it saw.
LEMMA ReplaceBound ==
    ASSUME BoundInv, NEW v \in Visitors, NEW p \in Persons, ReplaceRows(v), form[v].person = p
    PROVE  RowsBound(p)'
<1>. SUFFICES ASSUME NEW S \in SUBSET Replacing(p)'
              PROVE  Cardinality(Missed(p, S)') + Cardinality(S) <= Cardinality(Visitors)
  BY DEF RowsBound
<1>1. stage'[v] = "idle" /\ \A w \in Visitors \ {v} : stage'[w] = stage[w] /\ form'[w] = form[w]
  BY OthersKept DEF Serve, ReplaceRows, CloseForm, EnterStage, BoundInv, Typed, RegistrationTypeOK
<1>2. /\ Replacing(p)' \subseteq Replacing(p) /\ v \notin Replacing(p)'
      /\ \A w \in Replacing(p)' : form'[w].rows = form[w].rows
  BY <1>1, NoReplacer
<1>3. v \in Replacing(p)
  BY DEF Replacing, ReplaceRows
<1>. DEFINE T == S \cup {v}
<1>4. T \in SUBSET Replacing(p) /\ v \notin S /\ IsFiniteSet(S)
  BY <1>2, <1>3, BoundSets, Smaller
<1>5. Cardinality(T) = Cardinality(S) + 1 /\ Cardinality(S) \in Nat
  BY <1>4, OneMore
<1>6. PICK new \in Rows :
        mobileRow'[p] = [r \in Rows |-> CASE r = new -> "usable"
                                          [] r \in form[v].rows -> "none"
                                          [] OTHER -> mobileRow[p][r]]
  BY DEF ReplaceRows, NewRow, BoundInv, Typed, RegistrationTypeOK
<1>7. Missed(p, S)' \subseteq Missed(p, T) \cup {new}
  <2>. SUFFICES ASSUME NEW r \in Missed(p, S)', r # new PROVE r \in Missed(p, T)
    OBVIOUS
  <2>1. r \in Rows /\ mobileRow'[p][r] # "none"
    BY DEF Missed, LiveRows
  <2>2. r \notin form[v].rows /\ mobileRow'[p][r] = mobileRow[p][r]
    BY <1>6, <2>1
  <2>3. \A w \in S : r \notin form[w].rows
    BY <1>2 DEF Missed
  <2>. QED
    BY <2>1, <2>2, <2>3 DEF Missed, LiveRows
<1>8. IsFiniteSet(Missed(p, T)) /\ Missed(p, T) \subseteq LiveRows(p)
  <2>1. Missed(p, T) \subseteq LiveRows(p)
    BY DEF Missed
  <2>. QED
    BY <2>1, BoundSets, Smaller
<1>9. /\ Cardinality(Missed(p, S)') <= Cardinality(Missed(p, T)) + 1
      /\ Cardinality(Missed(p, S)') \in Nat /\ Cardinality(Missed(p, T)) \in Nat
  BY <1>7, <1>8, WithinOneMore
<1>10. Cardinality(Missed(p, T)) + Cardinality(T) <= Cardinality(Visitors)
  BY <1>4 DEF BoundInv, RowsBound
<1>11. Cardinality(Visitors) \in Nat
  BY RegistrationAssumption, FS_CardinalityType
<1>. HIDE DEF T
<1>. QED
  BY <1>5, <1>9, <1>10, <1>11

LEMMA RowsStep ==
    ASSUME BoundInv, NEW v \in Visitors, NEW p \in Persons, Ask(v) \/ Serve(v) \/ BreakOff(v)
    PROVE  RowsBound(p)'
<1>1. CASE SendMobileOtp(v, p)
  BY <1>1, LookBound
<1>2. CASE ReplaceRows(v) /\ form[v].person = p
  BY <1>2, ReplaceBound
<1>3. CASE ~SendMobileOtp(v, p) /\ ~(ReplaceRows(v) /\ form[v].person = p)
  <2>1. stage'[v] # "replaceRows" \/ form'[v].person # p
    <3>1. ASSUME NEW q \in Persons, SendMobileOtp(v, q) PROVE form'[v].person # p
      BY <1>3, <3>1 DEF SendMobileOtp, StartForm, NoForm, BoundInv, Typed, RegistrationTypeOK
    <3>2. CASE Ask(v) /\ ~\E q \in Persons : SendMobileOtp(v, q)
      BY <3>2 DEF Ask, SendOtp, VerifyOtp, VerifyMobileOtp, Register, StartForm,
                  EnterStage, BoundInv, Typed, RegistrationTypeOK
    <3>3. CASE Serve(v)
      BY <3>3
         DEF Serve, InvalidateCodes, CreateCode, MarkCode, MarkEmail, ReplaceRows, MarkRow,
             CreateUser, ClearCodes, AddRole,
             AssignPlan, ProfileStage, AddCandidateProfile, CountCompanies, AddCompany,
             CloseForm, EnterStage, BoundInv, Typed, RegistrationTypeOK
    <3>4. CASE BreakOff(v)
      BY <3>4 DEF BreakOff, CloseForm, EnterStage, BoundInv, Typed, RegistrationTypeOK
    <3>. QED
      BY <3>1, <3>2, <3>3, <3>4
  <2>2. \A r \in Rows : mobileRow'[p][r] = "none" \/ mobileRow[p][r] # "none"
    <3>1. CASE mobileRow'[p] = mobileRow[p]
      BY <3>1
    <3>2. CASE MarkRow(v)
      BY <3>2 DEF MarkRow, BoundInv, Typed, RegistrationTypeOK
    <3>3. CASE AddRole(v)
      BY <3>3 DEF AddRole, BoundInv, Typed, RegistrationTypeOK
    <3>4. ReplaceRows(v) => mobileRow'[p] = mobileRow[p]
      BY <1>3 DEF ReplaceRows, BoundInv, Typed, RegistrationTypeOK
    <3>5. Ask(v) => UNCHANGED mobileRow
      BY DEF Ask, SendOtp, VerifyOtp, SendMobileOtp, VerifyMobileOtp, Register, StartForm
    <3>. QED
      BY <3>1, <3>2, <3>3, <3>4, <3>5
         DEF Serve, InvalidateCodes, CreateCode, MarkCode, MarkEmail, CreateUser, ClearCodes,
             AssignPlan, AddCandidateProfile, CountCompanies, AddCompany, BreakOff
  <2>3. LiveRows(p)' \subseteq LiveRows(p)
    BY <2>2 DEF LiveRows
  <2>4. /\ Replacing(p)' \subseteq Replacing(p)
        /\ \A w \in Replacing(p)' : form'[w].rows = form[w].rows
    BY <2>1, OthersKept, NoReplacer DEF BoundInv
  <2>. QED
    BY <2>3, <2>4, RowsAlone DEF BoundInv
<1>. QED
  BY <1>1, <1>2, <1>3

LEMMA BoundNext == BoundInv /\ [RegistrationNext]_registrationVars => BoundInv'
<1>. SUFFICES ASSUME BoundInv, [RegistrationNext]_registrationVars PROVE BoundInv'
  OBVIOUS
<1>1. Typed'
  BY NextTyped DEF BoundInv
<1>. SUFFICES ASSUME NEW p \in Persons PROVE CodesBound(p)' /\ RowsBound(p)'
  BY <1>1 DEF BoundInv
<1>2. ASSUME NEW q \in Persons, NEW k \in EmailCodes, CodeAges(q, k) PROVE CodesBound(p)' /\ RowsBound(p)'
  <2>1. \A c \in EmailCodes : emailCode'[p][c] \in Usable => emailCode[p][c] \in Usable
    BY <1>2 DEF CodeAges, Aged, Usable, BoundInv, Typed, RegistrationTypeOK, CodeStates
  <2>2. UsableCodes(p)' \subseteq UsableCodes(p)
    BY <2>1 DEF UsableCodes
  <2>3. Sending(p)' = Sending(p) /\ Replacing(p)' = Replacing(p) /\ LiveRows(p)' = LiveRows(p)
        /\ UNCHANGED form
    BY <1>2 DEF CodeAges, Sending, Replacing, LiveRows
  <2>. QED
    BY <2>2, <2>3, CodesAlone, RowsAlone DEF BoundInv
<1>3. ASSUME NEW q \in Persons, NEW r \in Rows, RowExpires(q, r) PROVE CodesBound(p)' /\ RowsBound(p)'
  <2>1. \A x \in Rows : mobileRow'[p][x] # "none" => mobileRow[p][x] # "none"
    BY <1>3 DEF RowExpires, BoundInv, Typed, RegistrationTypeOK
  <2>2. LiveRows(p)' \subseteq LiveRows(p)
    BY <2>1 DEF LiveRows
  <2>3. Sending(p)' = Sending(p) /\ Replacing(p)' = Replacing(p) /\ UsableCodes(p)' = UsableCodes(p)
        /\ UNCHANGED form
    BY <1>3 DEF RowExpires, Sending, Replacing, UsableCodes
  <2>. QED
    BY <2>2, <2>3, CodesAlone, RowsAlone DEF BoundInv
<1>4. CASE UNCHANGED registrationVars
  <2>1. Sending(p)' = Sending(p) /\ Replacing(p)' = Replacing(p) /\ UsableCodes(p)' = UsableCodes(p)
        /\ LiveRows(p)' = LiveRows(p) /\ UNCHANGED form
    BY <1>4 DEF registrationVars, Sending, Replacing, UsableCodes, LiveRows
  <2>. QED
    BY <2>1, CodesAlone, RowsAlone DEF BoundInv
<1>. QED
  BY <1>2, <1>3, <1>4, CodesStep, RowsStep DEF RegistrationNext

LEMMA BoundInit == RegistrationInit => BoundInv
<1>. SUFFICES ASSUME RegistrationInit, NEW p \in Persons PROVE CodesBound(p) /\ RowsBound(p)
  BY InitTyped DEF BoundInv
<1>. stage = [v \in Visitors |-> "idle"]
  BY DEF RegistrationInit, RegistrationIdle
<1>1. Sending(p) = {} /\ Replacing(p) = {} /\ Cardinality({}) = 0
  BY FS_EmptySet DEF Sending, Replacing
<1>2. Cardinality(Visitors) \in Nat /\ Cardinality(Visitors) >= 1
  <2>1. PICK v \in Visitors : TRUE
    BY RegistrationAssumption
  <2>2. {v} \subseteq Visitors
    OBVIOUS
  <2>3. Cardinality({v}) <= Cardinality(Visitors) /\ Cardinality(Visitors) \in Nat
    BY <2>2, Smaller, RegistrationAssumption
  <2>. QED
    BY <2>3, FS_Singleton
<1>3. UsableCodes(p) = {}
  BY DEF RegistrationInit, EmailsProved, UsableCodes, Usable
<1>4. LiveRows(p) \subseteq {1}
  BY DEF RegistrationInit, RegistrationIdle, LiveRows
<1>5. Missed(p, {}) \subseteq {1}
  BY <1>4 DEF Missed
<1>6. Cardinality(Missed(p, {})) <= 1 /\ Cardinality(Missed(p, {})) \in Nat
  <2>1. IsFiniteSet({1}) /\ Cardinality({1}) = 1
    BY FS_Singleton
  <2>. QED
    BY <1>5, <2>1, Smaller
<1>7. CodesBound(p)
  BY <1>1, <1>2, <1>3 DEF CodesBound
<1>8. RowsBound(p)
  <2>. SUFFICES ASSUME NEW S \in SUBSET Replacing(p)
                PROVE  Cardinality(Missed(p, S)) + Cardinality(S) <= Cardinality(Visitors)
    BY DEF RowsBound
  <2>1. S = {}
    BY <1>1
  <2>. QED
    BY <1>1, <1>2, <1>6, <2>1
<1>. QED
  BY <1>7, <1>8

\* However requests for codes race, an address has at most one usable code,
\* and a number one row, per session.
THEOREM CodesAreBounded == RegistrationSpec => []CodesBounded
<1>1. BoundInv => CodesBounded
  <2>. SUFFICES ASSUME BoundInv, NEW p \in Persons
                PROVE  /\ Cardinality(UsableCodes(p)) <= Cardinality(Visitors)
                       /\ Cardinality(LiveRows(p)) <= Cardinality(Visitors)
    BY DEF CodesBounded, UsableCodes
  <2>1. /\ Cardinality(UsableCodes(p)) \in Nat /\ Cardinality(Sending(p)) \in Nat
        /\ Cardinality(Visitors) \in Nat
    BY BoundSets, RegistrationAssumption, FS_CardinalityType
  <2>2. Missed(p, {}) = LiveRows(p) /\ Cardinality({}) = 0 /\ {} \in SUBSET Replacing(p)
    BY FS_EmptySet DEF Missed
  <2>3. Cardinality(Missed(p, {})) + Cardinality({}) <= Cardinality(Visitors)
    BY <2>2 DEF BoundInv, RowsBound
  <2>4. Cardinality(LiveRows(p)) \in Nat
    BY BoundSets, FS_CardinalityType
  <2>5. Cardinality(UsableCodes(p)) + Cardinality(Sending(p)) <= Cardinality(Visitors)
    BY DEF BoundInv, CodesBound
  <2>. QED
    BY <2>1, <2>2, <2>3, <2>4, <2>5
<1>. QED
  BY <1>1, BoundInit, BoundNext, PTL DEF RegistrationSpec

=============================================================================
