------------------------------ MODULE Registration ------------------------------
(***************************************************************************)
(* From a first one-time code to an account: the e-mail and mobile codes   *)
(* and the two registrations of                                            *)
(* app/service/authentication/auth_service.py.                             *)
(*                                                                         *)
(* Every repository call commits on its own, so that a registration is six *)
(* transactions in a row and its "rollback" undoes the last one at most.   *)
(* Codes are looked up in one statement and marked in a later one.         *)
(***************************************************************************)
EXTENDS Integers, FiniteSets

CONSTANTS
    Persons,     \* an e-mail address with a phone number
    Proved,      \* bound: persons who start with both verified and send no codes
    Visitors,    \* sessions that serve the requests
    EmailCodes,  \* rows of email_verification_tokens per address
    LastRow,     \* bound: ids of mobile_verifications per number, in order of creation
    Nobody       \* no person, code or row

VARIABLES
    emailCode,   \* each address's tokens
    mobileRow,   \* each number's rows
    account,     \* what each person's registration has committed
    company,     \* the number N of the company id COMPN of each person, 0 for none
    cutOff,      \* history: persons whose registration broke off after the user's insertion
    stage, form  \* what each session is doing

registrationVars == <<emailCode, mobileRow, account, company, cutOff, stage, form>>

ASSUME RegistrationAssumption ==
    /\ IsFiniteSet(Persons) /\ IsFiniteSet(Visitors) /\ IsFiniteSet(EmailCodes)
    /\ Proved \subseteq Persons
    /\ EmailCodes # {} /\ Visitors # {}
    /\ LastRow \in Nat \ {0}
    /\ Nobody \notin Persons \cup EmailCodes \cup (1..LastRow)

\* A code is fresh for the minute in which no other is sent, and usable for
\* five; a verified one counts as proof for half an hour.  Afterwards, or
\* when another replaces it, it is of no use.
CodeStates == {"none", "fresh", "usable", "spent", "verified"}
RowStates == {"none", "usable", "expired", "verified"}
Usable == {"fresh", "usable"}

\* users, its email_verified, users_roles, user_subscriptions, the profile.
Parts == {"user", "email", "role", "plan", "profile"}

Stages == {"idle", "invalidate", "createCode", "markCode", "markEmail", "replaceRows",
           "markRow", "createUser", "clearCodes", "addRole", "assignPlan", "addProfile",
           "countCompanies", "addCompany"}
AfterUser == {"clearCodes", "addRole", "assignPlan", "addProfile", "countCompanies", "addCompany"}

Rows == 1..LastRow

Form == [person : Persons \cup {Nobody}, code : EmailCodes \cup {Nobody},
         row : Rows \cup {Nobody}, rows : SUBSET Rows, employer : BOOLEAN, count : Nat]

NoForm == [person |-> Nobody, code |-> Nobody, row |-> Nobody, rows |-> {},
           employer |-> FALSE, count |-> 0]

RegistrationTypeOK ==
    /\ emailCode \in [Persons -> [EmailCodes -> CodeStates]]
    /\ mobileRow \in [Persons -> [Rows -> RowStates]]
    /\ account \in [Persons -> SUBSET Parts]
    /\ company \in [Persons -> Nat]
    /\ cutOff \subseteq Persons
    /\ stage \in [Visitors -> Stages]
    /\ form \in [Visitors -> Form]

\* Persons of Proved have verified their e-mail and their mobile number.
EmailsProved ==
    \E sent \in EmailCodes :
      emailCode = [p \in Persons |-> [k \in EmailCodes |->
                      IF p \in Proved /\ k = sent THEN "verified" ELSE "none"]]

RegistrationIdle ==
    /\ mobileRow = [p \in Persons |-> [r \in Rows |->
                       IF p \in Proved /\ r = 1 THEN "verified" ELSE "none"]]
    /\ account = [p \in Persons |-> {}]
    /\ company = [p \in Persons |-> 0]
    /\ cutOff = {}
    /\ stage = [v \in Visitors |-> "idle"]
    /\ form = [v \in Visitors |-> NoForm]

RegistrationInit == EmailsProved /\ RegistrationIdle

-----------------------------------------------------------------------------
EnterStage(v, next) == stage' = [stage EXCEPT ![v] = next]

StartForm(v, next, f) ==
    /\ stage[v] = "idle"
    /\ EnterStage(v, next)
    /\ form' = [form EXCEPT ![v] = f]
    /\ UNCHANGED <<emailCode, mobileRow, account, company, cutOff>>

CloseForm(v) ==
    /\ EnterStage(v, "idle")
    /\ form' = [form EXCEPT ![v] = NoForm]

LiveRows(p) == {r \in Rows : mobileRow[p][r] # "none"}

-----------------------------------------------------------------------------
\* send_otp_service: no user, and no unused code younger than a minute.
SendOtp(v, p) ==
    /\ p \notin Proved
    /\ account[p] = {}
    /\ \A k \in EmailCodes : emailCode[p][k] # "fresh"
    /\ StartForm(v, "invalidate", [NoForm EXCEPT !.person = p])

KeptCodes(codes) == codes  \* mutant: a new code leaves the earlier ones alone

InvalidatedCodes(codes) ==
    [k \in EmailCodes |-> IF codes[k] \in Usable THEN "spent" ELSE codes[k]]

InvalidateCodes(v) ==
    /\ stage[v] = "invalidate"
    /\ emailCode' = [emailCode EXCEPT ![form[v].person] = InvalidatedCodes(@)]
    /\ EnterStage(v, "createCode")
    /\ UNCHANGED <<mobileRow, account, company, cutOff, form>>

CreateCode(v) ==
    /\ stage[v] = "createCode"
    /\ \E k \in EmailCodes :
         /\ emailCode[form[v].person][k] = "none"
         /\ emailCode' = [emailCode EXCEPT ![form[v].person][k] = "fresh"]
    /\ CloseForm(v)
    /\ UNCHANGED <<mobileRow, account, company, cutOff>>

\* verify_otp_service with the digits of code k.
VerifyOtp(v, p, k) ==
    /\ emailCode[p][k] \in Usable
    /\ StartForm(v, "markCode", [NoForm EXCEPT !.person = p, !.code = k])

\* The UPDATE by id finds no row when a registration has deleted it.
MarkCode(v) ==
    LET p == form[v].person
        k == form[v].code
    IN
    /\ stage[v] = "markCode"
    /\ emailCode' = [emailCode EXCEPT ![p][k] = IF @ = "none" THEN @ ELSE "verified"]
    /\ EnterStage(v, "markEmail")
    /\ UNCHANGED <<mobileRow, account, company, cutOff, form>>

MarkEmail(v) ==
    /\ stage[v] = "markEmail"
    /\ account' = [account EXCEPT ![form[v].person] = IF @ = {} THEN @ ELSE @ \cup {"email"}]
    /\ CloseForm(v)
    /\ UNCHANGED <<emailCode, mobileRow, company, cutOff>>

-----------------------------------------------------------------------------
NoRows(p) == {}  \* mutant: earlier rows of the number are left

\* The rows the DELETE of delete_existing_otps finds.
DeletedRows(p) == LiveRows(p)

\* send_mobile_otp_service: the DELETE, and the INSERT with the one commit.
SendMobileOtp(v, p) ==
    /\ p \notin Proved
    /\ account[p] = {}
    /\ StartForm(v, "replaceRows", [NoForm EXCEPT !.person = p, !.rows = DeletedRows(p)])

\* Later than every row there is, and not the id of a row somebody still refers to.
NewRow(p) ==
    LET askers == {v \in Visitors : form[v].person = p}
        referred == {form[v].row : v \in askers} \cup UNION {form[v].rows : v \in askers}
    IN
    {r \in Rows \ referred : \A q \in LiveRows(p) : q < r}

ReplaceRows(v) ==
    LET p == form[v].person IN
    /\ stage[v] = "replaceRows"
    /\ \E new \in NewRow(p) :
         /\ \A r \in NewRow(p) : new <= r
         /\ mobileRow' = [mobileRow EXCEPT ![p] =
                            [r \in Rows |-> CASE r = new -> "usable"
                                              [] r \in form[v].rows -> "none"
                                              [] OTHER -> @[r]]]
    /\ CloseForm(v)
    /\ UNCHANGED <<emailCode, account, company, cutOff>>

\* verify_mobile_otp_service with the digits of the latest usable row.
VerifyMobileOtp(v, p) ==
    \E r \in Rows :
        /\ mobileRow[p][r] = "usable"
        /\ \A q \in Rows : mobileRow[p][q] = "usable" => q <= r
        /\ StartForm(v, "markRow", [NoForm EXCEPT !.person = p, !.row = r])

\* The flush fails when another request has deleted the row.
MarkRow(v) ==
    /\ stage[v] = "markRow"
    /\ mobileRow' = [mobileRow EXCEPT ![form[v].person][form[v].row] =
                       IF @ = "none" THEN @ ELSE "verified"]
    /\ CloseForm(v)
    /\ UNCHANGED <<emailCode, account, company, cutOff>>

-----------------------------------------------------------------------------
\* candidate_register_service and employer_register_service up to the
\* user's insertion; get_verified_mobile fails when two rows are verified.
Register(v, p, employer) ==
    /\ account[p] = {}
    /\ \E k \in EmailCodes : emailCode[p][k] = "verified"
    /\ Cardinality({r \in Rows : mobileRow[p][r] = "verified"}) = 1
    /\ StartForm(v, "createUser", [NoForm EXCEPT !.person = p, !.employer = employer])

\* uq_users_email and uq_users_mobile.
CreateUser(v) ==
    LET p == form[v].person IN
    /\ stage[v] = "createUser"
    /\ \/ /\ account[p] = {}
          /\ account' = [account EXCEPT ![p] = {"user"}]
          /\ EnterStage(v, "clearCodes")
          /\ UNCHANGED form
       \/ /\ account[p] # {}
          /\ CloseForm(v)
          /\ UNCHANGED account
    /\ UNCHANGED <<emailCode, mobileRow, company, cutOff>>

ClearCodes(v) ==
    LET p == form[v].person IN
    /\ stage[v] = "clearCodes"
    /\ account' = [account EXCEPT ![p] = @ \cup {"email"}]
    /\ emailCode' = [emailCode EXCEPT ![p] = [k \in EmailCodes |-> "none"]]
    /\ EnterStage(v, "addRole")
    /\ UNCHANGED <<mobileRow, company, cutOff, form>>

AddRole(v) ==
    LET p == form[v].person IN
    /\ stage[v] = "addRole"
    /\ account' = [account EXCEPT ![p] = @ \cup {"role"}]
    /\ mobileRow' = [mobileRow EXCEPT ![p] = [r \in Rows |-> "none"]]
    /\ EnterStage(v, "assignPlan")
    /\ UNCHANGED <<emailCode, company, cutOff, form>>

NextAfterPlan(f) == IF f.employer THEN "idle" ELSE "addProfile"  \* mutant: no employer profile
ProfileStage(f) == IF f.employer THEN "countCompanies" ELSE "addProfile"

AssignPlan(v) ==
    LET p == form[v].person IN
    /\ stage[v] = "assignPlan"
    /\ account' = [account EXCEPT ![p] = @ \cup {"plan"}]
    /\ EnterStage(v, ProfileStage(form[v]))
    /\ UNCHANGED <<emailCode, mobileRow, company, cutOff, form>>

AddCandidateProfile(v) ==
    LET p == form[v].person IN
    /\ stage[v] = "addProfile"
    /\ account' = [account EXCEPT ![p] = @ \cup {"profile"}]
    /\ CloseForm(v)
    /\ UNCHANGED <<emailCode, mobileRow, company, cutOff>>

Numbered == {p \in Persons : company[p] # 0}

CountCompanies(v) ==
    /\ stage[v] = "countCompanies"
    /\ form' = [form EXCEPT ![v].count = Cardinality(Numbered)]
    /\ EnterStage(v, "addCompany")
    /\ UNCHANGED <<emailCode, mobileRow, account, company, cutOff>>

SkippedNumber(n) == n + 2  \* mutant: off by one
CompanyNumber(n) == n + 1

\* The employer profile and the company commit together; company_id is
\* unique, and a refusal leaves the user, the role and the plan.
AddCompany(v) ==
    LET p == form[v].person
        n == CompanyNumber(form[v].count)
    IN
    /\ stage[v] = "addCompany"
    /\ \/ /\ \A q \in Persons : company[q] # n
          /\ company' = [company EXCEPT ![p] = n]
          /\ account' = [account EXCEPT ![p] = @ \cup {"profile"}]
          /\ UNCHANGED cutOff
       \/ /\ \E q \in Persons : company[q] = n
          /\ cutOff' = cutOff \cup {p}
          /\ UNCHANGED <<company, account>>
    /\ CloseForm(v)
    /\ UNCHANGED <<emailCode, mobileRow>>

-----------------------------------------------------------------------------
\* An exception, a cancelled request, a crash.
BreakOff(v) ==
    /\ stage[v] # "idle"
    /\ cutOff' = IF stage[v] \in AfterUser THEN cutOff \cup {form[v].person} ELSE cutOff
    /\ CloseForm(v)
    /\ UNCHANGED <<emailCode, mobileRow, account, company>>

Aged(state) ==
    CASE state = "fresh" -> "usable"
      [] state = "usable" -> "spent"
      [] state = "verified" -> "spent"
      [] OTHER -> state

CodeAges(p, k) ==
    /\ Aged(emailCode[p][k]) # emailCode[p][k]
    /\ emailCode' = [emailCode EXCEPT ![p][k] = Aged(@)]
    /\ UNCHANGED <<mobileRow, account, company, cutOff, stage, form>>

RowExpires(p, r) ==
    /\ mobileRow[p][r] = "usable"
    /\ mobileRow' = [mobileRow EXCEPT ![p][r] = "expired"]
    /\ UNCHANGED <<emailCode, account, company, cutOff, stage, form>>

Ask(v) ==
    \E p \in Persons :
        \/ SendOtp(v, p)
        \/ \E k \in EmailCodes : VerifyOtp(v, p, k)
        \/ SendMobileOtp(v, p)
        \/ VerifyMobileOtp(v, p)
        \/ \E employer \in BOOLEAN : Register(v, p, employer)

Serve(v) ==
    \/ InvalidateCodes(v) \/ CreateCode(v) \/ MarkCode(v) \/ MarkEmail(v)
    \/ ReplaceRows(v) \/ MarkRow(v)
    \/ CreateUser(v) \/ ClearCodes(v) \/ AddRole(v) \/ AssignPlan(v)
    \/ AddCandidateProfile(v) \/ CountCompanies(v) \/ AddCompany(v)

RegistrationNext ==
    \/ \E v \in Visitors : Ask(v) \/ Serve(v) \/ BreakOff(v)
    \/ \E p \in Persons :
         \/ \E k \in EmailCodes : CodeAges(p, k)
         \/ \E r \in Rows : RowExpires(p, r)

RegistrationSpec == RegistrationInit /\ [][RegistrationNext]_registrationVars

-----------------------------------------------------------------------------
\* However requests for codes race, an address has at most one usable code
\* per racing session and a number one row: what a session sends replaces
\* everything that existed when it looked (invalidate_active_tokens,
\* delete_existing_otps).  For one session, the latest code is the only one,
\* and get_verified_mobile finds one row at most.
CodesBounded ==
    \A p \in Persons :
        /\ Cardinality({k \in EmailCodes : emailCode[p][k] \in Usable}) <= Cardinality(Visitors)
        /\ Cardinality(LiveRows(p)) <= Cardinality(Visitors)

\* An account with parts missing is being registered by exactly one session,
\* or its registration broke off: no interleaving of codes, verifications
\* and rival registrations leaves one half made.
WholeUnlessCutOff ==
    \A p \in Persons :
        account[p] \notin {{}, Parts} =>
            \/ p \in cutOff
            \/ Cardinality({v \in Visitors : stage[v] \in AfterUser /\ form[v].person = p}) = 1

\* A company number comes from the count of companies: those in use never
\* exceed the count, so that a registration collides only with one that runs
\* at the same time, and not with every later one.
NextCompanyFree ==
    \A p \in Numbered : company[p] <= Cardinality(Numbered)

=============================================================================
