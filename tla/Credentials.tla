------------------------------ MODULE Credentials ------------------------------
(***************************************************************************)
(* One user's password, reset codes and sessions: login, forgotten, reset  *)
(* and changed password, sign-out of one session and of all, in            *)
(* app/service/authentication/auth_service.py.  A request checks the       *)
(* password or the code in one statement and writes in later ones, each    *)
(* with a commit of its own.                                               *)
(***************************************************************************)
EXTENDS Integers, FiniteSets

CONSTANTS
    Clients,     \* sessions that serve the user's requests
    Passwords,
    Tokens,      \* jti of the issued tokens, rows of user_sessions
    ResetCodes,  \* rows of password_reset_tokens
    MaxCuts,     \* bound: resets cut off between the new password and the used code
    NoValue      \* no password, token or code

VARIABLES
    password,    \* users.password_hash
    token,       \* user_sessions, with the password each was opened with
    resetCode,   \* password_reset_tokens
    resets,      \* history: passwords set by each code
    cuts,        \* history: resets by each code cut off before it was marked used
    current,     \* history: passwords valid since the last sign-out of all sessions
    phase, call  \* what each session is doing

credentialVars == <<password, token, resetCode, resets, cuts, current, phase, call>>
rowVars == <<password, token, resetCode, resets, cuts, current>>

ASSUME CredentialsAssumption ==
    /\ IsFiniteSet(Clients) /\ IsFiniteSet(Tokens) /\ IsFiniteSet(ResetCodes)
    /\ Clients # {}
    /\ MaxCuts \in Nat
    /\ NoValue \notin Passwords \cup Tokens \cup ResetCodes

Phases == {"idle", "openSession", "invalidateOld", "createReset", "setPassword", "markUsed",
           "logoutAll"}

Call == [old : Passwords \cup {NoValue}, new : Passwords \cup {NoValue},
         code : ResetCodes \cup {NoValue}, everywhere : BOOLEAN]

NoCall == [old |-> NoValue, new |-> NoValue, code |-> NoValue, everywhere |-> FALSE]

Session == [status : {"NONE", "ACTIVE", "LOGGED_OUT"}, opened : Passwords \cup {NoValue}]

CredentialsTypeOK ==
    /\ password \in Passwords
    /\ token \in [Tokens -> Session]
    /\ resetCode \in [ResetCodes -> {"none", "valid", "used"}]
    /\ resets \in [ResetCodes -> Nat]
    /\ cuts \in [ResetCodes -> Nat]
    /\ current \subseteq Passwords
    /\ phase \in [Clients -> Phases]
    /\ call \in [Clients -> Call]

CredentialsInit ==
    /\ password \in Passwords
    /\ token = [t \in Tokens |-> [status |-> "NONE", opened |-> NoValue]]
    /\ resetCode = [k \in ResetCodes |-> "none"]
    /\ resets = [k \in ResetCodes |-> 0]
    /\ cuts = [k \in ResetCodes |-> 0]
    /\ current = {password}
    /\ phase = [c \in Clients |-> "idle"]
    /\ call = [c \in Clients |-> NoCall]

-----------------------------------------------------------------------------
EnterPhase(c, next) == phase' = [phase EXCEPT ![c] = next]

TakeCall(c, next, arguments) ==
    /\ phase[c] = "idle"
    /\ EnterPhase(c, next)
    /\ call' = [call EXCEPT ![c] = arguments]
    /\ UNCHANGED rowVars

EndCall(c) ==
    /\ EnterPhase(c, "idle")
    /\ call' = [call EXCEPT ![c] = NoCall]

\* login_service, with the right password; create_session follows.
Login(c) == TakeCall(c, "openSession", [NoCall EXCEPT !.old = password])

CreateSession(c) ==
    /\ phase[c] = "openSession"
    /\ \E t \in Tokens :
         /\ token[t].status = "NONE"
         /\ token' = [token EXCEPT ![t] = [status |-> "ACTIVE", opened |-> call[c].old]]
    /\ EndCall(c)
    /\ UNCHANGED <<password, resetCode, resets, cuts, current>>

\* forgot_password_service; the code is sent after both commits.
ForgotPassword(c) == TakeCall(c, "invalidateOld", NoCall)

InvalidateOldTokens(c) ==
    /\ phase[c] = "invalidateOld"
    /\ resetCode' = [k \in ResetCodes |-> IF resetCode[k] = "valid" THEN "used" ELSE resetCode[k]]
    /\ EnterPhase(c, "createReset")
    /\ UNCHANGED <<password, token, resets, cuts, current, call>>

CreateResetToken(c) ==
    /\ phase[c] = "createReset"
    /\ \E k \in ResetCodes :
         /\ resetCode[k] = "none"
         /\ resetCode' = [resetCode EXCEPT ![k] = "valid"]
    /\ EndCall(c)
    /\ UNCHANGED <<password, token, resets, cuts, current>>

\* reset_password_service with code k, up to the comparison with the
\* password in use.
ResetPassword(c, k, new) ==
    /\ resetCode[k] = "valid"
    /\ new # password
    /\ TakeCall(c, "setPassword", [NoCall EXCEPT !.new = new, !.code = k])

\* change_password_service, with the right password.
ChangePassword(c, new, everywhere) ==
    /\ new # password
    /\ TakeCall(c, "setPassword",
                [NoCall EXCEPT !.old = password, !.new = new, !.everywhere = everywhere])

UpdatePassword(c) ==
    LET k == call[c].code IN
    /\ phase[c] = "setPassword"
    /\ password' = call[c].new
    /\ current' = current \cup {call[c].new}
    /\ \/ /\ k # NoValue
          /\ resets' = [resets EXCEPT ![k] = @ + 1]
          /\ EnterPhase(c, "markUsed")
          /\ UNCHANGED call
       \/ /\ k = NoValue
          /\ call[c].everywhere
          /\ EnterPhase(c, "logoutAll")
          /\ UNCHANGED <<resets, call>>
       \/ /\ k = NoValue
          /\ ~call[c].everywhere
          /\ EndCall(c)
          /\ UNCHANGED resets
    /\ UNCHANGED <<token, resetCode, cuts>>

StillValid(k) == resetCode  \* mutant: the code is not marked
MarkedUsed(k) == [resetCode EXCEPT ![k] = "used"]

MarkTokenAsUsed(c) ==
    /\ phase[c] = "markUsed"
    /\ resetCode' = MarkedUsed(call[c].code)
    /\ EndCall(c)
    /\ UNCHANGED <<password, token, resets, cuts, current>>

\* signout_service: the token need only be genuine.
SignOut(t) ==
    /\ token[t].status = "ACTIVE"
    /\ token' = [token EXCEPT ![t].status = "LOGGED_OUT"]
    /\ UNCHANGED <<password, resetCode, resets, cuts, current, phase, call>>

OldestKept ==  \* mutant: only the sessions opened with the password in use
    [t \in Tokens |-> IF token[t].status = "ACTIVE" /\ token[t].opened = password
                      THEN [token[t] EXCEPT !.status = "LOGGED_OUT"] ELSE token[t]]

LoggedOff ==  \* mutant: a status user_sessions does not know
    [t \in Tokens |-> IF token[t].status = "ACTIVE"
                      THEN [token[t] EXCEPT !.status = "LOGGED_OFF"] ELSE token[t]]

LoggedOut ==
    [t \in Tokens |-> IF token[t].status = "ACTIVE"
                      THEN [token[t] EXCEPT !.status = "LOGGED_OUT"] ELSE token[t]]

\* signout_all_service, by a session that may be over itself.
SignOutAll(c) ==
    /\ phase[c] = "idle"
    /\ \E t \in Tokens : token[t].status # "NONE"
    /\ token' = LoggedOut
    /\ current' = {password}
    /\ UNCHANGED <<password, resetCode, resets, cuts, phase, call>>

LogoutAllSessions(c) ==
    /\ phase[c] = "logoutAll"
    /\ token' = LoggedOut
    /\ current' = {password}
    /\ EndCall(c)
    /\ UNCHANGED <<password, resetCode, resets, cuts>>

\* An hour passes.
ResetCodeExpires(k) ==
    /\ resetCode[k] = "valid"
    /\ resetCode' = [resetCode EXCEPT ![k] = "used"]
    /\ UNCHANGED <<password, token, resets, cuts, current, phase, call>>

\* An exception, a cancelled request, a crash.
CutShort(c) ==
    /\ phase[c] # "idle"
    /\ phase[c] = "markUsed" => cuts[call[c].code] < MaxCuts
    /\ cuts' = IF phase[c] = "markUsed" THEN [cuts EXCEPT ![call[c].code] = @ + 1] ELSE cuts
    /\ EndCall(c)
    /\ UNCHANGED <<password, token, resetCode, resets, current>>

CredentialsNext ==
    \/ \E c \in Clients :
         \/ Login(c) \/ CreateSession(c)
         \/ ForgotPassword(c) \/ InvalidateOldTokens(c) \/ CreateResetToken(c)
         \/ \E new \in Passwords :
              \/ \E k \in ResetCodes : ResetPassword(c, k, new)
              \/ \E everywhere \in BOOLEAN : ChangePassword(c, new, everywhere)
         \/ UpdatePassword(c) \/ MarkTokenAsUsed(c) \/ LogoutAllSessions(c)
         \/ SignOutAll(c)
         \/ CutShort(c)
    \/ \E t \in Tokens : SignOut(t)
    \/ \E k \in ResetCodes : ResetCodeExpires(k)

CredentialsSpec == CredentialsInit /\ [][CredentialsNext]_credentialVars

-----------------------------------------------------------------------------
\* A reset code sets a password once; more often only when requests that
\* had found it valid race, once each, or when the request was cut off
\* between its two commits (update_password, mark_token_as_used).
ResetsBounded ==
    \A k \in ResetCodes : resets[k] <= Cardinality(Clients) + cuts[k]

\* After a sign-out of all sessions, one that was opened with a password
\* given up by then comes only from a login that was under way: one per
\* other session of the program at most (logout_all_sessions).
StaleLoginsBounded ==
    Cardinality({t \in Tokens : /\ token[t].status = "ACTIVE"
                                /\ token[t].opened \notin current})
        < Cardinality(Clients)

=============================================================================
