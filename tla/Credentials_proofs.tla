-------------------------- MODULE Credentials_proofs --------------------------
(***************************************************************************)
(* Type correctness of Credentials, the bound on the passwords one reset   *)
(* code sets, and the bound on the sessions that outlive a sign-out of     *)
(* all, for any number of clients, codes and sessions.                     *)
(***************************************************************************)
EXTENDS Credentials, FiniteSetTheorems, TLAPS

-----------------------------------------------------------------------------
\* Type correctness: a request that is about to write has the password or
\* the code that it writes.

Referring ==
    \A c \in Clients :
        /\ phase[c] = "setPassword" => call[c].new \in Passwords
        /\ phase[c] = "markUsed" => call[c].code \in ResetCodes

Typed == CredentialsTypeOK /\ Referring

LEMMA InitTyped == CredentialsInit => Typed
  BY DEF CredentialsInit, Typed, CredentialsTypeOK, Referring, Session, Phases, Call, NoCall

LEMMA EndCallTyped ==
    ASSUME Typed, NEW c \in Clients, EndCall(c)
    PROVE  phase' \in [Clients -> Phases] /\ call' \in [Clients -> Call] /\ Referring'
<1>1. NoCall \in Call
  BY DEF NoCall, Call
<1>. QED
  BY <1>1 DEF Typed, CredentialsTypeOK, Referring, EndCall, EnterPhase, Phases

\* A step that takes a call on as it is.
LEMMA EnterPhaseTyped ==
    ASSUME Typed, NEW c \in Clients, NEW next \in Phases, EnterPhase(c, next), UNCHANGED call,
           next # "setPassword", next = "markUsed" => call[c].code \in ResetCodes
    PROVE  phase' \in [Clients -> Phases] /\ call' \in [Clients -> Call] /\ Referring'
  BY DEF Typed, CredentialsTypeOK, Referring, EnterPhase

LEMMA TakeCallTyped ==
    ASSUME Typed, NEW c \in Clients, NEW next \in Phases, NEW arguments \in Call,
           TakeCall(c, next, arguments),
           next = "setPassword" => arguments.new \in Passwords,
           next # "markUsed"
    PROVE  Typed'
  BY DEF Typed, CredentialsTypeOK, Referring, TakeCall, EnterPhase, rowVars

LEMMA LoggedOutTyped == ASSUME Typed PROVE LoggedOut \in [Tokens -> Session]
  BY DEF Typed, CredentialsTypeOK, LoggedOut, Session

LEMMA NextTyped == Typed /\ [CredentialsNext]_credentialVars => Typed'
<1>. SUFFICES ASSUME Typed, [CredentialsNext]_credentialVars PROVE Typed'
  OBVIOUS
<1>1. ASSUME NEW c \in Clients, Login(c) PROVE Typed'
  <2>1. [NoCall EXCEPT !.old = password] \in Call
    BY DEF Typed, CredentialsTypeOK, NoCall, Call
  <2>. QED
    BY <1>1, <2>1, TakeCallTyped DEF Login, Phases
<1>2. ASSUME NEW c \in Clients, CreateSession(c) PROVE Typed'
  <2>1. [status |-> "ACTIVE", opened |-> call[c].old] \in Session
    BY DEF Typed, CredentialsTypeOK, Call, Session
  <2>. QED
    BY <1>2, <2>1, EndCallTyped DEF CreateSession, Typed, CredentialsTypeOK
<1>3. ASSUME NEW c \in Clients, ForgotPassword(c) PROVE Typed'
  <2>1. NoCall \in Call
    BY DEF NoCall, Call
  <2>. QED
    BY <1>3, <2>1, TakeCallTyped DEF ForgotPassword, Phases
<1>4. ASSUME NEW c \in Clients, InvalidateOldTokens(c) PROVE Typed'
  <2>1. phase' \in [Clients -> Phases] /\ call' \in [Clients -> Call] /\ Referring'
    BY <1>4, EnterPhaseTyped DEF InvalidateOldTokens, Phases
  <2>. QED
    BY <1>4, <2>1 DEF InvalidateOldTokens, Typed, CredentialsTypeOK
<1>5. ASSUME NEW c \in Clients, CreateResetToken(c) PROVE Typed'
  BY <1>5, EndCallTyped DEF CreateResetToken, Typed, CredentialsTypeOK
<1>6. ASSUME NEW c \in Clients, NEW k \in ResetCodes, NEW new \in Passwords, ResetPassword(c, k, new)
      PROVE Typed'
  <2>1. [NoCall EXCEPT !.new = new, !.code = k] \in Call
    BY DEF NoCall, Call
  <2>2. [NoCall EXCEPT !.new = new, !.code = k].new = new
    BY DEF NoCall
  <2>. QED
    BY <1>6, <2>1, <2>2, TakeCallTyped DEF ResetPassword, Phases
<1>7. ASSUME NEW c \in Clients, NEW new \in Passwords, NEW everywhere \in BOOLEAN,
             ChangePassword(c, new, everywhere)
      PROVE Typed'
  <2>. DEFINE arguments == [NoCall EXCEPT !.old = password, !.new = new, !.everywhere = everywhere]
  <2>1. arguments \in Call /\ arguments.new = new
    BY DEF NoCall, Call, Typed, CredentialsTypeOK
  <2>2. TakeCall(c, "setPassword", arguments)
    BY <1>7 DEF ChangePassword
  <2>. HIDE DEF arguments
  <2>. QED
    BY <2>1, <2>2, TakeCallTyped DEF Phases
<1>8. ASSUME NEW c \in Clients, UpdatePassword(c) PROVE Typed'
  <2>1. call[c].new \in Passwords /\ call[c].code \in ResetCodes \cup {NoValue}
    BY <1>8 DEF UpdatePassword, Typed, CredentialsTypeOK, Referring, Call
  <2>2. password' \in Passwords /\ current' \subseteq Passwords
    BY <1>8, <2>1 DEF UpdatePassword, Typed, CredentialsTypeOK
  <2>3. resets' \in [ResetCodes -> Nat]
    BY <1>8, <2>1 DEF UpdatePassword, Typed, CredentialsTypeOK
  <2>4. phase' \in [Clients -> Phases] /\ call' \in [Clients -> Call] /\ Referring'
    BY <1>8, <2>1, EndCallTyped, EnterPhaseTyped DEF UpdatePassword, Phases
  <2>. QED
    BY <1>8, <2>2, <2>3, <2>4 DEF UpdatePassword, Typed, CredentialsTypeOK
<1>9. ASSUME NEW c \in Clients, MarkTokenAsUsed(c) PROVE Typed'
  BY <1>9, EndCallTyped DEF MarkTokenAsUsed, MarkedUsed, Typed, CredentialsTypeOK
<1>10. ASSUME NEW c \in Clients, LogoutAllSessions(c) PROVE Typed'
  BY <1>10, EndCallTyped, LoggedOutTyped DEF LogoutAllSessions, Typed, CredentialsTypeOK
<1>11. ASSUME NEW c \in Clients, SignOutAll(c) PROVE Typed'
  BY <1>11, LoggedOutTyped DEF SignOutAll, Typed, CredentialsTypeOK, Referring
<1>12. ASSUME NEW c \in Clients, CutShort(c) PROVE Typed'
  <2>1. CASE phase[c] = "markUsed"
    <3>1. call[c].code \in ResetCodes /\ cuts[call[c].code] \in Nat
      BY <2>1 DEF Typed, CredentialsTypeOK, Referring
    <3>. QED
      BY <1>12, <2>1, <3>1, EndCallTyped DEF CutShort, Typed, CredentialsTypeOK
  <2>2. CASE phase[c] # "markUsed"
    BY <1>12, <2>2, EndCallTyped DEF CutShort, Typed, CredentialsTypeOK
  <2>. QED
    BY <2>1, <2>2
<1>13. ASSUME NEW t \in Tokens, SignOut(t) PROVE Typed'
  BY <1>13 DEF SignOut, Typed, CredentialsTypeOK, Referring, Session
<1>14. ASSUME NEW k \in ResetCodes, ResetCodeExpires(k) PROVE Typed'
  BY <1>14 DEF ResetCodeExpires, Typed, CredentialsTypeOK, Referring
<1>15. CASE UNCHANGED credentialVars
  BY <1>15 DEF credentialVars, Typed, CredentialsTypeOK, Referring
<1>. QED
  BY <1>1, <1>2, <1>3, <1>4, <1>5, <1>6, <1>7, <1>8, <1>9, <1>10, <1>11, <1>12, <1>13, <1>14, <1>15
     DEF CredentialsNext

\* Every reachable state of the password, the sessions and the reset codes
\* is well typed.
THEOREM CredentialsTypeCorrect == CredentialsSpec => []CredentialsTypeOK
<1>1. CredentialsSpec => []Typed
  BY InitTyped, NextTyped, PTL DEF CredentialsSpec
<1>. QED
  BY <1>1, PTL DEF Typed

-----------------------------------------------------------------------------
\* The passwords a code sets.  As long as it is usable, each was set by a
\* request that is about to mark it used, or was cut off before it could;
\* from then on only requests that had found it usable may set one more.

Setting(k) == {c \in Clients : phase[c] = "setPassword" /\ call[c].code = k}
Marking(k) == {c \in Clients : phase[c] = "markUsed" /\ call[c].code = k}

CodeInv(k) ==
    /\ resetCode[k] = "none" => Setting(k) = {}
    /\ resetCode[k] # "used" => resets[k] <= cuts[k] + Cardinality(Marking(k))
    /\ resetCode[k] = "used" => resets[k] + Cardinality(Setting(k)) <= cuts[k] + Cardinality(Clients)

ResetInv == Typed /\ \A k \in ResetCodes : CodeInv(k)

LEMMA ClientsFinite == IsFiniteSet(Clients) /\ Cardinality(Clients) \in Nat \ {0}
  BY CredentialsAssumption, FS_CardinalityType, FS_EmptySet

LEMMA RequestsFinite ==
    ASSUME NEW k
    PROVE  /\ IsFiniteSet(Setting(k)) /\ Cardinality(Setting(k)) \in Nat
           /\ IsFiniteSet(Marking(k)) /\ Cardinality(Marking(k)) \in Nat
           /\ Cardinality(Setting(k)) + Cardinality(Marking(k)) <= Cardinality(Clients)
<1>1. Setting(k) \subseteq Clients /\ Marking(k) \subseteq Clients /\ Setting(k) \cap Marking(k) = {}
  BY DEF Setting, Marking
<1>2. IsFiniteSet(Setting(k)) /\ IsFiniteSet(Marking(k))
  BY <1>1, ClientsFinite, FS_Subset
<1>3. Cardinality(Setting(k)) \in Nat /\ Cardinality(Marking(k)) \in Nat
  BY <1>2, FS_CardinalityType
<1>4. Cardinality(Setting(k) \cup Marking(k)) =
        Cardinality(Setting(k)) + Cardinality(Marking(k)) - Cardinality(Setting(k) \cap Marking(k))
  BY <1>2, FS_Union
<1>5. Cardinality(Setting(k) \cup Marking(k)) <= Cardinality(Clients)
  BY <1>1, ClientsFinite, FS_Subset
<1>. QED
  BY <1>1, <1>2, <1>3, <1>4, <1>5, FS_EmptySet

\* The same of the next state.
LEMMA RequestsFiniteNext ==
    ASSUME NEW k
    PROVE  /\ IsFiniteSet(Setting(k)') /\ Cardinality(Setting(k)') \in Nat
           /\ IsFiniteSet(Marking(k)') /\ Cardinality(Marking(k)') \in Nat
<1>1. Setting(k)' \subseteq Clients /\ Marking(k)' \subseteq Clients
  BY DEF Setting, Marking
<1>. QED
  BY <1>1, ClientsFinite, FS_Subset, FS_CardinalityType

\* A step that sets no password with code k, marks it no more used than
\* before, and is followed by no new request that holds it.
LEMMA NothingSet ==
    ASSUME Typed, Typed', NEW k \in ResetCodes, CodeInv(k),
           resetCode'[k] = "used" <=> resetCode[k] = "used",
           resetCode'[k] = "none" => resetCode[k] = "none",
           resets'[k] = resets[k], cuts'[k] = cuts[k],
           Setting(k)' \subseteq Setting(k), Marking(k) \subseteq Marking(k)'
    PROVE  CodeInv(k)'
<1>1. Cardinality(Setting(k)') <= Cardinality(Setting(k))
  BY RequestsFinite, FS_Subset
<1>2. Cardinality(Marking(k)) <= Cardinality(Marking(k)')
  BY RequestsFiniteNext, FS_Subset
<1>3. resets[k] \in Nat /\ cuts[k] \in Nat
  BY DEF Typed, CredentialsTypeOK
<1>. QED
  BY <1>1, <1>2, <1>3, RequestsFinite, RequestsFiniteNext, ClientsFinite DEF CodeInv

\* A step after which code k is used.
LEMMA CodeUsed ==
    ASSUME Typed, NEW k \in ResetCodes, CodeInv(k), resetCode'[k] = "used",
           resets'[k] = resets[k], cuts'[k] = cuts[k], Setting(k)' \subseteq Setting(k)
    PROVE  CodeInv(k)'
<1>1. Cardinality(Setting(k)') <= Cardinality(Setting(k))
  BY RequestsFinite, FS_Subset
<1>2. resets[k] \in Nat /\ cuts[k] \in Nat
  BY DEF Typed, CredentialsTypeOK
<1>3. resets[k] + Cardinality(Setting(k)) <= cuts[k] + Cardinality(Clients)
  BY <1>2, RequestsFinite, ClientsFinite DEF CodeInv
<1>. QED
  BY <1>1, <1>2, <1>3, RequestsFinite, RequestsFiniteNext, ClientsFinite DEF CodeInv

\* A step that sets a password with code k: a request that was about to do
\* so is now about to mark the code.
LEMMA PasswordSet ==
    ASSUME Typed, NEW k \in ResetCodes, CodeInv(k), NEW c \in Setting(k),
           resetCode'[k] = resetCode[k], resets'[k] = resets[k] + 1, cuts'[k] = cuts[k],
           Setting(k)' \subseteq Setting(k) \ {c}, Marking(k)' = Marking(k) \cup {c}
    PROVE  CodeInv(k)'
<1>1. IsFiniteSet(Setting(k) \ {c}) /\ Cardinality(Setting(k) \ {c}) = Cardinality(Setting(k)) - 1
  BY RequestsFinite, FS_RemoveElement
<1>2. Cardinality(Setting(k)') <= Cardinality(Setting(k)) - 1
  BY <1>1, FS_Subset
<1>3. c \notin Marking(k)
  BY DEF Setting, Marking
<1>4. Cardinality(Marking(k)') = Cardinality(Marking(k)) + 1
  BY <1>3, RequestsFinite, FS_AddElement
<1>5. resets[k] \in Nat /\ cuts[k] \in Nat
  BY DEF Typed, CredentialsTypeOK
<1>6. resetCode[k] # "none"
  BY DEF CodeInv
<1>. QED
  BY <1>2, <1>4, <1>5, <1>6, RequestsFinite, RequestsFiniteNext, ClientsFinite DEF CodeInv

\* A step that cuts a request off which was about to mark code k.
LEMMA MarkingCut ==
    ASSUME Typed, NEW k \in ResetCodes, CodeInv(k), NEW c \in Marking(k),
           resetCode'[k] = resetCode[k], resets'[k] = resets[k], cuts'[k] = cuts[k] + 1,
           Setting(k)' \subseteq Setting(k), Marking(k)' = Marking(k) \ {c}
    PROVE  CodeInv(k)'
<1>1. Cardinality(Setting(k)') <= Cardinality(Setting(k))
  BY RequestsFinite, FS_Subset
<1>2. Cardinality(Marking(k)') = Cardinality(Marking(k)) - 1
  BY RequestsFinite, FS_RemoveElement
<1>3. resets[k] \in Nat /\ cuts[k] \in Nat
  BY DEF Typed, CredentialsTypeOK
<1>. QED
  BY <1>1, <1>2, <1>3, RequestsFinite, RequestsFiniteNext, ClientsFinite DEF CodeInv

LEMMA EndCallRequests ==
    ASSUME Typed, NEW c \in Clients, EndCall(c), NEW k \in ResetCodes
    PROVE  Setting(k)' = Setting(k) \ {c} /\ Marking(k)' = Marking(k) \ {c}
  BY DEF Typed, CredentialsTypeOK, EndCall, EnterPhase, Setting, Marking

\* A step of a client's that keeps its arguments and leads elsewhere.
LEMMA EnterPhaseRequests ==
    ASSUME Typed, NEW c \in Clients, NEW next, EnterPhase(c, next), UNCHANGED call,
           next \notin {"setPassword", "markUsed"}, NEW k \in ResetCodes
    PROVE  Setting(k)' = Setting(k) \ {c} /\ Marking(k)' = Marking(k) \ {c}
  BY DEF Typed, CredentialsTypeOK, EnterPhase, Setting, Marking

\* A new request that does not hold code k.
LEMMA TakeCallRequests ==
    ASSUME Typed, Typed', NEW c \in Clients, NEW next \in Phases, NEW arguments,
           TakeCall(c, next, arguments), NEW k \in ResetCodes, CodeInv(k),
           next # "markUsed", next = "setPassword" => arguments.code # k
    PROVE  CodeInv(k)'
<1>1. Setting(k)' = Setting(k) /\ Marking(k)' = Marking(k)
  BY DEF Typed, CredentialsTypeOK, TakeCall, EnterPhase, Setting, Marking
<1>. QED
  BY <1>1, NothingSet DEF TakeCall, rowVars

LEMMA ResetNext == ResetInv /\ [CredentialsNext]_credentialVars => ResetInv'
<1>. SUFFICES ASSUME ResetInv, [CredentialsNext]_credentialVars, NEW k \in ResetCodes
              PROVE  CodeInv(k)'
  BY NextTyped DEF ResetInv
<1>. Typed /\ Typed' /\ CodeInv(k)
  BY NextTyped DEF ResetInv
<1>0. NoValue \notin ResetCodes
  BY CredentialsAssumption
<1>1. ASSUME NEW c \in Clients, Login(c) PROVE CodeInv(k)'
  BY <1>1, TakeCallRequests DEF Login, Phases
<1>2. ASSUME NEW c \in Clients, CreateSession(c) PROVE CodeInv(k)'
  <2>1. Setting(k)' \subseteq Setting(k) /\ Marking(k) \subseteq Marking(k)'
    BY <1>2, EndCallRequests DEF CreateSession, Marking
  <2>. QED
    BY <1>2, <2>1, NothingSet DEF CreateSession
<1>3. ASSUME NEW c \in Clients, ForgotPassword(c) PROVE CodeInv(k)'
  BY <1>3, TakeCallRequests DEF ForgotPassword, Phases
<1>4. ASSUME NEW c \in Clients, InvalidateOldTokens(c) PROVE CodeInv(k)'
  <2>1. Setting(k)' \subseteq Setting(k) /\ Marking(k) \subseteq Marking(k)'
    BY <1>4, EnterPhaseRequests DEF InvalidateOldTokens, Marking
  <2>. QED
    BY <1>4, <2>1, NothingSet, CodeUsed DEF InvalidateOldTokens, Typed, CredentialsTypeOK
<1>5. ASSUME NEW c \in Clients, CreateResetToken(c) PROVE CodeInv(k)'
  <2>1. Setting(k)' \subseteq Setting(k) /\ Marking(k) \subseteq Marking(k)'
    BY <1>5, EndCallRequests DEF CreateResetToken, Marking
  <2>2. /\ resetCode'[k] = "used" <=> resetCode[k] = "used"
        /\ resetCode'[k] = "none" => resetCode[k] = "none"
    BY <1>5 DEF CreateResetToken, Typed, CredentialsTypeOK
  <2>. QED
    BY <1>5, <2>1, <2>2, NothingSet DEF CreateResetToken
<1>6. ASSUME NEW c \in Clients, NEW j \in ResetCodes, NEW new \in Passwords, ResetPassword(c, j, new)
      PROVE CodeInv(k)'
  <2>1. CASE j # k
    <3>1. [NoCall EXCEPT !.new = new, !.code = j].code # k
      BY <2>1 DEF NoCall
    <3>. QED
      BY <1>6, <3>1, TakeCallRequests DEF ResetPassword, Phases
  <2>2. CASE j = k
    <3>1. Marking(k)' = Marking(k)
      BY <1>6 DEF ResetPassword, TakeCall, EnterPhase, Marking, Typed, CredentialsTypeOK
    <3>2. resetCode[k] = "valid" /\ UNCHANGED <<resetCode, resets, cuts>>
      BY <1>6, <2>2 DEF ResetPassword, TakeCall, rowVars
    <3>. QED
      BY <3>1, <3>2 DEF CodeInv
  <2>. QED
    BY <2>1, <2>2
<1>7. ASSUME NEW c \in Clients, NEW new \in Passwords, NEW everywhere \in BOOLEAN,
             ChangePassword(c, new, everywhere)
      PROVE CodeInv(k)'
  <2>. DEFINE arguments == [NoCall EXCEPT !.old = password, !.new = new, !.everywhere = everywhere]
  <2>1. TakeCall(c, "setPassword", arguments) /\ arguments.code # k
    BY <1>0, <1>7 DEF ChangePassword, NoCall
  <2>. HIDE DEF arguments
  <2>. QED
    BY <2>1, TakeCallRequests DEF Phases
<1>8. ASSUME NEW c \in Clients, UpdatePassword(c) PROVE CodeInv(k)'
  <2>1. CASE call[c].code = k
    <3>1. c \in Setting(k)
      BY <1>8, <2>1 DEF UpdatePassword, Setting
    <3>2. resets' = [resets EXCEPT ![k] = @ + 1] /\ EnterPhase(c, "markUsed")
          /\ UNCHANGED <<call, resetCode, cuts>>
      BY <1>0, <1>8, <2>1 DEF UpdatePassword
    <3>3. resets'[k] = resets[k] + 1
      BY <3>2 DEF Typed, CredentialsTypeOK
    <3>4. Setting(k)' \subseteq Setting(k) \ {c} /\ Marking(k)' = Marking(k) \cup {c}
      BY <2>1, <3>2 DEF EnterPhase, Setting, Marking, Typed, CredentialsTypeOK
    <3>. QED
      BY <3>1, <3>2, <3>3, <3>4, PasswordSet
  <2>2. CASE call[c].code # k
    <3>1. resets'[k] = resets[k]
      BY <1>8, <2>2 DEF UpdatePassword, Typed, CredentialsTypeOK
    <3>2. Setting(k)' \subseteq Setting(k) /\ Marking(k) \subseteq Marking(k)'
      BY <1>0, <1>8, <2>2
         DEF UpdatePassword, EnterPhase, EndCall, NoCall, Setting, Marking, Typed, CredentialsTypeOK
    <3>. QED
      BY <1>8, <3>1, <3>2, NothingSet DEF UpdatePassword
  <2>. QED
    BY <2>1, <2>2
<1>9. ASSUME NEW c \in Clients, MarkTokenAsUsed(c) PROVE CodeInv(k)'
  <2>1. Setting(k)' \subseteq Setting(k) /\ Marking(k)' = Marking(k) \ {c}
    BY <1>9, EndCallRequests DEF MarkTokenAsUsed
  <2>2. CASE call[c].code = k
    <3>1. resetCode'[k] = "used"
      BY <1>9, <2>2 DEF MarkTokenAsUsed, MarkedUsed, Typed, CredentialsTypeOK
    <3>. QED
      BY <1>9, <2>1, <3>1, CodeUsed DEF MarkTokenAsUsed
  <2>3. CASE call[c].code # k
    <3>1. resetCode'[k] = resetCode[k]
      BY <1>9, <2>3 DEF MarkTokenAsUsed, MarkedUsed, Typed, CredentialsTypeOK
    <3>2. Marking(k) \subseteq Marking(k)'
      BY <2>1, <2>3 DEF Marking
    <3>. QED
      BY <1>9, <2>1, <3>1, <3>2, NothingSet DEF MarkTokenAsUsed
  <2>. QED
    BY <2>2, <2>3
<1>10. ASSUME NEW c \in Clients, LogoutAllSessions(c) PROVE CodeInv(k)'
  <2>1. Setting(k)' \subseteq Setting(k) /\ Marking(k) \subseteq Marking(k)'
    BY <1>10, EndCallRequests DEF LogoutAllSessions, Marking
  <2>. QED
    BY <1>10, <2>1, NothingSet DEF LogoutAllSessions
<1>11. ASSUME NEW c \in Clients, CutShort(c) PROVE CodeInv(k)'
  <2>1. Setting(k)' \subseteq Setting(k) /\ Marking(k)' = Marking(k) \ {c}
    BY <1>11, EndCallRequests DEF CutShort
  <2>2. CASE c \in Marking(k)
    <3>1. cuts'[k] = cuts[k] + 1
      BY <1>11, <2>2 DEF CutShort, Marking, Typed, CredentialsTypeOK
    <3>. QED
      BY <1>11, <2>1, <2>2, <3>1, MarkingCut DEF CutShort
  <2>3. CASE c \notin Marking(k)
    <3>1. cuts'[k] = cuts[k]
      BY <1>11, <2>3 DEF CutShort, Marking, Typed, CredentialsTypeOK
    <3>. QED
      BY <1>11, <2>1, <2>3, <3>1, NothingSet DEF CutShort
  <2>. QED
    BY <2>2, <2>3
<1>12. ASSUME UNCHANGED <<resetCode, resets, cuts, phase, call>> PROVE CodeInv(k)'
  BY <1>12 DEF CodeInv, Setting, Marking
<1>13. ASSUME NEW j \in ResetCodes, ResetCodeExpires(j) PROVE CodeInv(k)'
  <2>1. Setting(k)' = Setting(k) /\ Marking(k)' = Marking(k)
    BY <1>13 DEF ResetCodeExpires, Setting, Marking
  <2>. QED
    BY <1>13, <2>1, NothingSet, CodeUsed DEF ResetCodeExpires, Typed, CredentialsTypeOK
<1>. QED
  BY <1>1, <1>2, <1>3, <1>4, <1>5, <1>6, <1>7, <1>8, <1>9, <1>10, <1>11, <1>12, <1>13
     DEF CredentialsNext, SignOutAll, SignOut, credentialVars

LEMMA ResetInit == CredentialsInit => ResetInv
<1>. SUFFICES ASSUME CredentialsInit, NEW k \in ResetCodes PROVE CodeInv(k)
  BY InitTyped DEF ResetInv
<1>1. Setting(k) = {} /\ resetCode[k] = "none" /\ resets[k] = 0 /\ cuts[k] = 0
  BY DEF CredentialsInit, Setting
<1>. QED
  BY <1>1, RequestsFinite DEF CodeInv

\* For any number of clients, a reset code sets at most one password for
\* each of them, and one more for each request that was cut off between the
\* two commits of reset_password_service.
THEOREM ResetsAreBounded == CredentialsSpec => []ResetsBounded
<1>1. ResetInv => ResetsBounded
  <2>. SUFFICES ASSUME ResetInv, NEW k \in ResetCodes
                PROVE  resets[k] <= Cardinality(Clients) + cuts[k]
    BY DEF ResetsBounded
  <2>. resets[k] \in Nat /\ cuts[k] \in Nat /\ CodeInv(k)
    BY DEF ResetInv, Typed, CredentialsTypeOK
  <2>. QED
    BY RequestsFinite, ClientsFinite DEF CodeInv
<1>2. CredentialsSpec => []ResetInv
  BY ResetInit, ResetNext, PTL DEF CredentialsSpec
<1>. QED
  BY <1>1, <1>2, PTL

-----------------------------------------------------------------------------
\* Stale logins.  A session opened with a password given up before the last
\* sign-out of all comes from a login that had checked it: those sessions
\* and those logins together are fewer than the clients, because the client
\* that signed everybody out is none of them.

Stale == {t \in Tokens : token[t].status = "ACTIVE" /\ token[t].opened \notin current}
LoggingIn == {c \in Clients : phase[c] = "openSession" /\ call[c].old \notin current}

StaleInv ==
    /\ Typed
    /\ password \in current
    /\ Cardinality(Stale) + Cardinality(LoggingIn) < Cardinality(Clients)

LEMMA StaleFinite ==
    /\ IsFiniteSet(Stale) /\ Cardinality(Stale) \in Nat
    /\ IsFiniteSet(LoggingIn) /\ Cardinality(LoggingIn) \in Nat
<1>1. Stale \subseteq Tokens /\ LoggingIn \subseteq Clients
  BY DEF Stale, LoggingIn
<1>. QED
  BY <1>1, CredentialsAssumption, FS_Subset, FS_CardinalityType

\* The same of the next state.
LEMMA StaleFiniteNext ==
    Cardinality(Stale') \in Nat /\ Cardinality(LoggingIn') \in Nat
<1>1. Stale' \subseteq Tokens /\ LoggingIn' \subseteq Clients
  BY DEF Stale, LoggingIn
<1>. QED
  BY <1>1, CredentialsAssumption, FS_Subset, FS_CardinalityType

\* A step that opens no stale session and starts no stale login.
LEMMA NothingStale ==
    ASSUME StaleInv, Stale' \subseteq Stale, LoggingIn' \subseteq LoggingIn
    PROVE  Cardinality(Stale') + Cardinality(LoggingIn') < Cardinality(Clients)
<1>1. Cardinality(Stale') <= Cardinality(Stale) /\ Cardinality(LoggingIn') <= Cardinality(LoggingIn)
  BY StaleFinite, FS_Subset
<1>. QED
  BY <1>1, StaleFinite, StaleFiniteNext, ClientsFinite DEF StaleInv

\* A stale login opens its session.
LEMMA StaleOpened ==
    ASSUME StaleInv, NEW c \in LoggingIn, NEW t,
           Stale' \subseteq Stale \cup {t}, LoggingIn' \subseteq LoggingIn \ {c}
    PROVE  Cardinality(Stale') + Cardinality(LoggingIn') < Cardinality(Clients)
<1>1. /\ IsFiniteSet(Stale \cup {t})
      /\ Cardinality(Stale \cup {t}) = IF t \in Stale THEN Cardinality(Stale) ELSE Cardinality(Stale) + 1
  BY StaleFinite, FS_AddElement, Zenon
<1>2. Cardinality(Stale') <= Cardinality(Stale \cup {t})
  BY <1>1, FS_Subset
<1>3. Cardinality(Stale') <= Cardinality(Stale) + 1
  BY <1>1, <1>2, StaleFinite, StaleFiniteNext
<1>4. IsFiniteSet(LoggingIn \ {c}) /\ Cardinality(LoggingIn \ {c}) = Cardinality(LoggingIn) - 1
  BY StaleFinite, FS_RemoveElement
<1>5. Cardinality(LoggingIn') <= Cardinality(LoggingIn) - 1
  BY <1>4, FS_Subset
<1>. QED
  BY <1>3, <1>5, StaleFinite, StaleFiniteNext, ClientsFinite DEF StaleInv

\* A client that is not logging in signs everybody out.
LEMMA EverybodyOut ==
    ASSUME Typed, token' = LoggedOut, NEW c \in Clients, c \notin LoggingIn'
    PROVE  Cardinality(Stale') + Cardinality(LoggingIn') < Cardinality(Clients)
<1>1. Stale' = {}
  BY DEF Stale, LoggedOut, Typed, CredentialsTypeOK, Session
<1>2. Cardinality(Stale') = 0
  BY <1>1, FS_EmptySet
<1>3. LoggingIn' \subseteq Clients \ {c}
  BY DEF LoggingIn
<1>4. IsFiniteSet(Clients \ {c}) /\ Cardinality(Clients \ {c}) = Cardinality(Clients) - 1
  BY ClientsFinite, FS_RemoveElement
<1>5. Cardinality(LoggingIn') <= Cardinality(Clients) - 1
  BY <1>3, <1>4, FS_Subset
<1>. QED
  BY <1>2, <1>5, StaleFiniteNext, ClientsFinite

LEMMA StaleNext == StaleInv /\ [CredentialsNext]_credentialVars => StaleInv'
<1>. SUFFICES ASSUME StaleInv, [CredentialsNext]_credentialVars
              PROVE  /\ password' \in current'
                     /\ Cardinality(Stale') + Cardinality(LoggingIn') < Cardinality(Clients)
  BY NextTyped DEF StaleInv
<1>. DEFINE Fewer == Cardinality(Stale') + Cardinality(LoggingIn') < Cardinality(Clients)
<1>. Typed /\ password \in current
  BY DEF StaleInv
<1>1. ASSUME NEW c \in Clients, NEW next \in Phases, NEW arguments,
             TakeCall(c, next, arguments), next = "openSession" => arguments.old \in current
      PROVE  password' \in current' /\ Fewer
  <2>1. Stale' = Stale /\ LoggingIn' \subseteq LoggingIn
    BY <1>1 DEF TakeCall, EnterPhase, rowVars, Stale, LoggingIn, Typed, CredentialsTypeOK
  <2>. QED
    BY <1>1, <2>1, NothingStale DEF TakeCall, rowVars
<1>2. ASSUME NEW c \in Clients, UNCHANGED <<password, token, current>>,
             EndCall(c) \/ \E next \in Phases \ {"openSession"} : EnterPhase(c, next) /\ UNCHANGED call
      PROVE  password' \in current' /\ Fewer
  <2>1. Stale' = Stale /\ LoggingIn' \subseteq LoggingIn
    BY <1>2 DEF EndCall, EnterPhase, Stale, LoggingIn, Typed, CredentialsTypeOK
  <2>. QED
    BY <1>2, <2>1, NothingStale
<1>3. ASSUME NEW c \in Clients, Login(c) PROVE password' \in current' /\ Fewer
  <2>1. [NoCall EXCEPT !.old = password].old = password
    BY DEF NoCall
  <2>. QED
    BY <1>1, <1>3, <2>1 DEF Login, Phases
<1>4. ASSUME NEW c \in Clients, CreateSession(c) PROVE password' \in current' /\ Fewer
  <2>1. PICK t \in Tokens : token' = [token EXCEPT ![t] = [status |-> "ACTIVE", opened |-> call[c].old]]
    BY <1>4 DEF CreateSession
  <2>2. LoggingIn' \subseteq LoggingIn \ {c}
    BY <1>4 DEF CreateSession, EndCall, EnterPhase, LoggingIn, Typed, CredentialsTypeOK
  <2>3. Stale' \subseteq Stale \cup {t}
    BY <1>4, <2>1 DEF CreateSession, Stale, Typed, CredentialsTypeOK
  <2>4. CASE call[c].old \in current
    <3>1. Stale' \subseteq Stale
      BY <1>4, <2>1, <2>4 DEF CreateSession, Stale, Typed, CredentialsTypeOK
    <3>. QED
      BY <1>4, <2>2, <3>1, NothingStale DEF CreateSession
  <2>5. CASE call[c].old \notin current
    <3>1. c \in LoggingIn
      BY <1>4, <2>5 DEF CreateSession, LoggingIn
    <3>. QED
      BY <1>4, <2>2, <2>3, <3>1, StaleOpened DEF CreateSession
  <2>. QED
    BY <2>4, <2>5
<1>5. ASSUME NEW c \in Clients, UpdatePassword(c) PROVE password' \in current' /\ Fewer
  <2>1. current \subseteq current' /\ password' \in current' /\ UNCHANGED token
    BY <1>5 DEF UpdatePassword
  <2>2. Stale' \subseteq Stale
    BY <2>1 DEF Stale
  <2>3. LoggingIn' \subseteq LoggingIn
    BY <1>5, <2>1 DEF UpdatePassword, EndCall, EnterPhase, LoggingIn, Typed, CredentialsTypeOK
  <2>. QED
    BY <2>1, <2>2, <2>3, NothingStale
<1>6. ASSUME NEW c \in Clients, LogoutAllSessions(c) PROVE password' \in current' /\ Fewer
  <2>1. c \notin LoggingIn'
    BY <1>6 DEF LogoutAllSessions, EndCall, EnterPhase, LoggingIn, Typed, CredentialsTypeOK
  <2>. QED
    BY <1>6, <2>1, EverybodyOut DEF LogoutAllSessions
<1>7. ASSUME NEW c \in Clients, SignOutAll(c) PROVE password' \in current' /\ Fewer
  <2>1. c \notin LoggingIn'
    BY <1>7 DEF SignOutAll, LoggingIn
  <2>. QED
    BY <1>7, <2>1, EverybodyOut DEF SignOutAll
<1>8. ASSUME NEW t \in Tokens, SignOut(t) PROVE password' \in current' /\ Fewer
  <2>1. Stale' \subseteq Stale /\ LoggingIn' = LoggingIn
    BY <1>8 DEF SignOut, Stale, LoggingIn, Typed, CredentialsTypeOK, Session
  <2>. QED
    BY <1>8, <2>1, NothingStale DEF SignOut
<1>9. ASSUME UNCHANGED <<password, token, current, phase, call>> PROVE password' \in current' /\ Fewer
  <2>1. Stale' = Stale /\ LoggingIn' = LoggingIn
    BY <1>9 DEF Stale, LoggingIn
  <2>. QED
    BY <1>9, <2>1, NothingStale
<1>10. ASSUME NEW c \in Clients,
              \/ ForgotPassword(c)
              \/ \E new \in Passwords :
                   \/ \E k \in ResetCodes : ResetPassword(c, k, new)
                   \/ \E everywhere \in BOOLEAN : ChangePassword(c, new, everywhere)
       PROVE  password' \in current' /\ Fewer
  BY <1>1, <1>10 DEF ForgotPassword, ResetPassword, ChangePassword, Phases
<1>11. ASSUME NEW c \in Clients,
              InvalidateOldTokens(c) \/ CreateResetToken(c) \/ MarkTokenAsUsed(c) \/ CutShort(c)
       PROVE  password' \in current' /\ Fewer
  BY <1>2, <1>11 DEF InvalidateOldTokens, CreateResetToken, MarkTokenAsUsed, CutShort, Phases
<1>12. CASE \E k \in ResetCodes : ResetCodeExpires(k)
  BY <1>9, <1>12 DEF ResetCodeExpires
<1>13. CASE UNCHANGED credentialVars
  BY <1>9, <1>13 DEF credentialVars
<1>. QED
  BY <1>3, <1>4, <1>5, <1>6, <1>7, <1>8, <1>10, <1>11, <1>12, <1>13 DEF CredentialsNext

LEMMA StaleInit == CredentialsInit => StaleInv
<1>. SUFFICES ASSUME CredentialsInit PROVE StaleInv
  OBVIOUS
<1>1. Stale = {} /\ LoggingIn = {}
  BY DEF CredentialsInit, Stale, LoggingIn
<1>2. Cardinality(Stale) = 0 /\ Cardinality(LoggingIn) = 0
  BY <1>1, FS_EmptySet
<1>. QED
  BY <1>2, InitTyped, ClientsFinite DEF StaleInv, CredentialsInit

\* For any number of clients and sessions, after a sign-out of all the
\* sessions opened with a password given up by then are fewer than the
\* clients.
THEOREM StaleLoginsAreBounded == CredentialsSpec => []StaleLoginsBounded
<1>1. StaleInv => StaleLoginsBounded
  BY StaleFinite, ClientsFinite DEF StaleInv, StaleLoginsBounded, Stale
<1>2. CredentialsSpec => []StaleInv
  BY StaleInit, StaleNext, PTL DEF CredentialsSpec
<1>. QED
  BY <1>1, <1>2, PTL

=============================================================================
