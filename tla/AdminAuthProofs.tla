-------------------------- MODULE AdminAuthProofs --------------------------
(***************************************************************************)
(* Theorems about AdminAuth, for any number of requests, addresses,        *)
(* passwords and session tokens, with reads of the settings that fail.     *)
(***************************************************************************)
EXTENDS AdminAuth, RateLimiterProofs

USE DEF vars, historyVars, limiterVars

-----------------------------------------------------------------------------
(***************************************************************************)
(* The login's throttle is the limiter: what holds for LimiterSpec holds   *)
(* for Spec.                                                               *)
(***************************************************************************)

\* Every step of the admin server is one of the limiter or leaves it alone.
LEMMA LimiterStep == [Next]_vars => [LimiterNext]_limiterVars
<1> SUFFICES ASSUME [Next]_vars PROVE [LimiterNext]_limiterVars
  OBVIOUS
<1>1. ASSUME NEW q \in Caller, Handle(q) PROVE [LimiterNext]_limiterVars
  <2>1. CASE Login(q)
    BY <2>1 DEF Login, LimiterNext
  <2>2. CASE LoginFails(q)
    BY <2>2 DEF LoginFails, LimiterNext
  <2>3. CASE LoginSucceeds(q)
    BY <2>3 DEF LoginSucceeds, LimiterNext
  <2>4. CASE UNCHANGED limiterVars
    BY <2>4
  <2>5. QED
    BY <1>1, <2>1, <2>2, <2>3, <2>4
    DEF Handle, Setup, Verify, CheckLegacy, Change, Confirm, Store, StoreFails, NewSession,
        NoSession, Invalidate
<1>2. CASE Background
  BY <1>2 DEF Background, LimiterNext
<1>3. CASE UNCHANGED limiterVars
  BY <1>3
<1>4. QED
  BY <1>1, <1>2, <1>3 DEF Next, Logout, Reap

\* Authentication implements the limiter.
THEOREM ImplementsLimiter == Spec => LimiterSpec
<1>1. Init => LimiterInit
  BY DEF Init
<1>2. QED
  BY <1>1, LimiterStep, PTL DEF Spec, LimiterSpec

\* However many logins run at once, an address is struck fewer than Max times
\* plus once for each of them in a window.
THEOREM LoginsThrottled == Spec => []StrikesBounded
BY ImplementsLimiter, StrikesAreBounded, PTL

\* A login is refused only after Max failures that count, for a window at most.
THEOREM LoginRefusalsJustified == Spec => []RefusalJustified
BY ImplementsLimiter, RefusalsAreJustified, PTL

-----------------------------------------------------------------------------
(***************************************************************************)
(* Types.                                                                  *)
(***************************************************************************)

\* What a request asks for fits the place where it is.
Places ==
  \A q \in Caller :
    /\ pc[q] \in {"verify", "strike", "reset", "upgrade"} => asks[q].op = "login"
    /\ pc[q] = "confirm" => asks[q].op = "change"
    /\ pc[q] = "session" => asks[q].op # "change"

TypeInv == TypeOK /\ Places

\* An empty row is a secret like any other,
LEMMA NoSecretIsSecret == NoSecret \in Secret /\ NoSecret.of = NoPassword /\ NoSecret.form = "none"
  BY DEF NoSecret, Secret

\* ... and its fields say that it is empty.
LEMMA SecretFields ==
  ASSUME NEW v \in Secret
  PROVE  /\ v.of \in Password \cup {NoPassword}
         /\ v.form \in {"none", "plain", "bcrypt"}
         /\ v.form = "none" => v = NoSecret
  BY DEF Secret, NoSecret

\* Every step keeps the types.
LEMMA TypeInvInductive == TypeInv /\ [Next]_vars => TypeInv'
<1> SUFFICES ASSUME TypeInv, [Next]_vars PROVE TypeInv'
  OBVIOUS
<1>l. LimiterTypeOK /\ LimiterTypeOK'
  BY LimiterStep, TypesInductive DEF TypeInv, TypeOK
<1> USE AdminAssumption DEF TypeInv, TypeOK, Places, Goes, Answered, OnlyLooks
<1>1. ASSUME NEW q \in Caller, Handle(q) PROVE TypeInv'
  <2>1. CASE Setup(q)
    BY <2>1, <1>l DEF Setup, Arrives, GetSetting, Asks, Free
  <2>2. CASE Login(q)
    BY <2>2, <1>l DEF Login, Arrives, Asks, Free
  <2>3. CASE Verify(q)
    BY <2>3, <1>l DEF Verify, GetSetting, Free
  <2>4. CASE LoginFails(q)
    BY <2>4, <1>l DEF LoginFails, Asks, NoAsk, Free
  <2>5. CASE LoginSucceeds(q)
    BY <2>5, <1>l DEF LoginSucceeds, Free
  <2>6. CASE CheckLegacy(q)
    BY <2>6, <1>l DEF CheckLegacy, GetSetting, Free
  <2>7. CASE Change(q)
    BY <2>7, <1>l DEF Change, Arrives, GetSetting, Asks, Free
  <2>8. CASE Confirm(q)
    BY <2>8, <1>l DEF Confirm, GetSetting, Asks, NoAsk, Free
  <2>9. CASE Store(q)
    BY <2>9, <1>l DEF Store, SetSetting, Secret, Asks, Free
  <2>10. CASE StoreFails(q)
    BY <2>10, <1>l DEF StoreFails, Asks, NoAsk, Free
  <2>11. CASE NewSession(q)
    <3>1. /\ pc[q] = "session" /\ pc' = [pc EXCEPT ![q] = Free]
          /\ asks' = [asks EXCEPT ![q] = NoAsk] /\ late' = late \ {q}
          /\ UNCHANGED <<limiterVars, cfgPassword, stored, faults, writer>>
      BY <2>11 DEF NewSession
    <3>2. PICK t \in Token \ issued :
            /\ issued' = issued \cup {t}
            /\ sessions' = [u \in DOMAIN sessions \cup {t} |->
                 IF u = t THEN [createdAt |-> now, by |-> asks[q].pass, spared |-> q \in late]
                 ELSE sessions[u]]
      BY <2>11 DEF NewSession
    <3>3. asks[q].pass \in Password /\ now \in 0 .. MaxTime /\ (q \in late) \in BOOLEAN
      BY <3>1, <1>l DEF LimiterTypeOK, Free
    <3>4. [createdAt |-> now, by |-> asks[q].pass, spared |-> q \in late] \in Session
      BY <3>3 DEF Session
    <3>5. DOMAIN sessions' \subseteq issued' /\ issued' \in SUBSET Token
      BY <3>2
    <3>6. \A u \in DOMAIN sessions' : sessions'[u] \in Session
      BY <3>2, <3>4
    <3>7. QED
      BY <3>1, <3>5, <3>6, <1>l DEF Asks, NoAsk, Free
  <2>12. CASE NoSession(q)
    BY <2>12, <1>l DEF NoSession, Asks, NoAsk, Free
  <2>13. CASE Invalidate(q)
    <3>1. /\ pc' = [pc EXCEPT ![q] = Free] /\ asks' = [asks EXCEPT ![q] = NoAsk]
          /\ UNCHANGED <<limiterVars, cfgPassword, stored, faults, issued, late, writer>>
      BY <2>13 DEF Invalidate
    <3>2. DOMAIN sessions' \subseteq DOMAIN sessions
      BY <2>13 DEF Invalidate
    <3>3. ASSUME NEW t \in DOMAIN sessions' PROVE sessions'[t] \in Session
      <4>1. sessions[t] \in Session /\ sessions'[t] = [sessions[t] EXCEPT !.spared = TRUE]
        BY <2>13, <3>2 DEF Invalidate
      <4>2. QED
        BY <4>1 DEF Session
    <3>4. QED
      BY <3>1, <3>2, <3>3, <1>l DEF Asks, NoAsk, Free
  <2>14. QED
    BY <1>1, <2>1, <2>2, <2>3, <2>4, <2>5, <2>6, <2>7, <2>8, <2>9, <2>10, <2>11, <2>12, <2>13
    DEF Handle
<1>2. CASE Logout
  BY <1>2, <1>l DEF Logout, Without
<1>3. CASE Reap
  BY <1>3, <1>l DEF Reap, Without
<1>4. CASE Background
  BY <1>4, <1>l DEF Background
<1>5. CASE UNCHANGED vars
  BY <1>5, <1>l
<1>6. QED
  BY <1>1, <1>2, <1>3, <1>4, <1>5 DEF Next

\* They hold at first.
LEMMA TypeInvInit == Init => TypeInv
  BY LimiterAssumption, AdminAssumption
  DEF Init, LimiterInit, LimiterTypeOK, NoEntry, TypeInv, TypeOK, Places, Free, NoAsk, Asks, Secret

\* Every variable of the authentication keeps its type.
THEOREM TypeCorrect == Spec => []TypeOK
<1>1. TypeInv => TypeOK
  BY DEF TypeInv
<1>2. QED
  BY <1>1, TypeInvInit, TypeInvInductive, PTL DEF Spec

-----------------------------------------------------------------------------
(***************************************************************************)
(* The reaper.                                                             *)
(***************************************************************************)

\* A session that the reaper deletes was over before.
THEOREM ReaperIsInvisible == Spec => ReaperInvisible
<1>1. TypeInv /\ Reap => \A t \in Token : validateSession(t)' = validateSession(t)
  BY LimiterAssumption, AdminAssumption
  DEF TypeInv, TypeOK, LimiterTypeOK, Reap, Without, validateSession, Session
<1>2. QED
  BY <1>1, TypeInvInit, TypeInvInductive, PTL DEF Spec, ReaperInvisible

-----------------------------------------------------------------------------
(***************************************************************************)
(* The password.  A request that is about to write one, or to open a       *)
(* session with one, still stands on what it checked, or a later write of  *)
(* the password has made it late.                                          *)
(***************************************************************************)

\* A configured password is the only one.
ConfiguredStays ==
  cfgPassword # NoPassword =>
    writer = "none" /\ \A q \in Caller : pc[q] \notin {"upgrade", "store", "invalidate"}

\* Who is about to write the password may, as far as the row goes.
StillLegal ==
  \A q \in Caller :
    pc[q] = "store" /\ q \notin late /\ faults = 0 =>
      \/ asks[q].op = "change"
      \/ asks[q].op = "setup" /\ stored = NoSecret
      \/ asks[q].op = "login" /\ stored.of = asks[q].pass

\* After a change, who is about to open a session has shown the new password.
PassedOrLate ==
  writer = "change" =>
    \A q \in Caller :
      pc[q] \in {"reset", "upgrade", "session"} \/ (pc[q] = "store" /\ asks[q].op = "login") =>
        q \in late \/ asks[q].pass = stored.of

PasswordInv == TypeInv /\ ConfiguredStays /\ StillLegal /\ PassedOrLate /\ OldSessionsEnd

\* A configured password stays, since nothing is written.
LEMMA ConfiguredInductive == PasswordInv /\ [Next]_vars => ConfiguredStays'
<1> SUFFICES ASSUME PasswordInv, [Next]_vars PROVE ConfiguredStays'
  OBVIOUS
<1> USE AdminAssumption DEF PasswordInv, TypeInv, TypeOK, Places, Goes, Answered, OnlyLooks,
                            Arrives, Free, ConfiguredStays, GetSetting, isBootstrap, SetSetting
<1>1. ASSUME NEW q \in Caller, Handle(q) PROVE ConfiguredStays'
  <2>1. CASE Setup(q)
    BY <2>1 DEF Setup
  <2>2. CASE Login(q)
    BY <2>2 DEF Login
  <2>3. CASE Verify(q)
    BY <2>3 DEF Verify
  <2>4. CASE LoginFails(q)
    BY <2>4 DEF LoginFails
  <2>5. CASE LoginSucceeds(q)
    BY <2>5 DEF LoginSucceeds
  <2>6. CASE CheckLegacy(q)
    BY <2>6 DEF CheckLegacy
  <2>7. CASE Change(q)
    BY <2>7 DEF Change
  <2>8. CASE Confirm(q)
    BY <2>8 DEF Confirm
  <2>9. CASE Store(q)
    BY <2>9 DEF Store
  <2>10. CASE StoreFails(q)
    BY <2>10 DEF StoreFails
  <2>11. CASE NewSession(q)
    BY <2>11 DEF NewSession
  <2>12. CASE NoSession(q)
    BY <2>12 DEF NoSession
  <2>13. CASE Invalidate(q)
    BY <2>13 DEF Invalidate
  <2>14. QED
    BY <1>1, <2>1, <2>2, <2>3, <2>4, <2>5, <2>6, <2>7, <2>8, <2>9, <2>10, <2>11, <2>12, <2>13
    DEF Handle
<1>2. CASE Logout
  BY <1>2 DEF Logout, Without
<1>3. CASE Reap
  BY <1>3 DEF Reap, Without
<1>4. CASE Background
  BY <1>4 DEF Background
<1>5. CASE UNCHANGED vars
  BY <1>5
<1>6. QED
  BY <1>1, <1>2, <1>3, <1>4, <1>5 DEF Next

\* Who is about to write still may.
LEMMA LegalInductive == PasswordInv /\ [Next]_vars => StillLegal'
<1> SUFFICES ASSUME PasswordInv, [Next]_vars PROVE StillLegal'
  OBVIOUS
<1> USE AdminAssumption DEF PasswordInv, TypeInv, TypeOK, Places, Goes, Answered, OnlyLooks,
                            Arrives, Free, StillLegal, GetSetting, isBootstrap, SetSetting
<1>1. ASSUME NEW q \in Caller, Handle(q) PROVE StillLegal'
  <2>1. CASE Setup(q)
    BY <2>1 DEF Setup
  <2>2. CASE Login(q)
    BY <2>2 DEF Login
  <2>3. CASE Verify(q)
    BY <2>3 DEF Verify
  <2>4. CASE LoginFails(q)
    BY <2>4 DEF LoginFails
  <2>5. CASE LoginSucceeds(q)
    BY <2>5 DEF LoginSucceeds
  <2>6. CASE CheckLegacy(q)
    BY <2>6 DEF CheckLegacy
  <2>7. CASE Change(q)
    BY <2>7 DEF Change
  <2>8. CASE Confirm(q)
    <3>1. /\ pc[q] = "confirm" /\ asks[q].op = "change"
          /\ UNCHANGED <<stored, late, writer>>
          /\ \A r \in Caller \ {q} : pc'[r] = pc[r] /\ asks'[r] = asks[r]
          /\ faults' = 0 => faults = 0
      BY <2>8 DEF Confirm, GetSetting
    <3>2. pc'[q] = Free \/ (pc'[q] = "store" /\ asks'[q].op = "change")
      <4>1. CASE Answered(q)
        BY <4>1
      <4>2. CASE \E p \in Password : asks' = [asks EXCEPT ![q].pass = p]
        BY <2>8, <3>1, <4>2 DEF Confirm, Asks
      <4>3. QED
        BY <2>8, <4>1, <4>2 DEF Confirm
    <3>3. QED
      BY <3>1, <3>2
  <2>9. CASE Store(q)
    BY <2>9 DEF Store
  <2>10. CASE StoreFails(q)
    BY <2>10 DEF StoreFails
  <2>11. CASE NewSession(q)
    BY <2>11 DEF NewSession
  <2>12. CASE NoSession(q)
    BY <2>12 DEF NoSession
  <2>13. CASE Invalidate(q)
    BY <2>13 DEF Invalidate
  <2>14. QED
    BY <1>1, <2>1, <2>2, <2>3, <2>4, <2>5, <2>6, <2>7, <2>8, <2>9, <2>10, <2>11, <2>12, <2>13
    DEF Handle
<1>2. CASE Logout
  BY <1>2 DEF Logout, Without
<1>3. CASE Reap
  BY <1>3 DEF Reap, Without
<1>4. CASE Background
  BY <1>4 DEF Background
<1>5. CASE UNCHANGED vars
  BY <1>5
<1>6. QED
  BY <1>1, <1>2, <1>3, <1>4, <1>5 DEF Next

\* Who has passed a check has shown the password of now or is late.
LEMMA PassedInductive == PasswordInv /\ [Next]_vars => PassedOrLate'
<1> SUFFICES ASSUME PasswordInv, [Next]_vars PROVE PassedOrLate'
  OBVIOUS
<1> USE AdminAssumption DEF PasswordInv, TypeInv, TypeOK, Places, Goes, Answered, OnlyLooks,
                            Arrives, Free, PassedOrLate, ConfiguredStays, GetSetting, SetSetting
<1>1. ASSUME NEW q \in Caller, Handle(q) PROVE PassedOrLate'
  <2>1. CASE Setup(q)
    BY <2>1 DEF Setup
  <2>2. CASE Login(q)
    BY <2>2 DEF Login
  <2>3. CASE Verify(q)
    <3>1. \A v \in Secret : v.of \in Password \cup {NoPassword}
      BY SecretFields
    <3>2. QED
      BY <2>3, <3>1, NoSecretIsSecret DEF Verify, verifyAdminPassword
  <2>4. CASE LoginFails(q)
    BY <2>4 DEF LoginFails
  <2>5. CASE LoginSucceeds(q)
    BY <2>5 DEF LoginSucceeds
  <2>6. CASE CheckLegacy(q)
    BY <2>6 DEF CheckLegacy
  <2>7. CASE Change(q)
    BY <2>7 DEF Change
  <2>8. CASE Confirm(q)
    <3>1. /\ pc[q] = "confirm" /\ asks[q].op = "change"
          /\ UNCHANGED <<stored, late, writer>>
          /\ \A r \in Caller \ {q} : pc'[r] = pc[r] /\ asks'[r] = asks[r]
          /\ faults' = 0 => faults = 0
      BY <2>8 DEF Confirm, GetSetting
    <3>2. pc'[q] = Free \/ (pc'[q] = "store" /\ asks'[q].op = "change")
      <4>1. CASE Answered(q)
        BY <4>1
      <4>2. CASE \E p \in Password : asks' = [asks EXCEPT ![q].pass = p]
        BY <2>8, <3>1, <4>2 DEF Confirm, Asks
      <4>3. QED
        BY <2>8, <4>1, <4>2 DEF Confirm
    <3>3. QED
      BY <3>1, <3>2
  <2>9. CASE Store(q)
    BY <2>9 DEF Store
  <2>10. CASE StoreFails(q)
    BY <2>10 DEF StoreFails
  <2>11. CASE NewSession(q)
    BY <2>11 DEF NewSession
  <2>12. CASE NoSession(q)
    BY <2>12 DEF NoSession
  <2>13. CASE Invalidate(q)
    BY <2>13 DEF Invalidate
  <2>14. QED
    BY <1>1, <2>1, <2>2, <2>3, <2>4, <2>5, <2>6, <2>7, <2>8, <2>9, <2>10, <2>11, <2>12, <2>13
    DEF Handle
<1>2. CASE Logout
  BY <1>2 DEF Logout, Without
<1>3. CASE Reap
  BY <1>3 DEF Reap, Without
<1>4. CASE Background
  BY <1>4 DEF Background
<1>5. CASE UNCHANGED vars
  BY <1>5
<1>6. QED
  BY <1>1, <1>2, <1>3, <1>4, <1>5 DEF Next

\* A new session is one with the current password, or a spared one.
LEMMA NewSessionKeeps ==
  ASSUME NEW q \in Caller, NewSession(q), q \in late \/ asks[q].pass = stored.of,
         \A u \in DOMAIN sessions : sessions[u].by = stored.of \/ sessions[u].spared
  PROVE  \A u \in DOMAIN sessions' : sessions'[u].by = stored.of \/ sessions'[u].spared
<1>1. PICK t \in Token \ issued :
        sessions' = [u \in DOMAIN sessions \cup {t} |->
          IF u = t THEN [createdAt |-> now, by |-> asks[q].pass, spared |-> q \in late]
          ELSE sessions[u]]
  BY DEF NewSession
<1> SUFFICES ASSUME NEW u \in DOMAIN sessions'
             PROVE  sessions'[u].by = stored.of \/ sessions'[u].spared
  OBVIOUS
<1>2. CASE u = t
  <2>1. sessions'[u] = [createdAt |-> now, by |-> asks[q].pass, spared |-> q \in late]
    BY <1>1, <1>2
  <2>2. sessions'[u].by = asks[q].pass
    BY <2>1
  <2>3. CASE q \in late
    <3>1. (q \in late) = TRUE
      BY <2>3
    <3>2. sessions'[u] = [createdAt |-> now, by |-> asks[q].pass, spared |-> TRUE]
      BY <2>1, <3>1, Zenon
    <3>3. sessions'[u].spared = TRUE
      BY <3>2
    <3>4. QED
      BY <3>3
  <2>4. QED
    BY <2>2, <2>3
<1>3. CASE u # t
  <2>1. u \in DOMAIN sessions /\ sessions'[u] = sessions[u]
    BY <1>1, <1>3
  <2>2. QED
    BY <2>1
<1>4. QED
  BY <1>2, <1>3

\* A session of before a change is ended, about to be, or spared.
LEMMA SessionsInductive == PasswordInv /\ [Next]_vars => OldSessionsEnd'
<1> SUFFICES ASSUME PasswordInv, [Next]_vars PROVE OldSessionsEnd'
  OBVIOUS
<1> USE AdminAssumption DEF PasswordInv, TypeInv, TypeOK, Places, Goes, Answered, OnlyLooks,
                            Arrives, Free, PassedOrLate, OldSessionsEnd, SetSetting
<1>1. ASSUME NEW q \in Caller, Handle(q) PROVE OldSessionsEnd'
  <2>1. CASE Setup(q)
    BY <2>1 DEF Setup
  <2>2. CASE Login(q)
    BY <2>2 DEF Login
  <2>3. CASE Verify(q)
    BY <2>3 DEF Verify
  <2>4. CASE LoginFails(q)
    BY <2>4 DEF LoginFails
  <2>5. CASE LoginSucceeds(q)
    BY <2>5 DEF LoginSucceeds
  <2>6. CASE CheckLegacy(q)
    BY <2>6 DEF CheckLegacy
  <2>7. CASE Change(q)
    BY <2>7 DEF Change
  <2>8. CASE Confirm(q)
    BY <2>8 DEF Confirm
  <2>9. CASE Store(q)
    BY <2>9 DEF Store
  <2>10. CASE StoreFails(q)
    BY <2>10 DEF StoreFails
  <2>11. CASE NewSession(q)
    <3>1. /\ pc[q] = "session" /\ UNCHANGED <<stored, writer>>
          /\ \A r \in Caller \ {q} : pc'[r] = pc[r]
      BY <2>11 DEF NewSession
    <3>2. writer = "change" => q \in late \/ asks[q].pass = stored.of
      BY <3>1
    <3>4. CASE writer = "change" /\ \A r \in Caller : pc[r] # "invalidate"
      <4>1. \A u \in DOMAIN sessions : sessions[u].by = stored.of \/ sessions[u].spared
        BY <3>4
      <4>2. \A u \in DOMAIN sessions' : sessions'[u].by = stored.of \/ sessions'[u].spared
        BY <2>11, <3>2, <3>4, <4>1, NewSessionKeeps
      <4>3. QED
        BY <3>1, <4>2
    <3>5. CASE \E r \in Caller : pc[r] = "invalidate"
      BY <3>1, <3>5
    <3>6. QED
      BY <3>1, <3>4, <3>5
  <2>12. CASE NoSession(q)
    BY <2>12 DEF NoSession
  <2>13. CASE Invalidate(q)
    BY <2>13 DEF Invalidate
  <2>14. QED
    BY <1>1, <2>1, <2>2, <2>3, <2>4, <2>5, <2>6, <2>7, <2>8, <2>9, <2>10, <2>11, <2>12, <2>13
    DEF Handle
<1>2. CASE Logout
  BY <1>2 DEF Logout, Without
<1>3. CASE Reap
  BY <1>3 DEF Reap, Without
<1>4. CASE Background
  BY <1>4 DEF Background
<1>5. CASE UNCHANGED vars
  BY <1>5
<1>6. QED
  BY <1>1, <1>2, <1>3, <1>4, <1>5 DEF Next

\* All of it together, step by step,
LEMMA PasswordInvInductive == PasswordInv /\ [Next]_vars => PasswordInv'
  BY TypeInvInductive, ConfiguredInductive, LegalInductive, PassedInductive, SessionsInductive
  DEF PasswordInv

\* ... and at first.
LEMMA PasswordInvInit == Init => PasswordInv
  BY TypeInvInit
  DEF Init, PasswordInv, ConfiguredStays, StillLegal, PassedOrLate, OldSessionsEnd, Free

\* A password change ends the sessions opened with the old password, whatever
\* other requests are under way.
THEOREM ChangeEndsOldSessions == Spec => []OldSessionsEnd
<1>1. PasswordInv => OldSessionsEnd
  BY DEF PasswordInv
<1>2. QED
  BY <1>1, PasswordInvInit, PasswordInvInductive, PTL DEF Spec

\* A password is replaced by another only by a change, or by a setup or an upgrade
\* that raced with one or could not read the row.
THEOREM PasswordIsKept == Spec => PasswordKept
<1>1. PasswordInv /\ [Next]_vars =>
        (stored.form # "none" /\ stored'.of # stored.of =>
          \E q \in Caller :
            pc[q] = "store" /\ (asks[q].op = "change" \/ q \in late \/ faults > 0))
  <2> SUFFICES ASSUME PasswordInv, [Next]_vars, stored.form # "none", stored'.of # stored.of
               PROVE \E q \in Caller :
                       pc[q] = "store" /\ (asks[q].op = "change" \/ q \in late \/ faults > 0)
    OBVIOUS
  <2>1. PICK q \in Caller : Store(q)
    BY DEF Next, Handle, Logout, Reap, Background, Setup, Login, Verify, LoginFails, LoginSucceeds,
           CheckLegacy, Change, Confirm, StoreFails, NewSession, NoSession, Invalidate, OnlyLooks
  <2>2. pc[q] = "store" /\ stored'.of = asks[q].pass
    BY <2>1 DEF Store, SetSetting
  <2>3. CASE q \notin late /\ faults = 0
    BY <2>1, <2>2, <2>3, NoSecretIsSecret DEF PasswordInv, StillLegal
  <2>4. CASE q \in late \/ faults # 0
    BY <2>2, <2>4, AdminAssumption DEF PasswordInv, TypeInv, TypeOK
  <2>5. QED
    BY <2>3, <2>4
<1>2. QED
  BY <1>1, PasswordInvInit, PasswordInvInductive, PTL DEF Spec, PasswordKept

=============================================================================
