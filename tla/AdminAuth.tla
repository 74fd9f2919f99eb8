----------------------------- MODULE AdminAuth -----------------------------
(***************************************************************************)
(* Authentication of the admin server (internal/admin): the password, the  *)
(* browser sessions and the requests that change them, each served by a    *)
(* goroutine of its own.  A handler reads the password, works on it, which *)
(* for bcrypt takes a long time, and only then writes it or opens a        *)
(* session: requests interleave between any two of these steps.            *)
(*                                                                         *)
(* The login's throttle is RateLimiter, with the requests as its callers.  *)
(***************************************************************************)
EXTENDS RateLimiter

CONSTANTS
  Password,   \* passwords of a valid length
  NoPassword, \* no password
  Token,      \* session tokens newSession can draw
  NoToken,    \* no cookie
  SessionTTL, \* how long a session is valid
  MaxFaults   \* bound: reads of the settings table that fail

ASSUME AdminAssumption ==
  /\ NoPassword \notin Password
  /\ NoToken \notin Token
  /\ SessionTTL \in Nat \ {0}
  /\ MaxFaults \in Nat

VARIABLES
  cfgPassword, \* admin_password of the configuration
  stored,      \* the settings row admin_password
  faults,      \* failed reads so far
  sessions,    \* the sessions by their tokens
  issued,      \* tokens drawn so far
  pc,          \* where a request is
  asks         \* what it asks for

\* What the properties remember.
VARIABLES
  late,        \* requests that had passed their checks when a password was written
  writer       \* what kind of request wrote the password last

historyVars == <<late, writer>>
vars == <<limiterVars, cfgPassword, stored, faults, sessions, issued, pc, asks, historyVars>>

\* The stored value is a bcrypt hash of a password or, from an old release, the
\* password itself.
Secret == [form : {"plain", "bcrypt"}, of : Password] \cup {[form |-> "none", of |-> NoPassword]}
NoSecret == [form |-> "none", of |-> NoPassword]

\* A session; for the properties it knows the password it was opened with, and
\* whether a change may spare it: its login came late, or it made the change.
Session == [createdAt : 0 .. MaxTime, by : Password, spared : BOOLEAN]

\* What a request for op carries; pass is the password to log in with or to set,
\* which a change has not shown before its cookie and its form are accepted.
Asks == [op : {"none", "setup", "login", "change"}, pass : Password \cup {NoPassword},
         cookie : Token \cup {NoToken}]
NoAsk == [op |-> "none", pass |-> NoPassword, cookie |-> NoToken]

Free == "free"

TypeOK ==
  /\ LimiterTypeOK
  /\ cfgPassword \in Password \cup {NoPassword}
  /\ stored \in Secret
  /\ faults \in 0 .. MaxFaults
  /\ DOMAIN sessions \subseteq issued /\ \A t \in DOMAIN sessions : sessions[t] \in Session
  /\ issued \in SUBSET Token
  /\ pc \in [Caller -> {Free, "verify", "strike", "reset", "upgrade", "confirm", "store",
                        "invalidate", "session"}]
  /\ asks \in [Caller -> Asks]
  /\ \A q \in Caller : pc[q] \notin {Free, "confirm"} => asks[q].pass \in Password
  /\ late \in SUBSET Caller
  /\ writer \in {"none", "setup", "login", "change"}

\* The server has started on a fresh database, or on one of an old or a current
\* release, with or without admin_password in its configuration.
Init ==
  /\ LimiterInit
  /\ cfgPassword \in Password \cup {NoPassword}
  /\ stored \in Secret
  /\ faults = 0
  /\ sessions = [t \in {} |-> 0]
  /\ issued = {}
  /\ pc = [q \in Caller |-> Free]
  /\ asks = [q \in Caller |-> NoAsk]
  /\ late = {}
  /\ writer = "none"

-----------------------------------------------------------------------------
\* Request q goes on at place.
Goes(q, place) ==
  /\ pc' = [pc EXCEPT ![q] = place]
  /\ UNCHANGED asks

\* Request q is answered.
Answered(q) ==
  /\ pc' = [pc EXCEPT ![q] = Free]
  /\ asks' = [asks EXCEPT ![q] = NoAsk]

\* GetSetting returns value; its error is not looked at, and a failed read looks
\* like an empty row.
GetSetting(value) ==
  \/ value = stored /\ UNCHANGED faults
  \/ faults < MaxFaults /\ value = NoSecret /\ faults' = faults + 1

\* Mutant of isBootstrap: any server may be set up.
isBootstrapAlways(value) == cfgPassword = NoPassword

\* No password is configured yet, as far as the row that was read says.
isBootstrap(value) == cfgPassword = NoPassword /\ value = NoSecret

\* verifyAdminPassword: the configuration wins over the row.
verifyAdminPassword(value, given) ==
  IF cfgPassword # NoPassword THEN given = cfgPassword ELSE given = value.of

validateSession(t) == t \in DOMAIN sessions /\ now - sessions[t].createdAt < SessionTTL

\* The tokens T are deleted.
Without(T) == [t \in DOMAIN sessions \ T |-> sessions[t]]

\* Mutant of SetSetting: the field of the form that is hashed is empty.
SetSettingEmpty(q) ==
  /\ stored' = [form |-> "bcrypt", of |-> NoPassword]
  /\ writer' = asks[q].op
  /\ UNCHANGED late

\* SetSetting of a hash of the password that q carries.  Others that have passed
\* their checks come late.
SetSetting(q) ==
  /\ stored' = [form |-> "bcrypt", of |-> asks[q].pass]
  /\ writer' = asks[q].op
  /\ late' = (late \cup {r \in Caller : pc[r] \in {"reset", "upgrade", "store", "session"}}) \ {q}

-----------------------------------------------------------------------------
(***************************************************************************)
(* The handlers, one action for each step between two of which others run. *)
(***************************************************************************)

\* A request arrives at place with what its browser chose.
Arrives(q, op, pass, cookie, place) ==
  /\ pc[q] = Free
  /\ pc' = [pc EXCEPT ![q] = place]
  /\ asks' = [asks EXCEPT ![q] = [op |-> op, pass |-> pass, cookie |-> cookie]]

\* A step that neither writes the password nor opens or closes a session.
OnlyLooks == UNCHANGED <<cfgPassword, stored, sessions, issued, historyVars>>

\* handleSetup: a server that has a password redirects.
Setup(q) ==
  /\ \E p \in Password : Arrives(q, "setup", p, NoToken, "store")
  /\ \E value \in Secret : GetSetting(value) /\ isBootstrap(value)
  /\ UNCHANGED limiterVars
  /\ OnlyLooks

\* handleLogin asks Allow first.
Login(q) ==
  /\ \E p \in Password : Arrives(q, "login", p, NoToken, "verify")
  /\ \E k \in Key : Admit(q, k)
  /\ UNCHANGED faults
  /\ OnlyLooks

\* The password of the attempt is compared.
Verify(q) ==
  /\ pc[q] = "verify"
  /\ \E value \in Secret :
       /\ GetSetting(value)
       /\ Goes(q, IF verifyAdminPassword(value, asks[q].pass) THEN "reset" ELSE "strike")
  /\ UNCHANGED limiterVars
  /\ OnlyLooks

\* It was wrong.
LoginFails(q) ==
  /\ pc[q] = "strike"
  /\ Strike(q)
  /\ Answered(q)
  /\ UNCHANGED faults
  /\ OnlyLooks

\* It was right: the strikes of the address are cleared.
LoginSucceeds(q) ==
  /\ pc[q] = "reset"
  /\ Reset(q)
  /\ Goes(q, IF cfgPassword = NoPassword THEN "upgrade" ELSE "session")
  /\ UNCHANGED faults
  /\ OnlyLooks

\* The row is read again: a password that is stored as it is will be hashed.
CheckLegacy(q) ==
  /\ pc[q] = "upgrade"
  /\ \E value \in Secret :
       /\ GetSetting(value)
       /\ Goes(q, IF value.form = "plain" /\ value.of = asks[q].pass THEN "store" ELSE "session")
  /\ UNCHANGED limiterVars
  /\ OnlyLooks

\* changePassword behind guard: the cookie must be that of a valid session.
Change(q) ==
  /\ \E t \in DOMAIN sessions :
       /\ validateSession(t)
       /\ Arrives(q, "change", NoPassword, t, "confirm")
  /\ \E value \in Secret : GetSetting(value) /\ ~isBootstrap(value)
  /\ UNCHANGED limiterVars
  /\ OnlyLooks

\* With a configured password it refuses; else it compares the current one.
Confirm(q) ==
  /\ pc[q] = "confirm"
  /\ \/ /\ cfgPassword = NoPassword
        /\ \E value \in Secret : GetSetting(value) /\ value # NoSecret
        /\ \E p \in Password : asks' = [asks EXCEPT ![q].pass = p]
        /\ pc' = [pc EXCEPT ![q] = "store"]
     \/ Answered(q) /\ UNCHANGED faults
  /\ UNCHANGED limiterVars
  /\ OnlyLooks

\* The hash is written.
Store(q) ==
  /\ pc[q] = "store"
  /\ SetSetting(q)
  /\ Goes(q, IF asks[q].op = "change" THEN "invalidate" ELSE "session")
  /\ UNCHANGED <<limiterVars, cfgPassword, faults, sessions, issued>>

\* Hashing or writing fails: a login goes on without.
StoreFails(q) ==
  /\ pc[q] = "store"
  /\ IF asks[q].op = "login"
       THEN Goes(q, "session") /\ UNCHANGED late
       ELSE Answered(q) /\ late' = late \ {q}
  /\ UNCHANGED <<limiterVars, cfgPassword, stored, faults, sessions, issued, writer>>

\* newSession.
NewSession(q) ==
  /\ pc[q] = "session"
  /\ \E t \in Token \ issued :
       /\ issued' = issued \cup {t}
       /\ sessions' = [u \in DOMAIN sessions \cup {t} |->
            IF u = t THEN [createdAt |-> now, by |-> asks[q].pass, spared |-> q \in late]
            ELSE sessions[u]]
  /\ late' = late \ {q}
  /\ Answered(q)
  /\ UNCHANGED <<limiterVars, cfgPassword, stored, faults, writer>>

\* No random token can be drawn.
NoSession(q) ==
  /\ pc[q] = "session"
  /\ late' = late \ {q}
  /\ Answered(q)
  /\ UNCHANGED <<limiterVars, cfgPassword, stored, faults, sessions, issued, writer>>

\* Mutant of Invalidate: no session is deleted.
InvalidateNone(q) ==
  /\ pc[q] = "invalidate"
  /\ Answered(q)
  /\ UNCHANGED <<limiterVars, cfgPassword, stored, faults, sessions, issued, late, writer>>

\* invalidateSessionsExcept deletes all sessions but the one that made the change.
Invalidate(q) ==
  /\ pc[q] = "invalidate"
  /\ sessions' = [t \in DOMAIN sessions \cap {asks[q].cookie} |->
                    [sessions[t] EXCEPT !.spared = TRUE]]
  /\ Answered(q)
  /\ UNCHANGED <<limiterVars, cfgPassword, stored, faults, issued, late, writer>>

\* handleLogout deletes the session of the cookie.
Logout ==
  /\ \E t \in DOMAIN sessions : sessions' = Without({t})
  /\ UNCHANGED <<limiterVars, cfgPassword, stored, faults, issued, pc, asks, historyVars>>

\* Mutant of Reap: it deletes sessions a tick early.
ReapEarly ==
  /\ sessions' = Without({t \in DOMAIN sessions : now - sessions[t].createdAt >= SessionTTL - 1})
  /\ UNCHANGED <<limiterVars, cfgPassword, stored, faults, issued, pc, asks, historyVars>>

\* reapSessions deletes the sessions that are over.
Reap ==
  /\ sessions' = Without({t \in DOMAIN sessions : now - sessions[t].createdAt >= SessionTTL})
  /\ UNCHANGED <<limiterVars, cfgPassword, stored, faults, issued, pc, asks, historyVars>>

-----------------------------------------------------------------------------
Handle(q) ==
  \/ Setup(q)
  \/ Login(q)
  \/ Verify(q)
  \/ LoginFails(q)
  \/ LoginSucceeds(q)
  \/ CheckLegacy(q)
  \/ Change(q)
  \/ Confirm(q)
  \/ Store(q)
  \/ StoreFails(q)
  \/ NewSession(q)
  \/ NoSession(q)
  \/ Invalidate(q)

\* The clock and the goroutine of the limiter.
Background ==
  /\ Tick \/ Janitor
  /\ UNCHANGED <<cfgPassword, stored, faults, sessions, issued, pc, asks, historyVars>>

Next ==
  \/ \E q \in Caller : Handle(q)
  \/ Logout
  \/ Reap
  \/ Background

Spec == Init /\ [][Next]_vars

-----------------------------------------------------------------------------
(***************************************************************************)
(* Properties.                                                             *)
(***************************************************************************)

\* A password change ends every session opened with another password, but for
\* the one that made it and for those whose login had passed its check when the
\* new password was written.
OldSessionsEnd ==
  writer = "change" =>
    \/ \E q \in Caller : pc[q] = "invalidate"
    \/ \A t \in DOMAIN sessions : sessions[t].by = stored.of \/ sessions[t].spared

\* Once there is a password only changePassword replaces it by another; a setup
\* or the upgrade of an old one does so only if it had passed its check when the
\* password was written, or if a read of it failed.
PasswordKept ==
  [][stored.form # "none" /\ stored'.of # stored.of =>
       \E q \in Caller : pc[q] = "store" /\ (asks[q].op = "change" \/ q \in late \/ faults > 0)]_vars

\* The reaper is only about memory: no session ends because of it.
ReaperInvisible ==
  [][Reap => \A t \in Token : validateSession(t)' = validateSession(t)]_vars

=============================================================================
