---------------------------- MODULE RateLimiter ----------------------------
(***************************************************************************)
(* The fixed-window failure limiter (internal/ratelimit) and the protocol  *)
(* its two users follow, the admin login (internal/admin) and the          *)
(* handshake of the control plane (internal/control): ask Allow, do the    *)
(* work, then report the failure with Strike or the success with Reset.    *)
(* Between the two calls other callers run.                                *)
(***************************************************************************)
EXTENDS Naturals, FiniteSets

CONSTANTS
  Caller,  \* goroutines that serve an attempt
  Key,     \* peer addresses
  Window,  \* how long failures count
  Max,     \* failures a window allows
  Nobody,  \* no key
  MaxTime  \* bound of the clock

ASSUME LimiterAssumption ==
  /\ IsFiniteSet(Caller)
  /\ Window \in Nat \ {0}
  /\ Max \in Nat \ {0}
  /\ MaxTime \in Nat
  /\ Nobody \notin Key

VARIABLES
  now,     \* the clock
  counts,  \* the window of a key; its count is 0 if there is no entry
  trying   \* the key a caller was allowed for and has not reported on

limiterVars == <<now, counts, trying>>

NoEntry == [start |-> 0, count |-> 0]

LimiterTypeOK ==
  /\ now \in 0 .. MaxTime
  /\ counts \in [Key -> [start : Nat, count : Nat]]
  /\ trying \in [Caller -> Key \cup {Nobody}]

LimiterInit ==
  /\ now = 0
  /\ counts = [k \in Key |-> NoEntry]
  /\ trying = [c \in Caller |-> Nobody]

\* The window of k is over.
RolledOver(k) == now - counts[k].start >= Window

\* There is no failure that counts.
Fresh(k) == counts[k].count = 0 \/ RolledOver(k)

\* Mutant of Allow: a window never rolls over.
AllowOnce(k) == counts[k].count < Max

\* Limiter.Allow.
Allow(k) == Fresh(k) \/ counts[k].count < Max

\* How long Limiter.RetryAfter tells a caller to wait.
RetryAfter(k) == IF Fresh(k) THEN 0 ELSE Window - (now - counts[k].start)

\* Mutant of Admit: nobody asks Allow.
AdmitAll(c, k) ==
  /\ trying[c] = Nobody
  /\ trying' = [trying EXCEPT ![c] = k]
  /\ UNCHANGED <<now, counts>>

\* A caller is allowed, which uses nothing up.
Admit(c, k) ==
  /\ trying[c] = Nobody
  /\ Allow(k)
  /\ trying' = [trying EXCEPT ![c] = k]
  /\ UNCHANGED <<now, counts>>

\* Its attempt ends.
Leaves(c) == trying' = [trying EXCEPT ![c] = Nobody]

\* Limiter.Strike: the attempt failed.
Strike(c) ==
  LET k == trying[c] IN
  /\ k # Nobody
  /\ Leaves(c)
  /\ counts' = IF Fresh(k) THEN [counts EXCEPT ![k] = [start |-> now, count |-> 1]]
               ELSE [counts EXCEPT ![k].count = counts[k].count + 1]
  /\ UNCHANGED now

\* Limiter.Reset: it succeeded.
Reset(c) ==
  /\ trying[c] # Nobody
  /\ Leaves(c)
  /\ counts' = [counts EXCEPT ![trying[c]] = NoEntry]
  /\ UNCHANGED now

\* It ends without a report: the upgrade to a WebSocket failed.
Abandon(c) ==
  /\ trying[c] # Nobody
  /\ Leaves(c)
  /\ UNCHANGED <<now, counts>>

\* Mutant of Janitor: it drops every entry.
JanitorDropsAll ==
  /\ counts' = [k \in Key |-> NoEntry]
  /\ UNCHANGED <<now, trying>>

\* The janitor drops the entries whose window is over.
Janitor ==
  /\ counts' = [k \in Key |-> IF RolledOver(k) THEN NoEntry ELSE counts[k]]
  /\ UNCHANGED <<now, trying>>

Tick ==
  /\ now < MaxTime
  /\ now' = now + 1
  /\ UNCHANGED <<counts, trying>>

LimiterNext ==
  \/ \E c \in Caller : (\E k \in Key : Admit(c, k)) \/ Strike(c) \/ Reset(c) \/ Abandon(c)
  \/ Janitor
  \/ Tick

LimiterSpec == LimiterInit /\ [][LimiterNext]_limiterVars

-----------------------------------------------------------------------------
(***************************************************************************)
(* Properties.                                                             *)
(***************************************************************************)

\* The callers that were allowed for k and have not reported.
Trying(k) == {c \in Caller : trying[c] = k}

\* Allow and Strike are two calls, so that attempts in flight together exceed
\* the budget; but never by more than the callers there are besides the one that
\* used it up.
StrikesBounded == \A k \in Key : counts[k].count < Max + Cardinality(Caller)

\* The janitor is only about memory: no key is allowed or refused because of it,
\* nor told to wait for another time.
JanitorInvisible ==
  [][Janitor => \A k \in Key : Allow(k)' = Allow(k) /\ RetryAfter(k)' = RetryAfter(k)]_limiterVars

\* Who is refused has made Max failures that still count, and need not wait
\* longer than a window.
RefusalJustified ==
  \A k \in Key : ~Allow(k) => counts[k].count >= Max /\ RetryAfter(k) \in 1 .. Window

=============================================================================
