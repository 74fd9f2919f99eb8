---------------------------- MODULE ClientReconnect ----------------------------
(***************************************************************************)
(* Clients that lose their tunnel and come back (cmd/client: the loop of   *)
(* connectWithRetry with connect, register and the end of readLoop), and   *)
(* what they meet at the server: names held by their own dead sessions, by *)
(* other clients of the same token and by other tokens.                    *)
(*                                                                         *)
(* The question is one of time.  A dead session holds its name, and its    *)
(* place under the token's cap, until the server's pong deadline passes;   *)
(* a client that restarts is turned away meanwhile and gives up after a    *)
(* number of refusals.  So the model has a clock: every timer counts down, *)
(* and Tick waits for whatever is due.  All clients use one token.         *)
(***************************************************************************)
EXTENDS Naturals, FiniteSets

CONSTANTS
  Client,             \* client processes
  Subdomain,          \* names
  Nil,                \* no name, nobody
  Other,              \* a session of another token
  Asked,              \* the name each client is started with, or Nil
  Cap,                \* tunnels the token may have, 0 is unlimited
  MaxRegisterRetries, \* rejections a client takes before it gives up
  FirstBackoff,       \* the first wait
  MaxBackoff,         \* maxBackoff
  PongWait,           \* pongWait, of the server and of the client
  MaxMishaps          \* bound: failures, losses, interrupts and restarts

\* The i-th wait of a client that is turned away, from 0 on.
Wait[i \in Nat] ==
  IF i = 0 THEN FirstBackoff
  ELSE IF 2 * Wait[i - 1] > MaxBackoff THEN MaxBackoff ELSE 2 * Wait[i - 1]

\* The first n waits together.
Patience[n \in Nat] == IF n = 0 THEN 0 ELSE Patience[n - 1] + Wait[n - 1]

ASSUME ReconnectAssumption ==
  /\ Nil \notin Client \cup Subdomain /\ Other \notin Client /\ Other # Nil
  /\ Asked \in [Client -> Subdomain \cup {Nil}]
  /\ Cap \in Nat
  /\ MaxRegisterRetries \in Nat \ {0}
  /\ FirstBackoff \in Nat \ {0} /\ MaxBackoff \in Nat /\ FirstBackoff <= MaxBackoff
  /\ PongWait \in Nat \ {0}
  /\ MaxMishaps \in Nat

\* The budget of refusals outlasts a dead session, as it does with the values
\* of the code: 10 refusals, 1 to 30 seconds apart, against 60 seconds.
ASSUME PatienceAssumption == Patience[MaxRegisterRetries - 1] > PongWait

VARIABLES
  \* the clients
  state,      \* what a client does, or how it ended
  wait,       \* seconds until it has to act
  backoff,    \* the next wait of connectWithRetry
  retries,    \* registerRetries
  registered, \* the clients whose tc.registered is set
  want,       \* tc.subdomain
  interrupted, \* the clients whose context is done
  link,       \* the WebSocket of a client that is up
  \* the server
  holder,     \* who holds a name
  reap,       \* seconds until the server notices that the session is dead
  \* bookkeeping
  mishaps,    \* failures, losses, interrupts and restarts so far
  blamed,     \* the clients that were turned away by somebody else
  unanswered, \* the clients that were turned away, got through and never knew
  forgotten   \* the clients whose session a takeover removed that then failed

clientVars == <<state, wait, backoff, retries, registered, want, interrupted, link>>
serverVars == <<holder, reap>>
noteVars == <<blamed, unanswered, forgotten>>
bookVars == <<mishaps, noteVars>>
vars == <<clientVars, serverVars, bookVars>>

\* The session is alive, as far as the server can tell.
Never == PongWait + 1

\* The longest a client waits for anything.
MaxWait == IF MaxBackoff > PongWait THEN MaxBackoff ELSE PongWait

TypeOK ==
  /\ state \in [Client -> {"off", "retrying", "up", "kicked", "gaveUp", "refused", "quit"}]
  /\ wait \in [Client -> 0 .. MaxWait]
  /\ backoff \in [Client -> FirstBackoff .. MaxBackoff]
  /\ retries \in [Client -> 0 .. MaxRegisterRetries]
  /\ registered \in SUBSET Client
  /\ want \in [Client -> Subdomain \cup {Nil}]
  /\ interrupted \in SUBSET Client
  /\ link \in [Client -> {"none", "ok", "closing", "dead"}]
  /\ holder \in [Subdomain -> Client \cup {Other, Nil}]
  /\ reap \in [Subdomain -> 0 .. Never]
  /\ mishaps \in 0 .. MaxMishaps
  /\ blamed \in SUBSET Client /\ unanswered \in SUBSET Client /\ forgotten \in SUBSET Client

Init ==
  /\ state = [c \in Client |-> "off"]
  /\ wait = [c \in Client |-> 0]
  /\ backoff = [c \in Client |-> FirstBackoff]
  /\ retries = [c \in Client |-> 0]
  /\ registered = {}
  /\ want = Asked
  /\ interrupted = {}
  /\ link = [c \in Client |-> "none"]
  /\ holder = [s \in Subdomain |-> Nil]
  /\ reap = [s \in Subdomain |-> Never]
  /\ mishaps = 0
  /\ blamed = {} /\ unanswered = {} /\ forgotten = {}

Mishap == mishaps < MaxMishaps /\ mishaps' = mishaps + 1

\* A new process, or a new session, of c: what was noted of c is history.
Forgives(c) ==
  /\ blamed' = blamed \ {c}
  /\ unanswered' = unanswered \ {c}
  /\ forgotten' = forgotten \ {c}

-----------------------------------------------------------------------------
(***************************************************************************)
(* The loop of connectWithRetry.                                           *)
(***************************************************************************)

\* Mutants of Longer: the wait does not grow; it grows without a bound.
LongerNever(b) == b
LongerForever(b) == 2 * b

\* The wait after a wait of b.
Longer(b) == IF 2 * b > MaxBackoff THEN MaxBackoff ELSE 2 * b

\* The head of the loop, after a round that failed with r rejections on the
\* account.  tc.registered is never cleared: once set, the account is wiped in
\* every round.
FailedRound(c, r) ==
  /\ state' = [state EXCEPT ![c] = "retrying"]
  /\ wait' = [wait EXCEPT ![c] = backoff[c]]
  /\ backoff' = [backoff EXCEPT ![c] = Longer(@)]
  /\ retries' = [retries EXCEPT ![c] = IF c \in registered THEN 0 ELSE r]
  /\ UNCHANGED <<registered, want, interrupted>>

NextRound(c, r) == FailedRound(c, r) /\ link' = [link EXCEPT ![c] = "none"]

\* The process ends.
Ends(c, how) ==
  /\ state' = [state EXCEPT ![c] = how]
  /\ wait' = [wait EXCEPT ![c] = 0]
  /\ link' = [link EXCEPT ![c] = "none"]
  /\ UNCHANGED <<backoff, retries, registered, want, interrupted>>

\* A process starts, with the name its command line says.
Starts(c) ==
  /\ state' = [state EXCEPT ![c] = "retrying"]
  /\ wait' = [wait EXCEPT ![c] = 0]
  /\ backoff' = [backoff EXCEPT ![c] = FirstBackoff]
  /\ retries' = [retries EXCEPT ![c] = 0]
  /\ registered' = registered \ {c}
  /\ want' = [want EXCEPT ![c] = Asked[c]]
  /\ interrupted' = interrupted \ {c}
  /\ link' = [link EXCEPT ![c] = "none"]
  /\ Forgives(c)

\* The sessions c left at the server are dead from now on.
Orphans(c) ==
  reap' = [s \in Subdomain |-> IF holder[s] = c /\ reap[s] = Never THEN PongWait ELSE reap[s]]

Start(c) ==
  /\ state[c] = "off"
  /\ Starts(c)
  /\ UNCHANGED <<serverVars, mishaps>>

\* The process is killed, or had ended, and is started again.
Restart(c) ==
  /\ state[c] # "off"
  /\ Mishap
  /\ Starts(c)
  /\ Orphans(c)
  /\ UNCHANGED holder

\* Ctrl+C between two attempts: connectWithRetry returns nil.
Quit(c) ==
  /\ state[c] = "retrying"
  /\ Mishap
  /\ Ends(c, "quit")
  /\ UNCHANGED <<serverVars, noteVars>>

\* Ctrl+C while the tunnel is up: only pingLoop returns.  Without pongs the read
\* deadline is no longer moved.
Interrupt(c) ==
  /\ state[c] = "up" /\ c \notin interrupted
  /\ Mishap
  /\ interrupted' = interrupted \cup {c}
  /\ wait' = [wait EXCEPT ![c] = IF link[c] = "ok" THEN PongWait ELSE @]
  /\ UNCHANGED <<state, backoff, retries, registered, want, link, serverVars, noteVars>>

\* It is time to call connect.
Attempts(c) == state[c] = "retrying" /\ wait[c] = 0

\* The server cannot be reached, throttles, or breaks the handshake off; or a
\* rejection is lost on its way.  Nothing came of it at the server.
DialFails(c) ==
  /\ Attempts(c)
  /\ Mishap
  /\ NextRound(c, retries[c])
  /\ UNCHANGED <<serverVars, noteVars>>

\* A rejection that is fatal and comes before any name is looked at: the token
\* or the name is not valid.
Refused(c) ==
  /\ Attempts(c)
  /\ Mishap
  /\ Ends(c, "refused")
  /\ UNCHANGED <<serverVars, noteVars>>

-----------------------------------------------------------------------------
(***************************************************************************)
(* Register, as clients of one token see it.                               *)
(***************************************************************************)

\* The names the token holds, dead sessions included.
Ours == {s \in Subdomain : holder[s] \in Client}

\* tunnel_limit_reached, checked first.
AtLimit == Cap > 0 /\ Cardinality(Ours) >= Cap

\* subdomain_in_use.
InUse(c) == want[c] # Nil /\ holder[want[c]] = Other

\* Somebody else is in the way of c: not only what c itself left behind.
Rival(c) == \E s \in Subdomain : holder[s] \notin {c, Nil}

\* Register would give c the name s.
Grants(c, s) ==
  /\ ~AtLimit /\ ~InUse(c)
  /\ IF want[c] = Nil THEN holder[s] = Nil ELSE s = want[c]

\* A rejection that the client thinks will pass.
Rejected(c) ==
  /\ Attempts(c)
  /\ AtLimit \/ InUse(c)
  /\ blamed' = IF Rival(c) THEN blamed \cup {c} ELSE blamed
  /\ IF retries[c] + 1 >= MaxRegisterRetries
       THEN Ends(c, "gaveUp")
       ELSE NextRound(c, retries[c] + 1)
  /\ UNCHANGED <<serverVars, mishaps, unanswered, forgotten>>

\* The name is granted, and the session of the token that had it is out of the
\* map already, when no port is free or the store fails: that session is neither
\* put back nor closed.  For the client the error is fatal, if it arrives.
RegisterFails(c, s) ==
  /\ Attempts(c)
  /\ Grants(c, s)
  /\ Mishap
  /\ holder' = [holder EXCEPT ![s] = Nil]
  /\ reap' = [reap EXCEPT ![s] = Never]
  /\ forgotten' = IF reap[s] = Never THEN forgotten \cup ({holder[s]} \cap Client) ELSE forgotten
  /\ Ends(c, "refused") \/ NextRound(c, retries[c])
  /\ UNCHANGED <<blamed, unanswered>>

\* Mutant of LinksAfter: the session that held the name is not kicked.
LinksAfterNoKick(c, s, own) == [link EXCEPT ![c] = own]

\* The links once c was given s: a client that is connected with the session that
\* had it is about to be kicked.
LinksAfter(c, s, own) ==
  [d \in Client |-> IF d = c THEN own
                    ELSE IF holder[s] = d /\ want[d] = s /\ link[d] = "ok" THEN "closing"
                    ELSE link[d]]

\* MsgRegistered.  A session of the token that held the name is replaced; the
\* name is pinned for the rounds to come.
Registered(c, s) ==
  /\ Attempts(c)
  /\ Grants(c, s)
  /\ holder' = [holder EXCEPT ![s] = c]
  /\ reap' = [reap EXCEPT ![s] = Never]
  /\ link' = LinksAfter(c, s, "ok")
  /\ state' = [state EXCEPT ![c] = "up"]
  /\ want' = [want EXCEPT ![c] = s]
  /\ registered' = registered \cup {c}
  /\ Forgives(c)
  /\ UNCHANGED <<wait, backoff, retries, interrupted, mishaps>>

\* The server registered c, but MsgRegistered never arrives.  The client hangs up
\* and does not know the name; its session holds it until the server notices.
ReplyLost(c, s) ==
  /\ Attempts(c)
  /\ Grants(c, s)
  /\ Mishap
  /\ holder' = [holder EXCEPT ![s] = c]
  /\ reap' = [reap EXCEPT ![s] = PongWait]
  /\ link' = LinksAfter(c, s, "none")
  /\ FailedRound(c, retries[c])
  /\ unanswered' = IF retries[c] > 0 THEN unanswered \cup {c} ELSE unanswered
  /\ UNCHANGED <<blamed, forgotten>>

-----------------------------------------------------------------------------
(***************************************************************************)
(* The end of a session.                                                   *)
(***************************************************************************)

\* The read deadline of a connection that yields nothing from now on.
Silence(c) == [wait EXCEPT ![c] = IF c \in interrupted THEN @ ELSE PongWait]

\* The connection dies, and neither end knows it yet.
LinkDies(c) ==
  /\ link[c] = "ok"
  /\ Mishap
  /\ link' = [link EXCEPT ![c] = "dead"]
  /\ wait' = Silence(c)
  /\ Orphans(c)
  /\ UNCHANGED <<state, backoff, retries, registered, want, interrupted, holder, noteVars>>

\* readLoop fails with an ordinary error, at the pong deadline at the latest.
Notices(c) ==
  /\ link[c] = "dead" /\ c \notin interrupted
  /\ NextRound(c, retries[c])
  /\ UNCHANGED <<serverVars, bookVars>>

\* readLoop fails, for whatever reason, and the context is done.
Stops(c) ==
  /\ c \in interrupted /\ link[c] # "none"
  /\ Ends(c, "quit")
  /\ Orphans(c)
  /\ UNCHANGED <<holder, bookVars>>

\* Mutant of KickArrives: 4429 is an error like any other.
KickIgnored(c) ==
  /\ link[c] = "closing" /\ c \notin interrupted
  /\ NextRound(c, retries[c])
  /\ UNCHANGED <<serverVars, bookVars>>

\* readLoop reads the close frame with 4429: fatal.
KickArrives(c) ==
  /\ link[c] = "closing" /\ c \notin interrupted
  /\ Ends(c, "kicked")
  /\ UNCHANGED <<serverVars, bookVars>>

\* The close frame is lost; the connection is closed all the same.
KickLost(c) ==
  /\ link[c] = "closing"
  /\ Mishap
  /\ link' = [link EXCEPT ![c] = "dead"]
  /\ wait' = Silence(c)
  /\ UNCHANGED <<state, backoff, retries, registered, want, interrupted, serverVars, noteVars>>

\* Mutant of Reap: the name stays taken.
ReapKeepsName(s) ==
  /\ holder[s] \in Client /\ reap[s] # Never
  /\ reap' = [reap EXCEPT ![s] = Never]
  /\ UNCHANGED <<clientVars, holder, bookVars>>

\* The server's reader fails, at its pong deadline at the latest: the session
\* is deregistered.
Reap(s) ==
  /\ holder[s] \in Client /\ reap[s] # Never
  /\ holder' = [holder EXCEPT ![s] = Nil]
  /\ reap' = [reap EXCEPT ![s] = Never]
  /\ UNCHANGED <<clientVars, bookVars>>

\* Another token takes a free name, or gives it back.
OtherTakes(s) ==
  /\ holder[s] = Nil
  /\ holder' = [holder EXCEPT ![s] = Other]
  /\ UNCHANGED <<clientVars, reap, bookVars>>

OtherLeaves(s) ==
  /\ holder[s] = Other
  /\ holder' = [holder EXCEPT ![s] = Nil]
  /\ UNCHANGED <<clientVars, reap, bookVars>>

-----------------------------------------------------------------------------
\* A second passes, unless something is due.
Tick ==
  /\ \A c \in Client :
       /\ ~Attempts(c) /\ link[c] # "closing"
       /\ link[c] = "dead" \/ (link[c] = "ok" /\ c \in interrupted) => wait[c] > 0
  /\ \A s \in Subdomain : reap[s] > 0
  /\ wait' = [c \in Client |-> IF wait[c] > 0 THEN wait[c] - 1 ELSE 0]
  /\ reap' = [s \in Subdomain |-> IF reap[s] = Never THEN Never ELSE reap[s] - 1]
  /\ UNCHANGED <<state, backoff, retries, registered, want, interrupted, link, holder, bookVars>>

Registers(c) == \E s \in Subdomain : Registered(c, s)

GoesWrong(c) == \E s \in Subdomain : RegisterFails(c, s) \/ ReplyLost(c, s)

Next ==
  \/ \E c \in Client :
       \/ Start(c) \/ Restart(c) \/ Quit(c) \/ Interrupt(c) \/ Stops(c)
       \/ DialFails(c) \/ Refused(c) \/ Rejected(c) \/ Registers(c) \/ GoesWrong(c)
       \/ LinkDies(c) \/ Notices(c) \/ KickArrives(c) \/ KickLost(c)
  \/ \E s \in Subdomain : Reap(s) \/ OtherTakes(s) \/ OtherLeaves(s)
  \/ Tick

Spec == Init /\ [][Next]_vars

\* Time passes, and whatever is due happens.  Nothing that other people do is
\* owed.
Fairness ==
  /\ WF_vars(Tick)
  /\ \A c \in Client :
       /\ WF_vars(Rejected(c) \/ Registers(c))
       /\ WF_vars(Notices(c) \/ Stops(c))
       /\ WF_vars(KickArrives(c))
  /\ \A s \in Subdomain : WF_vars(Reap(s))

FairSpec == Spec /\ Fairness

-----------------------------------------------------------------------------
(***************************************************************************)
(* Properties.                                                             *)
(***************************************************************************)

\* A client whose connection works is the one the server routes its name to: a
\* client that lost the name to another is about to be told.  The exception is a
\* session that a takeover removed before it failed, of which nobody is told.
ConnectedIsServed ==
  \A c \in Client \ forgotten :
    link[c] = "ok" => holder[want[c]] = c /\ reap[want[c]] = Never

\* A client that gives up was turned away by somebody else at least once, or a
\* registration of its own got through after a refusal and the reply was lost.
\* Its dead sessions alone, those of earlier lost replies included, are gone
\* before its patience is.
GiveUpJustified == \A c \in Client : state[c] = "gaveUp" => c \in blamed \cup unanswered

\* Two clients of one token do not take a name from each other for ever: the one
\* that lost it stays away, unless it never got the close frame.
NoTakeoverWar == <>[](\A c \in Client : link[c] # "closing")

\* A client whose names nobody else holds does not retry for ever.
ComesBack == \A c \in Client : state[c] = "retrying" ~> state[c] # "retrying" \/ Rival(c)

=============================================================================
