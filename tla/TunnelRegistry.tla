--------------------------- MODULE TunnelRegistry ---------------------------
(***************************************************************************)
(* The tunnel registry of the server (internal/tunnel/registry.go) with    *)
(* the goroutines that drive it:                                           *)
(*                                                                         *)
(*   - one control handler per client WebSocket (internal/control): it     *)
(*     validates the token, registers one session, serves it until the     *)
(*     WebSocket is gone and deregisters it;                               *)
(*   - the admin handlers that revoke a token and kill its sessions        *)
(*     (internal/admin), and the command line that only writes the store;  *)
(*   - the revalidation ticker of cmd/server that kills the sessions of    *)
(*     tokens it finds disabled.                                           *)
(*                                                                         *)
(* A connection registers at most one session, so the two share one name.  *)
(* The code under r.mu is one action.  What runs after the unlock, that is *)
(* closeSession and Kick, is a sequence of separate actions, because that  *)
(* is where the goroutines above interleave.                               *)
(***************************************************************************)
EXTENDS Integers, FiniteSets

CONSTANTS
  Conn,        \* control connections, each with its handler goroutine
  Token,       \* token IDs of the store
  Subdomain,   \* names that pass the validator
  Protocol,    \* the protocols clients ask for, out of "http" and "tcp"
  Admin,       \* concurrent revoke requests of the admin API
  Sweeper,     \* the revalidation goroutine
  Nil,         \* no session, no token, no name
  MinPort,     \* tcpMinPort
  MaxPort,     \* tcpMaxPort
  ServerMax,   \* maxTunnelsPerToken, 0 is unlimited
  TokenMax,    \* the max_tunnels column of every token, 0 defers to ServerMax
  MaxFaults,   \* bound: store calls that fail
  MayCrash     \* whether the process may die and restart

Port == MinPort .. MaxPort
NoPort == 0
Killer == Admin \cup {Sweeper}

ASSUME ConstantsAssumption ==
  /\ Nil \notin Conn \cup Token \cup Subdomain
  /\ Protocol \subseteq {"http", "tcp"}
  /\ Sweeper \notin Admin
  /\ MinPort \in Nat \ {0}
  /\ MaxPort \in Nat
  /\ ServerMax \in Nat
  /\ TokenMax \in [Token -> Nat]
  /\ MaxFaults \in Nat
  /\ MayCrash \in BOOLEAN

VARIABLES
  \* the store, which survives a crash
  enabled,     \* the tokens whose row says enabled
  openRows,    \* the sessions whose tunnels row has no closed_at
  faults,      \* failed store calls so far
  \* the registry
  sessions,    \* r.sessions: who serves a subdomain
  portInUse,   \* tcpPortInUse
  \* the sessions
  tokenOf,     \* Session.TokenID
  subOf,       \* Session.Subdomain; before Register, the name asked for
  proto,       \* Session.Protocol
  port,        \* Session.TCPPort
  phase,       \* how far closeSession got
  kicked,      \* the sessions whose kicked channel is closed
  \* the control handlers
  pc,          \* where the handler of a connection is
  connected,   \* the connections whose WebSocket is up
  stale,       \* the session a takeover has still to tear down
  \* the killers
  kpc,         \* where a killer is
  killToken,   \* the token it kills
  doomed,      \* the sessions KillSessionsByToken collected and has not begun
  victim,      \* the one it is tearing down
  todo         \* the tokens the sweep has still to check

storeVars == <<enabled, openRows, faults>>
sessVars == <<tokenOf, subOf, proto, port>>
connVars == <<pc, connected, stale>>
killVars == <<kpc, killToken, doomed, victim, todo>>
vars == <<storeVars, sessions, portInUse, sessVars, phase, kicked, connVars, killVars>>

TypeOK ==
  /\ enabled \in SUBSET Token
  /\ openRows \in SUBSET Conn
  /\ faults \in 0 .. MaxFaults
  /\ sessions \in [Subdomain -> Conn \cup {Nil}]
  /\ portInUse \in SUBSET Port
  /\ tokenOf \in [Conn -> Token \cup {Nil}]
  /\ subOf \in [Conn -> Subdomain \cup {Nil}]
  /\ proto \in [Conn -> {"http", "tcp"}]
  /\ port \in [Conn -> Port \cup {NoPort}]
  /\ phase \in [Conn -> {"none", "live", "unbound", "closed"}]
  /\ kicked \in SUBSET Conn
  /\ pc \in [Conn -> {"idle", "auth", "undo", "takeover", "serving", "closing", "done"}]
  /\ connected \in SUBSET Conn
  /\ stale \in [Conn -> Conn \cup {Nil}]
  /\ kpc \in [Killer -> {"idle", "kill", "closing"}]
  /\ killToken \in [Killer -> Token \cup {Nil}]
  /\ doomed \in [Killer -> SUBSET Conn]
  /\ victim \in [Killer -> Conn \cup {Nil}]
  /\ todo \in SUBSET Token
  /\ \A c \in Conn : pc[c] = "takeover" => stale[c] \in Conn
  /\ \A k \in Killer : kpc[k] = "closing" => victim[k] \in Conn

Init ==
  /\ enabled = Token
  /\ openRows = {}
  /\ faults = 0
  /\ sessions = [s \in Subdomain |-> Nil]
  /\ portInUse = {}
  /\ tokenOf = [c \in Conn |-> Nil]
  /\ subOf = [c \in Conn |-> Nil]
  /\ proto = [c \in Conn |-> "http"]
  /\ port = [c \in Conn |-> NoPort]
  /\ phase = [c \in Conn |-> "none"]
  /\ kicked = {}
  /\ pc = [c \in Conn |-> "idle"]
  /\ connected = {}
  /\ stale = [c \in Conn |-> Nil]
  /\ kpc = [k \in Killer |-> "idle"]
  /\ killToken = [k \in Killer |-> Nil]
  /\ doomed = [k \in Killer |-> {}]
  /\ victim = [k \in Killer |-> Nil]
  /\ todo = {}

-----------------------------------------------------------------------------
(***************************************************************************)
(* The locked part of Register.                                            *)
(***************************************************************************)

\* The names token t holds: activeTunnelsForToken ranges over r.sessions.
Held(t) == {s \in Subdomain : sessions[s] # Nil /\ tokenOf[sessions[s]] = t}

\* The cap of token t when its row can be read.
Limit(t) == IF TokenMax[t] > 0 THEN TokenMax[t] ELSE ServerMax

\* The cap Register applies: a failed GetTokenByID falls back to the server's.
AppliedLimit(t, failed) == IF failed THEN ServerMax ELSE Limit(t)

\* Mutant of AtLimit: one tunnel too many.
AtLimitOffByOne(t, failed) ==
  /\ AppliedLimit(t, failed) > 0
  /\ Cardinality(Held(t)) > AppliedLimit(t, failed)

AtLimit(t, failed) ==
  /\ AppliedLimit(t, failed) > 0
  /\ Cardinality(Held(t)) >= AppliedLimit(t, failed)

\* The name c registers: the one it asked for, or a random one not in the map.
Names(c, s) == IF subOf[c] = Nil THEN sessions[s] = Nil ELSE s = subOf[c]

\* Mutant of HeldByOther: the token IDs are not compared.
HeldByNobody(c, s) == FALSE

HeldByOther(c, s) == sessions[s] # Nil /\ tokenOf[sessions[s]] # tokenOf[c]

\* n store calls fail.
StoreFaults(n) == faults + n <= MaxFaults /\ faults' = faults + n

\* What the read of the token's cap costs.
ReadFaults(failed) == IF failed THEN 1 ELSE 0

\* Register gets past the limit and the conflict check with the name s.
Admitted(c, s, failed) ==
  /\ pc[c] = "auth"
  /\ Names(c, s)
  /\ ~AtLimit(tokenOf[c], failed)
  /\ ~HeldByOther(c, s)

\* p is the port the scan finds when other processes have busy bound.
Allocates(busy, p) ==
  /\ p \in Port \ (portInUse \cup busy)
  /\ \A q \in Port \ (portInUse \cup busy) : p <= q

\* The port a session of c's protocol gets.
GetsPort(c, p) ==
  IF proto[c] = "tcp" THEN \E busy \in SUBSET Port : Allocates(busy, p) ELSE p = NoPort

\* Mutant of ReleasePort: the port stays marked.
LeakPort(p) == UNCHANGED portInUse

\* releaseTCPPort.
ReleasePort(p) == portInUse' = portInUse \ {p}

\* The handler gives up before it has a session: error frame, conn.Close.
FailHandshake(c) ==
  /\ pc' = [pc EXCEPT ![c] = "done"]
  /\ connected' = connected \ {c}

\* ValidateToken accepted the register frame of c.
ValidateToken(c, t, s, pr) ==
  /\ pc[c] = "idle"
  /\ t \in enabled
  /\ pc' = [pc EXCEPT ![c] = "auth"]
  /\ connected' = connected \cup {c}
  /\ tokenOf' = [tokenOf EXCEPT ![c] = t]
  /\ subOf' = [subOf EXCEPT ![c] = s]
  /\ proto' = [proto EXCEPT ![c] = pr]
  /\ UNCHANGED <<storeVars, sessions, portInUse, port, phase, kicked, stale, killVars>>

\* ValidateToken refused it: the token is unknown or disabled.
RefuseToken(c, t) ==
  /\ pc[c] = "idle"
  /\ t \notin enabled
  /\ FailHandshake(c)
  /\ UNCHANGED <<storeVars, sessions, portInUse, sessVars, phase, kicked, stale, killVars>>

\* tunnel_limit_reached, before anything is looked at.
RegisterAtLimit(c) ==
  /\ pc[c] = "auth"
  /\ \E failed \in BOOLEAN : AtLimit(tokenOf[c], failed) /\ StoreFaults(ReadFaults(failed))
  /\ FailHandshake(c)
  /\ UNCHANGED <<enabled, openRows, sessions, portInUse, sessVars, phase, kicked, stale, killVars>>

\* subdomain_in_use.
RegisterInUse(c) ==
  /\ pc[c] = "auth"
  /\ subOf[c] # Nil
  /\ HeldByOther(c, subOf[c])
  /\ \E failed \in BOOLEAN : ~AtLimit(tokenOf[c], failed) /\ StoreFaults(ReadFaults(failed))
  /\ FailHandshake(c)
  /\ UNCHANGED <<enabled, openRows, sessions, portInUse, sessVars, phase, kicked, stale, killVars>>

\* tcp_port_unavailable.  The session that held the name is out of the map by
\* now; the early return forgets it.
RegisterNoPort(c, s) ==
  /\ \E failed \in BOOLEAN : Admitted(c, s, failed) /\ StoreFaults(ReadFaults(failed))
  /\ proto[c] = "tcp"
  /\ \E busy \in SUBSET Port : ~\E p \in Port : Allocates(busy, p)
  /\ sessions' = [sessions EXCEPT ![s] = Nil]
  /\ FailHandshake(c)
  /\ UNCHANGED <<enabled, openRows, portInUse, sessVars, phase, kicked, stale, killVars>>

\* OpenTunnel fails.  The port is still taken when the lock is released, and
\* the session that held the name is forgotten here too.
RegisterPersistFails(c, s, p) ==
  /\ \E failed \in BOOLEAN : Admitted(c, s, failed) /\ StoreFaults(ReadFaults(failed) + 1)
  /\ GetsPort(c, p)
  /\ sessions' = [sessions EXCEPT ![s] = Nil]
  /\ portInUse' = portInUse \cup ({p} \ {NoPort})
  /\ port' = [port EXCEPT ![c] = p]
  /\ pc' = [pc EXCEPT ![c] = "undo"]
  /\ UNCHANGED <<enabled, openRows, tokenOf, subOf, proto, phase, kicked, connected, stale, killVars>>

\* ... and then the listener is closed and the port released.
RegisterUndo(c) ==
  /\ pc[c] = "undo"
  /\ ReleasePort(port[c])
  /\ port' = [port EXCEPT ![c] = NoPort]
  /\ FailHandshake(c)
  /\ UNCHANGED <<storeVars, sessions, tokenOf, subOf, proto, phase, kicked, stale, killVars>>

\* Mutants of AfterRegister: stale is not compared with nil; it is not torn down.
AfterRegisterUnchecked(old) == "takeover"
AfterRegisterForgets(old) == "serving"

\* What the handler does once it holds the name that old had.
AfterRegister(old) == IF old = Nil THEN "serving" ELSE "takeover"

\* The session is published.  A session of the same token that held the name
\* is left for this handler to tear down.
RegisterOK(c, s, p) ==
  /\ \E failed \in BOOLEAN : Admitted(c, s, failed) /\ StoreFaults(ReadFaults(failed))
  /\ GetsPort(c, p)
  /\ sessions' = [sessions EXCEPT ![s] = c]
  /\ portInUse' = portInUse \cup ({p} \ {NoPort})
  /\ port' = [port EXCEPT ![c] = p]
  /\ subOf' = [subOf EXCEPT ![c] = s]
  /\ phase' = [phase EXCEPT ![c] = "live"]
  /\ openRows' = openRows \cup {c}
  /\ stale' = [stale EXCEPT ![c] = sessions[s]]
  /\ pc' = [pc EXCEPT ![c] = AfterRegister(sessions[s])]
  /\ UNCHANGED <<enabled, tokenOf, proto, kicked, connected, killVars>>

-----------------------------------------------------------------------------
(***************************************************************************)
(* closeSession.  closeOnce lets one caller run the body and makes every   *)
(* other caller wait until it is done, so a step of the body belongs to    *)
(* whoever is inside a call for that session.                              *)
(***************************************************************************)

\* Some goroutine is inside closeSession(x).
Closing(x) ==
  \/ pc[x] = "closing"
  \/ \E c \in Conn : pc[c] = "takeover" /\ stale[c] = x
  \/ \E k \in Killer : kpc[k] = "closing" /\ victim[k] = x

\* Mutant of TornDown: closeOnce does not wait.
NotWaited(x) == TRUE

\* closeSession(x) returns.
TornDown(x) == phase[x] = "closed"

\* Mutant of Kick: nothing happens.
NoKick(x) == UNCHANGED kicked

\* Session.Kick: idempotent, the writer of x will see it.
Kick(x) == kicked' = kicked \cup {x}

\* The TCP listener is closed, the port released (TCPPort is not read again).
CloseListener(x) ==
  /\ Closing(x)
  /\ phase[x] = "live"
  /\ phase' = [phase EXCEPT ![x] = "unbound"]
  /\ ReleasePort(port[x])
  /\ port' = [port EXCEPT ![x] = NoPort]
  /\ UNCHANGED <<storeVars, sessions, tokenOf, subOf, proto, kicked, connVars, killVars>>

\* The pipes of the streams are closed, then the row; an error of CloseTunnel
\* is logged and forgotten.
CloseRow(x) ==
  /\ Closing(x)
  /\ phase[x] = "unbound"
  /\ phase' = [phase EXCEPT ![x] = "closed"]
  /\ \/ openRows' = openRows \ {x} /\ UNCHANGED faults
     \/ StoreFaults(1) /\ UNCHANGED openRows
  /\ UNCHANGED <<enabled, sessions, portInUse, sessVars, kicked, connVars, killVars>>

\* Register is back from closeSession(stale), kicks it and returns: the
\* handler starts the writer and reads.
FinishTakeover(c) ==
  /\ pc[c] = "takeover"
  /\ TornDown(stale[c])
  /\ Kick(stale[c])
  /\ stale' = [stale EXCEPT ![c] = Nil]
  /\ pc' = [pc EXCEPT ![c] = "serving"]
  /\ UNCHANGED <<storeVars, sessions, portInUse, sessVars, phase, connected, killVars>>

-----------------------------------------------------------------------------
(***************************************************************************)
(* The rest of a connection's life.                                        *)
(***************************************************************************)

\* The WebSocket is lost: the client left, or the pong deadline passed.
ClientGone(c) ==
  /\ c \in connected
  /\ connected' = connected \ {c}
  /\ UNCHANGED <<storeVars, sessions, portInUse, sessVars, phase, kicked, pc, stale, killVars>>

\* The writer sees the kick, sends the close frame and closes the WebSocket.
WriterCloses(c) ==
  /\ pc[c] = "serving"
  /\ c \in kicked \cap connected
  /\ connected' = connected \ {c}
  /\ UNCHANGED <<storeVars, sessions, portInUse, sessVars, phase, kicked, pc, stale, killVars>>

\* Mutants of Unregister: the map keeps the session; whoever has the name goes.
UnregisterNothing(x) == UNCHANGED sessions
UnregisterByName(x) == sessions' = [s \in Subdomain |-> IF s = subOf[x] THEN Nil ELSE sessions[s]]

\* The map without session x, if it is still the one registered.
Unregister(x) ==
  sessions' = [s \in Subdomain |->
                 IF s = subOf[x] /\ sessions[s] = x THEN Nil ELSE sessions[s]]

\* The reader returned: the deferred DeregisterSession, up to closeSession.
DeregisterSession(c) ==
  /\ pc[c] = "serving"
  /\ c \notin connected
  /\ Unregister(c)
  /\ pc' = [pc EXCEPT ![c] = "closing"]
  /\ UNCHANGED <<storeVars, portInUse, sessVars, phase, kicked, connected, stale, killVars>>

\* closeSession returned and the handler with it.
HandlerReturns(c) ==
  /\ pc[c] = "closing"
  /\ TornDown(c)
  /\ pc' = [pc EXCEPT ![c] = "done"]
  /\ UNCHANGED <<storeVars, sessions, portInUse, sessVars, phase, kicked, connected, stale, killVars>>

-----------------------------------------------------------------------------
(***************************************************************************)
(* Revocation.                                                             *)
(***************************************************************************)

\* The admin API disables the token, then calls KillSessionsByToken.
RevokeByAdmin(a, t) ==
  /\ kpc[a] = "idle"
  /\ enabled' = enabled \ {t}
  /\ kpc' = [kpc EXCEPT ![a] = "kill"]
  /\ killToken' = [killToken EXCEPT ![a] = t]
  /\ UNCHANGED <<openRows, faults, sessions, portInUse, sessVars, phase, kicked, connVars,
                 doomed, victim, todo>>

\* tunnd-server token revoke: another process, the store and nothing else.
RevokeByCLI(t) ==
  /\ t \in enabled
  /\ enabled' = enabled \ {t}
  /\ UNCHANGED <<openRows, faults, sessions, portInUse, sessVars, phase, kicked, connVars, killVars>>

\* The ticker fires: RevalidateTokens takes the tokens of the live sessions.
SweepStart ==
  /\ kpc[Sweeper] = "idle"
  /\ todo = {}
  /\ todo' = {t \in Token : Held(t) # {}}
  /\ UNCHANGED <<storeVars, sessions, portInUse, sessVars, phase, kicked, connVars,
                 kpc, killToken, doomed, victim>>

\* One token is read outside the lock; a disabled one will be killed.
SweepCheck(t) ==
  /\ kpc[Sweeper] = "idle"
  /\ t \in todo
  /\ todo' = todo \ {t}
  /\ IF t \in enabled
       THEN UNCHANGED <<kpc, killToken>>
       ELSE /\ kpc' = [kpc EXCEPT ![Sweeper] = "kill"]
            /\ killToken' = [killToken EXCEPT ![Sweeper] = t]
  /\ UNCHANGED <<storeVars, sessions, portInUse, sessVars, phase, kicked, connVars, doomed, victim>>

\* The read fails: the sweep goes on with the next token.
SweepSkips(t) ==
  /\ kpc[Sweeper] = "idle"
  /\ t \in todo
  /\ StoreFaults(1)
  /\ todo' = todo \ {t}
  /\ UNCHANGED <<enabled, openRows, sessions, portInUse, sessVars, phase, kicked, connVars,
                 kpc, killToken, doomed, victim>>

\* Killer k goes on with one of the sessions D, or is done.
GoOnWith(k, D) ==
  \/ /\ D = {}
     /\ kpc' = [kpc EXCEPT ![k] = "idle"]
     /\ victim' = [victim EXCEPT ![k] = Nil]
     /\ doomed' = [doomed EXCEPT ![k] = {}]
  \/ \E d \in D :
       /\ kpc' = [kpc EXCEPT ![k] = "closing"]
       /\ victim' = [victim EXCEPT ![k] = d]
       /\ doomed' = [doomed EXCEPT ![k] = D \ {d}]

\* The locked part of KillSessionsByToken: collect and unmap.
KillCollect(k) ==
  /\ kpc[k] = "kill"
  /\ sessions' = [s \in Subdomain |->
                    IF s \in Held(killToken[k]) THEN Nil ELSE sessions[s]]
  /\ GoOnWith(k, {sessions[s] : s \in Held(killToken[k])})
  /\ killToken' = [killToken EXCEPT ![k] = Nil]
  /\ UNCHANGED <<storeVars, portInUse, sessVars, phase, kicked, connVars, todo>>

\* closeSession returned: kick the session and take the next one.
KillNext(k) ==
  /\ kpc[k] = "closing"
  /\ TornDown(victim[k])
  /\ Kick(victim[k])
  /\ GoOnWith(k, doomed[k])
  /\ UNCHANGED <<storeVars, sessions, portInUse, sessVars, phase, connVars, killToken, todo>>

-----------------------------------------------------------------------------
\* The process dies, or shuts down, and is started again.  Memory and sockets
\* are gone; the store keeps its rows and nothing repairs them.
Crash ==
  /\ MayCrash
  /\ sessions' = [s \in Subdomain |-> Nil]
  /\ portInUse' = {}
  /\ port' = [c \in Conn |-> NoPort]
  /\ phase' = [c \in Conn |-> "none"]
  /\ kicked' = {}
  /\ pc' = [c \in Conn |-> IF pc[c] = "idle" THEN "idle" ELSE "done"]
  /\ connected' = {}
  /\ stale' = [c \in Conn |-> Nil]
  /\ kpc' = [k \in Killer |-> "idle"]
  /\ killToken' = [k \in Killer |-> Nil]
  /\ doomed' = [k \in Killer |-> {}]
  /\ victim' = [k \in Killer |-> Nil]
  /\ todo' = {}
  /\ UNCHANGED <<storeVars, tokenOf, subOf, proto>>

-----------------------------------------------------------------------------
Handshake(c) ==
  \/ \E t \in Token, s \in Subdomain \cup {Nil}, pr \in Protocol : ValidateToken(c, t, s, pr)
  \/ \E t \in Token : RefuseToken(c, t)
  \/ RegisterAtLimit(c)
  \/ RegisterInUse(c)
  \/ \E s \in Subdomain : RegisterNoPort(c, s)
  \/ \E s \in Subdomain, p \in Port \cup {NoPort} : RegisterPersistFails(c, s, p)
  \/ RegisterUndo(c)
  \/ \E s \in Subdomain, p \in Port \cup {NoPort} : RegisterOK(c, s, p)

Teardown(c) ==
  \/ CloseListener(c)
  \/ CloseRow(c)
  \/ FinishTakeover(c)
  \/ WriterCloses(c)
  \/ DeregisterSession(c)
  \/ HandlerReturns(c)

Sweep ==
  \/ SweepStart
  \/ \E t \in Token : SweepCheck(t) \/ SweepSkips(t)

Kill(k) == KillCollect(k) \/ KillNext(k)

Revoke ==
  \/ \E a \in Admin, t \in Token : RevokeByAdmin(a, t)
  \/ \E t \in Token : RevokeByCLI(t)

Next ==
  \/ \E c \in Conn : Handshake(c) \/ Teardown(c) \/ ClientGone(c)
  \/ \E k \in Killer : Kill(k)
  \/ Sweep
  \/ Revoke
  \/ Crash

Spec == Init /\ [][Next]_vars

\* Every goroutine that has a step to take takes it, the ticker keeps firing
\* and the sweep reaches every token.  Neither a client that leaves or asks for
\* something, nor a revocation, nor a crash is owed.
Fairness ==
  /\ \A c \in Conn :
       /\ WF_vars(pc[c] # "idle" /\ Handshake(c))
       /\ WF_vars(Teardown(c))
  /\ \A k \in Killer : WF_vars(Kill(k))
  /\ WF_vars(SweepStart)
  /\ \A t \in Token : WF_vars(SweepCheck(t))

FairSpec == Spec /\ Fairness

-----------------------------------------------------------------------------
(***************************************************************************)
(* Properties.                                                             *)
(***************************************************************************)

\* Lookup never hands out a session whose teardown has begun: a session in the
\* map is registered under that name, has its listener and its row, and was not
\* kicked; its handler is still there to remove it.
MappedIsLive ==
  \A s \in Subdomain : sessions[s] # Nil =>
    LET c == sessions[s] IN
      /\ subOf[c] = s
      /\ phase[c] = "live"
      /\ pc[c] \in {"takeover", "serving"}
      /\ c \notin kicked
      /\ c \in openRows

\* tcpPortInUse neither leaks a port nor lends it twice: a port is marked
\* exactly while one session, or one failing registration, holds it.
PortsMatch ==
  /\ portInUse = {port[c] : c \in Conn} \ {NoPort}
  /\ \A c, d \in Conn : c # d /\ port[c] # NoPort => port[c] # port[d]

\* The cap a token cannot get past, reads that fail included: then Register
\* applies the server's cap in its place.
Cap == [t \in Token |->
          IF MaxFaults = 0 \/ (ServerMax > 0 /\ Limit(t) > ServerMax) THEN Limit(t)
          ELSE IF Limit(t) = 0 THEN 0 ELSE ServerMax]

\* However registrations, takeovers and kills interleave, no token holds more
\* names than its cap.
LimitRespected == \A t \in Token : Cap[t] > 0 => Cardinality(Held(t)) <= Cap[t]

\* Somebody is bound to call closeSession(x).
TeardownOwed(x) ==
  \/ Closing(x)
  \/ \E k \in Killer : x \in doomed[k]

\* No session is out of reach: one that still has its listener and its client
\* is in the map, where revocation and the limit see it, or is being torn down.
NoSessionForgotten ==
  \A c \in Conn :
    phase[c] = "live" => TeardownOwed(c) \/ \E s \in Subdomain : sessions[s] = c

\* A client is told not to come back (close code 4429) only after its session
\* is torn down, and only because its token was revoked or a later session of
\* the same token took its name.
KickJustified ==
  \A c \in kicked :
    /\ phase[c] = "closed"
    /\ \/ tokenOf[c] \notin enabled
       \/ \E d \in Conn \ {c} :
            /\ tokenOf[d] = tokenOf[c]
            /\ subOf[d] = subOf[c]
            /\ pc[d] \notin {"idle", "auth"}

\* A session leaves the map because its own connection is gone, because its
\* token is disabled or because its token registered the name again.  A stale
\* disconnect never unmaps the session that replaced it.
RemovalJustified ==
  [][\A s \in Subdomain :
       sessions[s] # Nil /\ sessions'[s] # sessions[s] =>
         \/ sessions[s] \notin connected
         \/ tokenOf[sessions[s]] \notin enabled
         \/ sessions'[s] # Nil /\ tokenOf[sessions'[s]] = tokenOf[sessions[s]]]_vars

\* The token a name belongs to.
Owner == [s \in Subdomain |-> IF sessions[s] = Nil THEN Nil ELSE tokenOf[sessions[s]]]

\* The registry implements the lease of names: a name belongs to one token,
\* changes hands only by being released, and no token gets past its cap.
Lease == INSTANCE SubdomainLease WITH None <- Nil, owner <- Owner
ImplementsLease == Lease!Spec

\* A revoked token's tunnels die, no matter how it was revoked.
RevokedSessionsDie ==
  \A c \in Conn :
    phase[c] = "live" /\ tokenOf[c] \notin enabled ~> phase[c] # "live" /\ c \notin connected

\* When a client is lost its session is torn down to the end.
LostClientIsCleanedUp ==
  \A c \in Conn : phase[c] = "live" /\ c \notin connected ~> phase[c] \in {"none", "closed"}

\* A session that was replaced loses its WebSocket.
StaleClientIsDisconnected ==
  \A c, x \in Conn : stale[c] = x ~> x \notin connected

=============================================================================
