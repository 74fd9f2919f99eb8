# A verification project for tunnd

tunnd exposes local HTTP and TCP services on public names. A server
(`tunnd-server`) accepts one WebSocket per client (`tunnd`), registers a tunnel
on it, and multiplexes every public request or TCP connection over that
WebSocket as a numbered stream. This directory holds TLA+ models of the parts
where goroutines, sockets and the store meet, the TLC configurations that check
them on small instances, and TLAPS proofs of what matters most.

Line numbers below are those of the commit the models were written from.

## 1. Inventory

| Part | Source | State | Operations |
|---|---|---|---|
| Tunnel registry | `src/internal/tunnel/registry.go` | `r.sessions`, `tcpPortInUse`; per session `TCPPort`, `streams`, `closeOnce`, `kicked` | `Register`, `DeregisterSession`, `closeSession`, `Kick`, `KillSessionsByToken`, `RevalidateTokens`, `allocateTCPPort`, `releaseTCPPort`, `Lookup`, `ServeHTTP`, `openStream`, `CloseStream`, `pumpRequest`, `acceptTCPLoop`, `proxyTCPConn`, `handleUpgrade` |
| Control handler | `src/internal/control/control.go` | per connection: the handshake's progress, reader and writer goroutines, pong deadline | `ServeHTTP`, `handshake`, `reader`, `writer` |
| Client tunnel loop | `src/cmd/client/main.go`, `reconnect.go` | `tc.streams`, per stream a `reqBuffer` and the local connection; `registered`, `registerRetries`, backoff | `connectWithRetry`, `connect`, `register`, `readLoop`, `pingLoop`, `openStream`, `driveStream`, `openTCPStream`, `driveTCPStream`, `closeStream` |
| Auth and store | `src/internal/auth/auth.go`, `src/internal/store/store.go` | tables `tokens`, `tunnels`, `settings` | `ValidateToken`, `DisableToken`, `OpenTunnel`, `CloseTunnel`, `GetTokenByID` |
| Rate limiter | `src/internal/ratelimit/ratelimit.go` | per key: count and start of window | `Allow`, `Strike`, `Reset`, `RetryAfter`, janitor |
| Admin API | `src/internal/admin/admin.go`, `password.go` | admin password (store), session map with expiry | setup, login, logout, password change, token create/revoke, reaper |
| Wire format | `src/pkg/proto/proto.go` | none | encode and decode of frames |
| Names and headers | `src/internal/tunnel/validator.go`, `forward.go` | none | validation of names, Host and X-Forwarded headers |
| Self update | `src/cmd/client/update.go` | files | download, compare versions, replace |
| Configuration, start-up | `src/internal/config/config.go`, `src/cmd/server/main.go` | none once started; the 60 s revalidation ticker | load, validate, serve, shut down |
| Public listener | `src/internal/publicsrv/publicsrv.go` | none | route by host to registry, control, admin |
| Dashboard pages | `src/internal/admin/ui.go` | none | static HTML |

### How the parts interact

* A client's WebSocket gets a **handler goroutine**. It validates the token (auth
  -> store), calls `Register` (registry -> store), starts a **writer goroutine**
  that drains the session's send queue, and runs the **reader** itself; when the
  reader returns, a deferred `DeregisterSession` tears the session down.
* `Register` may **take over** a name of the same token: it unmaps the old
  session under the lock and tears it down after the unlock.
* `KillSessionsByToken` is called by **admin handlers** and by the
  **revalidation ticker**; it collects under the lock and tears down after it.
  `tunnd-server token revoke` is another process: it only writes the store, and
  the ticker notices.
* A **public request** is a goroutine in `ServeHTTP`, with one goroutine that
  writes the request into a pipe and one (`pumpRequest`) that turns the pipe into
  frames. The control reader writes response bytes into a second pipe of the
  stream, synchronously: one stream can stop the reader for all.
* At the client `readLoop` never blocks: request bytes go to an unbounded
  `reqBuffer`, and each stream has a `driveStream` goroutine that dials, copies
  the request, half-closes, copies the response and says MsgClose.

### What is hard, and what makes each part correct

* *Registry*: everything after `r.mu.Unlock()` interleaves with every other
  handler, killer and sweep; `closeOnce` makes several callers wait for one
  teardown; a store call, a port bind or the process can fail in between.
  Correct when a name leads only to a live session, ports are neither leaked nor
  lent twice, a token keeps to its cap, nobody is told "do not come back" without a
  reason, a stale disconnect never removes the successor, and a revoked token's
  sessions die.
* *Streams*: a session dies while five goroutines of a stream wait on each other
  through unbuffered pipes and bounded queues; the end of a stream must not
  overtake its data. Correct when what arrives is whole or a prefix, the reader is
  never stuck on a stream nobody reads, and everything ends.
* *Client loop*: which errors are fatal, which are retried and how often; what
  happens to streams when the WebSocket goes. Correct when a retry budget is a
  budget, and a kicked client stays away.
* *TCP streams and upgrades*: each direction has its own goroutine at each end, and
  each may be closed by itself. Correct when the bytes keep their order, nothing
  sent is cut off by the end of the stream, and a side that leaves takes all
  goroutines with it. The first streams may be opened before the client has been
  told that it is registered.
* *Rate limiter, admin sessions*: checks and updates under separate lock
  sections; windows and expiries at their edges; a bcrypt comparison between
  reading the password and using the answer. Correct when a limit is exceeded by
  those in flight at most, a password change ends what it should, and cleaning up
  is invisible.
* *Names*: validator, registry, router, certificate policy and header rewriting each
  have their own idea of a name. Correct when they agree on every name a client
  can get.
* *Update hint*: a cache file shared by processes, as old as it may be, against a
  version that changes under it. *Configuration*: what `Validate` accepts the rest
  of the start-up must be able to use.

`PROJECT.json` lists the hazards one by one, each at its line, with the property
that covers it or the reason why none does yet.

## 2. Modules

| Module | Models |
|---|---|
| `SubdomainLease` | what the registry promises about names: a name has one owner, changes hands only by being released, and no token exceeds its cap |
| `TunnelRegistry` | the registry with its handlers, killers, sweep, store and crashes |
| `TunnelRegistryProofs` | theorems about it |
| `Session` | one session: send queue, reader, writer, teardown, pipes; readLoop and its stream map at the client |
| `HttpStream` (extends `Session`) | public HTTP requests end to end |
| `SessionProofs` | lemmas about frames in the two FIFOs of a session |
| `HttpStreamProofs` (extends `SessionProofs`) | theorems about `HttpStream` |
| `TcpStream` (extends `Session`) | TCP connections and upgraded requests end to end, and the end of the handshake they run against |
| `TcpStreamProofs` (extends `SessionProofs`) | theorems about it |
| `ClientReconnect` | the client's reconnect loop against the clock, with what the server holds for dead sessions |
| `ClientReconnectProofs` | theorems about it |
| `RateLimiter` | the failure limiter and the protocol of its two users |
| `RateLimiterProofs` | theorems about it |
| `AdminAuth` (extends `RateLimiter`) | password, browser sessions and login of the admin server |
| `AdminAuthProofs` | theorems about it; in particular that it implements `RateLimiter` |
| `PublicName` | the pure functions on names, hosts and headers, from registration to the local service |
| `SelfUpdate` | the update hint, its cache file, and version comparison |
| `Settings` | configuration, validation and start-up of the server |
| `PartsProofs` | theorems about `PublicName`, `SelfUpdate` and `Settings` |
| `MCTunnelRegistry`, `MCHttpStream`, `MCTcpStream`, `MCClientReconnect`, `MCAdminAuth`, `MCParts` | instances for TLC |

No module uses a RECURSIVE operator, so each can be proved about. What is left to
do is listed at the end of section 6 and in section 7.

## 3. How the models correspond to the code

### TunnelRegistry

Everything the code does under `r.mu` is one action. What follows the unlock is a
sequence of actions, since that is where the goroutines interleave:

| Code | Actions |
|---|---|
| `handshake` up to `ValidateToken` | `ValidateToken`, `RefuseToken` |
| `Register` under the lock, by its exits | `RegisterAtLimit`, `RegisterInUse`, `RegisterNoPort`, `RegisterPersistFails`, `RegisterOK` |
| the rest of `Register` | `RegisterUndo` (port given back), `FinishTakeover` (`closeSession(stale)` returned, `Kick`) |
| `closeSession`, under `closeOnce` | `CloseListener`, `CloseRow`; any goroutine inside a call may take the step (`Closing`), each leaves when `TornDown` |
| `DeregisterSession` | `DeregisterSession`, `HandlerReturns` |
| writer on a kick; socket lost or pong deadline | `WriterCloses`; `ClientGone` |
| admin revoke, command-line revoke | `RevokeByAdmin`, `RevokeByCLI` |
| `KillSessionsByToken` | `KillCollect` (locked), `KillNext` (teardown, kick, next) |
| `RevalidateTokens` | `SweepStart` (locked), `SweepCheck`, `SweepSkips` (store read fails) |
| process death and restart | `Crash` |

Abstractions. A connection registers at most one session, so `Conn` names both. A
random name (`RandomSubdomain` retried until free) is any name not in the map.
Which ports other processes hold is chosen afresh at each scan. A failed store call
is bounded by `MaxFaults`. A connection is used once; a reconnect is another
member of `Conn`. Death and restart are one step, after which handlers are gone.
`Deregister(subdomain)` runs only if encoding MsgRegistered fails, which cannot
happen for a struct of strings and integers, and is left out.

### SubdomainLease

`Owner` maps each name to the token of the session in the map. Every step of
`TunnelRegistry` is an `Acquire`, a release, or leaves the owner alone; in
particular a takeover is invisible. `ImplementsLease` is both a run's PROPERTY and
a theorem.

### Session and HttpStream

The send queue, the writer and the socket are one FIFO `down` of bounded length;
the other direction of the socket is `up`. A pipe is unbuffered (`io.Pipe`), so a
write that is taken is one step with the read that takes it; the reader of the
control connection, however, is modelled as *holding* the frame it is blocked on
(`held`), since that block is what couples the streams of a session. `Send`
blocks, gives up after 30 s (bounded by `MaxDrops`) or when the session is kicked.
A socket that goes down loses an arbitrary suffix of what was under way in each
direction, except that a kick's close frame, if it is delivered, comes last.

`HttpStream` adds the goroutines of a stream: `ServeHTTP` (`Lookup`, `OpenStream`,
`SendOpen`, `ReadResponse`, and the three ways it returns), the request writer
together with `pumpRequest` (`PumpData`, `RequestWritten`, `RequestBreaksOff`,
`PumpEnds`), and `driveStream` (`StartDrive` to `FinishDrive`). `Lookup` and
`OpenStream` are separate because no lock spans them, and `OpenStream` and
`SendOpen` because `Send` runs after `streamMu` is released.

Abstractions. Requests and responses are numbered chunks. A pump's read and the
`Send` of what it read are one step: the pump holds nothing across a state in
which another goroutine could tell. A client's 10 s write timeout is covered by
`ConnectionLost`. Each stream serves one request (the server closes the
connection). Upgrades are left to `TcpStream`, which has them end early (`HeadFails`: the
connection is not hijacked, or `req.Write` fails) but leaves out a part of the head that
went out by then.

### ClientReconnect

| Code | Actions |
|---|---|
| `runTunnel`; the process killed and started again | `Start`, `Restart` |
| the head of the loop in `connectWithRetry` (backoff, budget) | `FailedRound` and `NextRound`, part of every action after which the loop goes round |
| `connect` and `register`, by what comes back, nothing included | `DialFails`, `Refused`, `Rejected`, `Registered`, `ReplyLost` |
| `Register` fails after it has granted the name | `RegisterFails` |
| the end of `readLoop` | `Notices`, `KickArrives`, `Stops` |
| Ctrl+C | `Quit` between attempts, `Interrupt` while the tunnel is up |
| a connection that dies; the server's close frame lost | `LinkDies`, `KickLost` |
| `Register`, as the clients of one token see it | `AtLimit`, `InUse`, `Grants`, `LinksAfter` |
| the server's reader and `DeregisterSession` | `Reap` |

Time. `wait` and `reap` count seconds down. `Tick` is disabled while anything is
due: an attempt whose wait is over, a deadline that is reached, a close frame on
its way. A dead connection may be noticed at any moment before its deadline.

Abstractions. All clients use one token, and `Other` stands for every other
token. Dialling and the handshake take no time, so a refusal counts against the
shortest budget. `DialFails` and `Refused` are what leaves the server as it was: the
throttle's 429, a handshake that breaks off before `Register`, a rejection that is
lost; a name or a token that is not accepted. After `Register` has granted a name,
two things may go wrong. `RegisterFails`: no port is free or the store fails, when the
session that held the name is out of the map (registry.go:275-330); its client
keeps its connection and is no longer routed to. `ReplyLost`: the session is there,
the other client is kicked, and the reply does not arrive (main.go:738-743); the session is
dead from the start, and only the server's deadline ends it. `blamed`, `unanswered` and
`forgotten` are bookkeeping: who was turned away, since it was last registered, when
somebody other than itself held a name; who lost a reply after it had been
turned away; and whose session a failed registration forgot. `LinksAfter` tells the old client at
once that it lost its name; `TunnelRegistry` has the steps in between.

### RateLimiter and AdminAuth

`RateLimiter` has one action per method (`Strike`, `Reset`, `Janitor`; `Allow` and
`RetryAfter` are operators of the state, as they change nothing that can be seen)
and the protocol of the callers: `Admit` is a call of `Allow` that lets the caller
go on, `Abandon` an end without a report. `counts[k].count = 0` stands for no
entry. `AdminAuth` is one of the two users, and its requests are the callers; the
other is `handshake`, whose calls are the same (`Admit` with `Strike` on a wrong
token and `Reset` on a right one, `Abandon` when the upgrade fails).

| Code | Actions |
|---|---|
| `handleSetup` | `Setup` (checks), `Store`, `NewSession` |
| `handleLogin` | `Login` (Allow), `Verify`, `LoginFails`, `LoginSucceeds`, `CheckLegacy`, `Store` (old passwords only), `NewSession` |
| `guard` and `changePassword` | `Change`, `Confirm`, `Store`, `Invalidate` |
| hashing or writing fails; no random bytes | `StoreFails`; `NoSession` |
| `handleLogout`, `reapSessions` | `Logout`, `Reap` |

The cuts are where the code takes no lock and calls the store or bcrypt. Abstractions.
A hash is the password it is of, with the form it is stored in; a comparison is
equality. Form checks (length, the two fields equal) restrict the passwords to those of a valid
length. A failed read of the settings is an empty row, as in the code, and bounded by
`MaxFaults`. `late`, `writer`, `by` and `spared` are bookkeeping for the properties:
a request is late if the password was written after it had passed its checks.

### PublicName

Names are sequences of characters, since the functions cut them at dots and colons:
one lower-case letter, one upper-case one, the hyphen, the blank, and the dot for
every character a label may not have. `Register` is the first registration (what the
client asks for, what `Register` gives, which header policy), `Reconnect` a later one
with the pinned name, `Visit` a public request, whose whole way is `Route` and
`Forward`. Two cuts of the port are kept apart because the code has both: at the
first colon in publicsrv.go, at the last in registry.go.

### SelfUpdate

`Run` is `maybePrintUpdateHint`, whose background goroutine is `Answered`,
`CheckDies`, `Truncate` and `Write` (os.WriteFile is two steps for another process);
`runUpdate` is `tunnd update`. Release tags are sequences of numbers, compared by
`splitSemver` and `newerThan` as in the code; what "newer" ought to mean is the
order in which releases come out, which the code does not know.

### Settings

`LoadServer` reads a file (`loadConfigFile` chooses it), merges and validates;
`Start` sets the port range, chooses the TLS mode and listens; `StartFails` stands for
everything on the way that returns an error. The merge of flags, environment, file
and defaults is viper's: every combination of candidate values may come out of it.

## 4. Runs

| Run | Instance | Shows |
|---|---|---|
| `names` | 3 connections, 2 tokens with 2 tunnels each, 3 names, HTTP, CLI revocation and sweep | `TypeOK`, `MappedIsLive`, `LimitRespected`, `NoSessionForgotten`, `KickJustified`, `RemovalJustified`, `ImplementsLease` |
| `ports` | 3 connections, 1 token, 2 names, HTTP and TCP, 2 ports, one store failure, crashes | `PortsMatch` |
| `revoke` | 2 connections, 2 tokens, one name, an admin, the sweep; fairness | `RevokedSessionsDie`, `LostClientIsCleanedUp`, `StaleClientIsDisconnected` |
| `orphan` | 2 connections, one TCP port | violated: `RevokedSessionsDie` |
| `streams` | 2 streams, requests of 1 and responses of 2 chunks, queues of 1, one mishap | `TypeOK`, `ResponseWhole`, `RequestWhole`, `ReaderIsAwaited` |
| `stream_ends` | 1 stream, 2 chunks each way, queue of 2, one mishap, one frame given up; fairness | `InFlightEnds`, `PumpsEnd`, `ClientStreamEnds` |
| `leak` | 1 stream | violated: `LocalConnectionEnds` |
| `tcp` | 1 stream of either kind, 1 chunk from the visitor, 2 from the service, send queue of 2, socket of 1; fairness | `TypeOK`, `InOrder`, `NothingCutOff`, `ReaderIsAwaited`, `RefusedWhenOvertaken`, `StreamEnds` |
| `tcp_close` | the same with 1 chunk each way | violated: `EitherEndCloses` |
| `comeback` | 2 clients of one token, 2 names, a cap of 2, 3 mishaps, 4 refusals 1 to 2 s apart against a deadline of 4 s; fairness | `TypeOK`, `ConnectedIsServed`, `GiveUpJustified`, `NoTakeoverWar`, `ComesBack` |
| `admin` | 2 requests at a time, 1 address, 2 passwords, 2 session tokens, windows and sessions of 2 ticks, a budget of 2, 2 ticks, one failed read | `TypeOK`, `StrikesBounded`, `RefusalJustified`, `OldSessionsEnd`, `PasswordKept`, `JanitorInvisible`, `ReaperInvisible` |
| `parts` | names of up to 6 characters with limits 3 and 5; 4 releases, 2 processes; every combination of the candidate settings | `PublishedIsReachable`, `OperatorNamesKept`, `HintIsRight`, `StartedAsValidated` |

**Why these bounds.** The registry's hazards involve a session, the one it replaces
and a third party (a killer, or another registration); three connections
give all three, and let a name be taken over twice in a row. Two tokens give a
conflict; three names and a cap of two make the cap bite below the number of
connections. Two ports and three connections make ports run out while one is
being given back. For streams, two share the reader, and queues of
length one make every sender block; responses of two chunks separate the first,
the last and the end. The theorems of section 6 remove the bounds for
every property of these runs that is not about liveness.
For reconnects, two clients fight over a name or a place; three mishaps allow a
loss, a lost close frame and a restart in one behaviour, or three restarts, or a takeover
that fails and leaves a connected client without a session. `GiveUpJustified` excepts a
client that lost a reply after a refusal; within three mishaps no client gives up for that
reason alone. With four mishaps one does: that instance, with 800,000 states, satisfies the
same properties, but takes longer than a run should, and the theorem covers it. The
times of `comeback` are the code's, scaled down: what matters is that the refusals
before the last span more than the server's deadline. `PatienceAssumption` says
so, and TLC evaluates it with the scaled numbers; the code's are 151 s (ten refusals, 1 to 30 s
apart) against 60 s.

In `tcp` the send queue holds two frames, so that a MsgOpenTCP may overtake
MsgRegistered and both are there at once; the socket holds one, so that the reader,
the service and the end of a stream wait for each other. One stream is enough for
what is checked there: streams meet only in the two queues and in the reader, which
`ReaderIsAwaited` says is never stuck on one, and a second one makes the state space
too large.

In `admin` two requests give every race of two handlers (two set-ups, a login against a
change, two changes, an upgrade of an old password against a change); two ticks reach
both edges of a window and of a session.

`parts` has three modules that share no variable; a behaviour explores one and
leaves the others as they were, so that their states are added up. A limit of 5
instead of 63 lets every relation of a name to the limits happen (2, 3, 5 and 6
characters, and 6 that become 5 when blanks are trimmed). The base domain is chosen to
look like a label, so that every cut that goes wrong still yields something that
passes for a name. Releases have a two-digit part, a pre-release, and a step in each of
the three parts. Ports take the values next to each limit.

**Deadlock** is checked for the registry (the sweep can always run) and for
reconnects (time can always pass), and not for the
streams, where each stream serves one request and then nothing is left to do, nor for
`admin` and `parts`, where the clock, the session tokens and the configuration run out.

**Liveness of streams is checked with one stream.** Streams share the two queues,
which readLoop and the reader drain, and the reader, which can be held up only by
a stream whose `ServeHTTP` is reading: `ReaderIsAwaited`, checked with two streams.

### The disagreements found

With a run each:

* `orphan` - a takeover removes the old session from the map before it allocates a
  port (registry.go:287-307). When there is none, or `OpenTunnel` fails, `Register`
  returns without tearing the old session down. It keeps its listener and its
  client, and no revocation or sweep finds it again.
* `leak` - when the WebSocket drops, `readLoop` returns and no reqBuffer is closed:
  a `driveStream` in the middle of a request waits for bytes that cannot come.
* `tcp_close` - when the local service closes, `driveTCPStream` waits for the goroutine
  that copies the other direction (main.go:1065), which ends only when the visitor sends
  something or closes. Until then nobody tells the visitor that the service is gone,
  against "until either end closes" (registry.go:827-829).

Seen while modelling, reachable in the models but without a run of their own:

* The client whose session a failed takeover forgot (`orphan`) notices nothing: its
  connection works, its keep-alives are answered, and visitors are told that there is no such
  tunnel. `ConnectedIsServed` excepts it as `forgotten`.
* A reply that is lost leaves a session at the server that is dead from the start. It
  counts against the cap, and a client at its cap is refused until the server's deadline for
  it; each lost reply starts such a wait anew, while the refusals before it stay on the
  account. So the client may use up its budget with nobody else in the way
  (main.go:654-662, 738-743). `GiveUpJustified` excepts it as `unanswered`.
* `Register` publishes the session, and a TCP port accepts, before `handshake` queues
  MsgRegistered (registry.go:345, control.go:149-161). A visitor in between puts MsgOpen or
  MsgOpenTCP first, and the client ends the round with "unexpected frame during handshake"
  (main.go:776). `RefusedWhenOvertaken` says that only this, a loss or a kill makes it do so.
* A session torn down between `Lookup` and `openStream` gets a stream whose pipes nobody
  closes: `ServeHTTP` reads for ever (registry.go:660; `InFlightEnds` excludes the
  case by name).
* `tc.registered` is set by the first registration and never cleared, so the budget of 10
  refusals is reset in every round (main.go:652) and a client that was up once retries
  for ever against a name that is taken for good; the comment at main.go:605-607 says otherwise.
* Ctrl+C is noticed only when `ReadMessage` fails, and nothing closes the connection:
  the tunnel goes on for up to 60 s (main.go:789).
* The old session's port is released only after the new one is chosen, so a TCP client
  that reconnects while its old session lingers comes back on another public port
  (registry.go:287).
* A visitor's MsgClose shuts the local connection at once (main.go:853, 1177), with bytes
  of the visitor still in the reqBuffer and a response still under way; a half-close
  of a visitor has the same effect. `InOrder` is about prefixes for this reason.
* `Send` on a session that is being kicked chooses among its ready cases: it may drop one
  chunk and queue the next (`InOrder` excepts it).
* A login that had verified the old password when a change was written opens its session
  after `invalidateSessionsExcept` (admin.go:443-445): `OldSessionsEnd` excepts it as
  `spared`.
* More than `Max` failures are possible in a window, by the number of callers in flight,
  although ratelimit.go says "at most max": `StrikesBounded` is the true bound. Its
  doc of `RetryAfter` says 0 for a key that is allowed; the code returns what is left
  of the window (ratelimit.go:87-102).
* "Never more than one network call per day" (update.go:79-82) does not hold after a check
  that failed, nor for two processes. The fallback of `newerThan` is inequality and not a comparison
  of strings (update.go:235).
* A domain of dots, slashes and colons only passes the check that there is a domain and is
  then trimmed to nothing (config.go:297-304), so a server may serve without one, although
  "'domain' is required", and validating what it serves with again is refused. It
  routes no tunnel then. `StartedAsValidated` has this as its one exception. A certificate without its key passes on port 443 and leads to plain HTTP;
  equal public and admin ports pass, and the second listener fails. `StartedAsValidated`
  names the certificate case.
* `NewWithValidator` says nil disables validation; nil means the default validator
  (registry.go:162-168).

## 5. Fairness

The registry: every goroutine with a step to take takes it (the Go scheduler, and
`r.mu` is held only for bounded work); the ticker fires every 60 s and the sweep
reaches every token it collected. `SweepSkips` is not fair, and store failures are
bounded. A client that leaves or asks for something, a revocation and a crash are
never owed.

Streams: goroutines run; the writer drains the queue because a write has a 30 s
deadline and a failure closes the socket; a dead peer is noticed through the pong
deadline, which is why a loss may happen at any time but is not owed. Browsers
are assumed to read their responses, to deliver their requests while the WebSocket
is up (after that they may stall, and `PumpsEnd` must not depend on them), and local
services to answer: the client gives a local response 60 minutes (main.go:974), the server sets no limit on purpose
(publicsrv.go:38-44), and without the assumption nothing can be said.

`TcpStream`: one condition, weak fairness of the disjunction of all goroutine steps
(`GoroutineSteps`). That is as strong as a condition for each goroutine because a
behaviour has no cycles: every step uses up a chunk, a frame or a place in the code, and
so as long as some goroutine can go on, some does, until none can. What visitors and services do, an arriving
connection, a loss and a kill are not in it, and never owed; what a goroutine does
after a kill or a loss is, the client's exit on close code 4429 included. `LostEarly` is
owed, since `register` waits 15 s at most.

`RateLimiter`, `AdminAuth` and the three parts have no liveness properties.

Reconnects: time passes, and whatever is due happens (`Rejected` or `Registered`, `Notices`
or `Stops`, `KickArrives`, `Reap`). Mishaps are bounded and never owed, so
`NoTakeoverWar` and `ComesBack` say what happens once they stop; in particular
`NoTakeoverWar` assumes that only finitely many close frames are lost. What other
tokens do is not owed, so `ComesBack` excuses a client with a rival.

## 6. Proofs

Every safety property that a run checks, invariant or action property, is also a theorem.

### The registry

`TunnelRegistryProofs` proves for every value of the constants that satisfies
`ConstantsAssumption`:

| Theorem | States |
|---|---|
| `TypeCorrect` | `TypeOK` |
| `LookupSafe` | `MappedIsLive` |
| `PortsAccounted` | `PortsMatch` |
| `CapHolds` | `LimitRespected` (finite sets of names) |
| `RegistryImplementsLease` | `ImplementsLease`: initial states and steps map to those of `SubdomainLease` |
| `KicksAreJustified` | `KickJustified` |
| `HttpSessionsInReach` | `NoSessionForgotten`, for HTTP tunnels and a store that does not fail: exactly the cases the `orphan` run excludes |
| `RemovalsAreJustified` | `RemovalJustified`, under the same conditions and while the process runs |

The argument. `MappedIsLive` is not inductive. A session reaches the map in
`RegisterOK` and must not already be under teardown, which needs two more facts:
whatever a takeover, a killer or a closing handler is about to tear down is no
longer in the map (`TargetsUnmapped`), and a handler that has not registered yet has
no session, row or kick (`NotYetRegistered`). Together with `Authenticated` (a handler past validation has
a token) they form the inductive `MapInv`. `PortsMatch` needs only that a handler
holds no port before `Register` gave it one (`NoPortYet`). `CapHolds` counts: a
name added by `RegisterOK` was held by the same token, or the cap that applied,
never above `Cap`, was not reached; the set of names held stays finite because
a step adds one at most (`CountInv`). `KicksAreJustified` carries the reason from
the goroutine that is about to kick (`KickReasons`); `HttpSessionsInReach` rests on
`MapInv` and on killers that collect nothing before they tear down. `RemovalsAreJustified`
follows from the lemma `RemovalStep`, which has no such conditions: a
registration of the same token that takes a name over and then fails, and a crash, are the
only other ways for a session to leave the map.

### Streams

`HttpStreamProofs` proves for every value of the constants that satisfies
`SessionAssumption` (which also keeps `Nil` apart from the frames) and `HttpAssumption`:

| Theorem | States |
|---|---|
| `TypeCorrect` | `TypeOK` |
| `ReaderNeverStuck` | `ReaderIsAwaited` |
| `ResponsesWhole` | `ResponseWhole` |
| `RequestsWhole` | `RequestWhole` |

and `TcpStreamProofs` with `TcpAssumption`:

| Theorem | States |
|---|---|
| `TypeCorrect` | `TypeOK` |
| `ReaderNeverStuck` | `ReaderIsAwaited` |
| `RefusalIsOvertaking` | `RefusedWhenOvertaken` |
| `ChunksInOrder` | `InOrder` |
| `EndIsComplete` | `NothingCutOff` |

The argument. `ReaderIsAwaited` needs to know, when the reader takes a frame, that
the stream's `ServeHTTP` has got as far as reading. A frame exists only because
`driveStream` sent it, `driveStream` only because MsgOpen arrived, and MsgOpen only
because `SendOpen` came before `ReadResponse`. So `FramesOK` types every frame in
both FIFOs by the streams that are `Launched`, `OthersLaunched` says the same of the
other goroutines, and `MapOK` that a pipe that is still open belongs to a stream in the
map, which `ServeHTTP` leaves only by closing it. `TcpStreamProofs` has the same
invariants for bridges.

Order and completeness are about one stream among many whose frames share a FIFO. The
invariant of both modules is `Order(s)`: the chunks of `s` that are in the FIFO are in
sequence, begin where those that arrived end, and the frame that ends the
stream is behind all of them; while the WebSocket is up, they end with the last
one sent. `SessionProofs` states that once, as `Flow`, with one lemma for each thing that can
happen to a FIFO: a chunk is appended, a chunk is taken, a frame of another kind
or another stream comes or goes, a suffix is lost, the socket goes down. Each step of a
goroutine then does one of these to `s`, or nothing. Beyond the FIFO the invariant follows
the chunk that the reader holds, the reqBuffer and whether it may still be
written to (`Holds`, `Early`). MsgOpen must be ahead of everything (`Preceded`), as a chunk
for a stream the client does not know is thrown away. For requests all of it
is conditional on `Carried`: `Send` may give a frame up.

### Reconnects

`ClientReconnectProofs` proves for any number of clients and names, and every value of the times
and budgets that satisfies `ReconnectAssumption` and `PatienceAssumption`:

| Theorem | States |
|---|---|
| `TypeCorrect` | `TypeOK` |
| `ConnectedServed` | `ConnectedIsServed` |
| `GivesUpForOthers` | `GiveUpJustified` |

The argument. `ConnectedIsServed` needs `SessionsOK`, which matches who holds a name with the
connections the clients believe in. It was not inductive at first, and rightly so: in
`LinksAfter` a takeover ended the connection of a client that asked for a name, but
was connected with another. The code kicks the client whose session it replaces;
the definition now says so. Two kinds of client have no session to match: one whose session a
failed registration forgot, which the property excepts, and one whose reply was lost, which has
no connection. `GiveUpJustified` is an account (`BudgetOf`), which grows only before the first registration: what a client
that is in the way of itself has waited so far, and what its dead session has left to live, add
up to no more than the deadline, so that its refusals end before the budget does. A lost reply
gives the client a dead session with a deadline of its own: before any refusal that is
harmless, as the account is empty; after one the account may no longer suffice, and the
client is `unanswered`. `Wait` and
`Patience` are recursive functions, whose values are proved to be typed and to add up.

### Limits and passwords

`RateLimiterProofs` proves for every value of the constants that satisfies
`LimiterAssumption`, and `AdminAuthProofs` with `AdminAssumption`:

| Theorem | States |
|---|---|
| `LimiterTypeCorrect` | `LimiterTypeOK` |
| `StrikesAreBounded` | `StrikesBounded` |
| `RefusalsAreJustified` | `RefusalJustified` |
| `JanitorIsInvisible` | `JanitorInvisible` |
| `ImplementsLimiter` | `Spec` of `AdminAuth` implies `LimiterSpec` |
| `LoginsThrottled`, `LoginRefusalsJustified` | `StrikesBounded` and `RefusalJustified` for logins |
| `TypeCorrect` | `TypeOK` |
| `ChangeEndsOldSessions` | `OldSessionsEnd` |
| `PasswordIsKept` | `PasswordKept` |
| `ReaperIsInvisible` | `ReaperInvisible` |

The arguments. A bound on `count` alone is not inductive: each caller that was let in
may still add one. `Bounded` therefore counts them as well, as long as the window is
not over, and a strike moves one from the callers to the count. The clock of the model
has a bound, `MaxTime`, that may be any number. For the admin server every step is
either a step of the limiter or leaves it alone, so its theorems carry over.
`OldSessionsEnd` depends on requests that are still on their way to a session:
`PassedOrLate` says that after a change each of them has shown the new password or
is late, which holds because a write makes late everybody who has passed a check
(`SetSetting`), and because with a configured password nothing is ever written
(`ConfiguredStays`). `PasswordKept` depends in the same way on who is about to write:
`StillLegal`.

### Names, updates and settings

`PartsProofs` proves of the three small modules, each with its own specification
(`NamesSpec`, `UpdateSpec`, `SettingsSpec`; the run `parts` takes the steps of one of them
and leaves the others alone):

| Theorem | States |
|---|---|
| `NamesReachable` | `PublishedIsReachable` |
| `OperatorKeepsNames` | `OperatorNamesKept` |
| `HintsAreRight` | `HintIsRight` |
| `StartsAsValidated` | `StartedAsValidated` |

The assumptions. `NamesAssumption` types the alphabet and keeps its classes apart.
`RandomNamesFit` says that random names have an allowed length and are not reserved:
the code draws them from fixed lists and validates none, so that is what an operator
who reserves a name must see to. `ReleasesGoUp` says that what comes out later is greater by
its numbers, `SomeRelease` that a release has three. `SettingsAssumption` types
ports and domains. TLC evaluates all of them in the run `parts`.

The arguments. A name that is given is legal, whether it was asked for (the validator
says so) or made up (`RandomIsLegal`: the hyphens are where the parts meet, and no part is
empty). A legal name is not changed by `Sanitize`, so it is given again (`NameGivenAgain`). It
has no dot, so it is what is left when ".domain" is cut off its host (`LabelReadBack`), and
nothing else leaves it (`LabelOfHost`); no host has a colon before its port, so both cuts
cut the same (`CutAtPort`). `newerThan` agrees with the order of releases because the first
part that differs decides both (`NewerIsLater`). What `Validate` repairs is repaired for good
(`RepairedOnce`, `TrimmedOnce`).

### Left to TLC

All liveness: `RevokedSessionsDie`, `LostClientIsCleanedUp`, `StaleClientIsDisconnected`,
`InFlightEnds`, `PumpsEnd`, `ClientStreamEnds`, `StreamEnds`, `NoTakeoverWar` and `ComesBack`,
since the prover deals neither with fairness nor with ENABLED. Two theorems are
narrower than what a run could ask for: `NoSessionForgotten` and `RemovalJustified` are
false with TCP tunnels or a failing store, which is what `orphan` shows, and a crash
empties the map for no reason of the sessions in it.

Worth proving next: the steps the liveness arguments rest on, as safety (a revoked
session that is still up is in the map, on a killer's list or being torn down; nobody
waits for a teardown that is waiting for them), and an abstract specification of a stream as a
channel that loses a suffix at most, implemented by `HttpStream` and `TcpStream`.

## 7. Not modelled, and why

* `ui.go`: static HTML. The listing endpoints of the admin API only read, and `createToken`
  adds a row nobody else looks at before it is used.
* The bytes of frames: `encoding/json` and a length; frames are records here.
* viper's merge of configuration sources; `LoadClient` and `Client.Validate`, which the client
  binary does not use.
* Commands and saved configuration of the client, HTTPS upstreams, TLS and ACME, the installer
  scripts, downloads: sequential I/O.
* Graceful shutdown of the server: it closes listeners and ends the process, which
  `Crash` covers for everything that outlives it.
* The data race on `sess.HostHeader` (control.go:157): a string that is read while it is
  written has no outcome that these models could tell apart from either value.
* Logging, metrics and wording of messages.
