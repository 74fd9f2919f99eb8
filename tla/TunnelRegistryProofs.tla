------------------------ MODULE TunnelRegistryProofs ------------------------
(***************************************************************************)
(* Theorems about TunnelRegistry, for any number of connections, tokens,   *)
(* names and ports, with failing store calls and crashes.                  *)
(***************************************************************************)
EXTENDS TunnelRegistry, FiniteSetTheorems, TLAPS

USE DEF ReleasePort, TornDown, Kick

\* No port number is NoPort, and the constants are apart.
LEMMA PortNumbers == NoPort \notin Port /\ Sweeper \in Killer /\ Admin \subseteq Killer
  BY ConstantsAssumption DEF Port, NoPort, Killer

-----------------------------------------------------------------------------
(***************************************************************************)
(* Types.                                                                  *)
(***************************************************************************)

\* Every variable of the registry keeps its type.
THEOREM TypeCorrect == Spec => []TypeOK
<1> USE DEF vars, storeVars, sessVars, connVars, killVars
<1>1. Init => TypeOK
  BY ConstantsAssumption DEF Init, TypeOK, NoPort
<1>2. TypeOK /\ [Next]_vars => TypeOK'
  <2> SUFFICES ASSUME TypeOK, [Next]_vars PROVE TypeOK'
    OBVIOUS
  <2> USE DEF TypeOK
  <2>1. ASSUME NEW c \in Conn, Handshake(c) PROVE TypeOK'
    <3>1. ASSUME NEW t \in Token, NEW s \in Subdomain \cup {Nil}, NEW pr \in Protocol,
                 ValidateToken(c, t, s, pr)
          PROVE TypeOK'
      BY <3>1, ConstantsAssumption DEF ValidateToken
    <3>2. ASSUME NEW t \in Token, RefuseToken(c, t) PROVE TypeOK'
      BY <3>2 DEF RefuseToken, FailHandshake
    <3>3. CASE RegisterAtLimit(c)
      BY <3>3, ConstantsAssumption DEF RegisterAtLimit, FailHandshake, StoreFaults, ReadFaults
    <3>4. CASE RegisterInUse(c)
      BY <3>4, ConstantsAssumption DEF RegisterInUse, FailHandshake, StoreFaults, ReadFaults
    <3>5. ASSUME NEW s \in Subdomain, RegisterNoPort(c, s) PROVE TypeOK'
      BY <3>5, ConstantsAssumption DEF RegisterNoPort, FailHandshake, StoreFaults, ReadFaults
    <3>6. ASSUME NEW s \in Subdomain, NEW p \in Port \cup {NoPort}, RegisterPersistFails(c, s, p)
          PROVE TypeOK'
      BY <3>6, ConstantsAssumption DEF RegisterPersistFails, StoreFaults, ReadFaults
    <3>7. CASE RegisterUndo(c)
      BY <3>7 DEF RegisterUndo, FailHandshake
    <3>8. ASSUME NEW s \in Subdomain, NEW p \in Port \cup {NoPort}, RegisterOK(c, s, p)
          PROVE TypeOK'
      BY <3>8, ConstantsAssumption DEF RegisterOK, AfterRegister, StoreFaults, ReadFaults
    <3>9. QED
      BY <2>1, <3>1, <3>2, <3>3, <3>4, <3>5, <3>6, <3>7, <3>8 DEF Handshake
  <2>2. ASSUME NEW c \in Conn, Teardown(c) PROVE TypeOK'
    <3>1. CASE CloseListener(c)
      BY <3>1 DEF CloseListener
    <3>2. CASE CloseRow(c)
      BY <3>2, ConstantsAssumption DEF CloseRow, StoreFaults
    <3>3. CASE FinishTakeover(c)
      BY <3>3 DEF FinishTakeover
    <3>4. CASE WriterCloses(c)
      BY <3>4 DEF WriterCloses
    <3>5. CASE DeregisterSession(c)
      BY <3>5 DEF DeregisterSession, Unregister
    <3>6. CASE HandlerReturns(c)
      BY <3>6 DEF HandlerReturns
    <3>7. QED
      BY <2>2, <3>1, <3>2, <3>3, <3>4, <3>5, <3>6 DEF Teardown
  <2>3. ASSUME NEW c \in Conn, ClientGone(c) PROVE TypeOK'
    BY <2>3 DEF ClientGone
  <2>4. ASSUME NEW k \in Killer, Kill(k) PROVE TypeOK'
    <3>1. CASE KillCollect(k)
      BY <3>1 DEF KillCollect, GoOnWith, Held
    <3>2. CASE KillNext(k)
      BY <3>2 DEF KillNext, GoOnWith
    <3>3. QED
      BY <2>4, <3>1, <3>2 DEF Kill
  <2>5. CASE Sweep
    <3>1. CASE SweepStart
      BY <3>1 DEF SweepStart
    <3>2. ASSUME NEW t \in Token, SweepCheck(t) PROVE TypeOK'
      BY <3>2, PortNumbers DEF SweepCheck
    <3>3. ASSUME NEW t \in Token, SweepSkips(t) PROVE TypeOK'
      BY <3>3, ConstantsAssumption DEF SweepSkips, StoreFaults
    <3>4. QED
      BY <2>5, <3>1, <3>2, <3>3 DEF Sweep
  <2>6. CASE Revoke
    <3>1. ASSUME NEW a \in Admin, NEW t \in Token, RevokeByAdmin(a, t) PROVE TypeOK'
      BY <3>1, PortNumbers DEF RevokeByAdmin
    <3>2. ASSUME NEW t \in Token, RevokeByCLI(t) PROVE TypeOK'
      BY <3>2 DEF RevokeByCLI
    <3>3. QED
      BY <2>6, <3>1, <3>2 DEF Revoke
  <2>7. CASE Crash
    BY <2>7 DEF Crash
  <2>8. CASE UNCHANGED vars
    BY <2>8
  <2>9. QED
    BY <2>1, <2>2, <2>3, <2>4, <2>5, <2>6, <2>7, <2>8 DEF Next
<1>3. QED
  BY <1>1, <1>2, PTL DEF Spec

-----------------------------------------------------------------------------
(***************************************************************************)
(* Lookup never hands out a dead session.  MappedIsLive alone is not       *)
(* inductive: closeSession and Kick run outside the lock, so one must know *)
(* that whatever they are pointed at has left the map already and cannot   *)
(* come back to it, because only a handler that has registered nothing yet *)
(* enters the map.                                                         *)
(***************************************************************************)

\* Session x is the target of a takeover or of a killer.
Target(x) ==
  \/ \E c \in Conn : pc[c] = "takeover" /\ stale[c] = x
  \/ \E k \in Killer : kpc[k] = "closing" /\ victim[k] = x
  \/ \E k \in Killer : x \in doomed[k]

\* What a goroutine is about to close or kick is out of the map for good.
TargetsUnmapped ==
  \A x \in Conn : Target(x) =>
    /\ \A s \in Subdomain : sessions[s] # x
    /\ phase[x] # "none"

\* A handler that has not registered has no session anybody knows.
NotYetRegistered ==
  \A c \in Conn : pc[c] \in {"idle", "auth", "undo"} =>
    phase[c] = "none" /\ c \notin kicked

\* A handler that validated a token has one.
Authenticated == \A c \in Conn : pc[c] \notin {"idle", "done"} => tokenOf[c] \in Token

MapInv == MappedIsLive /\ TargetsUnmapped /\ NotYetRegistered /\ Authenticated

\* MapInv holds at first,
LEMMA MapInvInit == ASSUME Init PROVE MapInv
  BY ConstantsAssumption DEF Init, MapInv, MappedIsLive, TargetsUnmapped, NotYetRegistered, Authenticated, Target

\* ... after each exit of the handshake,
LEMMA MapInvHandshake ==
  ASSUME TypeOK, MapInv, NEW c \in Conn, Handshake(c)
  PROVE  MapInv'
<1> USE ConstantsAssumption DEF TypeOK, MapInv, MappedIsLive, TargetsUnmapped, NotYetRegistered, Authenticated, Target,
        storeVars, sessVars, connVars, killVars, FailHandshake
<1>1. ASSUME NEW t \in Token, NEW s \in Subdomain \cup {Nil}, NEW pr \in Protocol,
             ValidateToken(c, t, s, pr)
      PROVE MapInv'
  BY <1>1 DEF ValidateToken
<1>2. ASSUME NEW t \in Token, RefuseToken(c, t) PROVE MapInv'
  BY <1>2 DEF RefuseToken
<1>3. CASE RegisterAtLimit(c)
  BY <1>3 DEF RegisterAtLimit
<1>4. CASE RegisterInUse(c)
  BY <1>4 DEF RegisterInUse
<1>5. ASSUME NEW s \in Subdomain, RegisterNoPort(c, s) PROVE MapInv'
  BY <1>5 DEF RegisterNoPort, Admitted
<1>6. ASSUME NEW s \in Subdomain, NEW p \in Port \cup {NoPort}, RegisterPersistFails(c, s, p)
      PROVE MapInv'
  BY <1>6 DEF RegisterPersistFails, Admitted
<1>7. CASE RegisterUndo(c)
  BY <1>7 DEF RegisterUndo
<1>8. ASSUME NEW s \in Subdomain, NEW p \in Port \cup {NoPort}, RegisterOK(c, s, p)
      PROVE MapInv'
  <2>1. pc[c] = "auth"
    BY <1>8 DEF RegisterOK, Admitted
  <2>2. MappedIsLive'
    BY <1>8, <2>1 DEF RegisterOK, AfterRegister
  <2>3. TargetsUnmapped'
    BY <1>8, <2>1 DEF RegisterOK, AfterRegister
  <2>4. NotYetRegistered'
    BY <1>8, <2>1 DEF RegisterOK, AfterRegister
  <2>5. Authenticated'
    BY <1>8, <2>1 DEF RegisterOK, AfterRegister
  <2>6. QED
    BY <2>2, <2>3, <2>4, <2>5
<1>9. QED
  BY <1>1, <1>2, <1>3, <1>4, <1>5, <1>6, <1>7, <1>8 DEF Handshake

\* ... each step of a teardown,
LEMMA MapInvTeardown ==
  ASSUME TypeOK, MapInv, NEW c \in Conn, Teardown(c)
  PROVE  MapInv'
<1> USE ConstantsAssumption DEF TypeOK, MapInv, MappedIsLive, TargetsUnmapped, NotYetRegistered, Authenticated, Target,
        storeVars, sessVars, connVars, killVars
<1>1. CASE CloseListener(c)
  BY <1>1 DEF CloseListener, Closing
<1>2. CASE CloseRow(c)
  BY <1>2 DEF CloseRow
<1>3. CASE FinishTakeover(c)
  BY <1>3 DEF FinishTakeover
<1>4. CASE WriterCloses(c)
  BY <1>4 DEF WriterCloses
<1>5. CASE DeregisterSession(c)
  BY <1>5 DEF DeregisterSession, Unregister
<1>6. CASE HandlerReturns(c)
  BY <1>6 DEF HandlerReturns
<1>7. QED
  BY <1>1, <1>2, <1>3, <1>4, <1>5, <1>6 DEF Teardown

\* ... a killer's locked part and its loop,
LEMMA MapInvKill ==
  ASSUME TypeOK, MapInv, NEW k \in Killer, Kill(k)
  PROVE  MapInv'
<1> USE ConstantsAssumption DEF TypeOK, MapInv, MappedIsLive, TargetsUnmapped, NotYetRegistered, Authenticated, Target,
        storeVars, sessVars, connVars, killVars
<1>1. CASE KillCollect(k)
  <2>1. MappedIsLive'
    BY <1>1 DEF KillCollect, Held
  <2>2. UNCHANGED <<pc, phase, kicked, stale, tokenOf>>
    BY <1>1 DEF KillCollect
  <2>3. NotYetRegistered' /\ Authenticated'
    BY <2>2
  <2>4. ASSUME NEW x \in Conn, Target(x)' PROVE (\A s \in Subdomain : sessions'[s] # x) /\ phase'[x] # "none"
    <3>1. Target(x) \/ \E s \in Held(killToken[k]) : sessions[s] = x
      BY <1>1, <2>4 DEF KillCollect, GoOnWith
    <3>2. CASE Target(x)
      BY <1>1, <3>2 DEF KillCollect
    <3>3. CASE \E s \in Held(killToken[k]) : sessions[s] = x
      BY <1>1, <3>3 DEF KillCollect, Held
    <3>4. QED
      BY <3>1, <3>2, <3>3
  <2>5. QED
    BY <2>1, <2>3, <2>4
<1>2. CASE KillNext(k)
  BY <1>2 DEF KillNext, GoOnWith
<1>3. QED
  BY <1>1, <1>2 DEF Kill

\* ... and everything else.
LEMMA MapInvRest ==
  ASSUME TypeOK, MapInv,
         \/ \E c \in Conn : ClientGone(c)
         \/ Sweep \/ Revoke \/ Crash \/ UNCHANGED vars
  PROVE  MapInv'
<1> USE ConstantsAssumption DEF TypeOK, MapInv, MappedIsLive, TargetsUnmapped, NotYetRegistered, Authenticated, Target,
        storeVars, sessVars, connVars, killVars
<1>1. ASSUME NEW c \in Conn, ClientGone(c) PROVE MapInv'
  BY <1>1 DEF ClientGone
<1>2. CASE Sweep
  BY <1>2 DEF Sweep, SweepStart, SweepCheck, SweepSkips
<1>3. CASE Revoke
  BY <1>3 DEF Revoke, RevokeByAdmin, RevokeByCLI, Killer
<1>4. CASE Crash
  BY <1>4 DEF Crash
<1>5. CASE UNCHANGED vars
  BY <1>5 DEF vars
<1>6. QED
  BY <1>1, <1>2, <1>3, <1>4, <1>5

\* MapInv holds in every behaviour.
LEMMA MapInvariant == Spec => []MapInv
<1>1. Init => MapInv
  BY MapInvInit
<1>2. TypeOK /\ MapInv /\ [Next]_vars => MapInv'
  BY MapInvHandshake, MapInvTeardown, MapInvKill, MapInvRest DEF Next
<1>3. QED
  BY <1>1, <1>2, TypeCorrect, PTL DEF Spec

\* Whatever registrations, takeovers, disconnects, kills, failing store calls
\* and crashes do, a session the map holds is live.
THEOREM LookupSafe == Spec => []MappedIsLive
<1>1. MapInv => MappedIsLive
  BY DEF MapInv
<1>2. QED
  BY <1>1, MapInvariant, PTL

-----------------------------------------------------------------------------
(***************************************************************************)
(* Ports.                                                                  *)
(***************************************************************************)

\* A handler holds no port before Register gave it one.
NoPortYet == \A c \in Conn : pc[c] \in {"idle", "auth"} => port[c] = NoPort

PortInv == PortsMatch /\ NoPortYet

\* Registering keeps the ports accounted for,
LEMMA PortInvHandshake ==
  ASSUME TypeOK, PortInv, NEW c \in Conn, Handshake(c)
  PROVE  PortInv'
<1> USE PortNumbers DEF TypeOK, PortInv, PortsMatch, NoPortYet,
        storeVars, sessVars, connVars, killVars, FailHandshake
<1>1. ASSUME NEW t \in Token, NEW s \in Subdomain \cup {Nil}, NEW pr \in Protocol,
             ValidateToken(c, t, s, pr)
      PROVE PortInv'
  BY <1>1 DEF ValidateToken
<1>2. ASSUME NEW t \in Token, RefuseToken(c, t) PROVE PortInv'
  BY <1>2 DEF RefuseToken
<1>3. CASE RegisterAtLimit(c)
  BY <1>3 DEF RegisterAtLimit
<1>4. CASE RegisterInUse(c)
  BY <1>4 DEF RegisterInUse
<1>5. ASSUME NEW s \in Subdomain, RegisterNoPort(c, s) PROVE PortInv'
  BY <1>5 DEF RegisterNoPort
<1>6. ASSUME NEW s \in Subdomain, NEW p \in Port \cup {NoPort}, RegisterPersistFails(c, s, p)
      PROVE PortInv'
  <2>1. port[c] = NoPort
    BY <1>6 DEF RegisterPersistFails, Admitted
  <2>2. p = NoPort \/ p \in Port \ portInUse
    BY <1>6 DEF RegisterPersistFails, GetsPort, Allocates
  <2>3. QED
    BY <1>6, <2>1, <2>2 DEF RegisterPersistFails
<1>7. CASE RegisterUndo(c)
  BY <1>7 DEF RegisterUndo
<1>8. ASSUME NEW s \in Subdomain, NEW p \in Port \cup {NoPort}, RegisterOK(c, s, p)
      PROVE PortInv'
  <2>1. port[c] = NoPort
    BY <1>8 DEF RegisterOK, Admitted
  <2>2. p = NoPort \/ p \in Port \ portInUse
    BY <1>8 DEF RegisterOK, GetsPort, Allocates
  <2>3. QED
    BY <1>8, <2>1, <2>2 DEF RegisterOK, AfterRegister
<1>9. QED
  BY <1>1, <1>2, <1>3, <1>4, <1>5, <1>6, <1>7, <1>8 DEF Handshake

\* ... and so does everything else.
LEMMA PortInvRest ==
  ASSUME TypeOK, PortInv,
         \/ \E c \in Conn : Teardown(c) \/ ClientGone(c)
         \/ \E k \in Killer : Kill(k)
         \/ Sweep \/ Revoke \/ Crash \/ UNCHANGED vars
  PROVE  PortInv'
<1> USE PortNumbers DEF TypeOK, PortInv, PortsMatch, NoPortYet,
        storeVars, sessVars, connVars, killVars
<1>1. ASSUME NEW c \in Conn, CloseListener(c) PROVE PortInv'
  BY <1>1 DEF CloseListener
<1>2. ASSUME NEW c \in Conn, Teardown(c), ~CloseListener(c) PROVE PortInv'
  BY <1>2 DEF Teardown, CloseRow, FinishTakeover, WriterCloses, DeregisterSession, HandlerReturns
<1>3. ASSUME NEW c \in Conn, ClientGone(c) PROVE PortInv'
  BY <1>3 DEF ClientGone
<1>4. ASSUME NEW k \in Killer, Kill(k) PROVE PortInv'
  BY <1>4 DEF Kill, KillCollect, KillNext
<1>5. CASE Sweep
  BY <1>5 DEF Sweep, SweepStart, SweepCheck, SweepSkips
<1>6. CASE Revoke
  BY <1>6 DEF Revoke, RevokeByAdmin, RevokeByCLI
<1>7. CASE Crash
  BY <1>7 DEF Crash
<1>8. CASE UNCHANGED vars
  BY <1>8 DEF vars
<1>9. QED
  BY <1>1, <1>2, <1>3, <1>4, <1>5, <1>6, <1>7, <1>8

\* No TCP port is leaked or lent twice.
THEOREM PortsAccounted == Spec => []PortsMatch
<1>1. Init => PortInv
  BY PortNumbers DEF Init, PortInv, PortsMatch, NoPortYet
<1>2. TypeOK /\ PortInv /\ [Next]_vars => PortInv'
  BY PortInvHandshake, PortInvRest DEF Next
<1>3. PortInv => PortsMatch
  BY DEF PortInv
<1>4. QED
  BY <1>1, <1>2, <1>3, TypeCorrect, PTL DEF Spec

-----------------------------------------------------------------------------
(***************************************************************************)
(* Names, tokens and caps.  Every step is one of two kinds for the owners  *)
(* of names: one registration gives one free name to one token that its    *)
(* applied limit lets have it, or some names are released.                 *)
(***************************************************************************)

\* c registers the free name s; failed tells whether its cap could not be read.
Acquisition(c, s, failed) ==
  /\ tokenOf[c] \in Token
  /\ Owner[s] = Nil
  /\ ~AtLimit(tokenOf[c], failed)
  /\ failed => MaxFaults > 0
  /\ Owner' = [Owner EXCEPT ![s] = tokenOf[c]]

Released(S) == Owner' = [s \in Subdomain |-> IF s \in S THEN Nil ELSE Owner[s]]

\* The owner of a name is a token or nobody.
LEMMA OwnerType == ASSUME TypeOK PROVE Owner \in [Subdomain -> Token \cup {Nil}]
  BY ConstantsAssumption DEF TypeOK, Owner

\* The names a token holds are those it owns.
LEMMA HeldIsOwned == ASSUME NEW t \in Token PROVE Held(t) = {s \in Subdomain : Owner[s] = t}
  BY ConstantsAssumption DEF Held, Owner

\* A handshake acquires a name, releases some or leaves the owners alone,
LEMMA OwnerHandshake ==
  ASSUME TypeOK, MapInv, NEW c \in Conn, Handshake(c)
  PROVE  \/ \E s \in Subdomain, failed \in BOOLEAN : Acquisition(c, s, failed)
         \/ \E S \in SUBSET Subdomain : Released(S)
<1> USE ConstantsAssumption DEF TypeOK, storeVars, sessVars, connVars, killVars, FailHandshake
<1>1. ASSUME NEW t \in Token, NEW s \in Subdomain \cup {Nil}, NEW pr \in Protocol,
             ValidateToken(c, t, s, pr)
      PROVE Released({})
  BY <1>1 DEF ValidateToken, MapInv, MappedIsLive, Owner, Released
<1>2. ASSUME \/ \E t \in Token : RefuseToken(c, t)
             \/ RegisterAtLimit(c) \/ RegisterInUse(c) \/ RegisterUndo(c)
      PROVE Released({})
  BY <1>2 DEF RefuseToken, RegisterAtLimit, RegisterInUse, RegisterUndo, Owner, Released
<1>3. ASSUME NEW s \in Subdomain,
             \/ RegisterNoPort(c, s)
             \/ \E p \in Port \cup {NoPort} : RegisterPersistFails(c, s, p)
      PROVE Released({s})
  BY <1>3 DEF RegisterNoPort, RegisterPersistFails, Owner, Released
<1>4. ASSUME NEW s \in Subdomain, NEW p \in Port \cup {NoPort}, RegisterOK(c, s, p)
      PROVE Released({}) \/ \E failed \in BOOLEAN : Acquisition(c, s, failed)
  <2>1. PICK failed \in BOOLEAN : Admitted(c, s, failed) /\ StoreFaults(ReadFaults(failed))
    BY <1>4 DEF RegisterOK
  <2>2. tokenOf[c] \in Token /\ ~AtLimit(tokenOf[c], failed)
    BY <2>1 DEF Admitted, MapInv, Authenticated
  <2>3. failed => MaxFaults > 0
    BY <2>1 DEF StoreFaults, ReadFaults
  <2>4. Owner' = [Owner EXCEPT ![s] = tokenOf[c]]
    <3>1. sessions' = [sessions EXCEPT ![s] = c] /\ tokenOf' = tokenOf /\ c # Nil
      BY <1>4 DEF RegisterOK
    <3>2. \A x \in Subdomain : Owner'[x] = IF x = s THEN tokenOf[c] ELSE Owner[x]
      BY <3>1 DEF Owner
    <3>3. DOMAIN Owner = Subdomain /\ Owner' = [x \in Subdomain |-> Owner'[x]]
      BY DEF Owner
    <3>4. [Owner EXCEPT ![s] = tokenOf[c]] = [x \in Subdomain |-> IF x = s THEN tokenOf[c] ELSE Owner[x]]
      BY <3>3, Zenon
    <3>5. QED
      BY <3>2, <3>3, <3>4, Zenon
  <2>5. CASE sessions[s] = Nil
    <3>1. Owner[s] = Nil
      BY <2>5 DEF Owner
    <3>2. QED
      BY <2>2, <2>3, <2>4, <3>1 DEF Acquisition
  <2>6. CASE sessions[s] # Nil
    <3>1. tokenOf[sessions[s]] = tokenOf[c]
      BY <2>1, <2>6 DEF Admitted, HeldByOther
    <3>2. Owner[s] = tokenOf[c]
      BY <2>6, <3>1 DEF Owner
    <3>3. QED
      <4>1. Owner \in [Subdomain -> Token \cup {Nil}]
        BY OwnerType
      <4>2. Owner' = Owner
        BY <2>4, <3>2, <4>1
      <4>3. QED
        BY <4>1, <4>2 DEF Released
  <2>7. QED
    BY <2>5, <2>6
<1>5. CASE \E s \in Subdomain, p \in Port \cup {NoPort} : RegisterOK(c, s, p)
  <2>1. PICK s \in Subdomain, p \in Port \cup {NoPort} : RegisterOK(c, s, p)
    BY <1>5
  <2>2. Released({}) \/ \E failed \in BOOLEAN : Acquisition(c, s, failed)
    BY <1>4, <2>1
  <2>3. QED
    BY <2>2
<1>6. CASE \E s \in Subdomain :
             \/ RegisterNoPort(c, s)
             \/ \E p \in Port \cup {NoPort} : RegisterPersistFails(c, s, p)
  <2>1. PICK s \in Subdomain : Released({s})
    BY <1>3, <1>6
  <2>2. QED
    BY <2>1
<1>7. CASE \E t \in Token, s \in Subdomain \cup {Nil}, pr \in Protocol : ValidateToken(c, t, s, pr)
  <2>1. Released({})
    BY <1>1, <1>7
  <2>2. QED
    BY <2>1
<1>8. CASE \/ \E t \in Token : RefuseToken(c, t)
           \/ RegisterAtLimit(c) \/ RegisterInUse(c) \/ RegisterUndo(c)
  <2>1. Released({})
    BY <1>2, <1>8
  <2>2. QED
    BY <2>1
<1>9. QED
  BY <1>5, <1>6, <1>7, <1>8 DEF Handshake

\* ... and everything else releases some at most.
LEMMA OwnerRest ==
  ASSUME TypeOK, MapInv,
         \/ \E c \in Conn : Teardown(c) \/ ClientGone(c)
         \/ \E k \in Killer : Kill(k)
         \/ Sweep \/ Revoke \/ Crash \/ UNCHANGED vars
  PROVE  \E S \in SUBSET Subdomain : Released(S)
<1> USE ConstantsAssumption DEF TypeOK, storeVars, sessVars, connVars, killVars
<1>1. ASSUME NEW c \in Conn, DeregisterSession(c) PROVE \E S \in SUBSET Subdomain : Released(S)
  <2>1. Released({s \in Subdomain : s = subOf[c] /\ sessions[s] = c})
    BY <1>1 DEF DeregisterSession, Unregister, Owner, Released
  <2>2. QED
    BY <2>1
<1>2. ASSUME NEW c \in Conn, Teardown(c), ~DeregisterSession(c) PROVE Released({})
  BY <1>2 DEF Teardown, CloseListener, CloseRow, FinishTakeover, WriterCloses, HandlerReturns, Owner, Released
<1>3. ASSUME NEW c \in Conn, ClientGone(c) PROVE Released({})
  BY <1>3 DEF ClientGone, Owner, Released
<1>4. ASSUME NEW k \in Killer, KillCollect(k) PROVE \E S \in SUBSET Subdomain : Released(S)
  <2>1. Released(Held(killToken[k]))
    BY <1>4 DEF KillCollect, Owner, Released
  <2>2. QED
    BY <2>1 DEF Held
<1>5. ASSUME NEW k \in Killer, KillNext(k) PROVE Released({})
  BY <1>5 DEF KillNext, Owner, Released
<1>6. CASE Sweep \/ Revoke \/ UNCHANGED vars
  <2>1. Released({})
    BY <1>6 DEF Sweep, SweepStart, SweepCheck, SweepSkips, Revoke, RevokeByAdmin, RevokeByCLI, vars, Owner, Released
  <2>2. QED
    BY <2>1
<1>7. CASE Crash
  <2>1. Released(Subdomain)
    BY <1>7 DEF Crash, Owner, Released
  <2>2. QED
    BY <2>1
<1>8. QED
  BY <1>1, <1>2, <1>3, <1>4, <1>5, <1>6, <1>7 DEF Kill

\* Every step is an acquisition or a release.
LEMMA OwnerStep ==
  ASSUME TypeOK, MapInv, [Next]_vars
  PROVE  \/ \E c \in Conn, s \in Subdomain, failed \in BOOLEAN : Acquisition(c, s, failed)
         \/ \E S \in SUBSET Subdomain : Released(S)
  BY OwnerHandshake, OwnerRest DEF Next

\* An applied limit that lets a token have one more name leaves it below its cap.
LEMMA BelowCap ==
  ASSUME NEW t \in Token, NEW failed \in BOOLEAN, failed => MaxFaults > 0,
         ~AtLimit(t, failed), IsFiniteSet(Held(t)), Cap[t] > 0
  PROVE  Cardinality(Held(t)) + 1 <= Cap[t]
<1>1. Cardinality(Held(t)) \in Nat
  BY FS_CardinalityType
<1>2. Limit(t) \in Nat /\ ServerMax \in Nat /\ MaxFaults \in Nat
  BY ConstantsAssumption DEF Limit
<1>3. Cap[t] = IF MaxFaults = 0 \/ (ServerMax > 0 /\ Limit(t) > ServerMax) THEN Limit(t)
               ELSE IF Limit(t) = 0 THEN 0 ELSE ServerMax
  BY DEF Cap
<1>4. AppliedLimit(t, failed) \in Nat /\ AppliedLimit(t, failed) > 0 /\ AppliedLimit(t, failed) <= Cap[t]
  BY <1>2, <1>3 DEF AppliedLimit
<1>5. QED
  BY <1>1, <1>2, <1>3, <1>4 DEF AtLimit

CountInv ==
  \A t \in Token :
    /\ IsFiniteSet(Held(t))
    /\ Cap[t] > 0 => Cardinality(Held(t)) <= Cap[t]

\* An acquisition was below the cap that applied, a release lowers the count.
LEMMA CountInvStep ==
  ASSUME TypeOK, TypeOK', MapInv, CountInv, [Next]_vars
  PROVE  CountInv'
<1> SUFFICES ASSUME NEW t \in Token
             PROVE  /\ IsFiniteSet(Held(t)')
                    /\ Cap[t] > 0 => Cardinality(Held(t)') <= Cap[t]
  BY DEF CountInv, Cap, Limit
<1>0. IsFiniteSet(Held(t)) /\ (Cap[t] > 0 => Cardinality(Held(t)) <= Cap[t]) /\ Cap[t] \in Nat
  BY ConstantsAssumption DEF CountInv, Cap, Limit
<1>1. Held(t) = {s \in Subdomain : Owner[s] = t} /\ Held(t)' = {s \in Subdomain : Owner'[s] = t}
  BY HeldIsOwned, ConstantsAssumption DEF Held, Owner
<1>2. Owner \in [Subdomain -> Token \cup {Nil}] /\ t # Nil
  BY OwnerType, ConstantsAssumption
<1>3. ASSUME NEW S \in SUBSET Subdomain, Released(S) PROVE Held(t)' \subseteq Held(t)
  BY <1>1, <1>2, <1>3 DEF Released
<1>4. ASSUME NEW c \in Conn, NEW s \in Subdomain, NEW failed \in BOOLEAN, Acquisition(c, s, failed)
      PROVE \/ Held(t)' = Held(t)
            \/ /\ Held(t)' = Held(t) \cup {s}
               /\ Cap[t] > 0 => Cardinality(Held(t)) + 1 <= Cap[t]
  <2>1. CASE t = tokenOf[c]
    <3>1. Held(t)' = Held(t) \cup {s}
      BY <1>1, <1>2, <1>4, <2>1 DEF Acquisition
    <3>2. Cap[t] > 0 => Cardinality(Held(t)) + 1 <= Cap[t]
      BY <1>0, <1>4, <2>1, BelowCap DEF Acquisition
    <3>3. QED
      BY <3>1, <3>2
  <2>2. CASE t # tokenOf[c]
    BY <1>1, <1>2, <1>4, <2>2 DEF Acquisition
  <2>3. QED
    BY <2>1, <2>2
<1>5. ASSUME Held(t)' \subseteq Held(t)
      PROVE  IsFiniteSet(Held(t)') /\ (Cap[t] > 0 => Cardinality(Held(t)') <= Cap[t])
  <2>1. IsFiniteSet(Held(t)') /\ Cardinality(Held(t)') <= Cardinality(Held(t))
    BY <1>0, <1>5, FS_Subset
  <2>2. Cardinality(Held(t)') \in Nat /\ Cardinality(Held(t)) \in Nat
    BY <1>0, <2>1, FS_CardinalityType
  <2>3. QED
    BY <1>0, <2>1, <2>2
<1>6. ASSUME NEW s \in Subdomain, Held(t)' = Held(t) \cup {s},
             Cap[t] > 0 => Cardinality(Held(t)) + 1 <= Cap[t]
      PROVE  IsFiniteSet(Held(t)') /\ (Cap[t] > 0 => Cardinality(Held(t)') <= Cap[t])
  <2>1. IsFiniteSet(Held(t)') /\ (Cardinality(Held(t)') = Cardinality(Held(t)) \/ Cardinality(Held(t)') = Cardinality(Held(t)) + 1)
    BY <1>0, <1>6, FS_AddElement
  <2>2. Cardinality(Held(t)) \in Nat
    BY <1>0, FS_CardinalityType
  <2>3. QED
    BY <1>0, <1>6, <2>1, <2>2
<1>7. QED
  BY OwnerStep, <1>3, <1>4, <1>5, <1>6

\* The cap holds in every behaviour.
LEMMA CountInvariant == Spec => []CountInv
<1>1. Init => CountInv
  <2> SUFFICES ASSUME Init, NEW t \in Token
               PROVE  IsFiniteSet(Held(t)) /\ (Cap[t] > 0 => Cardinality(Held(t)) <= Cap[t])
    BY DEF CountInv
  <2>1. Held(t) = {}
    BY DEF Init, Held
  <2>2. Cap[t] \in Nat
    BY ConstantsAssumption DEF Cap, Limit
  <2>3. QED
    BY <2>1, <2>2, FS_EmptySet
<1>2. TypeOK /\ TypeOK' /\ MapInv /\ CountInv /\ [Next]_vars => CountInv'
  BY CountInvStep
<1>3. QED
  BY <1>1, <1>2, TypeCorrect, MapInvariant, PTL DEF Spec

\* No token ever holds more names than its cap.
THEOREM CapHolds == Spec => []LimitRespected
<1>1. CountInv => LimitRespected
  BY DEF CountInv, LimitRespected
<1>2. QED
  BY <1>1, CountInvariant, PTL

\* The registry implements the lease of names.
THEOREM RegistryImplementsLease == Spec => ImplementsLease
<1>1. Init => Lease!Init
  BY DEF Init, Owner, Lease!Init
<1>2. TypeOK /\ MapInv /\ CountInv /\ [Next]_vars => [Lease!Next]_Owner
  <2> SUFFICES ASSUME TypeOK, MapInv, CountInv, [Next]_vars PROVE Lease!Next
    OBVIOUS
  <2>1. ASSUME NEW S \in SUBSET Subdomain, Released(S) PROVE Lease!Release(S)
    BY <2>1 DEF Released, Lease!Release
  <2>2. ASSUME NEW c \in Conn, NEW s \in Subdomain, NEW failed \in BOOLEAN, Acquisition(c, s, failed)
        PROVE Lease!Acquire(tokenOf[c], s)
    <3>0. PICK t \in Token : t = tokenOf[c]
      BY <2>2 DEF Acquisition
    <3>1. Owner[s] = Nil /\ Owner' = [Owner EXCEPT ![s] = t] /\ ~AtLimit(t, failed) /\ (failed => MaxFaults > 0)
      BY <2>2, <3>0 DEF Acquisition
    <3>2. Lease!Held(t) = Held(t)
      BY <3>1, HeldIsOwned DEF Lease!Held
    <3>3. IsFiniteSet(Held(t)) /\ Cap[t] \in Nat
      BY <3>1, ConstantsAssumption DEF CountInv, Cap, Limit
    <3>4. Cap[t] = 0 \/ Cardinality(Held(t)) < Cap[t]
      <4>1. Cap[t] > 0 => Cardinality(Held(t)) + 1 <= Cap[t]
        BY <3>1, <3>3, BelowCap
      <4>2. QED
        BY <3>3, <4>1, FS_CardinalityType
    <3>5. Lease!Acquire(t, s)
      <4>1. Lease!Cardinality(Held(t)) = Cardinality(Held(t))
        BY DEF Cardinality, Lease!Cardinality
      <4>2. QED
        BY <3>1, <3>2, <3>4, <4>1 DEF Lease!Acquire
    <3>6. QED
      BY <3>0, <3>5
  <2>3. ASSUME NEW c \in Conn, NEW s \in Subdomain, NEW failed \in BOOLEAN, Acquisition(c, s, failed)
        PROVE tokenOf[c] \in Token
    BY <2>3 DEF Acquisition
  <2>4. QED
    BY OwnerStep, <2>1, <2>2, <2>3 DEF Lease!Next
<1>3. QED
  BY <1>1, <1>2, TypeCorrect, MapInvariant, CountInvariant, PTL DEF Spec, ImplementsLease, Lease!Spec

-----------------------------------------------------------------------------
(***************************************************************************)
(* Kicks.                                                                  *)
(***************************************************************************)

\* A later session of the same token has, or had, the name of x.
Superseded(x) ==
  \E d \in Conn \ {x} :
    tokenOf[d] = tokenOf[x] /\ subOf[d] = subOf[x] /\ pc[d] \notin {"idle", "auth"}

Revoked(x) == tokenOf[x] \notin enabled

\* Whoever is about to kick has its reason.
KickReasons ==
  /\ \A k \in Killer : kpc[k] = "kill" => killToken[k] \notin enabled
  /\ \A k \in Killer : \A x \in doomed[k] : Revoked(x)
  /\ \A k \in Killer : kpc[k] = "closing" => Revoked(victim[k])
  /\ \A d \in Conn : pc[d] = "takeover" =>
       /\ stale[d] # d
       /\ tokenOf[stale[d]] = tokenOf[d]
       /\ subOf[stale[d]] = subOf[d]
  /\ \A x \in kicked : phase[x] = "closed" /\ (Revoked(x) \/ Superseded(x))

\* A takeover has a reason to kick: the name is the same and so is the token.
LEMMA KickReasonsHandshake ==
  ASSUME TypeOK, MapInv, KickReasons, NEW c \in Conn, Handshake(c)
  PROVE  KickReasons'
<1> USE ConstantsAssumption DEF TypeOK, MapInv, MappedIsLive, TargetsUnmapped, NotYetRegistered, Target,
        KickReasons, Revoked, Superseded, storeVars, sessVars, connVars, killVars, FailHandshake
<1>1. ASSUME NEW t \in Token, NEW s \in Subdomain \cup {Nil}, NEW pr \in Protocol,
             ValidateToken(c, t, s, pr)
      PROVE KickReasons'
  BY <1>1 DEF ValidateToken
<1>2. ASSUME NEW t \in Token, RefuseToken(c, t) PROVE KickReasons'
  BY <1>2 DEF RefuseToken
<1>3. CASE RegisterAtLimit(c)
  BY <1>3 DEF RegisterAtLimit
<1>4. CASE RegisterInUse(c)
  BY <1>4 DEF RegisterInUse
<1>5. ASSUME NEW s \in Subdomain, RegisterNoPort(c, s) PROVE KickReasons'
  BY <1>5 DEF RegisterNoPort, Admitted
<1>6. ASSUME NEW s \in Subdomain, NEW p \in Port \cup {NoPort}, RegisterPersistFails(c, s, p)
      PROVE KickReasons'
  BY <1>6 DEF RegisterPersistFails, Admitted
<1>7. CASE RegisterUndo(c)
  BY <1>7 DEF RegisterUndo
<1>8. ASSUME NEW s \in Subdomain, NEW p \in Port \cup {NoPort}, RegisterOK(c, s, p)
      PROVE KickReasons'
  <2>1. pc[c] = "auth" /\ (sessions[s] # Nil => tokenOf[sessions[s]] = tokenOf[c])
    BY <1>8 DEF RegisterOK, Admitted, HeldByOther
  <2>2. sessions[s] # Nil => sessions[s] \in Conn /\ subOf[sessions[s]] = s /\ sessions[s] # c
    BY <2>1
  <2>3. QED
    BY <1>8, <2>1, <2>2 DEF RegisterOK, AfterRegister
<1>9. QED
  BY <1>1, <1>2, <1>3, <1>4, <1>5, <1>6, <1>7, <1>8 DEF Handshake

\* A killer has a reason: the token it collects is disabled.
LEMMA KickReasonsRest ==
  ASSUME TypeOK, MapInv, KickReasons,
         \/ \E c \in Conn : Teardown(c) \/ ClientGone(c)
         \/ \E k \in Killer : Kill(k)
         \/ Sweep \/ Revoke \/ Crash \/ UNCHANGED vars
  PROVE  KickReasons'
<1> USE ConstantsAssumption DEF TypeOK, MapInv, MappedIsLive, TargetsUnmapped, NotYetRegistered, Target,
        KickReasons, Revoked, Superseded, storeVars, sessVars, connVars, killVars
<1>1. ASSUME NEW c \in Conn, CloseListener(c) \/ CloseRow(c) PROVE KickReasons'
  BY <1>1 DEF CloseListener, CloseRow
<1>2. ASSUME NEW c \in Conn, FinishTakeover(c) PROVE KickReasons'
  BY <1>2 DEF FinishTakeover
<1>3. ASSUME NEW c \in Conn, WriterCloses(c) \/ DeregisterSession(c) \/ HandlerReturns(c) \/ ClientGone(c)
      PROVE KickReasons'
  BY <1>3 DEF WriterCloses, DeregisterSession, HandlerReturns, ClientGone
<1>4. ASSUME NEW k \in Killer, KillCollect(k) PROVE KickReasons'
  <2> DEFINE D == {sessions[s] : s \in Held(killToken[k])}
  <2>1. \A x \in D : x \in Conn /\ Revoked(x)
    BY <1>4 DEF KillCollect, Held
  <2>2. \/ doomed' = [doomed EXCEPT ![k] = {}] /\ kpc' = [kpc EXCEPT ![k] = "idle"]
        \/ \E d \in D : /\ doomed' = [doomed EXCEPT ![k] = D \ {d}]
                        /\ victim' = [victim EXCEPT ![k] = d]
                        /\ kpc' = [kpc EXCEPT ![k] = "closing"]
    BY <1>4 DEF KillCollect, GoOnWith
  <2> HIDE DEF D
  <2>3. /\ kpc[k] = "kill"
        /\ \A j \in Killer \ {k} : kpc'[j] = kpc[j] /\ victim'[j] = victim[j] /\ doomed'[j] = doomed[j]
        /\ UNCHANGED <<enabled, tokenOf, subOf, phase, kicked, pc, stale>>
    BY <1>4 DEF KillCollect, GoOnWith
  <2>4. \A j \in Killer : kpc'[j] = "kill" => killToken'[j] \notin enabled'
    BY <1>4, <2>3 DEF KillCollect, GoOnWith
  <2>5. \A j \in Killer : \A x \in doomed'[j] : Revoked(x)'
    BY <2>1, <2>2, <2>3
  <2>6. \A j \in Killer : kpc'[j] = "closing" => Revoked(victim[j])'
    BY <2>1, <2>2, <2>3
  <2>7. \A d \in Conn : pc'[d] = "takeover" =>
          stale'[d] # d /\ tokenOf'[stale'[d]] = tokenOf'[d] /\ subOf'[stale'[d]] = subOf'[d]
    BY <2>3
  <2>8. \A x \in kicked' : phase'[x] = "closed" /\ (Revoked(x)' \/ Superseded(x)')
    BY <2>3
  <2> HIDE DEF Revoked, Superseded
  <2>9. QED
    BY <2>4, <2>5, <2>6, <2>7, <2>8
<1>5. ASSUME NEW k \in Killer, KillNext(k) PROVE KickReasons'
  <2>1. /\ phase[victim[k]] = "closed" /\ Revoked(victim[k])
        /\ kicked' = kicked \cup {victim[k]}
        /\ UNCHANGED <<enabled, tokenOf, subOf, phase, pc, stale, killToken>>
    BY <1>5 DEF KillNext, TornDown, Kick
  <2>2. \/ doomed' = [doomed EXCEPT ![k] = {}] /\ kpc' = [kpc EXCEPT ![k] = "idle"]
        \/ \E d \in doomed[k] : /\ doomed' = [doomed EXCEPT ![k] = doomed[k] \ {d}]
                                /\ victim' = [victim EXCEPT ![k] = d]
                                /\ kpc' = [kpc EXCEPT ![k] = "closing"]
    BY <1>5 DEF KillNext, GoOnWith
  <2>3. \A j \in Killer \ {k} : kpc'[j] = kpc[j] /\ victim'[j] = victim[j] /\ doomed'[j] = doomed[j]
    BY <1>5 DEF KillNext, GoOnWith
  <2>4. \A j \in Killer : kpc'[j] = "kill" => killToken'[j] \notin enabled'
    BY <2>1, <2>2
  <2>5. \A j \in Killer : \A x \in doomed'[j] : Revoked(x)'
    BY <2>1, <2>2, <2>3
  <2>6. \A j \in Killer : kpc'[j] = "closing" => Revoked(victim[j])'
    BY <2>1, <2>2, <2>3
  <2>7. \A d \in Conn : pc'[d] = "takeover" =>
          stale'[d] # d /\ tokenOf'[stale'[d]] = tokenOf'[d] /\ subOf'[stale'[d]] = subOf'[d]
    BY <2>1
  <2>8. \A x \in kicked' : phase'[x] = "closed" /\ (Revoked(x)' \/ Superseded(x)')
    BY <2>1
  <2> HIDE DEF Revoked, Superseded
  <2>9. QED
    BY <2>4, <2>5, <2>6, <2>7, <2>8
<1>6. CASE Sweep
  BY <1>6 DEF Sweep, SweepStart, SweepCheck, SweepSkips
<1>7. CASE Revoke
  BY <1>7, PortNumbers DEF Revoke, RevokeByAdmin, RevokeByCLI
<1>8. CASE Crash
  BY <1>8 DEF Crash
<1>9. CASE UNCHANGED vars
  BY <1>9 DEF vars
<1>10. QED
  BY <1>1, <1>2, <1>3, <1>4, <1>5, <1>6, <1>7, <1>8, <1>9 DEF Teardown, Kill

\* In every behaviour whoever kicks, or is about to, has its reason.
LEMMA KickReasonsInvariant == Spec => []KickReasons
<1>1. Init => KickReasons
  BY DEF Init, KickReasons
<1>2. TypeOK /\ MapInv /\ KickReasons /\ [Next]_vars => KickReasons'
  BY KickReasonsHandshake, KickReasonsRest DEF Next
<1>3. QED
  BY <1>1, <1>2, TypeCorrect, MapInvariant, PTL DEF Spec

\* No healthy client is ever told to stay away.
THEOREM KicksAreJustified == Spec => []KickJustified
<1>1. KickReasons => KickJustified
  BY DEF KickReasons, KickJustified, Revoked, Superseded
<1>2. QED
  BY <1>1, KickReasonsInvariant, PTL

-----------------------------------------------------------------------------
(***************************************************************************)
(* Forgotten sessions.  A takeover whose registration fails after it took  *)
(* the name forgets the session it replaced.  Without TCP tunnels and      *)
(* without store failures there is no such registration.                   *)
(***************************************************************************)

\* A killer that is not tearing down has collected nothing.
IdleKillers == \A k \in Killer : kpc[k] # "closing" => doomed[k] = {}

\* In every behaviour.
LEMMA IdleKillersInvariant == Spec => []IdleKillers
<1>1. Init => IdleKillers
  BY DEF Init, IdleKillers
<1>2. TypeOK /\ IdleKillers /\ [Next]_vars => IdleKillers'
  <2> SUFFICES ASSUME TypeOK, IdleKillers, [Next]_vars PROVE IdleKillers'
    OBVIOUS
  <2> USE DEF IdleKillers, storeVars, sessVars, connVars, killVars
  <2>1. kpc \in [Killer -> {"idle", "kill", "closing"}] /\ doomed \in [Killer -> SUBSET Conn]
    BY DEF TypeOK
  <2>2. ASSUME NEW c \in Conn, Handshake(c) PROVE IdleKillers'
    BY <2>2 DEF Handshake, ValidateToken, RefuseToken, RegisterAtLimit, RegisterInUse, RegisterNoPort,
                RegisterPersistFails, RegisterUndo, RegisterOK
  <2>3. ASSUME NEW c \in Conn, Teardown(c) \/ ClientGone(c) PROVE IdleKillers'
    BY <2>3 DEF Teardown, ClientGone, CloseListener, CloseRow, FinishTakeover, WriterCloses,
                DeregisterSession, HandlerReturns
  <2>4. ASSUME NEW k \in Killer, Kill(k) PROVE IdleKillers'
    BY <2>1, <2>4 DEF Kill, KillCollect, KillNext, GoOnWith
  <2>5. CASE Sweep \/ Revoke \/ Crash
    BY <2>1, <2>5, PortNumbers DEF Sweep, SweepStart, SweepCheck, SweepSkips, Revoke, RevokeByAdmin,
                                   RevokeByCLI, Crash
  <2>6. CASE UNCHANGED vars
    BY <2>6 DEF vars
  <2>7. QED
    BY <2>2, <2>3, <2>4, <2>5, <2>6 DEF Next
<1>3. QED
  BY <1>1, <1>2, TypeCorrect, PTL DEF Spec

NoneForgotten == NoSessionForgotten /\ \A c \in Conn : proto[c] = "http"

\* What leaves the map is on somebody's list.
LEMMA NoneForgottenStep ==
  ASSUME Protocol \subseteq {"http"}, MaxFaults = 0, TypeOK, MapInv, IdleKillers, NoneForgotten, [Next]_vars
  PROVE  NoneForgotten'
<1> USE ConstantsAssumption DEF TypeOK, MapInv, MappedIsLive, TargetsUnmapped, NotYetRegistered, Target,
        NoneForgotten, NoSessionForgotten, TeardownOwed, Closing, storeVars, sessVars, connVars, killVars
<1>1. ASSUME NEW c \in Conn, Handshake(c) PROVE NoneForgotten'
  <2>1. ASSUME NEW t \in Token, NEW s \in Subdomain \cup {Nil}, NEW pr \in Protocol,
               ValidateToken(c, t, s, pr)
        PROVE NoneForgotten'
    BY <2>1 DEF ValidateToken
  <2>2. CASE \/ \E t \in Token : RefuseToken(c, t)
             \/ RegisterAtLimit(c) \/ RegisterInUse(c) \/ RegisterUndo(c)
    BY <2>2 DEF RefuseToken, RegisterAtLimit, RegisterInUse, RegisterUndo, FailHandshake
  <2>3. ASSUME NEW s \in Subdomain, RegisterNoPort(c, s) PROVE FALSE
    BY <2>3 DEF RegisterNoPort
  <2>4. ASSUME NEW s \in Subdomain, NEW p \in Port \cup {NoPort}, RegisterPersistFails(c, s, p)
        PROVE FALSE
    BY <2>4 DEF RegisterPersistFails, StoreFaults, ReadFaults
  <2>5. ASSUME NEW s \in Subdomain, NEW p \in Port \cup {NoPort}, RegisterOK(c, s, p)
        PROVE NoneForgotten'
    <3>1. pc[c] = "auth"
      BY <2>5 DEF RegisterOK, Admitted
    <3>2. QED
      BY <2>5, <3>1 DEF RegisterOK, AfterRegister
  <2>6. QED
    BY <1>1, <2>1, <2>2, <2>3, <2>4, <2>5 DEF Handshake
<1>2. ASSUME NEW c \in Conn, CloseListener(c) \/ CloseRow(c) PROVE NoneForgotten'
  BY <1>2 DEF CloseListener, CloseRow
<1>3. ASSUME NEW c \in Conn, FinishTakeover(c) PROVE NoneForgotten'
  BY <1>3 DEF FinishTakeover
<1>4. ASSUME NEW c \in Conn, WriterCloses(c) \/ HandlerReturns(c) \/ ClientGone(c) PROVE NoneForgotten'
  BY <1>4 DEF WriterCloses, HandlerReturns, ClientGone
<1>5. ASSUME NEW c \in Conn, DeregisterSession(c) PROVE NoneForgotten'
  BY <1>5 DEF DeregisterSession, Unregister
<1>6. ASSUME NEW k \in Killer, KillCollect(k) PROVE NoneForgotten'
  <2> DEFINE D == {sessions[s] : s \in Held(killToken[k])}
  <2>1. \A s \in Subdomain : sessions[s] \notin D => sessions'[s] = sessions[s]
    BY <1>6 DEF KillCollect
  <2>2. \/ D = {}
        \/ \E d \in D : /\ doomed' = [doomed EXCEPT ![k] = D \ {d}]
                        /\ victim' = [victim EXCEPT ![k] = d]
                        /\ kpc' = [kpc EXCEPT ![k] = "closing"]
    BY <1>6 DEF KillCollect, GoOnWith
  <2> HIDE DEF D
  <2>3. \A x \in D : TeardownOwed(x)'
    BY <2>2
  <2>4. \A x \in Conn : TeardownOwed(x) => TeardownOwed(x)'
    BY <1>6 DEF KillCollect, GoOnWith, IdleKillers
  <2>5. phase' = phase /\ proto' = proto
    BY <1>6 DEF KillCollect
  <2>6. NoSessionForgotten'
    BY <2>1, <2>3, <2>4, <2>5
  <2>7. QED
    BY <2>5, <2>6
<1>7. ASSUME NEW k \in Killer, KillNext(k) PROVE NoneForgotten'
  BY <1>7 DEF KillNext, GoOnWith
<1>8. CASE Sweep
  BY <1>8 DEF Sweep, SweepStart, SweepCheck, SweepSkips
<1>9. CASE Revoke
  BY <1>9 DEF Revoke, RevokeByAdmin, RevokeByCLI
<1>10. CASE Crash
  BY <1>10 DEF Crash
<1>11. CASE UNCHANGED vars
  BY <1>11 DEF vars
<1>12. QED
  BY <1>1, <1>2, <1>3, <1>4, <1>5, <1>6, <1>7, <1>8, <1>9, <1>10, <1>11 DEF Next, Teardown, Kill

\* With HTTP tunnels and a store that works, in every behaviour.
LEMMA NoneForgottenInvariant ==
  ASSUME Protocol \subseteq {"http"}, MaxFaults = 0
  PROVE  Spec => []NoneForgotten
<1>1. Init => NoneForgotten
  BY DEF Init, NoneForgotten, NoSessionForgotten
<1>2. TypeOK /\ MapInv /\ IdleKillers /\ NoneForgotten /\ [Next]_vars => NoneForgotten'
  BY NoneForgottenStep
<1>3. QED
  BY <1>1, <1>2, TypeCorrect, MapInvariant, IdleKillersInvariant, PTL DEF Spec

\* A server whose store works and whose clients open HTTP tunnels only never
\* forgets a session: what is not in the map is being torn down.
THEOREM HttpSessionsInReach ==
  ASSUME Protocol \subseteq {"http"}, MaxFaults = 0
  PROVE  Spec => []NoSessionForgotten
<1>1. NoneForgotten => NoSessionForgotten
  BY DEF NoneForgotten
<1>2. QED
  BY <1>1, NoneForgottenInvariant, PTL

-----------------------------------------------------------------------------
(***************************************************************************)
(* Removals.                                                               *)
(***************************************************************************)

\* The step may take name s from the session that has it.
MayRemove(s) ==
  \/ sessions[s] \notin connected
  \/ tokenOf[sessions[s]] \notin enabled
  \/ sessions'[s] # Nil /\ tokenOf[sessions'[s]] = tokenOf[sessions[s]]

\* A registration of the same token takes over name s and then fails: it finds
\* no port, or the store refuses the row.
TakeoverFails(s) ==
  \E c \in Conn :
    /\ tokenOf[c] = tokenOf[sessions[s]]
    /\ \/ RegisterNoPort(c, s)
       \/ \E p \in Port \cup {NoPort} : RegisterPersistFails(c, s, p)

\* Nothing else takes a session out of the map, whatever the protocols of the
\* tunnels, the failures of the store and the crashes.
LEMMA RemovalStep ==
  ASSUME TypeOK, MapInv, KickReasons, [Next]_vars,
         NEW s \in Subdomain, sessions[s] # Nil, sessions'[s] # sessions[s]
  PROVE  MayRemove(s) \/ TakeoverFails(s) \/ Crash
<1> USE DEF storeVars, sessVars, connVars, killVars
<1>1. /\ sessions \in [Subdomain -> Conn \cup {Nil}] /\ sessions[s] \in Conn
      /\ subOf[sessions[s]] = s
  BY DEF TypeOK, MapInv, MappedIsLive
<1>2. ASSUME NEW c \in Conn, Handshake(c) PROVE MayRemove(s) \/ TakeoverFails(s)
  <2>1. CASE \/ \E t \in Token, n \in Subdomain \cup {Nil}, pr \in Protocol : ValidateToken(c, t, n, pr)
             \/ \E t \in Token : RefuseToken(c, t)
             \/ RegisterAtLimit(c) \/ RegisterInUse(c) \/ RegisterUndo(c)
    BY <2>1 DEF ValidateToken, RefuseToken, RegisterAtLimit, RegisterInUse, RegisterUndo
  <2>2. ASSUME NEW n \in Subdomain, RegisterNoPort(c, n) PROVE TakeoverFails(s)
    <3>1. sessions' = [sessions EXCEPT ![n] = Nil] /\ (sessions[n] # Nil => tokenOf[sessions[n]] = tokenOf[c])
      BY <2>2 DEF RegisterNoPort, Admitted, HeldByOther
    <3>2. n = s
      BY <1>1, <3>1
    <3>3. QED
      BY <2>2, <3>1, <3>2 DEF TakeoverFails
  <2>3. ASSUME NEW n \in Subdomain, NEW p \in Port \cup {NoPort}, RegisterPersistFails(c, n, p)
        PROVE  TakeoverFails(s)
    <3>1. sessions' = [sessions EXCEPT ![n] = Nil] /\ (sessions[n] # Nil => tokenOf[sessions[n]] = tokenOf[c])
      BY <2>3 DEF RegisterPersistFails, Admitted, HeldByOther
    <3>2. n = s
      BY <1>1, <3>1
    <3>3. QED
      BY <2>3, <3>1, <3>2 DEF TakeoverFails
  <2>4. ASSUME NEW n \in Subdomain, NEW p \in Port \cup {NoPort}, RegisterOK(c, n, p)
        PROVE  MayRemove(s)
    <3>1. sessions' = [sessions EXCEPT ![n] = c] /\ (sessions[n] # Nil => tokenOf[sessions[n]] = tokenOf[c])
      BY <2>4 DEF RegisterOK, Admitted, HeldByOther
    <3>2. n = s /\ sessions'[s] = c /\ c # Nil
      BY <1>1, <3>1, ConstantsAssumption
    <3>3. QED
      BY <3>1, <3>2 DEF MayRemove
  <2>5. QED
    BY <1>2, <2>1, <2>2, <2>3, <2>4 DEF Handshake
<1>3. ASSUME NEW c \in Conn, Teardown(c) PROVE MayRemove(s)
  <2>1. CASE CloseListener(c) \/ CloseRow(c) \/ FinishTakeover(c) \/ WriterCloses(c) \/ HandlerReturns(c)
    BY <2>1 DEF CloseListener, CloseRow, FinishTakeover, WriterCloses, HandlerReturns
  <2>2. CASE DeregisterSession(c)
    BY <2>2 DEF DeregisterSession, Unregister, MayRemove
  <2>3. QED
    BY <1>3, <2>1, <2>2 DEF Teardown
<1>4. ASSUME NEW k \in Killer, Kill(k) PROVE MayRemove(s)
  <2>1. CASE KillCollect(k)
    BY <2>1 DEF KillCollect, Held, KickReasons, MayRemove
  <2>2. CASE KillNext(k)
    BY <2>2 DEF KillNext
  <2>3. QED
    BY <1>4, <2>1, <2>2 DEF Kill
<1>5. CASE \/ \E c \in Conn : ClientGone(c)
           \/ Sweep \/ Revoke \/ UNCHANGED vars
  BY <1>5 DEF ClientGone, Sweep, SweepStart, SweepCheck, SweepSkips, Revoke, RevokeByAdmin, RevokeByCLI, vars
<1>6. QED
  BY <1>2, <1>3, <1>4, <1>5 DEF Next

\* A session leaves the map for a good reason only, as long as the process
\* runs: a stale disconnect, a late kill and a failing handshake never remove
\* another one's session.  Where TCP tunnels or a failing store let a takeover
\* fail, RemovalStep says that this is the only other way.
THEOREM RemovalsAreJustified ==
  ASSUME Protocol \subseteq {"http"}, MaxFaults = 0, ~ MayCrash
  PROVE  Spec => RemovalJustified
<1>1. TypeOK /\ MapInv /\ KickReasons /\ NoneForgotten /\ [Next]_vars =>
        \A s \in Subdomain : sessions[s] # Nil /\ sessions'[s] # sessions[s] => MayRemove(s)
  <2> SUFFICES ASSUME TypeOK, MapInv, KickReasons, NoneForgotten, [Next]_vars,
                      NEW s \in Subdomain, sessions[s] # Nil, sessions'[s] # sessions[s]
               PROVE  MayRemove(s)
    OBVIOUS
  <2>1. MayRemove(s) \/ TakeoverFails(s) \/ Crash
    BY RemovalStep
  <2>2. ~ Crash
    BY DEF Crash
  <2>3. ASSUME NEW c \in Conn PROVE ~ RegisterNoPort(c, s)
    BY DEF RegisterNoPort, NoneForgotten
  <2>4. ASSUME NEW c \in Conn, NEW p \in Port \cup {NoPort} PROVE ~ RegisterPersistFails(c, s, p)
    BY DEF RegisterPersistFails, StoreFaults, ReadFaults, TypeOK
  <2>5. QED
    BY <2>1, <2>2, <2>3, <2>4 DEF TakeoverFails
<1>2. TypeOK /\ MapInv /\ KickReasons /\ NoneForgotten /\ [Next]_vars =>
        [\A s \in Subdomain :
           sessions[s] # Nil /\ sessions'[s] # sessions[s] =>
             \/ sessions[s] \notin connected
             \/ tokenOf[sessions[s]] \notin enabled
             \/ sessions'[s] # Nil /\ tokenOf[sessions'[s]] = tokenOf[sessions[s]]]_vars
  BY <1>1 DEF MayRemove
<1>3. QED
  BY <1>2, TypeCorrect, MapInvariant, KickReasonsInvariant, NoneForgottenInvariant, PTL
     DEF Spec, RemovalJustified

=============================================================================
