----------------------------- MODULE TcpStream -----------------------------
(***************************************************************************)
(* Raw byte streams through one session, from the moment Register has      *)
(* published it:                                                           *)
(*                                                                         *)
(*   - the end of the control handshake (internal/control) and register    *)
(*     at the client (cmd/client), which run against the first streams;    *)
(*   - proxyTCPConn, handleUpgrade, openTCPStream and pumpTCP              *)
(*     (internal/tunnel/registry.go);                                      *)
(*   - openTCPStream, driveTCPStream and closeStream (cmd/client/main.go). *)
(*                                                                         *)
(* A stream joins a visitor, which holds the public connection, to the     *)
(* local service.  Each of the two sends numbered chunks and may close its *)
(* side, or all of the connection, independently of the other.  Of an      *)
(* upgrade the first chunk is the request's head, which handleUpgrade      *)
(* writes before it bridges.                                               *)
(***************************************************************************)
EXTENDS Session, FiniteSets

CONSTANTS
  ReqLen,   \* chunks a visitor sends
  RespLen   \* chunks a local service sends

ASSUME TcpAssumption ==
  /\ ReqLen \in Nat \ {0}
  /\ RespLen \in Nat \ {0}

VARIABLES
  handshake, \* how far control.handshake and the client's register are
  kind,      \* whether a stream is a TCP connection or an upgrade
  serve,     \* where proxyTCPConn or handleUpgrade is
  taking,    \* streams whose goroutine copies from the visitor
  taken,     \* chunks it took
  pumping,   \* streams whose pumpTCP runs
  visitor,   \* the visitor's end of the public connection
  got,       \* chunks the visitor received
  drive,     \* where driveTCPStream is
  copying,   \* streams whose goroutine copies to the local service
  shut,      \* streams that closeOnce closed, with their local connection
  service,   \* the service's end of the local connection
  local,     \* chunks the service received
  sent       \* chunks of the service that were sent to the server

inboundVars == <<kind, serve, taking, taken, pumping, visitor, got>>
outboundVars == <<drive, copying, shut, service, local, sent>>
tcpVars == <<handshake, inboundVars, outboundVars>>
vars == <<sessionVars, tcpVars>>

Whole(n) == [i \in 1 .. n |-> i]
Longest == IF ReqLen > RespLen THEN ReqLen ELSE RespLen

\* One end of a TCP connection: it still sends, it has finished and reads on,
\* it is closed.
End == {"open", "half", "closed"}

TypeOK ==
  /\ SessionTypeOK(Longest)
  /\ handshake \in {"published", "announced", "joined", "refused"}
  /\ kind \in [Stream -> {"tcp", "upgrade"}]
  /\ serve \in [Stream -> {"idle", "found", "opening", "head", "failed", "bridge", "waiting", "done"}]
  /\ taking \in SUBSET Stream
  /\ taken \in [Stream -> 0 .. ReqLen]
  /\ pumping \in SUBSET Stream
  /\ visitor \in [Stream -> End]
  /\ got \in [Stream -> Seq(1 .. RespLen)]
  /\ drive \in [Stream -> {"none", "dial", "bridge", "waiting", "gone"}]
  /\ copying \in SUBSET Stream
  /\ shut \in SUBSET Stream
  /\ service \in [Stream -> End]
  /\ local \in [Stream -> Seq(1 .. ReqLen)]
  /\ sent \in [Stream -> 0 .. RespLen]

Init ==
  /\ SessionPublished(FALSE)
  /\ handshake = "published"
  /\ kind \in [Stream -> {"tcp", "upgrade"}]
  /\ serve = [s \in Stream |-> "idle"]
  /\ taking = {}
  /\ taken = [s \in Stream |-> 0]
  /\ pumping = {}
  /\ visitor = [s \in Stream |-> "open"]
  /\ got = [s \in Stream |-> <<>>]
  /\ drive = [s \in Stream |-> "none"]
  /\ copying = {}
  /\ shut = {}
  /\ service = [s \in Stream |-> "open"]
  /\ local = [s \in Stream |-> <<>>]
  /\ sent = [s \in Stream |-> 0]

-----------------------------------------------------------------------------
(***************************************************************************)
(* The handshake: Register has put the session into the map and started    *)
(* its accept loop; the client still waits for its first frame.            *)
(***************************************************************************)

\* Mutant of Announce: MsgRegistered is not sent.
AnnounceSilently ==
  /\ handshake = "published"
  /\ handshake' = "announced"
  /\ reading' = TRUE
  /\ UNCHANGED <<lifeVars, streams, reqOpen, respOpen, held, wireVars, clientVars,
                 inboundVars, outboundVars>>

\* handshake queues MsgRegistered and returns; ServeHTTP starts the writer and
\* the reader.
Announce ==
  /\ handshake = "published"
  /\ Send(RegisteredFrame)
  /\ handshake' = "announced"
  /\ reading' = TRUE
  /\ UNCHANGED <<lifeVars, streams, reqOpen, respOpen, held, up, clientVars,
                 inboundVars, outboundVars>>

\* The first frame reaches the client's register.
FirstFrame(frame) ==
  /\ handshake = "announced"
  /\ down # <<>>
  /\ Head(down) = frame
  /\ UNCHANGED <<mapped, torn, doomed, kicked, serverVars, drops, known, buf, bufClosed,
                 inboundVars, outboundVars>>

\* It is MsgRegistered: connect goes on to readLoop.
Joins ==
  /\ FirstFrame(RegisteredFrame)
  /\ handshake' = "joined"
  /\ looping' = TRUE
  /\ down' = Tail(down)
  /\ UNCHANGED <<wsUp, up>>

\* It is any other: register fails, and connect closes the WebSocket.
Refuses ==
  /\ down # <<>> /\ Head(down) # RegisteredFrame
  /\ FirstFrame(Head(down))
  /\ handshake' = "refused"
  /\ wsUp' = FALSE
  /\ down' = <<>>
  /\ UNCHANGED <<looping, up>>

\* The connection fails while nothing has been written to it; register waits 15
\* seconds at most.
LostEarly ==
  /\ handshake = "published"
  /\ ConnectionLost
  /\ down' = <<>>
  /\ UNCHANGED tcpVars

\* What happens to the session once its reader and its writer run.
Running ==
  /\ handshake # "published"
  /\ ConnectionLost \/ WriterCloses
  /\ UNCHANGED tcpVars

-----------------------------------------------------------------------------
(***************************************************************************)
(* The server's end of a stream.                                           *)
(***************************************************************************)

Inbound(s, place) ==
  /\ serve' = [serve EXCEPT ![s] = place]
  /\ UNCHANGED <<handshake, kind, outboundVars>>

\* Accept returns a connection, until closeSession closes the listener; an
\* upgrade comes from ServeHTTP, which looks the session up.
Arrive(s) ==
  /\ serve[s] = "idle"
  /\ Inbound(s, IF (kind[s] = "tcp" /\ ~torn) \/ (kind[s] = "upgrade" /\ mapped)
                  THEN "found" ELSE "done")
  /\ UNCHANGED <<sessionVars, taking, taken, pumping, visitor, got>>

\* openTCPStream puts the stream into the map.
OpenTCPStream(s) ==
  /\ serve[s] = "found"
  /\ RegisterStream(s)
  /\ Inbound(s, "opening")
  /\ UNCHANGED <<taking, taken, pumping, visitor, got>>

\* It sends MsgOpenTCP, starts the pump and returns; proxyTCPConn bridges at once.
SendOpen(s) ==
  /\ serve[s] = "opening"
  /\ OnlySends(Frame("open", s, 0))
  /\ pumping' = pumping \cup {s}
  /\ \/ kind[s] = "tcp" /\ Inbound(s, "bridge") /\ taking' = taking \cup {s}
     \/ kind[s] = "upgrade" /\ Inbound(s, "head") /\ UNCHANGED taking
  /\ UNCHANGED <<taken, visitor, got>>

\* The next chunk passes the request pipe, and pumpTCP sends it.
Take(s) ==
  /\ s \in pumping \cap reqOpen
  /\ taken[s] < ReqLen
  /\ OnlySends(Frame("data", s, taken[s] + 1))
  /\ taken' = [taken EXCEPT ![s] = @ + 1]

\* handleUpgrade has written the head of the request and bridges.
HeadWritten(s) ==
  /\ serve[s] = "head"
  /\ Take(s)
  /\ Inbound(s, "bridge")
  /\ taking' = taking \cup {s}
  /\ UNCHANGED <<pumping, visitor, got>>

\* handleUpgrade gives up before it bridges: req.Write meets a closed pipe; or,
\* with the pipe open, the connection is not hijacked, or what req.Write reads of
\* the request fails.  A part of the head that went out is left out.
HeadFails(s) ==
  /\ serve[s] = "head"
  /\ CloseStream(s)
  /\ Inbound(s, IF s \in reqOpen THEN "failed" ELSE "done")
  /\ UNCHANGED <<lifeVars, reading, held, wireVars, clientVars,
                 taking, taken, pumping, visitor, got>>

\* The visitor sends a chunk.
FromVisitor(s) ==
  /\ s \in taking
  /\ visitor[s] = "open"
  /\ serve[s] # "done"
  /\ Take(s)
  /\ UNCHANGED <<handshake, kind, serve, taking, pumping, visitor, got, outboundVars>>

\* Nothing more comes from the visitor, the server closed the connection, or a
\* chunk meets a closed pipe: the goroutine closes the request pipe and ends.
StopTaking(s) ==
  /\ s \in taking
  /\ visitor[s] # "open" \/ serve[s] = "done" \/ (s \notin reqOpen /\ taken[s] < ReqLen)
  /\ CloseRequest(s)
  /\ taking' = taking \ {s}
  /\ UNCHANGED <<handshake, kind, serve, taken, pumping, visitor, got, outboundVars>>

\* Mutant of PumpEnds: MsgClose is not sent.
PumpEndsSilently(s) ==
  /\ s \in pumping \ reqOpen
  /\ pumping' = pumping \ {s}
  /\ UNCHANGED <<sessionVars, handshake, kind, serve, taking, taken, visitor, got, outboundVars>>

\* The request pipe is closed: pumpTCP sends MsgClose, whatever closed it.
PumpEnds(s) ==
  /\ s \in pumping \ reqOpen
  /\ OnlySends(Frame("close", s, 0))
  /\ pumping' = pumping \ {s}
  /\ UNCHANGED <<handshake, kind, serve, taking, taken, visitor, got, outboundVars>>

\* A chunk for the visitor passes the response pipe.
ToVisitor(s) ==
  /\ serve[s] = "bridge"
  /\ visitor[s] # "closed"
  /\ HandOver(s)
  /\ got' = [got EXCEPT ![s] = Append(@, held.n)]
  /\ UNCHANGED <<handshake, kind, serve, taking, taken, pumping, visitor, outboundVars>>

\* Mutant of Bridged: proxyTCPConn returns without CloseStream.
BridgedButOpen(s) ==
  /\ UNCHANGED <<streams, reqOpen, respOpen>>
  /\ Inbound(s, IF kind[s] = "tcp" THEN "done" ELSE "waiting")

\* After the copy to the visitor proxyTCPConn returns, with its deferred
\* CloseStream; handleUpgrade first waits for the other goroutine.
Bridged(s) ==
  \/ /\ kind[s] = "tcp"
     /\ streams' = streams \ {s}
     /\ ClosePipes({s} \cap streams)
     /\ Inbound(s, "done")
  \/ /\ kind[s] = "upgrade"
     /\ UNCHANGED <<streams, reqOpen, respOpen>>
     /\ Inbound(s, "waiting")

\* The response pipe is closed.
PipeCloses(s) ==
  /\ serve[s] = "bridge"
  /\ s \notin respOpen
  /\ Bridged(s)
  /\ UNCHANGED <<lifeVars, reading, held, wireVars, clientVars,
                 taking, taken, pumping, visitor, got>>

\* A chunk for a visitor who left: the write fails, or the kernel takes it.
WriteInVain(s) ==
  /\ serve[s] = "bridge"
  /\ visitor[s] = "closed"
  /\ held # Nil /\ held.id = s
  /\ s \in respOpen
  /\ held' = Nil
  /\ Bridged(s) \/ UNCHANGED <<streams, reqOpen, respOpen, tcpVars>>
  /\ UNCHANGED <<lifeVars, reading, wireVars, clientVars, taking, taken, pumping, visitor, got>>

\* handleUpgrade is back from pumpDone.
UpgradeReturns(s) ==
  /\ serve[s] = "waiting"
  /\ s \notin taking
  /\ CloseStream(s)
  /\ Inbound(s, "done")
  /\ UNCHANGED <<lifeVars, reading, held, wireVars, clientVars,
                 taking, taken, pumping, visitor, got>>

\* The visitor has sent all it had and closes its sending side.
VisitorFinishes(s) ==
  /\ visitor[s] = "open"
  /\ taken[s] = ReqLen
  /\ visitor' = [visitor EXCEPT ![s] = "half"]
  /\ UNCHANGED <<sessionVars, handshake, kind, serve, taking, taken, pumping, got, outboundVars>>

\* The visitor closes the connection, in the middle of whatever it does.
VisitorLeaves(s) ==
  /\ visitor[s] # "closed"
  /\ serve[s] # "idle"
  /\ visitor' = [visitor EXCEPT ![s] = "closed"]
  /\ UNCHANGED <<sessionVars, handshake, kind, serve, taking, taken, pumping, got, outboundVars>>

-----------------------------------------------------------------------------
(***************************************************************************)
(* The client's end of a stream.                                           *)
(***************************************************************************)

\* readLoop reads MsgOpenTCP: openTCPStream registers the stream and starts
\* driveTCPStream.
StartDrive(s) ==
  /\ ReceiveOpen(s)
  /\ drive' = [drive EXCEPT ![s] = "dial"]
  /\ UNCHANGED <<handshake, inboundVars, copying, shut, service, local, sent>>

\* Mutant of ReceiveClose: the local connection stays open.
ReceiveCloseOfBuffer(s) ==
  /\ Receive("close")
  /\ Head(down).id = s
  /\ bufClosed' = bufClosed \cup ({s} \cap known)
  /\ UNCHANGED <<lifeVars, serverVars, drops, up, looping, known, buf, tcpVars>>

\* readLoop reads MsgClose: closeStream closes the buffer and the connection of
\* a stream it knows, with what the buffer still holds.
ReceiveClose(s) ==
  /\ Receive("close")
  /\ Head(down).id = s
  /\ bufClosed' = bufClosed \cup ({s} \cap known)
  /\ shut' = shut \cup ({s} \cap known)
  /\ UNCHANGED <<lifeVars, serverVars, drops, up, looping, known, buf,
                 handshake, inboundVars, drive, copying, service, local, sent>>

\* The deferred end of driveTCPStream.
DriveEnds(s) ==
  /\ ClientFinishes(s)
  /\ drive' = [drive EXCEPT ![s] = "gone"]
  /\ shut' = shut \cup {s}

\* The local service answers the dial, and the stream is not closed meanwhile.
DialSucceeds(s) ==
  /\ drive[s] = "dial"
  /\ s \notin shut
  /\ drive' = [drive EXCEPT ![s] = "bridge"]
  /\ copying' = copying \cup {s}
  /\ UNCHANGED <<sessionVars, handshake, inboundVars, shut, service, local, sent>>

\* Nobody listens, or the stream was closed during the dial.
DialInVain(s) ==
  /\ drive[s] = "dial"
  /\ DriveEnds(s)
  /\ service' = [service EXCEPT ![s] = "closed"]
  /\ UNCHANGED <<handshake, inboundVars, copying, local, sent>>

\* io.Copy writes the next chunk to the local service.
ToService(s) ==
  /\ s \in copying \ shut
  /\ service[s] # "closed"
  /\ TakeChunk(s)
  /\ local' = [local EXCEPT ![s] = Append(@, Head(buf[s]))]
  /\ UNCHANGED <<handshake, inboundVars, drive, copying, shut, service, sent>>

\* The buffer is closed and drained, or the next write fails.
StopCopying(s) ==
  /\ s \in copying
  /\ BufferEnds(s) \/ (buf[s] # <<>> /\ (s \in shut \/ service[s] = "closed"))
  /\ copying' = copying \ {s}
  /\ UNCHANGED <<sessionVars, handshake, inboundVars, drive, shut, service, local, sent>>

\* A chunk of the service is sent to the server.
FromService(s) ==
  /\ drive[s] = "bridge"
  /\ s \notin shut
  /\ service[s] = "open"
  /\ sent[s] < RespLen
  /\ SendUp(Frame("data", s, sent[s] + 1))
  /\ sent' = [sent EXCEPT ![s] = @ + 1]
  /\ UNCHANGED <<handshake, inboundVars, drive, copying, shut, service, local>>

\* The service sends no more, the local connection is closed, or a chunk cannot
\* be sent: driveTCPStream waits for pumpDone.
ServiceRead(s) ==
  /\ drive[s] = "bridge"
  /\ s \in shut \/ service[s] # "open" \/ (~wsUp /\ sent[s] < RespLen)
  /\ drive' = [drive EXCEPT ![s] = "waiting"]
  /\ UNCHANGED <<sessionVars, handshake, inboundVars, copying, shut, service, local, sent>>

\* It is back from pumpDone.
FinishDrive(s) ==
  /\ drive[s] = "waiting"
  /\ s \notin copying
  /\ DriveEnds(s)
  /\ UNCHANGED <<handshake, inboundVars, copying, service, local, sent>>

\* The service has sent all it had and closes its sending side.
ServiceFinishes(s) ==
  /\ drive[s] = "bridge"
  /\ service[s] = "open"
  /\ sent[s] = RespLen
  /\ service' = [service EXCEPT ![s] = "half"]
  /\ UNCHANGED <<sessionVars, handshake, inboundVars, drive, copying, shut, local, sent>>

\* The service closes the connection, in the middle of whatever it does.
ServiceCloses(s) ==
  /\ drive[s] \in {"bridge", "waiting"}
  /\ service[s] # "closed"
  /\ service' = [service EXCEPT ![s] = "closed"]
  /\ UNCHANGED <<sessionVars, handshake, inboundVars, drive, copying, shut, local, sent>>

\* The process ends, and with it every driveTCPStream.
Exit ==
  /\ ClientExits
  /\ drive' = [s \in Stream |-> IF drive[s] = "none" THEN "none" ELSE "gone"]
  /\ copying' = {}
  /\ UNCHANGED <<handshake, inboundVars, shut, service, local, sent>>

-----------------------------------------------------------------------------
Serve(s) ==
  \/ OpenTCPStream(s)
  \/ SendOpen(s)
  \/ HeadWritten(s)
  \/ HeadFails(s)
  \/ ToVisitor(s)
  \/ PipeCloses(s)
  \/ WriteInVain(s)
  \/ UpgradeReturns(s)

Drive(s) ==
  \/ DialSucceeds(s)
  \/ DialInVain(s)
  \/ ToService(s)
  \/ ServiceRead(s)
  \/ FinishDrive(s)

\* What the visitor and the service do of their own accord.
Outside(s) ==
  \/ Arrive(s)
  \/ FromVisitor(s)
  \/ VisitorFinishes(s)
  \/ VisitorLeaves(s)
  \/ FromService(s)
  \/ ServiceFinishes(s)
  \/ ServiceCloses(s)

\* What the session does of its own accord, as in Session; MsgReqDone is never
\* sent on these streams.
Serves == ReaderTakesData \/ WriteFails \/ ReaderTakesClose \/ ReaderExits
TearsDown == CloseSession \/ Kick

Next ==
  \/ Announce
  \/ Joins
  \/ Refuses
  \/ LostEarly
  \/ Running
  \/ (Serves \/ TearsDown \/ Killed \/ ReceiveData \/ ReadLoopReturns) /\ UNCHANGED tcpVars
  \/ Exit
  \/ \E s \in Stream :
       \/ Serve(s)
       \/ StopTaking(s)
       \/ PumpEnds(s)
       \/ StartDrive(s)
       \/ ReceiveClose(s)
       \/ Drive(s)
       \/ StopCopying(s)
       \/ Outside(s)

Spec == Init /\ [][Next]_vars

\* A step of one of the goroutines, or the deadline of register.
GoroutineSteps ==
  \/ Announce
  \/ LostEarly
  \/ Joins
  \/ Refuses
  \/ (Serves \/ TearsDown \/ ReceiveData \/ ReadLoopReturns) /\ UNCHANGED tcpVars
  \/ handshake # "published" /\ WriterCloses /\ UNCHANGED tcpVars
  \/ Exit
  \/ \E s \in Stream :
       \/ Serve(s)
       \/ StopTaking(s) /\ (visitor[s] # "open" \/ serve[s] = "done")
       \/ PumpEnds(s)
       \/ StartDrive(s)
       \/ ReceiveClose(s)
       \/ Drive(s)
       \/ StopCopying(s)

\* A goroutine that can take a step takes one, and a visitor or a service takes
\* what it is sent.  Nobody owes a chunk or the end of a connection: a visitor
\* may idle for ever.  Every step uses something up, a frame, a chunk or a place
\* in a goroutine, so that a behaviour comes to rest; fairness to all goroutines
\* together then is fairness to each, and much cheaper to check.
Fairness == WF_vars(GoroutineSteps)

FairSpec == Spec /\ Fairness

-----------------------------------------------------------------------------
(***************************************************************************)
(* Properties.                                                             *)
(***************************************************************************)

\* The client gives a fresh session up because of its first frame only when that
\* frame, of a visitor who came between Register and the reply, overtook
\* MsgRegistered, which is still to come; else Send gave the reply up, the session
\* was killed or the connection is lost.
RefusedWhenOvertaken ==
  [][handshake # "refused" /\ handshake' = "refused" =>
       \/ \E i \in 2 .. Len(down) : down[i] = RegisteredFrame
       \/ drops > 0 \/ doomed \/ ~wsUp]_vars

\* Neither end receives a chunk twice, out of order or after a gap, as long as
\* no frame is given up: Send may drop one chunk of a killed session and still
\* queue the next.
InOrder ==
  \A s \in Stream :
    /\ got[s] = Whole(Len(got[s]))
    /\ drops = 0 /\ ~kicked => local[s] = Whole(Len(local[s]))

\* When the server closes a visitor's connection, or waits to, because the
\* client said that the stream is over, the visitor has all that was sent to it; an
\* upgrade that the server gives up before it bridges is owed nothing.
NothingCutOff ==
  \A s \in Stream :
    serve[s] \in {"waiting", "done"} /\ mapped /\ ~torn /\ visitor[s] # "closed"
      => got[s] = Whole(sent[s])

\* The reader of the session, which all its streams depend on, waits on a stream
\* only if a bridge is there to take what it holds, or if handleUpgrade is about
\* to close the stream of a visitor who left.
ReaderIsAwaited ==
  held # Nil /\ held.id \in respOpen =>
    \/ serve[held.id] \in {"head", "bridge"}
    \/ serve[held.id] = "waiting" /\ visitor[held.id] = "closed"

\* When a visitor leaves, or the session goes, the stream ends at both of its
\* ends: the visitor's connection is closed, the local one too, and no goroutine
\* is left with it, also if nobody sends anything more.  An upgrade whose session
\* went may wait for its visitor; a client that lost its WebSocket keeps the
\* stream.
StreamEnds ==
  \A s \in Stream :
    s \in streams /\ ~torn /\ (visitor[s] = "closed" \/ ~mapped) ~>
      \/ serve[s] \in {"done", "failed"} /\ s \notin taking \cup pumping /\ (s \notin known \/ ~wsUp)
      \/ kind[s] = "upgrade" /\ serve[s] = "waiting" /\ visitor[s] # "closed"
      \/ drops > 0

\* The bytes are copied in both directions until either end closes.
EitherEndCloses ==
  \A s \in Stream : service[s] = "closed" ~> serve[s] \in {"idle", "done", "failed"}

=============================================================================
