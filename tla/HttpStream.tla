----------------------------- MODULE HttpStream -----------------------------
(***************************************************************************)
(* Public HTTP requests through one session, from the browser to the local *)
(* service and back:                                                       *)
(*                                                                         *)
(*   - Registry.ServeHTTP, the goroutine that writes the request into its  *)
(*     pipe, and pumpRequest (internal/tunnel/registry.go);                *)
(*   - driveStream (cmd/client/main.go), which dials the local service,    *)
(*     copies the request to it and its response back.                     *)
(*                                                                         *)
(* A request and its response are numbered chunks; each stream serves one  *)
(* request.                                                                *)
(***************************************************************************)
EXTENDS Session, FiniteSets

CONSTANTS
  ReqLen,    \* chunks of a request
  RespLen,   \* chunks of a response
  MaxMishaps \* bound: browsers that give up and local services that fail

ASSUME HttpAssumption ==
  /\ ReqLen \in Nat \ {0}
  /\ RespLen \in Nat \ {0}
  /\ MaxMishaps \in Nat

VARIABLES
  serve,     \* where ServeHTTP is
  written,   \* request chunks the request pipe took
  pumping,   \* the streams whose pumpRequest runs
  got,       \* response chunks ServeHTTP read
  drive,     \* where driveStream is
  local,     \* request chunks the local service got
  sent,      \* response chunks driveStream sent
  left,      \* the browser gave up
  failed     \* the local service refused or broke off

httpVars == <<serve, written, pumping, got, drive, local, sent, left, failed>>
vars == <<sessionVars, httpVars>>

Whole(n) == [i \in 1 .. n |-> i]
Longest == IF ReqLen > RespLen THEN ReqLen ELSE RespLen

TypeOK ==
  /\ SessionTypeOK(Longest)
  /\ serve \in [Stream -> {"idle", "found", "opening", "reading", "done"}]
  /\ written \in [Stream -> 0 .. ReqLen]
  /\ pumping \in SUBSET Stream
  /\ got \in [Stream -> Seq(1 .. RespLen)]
  /\ drive \in [Stream -> {"none", "dial", "pump", "respond", "gone"}]
  /\ local \in [Stream -> Seq(1 .. ReqLen)]
  /\ sent \in [Stream -> 0 .. RespLen]
  /\ left \in SUBSET Stream
  /\ failed \in SUBSET Stream

Init ==
  /\ SessionInit
  /\ serve = [s \in Stream |-> "idle"]
  /\ written = [s \in Stream |-> 0]
  /\ pumping = {}
  /\ got = [s \in Stream |-> <<>>]
  /\ drive = [s \in Stream |-> "none"]
  /\ local = [s \in Stream |-> <<>>]
  /\ sent = [s \in Stream |-> 0]
  /\ left = {}
  /\ failed = {}

\* The browser of s gives up; its local service fails.
Leaves(s) ==
  /\ Cardinality(left) + Cardinality(failed) < MaxMishaps
  /\ left' = left \cup {s}

Fails(s) ==
  /\ Cardinality(left) + Cardinality(failed) < MaxMishaps
  /\ failed' = failed \cup {s}

-----------------------------------------------------------------------------
(***************************************************************************)
(* The server's end of a stream.                                           *)
(***************************************************************************)

\* Lookup finds the session, or the browser gets its 502 at once.
Lookup(s) ==
  /\ serve[s] = "idle"
  /\ serve' = [serve EXCEPT ![s] = IF mapped THEN "found" ELSE "done"]
  /\ UNCHANGED <<sessionVars, written, pumping, got, drive, local, sent, left, failed>>

\* openStream puts the stream into the map.  Since Lookup the session may have
\* been torn down; openStream does not look.
OpenStream(s) ==
  /\ serve[s] = "found"
  /\ RegisterStream(s)
  /\ serve' = [serve EXCEPT ![s] = "opening"]
  /\ UNCHANGED <<written, pumping, got, drive, local, sent, left, failed>>

\* It sends MsgOpen, starts the pump and returns: ServeHTTP waits for the response.
SendOpen(s) ==
  /\ serve[s] = "opening"
  /\ OnlySends(Frame("open", s, 0))
  /\ serve' = [serve EXCEPT ![s] = "reading"]
  /\ pumping' = pumping \cup {s}
  /\ UNCHANGED <<written, got, drive, local, sent, left, failed>>

\* pumpRequest reads the next chunk from the pipe and sends it.
PumpData(s) ==
  /\ s \in pumping \cap reqOpen
  /\ written[s] < ReqLen
  /\ OnlySends(Frame("data", s, written[s] + 1))
  /\ written' = [written EXCEPT ![s] = @ + 1]
  /\ UNCHANGED <<serve, pumping, got, drive, local, sent, left, failed>>

\* req.Write wrote the whole request, and its goroutine closes the pipe.
RequestWritten(s) ==
  /\ s \in pumping \cap reqOpen
  /\ written[s] = ReqLen
  /\ CloseRequest(s)
  /\ UNCHANGED httpVars

\* The body cannot be read to its end: req.Write fails, the pipe is closed too.
RequestBreaksOff(s) ==
  /\ s \in pumping \cap reqOpen
  /\ written[s] < ReqLen
  /\ CloseRequest(s)
  /\ Leaves(s)
  /\ UNCHANGED <<serve, written, pumping, got, drive, local, sent, failed>>

\* Mutant of PumpEnds: MsgReqDone is not sent.
PumpEndsSilently(s) ==
  /\ s \in pumping \ reqOpen
  /\ pumping' = pumping \ {s}
  /\ UNCHANGED <<sessionVars, serve, written, got, drive, local, sent, left, failed>>

\* The pipe is closed: pumpRequest sends MsgReqDone, whatever closed it.
PumpEnds(s) ==
  /\ s \in pumping \ reqOpen
  /\ OnlySends(Frame("reqDone", s, 0))
  /\ pumping' = pumping \ {s}
  /\ UNCHANGED <<serve, written, got, drive, local, sent, left, failed>>

\* ServeHTTP reads a chunk of the response and copies it to the browser.
ReadResponse(s) ==
  /\ serve[s] = "reading"
  /\ HandOver(s)
  /\ got' = [got EXCEPT ![s] = Append(@, held.n)]
  /\ UNCHANGED <<serve, written, pumping, drive, local, sent, left, failed>>

\* ServeHTTP returns: the deferred CloseStream.
Return(s) ==
  /\ serve[s] = "reading"
  /\ CloseStream(s)
  /\ serve' = [serve EXCEPT ![s] = "done"]
  /\ UNCHANGED <<lifeVars, reading, held, wireVars, clientVars,
                 written, pumping, got, drive, local, sent, failed>>

\* The response pipe is closed; an error of the copy is not looked at.
PipeCloses(s) ==
  /\ s \notin respOpen
  /\ Return(s)
  /\ UNCHANGED left

\* The response says how long it is, and all of it is there.
ResponseComplete(s) ==
  /\ Len(got[s]) = RespLen
  /\ Return(s)
  /\ UNCHANGED left

\* The copy fails because the browser left.  Until there is something to copy
\* ServeHTTP does not notice.
BrowserLeaves(s) ==
  /\ got[s] # <<>>
  /\ Return(s)
  /\ Leaves(s)

-----------------------------------------------------------------------------
(***************************************************************************)
(* The client's end of a stream: driveStream.                              *)
(***************************************************************************)

\* readLoop reads MsgOpen and starts driveStream.
StartDrive(s) ==
  /\ ReceiveOpen(s)
  /\ drive' = [drive EXCEPT ![s] = "dial"]
  /\ UNCHANGED <<serve, written, pumping, got, local, sent, left, failed>>

\* The process ends, and with it every driveStream.
Exit ==
  /\ ClientExits
  /\ drive' = [s \in Stream |-> IF drive[s] = "none" THEN "none" ELSE "gone"]
  /\ UNCHANGED <<serve, written, pumping, got, local, sent, left, failed>>

DialSucceeds(s) ==
  /\ drive[s] = "dial"
  /\ drive' = [drive EXCEPT ![s] = "pump"]
  /\ UNCHANGED <<sessionVars, serve, written, pumping, got, local, sent, left, failed>>

\* Nobody listens, or the TLS handshake fails.
DialFails(s) ==
  /\ drive[s] = "dial"
  /\ ClientFinishes(s)
  /\ drive' = [drive EXCEPT ![s] = "gone"]
  /\ Fails(s)
  /\ UNCHANGED <<serve, written, pumping, got, local, sent, left>>

\* io.Copy writes the next chunk to the local service.
CopyRequest(s) ==
  /\ drive[s] = "pump"
  /\ s \notin failed
  /\ TakeChunk(s)
  /\ local' = [local EXCEPT ![s] = Append(@, Head(buf[s]))]
  /\ UNCHANGED <<serve, written, pumping, got, drive, sent, left, failed>>

\* The local service breaks off.
LocalFails(s) ==
  /\ drive[s] \in {"pump", "respond"}
  /\ s \notin failed
  /\ Fails(s)
  /\ UNCHANGED <<sessionVars, serve, written, pumping, got, drive, local, sent, left>>

\* io.Copy is done, or its next write fails; the write side is closed, so that
\* the service sees the end of the request.
HalfClose(s) ==
  /\ drive[s] = "pump"
  /\ BufferEnds(s) \/ (s \in failed /\ buf[s] # <<>>)
  /\ drive' = [drive EXCEPT ![s] = "respond"]
  /\ UNCHANGED <<sessionVars, serve, written, pumping, got, local, sent, left, failed>>

\* A chunk of the response is sent to the server.
CopyResponse(s) ==
  /\ drive[s] = "respond"
  /\ s \notin failed
  /\ sent[s] < RespLen
  /\ SendUp(Frame("data", s, sent[s] + 1))
  /\ sent' = [sent EXCEPT ![s] = @ + 1]
  /\ UNCHANGED <<serve, written, pumping, got, drive, local, left, failed>>

\* The response ends, or the service broke off, or the server cannot be reached.
FinishDrive(s) ==
  /\ drive[s] = "respond"
  /\ sent[s] = RespLen \/ s \in failed \/ ~wsUp
  /\ ClientFinishes(s)
  /\ drive' = [drive EXCEPT ![s] = "gone"]
  /\ UNCHANGED <<serve, written, pumping, got, local, sent, left, failed>>

-----------------------------------------------------------------------------
Serve(s) ==
  \/ OpenStream(s)
  \/ SendOpen(s)
  \/ ReadResponse(s)
  \/ PipeCloses(s)
  \/ ResponseComplete(s)

Pump(s) ==
  \/ PumpData(s)
  \/ RequestWritten(s)
  \/ PumpEnds(s)

Drive(s) ==
  \/ DialSucceeds(s)
  \/ DialFails(s)
  \/ CopyRequest(s)
  \/ HalfClose(s)
  \/ CopyResponse(s)
  \/ FinishDrive(s)

Outside(s) ==
  \/ Lookup(s)
  \/ RequestBreaksOff(s)
  \/ BrowserLeaves(s)
  \/ LocalFails(s)

Next ==
  \/ SessionNext /\ UNCHANGED httpVars
  \/ Exit
  \/ \E s \in Stream : Serve(s) \/ Pump(s) \/ StartDrive(s) \/ Drive(s) \/ Outside(s)

Spec == Init /\ [][Next]_vars

\* Every goroutine that can take a step takes one; browsers read their
\* responses, local services answer, and while the WebSocket is up browsers
\* deliver their requests: after that they may stall.  A loss of the
\* connection, a kill or a failure is not owed.
Fairness ==
  /\ WF_vars((ReaderTakesData \/ WriteFails \/ ReaderTakesClose \/ ReaderExits) /\ UNCHANGED httpVars)
  /\ WF_vars((CloseSession \/ Kick \/ WriterCloses) /\ UNCHANGED httpVars)
  /\ WF_vars((ReceiveData \/ ReceiveReqDone \/ ReadLoopReturns) /\ UNCHANGED httpVars)
  /\ WF_vars(Exit)
  /\ \A s \in Stream :
       /\ WF_vars(Serve(s))
       /\ WF_vars(wsUp /\ (PumpData(s) \/ RequestWritten(s)))
       /\ WF_vars(PumpEnds(s))
       /\ WF_vars(StartDrive(s))
       /\ WF_vars(Drive(s))

FairSpec == Spec /\ Fairness

-----------------------------------------------------------------------------
(***************************************************************************)
(* Properties.                                                             *)
(***************************************************************************)

\* What the browser gets is a prefix of the response, and all of it unless the
\* session went away, the local service failed or the browser itself left: no
\* MsgClose overtakes data, no chunk is lost between the reader and ServeHTTP.
ResponseWhole ==
  \A s \in Stream :
    /\ got[s] = Whole(Len(got[s]))
    /\ serve[s] = "done" /\ ~torn /\ mapped /\ s \notin failed \cup left => got[s] = Whole(RespLen)

\* The local service is not told that the request is over before it has all of
\* it, unless the request broke off, the session went away or Send gave up.
RequestWhole ==
  \A s \in Stream :
    drive[s] = "respond" /\ s \notin failed \cup left /\ ~torn /\ drops = 0 => local[s] = Whole(ReqLen)

\* The reader, which every stream of the session depends on, is only ever
\* blocked on a response that its ServeHTTP is still there to read.
ReaderIsAwaited ==
  held # Nil /\ held.id \in respOpen => serve[held.id] = "reading"

\* A request in flight on a session that is up ends, even if the client is lost
\* or killed: teardown unblocks ServeHTTP.
InFlightEnds ==
  \A s \in Stream : s \in streams /\ ~torn ~> serve[s] = "done" \/ drops > 0

\* pumpRequest ends with its stream or with the session, even when the browser
\* stalls in the middle of its request: teardown closes the pipe it reads.
PumpsEnd == \A s \in Stream : s \in pumping \cap streams /\ ~torn ~> s \notin pumping

\* While the WebSocket is up and no frame is given up, the client gets rid of
\* every stream.
ClientStreamEnds == \A s \in Stream : s \in known ~> s \notin known \/ ~wsUp \/ drops > 0

\* On error or completion the client closes the local connection and removes
\* the stream.
LocalConnectionEnds == \A s \in Stream : drive[s] = "pump" ~> drive[s] = "gone"

=============================================================================
