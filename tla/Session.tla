------------------------------ MODULE Session ------------------------------
(***************************************************************************)
(* One registered session and the streams multiplexed over its WebSocket:  *)
(*                                                                         *)
(*   - Session and its stream map (internal/tunnel/registry.go), with the  *)
(*     two pipes of every stream, the send queue and closeSession;         *)
(*   - the reader and the writer of the control handler (internal/control) *)
(*     at the server's end of the WebSocket;                               *)
(*   - readLoop and the stream map of tunnelClient (cmd/client) at the     *)
(*     other end.                                                          *)
(*                                                                         *)
(* The send queue, the writer and the socket are one bounded FIFO, down;   *)
(* the socket in the other direction is the FIFO up.  The pipes are        *)
(* io.Pipe: unbuffered, so a write is one step with the read that takes    *)
(* it, and a write to a closed pipe fails.  What the goroutines at the two *)
(* ends of a stream do is left to the modules that extend this one.        *)
(***************************************************************************)
EXTENDS Naturals, Sequences

CONSTANTS
  Stream,    \* stream IDs, one for each public request
  Nil,       \* no frame
  SendCap,   \* frames the send queue and the socket hold
  UpCap,     \* frames the socket holds towards the server
  MaxDrops   \* bound: frames Send gives up on while the socket is up

ASSUME SessionAssumption ==
  /\ SendCap \in Nat \ {0}
  /\ UpCap \in Nat \ {0}
  /\ MaxDrops \in Nat
  /\ Nil \notin [type : {"data"}, id : Stream, n : Nat]

VARIABLES
  \* the life of the session
  mapped,    \* it is in r.sessions
  torn,      \* closeSession ran
  doomed,    \* its killer will kick it
  kicked,    \* the kicked channel is closed
  wsUp,      \* the WebSocket is up
  \* the server's end
  streams,   \* Session.streams
  reqOpen,   \* streams whose request pipe is open
  respOpen,  \* streams whose response pipe is open
  reading,   \* the control reader runs
  held,      \* the data frame WriteRespData is blocked on
  drops,     \* frames given up so far
  \* the wire
  down,      \* frames on their way to the client
  up,        \* frames on their way to the server
  \* the client's end
  looping,   \* readLoop runs
  known,     \* tc.streams
  buf,       \* reqBuffer of a stream
  bufClosed  \* streams whose reqBuffer is closed

lifeVars == <<mapped, torn, doomed, kicked, wsUp>>
serverVars == <<streams, reqOpen, respOpen, reading, held>>
wireVars == <<drops, down, up>>
clientVars == <<looping, known, buf, bufClosed>>
sessionVars == <<lifeVars, serverVars, wireVars, clientVars>>

Frame(type, s, n) == [type |-> type, id |-> s, n |-> n]

\* The WebSocket close frame with code 4429, and the server's reply to MsgRegister.
CloseFrame == Frame("4429", Nil, 0)
RegisteredFrame == Frame("registered", Nil, 0)

\* Frames that carry one of the first n chunks of a stream, or none.
FrameUpTo(n) ==
  [type : {"open", "data", "reqDone", "close"}, id : Stream, n : 0 .. n]
    \cup {CloseFrame, RegisteredFrame}

SessionTypeOK(n) ==
  /\ mapped \in BOOLEAN /\ torn \in BOOLEAN /\ doomed \in BOOLEAN /\ kicked \in BOOLEAN
  /\ wsUp \in BOOLEAN
  /\ streams \in SUBSET Stream
  /\ reqOpen \in SUBSET Stream
  /\ respOpen \in SUBSET Stream
  /\ reading \in BOOLEAN
  /\ held \in FrameUpTo(n) \cup {Nil}
  /\ drops \in 0 .. MaxDrops
  /\ down \in Seq(FrameUpTo(n)) /\ Len(down) <= SendCap + 1
  /\ up \in Seq(FrameUpTo(n)) /\ Len(up) <= UpCap
  /\ looping \in BOOLEAN
  /\ known \in SUBSET Stream
  /\ buf \in [Stream -> Seq(1 .. n)]
  /\ bufClosed \in SUBSET Stream

\* A session that Register published; established says whether the handshake
\* is over too.
SessionPublished(established) ==
  /\ mapped = TRUE /\ torn = FALSE /\ doomed = FALSE /\ kicked = FALSE
  /\ wsUp = TRUE
  /\ streams = {}
  /\ reqOpen = Stream
  /\ respOpen = Stream
  /\ reading = established
  /\ held = Nil
  /\ drops = 0
  /\ down = <<>>
  /\ up = <<>>
  /\ looping = established
  /\ known = {}
  /\ buf = [s \in Stream |-> <<>>]
  /\ bufClosed = {}

SessionInit == SessionPublished(TRUE)

-----------------------------------------------------------------------------
(***************************************************************************)
(* The server's end.                                                       *)
(***************************************************************************)

\* Mutant of Send: the queue has no bound.
SendUnbounded(f) == down' = Append(down, f) /\ UNCHANGED drops

\* Session.Send.  It blocks while the queue is full, for 30 seconds at most;
\* a kick makes it give up.  Once the writer is gone nobody reads the queue.
Send(f) ==
  \/ /\ wsUp
     /\ Len(down) < SendCap
     /\ down' = Append(down, f)
     /\ UNCHANGED drops
  \/ /\ wsUp => kicked
     /\ UNCHANGED <<down, drops>>
  \/ /\ wsUp
     /\ Len(down) = SendCap
     /\ drops < MaxDrops
     /\ drops' = drops + 1
     /\ UNCHANGED down

\* The first half of openStream: the stream is in the map.
RegisterStream(s) ==
  /\ streams' = streams \cup {s}
  /\ UNCHANGED <<lifeVars, reqOpen, respOpen, reading, held, wireVars, clientVars>>

\* A step of a goroutine that only sends f.
OnlySends(f) ==
  /\ Send(f)
  /\ UNCHANGED <<lifeVars, serverVars, up, clientVars>>

\* The writer of the request pipe closes it.
CloseRequest(s) ==
  /\ reqOpen' = reqOpen \ {s}
  /\ UNCHANGED <<lifeVars, streams, respOpen, reading, held, wireVars, clientVars>>

\* Mutants of ClosePipes: one of the two pipes stays open.
ClosePipesButResponse(S) == reqOpen' = reqOpen \ S /\ UNCHANGED respOpen
ClosePipesButRequest(S) == respOpen' = respOpen \ S /\ UNCHANGED reqOpen

\* Both pipes of the streams S are closed: whoever is blocked on one goes on.
ClosePipes(S) ==
  /\ reqOpen' = reqOpen \ S
  /\ respOpen' = respOpen \ S

\* Session.CloseStream: nothing happens to a stream that is not in the map.
CloseStream(s) ==
  /\ streams' = streams \ {s}
  /\ ClosePipes({s} \cap streams)

\* A data frame arrives: WriteRespData looks the stream up and blocks in the
\* write to its pipe, and the reader with it; without a stream it returns.
ReaderTakesData ==
  /\ reading /\ held = Nil /\ up # <<>>
  /\ Head(up).type = "data"
  /\ up' = Tail(up)
  /\ held' = IF Head(up).id \in streams THEN Head(up) ELSE Nil
  /\ UNCHANGED <<lifeVars, streams, reqOpen, respOpen, reading, drops, down, clientVars>>

\* The pipe is closed: the write fails and the frame is lost.
WriteFails ==
  /\ held # Nil
  /\ held.id \notin respOpen
  /\ held' = Nil
  /\ UNCHANGED <<lifeVars, streams, reqOpen, respOpen, reading, wireVars, clientVars>>

\* The reader of the pipe takes what WriteRespData writes.
HandOver(s) ==
  /\ held # Nil
  /\ held.id = s
  /\ s \in respOpen
  /\ held' = Nil
  /\ UNCHANGED <<lifeVars, streams, reqOpen, respOpen, reading, wireVars, clientVars>>

\* Mutant of ReaderTakesClose: it does not wait until the data is written.
ReaderClosesEarly ==
  /\ reading /\ up # <<>>
  /\ Head(up).type = "close"
  /\ up' = Tail(up)
  /\ CloseStream(Head(up).id)
  /\ UNCHANGED <<lifeVars, reading, held, drops, down, clientVars>>

\* MsgClose arrives.
ReaderTakesClose ==
  /\ reading /\ held = Nil /\ up # <<>>
  /\ Head(up).type = "close"
  /\ up' = Tail(up)
  /\ CloseStream(Head(up).id)
  /\ UNCHANGED <<lifeVars, reading, held, drops, down, clientVars>>

\* ReadMessage fails: DeregisterSession takes the session out of the map.
ReaderExits ==
  /\ reading /\ held = Nil /\ ~wsUp
  /\ reading' = FALSE
  /\ mapped' = FALSE
  /\ UNCHANGED <<torn, doomed, kicked, wsUp, streams, reqOpen, respOpen, held, wireVars, clientVars>>

\* A takeover or a revocation takes it out of the map.
Killed ==
  /\ mapped
  /\ mapped' = FALSE
  /\ doomed' = TRUE
  /\ UNCHANGED <<torn, kicked, wsUp, serverVars, wireVars, clientVars>>

\* closeSession closes the pipes of the streams it finds; they stay in the map.
CloseSession ==
  /\ ~mapped /\ ~torn
  /\ torn' = TRUE
  /\ ClosePipes(streams)
  /\ UNCHANGED <<mapped, doomed, kicked, wsUp, streams, reading, held, wireVars, clientVars>>

\* The killer is back from closeSession.
Kick ==
  /\ torn /\ doomed /\ ~kicked
  /\ kicked' = TRUE
  /\ UNCHANGED <<mapped, torn, doomed, wsUp, serverVars, wireVars, clientVars>>

\* The WebSocket goes down; of what was on its way each end still reads a part,
\* and then the client reads the frames last.
GoDown(last) ==
  /\ wsUp
  /\ wsUp' = FALSE
  /\ \E n \in 0 .. Len(down) : down' = SubSeq(down, 1, n) \o last
  /\ \E n \in 0 .. Len(up) : up' = SubSeq(up, 1, n)
  /\ UNCHANGED <<mapped, torn, doomed, kicked, serverVars, drops, clientVars>>

\* The network or the client fails, and sooner or later a deadline passes.
ConnectionLost == GoDown(<<>>)

\* The writer sees the kick, sends the close frame if it can, and closes the
\* WebSocket, whatever is left in the queue.
WriterCloses ==
  /\ kicked
  /\ GoDown(<<CloseFrame>>) \/ GoDown(<<>>)

-----------------------------------------------------------------------------
(***************************************************************************)
(* The client's end.                                                       *)
(***************************************************************************)

\* readLoop reads a frame of this type.
Receive(type) ==
  /\ looping /\ down # <<>>
  /\ Head(down).type = type
  /\ down' = Tail(down)

\* MsgOpen: openStream registers the stream before the next frame is read.
ReceiveOpen(s) ==
  /\ Receive("open")
  /\ Head(down).id = s
  /\ known' = known \cup {s}
  /\ UNCHANGED <<lifeVars, serverVars, drops, up, looping, buf, bufClosed>>

\* Request bytes go to the buffer of the stream, unless it is closed or gone.
ReceiveData ==
  /\ Receive("data")
  /\ buf' = IF Head(down).id \in known \ bufClosed
              THEN [buf EXCEPT ![Head(down).id] = Append(@, Head(down).n)]
              ELSE buf
  /\ UNCHANGED <<lifeVars, serverVars, drops, up, looping, known, bufClosed>>

\* MsgReqDone closes the buffer.
ReceiveReqDone ==
  /\ Receive("reqDone")
  /\ bufClosed' = bufClosed \cup ({Head(down).id} \cap known)
  /\ UNCHANGED <<lifeVars, serverVars, drops, up, looping, known, buf>>

\* ReadMessage fails: readLoop returns.  Nobody tells the open streams.
ReadLoopReturns ==
  /\ looping /\ ~wsUp
  /\ looping' = FALSE
  /\ UNCHANGED <<lifeVars, serverVars, wireVars, known, buf, bufClosed>>

\* Mutant of BufferEnds: what the buffer holds is not drained first.
BufferEndsAtOnce(s) == s \in bufClosed

\* reqBuffer.Read returns io.EOF: closed, and drained.
BufferEnds(s) == s \in bufClosed /\ buf[s] = <<>>

\* Mutant of TakeChunk: the buffer keeps what was read.
PeekChunk(s) ==
  /\ buf[s] # <<>>
  /\ UNCHANGED <<lifeVars, serverVars, wireVars, clientVars>>

\* The pump takes the next chunk from the buffer.
TakeChunk(s) ==
  /\ buf[s] # <<>>
  /\ buf' = [buf EXCEPT ![s] = Tail(@)]
  /\ UNCHANGED <<lifeVars, serverVars, wireVars, looping, known, bufClosed>>

\* sendData to the server succeeds; it blocks while the socket is full.
SendUp(f) ==
  /\ wsUp
  /\ Len(up) < UpCap
  /\ up' = Append(up, f)
  /\ UNCHANGED <<lifeVars, serverVars, drops, down, clientVars>>

\* The last frame of a stream; an error of sendFrame is ignored.
Farewell(s) == up' = IF wsUp THEN Append(up, Frame("close", s, 0)) ELSE up

\* The deferred end of a drive goroutine: removeStream, closeOnce, MsgClose.
ClientFinishes(s) ==
  /\ wsUp => Len(up) < UpCap
  /\ Farewell(s)
  /\ known' = known \ {s}
  /\ bufClosed' = bufClosed \cup {s}
  /\ UNCHANGED <<lifeVars, serverVars, drops, down, looping, buf>>

\* Close code 4429 is fatal: connectWithRetry returns and the process ends.
ClientExits ==
  /\ Receive("4429")
  /\ looping' = FALSE
  /\ known' = {}
  /\ UNCHANGED <<lifeVars, serverVars, drops, up, buf, bufClosed>>

-----------------------------------------------------------------------------
\* What happens to the session whatever its streams do.
SessionNext ==
  \/ ReaderTakesData
  \/ WriteFails
  \/ ReaderTakesClose
  \/ ReaderExits
  \/ Killed
  \/ CloseSession
  \/ Kick
  \/ ConnectionLost
  \/ WriterCloses
  \/ ReceiveData
  \/ ReceiveReqDone
  \/ ReadLoopReturns

=============================================================================
