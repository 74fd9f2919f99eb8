-------------------------- MODULE HttpStreamProofs --------------------------
(***************************************************************************)
(* Theorems about HttpStream, for any set of streams and any bounds.       *)
(*                                                                         *)
(* The reader of a session may block only on a stream whose ServeHTTP      *)
(* reads.  That rests on what openStream does in its first critical        *)
(* section and what it does later: the stream is in the map before MsgOpen *)
(* is sent, and no frame of a stream exists before that.  So the invariant *)
(* speaks of every frame in the two FIFOs.                                 *)
(***************************************************************************)
EXTENDS HttpStream, SessionProofs, TLAPS

-----------------------------------------------------------------------------
(***************************************************************************)
(* The invariant.                                                          *)
(***************************************************************************)

\* The streams whose MsgOpen was handed to Send, and those that were refused.
Launched == {s \in Stream : serve[s] \in {"reading", "done"}}

\* The frames pumpRequest, openStream and the writer send.
DownFrame ==
  [type : {"open", "reqDone"}, id : Launched, n : {0}]
    \cup [type : {"data"}, id : Launched, n : 1 .. ReqLen]
    \cup {CloseFrame}

\* The frames driveStream sends.
RespFrame == [type : {"data"}, id : Launched, n : 1 .. RespLen]
UpFrame == [type : {"close"}, id : Launched, n : {0}] \cup RespFrame

\* The variables that are no sequences.
ScalarsOK ==
  /\ mapped \in BOOLEAN /\ torn \in BOOLEAN /\ doomed \in BOOLEAN /\ kicked \in BOOLEAN
  /\ wsUp \in BOOLEAN
  /\ reqOpen \in SUBSET Stream
  /\ respOpen \in SUBSET Stream
  /\ reading \in BOOLEAN
  /\ drops \in 0 .. MaxDrops
  /\ looping \in BOOLEAN
  /\ bufClosed \in SUBSET Stream
  /\ serve \in [Stream -> {"idle", "found", "opening", "reading", "done"}]
  /\ written \in [Stream -> 0 .. ReqLen]
  /\ drive \in [Stream -> {"none", "dial", "pump", "respond", "gone"}]
  /\ sent \in [Stream -> 0 .. RespLen]
  /\ left \in SUBSET Stream
  /\ failed \in SUBSET Stream

\* Every frame on its way belongs to a stream that is launched, and the FIFOs
\* keep to their bounds; one more for the close frame of a kick.
FramesOK ==
  /\ down \in Seq(DownFrame)
  /\ Len(down) <= SendCap + 1
  /\ wsUp => Len(down) <= SendCap
  /\ up \in Seq(UpFrame)
  /\ Len(up) <= UpCap
  /\ held \in RespFrame \cup {Nil}

\* What arrived at the two ends is made of chunks.
ChunksOK ==
  /\ buf \in [Stream -> Seq(1 .. ReqLen)]
  /\ local \in [Stream -> Seq(1 .. ReqLen)]
  /\ got \in [Stream -> Seq(1 .. RespLen)]

\* Only launched streams have goroutines other than ServeHTTP.
OthersLaunched ==
  /\ pumping \subseteq Launched
  /\ known \subseteq Launched
  /\ \A s \in Stream : drive[s] # "none" => s \in Launched

\* A stream is in the session's map from openStream until its pipes are
\* closed, and only while ServeHTTP has not returned.
MapOK ==
  /\ streams \subseteq {s \in Stream : serve[s] \in {"opening", "reading"}}
  /\ \A s \in Stream : serve[s] \in {"opening", "reading"} /\ s \in respOpen => s \in streams

Inv == ScalarsOK /\ FramesOK /\ ChunksOK /\ OthersLaunched /\ MapOK /\ ReaderIsAwaited

\* The invariant holds at first.
LEMMA InvInit == ASSUME Init PROVE Inv
<1> USE SessionAssumption, HttpAssumption DEF Init, SessionInit, SessionPublished
<1>1. ScalarsOK
  <2>1. serve \in [Stream -> {"idle", "found", "opening", "reading", "done"}]
    OBVIOUS
  <2>2. drive \in [Stream -> {"none", "dial", "pump", "respond", "gone"}]
    OBVIOUS
  <2>3. written \in [Stream -> 0 .. ReqLen] /\ sent \in [Stream -> 0 .. RespLen]
    OBVIOUS
  <2>4. drops \in 0 .. MaxDrops
    OBVIOUS
  <2>5. /\ mapped \in BOOLEAN /\ torn \in BOOLEAN /\ doomed \in BOOLEAN /\ kicked \in BOOLEAN
        /\ wsUp \in BOOLEAN /\ reading \in BOOLEAN /\ looping \in BOOLEAN
    OBVIOUS
  <2>6. /\ reqOpen \in SUBSET Stream /\ respOpen \in SUBSET Stream /\ bufClosed \in SUBSET Stream
        /\ left \in SUBSET Stream /\ failed \in SUBSET Stream
    OBVIOUS
  <2>7. QED
    BY <2>1, <2>2, <2>3, <2>4, <2>5, <2>6 DEF ScalarsOK
<1>2. FramesOK
  <2>1. <<>> \in Seq(DownFrame) /\ <<>> \in Seq(UpFrame) /\ Len(<<>>) = 0
    BY EmptySeq
  <2>2. QED
    BY <2>1 DEF FramesOK
<1>3. ChunksOK
  BY EmptySeq DEF ChunksOK
<1>4. OthersLaunched /\ MapOK
  BY DEF OthersLaunched, MapOK, Launched
<1>5. ReaderIsAwaited
  BY DEF ReaderIsAwaited
<1>6. QED
  BY <1>1, <1>2, <1>3, <1>4, <1>5 DEF Inv

\* The invariant gives every variable its type.
LEMMA InvTypes == ASSUME Inv PROVE TypeOK
<1> USE SessionAssumption, HttpAssumption DEF Inv
<1>1. Longest \in Nat /\ ReqLen <= Longest /\ RespLen <= Longest
  BY DEF Longest
<1>2. DownFrame \subseteq FrameUpTo(Longest) /\ UpFrame \subseteq FrameUpTo(Longest)
  BY <1>1 DEF DownFrame, UpFrame, RespFrame, FrameUpTo, Launched
<1>3. down \in Seq(FrameUpTo(Longest)) /\ up \in Seq(FrameUpTo(Longest))
  BY <1>2, SeqMonotonic DEF FramesOK
<1>4. buf \in [Stream -> Seq(1 .. Longest)]
  <2>1. 1 .. ReqLen \subseteq 1 .. Longest
    BY <1>1
  <2>2. \A s \in Stream : buf[s] \in Seq(1 .. Longest)
    BY <2>1, SeqMonotonic DEF ChunksOK
  <2>3. QED
    BY <2>2 DEF ChunksOK
<1>5. held \in FrameUpTo(Longest) \cup {Nil}
  BY <1>2 DEF FramesOK, UpFrame
<1>6. streams \in SUBSET Stream /\ known \in SUBSET Stream /\ pumping \in SUBSET Stream
  BY DEF MapOK, OthersLaunched, Launched
<1>7. SessionTypeOK(Longest)
  BY <1>3, <1>4, <1>5, <1>6 DEF SessionTypeOK, ScalarsOK, FramesOK
<1>8. QED
  BY <1>6, <1>7 DEF TypeOK, ScalarsOK, ChunksOK

-----------------------------------------------------------------------------
(***************************************************************************)
(* Helpers for the steps.                                                  *)
(***************************************************************************)

\* A step that launches nothing leaves the frames what they are.
LEMMA SameFrames ==
  ASSUME UNCHANGED serve
  PROVE  Launched' = Launched /\ DownFrame' = DownFrame /\ UpFrame' = UpFrame /\ RespFrame' = RespFrame
  BY DEF Launched, DownFrame, UpFrame, RespFrame, CloseFrame, Frame

\* Launching a stream allows more frames.
LEMMA MoreFrames ==
  ASSUME Launched \subseteq Launched'
  PROVE  DownFrame \subseteq DownFrame' /\ UpFrame \subseteq UpFrame' /\ RespFrame \subseteq RespFrame'
  BY DEF DownFrame, UpFrame, RespFrame, CloseFrame, Frame

\* What Send does to the FIFO: it stays typed, and within its bound while the
\* WebSocket is up.
LEMMA SendTyped ==
  ASSUME FramesOK, drops \in 0 .. MaxDrops, NEW F, DownFrame \subseteq F, NEW f \in F, Send(f)
  PROVE  /\ down' \in Seq(F)
         /\ Len(down') <= SendCap + 1
         /\ wsUp => Len(down') <= SendCap
         /\ drops' \in 0 .. MaxDrops
<1>1. down \in Seq(F) /\ Len(down) \in Nat
  BY SeqMonotonic, LenProperties DEF FramesOK
<1>2. Append(down, f) \in Seq(F) /\ Len(Append(down, f)) = Len(down) + 1
  BY <1>1, AppendProperties
<1>3. Len(down) <= SendCap + 1 /\ (wsUp => Len(down) <= SendCap)
  BY DEF FramesOK
<1>4. CASE down' = Append(down, f) /\ Len(down) < SendCap /\ UNCHANGED drops
  BY <1>1, <1>2, <1>4, SessionAssumption
<1>5. CASE UNCHANGED down /\ (UNCHANGED drops \/ (drops < MaxDrops /\ drops' = drops + 1))
  BY <1>1, <1>3, <1>5, SessionAssumption
<1>6. QED
  BY <1>4, <1>5 DEF Send

\* FramesOK when the two FIFOs and the frame the reader holds are unchanged.
LEMMA FramesKept ==
  ASSUME FramesOK, UNCHANGED <<down, up, held>>, wsUp' => wsUp, Launched \subseteq Launched'
  PROVE  FramesOK'
<1>1. DownFrame \subseteq DownFrame' /\ UpFrame \subseteq UpFrame' /\ RespFrame \subseteq RespFrame'
  BY MoreFrames
<1>2. down \in Seq(DownFrame') /\ up \in Seq(UpFrame')
  BY <1>1, SeqMonotonic DEF FramesOK
<1>3. QED
  BY <1>1, <1>2 DEF FramesOK

-----------------------------------------------------------------------------
(***************************************************************************)
(* Steps of the session.                                                   *)
(***************************************************************************)

\* ... and survives the loss of any suffix of either FIFO.
LEMMA GoDownTyped ==
  ASSUME Inv, NEW last \in {<<>>, <<CloseFrame>>}, GoDown(last), UNCHANGED httpVars
  PROVE  Inv'
<1> USE SessionAssumption DEF httpVars
<1>1. /\ Launched' = Launched /\ DownFrame' = DownFrame /\ UpFrame' = UpFrame /\ RespFrame' = RespFrame
  BY SameFrames
<1>2. last \in Seq(DownFrame) /\ Len(last) \in {0, 1}
  <2>1. CloseFrame \in DownFrame
    BY DEF DownFrame
  <2>2. <<>> \in Seq(DownFrame) /\ Len(<<>>) = 0
    BY EmptySeq
  <2>3. <<CloseFrame>> \in Seq(DownFrame) /\ Len(<<CloseFrame>>) = 1
    BY <2>1
  <2>4. QED
    BY <2>2, <2>3
<1>3. PICK n \in 0 .. Len(down) : down' = SubSeq(down, 1, n) \o last
  BY DEF GoDown
<1>4. PICK m \in 0 .. Len(up) : up' = SubSeq(up, 1, m)
  BY DEF GoDown
<1>5. down \in Seq(DownFrame) /\ up \in Seq(UpFrame) /\ Len(down) \in Nat /\ Len(up) \in Nat
  BY LenProperties DEF Inv, FramesOK
<1>6. SubSeq(down, 1, n) \in Seq(DownFrame) /\ Len(SubSeq(down, 1, n)) = n
  BY <1>3, <1>5, PrefixOfSeq
<1>7. down' \in Seq(DownFrame) /\ Len(down') <= SendCap + 1
  <2>1. down' \in Seq(DownFrame) /\ Len(down') = n + Len(last)
    BY <1>2, <1>3, <1>6, ConcatProperties
  <2>2. wsUp /\ n <= SendCap
    BY <1>3, <1>5 DEF GoDown, Inv, FramesOK
  <2>3. n \in Nat /\ Len(last) \in Nat /\ Len(last) <= 1 /\ SendCap \in Nat
    BY <1>2, <1>3
  <2>4. n + Len(last) <= SendCap + 1
    BY <2>2, <2>3
  <2>5. QED
    BY <2>1, <2>4
<1>8. up' \in Seq(UpFrame) /\ Len(up') <= UpCap
  BY <1>4, <1>5, PrefixOfSeq DEF Inv, FramesOK
<1>9. FramesOK'
  BY <1>1, <1>7, <1>8 DEF GoDown, Inv, FramesOK, serverVars
<1>10. ScalarsOK' /\ ChunksOK' /\ OthersLaunched' /\ MapOK' /\ ReaderIsAwaited'
  BY <1>1 DEF GoDown, Inv, ScalarsOK, ChunksOK, OthersLaunched, MapOK, ReaderIsAwaited, serverVars, clientVars
<1>11. QED
  BY <1>9, <1>10 DEF Inv

\* ... the reader, the writer, readLoop and the teardown,
LEMMA SessionStep ==
  ASSUME Inv, SessionNext, UNCHANGED httpVars
  PROVE  Inv'
<1> USE SessionAssumption DEF httpVars, lifeVars, serverVars, wireVars, clientVars
<1>1. /\ Launched' = Launched /\ DownFrame' = DownFrame /\ UpFrame' = UpFrame /\ RespFrame' = RespFrame
  BY SameFrames
<1>2. ASSUME up # <<>>
      PROVE  Head(up) \in UpFrame /\ Tail(up) \in Seq(UpFrame) /\ Len(Tail(up)) <= UpCap
  BY <1>2, HeadTyped DEF Inv, FramesOK
<1>3. ASSUME down # <<>>
      PROVE  /\ Head(down) \in DownFrame /\ Tail(down) \in Seq(DownFrame)
             /\ Len(Tail(down)) <= SendCap + 1 /\ (wsUp => Len(Tail(down)) <= SendCap)
  BY <1>3, HeadTyped DEF Inv, FramesOK
<1>4. CASE ReaderTakesData
  <2>1. Head(up) \in RespFrame
    BY <1>2, <1>4 DEF ReaderTakesData, UpFrame
  <2>2. FramesOK'
    BY <1>1, <1>2, <1>4, <2>1 DEF ReaderTakesData, Inv, FramesOK
  <2>3. ReaderIsAwaited'
    BY <1>4, <2>1 DEF ReaderTakesData, Inv, MapOK, ReaderIsAwaited, RespFrame, Launched
  <2>4. ScalarsOK' /\ ChunksOK' /\ OthersLaunched' /\ MapOK'
    BY <1>1, <1>4 DEF ReaderTakesData, Inv, ScalarsOK, ChunksOK, OthersLaunched, MapOK
  <2>5. QED
    BY <2>2, <2>3, <2>4 DEF Inv
<1>5. CASE WriteFails
  BY <1>1, <1>5 DEF WriteFails, Inv, ScalarsOK, FramesOK, ChunksOK, OthersLaunched, MapOK, ReaderIsAwaited
<1>6. CASE ReaderTakesClose
  <2>1. FramesOK'
    BY <1>1, <1>2, <1>6 DEF ReaderTakesClose, Inv, FramesOK
  <2>2. ScalarsOK'
    BY <1>1, <1>6 DEF ReaderTakesClose, CloseStream, ClosePipes, Inv, ScalarsOK
  <2>3. ChunksOK' /\ OthersLaunched' /\ MapOK' /\ ReaderIsAwaited'
    BY <1>1, <1>6 DEF ReaderTakesClose, CloseStream, ClosePipes, Inv, ChunksOK, OthersLaunched, MapOK, ReaderIsAwaited
  <2>4. QED
    BY <2>1, <2>2, <2>3 DEF Inv
<1>7. CASE ReaderExits \/ Killed \/ Kick \/ ReadLoopReturns
  <2>1. FramesOK'
    BY <1>1, <1>7 DEF ReaderExits, Killed, Kick, ReadLoopReturns, Inv, FramesOK
  <2>2. ScalarsOK'
    BY <1>1, <1>7 DEF ReaderExits, Killed, Kick, ReadLoopReturns, Inv, ScalarsOK
  <2>3. ChunksOK' /\ OthersLaunched' /\ MapOK' /\ ReaderIsAwaited'
    BY <1>1, <1>7 DEF ReaderExits, Killed, Kick, ReadLoopReturns, Inv, ChunksOK, OthersLaunched, MapOK,
                      ReaderIsAwaited
  <2>4. QED
    BY <2>1, <2>2, <2>3 DEF Inv
<1>8. CASE CloseSession
  BY <1>1, <1>8 DEF CloseSession, ClosePipes, Inv, ScalarsOK, FramesOK, ChunksOK, OthersLaunched, MapOK,
                    ReaderIsAwaited
<1>9. CASE ConnectionLost
  BY <1>9, GoDownTyped DEF ConnectionLost
<1>10. CASE WriterCloses
  BY <1>10, GoDownTyped DEF WriterCloses
<1>11. CASE ReceiveData
  <2>1. Head(down) \in DownFrame /\ Head(down).type = "data" /\ down # <<>>
    BY <1>3, <1>11 DEF ReceiveData, Receive
  <2>2. Head(down).n \in 1 .. ReqLen /\ Head(down).id \in Stream
    BY <2>1 DEF DownFrame, CloseFrame, Frame, Launched
  <2>3. Append(buf[Head(down).id], Head(down).n) \in Seq(1 .. ReqLen)
    BY <2>2, AppendProperties DEF Inv, ChunksOK
  <2>4. ChunksOK'
    BY <1>11, <2>2, <2>3 DEF ReceiveData, Inv, ChunksOK
  <2>5. FramesOK'
    BY <1>1, <1>3, <1>11, <2>1 DEF ReceiveData, Receive, Inv, FramesOK
  <2>6. ScalarsOK'
    BY <1>1, <1>11 DEF ReceiveData, Inv, ScalarsOK
  <2>7. OthersLaunched' /\ MapOK' /\ ReaderIsAwaited'
    BY <1>1, <1>11 DEF ReceiveData, Inv, OthersLaunched, MapOK, ReaderIsAwaited
  <2>8. QED
    BY <2>4, <2>5, <2>6, <2>7 DEF Inv
<1>12. CASE ReceiveReqDone
  <2>1. FramesOK'
    BY <1>1, <1>3, <1>12 DEF ReceiveReqDone, Receive, Inv, FramesOK
  <2>2. ScalarsOK'
    <3>1. bufClosed' \in SUBSET Stream
      BY <1>12 DEF ReceiveReqDone, Inv, ScalarsOK, OthersLaunched, Launched
    <3>2. UNCHANGED <<lifeVars, reqOpen, respOpen, reading, drops, looping, httpVars>>
      BY <1>12 DEF ReceiveReqDone
    <3>3. QED
      BY <3>1, <3>2 DEF Inv, ScalarsOK
  <2>3. ChunksOK' /\ OthersLaunched' /\ MapOK' /\ ReaderIsAwaited'
    BY <1>1, <1>12 DEF ReceiveReqDone, Inv, ChunksOK, OthersLaunched, MapOK, ReaderIsAwaited, Launched
  <2>4. QED
    BY <2>1, <2>2, <2>3 DEF Inv
<1>13. QED
  BY <1>4, <1>5, <1>6, <1>7, <1>8, <1>9, <1>10, <1>11, <1>12 DEF SessionNext

-----------------------------------------------------------------------------
(***************************************************************************)
(* Steps at the server's end of a stream.                                  *)
(***************************************************************************)

\* A goroutine of the server that only sends a frame keeps the frames typed.
LEMMA OnlySendsTyped ==
  ASSUME Inv, NEW f \in DownFrame', Launched \subseteq Launched', OnlySends(f)
  PROVE  FramesOK' /\ drops' \in 0 .. MaxDrops
<1>1. DownFrame \subseteq DownFrame' /\ UpFrame \subseteq UpFrame' /\ RespFrame \subseteq RespFrame'
  BY MoreFrames
<1>2. /\ down' \in Seq(DownFrame') /\ Len(down') <= SendCap + 1 /\ (wsUp => Len(down') <= SendCap)
      /\ drops' \in 0 .. MaxDrops
  BY <1>1, SendTyped DEF Inv, ScalarsOK, OnlySends
<1>3. up \in Seq(UpFrame')
  BY <1>1, SeqMonotonic DEF Inv, FramesOK
<1>4. QED
  BY <1>1, <1>2, <1>3 DEF OnlySends, Inv, FramesOK, lifeVars, serverVars

\* ... ServeHTTP and its visitor,
LEMMA ServeStep ==
  ASSUME Inv, NEW s \in Stream, Serve(s) \/ Lookup(s) \/ BrowserLeaves(s)
  PROVE  Inv'
<1> USE DEF Inv, lifeVars, serverVars, wireVars, clientVars, sessionVars
<1>1. CASE Lookup(s)
  <2>1. Launched \subseteq Launched'
    BY <1>1 DEF Lookup, ScalarsOK, Launched
  <2>2. FramesOK'
    BY <1>1, <2>1, FramesKept DEF Lookup
  <2>3. ScalarsOK' /\ ChunksOK' /\ OthersLaunched' /\ MapOK'
    BY <1>1, <2>1 DEF Lookup, ScalarsOK, ChunksOK, OthersLaunched, MapOK
  <2>4. ReaderIsAwaited'
    BY <1>1 DEF Lookup, ScalarsOK, ReaderIsAwaited
  <2>5. QED
    BY <2>2, <2>3, <2>4
<1>2. CASE OpenStream(s)
  <2>1. Launched' = Launched
    BY <1>2 DEF OpenStream, ScalarsOK, Launched
  <2>2. FramesOK'
    BY <1>2, <2>1, FramesKept DEF OpenStream, RegisterStream
  <2>3. ScalarsOK' /\ ChunksOK' /\ OthersLaunched' /\ MapOK'
    BY <1>2, <2>1 DEF OpenStream, RegisterStream, ScalarsOK, ChunksOK, OthersLaunched, MapOK
  <2>4. ReaderIsAwaited'
    BY <1>2 DEF OpenStream, RegisterStream, ScalarsOK, ReaderIsAwaited
  <2>5. QED
    BY <2>2, <2>3, <2>4
<1>3. CASE SendOpen(s)
  <2>1. Launched' = Launched \cup {s} /\ OnlySends(Frame("open", s, 0))
    BY <1>3 DEF SendOpen, ScalarsOK, Launched
  <2>2. Frame("open", s, 0) \in DownFrame'
    BY <2>1 DEF Frame, DownFrame
  <2>3. FramesOK' /\ drops' \in 0 .. MaxDrops
    BY <2>1, <2>2, OnlySendsTyped
  <2>4. ScalarsOK' /\ ChunksOK' /\ OthersLaunched' /\ MapOK'
    BY <1>3, <2>1, <2>3 DEF SendOpen, OnlySends, ScalarsOK, ChunksOK, OthersLaunched, MapOK
  <2>5. ReaderIsAwaited'
    BY <1>3 DEF SendOpen, OnlySends, ScalarsOK, ReaderIsAwaited
  <2>6. QED
    BY <2>3, <2>4, <2>5
<1>4. CASE ReadResponse(s)
  <2>1. Launched' = Launched /\ DownFrame' = DownFrame /\ UpFrame' = UpFrame /\ RespFrame' = RespFrame
    BY <1>4, SameFrames DEF ReadResponse
  <2>2. FramesOK'
    BY <1>4, <2>1 DEF ReadResponse, HandOver, FramesOK
  <2>3. held.n \in 1 .. RespLen
    BY <1>4 DEF ReadResponse, HandOver, FramesOK, RespFrame
  <2>4. Append(got[s], held.n) \in Seq(1 .. RespLen)
    BY <2>3, AppendProperties DEF ChunksOK
  <2>5. ChunksOK'
    BY <1>4, <2>4 DEF ReadResponse, HandOver, ChunksOK
  <2>6. ScalarsOK'
    BY <1>4, <2>1 DEF ReadResponse, HandOver, ScalarsOK
  <2>7. OthersLaunched' /\ MapOK' /\ ReaderIsAwaited'
    BY <1>4, <2>1 DEF ReadResponse, HandOver, OthersLaunched, MapOK, ReaderIsAwaited
  <2>8. QED
    BY <2>2, <2>5, <2>6, <2>7
<1>5. CASE PipeCloses(s) \/ ResponseComplete(s) \/ BrowserLeaves(s)
  <2>1. Return(s) /\ left' \in SUBSET Stream
    BY <1>5 DEF PipeCloses, ResponseComplete, BrowserLeaves, Leaves, ScalarsOK
  <2>2. Launched' = Launched
    BY <2>1 DEF Return, ScalarsOK, Launched
  <2>3. FramesOK'
    BY <2>1, <2>2, FramesKept DEF Return
  <2>4. ScalarsOK' /\ ChunksOK' /\ OthersLaunched'
    BY <2>1, <2>2 DEF Return, CloseStream, ClosePipes, ScalarsOK, ChunksOK, OthersLaunched
  <2>5. MapOK'
    BY <2>1 DEF Return, CloseStream, ClosePipes, ScalarsOK, MapOK
  <2>6. ReaderIsAwaited'
    BY <2>1 DEF Return, CloseStream, ClosePipes, ScalarsOK, MapOK, ReaderIsAwaited
  <2>7. QED
    BY <2>3, <2>4, <2>5, <2>6
<1>6. QED
  BY <1>1, <1>2, <1>3, <1>4, <1>5 DEF Serve

\* ... the request's goroutines,
LEMMA PumpStep ==
  ASSUME Inv, NEW s \in Stream, Pump(s) \/ RequestBreaksOff(s)
  PROVE  Inv'
<1> USE HttpAssumption DEF Inv, lifeVars, serverVars, wireVars, clientVars, sessionVars, httpVars
<1>1. /\ Launched' = Launched /\ DownFrame' = DownFrame /\ UpFrame' = UpFrame /\ RespFrame' = RespFrame
  BY SameFrames DEF Pump, PumpData, RequestWritten, PumpEnds, RequestBreaksOff
<1>2. CASE PumpData(s)
  <2>1. s \in Launched /\ written[s] + 1 \in 1 .. ReqLen
    BY <1>2 DEF PumpData, OthersLaunched, ScalarsOK
  <2>2. Frame("data", s, written[s] + 1) \in DownFrame'
    BY <1>1, <2>1 DEF Frame, DownFrame
  <2>3. FramesOK' /\ drops' \in 0 .. MaxDrops
    BY <1>1, <1>2, <2>2, OnlySendsTyped DEF PumpData
  <2>4. ScalarsOK'
    BY <1>1, <1>2, <2>1, <2>3 DEF PumpData, OnlySends, ScalarsOK
  <2>5. ChunksOK' /\ OthersLaunched' /\ MapOK' /\ ReaderIsAwaited'
    BY <1>1, <1>2, <2>1, <2>3 DEF PumpData, OnlySends, ChunksOK, OthersLaunched, MapOK, ReaderIsAwaited
  <2>6. QED
    BY <2>3, <2>4, <2>5
<1>3. CASE RequestWritten(s) \/ RequestBreaksOff(s)
  <2>1. FramesOK'
    BY <1>1, <1>3, FramesKept DEF RequestWritten, RequestBreaksOff, CloseRequest
  <2>2. ScalarsOK'
    BY <1>1, <1>3 DEF RequestWritten, RequestBreaksOff, CloseRequest, Leaves, ScalarsOK
  <2>3. ChunksOK' /\ OthersLaunched' /\ MapOK' /\ ReaderIsAwaited'
    BY <1>1, <1>3 DEF RequestWritten, RequestBreaksOff, CloseRequest, Leaves, ChunksOK, OthersLaunched, MapOK,
                      ReaderIsAwaited
  <2>4. QED
    BY <2>1, <2>2, <2>3
<1>4. CASE PumpEnds(s)
  <2>1. s \in Launched
    BY <1>4 DEF PumpEnds, OthersLaunched
  <2>2. Frame("reqDone", s, 0) \in DownFrame'
    BY <1>1, <2>1 DEF Frame, DownFrame
  <2>3. FramesOK' /\ drops' \in 0 .. MaxDrops
    BY <1>1, <1>4, <2>2, OnlySendsTyped DEF PumpEnds
  <2>4. ScalarsOK'
    BY <1>1, <1>4, <2>3 DEF PumpEnds, OnlySends, ScalarsOK
  <2>5. ChunksOK' /\ OthersLaunched' /\ MapOK' /\ ReaderIsAwaited'
    BY <1>1, <1>4, <2>3 DEF PumpEnds, OnlySends, ChunksOK, OthersLaunched, MapOK, ReaderIsAwaited
  <2>6. QED
    BY <2>3, <2>4, <2>5
<1>5. QED
  BY <1>2, <1>3, <1>4 DEF Pump

-----------------------------------------------------------------------------
(***************************************************************************)
(* Steps at the client's end of a stream.                                  *)
(***************************************************************************)

\* One more frame of a launched stream on its way to the server.
LEMMA UpTyped ==
  ASSUME Inv, NEW f \in UpFrame, Len(up) < UpCap
  PROVE  Append(up, f) \in Seq(UpFrame) /\ Len(Append(up, f)) <= UpCap
<1>1. up \in Seq(UpFrame) /\ Len(up) \in Nat
  BY LenProperties DEF Inv, FramesOK
<1>2. QED
  BY <1>1, AppendProperties, SessionAssumption

\* The deferred end of driveStream keeps the invariant, whatever ended it.
LEMMA FinishTyped ==
  ASSUME Inv, NEW s \in Launched, ClientFinishes(s), drive' = [drive EXCEPT ![s] = "gone"],
         failed' \in SUBSET Stream, UNCHANGED <<serve, written, pumping, got, local, sent, left>>
  PROVE  Inv'
<1> USE DEF Inv, lifeVars, serverVars, wireVars, clientVars, sessionVars
<1>1. /\ Launched' = Launched /\ DownFrame' = DownFrame /\ UpFrame' = UpFrame /\ RespFrame' = RespFrame
  BY SameFrames
<1>2. s \in Stream
  BY DEF Launched
<1>3. Frame("close", s, 0) \in UpFrame
  BY DEF Frame, UpFrame
<1>4. up' \in Seq(UpFrame) /\ Len(up') <= UpCap
  BY <1>3, UpTyped DEF ClientFinishes, Farewell, FramesOK
<1>5. FramesOK'
  BY <1>1, <1>4 DEF ClientFinishes, FramesOK
<1>6. ScalarsOK' /\ ChunksOK' /\ OthersLaunched' /\ MapOK' /\ ReaderIsAwaited'
  BY <1>1, <1>2 DEF ClientFinishes, ScalarsOK, ChunksOK, OthersLaunched, MapOK, ReaderIsAwaited
<1>7. QED
  BY <1>5, <1>6

\* ... driveStream and the local service,
LEMMA DriveStep ==
  ASSUME Inv, NEW s \in Stream, StartDrive(s) \/ Drive(s) \/ LocalFails(s)
  PROVE  Inv'
<1> USE HttpAssumption DEF Inv, lifeVars, serverVars, wireVars, clientVars, sessionVars
<1>1. /\ Launched' = Launched /\ DownFrame' = DownFrame /\ UpFrame' = UpFrame /\ RespFrame' = RespFrame
  BY SameFrames DEF StartDrive, Drive, DialSucceeds, DialFails, CopyRequest, HalfClose, CopyResponse, FinishDrive,
                    LocalFails
<1>2. ASSUME down # <<>>
      PROVE  /\ Head(down) \in DownFrame /\ Tail(down) \in Seq(DownFrame)
             /\ Len(Tail(down)) <= SendCap + 1 /\ (wsUp => Len(Tail(down)) <= SendCap)
  BY <1>2, HeadTyped, SessionAssumption DEF FramesOK
<1>3. CASE StartDrive(s)
  <2>1. s \in Launched
    BY <1>2, <1>3 DEF StartDrive, ReceiveOpen, Receive, DownFrame, CloseFrame, Frame
  <2>2. FramesOK'
    BY <1>1, <1>2, <1>3 DEF StartDrive, ReceiveOpen, Receive, FramesOK
  <2>3. ScalarsOK'
    BY <1>1, <1>3, <2>1 DEF StartDrive, ReceiveOpen, ScalarsOK
  <2>4. ChunksOK' /\ OthersLaunched' /\ MapOK' /\ ReaderIsAwaited'
    BY <1>1, <1>3, <2>1 DEF StartDrive, ReceiveOpen, ChunksOK, OthersLaunched, MapOK, ReaderIsAwaited
  <2>5. QED
    BY <2>2, <2>3, <2>4
<1>4. CASE DialSucceeds(s) \/ HalfClose(s) \/ LocalFails(s)
  <2>1. FramesOK'
    BY <1>1, <1>4, FramesKept DEF DialSucceeds, HalfClose, LocalFails
  <2>2. /\ failed' \in SUBSET Stream
        /\ drive' \in [Stream -> {"none", "dial", "pump", "respond", "gone"}]
        /\ \A r \in Stream : drive'[r] # "none" => drive[r] # "none"
    BY <1>4 DEF DialSucceeds, HalfClose, LocalFails, Fails, ScalarsOK
  <2>3. UNCHANGED <<sessionVars, serve, written, pumping, got, local, sent, left>>
    BY <1>4 DEF DialSucceeds, HalfClose, LocalFails, Fails
  <2>4. ScalarsOK'
    BY <1>1, <2>2, <2>3 DEF ScalarsOK
  <2>5. ChunksOK' /\ OthersLaunched' /\ MapOK' /\ ReaderIsAwaited'
    BY <1>1, <2>2, <2>3 DEF ChunksOK, OthersLaunched, MapOK, ReaderIsAwaited
  <2>6. QED
    BY <2>1, <2>4, <2>5
<1>5. CASE DialFails(s) \/ FinishDrive(s)
  <2>1. s \in Launched /\ failed' \in SUBSET Stream
    BY <1>5 DEF DialFails, FinishDrive, Fails, ScalarsOK, OthersLaunched
  <2>2. QED
    BY <1>5, <2>1, FinishTyped DEF DialFails, FinishDrive
<1>6. CASE CopyRequest(s)
  <2>1. buf[s] \in Seq(1 .. ReqLen) /\ buf[s] # <<>> /\ local[s] \in Seq(1 .. ReqLen)
    BY <1>6 DEF CopyRequest, TakeChunk, ChunksOK
  <2>2. Tail(buf[s]) \in Seq(1 .. ReqLen) /\ Append(local[s], Head(buf[s])) \in Seq(1 .. ReqLen)
    BY <2>1, HeadTyped, AppendProperties
  <2>3. ChunksOK'
    BY <1>6, <2>2 DEF CopyRequest, TakeChunk, ChunksOK
  <2>4. FramesOK'
    BY <1>1, <1>6, FramesKept DEF CopyRequest, TakeChunk
  <2>5. ScalarsOK'
    BY <1>1, <1>6 DEF CopyRequest, TakeChunk, ScalarsOK
  <2>6. OthersLaunched' /\ MapOK' /\ ReaderIsAwaited'
    BY <1>1, <1>6 DEF CopyRequest, TakeChunk, OthersLaunched, MapOK, ReaderIsAwaited
  <2>7. QED
    BY <2>3, <2>4, <2>5, <2>6
<1>7. CASE CopyResponse(s)
  <2>1. s \in Launched /\ sent[s] + 1 \in 1 .. RespLen
    BY <1>7 DEF CopyResponse, ScalarsOK, OthersLaunched
  <2>2. Frame("data", s, sent[s] + 1) \in UpFrame
    BY <2>1 DEF Frame, UpFrame, RespFrame
  <2>3. up' \in Seq(UpFrame) /\ Len(up') <= UpCap
    BY <1>7, <2>2, UpTyped DEF CopyResponse, SendUp
  <2>4. FramesOK'
    BY <1>1, <1>7, <2>3 DEF CopyResponse, SendUp, FramesOK
  <2>5. ScalarsOK'
    BY <1>1, <1>7, <2>1 DEF CopyResponse, SendUp, ScalarsOK
  <2>6. ChunksOK' /\ OthersLaunched' /\ MapOK' /\ ReaderIsAwaited'
    BY <1>1, <1>7, <2>1 DEF CopyResponse, SendUp, ChunksOK, OthersLaunched, MapOK, ReaderIsAwaited
  <2>7. QED
    BY <2>4, <2>5, <2>6
<1>8. QED
  BY <1>3, <1>4, <1>5, <1>6, <1>7 DEF Drive

\* ... a client that goes,
LEMMA ExitStep ==
  ASSUME Inv, Exit
  PROVE  Inv'
<1> USE DEF Inv, lifeVars, serverVars
<1>1. /\ Launched' = Launched /\ DownFrame' = DownFrame /\ UpFrame' = UpFrame /\ RespFrame' = RespFrame
  BY SameFrames DEF Exit
<1>2. /\ Tail(down) \in Seq(DownFrame)
      /\ Len(Tail(down)) <= SendCap + 1 /\ (wsUp => Len(Tail(down)) <= SendCap)
  BY HeadTyped, SessionAssumption DEF Exit, ClientExits, Receive, FramesOK
<1>3. FramesOK'
  BY <1>1, <1>2 DEF Exit, ClientExits, Receive, FramesOK
<1>4. \A r \in Stream : drive'[r] \in {"none", "gone"} /\ (drive'[r] # "none" => drive[r] # "none")
  BY DEF Exit
<1>5. drive' \in [Stream -> {"none", "dial", "pump", "respond", "gone"}]
  BY DEF Exit
<1>6. ScalarsOK' /\ ChunksOK' /\ OthersLaunched' /\ MapOK' /\ ReaderIsAwaited'
  BY <1>1, <1>4, <1>5 DEF Exit, ClientExits, ScalarsOK, ChunksOK, OthersLaunched, MapOK, ReaderIsAwaited
<1>7. QED
  BY <1>3, <1>6

-----------------------------------------------------------------------------
\* ... and steps of others.
LEMMA StutterStep ==
  ASSUME Inv, UNCHANGED vars
  PROVE  Inv'
<1> USE DEF vars, sessionVars, httpVars, lifeVars, serverVars, wireVars, clientVars, Inv
<1>1. /\ Launched' = Launched
  BY SameFrames
<1>2. FramesOK'
  BY <1>1, FramesKept
<1>3. ScalarsOK' /\ ChunksOK' /\ OthersLaunched' /\ MapOK' /\ ReaderIsAwaited'
  BY <1>1 DEF ScalarsOK, ChunksOK, OthersLaunched, MapOK, ReaderIsAwaited
<1>4. QED
  BY <1>2, <1>3

\* The invariant of every behaviour.
LEMMA Invariant == Spec => []Inv
<1>1. Init => Inv
  BY InvInit
<1>2. Inv /\ [Next]_vars => Inv'
  <2> SUFFICES ASSUME Inv, [Next]_vars PROVE Inv'
    OBVIOUS
  <2>1. CASE SessionNext /\ UNCHANGED httpVars
    BY <2>1, SessionStep
  <2>2. CASE Exit
    BY <2>2, ExitStep
  <2>3. ASSUME NEW s \in Stream, Serve(s) \/ Pump(s) \/ StartDrive(s) \/ Drive(s) \/ Outside(s) PROVE Inv'
    BY <2>3, ServeStep, PumpStep, DriveStep DEF Outside
  <2>4. CASE UNCHANGED vars
    BY <2>4, StutterStep
  <2>5. QED
    BY <2>1, <2>2, <2>3, <2>4 DEF Next
<1>3. QED
  BY <1>1, <1>2, PTL DEF Spec

\* Whatever the streams, the network and the teardown do, every variable keeps
\* its type and the two FIFOs keep to their bounds.
THEOREM TypeCorrect == Spec => []TypeOK
<1>1. Inv => TypeOK
  BY InvTypes
<1>2. QED
  BY <1>1, Invariant, PTL

\* However many streams share the session, its reader is never stuck on one
\* that nobody reads: it waits for a ServeHTTP in ReadResponse, or the pipe is
\* closed and the write fails.
THEOREM ReaderNeverStuck == Spec => []ReaderIsAwaited
<1>1. Inv => ReaderIsAwaited
  BY DEF Inv
<1>2. QED
  BY <1>1, Invariant, PTL

-----------------------------------------------------------------------------
(***************************************************************************)
(* The order of what arrives.  Both directions of a stream rest on where   *)
(* its frames are in the FIFOs: its chunks in sequence behind those that   *)
(* arrived, the frame that ends it behind all of them, the one that opens  *)
(* it before.                                                              *)
(***************************************************************************)

\* driveStream has not yet taken the whole request.
Early(s) == drive[s] \in {"none", "dial", "pump"}

\* MsgOpen is there once, before there is a driveStream.
OpenOK(s) == Once(down, "open", s) /\ (Has(down, "open", s) => drive[s] = "none")

\* What the places of the goroutines say of the frames, and of the pipes.
EndsOK(s) ==
  /\ drive[s] \in {"dial", "pump"} => s \in known
  /\ Has(down, "reqDone", s) => s \notin reqOpen
  /\ Has(up, "close", s) => drive[s] = "gone" /\ (s \in failed \/ sent[s] = RespLen)
  /\ s \notin respOpen /\ serve[s] # "done" => torn \/ drive[s] = "gone"
  /\ Len(got[s]) <= sent[s]
  /\ Early(s) => sent[s] = 0

\* Chunks of the response that left the FIFO.
Holds(s) == held # Nil /\ held.id = s
Arrived(s) == IF Holds(s) THEN Len(got[s]) + 1 ELSE Len(got[s])

Resp(s) ==
  /\ \A i \in 1 .. Len(got[s]) : got[s][i] = i
  /\ serve[s] = "reading" /\ s \in respOpen =>
       /\ Holds(s) => held.n = Len(got[s]) + 1
       /\ Flow(up, wsUp, s, Arrived(s), sent[s], "close")
  /\ ~ torn /\ mapped /\ s \notin failed =>
       /\ s \notin respOpen /\ serve[s] # "done" => Len(got[s]) = RespLen
       /\ serve[s] = "done" /\ s \notin left => Len(got[s]) = RespLen

\* Nothing happened that may cost the request chunks.
Carried(s) == s \notin left /\ ~ torn /\ drops = 0

ReqEarly(s) ==
  /\ \A i \in 1 .. Len(local[s]) : local[s][i] = i
  /\ \A i \in 1 .. Len(buf[s]) : buf[s][i] = Len(local[s]) + i
  /\ s \notin bufClosed => Flow(down, wsUp, s, Len(local[s]) + Len(buf[s]), written[s], "reqDone")
  /\ s \in bufClosed => Len(local[s]) + Len(buf[s]) = ReqLen
  /\ s \notin reqOpen => written[s] = ReqLen
  /\ drive[s] = "none" => Preceded(down, s, "reqDone") /\ (s \in pumping /\ wsUp => Has(down, "open", s))

Req(s) ==
  Carried(s) =>
    /\ Early(s) => ReqEarly(s)
    /\ drive[s] = "respond" /\ s \notin failed => local[s] = Whole(ReqLen)

Order(s) == OpenOK(s) /\ EndsOK(s) /\ Resp(s) /\ Req(s)

OrderInv == Inv /\ (kicked => torn) /\ \A s \in Stream : Order(s)

\* The types the proofs about order need, of one stream.
LEMMA OrderTypes ==
  ASSUME Inv, NEW s \in Stream
  PROVE  /\ down \in Seq(DownFrame) /\ up \in Seq(UpFrame) /\ Len(down) \in Nat /\ Len(up) \in Nat
         /\ got[s] \in Seq(1 .. RespLen) /\ Len(got[s]) \in Nat
         /\ local[s] \in Seq(1 .. ReqLen) /\ Len(local[s]) \in Nat
         /\ buf[s] \in Seq(1 .. ReqLen) /\ Len(buf[s]) \in Nat
         /\ sent[s] \in 0 .. RespLen /\ written[s] \in 0 .. ReqLen /\ drops \in Nat
         /\ Arrived(s) \in Nat
         /\ wsUp \in BOOLEAN
<1>1. got[s] \in Seq(1 .. RespLen) /\ local[s] \in Seq(1 .. ReqLen) /\ buf[s] \in Seq(1 .. ReqLen)
  BY DEF Inv, ChunksOK
<1>2. Len(got[s]) \in Nat /\ Len(local[s]) \in Nat /\ Len(buf[s]) \in Nat
  BY <1>1, LenProperties
<1>3. down \in Seq(DownFrame) /\ up \in Seq(UpFrame) /\ Len(down) \in Nat /\ Len(up) \in Nat
  BY LenProperties DEF Inv, FramesOK
<1>4. sent[s] \in 0 .. RespLen /\ written[s] \in 0 .. ReqLen /\ drops \in Nat /\ wsUp \in BOOLEAN
  BY SessionAssumption DEF Inv, ScalarsOK
<1>5. QED
  BY <1>1, <1>2, <1>3, <1>4 DEF Arrived

\* The counts the flows of the two directions are between.
LEMMA OrderCounts ==
  ASSUME Inv, NEW s \in Stream
  PROVE  /\ Len(local[s]) \in Nat /\ Len(buf[s]) \in Nat /\ Len(local[s]) + Len(buf[s]) \in Nat
         /\ written[s] \in Nat /\ sent[s] \in Nat /\ Len(got[s]) \in Nat /\ Arrived(s) \in Nat
<1>1. Len(local[s]) \in Nat /\ Len(buf[s]) \in Nat /\ Len(got[s]) \in Nat /\ Arrived(s) \in Nat
  BY OrderTypes
<1>2. sent[s] \in 0 .. RespLen /\ written[s] \in 0 .. ReqLen
  BY OrderTypes
<1>3. sent[s] \in Nat /\ written[s] \in Nat
  BY <1>2, HttpAssumption
<1>4. Len(local[s]) + Len(buf[s]) \in Nat
  BY <1>1, SumTyped
<1>5. QED
  BY <1>1, <1>3, <1>4

\* The frames by their type.
LEMMA FrameTypes ==
  ASSUME Inv, NEW s \in Stream
  PROVE  /\ \A t, n, type, r :
              IsFrame(Frame(t, s, n), type, r) <=> t = type /\ s = r
         /\ \A t, n, r :
              IsChunk(Frame(t, s, n), r) <=> t = "data" /\ s = r
         /\ ~ IsFrame(CloseFrame, "open", s) /\ ~ IsFrame(CloseFrame, "reqDone", s)
         /\ ~ IsChunk(CloseFrame, s)
BY DEF Frame, IsFrame, IsChunk, CloseFrame

\* A stream that is not launched has no frame and no chunk anywhere.
LEMMA NotLaunched ==
  ASSUME Inv, NEW s \in Stream, s \notin Launched
  PROVE  /\ ~ Holds(s) /\ drive[s] = "none" /\ s \notin pumping /\ s \notin known
         /\ ~ Has(down, "open", s) /\ ~ Has(down, "reqDone", s) /\ ~ Has(up, "close", s)
         /\ \A i \in 1 .. Len(down) : ~ IsChunk(down[i], s)
         /\ \A i \in 1 .. Len(up) : ~ IsChunk(up[i], s)
<1>1. \A f \in DownFrame : ~ IsFrame(f, "open", s) /\ ~ IsFrame(f, "reqDone", s) /\ ~ IsChunk(f, s)
  BY DEF DownFrame, IsFrame, IsChunk, CloseFrame, Frame
<1>2. \A f \in UpFrame : ~ IsFrame(f, "close", s) /\ ~ IsChunk(f, s)
  BY DEF UpFrame, RespFrame, IsFrame, IsChunk
<1>3. /\ \A i \in 1 .. Len(down) : down[i] \in DownFrame
      /\ \A i \in 1 .. Len(up) : up[i] \in UpFrame
  BY OrderTypes, ElementOfSeq
<1>4. ~ Holds(s)
  BY DEF Inv, FramesOK, RespFrame, Holds
<1>5. drive[s] = "none" /\ s \notin pumping /\ s \notin known
  BY DEF Inv, OthersLaunched
<1>6. QED
  BY <1>1, <1>2, <1>3, <1>4, <1>5 DEF Has

\* A sequence of n chunks that are the first n, in order.
LEMMA WholeElements ==
  ASSUME NEW S, NEW q \in Seq(S), \A i \in 1 .. Len(q) : q[i] = i
  PROVE  q = Whole(Len(q))
<1>1. q \in [1 .. Len(q) -> S]
  BY LenProperties
<1>2. q = [i \in 1 .. Len(q) |-> q[i]]
  BY <1>1
<1>3. QED
  BY <1>2 DEF Whole

\* No frame is anywhere at first.
LEMMA OrderInit == ASSUME Init PROVE \A s \in Stream : Order(s)
<1> SUFFICES ASSUME NEW s \in Stream PROVE Order(s)
  OBVIOUS
<1> USE HttpAssumption DEF Init, SessionInit, SessionPublished
<1>1. /\ got[s] = <<>> /\ buf[s] = <<>> /\ local[s] = <<>> /\ drive[s] = "none" /\ serve[s] = "idle"
      /\ sent[s] = 0 /\ written[s] = 0 /\ Len(got[s]) = 0 /\ Len(local[s]) = 0 /\ Len(buf[s]) = 0
      /\ Len(down) = 0 /\ Len(up) = 0
  OBVIOUS
<1>2. OpenOK(s)
  BY <1>1 DEF OpenOK, Once, Has
<1>3. EndsOK(s)
  BY <1>1 DEF EndsOK, Has
<1>4. Resp(s)
  BY <1>1 DEF Resp
<1>5. Flow(down, wsUp, s, Len(local[s]) + Len(buf[s]), written[s], "reqDone")
  <2>1. \A i \in 1 .. Len(down) : ~ IsChunk(down[i], s)
    BY <1>1
  <2>2. Flow(down, wsUp, s, 0, 0, "reqDone")
    <3> HIDE DEF Init
    <3>1. QED
      BY <2>1, FlowStarts
  <2>3. Len(local[s]) + Len(buf[s]) = 0 /\ written[s] = 0
    BY <1>1
  <2>4. QED
    <3> HIDE DEF Init
    <3>1. QED
      BY <2>2, <2>3
<1>6. Preceded(down, s, "reqDone")
  BY <1>1 DEF Preceded
<1>7. s \in reqOpen /\ s \notin bufClosed /\ s \notin pumping
  OBVIOUS
<1>8. ReqEarly(s)
  <2> HIDE DEF Init
  <2>1. QED
    BY <1>1, <1>5, <1>6, <1>7 DEF ReqEarly
<1>9. Req(s)
  BY <1>1, <1>8 DEF Req
<1>10. QED
  BY <1>2, <1>3, <1>4, <1>9 DEF Order

-----------------------------------------------------------------------------
(***************************************************************************)
(* A step that does not concern one of the directions of s.                *)
(***************************************************************************)

\* A step that leaves the response of s alone, or only closes its pipe.
LEMMA RespKept ==
  ASSUME NEW s \in Stream, Resp(s),
         UNCHANGED <<up, wsUp>>, got'[s] = got[s], sent'[s] = sent[s], serve'[s] = serve[s],
         s \in respOpen' <=> s \in respOpen,
         s \in respOpen /\ serve[s] = "reading" => held' = held \/ ~ (Holds(s) \/ Holds(s)'),
         torn => torn', mapped' => mapped, failed \subseteq failed', left \subseteq left'
  PROVE  Resp(s)'
<1>1. \A i \in 1 .. Len(got'[s]) : got'[s][i] = i
  BY DEF Resp
<1>2. ASSUME serve[s] = "reading", s \in respOpen
      PROVE  /\ Holds(s)' => held'.n = Len(got'[s]) + 1
             /\ Arrived(s)' = Arrived(s)
  BY <1>2 DEF Resp, Holds, Arrived
<1>3. QED
  BY <1>1, <1>2 DEF Resp

\* A step that leaves the request of s alone, or only moves driveStream on.
LEMMA ReqKept ==
  ASSUME NEW s \in Stream, Req(s),
         UNCHANGED <<down, wsUp>>, buf'[s] = buf[s], local'[s] = local[s], written'[s] = written[s],
         drive'[s] = drive[s] \/ drive'[s] = "gone" \/ (drive[s] = "dial" /\ drive'[s] = "pump"),
         drive'[s] = "gone" \/ (s \in bufClosed' <=> s \in bufClosed),
         s \in pumping' => s \in pumping,
         s \in reqOpen => s \in reqOpen' \/ ~ Carried(s)' \/ ~ Early(s)',
         torn => torn', left \subseteq left', failed \subseteq failed', drops' = 0 => drops = 0
  PROVE  Req(s)'
<1>1. Carried(s)' => Carried(s)
  BY DEF Carried
<1>2. Early(s)' => Early(s) /\ (drive'[s] = "none" => drive[s] = "none")
  BY DEF Early
<1>3. ASSUME Carried(s)', Early(s)' PROVE ReqEarly(s)'
  <2>1. ReqEarly(s)
    BY <1>1, <1>2, <1>3 DEF Req
  <2>2. s \in bufClosed' <=> s \in bufClosed
    BY <1>3 DEF Early
  <2>3. s \in reqOpen => s \in reqOpen'
    BY <1>3
  <2>4. QED
    BY <1>2, <2>1, <2>2, <2>3 DEF ReqEarly
<1>4. ASSUME Carried(s)', drive'[s] = "respond", s \notin failed' PROVE local'[s] = Whole(ReqLen)
  BY <1>1, <1>4 DEF Req
<1>5. QED
  BY <1>3, <1>4 DEF Req

-----------------------------------------------------------------------------
(***************************************************************************)
(* Steps of the session.                                                   *)
(***************************************************************************)

\* Steps that take nothing from the FIFOs and close no pipe.
LEMMA QuietOrder ==
  ASSUME Inv, NEW s \in Stream, Order(s), WriteFails \/ ReaderExits \/ Killed \/ Kick \/ ReadLoopReturns,
         UNCHANGED httpVars
  PROVE  Order(s)'
<1> USE DEF WriteFails, ReaderExits, Killed, Kick, ReadLoopReturns, httpVars, lifeVars, serverVars,
            wireVars, clientVars
<1>1. OpenOK(s)'
  BY DEF Order, OpenOK
<1>2. EndsOK(s)'
  BY DEF Order, EndsOK, Early
<1>3. Resp(s)'
  <2>1. s \in respOpen => held' = held \/ ~ (Holds(s) \/ Holds(s)')
    BY DEF Holds
  <2>2. mapped \in BOOLEAN /\ (mapped' => mapped)
    BY DEF Inv, ScalarsOK
  <2>3. QED
    BY <2>1, <2>2, RespKept DEF Order
<1>4. Req(s)'
  BY ReqKept DEF Order
<1>5. QED
  BY <1>1, <1>2, <1>3, <1>4 DEF Order

\* The teardown ends what is promised of the stream.
LEMMA TeardownOrder ==
  ASSUME Inv, NEW s \in Stream, Order(s), CloseSession, UNCHANGED httpVars
  PROVE  Order(s)'
<1> USE DEF CloseSession, ClosePipes, httpVars, wireVars, clientVars
<1>1. OpenOK(s)'
  BY DEF Order, OpenOK
<1>2. EndsOK(s)'
  BY DEF Order, EndsOK, Early
<1>3. Resp(s)'
  BY DEF Order, Resp, Holds, Arrived
<1>4. Req(s)'
  BY DEF Req, Carried
<1>5. QED
  BY <1>1, <1>2, <1>3, <1>4 DEF Order

\* The reader takes a chunk: of s, it is the next one.
LEMMA TakesDataOrder ==
  ASSUME Inv, NEW s \in Stream, Order(s), ReaderTakesData, UNCHANGED httpVars
  PROVE  Order(s)'
<1> USE DEF ReaderTakesData, httpVars, lifeVars, clientVars
<1> DEFINE f == Head(up)
<1>1. /\ up \in Seq(UpFrame) /\ up # <<>> /\ f \in RespFrame /\ up' = Tail(up) /\ held = Nil
      /\ f.type = "data"
  <2>1. f \in UpFrame
    BY OrderTypes, HeadTyped
  <2>2. QED
    BY <2>1, OrderTypes DEF UpFrame
<1>2. f # Nil
  <2>1. f \in [type : {"data"}, id : Stream, n : Nat]
    BY <1>1 DEF RespFrame, Launched
  <2>2. QED
    BY <2>1, SessionAssumption
<1>3. OpenOK(s)'
  BY DEF Order, OpenOK
<1>4. EndsOK(s)'
  <2>1. Has(up', "close", s) => Has(up, "close", s)
    BY <1>1, HasTail
  <2>2. QED
    BY <2>1 DEF Order, EndsOK, Early
<1>5. ASSUME serve[s] = "reading", s \in respOpen
      PROVE  /\ Holds(s)' => held'.n = Len(got[s]) + 1
             /\ Flow(up', wsUp, s, Arrived(s)', sent[s], "close")
  <2>1. /\ Flow(up, wsUp, s, Len(got[s]), sent[s], "close")
        /\ Len(got[s]) \in Nat /\ sent[s] \in Nat
    BY <1>1, <1>5, OrderTypes DEF Order, Resp, Holds, Arrived
  <2>2. CASE f.id = s
    <3>1. s \in streams
      BY <1>5 DEF Inv, MapOK
    <3>2. held' = f /\ Holds(s)' /\ Arrived(s)' = Len(got[s]) + 1
      BY <1>2, <2>2, <3>1 DEF Holds, Arrived
    <3>3. IsChunk(f, s)
      BY <1>1, <2>2 DEF IsChunk
    <3>4. f.n = Len(got[s]) + 1 /\ Flow(up', wsUp, s, Len(got[s]) + 1, sent[s], "close")
      <4> HIDE DEF ReaderTakesData
      <4>1. QED
        BY <1>1, <2>1, <3>3, FlowTakeChunk
    <3>5. QED
      BY <3>2, <3>4
  <2>3. CASE f.id # s
    <3>1. ~ Holds(s)' /\ Arrived(s)' = Len(got[s])
      BY <2>3 DEF Holds, Arrived
    <3>2. ~ IsChunk(f, s)
      BY <2>3 DEF IsChunk
    <3>3. Flow(up', wsUp, s, Len(got[s]), sent[s], "close")
      <4> HIDE DEF ReaderTakesData
      <4>1. QED
        BY <1>1, <2>1, <3>2, FlowTakeOther
    <3>4. QED
      BY <3>1, <3>3
  <2>4. QED
    BY <2>2, <2>3
<1>6. Resp(s)'
  BY <1>5 DEF Order, Resp
<1>7. Req(s)'
  BY ReqKept DEF Order
<1>8. QED
  BY <1>3, <1>4, <1>6, <1>7 DEF Order

\* The reader takes a MsgClose: of s, all chunks have been taken.
LEMMA TakesCloseOrder ==
  ASSUME Inv, NEW s \in Stream, Order(s), ReaderTakesClose, UNCHANGED httpVars
  PROVE  Order(s)'
<1> USE DEF ReaderTakesClose, CloseStream, ClosePipes, httpVars, lifeVars, clientVars
<1> DEFINE f == Head(up)
<1>1. up \in Seq(UpFrame) /\ up # <<>> /\ up' = Tail(up) /\ held = Nil /\ f.type = "close"
  BY OrderTypes
<1>2. Has(up', "close", s) => Has(up, "close", s)
  BY <1>1, HasTail
<1>3. f.id = s => IsFrame(f, "close", s) /\ Has(up, "close", s)
  BY <1>1, HasTail DEF IsFrame
<1>4. f.id = s => drive[s] = "gone" /\ (s \in failed \/ sent[s] = RespLen)
  BY <1>3 DEF Order, EndsOK
<1>5. OpenOK(s)'
  BY DEF Order, OpenOK
<1>6. EndsOK(s)'
  BY <1>2, <1>4 DEF Order, EndsOK, Early
<1>7. ~ Holds(s) /\ ~ Holds(s)' /\ Arrived(s) = Len(got[s]) /\ Arrived(s)' = Len(got[s])
  BY DEF Holds, Arrived
<1>8. ASSUME serve[s] = "reading", s \in respOpen
      PROVE  Flow(up, wsUp, s, Len(got[s]), sent[s], "close") /\ Len(got[s]) \in Nat /\ sent[s] \in Nat
  BY <1>7, <1>8, OrderTypes DEF Order, Resp
<1>9. ASSUME serve[s] = "reading", s \in respOpen'
      PROVE  Flow(up', wsUp, s, Len(got[s]), sent[s], "close")
  <2>1. ~ IsChunk(f, s)
    BY <1>1 DEF IsChunk
  <2>2. s \in respOpen
    BY <1>9
  <2>3. QED
    BY <1>1, <1>8, <1>9, <2>1, <2>2, FlowTakeOther
<1>10. ASSUME serve[s] # "done", s \in respOpen, s \notin respOpen', s \notin failed
       PROVE  Len(got[s]) = RespLen
  <2>1. f.id = s /\ s \in streams
    BY <1>10
  <2>2. serve[s] = "reading"
    <3>1. f \in UpFrame
      BY <1>1, HeadTyped
    <3>2. s \in Launched
      BY <2>1, <3>1 DEF UpFrame, RespFrame
    <3>3. QED
      BY <1>10, <3>2 DEF Launched
  <2>3. Len(got[s]) = sent[s]
    BY <1>1, <1>3, <1>8, <1>10, <2>1, <2>2, FlowArrives
  <2>4. QED
    BY <1>4, <1>10, <2>1, <2>3
<1>11. Resp(s)'
  BY <1>7, <1>9, <1>10 DEF Order, Resp
<1>12. Req(s)'
  <2>1. s \in reqOpen => s \in reqOpen' \/ ~ Early(s)'
    BY <1>4 DEF Early
  <2>2. QED
    BY <2>1, ReqKept DEF Order
<1>13. QED
  BY <1>5, <1>6, <1>11, <1>12 DEF Order

\* A loss of the connection cuts both FIFOs off somewhere.
LEMMA GoDownOrder ==
  ASSUME Inv, NEW s \in Stream, Order(s), NEW last \in {<<>>, <<CloseFrame>>}, GoDown(last),
         UNCHANGED httpVars
  PROVE  Order(s)'
<1> USE DEF httpVars, serverVars, clientVars
<1>1. /\ wsUp' = FALSE
      /\ UNCHANGED <<mapped, torn, held, serve, got, sent, drive, known, reqOpen, respOpen, failed, left,
                     drops, written, pumping, buf, bufClosed, local>>
  BY DEF GoDown
<1>2. last \in Seq(DownFrame) /\ \A i \in 1 .. Len(last) : last[i] = CloseFrame
  <2>1. CASE last = <<>>
    BY <2>1, EmptySeq
  <2>2. CASE last = <<CloseFrame>>
    <3>1. CloseFrame \in DownFrame
      BY DEF DownFrame
    <3>2. QED
      BY <2>2, <3>1
  <2>3. QED
    BY <2>1, <2>2
<1>3. PICK n \in 0 .. Len(down) : down' = SubSeq(down, 1, n) \o last
  BY DEF GoDown
<1>4. PICK m \in 0 .. Len(up) : up' = SubSeq(up, 1, m)
  BY DEF GoDown
<1>5. /\ n \in Nat /\ n <= Len(down) /\ Len(down) \in Nat /\ Len(down') \in Nat
      /\ \A i \in 1 .. Len(down') : i <= n => down'[i] = down[i]
      /\ \A i \in 1 .. Len(down') : i > n => down'[i] = CloseFrame
  <2>1. down \in Seq(DownFrame)
    BY OrderTypes
  <2>2. /\ n \in Nat /\ n <= Len(down) /\ Len(down) \in Nat /\ Len(down') \in Nat
        /\ \A i \in 1 .. Len(down') : i <= n => down'[i] = down[i]
        /\ \A i \in 1 .. Len(down') : i > n => i - n \in 1 .. Len(last) /\ down'[i] = last[i - n]
    BY <1>2, <1>3, <2>1, PrefixThen
  <2>3. QED
    BY <1>2, <2>2
<1>6. /\ m \in Nat /\ m <= Len(up) /\ Len(up) \in Nat /\ Len(up') \in Nat
      /\ \A i \in 1 .. Len(up') : i <= m /\ up'[i] = up[i]
  <2>1. up \in Seq(UpFrame) /\ Len(up) \in Nat
    BY OrderTypes
  <2>2. Len(up') = m /\ \A i \in 1 .. m : up'[i] = up[i]
    BY <1>4, <2>1, PrefixOfSeq
  <2>3. QED
    BY <2>1, <2>2
<1>7. \A i \in 1 .. Len(down') : i > n =>
        ~ IsFrame(down'[i], "open", s) /\ ~ IsFrame(down'[i], "reqDone", s) /\ ~ IsChunk(down'[i], s)
  BY <1>5, FrameTypes
<1>8. OpenOK(s)'
  <2>1. Has(down', "open", s) => Has(down, "open", s)
    BY <1>5, <1>7, HasPrefix
  <2>2. Once(down, "open", s) => Once(down', "open", s)
    BY <1>5, <1>7, HasPrefix
  <2>3. QED
    BY <1>1, <2>1, <2>2 DEF Order, OpenOK
<1>9. EndsOK(s)'
  <2>1. Has(down', "reqDone", s) => Has(down, "reqDone", s)
    BY <1>5, <1>7, HasPrefix
  <2>2. Has(up', "close", s) => Has(up, "close", s)
    BY <1>6, HasPrefix
  <2>3. QED
    BY <1>1, <2>1, <2>2 DEF Order, EndsOK, Early
<1>10. Resp(s)'
  <2>1. ASSUME serve[s] = "reading", s \in respOpen
        PROVE  Flow(up', FALSE, s, Arrived(s), sent[s], "close")
    <3>1. Flow(up, wsUp, s, Arrived(s), sent[s], "close") /\ Arrived(s) \in Nat /\ sent[s] \in Nat
      BY <2>1, OrderTypes DEF Order, Resp
    <3>2. \A i \in 1 .. Len(up') : i > m => ~ IsChunk(up'[i], s) /\ ~ IsFrame(up'[i], "close", s)
      BY <1>6
    <3>3. \A i \in 1 .. Len(up') : i <= m => up'[i] = up[i]
      BY <1>6
    <3>4. QED
      <4> DEFINE a == Arrived(s)
                 b == sent[s]
      <4>1. a \in Nat /\ b \in Nat /\ Flow(up, wsUp, s, a, b, "close")
        BY <3>1
      <4> HIDE DEF a, b
      <4>2. Flow(up', FALSE, s, a, b, "close")
        BY <1>6, <3>2, <3>3, <4>1, FlowGoesDown
      <4>3. QED
        BY <4>2 DEF a, b
  <2>2. Arrived(s)' = Arrived(s) /\ Holds(s)' = Holds(s)
    BY <1>1 DEF Arrived, Holds
  <2>3. QED
    BY <1>1, <2>1, <2>2 DEF Order, Resp
<1>11. Req(s)'
  <2>1. ASSUME Carried(s), Early(s) PROVE ReqEarly(s)'
    <3>1. ReqEarly(s)
      BY <2>1 DEF Order, Req
    <3>2. ASSUME s \notin bufClosed
          PROVE  Flow(down', FALSE, s, Len(local[s]) + Len(buf[s]), written[s], "reqDone")
      <4>1. Len(local[s]) + Len(buf[s]) \in Nat /\ written[s] \in Nat
        BY OrderCounts
      <4> DEFINE a == Len(local[s]) + Len(buf[s])
                 b == written[s]
      <4>2. a \in Nat /\ b \in Nat /\ Flow(down, wsUp, s, a, b, "reqDone")
        BY <3>1, <3>2, <4>1 DEF ReqEarly
      <4> HIDE DEF a, b
      <4>3. Flow(down', FALSE, s, a, b, "reqDone")
        BY <1>5, <1>7, <4>2, FlowGoesDown
      <4>4. QED
        BY <4>3 DEF a, b
    <3>3. Preceded(down, s, "reqDone") => Preceded(down', s, "reqDone")
      BY <1>5, <1>7, PrecededPrefix
    <3>4. QED
      BY <1>1, <3>1, <3>2, <3>3 DEF ReqEarly
  <2>2. (Carried(s)' <=> Carried(s)) /\ (Early(s)' <=> Early(s))
    BY <1>1 DEF Carried, Early
  <2>3. QED
    BY <1>1, <2>1, <2>2 DEF Order, Req
<1>12. QED
  BY <1>8, <1>9, <1>10, <1>11 DEF Order

\* Request bytes arrive at the client.
LEMMA ReceiveDataOrder ==
  ASSUME Inv, NEW s \in Stream, Order(s), ReceiveData, UNCHANGED httpVars
  PROVE  Order(s)'
<1> DEFINE f == Head(down)
<1>1. /\ down \in Seq(DownFrame) /\ down # <<>> /\ down' = Tail(down) /\ f \in DownFrame /\ f.type = "data"
      /\ buf' = IF f.id \in known \ bufClosed THEN [buf EXCEPT ![f.id] = Append(buf[f.id], f.n)] ELSE buf
      /\ UNCHANGED <<lifeVars, serverVars, drops, up, looping, known, bufClosed, httpVars>>
  <2>1. f \in DownFrame
    BY OrderTypes, HeadTyped DEF ReceiveData, Receive
  <2>2. QED
    BY <2>1, OrderTypes DEF ReceiveData, Receive
<1>2. /\ UNCHANGED <<mapped, torn, wsUp, respOpen, reqOpen, held, drops, up, known, bufClosed, serve, written, pumping>>
      /\ UNCHANGED <<got, drive, local, sent, left, failed>>
  BY <1>1 DEF lifeVars, serverVars, httpVars
<1>3. ~ IsFrame(f, "open", s) /\ ~ IsFrame(f, "reqDone", s) /\ (IsChunk(f, s) <=> f.id = s)
  BY <1>1 DEF IsFrame, IsChunk
<1>4. Has(down', "open", s) <=> Has(down, "open", s)
  BY <1>1, <1>3, HasTail
<1>5. OpenOK(s)'
  <2>1. Once(down, "open", s) => Once(down', "open", s)
    BY <1>1, OnceTail
  <2>2. QED
    BY <1>2, <1>4, <2>1 DEF Order, OpenOK
<1>6. EndsOK(s)'
  <2>1. Has(down', "reqDone", s) => Has(down, "reqDone", s)
    BY <1>1, HasTail
  <2>2. QED
    BY <1>2, <2>1 DEF Order, EndsOK, Early
<1>7. Resp(s)'
  BY <1>2, RespKept DEF Order
<1>8. ASSUME Carried(s), Early(s) PROVE ReqEarly(s)'
  <2>1. ReqEarly(s)
    BY <1>8 DEF Order, Req
  <2> DEFINE a == Len(local[s]) + Len(buf[s])
             b == written[s]
  <2>2. a \in Nat /\ b \in Nat
    BY OrderCounts
  <2>3. drive[s] = "none" => ~ IsChunk(f, s) /\ Preceded(down', s, "reqDone")
    <3>1. ASSUME drive[s] = "none" PROVE Preceded(down, s, "reqDone")
      BY <2>1, <3>1 DEF ReqEarly
    <3>2. QED
      BY <1>1, <1>3, <3>1, PrecededTail
  <2>4. IsChunk(f, s) => s \in known
    <3>1. drive[s] # "none" => s \in known
      BY <1>8 DEF Early, Order, EndsOK
    <3>2. QED
      BY <2>3, <3>1
  <2>5. CASE IsChunk(f, s) /\ s \notin bufClosed
    <3>1. Flow(down, wsUp, s, a, b, "reqDone")
      BY <2>1, <2>5 DEF ReqEarly
    <3>2. f.n = a + 1 /\ Flow(down', wsUp, s, a + 1, b, "reqDone")
      <4> HIDE DEF a, b
      <4>1. QED
        BY <1>1, <2>2, <2>5, <3>1, FlowTakeChunk
    <3>3. buf'[s] = Append(buf[s], f.n)
      BY <1>1, <1>3, <2>4, <2>5 DEF Inv, ChunksOK
    <3>4. f.n \in 1 .. ReqLen
      BY <1>1, HttpAssumption DEF DownFrame, CloseFrame, Frame
    <3>5. /\ Len(buf'[s]) = Len(buf[s]) + 1 /\ buf'[s][Len(buf[s]) + 1] = f.n
          /\ \A i \in 1 .. Len(buf[s]) : buf'[s][i] = buf[s][i]
      <4>1. buf[s] \in Seq(1 .. ReqLen)
        BY OrderTypes
      <4>2. QED
        BY <3>3, <3>4, <4>1, AppendProperties
    <3>6. Len(local[s]) \in Nat /\ Len(buf[s]) \in Nat
      BY OrderCounts
    <3>7. Len(local[s]) + Len(buf'[s]) = a + 1 /\ Len(local[s]) + (Len(buf[s]) + 1) = a + 1
      <4> DEFINE m == Len(local[s])
                 n == Len(buf[s])
      <4>1. m \in Nat /\ n \in Nat /\ Len(buf'[s]) = n + 1
        BY <3>5, <3>6
      <4> HIDE DEF m, n
      <4>2. m + Len(buf'[s]) = (m + n) + 1 /\ m + (n + 1) = (m + n) + 1
        BY <4>1
      <4>3. QED
        BY <4>2 DEF m, n
    <3>8. ASSUME NEW i \in 1 .. Len(buf'[s]) PROVE buf'[s][i] = Len(local[s]) + i
      <4>1. CASE i = Len(buf[s]) + 1
        <5>1. buf'[s][i] = a + 1
          BY <3>2, <3>5, <4>1
        <5>2. QED
          BY <3>7, <4>1, <5>1
      <4>2. CASE i # Len(buf[s]) + 1
        <5>1. i \in 1 .. Len(buf[s])
          BY <3>5, <3>6, <4>2
        <5>2. QED
          BY <2>1, <3>5, <5>1 DEF ReqEarly
      <4>3. QED
        BY <4>1, <4>2
    <3>9. Flow(down', wsUp', s, Len(local'[s]) + Len(buf'[s]), written'[s], "reqDone")
      BY <1>2, <3>2, <3>7
    <3>10. s \notin bufClosed'
      BY <1>2, <2>5
    <3>11. QED
      BY <1>2, <1>4, <2>1, <2>3, <3>8, <3>9, <3>10 DEF ReqEarly
  <2>6. CASE ~ (IsChunk(f, s) /\ s \notin bufClosed)
    <3>1. buf'[s] = buf[s]
      BY <1>1, <1>3, <2>6 DEF Inv, ChunksOK
    <3>2. ASSUME s \notin bufClosed PROVE Flow(down', wsUp, s, a, b, "reqDone")
      <4>1. Flow(down, wsUp, s, a, b, "reqDone")
        BY <2>1, <3>2 DEF ReqEarly
      <4> HIDE DEF a, b
      <4>2. QED
        BY <1>1, <2>2, <2>6, <3>2, <4>1, FlowTakeOther
    <3>3. QED
      BY <1>2, <1>4, <2>1, <2>3, <3>1, <3>2 DEF ReqEarly
  <2>7. QED
    BY <2>5, <2>6
<1>9. Req(s)'
  <2>1. (Carried(s)' <=> Carried(s)) /\ (Early(s)' <=> Early(s))
    BY <1>2 DEF Carried, Early
  <2>2. QED
    BY <1>2, <1>8, <2>1 DEF Order, Req
<1>10. QED
  BY <1>5, <1>6, <1>7, <1>9 DEF Order

\* The end of the request arrives at the client.
LEMMA ReceiveReqDoneOrder ==
  ASSUME Inv, NEW s \in Stream, Order(s), ReceiveReqDone, UNCHANGED httpVars
  PROVE  Order(s)'
<1> DEFINE f == Head(down)
<1>1. /\ down \in Seq(DownFrame) /\ down # <<>> /\ down' = Tail(down) /\ f.type = "reqDone"
      /\ bufClosed' = bufClosed \cup ({f.id} \cap known)
  BY OrderTypes DEF ReceiveReqDone, Receive
<1>2. /\ UNCHANGED <<mapped, torn, wsUp, respOpen, reqOpen, held, drops, up, known, buf, serve, written, pumping>>
      /\ UNCHANGED <<got, drive, local, sent, left, failed>>
  BY DEF ReceiveReqDone, lifeVars, serverVars, httpVars
<1>3. ~ IsFrame(f, "open", s) /\ ~ IsChunk(f, s) /\ (IsFrame(f, "reqDone", s) <=> f.id = s)
  BY <1>1 DEF IsFrame, IsChunk
<1>4. Has(down', "open", s) <=> Has(down, "open", s)
  BY <1>1, <1>3, HasTail
<1>5. OpenOK(s)'
  <2>1. Once(down, "open", s) => Once(down', "open", s)
    BY <1>1, OnceTail
  <2>2. QED
    BY <1>2, <1>4, <2>1 DEF Order, OpenOK
<1>6. EndsOK(s)'
  <2>1. Has(down', "reqDone", s) => Has(down, "reqDone", s)
    BY <1>1, HasTail
  <2>2. QED
    BY <1>2, <2>1 DEF Order, EndsOK, Early
<1>7. Resp(s)'
  BY <1>2, RespKept DEF Order
<1>8. ASSUME Carried(s), Early(s) PROVE ReqEarly(s)'
  <2>1. ReqEarly(s)
    BY <1>8 DEF Order, Req
  <2> DEFINE a == Len(local[s]) + Len(buf[s])
             b == written[s]
  <2>2. a \in Nat /\ b \in Nat
    BY OrderCounts
  <2>3. drive[s] = "none" => f.id # s /\ Preceded(down', s, "reqDone")
    <3>1. ASSUME drive[s] = "none" PROVE Preceded(down, s, "reqDone")
      BY <2>1, <3>1 DEF ReqEarly
    <3>2. QED
      BY <1>1, <1>3, <3>1, PrecededTail
  <2>4. f.id = s => s \in known
    BY <1>8, <2>3 DEF Early, Order, EndsOK
  <2>5. ASSUME s \notin bufClosed
        PROVE  Flow(down', wsUp, s, a, b, "reqDone") /\ (f.id = s => a = b)
    <3>1. Flow(down, wsUp, s, a, b, "reqDone")
      BY <2>1, <2>5 DEF ReqEarly
    <3> HIDE DEF a, b
    <3>2. Flow(down', wsUp, s, a, b, "reqDone")
      BY <1>1, <1>3, <2>2, <3>1, FlowTakeOther
    <3>3. f.id = s => a = b
      BY <1>1, <1>3, <2>2, <3>1, FlowArrives
    <3>4. QED
      BY <3>2, <3>3
  <2>6. f.id = s => b = ReqLen
    <3>1. f.id = s => Has(down, "reqDone", s)
      BY <1>1, <1>3, HasTail
    <3>2. QED
      BY <2>1, <3>1 DEF ReqEarly, Order, EndsOK
  <2>7. s \in bufClosed' => a = ReqLen
    <3>1. CASE s \in bufClosed
      BY <2>1, <3>1 DEF ReqEarly
    <3>2. CASE s \notin bufClosed
      BY <1>1, <2>5, <2>6, <3>2
    <3>3. QED
      BY <3>1, <3>2
  <2>8. s \notin bufClosed' => s \notin bufClosed
    BY <1>1
  <2>9. QED
    BY <1>2, <1>4, <2>1, <2>3, <2>5, <2>7, <2>8 DEF ReqEarly
<1>9. Req(s)'
  <2>1. (Carried(s)' <=> Carried(s)) /\ (Early(s)' <=> Early(s))
    BY <1>2 DEF Carried, Early
  <2>2. QED
    BY <1>2, <1>8, <2>1 DEF Order, Req
<1>10. QED
  BY <1>5, <1>6, <1>7, <1>9 DEF Order

\* The session's goroutines keep the order of every stream.
LEMMA SessionOrder ==
  ASSUME Inv, NEW s \in Stream, Order(s), SessionNext, UNCHANGED httpVars
  PROVE  Order(s)'
<1>1. CASE ConnectionLost \/ WriterCloses
  BY <1>1, GoDownOrder DEF ConnectionLost, WriterCloses
<1>2. CASE ~ (ConnectionLost \/ WriterCloses)
  BY <1>2, QuietOrder, TeardownOrder, TakesDataOrder, TakesCloseOrder, ReceiveDataOrder, ReceiveReqDoneOrder
     DEF SessionNext
<1>3. QED
  BY <1>1, <1>2

-----------------------------------------------------------------------------
(***************************************************************************)
(* Steps at the server's end of a stream.                                  *)
(***************************************************************************)

\* A stream that is being opened, s or another, has no frames yet.
LEMMA BeforeOrder ==
  ASSUME Inv, NEW s \in Stream, Order(s), NEW r \in Stream, Lookup(r) \/ OpenStream(r)
  PROVE  Order(s)'
<1> USE DEF sessionVars, lifeVars, serverVars, wireVars, clientVars
<1>1. /\ UNCHANGED <<torn, wsUp, respOpen, reqOpen, held, drops, up, down, known, buf, bufClosed, mapped>>
      /\ UNCHANGED <<written, pumping, got, drive, local, sent, left, failed>>
  BY DEF Lookup, OpenStream, RegisterStream
<1>2. /\ serve'[s] = serve[s] \/ (serve[s] # "done" /\ serve'[s] = "done" /\ ~ mapped)
        \/ (serve[s] \in {"idle", "found"} /\ serve'[s] \in {"found", "opening"})
  BY DEF Lookup, OpenStream, Inv, ScalarsOK
<1>3. OpenOK(s)'
  BY <1>1 DEF Order, OpenOK
<1>4. EndsOK(s)'
  BY <1>1, <1>2 DEF Order, EndsOK, Early
<1>5. Resp(s)'
  <2>1. serve'[s] = "reading" => serve[s] = "reading"
    BY <1>2
  <2>2. Holds(s)' = Holds(s) /\ Arrived(s)' = Arrived(s)
    BY <1>1 DEF Holds, Arrived
  <2>3. QED
    BY <1>1, <1>2, <2>1, <2>2 DEF Order, Resp
<1>6. Req(s)'
  BY <1>1, ReqKept DEF Order
<1>7. QED
  BY <1>3, <1>4, <1>5, <1>6 DEF Order

\* MsgOpen goes out: until then there was nothing of the stream anywhere.
LEMMA SendOpenOrder ==
  ASSUME Inv, kicked => torn, NEW s \in Stream, Order(s), NEW r \in Stream, SendOpen(r)
  PROVE  Order(s)'
<1> USE DEF lifeVars, serverVars, clientVars
<1> DEFINE f == Frame("open", r, 0)
<1>1. /\ Send(f) /\ serve[r] = "opening" /\ pumping' = pumping \cup {r}
      /\ UNCHANGED <<torn, wsUp, respOpen, reqOpen, held, up, known, buf, bufClosed, mapped, kicked>>
      /\ UNCHANGED <<written, got, drive, local, sent, left, failed>>
  BY DEF SendOpen, OnlySends
<1>2. (s # r => serve'[s] = serve[s]) /\ (s = r => serve'[s] = "reading" /\ serve[s] = "opening")
  BY DEF SendOpen, Inv, ScalarsOK
<1>3. r \notin Launched
  BY <1>1 DEF Launched
<1>4. (s = r => IsFrame(f, "open", s)) /\ (s # r => ~ IsFrame(f, "open", s))
      /\ ~ IsFrame(f, "reqDone", s) /\ ~ IsChunk(f, s)
  BY DEF IsFrame, IsChunk, Frame
<1>5. down \in Seq(DownFrame \cup {f}) /\ f \in DownFrame \cup {f}
  <2>1. down \in Seq(DownFrame)
    BY OrderTypes
  <2>2. QED
    BY <2>1, SeqMonotonic
<1> HIDE DEF f
<1>6. OpenOK(s)'
  <2>1. s = r => ~ Has(down, "open", s) /\ drive[s] = "none"
    BY <1>3, NotLaunched
  <2>2. Has(down', "open", s) => Has(down, "open", s) \/ s = r
    BY <1>1, <1>4, <1>5, SendHas
  <2>3. Once(down, "open", s) => Once(down', "open", s)
    BY <1>1, <1>4, <1>5, <2>1, SendHas
  <2>4. QED
    BY <1>1, <2>1, <2>2, <2>3 DEF Order, OpenOK
<1>7. EndsOK(s)'
  <2>1. Has(down', "reqDone", s) => Has(down, "reqDone", s)
    BY <1>1, <1>4, <1>5, SendHas
  <2>2. serve'[s] # "done" => serve[s] # "done"
    BY <1>2
  <2>3. QED
    BY <1>1, <2>1, <2>2 DEF Order, EndsOK, Early
<1>8. Resp(s)'
  <2>1. CASE s # r
    BY <1>1, <1>2, <2>1, RespKept DEF Order
  <2>2. CASE s = r
    <3>1. /\ ~ Holds(s) /\ drive[s] = "none" /\ \A i \in 1 .. Len(up) : ~ IsChunk(up[i], s)
      BY <1>3, <2>2, NotLaunched
    <3>2. Len(got[s]) = 0 /\ sent[s] = 0
      <4>1. sent[s] = 0 /\ Len(got[s]) <= sent[s] /\ Len(got[s]) \in Nat
        BY <3>1, OrderCounts DEF Order, EndsOK, Early
      <4>2. QED
        BY <4>1
    <3>3. ~ Holds(s)' /\ Arrived(s)' = 0
      BY <1>1, <3>1, <3>2 DEF Holds, Arrived
    <3>4. Flow(up, wsUp, s, 0, 0, "close")
      BY <3>1, FlowStarts
    <3>5. Flow(up', wsUp', s, Arrived(s)', sent'[s], "close")
      BY <1>1, <3>2, <3>3, <3>4
    <3>6. QED
      BY <1>1, <1>2, <2>2, <3>3, <3>5 DEF Order, Resp
  <2>3. QED
    BY <2>1, <2>2
<1>9. ASSUME Carried(s)', Early(s)' PROVE ReqEarly(s)'
  <2>1. drops' = 0 /\ drops = 0 /\ ~ kicked
    <3>1. drops' = 0 /\ ~ torn /\ drops \in Nat
      BY <1>1, <1>9, OrderTypes DEF Carried
    <3>2. QED
      BY <1>1, <3>1, SendEffect DEF Send
  <2>2. ReqEarly(s)
    BY <1>1, <1>9, <2>1 DEF Carried, Early, Order, Req
  <2>3. ASSUME s \notin bufClosed
        PROVE  Flow(down', wsUp, s, Len(local[s]) + Len(buf[s]), written[s], "reqDone")
    <3> DEFINE a == Len(local[s]) + Len(buf[s])
               b == written[s]
    <3>1. Flow(down, wsUp, s, a, b, "reqDone")
      BY <2>2, <2>3 DEF ReqEarly
    <3>2. a \in Nat /\ b \in Nat /\ wsUp \in BOOLEAN
      BY OrderCounts, OrderTypes
    <3> HIDE DEF a, b
    <3>3. Flow(down', wsUp, s, a, b, "reqDone")
      BY <1>1, <1>4, <1>5, <3>1, <3>2, SendOther
    <3>4. QED
      BY <3>3 DEF a, b
  <2>4. ASSUME drive[s] = "none"
        PROVE  Preceded(down', s, "reqDone") /\ (s \in pumping' /\ wsUp => Has(down', "open", s))
    <3>1. Preceded(down, s, "reqDone") /\ (s \in pumping /\ wsUp => Has(down, "open", s))
      BY <2>2, <2>4 DEF ReqEarly
    <3>2. Preceded(down', s, "reqDone")
      BY <1>1, <1>4, <1>5, <3>1, SendPreceded
    <3>3. Has(down, "open", s) => Has(down', "open", s)
      BY <1>1, <1>5, SendHas
    <3>4. s = r /\ wsUp => Has(down', "open", s)
      <4>1. drops' = drops /\ drops \in Nat
        BY <2>1
      <4>2. QED
        BY <1>1, <1>4, <1>5, <2>1, <4>1, SendHas
    <3>5. QED
      BY <1>1, <3>1, <3>2, <3>3, <3>4
  <2>5. QED
    BY <1>1, <2>2, <2>3, <2>4 DEF ReqEarly
<1>10. Req(s)'
  <2>1. ASSUME Carried(s)' PROVE Carried(s)
    <3>1. drops' = 0 /\ drops \in Nat
      BY <2>1, OrderTypes DEF Carried
    <3>2. drops = 0
      BY <1>1, <3>1 DEF Send
    <3>3. QED
      BY <1>1, <2>1, <3>2 DEF Carried
  <2>2. QED
    BY <1>1, <1>9, <2>1 DEF Order, Req
<1>11. QED
  BY <1>6, <1>7, <1>8, <1>10 DEF Order

\* The next chunk of a request goes out.
LEMMA PumpDataOrder ==
  ASSUME Inv, kicked => torn, NEW s \in Stream, Order(s), NEW r \in Stream, PumpData(r)
  PROVE  Order(s)'
<1> USE DEF lifeVars, serverVars, clientVars
<1> DEFINE f == Frame("data", r, written[r] + 1)
<1>1. /\ Send(f) /\ r \in pumping /\ r \in reqOpen
      /\ UNCHANGED <<torn, wsUp, respOpen, reqOpen, held, up, known, buf, bufClosed, mapped, kicked>>
      /\ UNCHANGED <<serve, pumping, got, drive, local, sent, left, failed>>
  BY DEF PumpData, OnlySends
<1>2. (s # r => written'[s] = written[s]) /\ (s = r => written'[s] = written[s] + 1)
  BY DEF PumpData, Inv, ScalarsOK
<1>3. /\ ~ IsFrame(f, "open", s) /\ ~ IsFrame(f, "reqDone", s)
      /\ (s = r => IsChunk(f, s) /\ f.n = written[s] + 1) /\ (s # r => ~ IsChunk(f, s))
  BY DEF IsFrame, IsChunk, Frame
<1>4. down \in Seq(DownFrame \cup {f}) /\ f \in DownFrame \cup {f}
  <2>1. down \in Seq(DownFrame)
    BY OrderTypes
  <2>2. QED
    BY <2>1, SeqMonotonic
<1> HIDE DEF f
<1>5. OpenOK(s)'
  <2>1. /\ Has(down', "open", s) => Has(down, "open", s)
        /\ Once(down, "open", s) => Once(down', "open", s)
    BY <1>1, <1>3, <1>4, SendHas
  <2>2. QED
    BY <1>1, <2>1 DEF Order, OpenOK
<1>6. EndsOK(s)'
  <2>1. Has(down', "reqDone", s) => Has(down, "reqDone", s)
    BY <1>1, <1>3, <1>4, SendHas
  <2>2. QED
    BY <1>1, <2>1 DEF Order, EndsOK, Early
<1>7. Resp(s)'
  BY <1>1, RespKept DEF Order
<1>8. ASSUME Carried(s)' PROVE Carried(s) /\ drops' = 0 /\ ~ kicked
  <2>1. drops' = 0 /\ ~ torn /\ drops \in Nat
    BY <1>1, <1>8, OrderTypes DEF Carried
  <2>2. drops = 0
    BY <1>1, <2>1 DEF Send
  <2>3. QED
    BY <1>1, <1>8, <2>1, <2>2 DEF Carried
<1>9. ASSUME Carried(s)', Early(s)' PROVE ReqEarly(s)'
  <2>1. ReqEarly(s)
    BY <1>1, <1>8, <1>9 DEF Early, Order, Req
  <2>2. ASSUME s \notin bufClosed
        PROVE  Flow(down', wsUp, s, Len(local[s]) + Len(buf[s]), written'[s], "reqDone")
    <3> DEFINE a == Len(local[s]) + Len(buf[s])
               b == written[s]
    <3>1. Flow(down, wsUp, s, a, b, "reqDone")
      BY <2>1, <2>2 DEF ReqEarly
    <3>2. a \in Nat /\ b \in Nat /\ wsUp \in BOOLEAN /\ drops \in Nat
      BY OrderCounts, OrderTypes
    <3>3. CASE s # r
      <4> HIDE DEF a, b
      <4>1. Flow(down', wsUp, s, a, b, "reqDone")
        BY <1>1, <1>3, <1>4, <3>1, <3>2, <3>3, SendOther
      <4>2. QED
        BY <1>2, <3>3, <4>1 DEF a, b
    <3>4. CASE s = r
      <4>1. ~ Has(down, "reqDone", s) /\ f.n = b + 1 /\ IsChunk(f, s)
        BY <1>1, <1>3, <3>4 DEF Order, EndsOK
      <4> HIDE DEF a, b
      <4>2. Flow(down', wsUp, s, a, b + 1, "reqDone")
        BY <1>1, <1>4, <1>8, <1>9, <3>1, <3>2, <4>1, SendChunk
      <4>3. QED
        BY <1>2, <3>4, <4>2 DEF a, b
    <3>5. QED
      BY <3>3, <3>4
  <2>3. ASSUME drive[s] = "none"
        PROVE  Preceded(down', s, "reqDone") /\ (s \in pumping /\ wsUp => Has(down', "open", s))
    <3>1. Preceded(down, s, "reqDone") /\ (s \in pumping /\ wsUp => Has(down, "open", s))
      BY <2>1, <2>3 DEF ReqEarly
    <3>2. Preceded(down', s, "reqDone")
      BY <1>1, <1>3, <1>4, <3>1, SendPreceded
    <3>3. Has(down, "open", s) => Has(down', "open", s)
      BY <1>1, <1>4, SendHas
    <3>4. QED
      BY <3>1, <3>2, <3>3
  <2>4. s \notin reqOpen => written'[s] = ReqLen
    <3>1. s \notin reqOpen => written[s] = ReqLen /\ s # r
      BY <1>1, <2>1 DEF ReqEarly
    <3>2. QED
      BY <1>2, <3>1
  <2>5. QED
    BY <1>1, <2>1, <2>2, <2>3, <2>4 DEF ReqEarly
<1>10. Req(s)'
  BY <1>1, <1>8, <1>9 DEF Order, Req
<1>11. QED
  BY <1>5, <1>6, <1>7, <1>10 DEF Order

\* MsgReqDone goes out.
LEMMA PumpEndsOrder ==
  ASSUME Inv, kicked => torn, NEW s \in Stream, Order(s), NEW r \in Stream, PumpEnds(r)
  PROVE  Order(s)'
<1> USE DEF lifeVars, serverVars, clientVars
<1> DEFINE f == Frame("reqDone", r, 0)
<1>1. /\ Send(f) /\ r \in pumping /\ r \notin reqOpen /\ pumping' = pumping \ {r}
      /\ UNCHANGED <<torn, wsUp, respOpen, reqOpen, held, up, known, buf, bufClosed, mapped, kicked>>
      /\ UNCHANGED <<serve, written, got, drive, local, sent, left, failed>>
  BY DEF PumpEnds, OnlySends
<1>2. ~ IsFrame(f, "open", s) /\ ~ IsChunk(f, s) /\ (IsFrame(f, "reqDone", s) <=> s = r)
  BY DEF IsFrame, IsChunk, Frame
<1>3. down \in Seq(DownFrame \cup {f}) /\ f \in DownFrame \cup {f}
  <2>1. down \in Seq(DownFrame)
    BY OrderTypes
  <2>2. QED
    BY <2>1, SeqMonotonic
<1> HIDE DEF f
<1>4. OpenOK(s)'
  <2>1. /\ Has(down', "open", s) => Has(down, "open", s)
        /\ Once(down, "open", s) => Once(down', "open", s)
    BY <1>1, <1>2, <1>3, SendHas
  <2>2. QED
    BY <1>1, <2>1 DEF Order, OpenOK
<1>5. EndsOK(s)'
  <2>1. Has(down', "reqDone", s) => Has(down, "reqDone", s) \/ s = r
    BY <1>1, <1>2, <1>3, SendHas
  <2>2. QED
    BY <1>1, <2>1 DEF Order, EndsOK, Early
<1>6. Resp(s)'
  BY <1>1, RespKept DEF Order
<1>7. ASSUME Carried(s)' PROVE Carried(s)
  <2>1. drops' = 0 /\ drops \in Nat
    BY <1>7, OrderTypes DEF Carried
  <2>2. drops = 0
    BY <1>1, <2>1 DEF Send
  <2>3. QED
    BY <1>1, <1>7, <2>2 DEF Carried
<1>8. ASSUME Carried(s)', Early(s)' PROVE ReqEarly(s)'
  <2>1. ReqEarly(s)
    BY <1>1, <1>7, <1>8 DEF Early, Order, Req
  <2>2. ASSUME s \notin bufClosed
        PROVE  Flow(down', wsUp, s, Len(local[s]) + Len(buf[s]), written[s], "reqDone")
    <3> DEFINE a == Len(local[s]) + Len(buf[s])
               b == written[s]
    <3>1. Flow(down, wsUp, s, a, b, "reqDone")
      BY <2>1, <2>2 DEF ReqEarly
    <3>2. a \in Nat /\ b \in Nat /\ wsUp \in BOOLEAN
      BY OrderCounts, OrderTypes
    <3> HIDE DEF a, b
    <3>3. Flow(down', wsUp, s, a, b, "reqDone")
      BY <1>1, <1>2, <1>3, <3>1, <3>2, SendOther
    <3>4. QED
      BY <3>3 DEF a, b
  <2>3. ASSUME drive[s] = "none"
        PROVE  Preceded(down', s, "reqDone") /\ (s \in pumping' /\ wsUp => Has(down', "open", s))
    <3>1. Preceded(down, s, "reqDone") /\ (s \in pumping /\ wsUp => Has(down, "open", s))
      BY <2>1, <2>3 DEF ReqEarly
    <3>2. Preceded(down', s, "reqDone")
      BY <1>1, <1>2, <1>3, <3>1, SendPreceded
    <3>3. Has(down, "open", s) => Has(down', "open", s)
      BY <1>1, <1>3, SendHas
    <3>4. QED
      BY <1>1, <3>1, <3>2, <3>3
  <2>4. QED
    BY <1>1, <2>1, <2>2, <2>3 DEF ReqEarly
<1>9. Req(s)'
  BY <1>1, <1>7, <1>8 DEF Order, Req
<1>10. QED
  BY <1>4, <1>5, <1>6, <1>9 DEF Order

\* The request's writer closes its pipe: it wrote all, or the browser left.
LEMMA WriterOrder ==
  ASSUME Inv, NEW s \in Stream, Order(s), NEW r \in Stream, RequestWritten(r) \/ RequestBreaksOff(r)
  PROVE  Order(s)'
<1> USE DEF lifeVars, wireVars, clientVars, httpVars
<1>1. /\ UNCHANGED <<torn, wsUp, respOpen, held, drops, up, down, known, buf, bufClosed, mapped>>
      /\ UNCHANGED <<serve, written, pumping, got, drive, local, sent, failed>>
      /\ reqOpen' = reqOpen \ {r}
      /\ left \subseteq left'
      /\ written[r] = ReqLen \/ r \in left'
  BY DEF RequestWritten, RequestBreaksOff, CloseRequest, Leaves
<1>2. OpenOK(s)'
  BY <1>1 DEF Order, OpenOK
<1>3. EndsOK(s)'
  BY <1>1 DEF Order, EndsOK, Early
<1>4. Resp(s)'
  BY <1>1, RespKept DEF Order
<1>5. ASSUME Carried(s)', Early(s)' PROVE ReqEarly(s)'
  <2>1. ReqEarly(s)
    BY <1>1, <1>5 DEF Carried, Early, Order, Req
  <2>2. s \notin reqOpen' => written[s] = ReqLen
    BY <1>1, <1>5, <2>1 DEF Carried, ReqEarly
  <2>3. QED
    BY <1>1, <2>1, <2>2 DEF ReqEarly
<1>6. Req(s)'
  BY <1>1, <1>5 DEF Carried, Order, Req
<1>7. QED
  BY <1>2, <1>3, <1>4, <1>6 DEF Order

\* ServeHTTP reads the chunk the reader holds.
LEMMA ReadOrder ==
  ASSUME Inv, NEW s \in Stream, Order(s), NEW r \in Stream, ReadResponse(r)
  PROVE  Order(s)'
<1> USE DEF lifeVars, wireVars, clientVars
<1>1. /\ UNCHANGED <<torn, wsUp, respOpen, reqOpen, drops, up, down, known, buf, bufClosed, mapped>>
      /\ UNCHANGED <<serve, written, pumping, drive, local, sent, left, failed>>
      /\ held # Nil /\ held.id = r /\ r \in respOpen /\ serve[r] = "reading" /\ held' = Nil
  BY DEF ReadResponse, HandOver
<1>2. OpenOK(s)'
  BY <1>1 DEF Order, OpenOK
<1>3. Req(s)'
  BY <1>1, ReqKept DEF Order
<1>4. CASE s # r
  <2>1. got'[s] = got[s]
    BY <1>4 DEF ReadResponse, Inv, ChunksOK
  <2>2. EndsOK(s)'
    BY <1>1, <2>1 DEF Order, EndsOK, Early
  <2>3. ~ Holds(s) /\ ~ Holds(s)'
    BY <1>1, <1>4 DEF Holds
  <2>4. Resp(s)'
    BY <1>1, <2>1, <2>3, RespKept DEF Order
  <2>5. QED
    BY <1>2, <1>3, <2>2, <2>4 DEF Order
<1>5. CASE s = r
  <2>1. Holds(s) /\ ~ Holds(s)' /\ Arrived(s) = Len(got[s]) + 1
    BY <1>1, <1>5 DEF Holds, Arrived
  <2>2. held.n = Len(got[s]) + 1 /\ Flow(up, wsUp, s, Arrived(s), sent[s], "close")
    BY <1>1, <1>5, <2>1 DEF Order, Resp
  <2>3. got'[s] = Append(got[s], held.n)
    BY <1>5 DEF ReadResponse, Inv, ChunksOK
  <2>4. held.n \in 1 .. RespLen
    BY <1>1 DEF Inv, FramesOK, RespFrame
  <2>5. /\ Len(got'[s]) = Len(got[s]) + 1 /\ got'[s][Len(got[s]) + 1] = held.n
        /\ \A i \in 1 .. Len(got[s]) : got'[s][i] = got[s][i]
    <3>1. got[s] \in Seq(1 .. RespLen)
      BY OrderTypes
    <3>2. QED
      BY <2>3, <2>4, <3>1, AppendProperties
  <2>6. Len(got[s]) \in Nat
    BY OrderCounts
  <2>7. \A i \in 1 .. Len(got'[s]) : got'[s][i] = i
    <3> SUFFICES ASSUME NEW i \in 1 .. Len(got'[s]) PROVE got'[s][i] = i
      OBVIOUS
    <3>1. CASE i = Len(got[s]) + 1
      BY <2>2, <2>5, <3>1
    <3>2. CASE i # Len(got[s]) + 1
      <4>1. i \in 1 .. Len(got[s])
        BY <2>5, <2>6, <3>2
      <4>2. QED
        BY <2>5, <4>1 DEF Order, Resp
    <3>3. QED
      BY <3>1, <3>2
  <2>8. Arrived(s)' = Arrived(s) /\ Len(got'[s]) <= sent[s]
    BY <2>1, <2>2, <2>5 DEF Arrived, Flow
  <2>9. EndsOK(s)'
    BY <1>1, <2>8 DEF Order, EndsOK, Early
  <2>10. Resp(s)'
    BY <1>1, <1>5, <2>1, <2>2, <2>7, <2>8 DEF Resp
  <2>11. QED
    BY <1>2, <1>3, <2>9, <2>10 DEF Order
<1>6. QED
  BY <1>4, <1>5

\* ServeHTTP returns, with the whole response or for a reason.
LEMMA ReturnOrder ==
  ASSUME Inv, NEW s \in Stream, Order(s), NEW r \in Stream,
         PipeCloses(r) \/ ResponseComplete(r) \/ BrowserLeaves(r)
  PROVE  Order(s)'
<1> USE DEF lifeVars, wireVars, clientVars
<1>1. /\ UNCHANGED <<torn, wsUp, held, drops, up, down, known, buf, bufClosed, mapped>>
      /\ UNCHANGED <<written, pumping, got, drive, local, sent, failed>>
      /\ left \subseteq left' /\ serve[r] = "reading"
      /\ reqOpen' \in {reqOpen, reqOpen \ {r}} /\ respOpen' \in {respOpen, respOpen \ {r}}
  BY DEF PipeCloses, ResponseComplete, BrowserLeaves, Return, CloseStream, ClosePipes, Leaves
<1>2. (s = r => serve'[s] = "done") /\ (s # r => serve'[s] = serve[s])
  BY DEF PipeCloses, ResponseComplete, BrowserLeaves, Return, Inv, ScalarsOK
<1>3. r \notin respOpen \/ Len(got[r]) = RespLen \/ r \in left'
  BY DEF PipeCloses, ResponseComplete, BrowserLeaves, Leaves
<1>4. OpenOK(s)'
  BY <1>1 DEF Order, OpenOK
<1>5. EndsOK(s)'
  BY <1>1, <1>2 DEF Order, EndsOK, Early
<1>6. Resp(s)'
  <2>1. CASE s # r
    BY <1>1, <1>2, <2>1, RespKept DEF Order
  <2>2. CASE s = r
    BY <1>1, <1>2, <1>3, <2>2 DEF Order, Resp
  <2>3. QED
    BY <2>1, <2>2
<1>7. Req(s)'
  <2>1. CASE s # r
    BY <1>1, <2>1, ReqKept DEF Order
  <2>2. CASE s = r
    <3>1. ~ Carried(s)' \/ ~ Early(s)
      <4>1. CASE s \notin respOpen
        BY <1>1, <2>2, <4>1 DEF Carried, Early, Order, EndsOK
      <4>2. CASE Len(got[s]) = RespLen
        <5>1. sent[s] # 0
          BY <4>2, OrderCounts, HttpAssumption DEF Order, EndsOK
        <5>2. QED
          BY <5>1 DEF Early, Order, EndsOK
      <4>3. CASE s \in left'
        BY <4>3 DEF Carried
      <4>4. QED
        BY <1>3, <2>2, <4>1, <4>2, <4>3
    <3>2. ~ Carried(s)' \/ ~ Early(s)'
      BY <1>1, <3>1 DEF Early
    <3>3. QED
      BY <1>1, <3>2, ReqKept DEF Order
  <2>3. QED
    BY <2>1, <2>2
<1>8. QED
  BY <1>4, <1>5, <1>6, <1>7 DEF Order

-----------------------------------------------------------------------------
(***************************************************************************)
(* Steps at the client's end of a stream.                                  *)
(***************************************************************************)

\* A frame other than a chunk or the end of s is taken from down, and s stays in
\* front of the end of its request.
LEMMA TakenOrder ==
  ASSUME Inv, NEW s \in Stream, Order(s), down # <<>>, down' = Tail(down),
         ~ IsChunk(Head(down), s), ~ IsFrame(Head(down), "reqDone", s),
         UNCHANGED <<torn, wsUp, reqOpen, drops, buf, bufClosed, written, pumping, local, left, failed>>,
         IF IsFrame(Head(down), "open", s)
           THEN drive'[s] = "dial"
           ELSE drive'[s] \in {drive[s], "gone"}
  PROVE  Req(s)'
<1>1. down \in Seq(DownFrame)
  BY OrderTypes
<1>2. Carried(s)' <=> Carried(s)
  BY DEF Carried
<1>3. Early(s)' => Early(s)
  <2>1. IsFrame(Head(down), "open", s) => Has(down, "open", s)
    BY <1>1, HasTail
  <2>2. QED
    BY <2>1 DEF Early, Order, OpenOK
<1>4. ASSUME Carried(s)', Early(s)' PROVE ReqEarly(s)'
  <2>1. ReqEarly(s)
    BY <1>2, <1>3, <1>4 DEF Order, Req
  <2>2. ASSUME s \notin bufClosed
        PROVE  Flow(down', wsUp, s, Len(local[s]) + Len(buf[s]), written[s], "reqDone")
    <3> DEFINE a == Len(local[s]) + Len(buf[s])
               b == written[s]
    <3>1. Flow(down, wsUp, s, a, b, "reqDone")
      BY <2>1, <2>2 DEF ReqEarly
    <3>2. a \in Nat /\ b \in Nat
      BY OrderCounts
    <3> HIDE DEF a, b
    <3>3. Flow(down', wsUp, s, a, b, "reqDone")
      BY <1>1, <3>1, <3>2, FlowTakeOther
    <3>4. QED
      BY <3>3 DEF a, b
  <2>3. ASSUME drive'[s] = "none"
        PROVE  Preceded(down', s, "reqDone") /\ (s \in pumping /\ wsUp => Has(down', "open", s))
    <3>1. ~ IsFrame(Head(down), "open", s) /\ drive[s] = "none"
      BY <2>3
    <3>2. Preceded(down, s, "reqDone") /\ (s \in pumping /\ wsUp => Has(down, "open", s))
      BY <2>1, <3>1 DEF ReqEarly
    <3>3. Preceded(down', s, "reqDone")
      BY <1>1, <3>1, <3>2, PrecededTail
    <3>4. Has(down, "open", s) => Has(down', "open", s)
      BY <1>1, <3>1, HasTail
    <3>5. QED
      BY <3>2, <3>3, <3>4
  <2>4. QED
    BY <2>1, <2>2, <2>3 DEF ReqEarly
<1>5. ASSUME drive'[s] = "respond" PROVE drive[s] = "respond"
  BY <1>5
<1>6. QED
  BY <1>2, <1>4, <1>5 DEF Order, Req

\* MsgOpen arrives at the client.
LEMMA StartOrder ==
  ASSUME Inv, NEW s \in Stream, Order(s), NEW r \in Stream, StartDrive(r)
  PROVE  Order(s)'
<1> USE DEF lifeVars, serverVars
<1> DEFINE f == Head(down)
<1>1. /\ down \in Seq(DownFrame) /\ down # <<>> /\ down' = Tail(down) /\ f.type = "open" /\ f.id = r
      /\ UNCHANGED <<mapped, torn, wsUp, respOpen, reqOpen, held, drops, up, buf, bufClosed>>
      /\ UNCHANGED <<serve, written, pumping, got, local, sent, left, failed>>
      /\ known' = known \cup {r}
  BY OrderTypes DEF StartDrive, ReceiveOpen, Receive
<1>2. (s = r => drive'[s] = "dial") /\ (s # r => drive'[s] = drive[s])
  BY DEF StartDrive, Inv, ScalarsOK
<1>3. (IsFrame(f, "open", s) <=> s = r) /\ ~ IsFrame(f, "reqDone", s) /\ ~ IsChunk(f, s)
  BY <1>1 DEF IsFrame, IsChunk
<1>4. s = r => Has(down, "open", s) /\ drive[s] = "none"
  <2>1. s = r => Has(down, "open", s)
    BY <1>1, <1>3, HasTail
  <2>2. QED
    BY <2>1 DEF Order, OpenOK
<1>5. OpenOK(s)'
  <2>1. Once(down', "open", s) /\ (s = r => ~ Has(down', "open", s))
    BY <1>1, <1>3, OnceTail DEF Order, OpenOK
  <2>2. Has(down', "open", s) => Has(down, "open", s)
    BY <1>1, HasTail
  <2>3. QED
    BY <1>2, <2>1, <2>2 DEF Order, OpenOK
<1>6. EndsOK(s)'
  <2>1. Has(down', "reqDone", s) => Has(down, "reqDone", s)
    BY <1>1, HasTail
  <2>2. QED
    BY <1>1, <1>2, <1>4, <2>1 DEF Order, EndsOK, Early
<1>7. Resp(s)'
  BY <1>1, RespKept DEF Order
<1>8. Req(s)'
  BY <1>1, <1>2, <1>3, TakenOrder
<1>9. QED
  BY <1>5, <1>6, <1>7, <1>8 DEF Order

\* The client's process ends.
LEMMA ExitOrder ==
  ASSUME Inv, NEW s \in Stream, Order(s), Exit
  PROVE  Order(s)'
<1> USE DEF lifeVars, serverVars
<1> DEFINE f == Head(down)
<1>1. /\ down \in Seq(DownFrame) /\ down # <<>> /\ down' = Tail(down) /\ f.type = "4429"
      /\ UNCHANGED <<mapped, torn, wsUp, respOpen, reqOpen, held, drops, up, buf, bufClosed>>
      /\ UNCHANGED <<serve, written, pumping, got, local, sent, left, failed>>
      /\ drive'[s] = IF drive[s] = "none" THEN "none" ELSE "gone"
  BY OrderTypes DEF Exit, ClientExits, Receive
<1>2. ~ IsFrame(f, "open", s) /\ ~ IsFrame(f, "reqDone", s) /\ ~ IsChunk(f, s)
  BY <1>1 DEF IsFrame, IsChunk
<1>3. OpenOK(s)'
  <2>1. Once(down', "open", s)
    BY <1>1, OnceTail DEF Order, OpenOK
  <2>2. Has(down', "open", s) => Has(down, "open", s)
    BY <1>1, HasTail
  <2>3. QED
    BY <1>1, <2>1, <2>2 DEF Order, OpenOK
<1>4. EndsOK(s)'
  <2>1. Has(down', "reqDone", s) => Has(down, "reqDone", s)
    BY <1>1, HasTail
  <2>2. QED
    BY <1>1, <2>1 DEF Order, EndsOK, Early
<1>5. Resp(s)'
  BY <1>1, RespKept DEF Order
<1>6. Req(s)'
  BY <1>1, <1>2, TakenOrder
<1>7. QED
  BY <1>3, <1>4, <1>5, <1>6 DEF Order

\* The dial succeeds; the local service breaks off.
LEMMA DialOrder ==
  ASSUME Inv, NEW s \in Stream, Order(s), NEW r \in Stream, DialSucceeds(r) \/ LocalFails(r)
  PROVE  Order(s)'
<1> USE DEF sessionVars, lifeVars, serverVars, wireVars, clientVars
<1>1. /\ UNCHANGED <<mapped, torn, wsUp, respOpen, reqOpen, held, drops, down, up, known, buf, bufClosed>>
      /\ UNCHANGED <<serve, written, pumping, got, local, sent, left>>
      /\ failed \subseteq failed'
  BY DEF DialSucceeds, LocalFails, Fails
<1>2. drive'[s] = drive[s] \/ (drive[s] = "dial" /\ drive'[s] = "pump")
  BY DEF DialSucceeds, LocalFails, Fails, Inv, ScalarsOK
<1>3. OpenOK(s)'
  BY <1>1, <1>2 DEF Order, OpenOK
<1>4. EndsOK(s)'
  BY <1>1, <1>2 DEF Order, EndsOK, Early
<1>5. Resp(s)'
  BY <1>1, RespKept DEF Order
<1>6. Req(s)'
  BY <1>1, <1>2, ReqKept DEF Order
<1>7. QED
  BY <1>3, <1>4, <1>5, <1>6 DEF Order

\* The next chunk of the request goes from the buffer to the local service.
LEMMA CopyRequestOrder ==
  ASSUME Inv, NEW s \in Stream, Order(s), NEW r \in Stream, CopyRequest(r)
  PROVE  Order(s)'
<1> USE DEF lifeVars, serverVars, wireVars
<1>1. /\ UNCHANGED <<mapped, torn, wsUp, respOpen, reqOpen, held, drops, down, up, known, bufClosed>>
      /\ UNCHANGED <<serve, written, pumping, got, drive, sent, left, failed>>
      /\ drive[r] = "pump" /\ buf[r] # <<>>
  BY DEF CopyRequest, TakeChunk
<1>2. OpenOK(s)'
  BY <1>1 DEF Order, OpenOK
<1>3. EndsOK(s)'
  BY <1>1 DEF Order, EndsOK, Early
<1>4. Resp(s)'
  BY <1>1, RespKept DEF Order
<1>5. Req(s)'
  <2>1. CASE s # r
    <3>1. buf'[s] = buf[s] /\ local'[s] = local[s]
      BY <2>1 DEF CopyRequest, TakeChunk, Inv, ChunksOK
    <3>2. QED
      BY <1>1, <3>1, ReqKept DEF Order
  <2>2. CASE s = r
    <3>1. buf'[s] = Tail(buf[s]) /\ local'[s] = Append(local[s], Head(buf[s]))
      BY <2>2 DEF CopyRequest, TakeChunk, Inv, ChunksOK
    <3> DEFINE m == Len(local[s])
               n == Len(buf[s])
    <3>2. /\ m \in Nat /\ n \in Nat \ {0} /\ Len(buf'[s]) = n - 1 /\ Head(buf[s]) = buf[s][1]
          /\ Head(buf[s]) \in 1 .. ReqLen
          /\ \A i \in 1 .. n - 1 : buf'[s][i] = buf[s][i + 1]
      <4> HIDE DEF m, n
      <4>1. buf[s] \in Seq(1 .. ReqLen) /\ buf[s] # <<>> /\ m \in Nat
        BY <1>1, <2>2, OrderTypes DEF m
      <4>2. /\ Head(buf[s]) \in 1 .. ReqLen /\ Head(buf[s]) = buf[s][1] /\ n \in Nat \ {0}
            /\ Len(Tail(buf[s])) = n - 1
            /\ \A i \in 1 .. n - 1 : Tail(buf[s])[i] = buf[s][i + 1]
        BY <4>1, HeadTyped DEF n
      <4>3. QED
        BY <3>1, <4>1, <4>2
    <3>3. Len(local'[s]) = m + 1 /\ local'[s][m + 1] = buf[s][1] /\ \A i \in 1 .. m : local'[s][i] = local[s][i]
      <4>1. local[s] \in Seq(1 .. ReqLen)
        BY OrderTypes
      <4>2. QED
        BY <3>1, <3>2, <4>1, AppendProperties
    <3> HIDE DEF m, n
    <3>4. ASSUME Carried(s), ReqEarly(s) PROVE ReqEarly(s)'
      <4>1. /\ \A i \in 1 .. m : local[s][i] = i
            /\ \A i \in 1 .. n : buf[s][i] = m + i
        BY <3>4 DEF ReqEarly, m, n
      <4>2. ASSUME NEW i \in 1 .. Len(local'[s]) PROVE local'[s][i] = i
        <5>1. CASE i = m + 1
          <6>1. 1 \in 1 .. n
            BY <3>2
          <6>2. QED
            BY <3>2, <3>3, <4>1, <5>1, <6>1
        <5>2. CASE i # m + 1
          <6>1. i \in 1 .. m
            BY <3>2, <3>3, <5>2
          <6>2. QED
            BY <3>3, <4>1, <6>1
        <5>3. QED
          BY <5>1, <5>2
      <4>3. ASSUME NEW i \in 1 .. Len(buf'[s]) PROVE buf'[s][i] = Len(local'[s]) + i
        <5>1. i + 1 \in 1 .. n /\ i \in 1 .. n - 1
          BY <3>2
        <5>2. buf'[s][i] = m + (i + 1)
          BY <3>2, <4>1, <5>1
        <5>3. QED
          BY <3>2, <3>3, <5>2
      <4>4. Len(local'[s]) + Len(buf'[s]) = m + n
        BY <3>2, <3>3
      <4>5. Len(local'[s]) + Len(buf'[s]) = Len(local[s]) + Len(buf[s])
        BY <4>4 DEF m, n
      <4>6. QED
        BY <1>1, <3>4, <4>2, <4>3, <4>5 DEF ReqEarly
    <3>5. QED
      BY <1>1, <2>2, <3>4 DEF Carried, Early, Order, Req
  <2>3. QED
    BY <2>1, <2>2
<1>6. QED
  BY <1>2, <1>3, <1>4, <1>5 DEF Order

\* The end of the request reaches the local service.
LEMMA HalfCloseOrder ==
  ASSUME Inv, NEW s \in Stream, Order(s), NEW r \in Stream, HalfClose(r)
  PROVE  Order(s)'
<1> USE DEF sessionVars, lifeVars, serverVars, wireVars, clientVars
<1>1. /\ UNCHANGED <<mapped, torn, wsUp, respOpen, reqOpen, held, drops, down, up, known, buf, bufClosed>>
      /\ UNCHANGED <<serve, written, pumping, got, local, sent, left, failed>>
      /\ drive[r] = "pump" /\ (BufferEnds(r) \/ r \in failed)
  BY DEF HalfClose
<1>2. (s # r => drive'[s] = drive[s]) /\ (s = r => drive'[s] = "respond")
  BY DEF HalfClose, Inv, ScalarsOK
<1>3. OpenOK(s)'
  BY <1>1, <1>2 DEF Order, OpenOK
<1>4. EndsOK(s)'
  BY <1>1, <1>2 DEF Order, EndsOK, Early
<1>5. Resp(s)'
  BY <1>1, RespKept DEF Order
<1>6. Req(s)'
  <2>1. CASE s # r
    BY <1>1, <1>2, <2>1, ReqKept DEF Order
  <2>2. CASE s = r
    <3>1. ASSUME Carried(s), s \notin failed PROVE local[s] = Whole(ReqLen)
      <4>1. ReqEarly(s)
        BY <1>1, <2>2, <3>1 DEF Order, Req, Early
      <4>2. s \in bufClosed /\ buf[s] = <<>>
        BY <1>1, <2>2, <3>1 DEF BufferEnds
      <4>3. Len(buf[s]) = 0 /\ Len(local[s]) \in Nat
        BY <4>2, OrderCounts, EmptySeq
      <4>4. Len(local[s]) + Len(buf[s]) = ReqLen
        BY <4>1, <4>2 DEF ReqEarly
      <4>5. Len(local[s]) = ReqLen
        BY <4>3, <4>4
      <4>6. local[s] \in Seq(1 .. ReqLen) /\ \A i \in 1 .. Len(local[s]) : local[s][i] = i
        BY <4>1, OrderTypes DEF ReqEarly
      <4>7. QED
        BY <4>5, <4>6, WholeElements
    <3>2. QED
      BY <1>1, <1>2, <2>2, <3>1 DEF Carried, Early, Req
  <2>3. QED
    BY <2>1, <2>2
<1>7. QED
  BY <1>3, <1>4, <1>5, <1>6 DEF Order

\* A chunk of the response goes out.
LEMMA CopyResponseOrder ==
  ASSUME Inv, NEW s \in Stream, Order(s), NEW r \in Stream, CopyResponse(r)
  PROVE  Order(s)'
<1> USE DEF lifeVars, serverVars, clientVars
<1> DEFINE f == Frame("data", r, sent[r] + 1)
<1>1. /\ UNCHANGED <<mapped, torn, wsUp, respOpen, reqOpen, held, drops, down, known, buf, bufClosed>>
      /\ UNCHANGED <<serve, written, pumping, got, drive, local, left, failed>>
      /\ wsUp = TRUE /\ up' = Append(up, f) /\ drive[r] = "respond"
  <2>1. wsUp \in BOOLEAN /\ wsUp
    BY OrderTypes DEF CopyResponse, SendUp
  <2>2. QED
    BY <2>1 DEF CopyResponse, SendUp
<1>2. (s # r => sent'[s] = sent[s]) /\ (s = r => sent'[s] = sent[s] + 1)
  BY DEF CopyResponse, Inv, ScalarsOK
<1>3. ~ IsFrame(f, "close", s) /\ (IsChunk(f, s) <=> s = r) /\ (s = r => f.n = sent[s] + 1)
  BY DEF IsFrame, IsChunk, Frame
<1>4. up \in Seq(UpFrame \cup {f}) /\ f \in UpFrame \cup {f}
  <2>1. up \in Seq(UpFrame)
    BY OrderTypes
  <2>2. QED
    BY <2>1, SeqMonotonic
<1> HIDE DEF f
<1>5. s = r => ~ Has(up, "close", s)
  BY <1>1 DEF Order, EndsOK
<1>6. Has(up', "close", s) => Has(up, "close", s)
  BY <1>1, <1>3, <1>4, HasAppend
<1>7. OpenOK(s)'
  BY <1>1 DEF Order, OpenOK
<1>8. sent[s] \in Nat /\ sent'[s] \in Nat /\ sent[s] <= sent'[s] /\ Len(got[s]) \in Nat
  <2>1. sent[s] \in Nat /\ Len(got[s]) \in Nat
    BY OrderCounts
  <2>2. CASE s = r
    <3>1. sent'[s] = sent[s] + 1
      BY <1>2, <2>2
    <3>2. QED
      BY <2>1, <3>1
  <2>3. CASE s # r
    <3>1. sent'[s] = sent[s]
      BY <1>2, <2>3
    <3>2. QED
      BY <2>1, <3>1
  <2>4. QED
    BY <2>2, <2>3
<1>9. EndsOK(s)'
  <2>1. s = r => ~ Early(s)
    BY <1>1 DEF Early
  <2>2. Len(got[s]) <= sent'[s]
    BY <1>8 DEF Order, EndsOK
  <2>3. QED
    BY <1>1, <1>2, <1>5, <1>6, <2>1, <2>2 DEF Order, EndsOK, Early
<1>10. Req(s)'
  BY <1>1, ReqKept DEF Order
<1>11. ASSUME serve[s] = "reading", s \in respOpen
       PROVE  Flow(up', TRUE, s, Arrived(s), sent'[s], "close")
  <2> DEFINE a == Arrived(s)
             b == sent[s]
  <2>1. a \in Nat /\ b \in Nat
    BY OrderCounts
  <2>2. Flow(up, TRUE, s, a, b, "close")
    BY <1>1, <1>11 DEF Order, Resp
  <2>3. CASE s # r
    <3> HIDE DEF a, b
    <3>1. Flow(up', TRUE, s, a, b, "close")
      BY <1>1, <1>3, <1>4, <2>1, <2>2, <2>3, FlowPutOther
    <3>2. QED
      BY <1>2, <2>3, <3>1 DEF a, b
  <2>4. CASE s = r
    <3>1. f.n = b + 1
      BY <1>3, <2>4
    <3> HIDE DEF a, b
    <3>2. Flow(up', TRUE, s, a, b + 1, "close")
      BY <1>1, <1>3, <1>4, <1>5, <2>1, <2>2, <2>4, <3>1, FlowPutChunk
    <3>3. QED
      BY <1>2, <2>4, <3>2 DEF a, b
  <2>5. QED
    BY <2>3, <2>4
<1>12. Resp(s)'
  <2>1. Arrived(s)' = Arrived(s) /\ Holds(s)' = Holds(s)
    BY <1>1 DEF Arrived, Holds
  <2>2. QED
    BY <1>1, <1>11, <2>1 DEF Order, Resp
<1>13. QED
  BY <1>7, <1>9, <1>10, <1>12 DEF Order

\* driveStream ends, and MsgClose goes out behind all its chunks.
LEMMA FinishOrder ==
  ASSUME Inv, NEW s \in Stream, Order(s), NEW r \in Stream, DialFails(r) \/ FinishDrive(r)
  PROVE  Order(s)'
<1> USE DEF lifeVars, serverVars
<1> DEFINE f == Frame("close", r, 0)
<1>1. /\ UNCHANGED <<mapped, torn, wsUp, respOpen, reqOpen, held, drops, down, buf>>
      /\ UNCHANGED <<serve, written, pumping, got, local, sent, left>>
      /\ up' = IF wsUp THEN Append(up, f) ELSE up
      /\ known' = known \ {r} /\ bufClosed' = bufClosed \cup {r} /\ failed \subseteq failed'
      /\ wsUp => r \in failed' \/ sent[r] = RespLen
  BY DEF DialFails, FinishDrive, ClientFinishes, Farewell, Fails
<1>2. (s # r => drive'[s] = drive[s]) /\ (s = r => drive'[s] = "gone" /\ drive[s] \in {"dial", "respond"})
  BY DEF DialFails, FinishDrive, Inv, ScalarsOK
<1>3. (IsFrame(f, "close", s) <=> s = r) /\ ~ IsChunk(f, s)
  BY DEF IsFrame, IsChunk, Frame
<1>4. up \in Seq(UpFrame \cup {f}) /\ f \in UpFrame \cup {f}
  <2>1. up \in Seq(UpFrame)
    BY OrderTypes
  <2>2. QED
    BY <2>1, SeqMonotonic
<1> HIDE DEF f
<1>5. OpenOK(s)'
  BY <1>1, <1>2 DEF Order, OpenOK
<1>6. EndsOK(s)'
  <2>1. Has(up', "close", s) => Has(up, "close", s) \/ (wsUp /\ s = r)
    BY <1>1, <1>3, <1>4, HasAppend
  <2>2. QED
    BY <1>1, <1>2, <2>1 DEF Order, EndsOK, Early
<1>7. ASSUME serve[s] = "reading", s \in respOpen
      PROVE  Flow(up', wsUp, s, Arrived(s), sent[s], "close")
  <2> DEFINE a == Arrived(s)
             b == sent[s]
  <2>1. a \in Nat /\ b \in Nat /\ wsUp \in BOOLEAN
    BY OrderCounts, OrderTypes
  <2>2. Flow(up, wsUp, s, a, b, "close")
    BY <1>7 DEF Order, Resp
  <2> HIDE DEF a, b
  <2>3. CASE wsUp
    <3>1. wsUp = TRUE
      BY <2>1, <2>3
    <3>2. Flow(Append(up, f), TRUE, s, a, b, "close")
      BY <1>3, <1>4, <2>1, <2>2, <3>1, FlowPutOther
    <3>3. QED
      BY <1>1, <3>1, <3>2 DEF a, b
  <2>4. CASE ~ wsUp
    BY <1>1, <2>2, <2>4 DEF a, b
  <2>5. QED
    BY <2>3, <2>4
<1>8. Resp(s)'
  <2>1. Arrived(s)' = Arrived(s) /\ Holds(s)' = Holds(s)
    BY <1>1 DEF Arrived, Holds
  <2>2. QED
    BY <1>1, <1>7, <2>1 DEF Order, Resp
<1>9. Req(s)'
  BY <1>1, <1>2, ReqKept DEF Order
<1>10. QED
  BY <1>5, <1>6, <1>8, <1>9 DEF Order

-----------------------------------------------------------------------------
\* Every step keeps the order of every stream.
LEMMA OrderKept ==
  ASSUME OrderInv, [Next]_vars, NEW s \in Stream
  PROVE  Order(s)'
<1> USE DEF OrderInv
<1>1. CASE SessionNext /\ UNCHANGED httpVars
  BY <1>1, SessionOrder
<1>2. CASE Exit
  BY <1>2, ExitOrder
<1>3. ASSUME NEW r \in Stream, Serve(r) PROVE Order(s)'
  BY <1>3, BeforeOrder, SendOpenOrder, ReadOrder, ReturnOrder DEF Serve
<1>4. ASSUME NEW r \in Stream, Pump(r) PROVE Order(s)'
  BY <1>4, PumpDataOrder, PumpEndsOrder, WriterOrder DEF Pump
<1>5. ASSUME NEW r \in Stream, StartDrive(r) \/ Drive(r) PROVE Order(s)'
  BY <1>5, StartOrder, DialOrder, FinishOrder, CopyRequestOrder, HalfCloseOrder, CopyResponseOrder DEF Drive
<1>6. ASSUME NEW r \in Stream, Outside(r) PROVE Order(s)'
  BY <1>6, BeforeOrder, WriterOrder, ReturnOrder, DialOrder DEF Outside
<1>7. CASE UNCHANGED vars
  <2> USE <1>7 DEF vars, sessionVars, lifeVars, serverVars, wireVars, clientVars, httpVars
  <2>1. OpenOK(s)' /\ EndsOK(s)'
    BY DEF Order, OpenOK, EndsOK, Early
  <2>2. Resp(s)'
    BY RespKept DEF Order
  <2>3. Req(s)'
    BY ReqKept DEF Order
  <2>4. QED
    BY <2>1, <2>2, <2>3 DEF Order
<1>8. QED
  BY <1>1, <1>2, <1>3, <1>4, <1>5, <1>6, <1>7 DEF Next

\* Only a session that was torn down is kicked.
LEMMA KickedTorn ==
  ASSUME Inv, kicked => torn, [Next]_vars
  PROVE  kicked' => torn'
<1> USE DEF sessionVars, lifeVars
<1>1. CASE SessionNext
  BY <1>1 DEF SessionNext, ReaderTakesData, WriteFails, ReaderTakesClose, ReaderExits, Killed, CloseSession, Kick,
              ConnectionLost, WriterCloses, GoDown, ReceiveData, ReceiveReqDone, ReadLoopReturns
<1>2. CASE Exit
  BY <1>2 DEF Exit, ClientExits
<1>3. ASSUME NEW r \in Stream, Serve(r) \/ Pump(r) \/ StartDrive(r) \/ Drive(r) \/ Outside(r)
      PROVE  UNCHANGED <<torn, kicked>>
  BY <1>3 DEF Serve, OpenStream, RegisterStream, SendOpen, OnlySends, ReadResponse, HandOver, PipeCloses,
              ResponseComplete, Return, Pump, PumpData, RequestWritten, CloseRequest, PumpEnds, StartDrive,
              ReceiveOpen, Drive, DialSucceeds, DialFails, ClientFinishes, CopyRequest, TakeChunk, HalfClose,
              CopyResponse, SendUp, FinishDrive, Outside, Lookup, RequestBreaksOff, BrowserLeaves, LocalFails
<1>4. CASE UNCHANGED vars
  BY <1>4 DEF vars
<1>5. QED
  BY <1>1, <1>2, <1>3, <1>4 DEF Next

\* The order of every stream, in every behaviour.
LEMMA OrderInvariant == Spec => []OrderInv
<1>1. Init => (kicked => torn) /\ \A s \in Stream : Order(s)
  BY OrderInit DEF Init, SessionInit, SessionPublished
<1>2. Inv /\ (kicked => torn) /\ (\A s \in Stream : Order(s)) /\ [Next]_vars
        => (kicked => torn)' /\ (\A s \in Stream : Order(s))'
  BY OrderKept, KickedTorn DEF OrderInv
<1>3. QED
  BY <1>1, <1>2, Invariant, PTL DEF Spec, OrderInv

\* Whatever is lost, refused or torn down, in whatever order, the browser gets a
\* prefix of the response, and ServeHTTP returns without all of it only when the
\* session went away, the local service failed or the browser left.
THEOREM ResponsesWhole == Spec => []ResponseWhole
<1>1. OrderInv => ResponseWhole
  <2> SUFFICES ASSUME OrderInv, NEW s \in Stream
               PROVE  /\ got[s] = Whole(Len(got[s]))
                      /\ serve[s] = "done" /\ ~torn /\ mapped /\ s \notin failed \cup left
                           => got[s] = Whole(RespLen)
    BY DEF ResponseWhole
  <2>1. Order(s) /\ got[s] \in Seq(1 .. RespLen)
    BY OrderTypes DEF OrderInv
  <2>2. got[s] = Whole(Len(got[s]))
    BY <2>1, WholeElements DEF Order, Resp
  <2>3. QED
    BY <2>1, <2>2 DEF Order, Resp
<1>2. QED
  BY <1>1, OrderInvariant, PTL

\* The local service sees the end of a request only behind all of its chunks, in
\* order: MsgReqDone overtakes none of them in the pipe, in the queue, on the
\* wire or in the buffer.
THEOREM RequestsWhole == Spec => []RequestWhole
<1>1. OrderInv => RequestWhole
  BY DEF OrderInv, Order, Req, Carried, RequestWhole
<1>2. QED
  BY <1>1, OrderInvariant, PTL

=============================================================================
