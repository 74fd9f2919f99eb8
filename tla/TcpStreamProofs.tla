--------------------------- MODULE TcpStreamProofs ---------------------------
(***************************************************************************)
(* Theorems about TcpStream, for any set of streams and any bounds.        *)
(*                                                                         *)
(* The argument is that of HttpStreamProofs: where the frames of a stream  *)
(* are in the two FIFOs.  What differs is when a stream ends.  Either end  *)
(* may close it while the other still copies, and so the invariant speaks  *)
(* of a stream's chunks only as long as somebody is there to take them.    *)
(***************************************************************************)
EXTENDS TcpStream, SessionProofs, TLAPS

-----------------------------------------------------------------------------
(***************************************************************************)
(* The invariant.                                                          *)
(***************************************************************************)

\* The streams whose MsgOpenTCP was handed to Send, and those that were refused.
Launched == {s \in Stream : serve[s] \in {"head", "failed", "bridge", "waiting", "done"}}

\* The frames the server sends: those of a stream, and the two of the session.
DownFrame ==
  [type : {"open", "close"}, id : Launched, n : {0}]
    \cup [type : {"data"}, id : Launched, n : 1 .. ReqLen]
    \cup {CloseFrame, RegisteredFrame}

\* The frames driveTCPStream sends.
RespFrame == [type : {"data"}, id : Launched, n : 1 .. RespLen]
UpFrame == [type : {"close"}, id : Launched, n : {0}] \cup RespFrame

\* The variables of the session that are no sequences.
LifeOK ==
  /\ mapped \in BOOLEAN /\ torn \in BOOLEAN /\ doomed \in BOOLEAN /\ kicked \in BOOLEAN
  /\ wsUp \in BOOLEAN
  /\ reqOpen \in SUBSET Stream
  /\ respOpen \in SUBSET Stream
  /\ reading \in BOOLEAN
  /\ drops \in 0 .. MaxDrops
  /\ looping \in BOOLEAN
  /\ bufClosed \in SUBSET Stream

\* Those of the two ends of a stream.
PlacesOK ==
  /\ handshake \in {"published", "announced", "joined", "refused"}
  /\ kind \in [Stream -> {"tcp", "upgrade"}]
  /\ serve \in [Stream -> {"idle", "found", "opening", "head", "failed", "bridge", "waiting", "done"}]
  /\ taking \in SUBSET Stream
  /\ taken \in [Stream -> 0 .. ReqLen]
  /\ visitor \in [Stream -> End]
  /\ drive \in [Stream -> {"none", "dial", "bridge", "waiting", "gone"}]
  /\ copying \in SUBSET Stream
  /\ shut \in SUBSET Stream
  /\ service \in [Stream -> End]
  /\ sent \in [Stream -> 0 .. RespLen]

\* Every frame on its way belongs to a stream that is launched, and the FIFOs
\* keep to their bounds; one more for the close frame of a kick.
FramesOK ==
  /\ down \in Seq(DownFrame)
  /\ Len(down) <= SendCap + 1
  /\ wsUp => Len(down) <= SendCap
  /\ up \in Seq(UpFrame)
  /\ Len(up) <= UpCap
  /\ held \in RespFrame \cup {Nil}

\* What arrived at the two ends is made of chunks.
ChunksOK ==
  /\ buf \in [Stream -> Seq(1 .. ReqLen)]
  /\ local \in [Stream -> Seq(1 .. ReqLen)]
  /\ got \in [Stream -> Seq(1 .. RespLen)]

\* Only launched streams have a pump, and something at the client.
OthersLaunched ==
  /\ pumping \subseteq Launched
  /\ known \subseteq Launched
  /\ \A s \in Stream : drive[s] # "none" => s \in Launched

\* A stream is in the session's map from openTCPStream until its pipes are
\* closed, and only while proxyTCPConn or handleUpgrade has not returned.
MapOK ==
  /\ streams \subseteq {s \in Stream : serve[s] \in {"opening", "head", "bridge", "waiting"}}
  /\ \A s \in Stream :
       serve[s] \in {"opening", "head", "bridge", "waiting"} /\ s \in respOpen => s \in streams

\* A response pipe that nobody reads any more, and is still open, is that of a
\* visitor who left.
AwaitOK ==
  /\ ReaderIsAwaited
  /\ \A s \in Stream : serve[s] = "waiting" /\ s \in respOpen => visitor[s] = "closed"

Inv == LifeOK /\ PlacesOK /\ FramesOK /\ ChunksOK /\ OthersLaunched /\ MapOK /\ AwaitOK

\* Initially there are no frames and no streams.
LEMMA InvInit == ASSUME Init PROVE Inv
<1> USE SessionAssumption, TcpAssumption DEF Init, SessionPublished
<1>1. LifeOK
  <2>1. drops \in 0 .. MaxDrops
    OBVIOUS
  <2>2. /\ mapped \in BOOLEAN /\ torn \in BOOLEAN /\ doomed \in BOOLEAN /\ kicked \in BOOLEAN
        /\ wsUp \in BOOLEAN /\ reading \in BOOLEAN /\ looping \in BOOLEAN
    OBVIOUS
  <2>3. reqOpen \in SUBSET Stream /\ respOpen \in SUBSET Stream /\ bufClosed \in SUBSET Stream
    OBVIOUS
  <2>4. QED
    BY <2>1, <2>2, <2>3 DEF LifeOK
<1>2. PlacesOK
  <2>1. serve \in [Stream -> {"idle", "found", "opening", "head", "failed", "bridge", "waiting", "done"}]
    OBVIOUS
  <2>2. drive \in [Stream -> {"none", "dial", "bridge", "waiting", "gone"}]
    OBVIOUS
  <2>3. taken \in [Stream -> 0 .. ReqLen] /\ sent \in [Stream -> 0 .. RespLen]
    OBVIOUS
  <2>4. visitor \in [Stream -> End] /\ service \in [Stream -> End]
    BY DEF End
  <2>5. taking \in SUBSET Stream /\ copying \in SUBSET Stream /\ shut \in SUBSET Stream
    OBVIOUS
  <2>6. QED
    BY <2>1, <2>2, <2>3, <2>4, <2>5 DEF PlacesOK
<1>3. FramesOK
  <2>1. <<>> \in Seq(DownFrame) /\ <<>> \in Seq(UpFrame) /\ Len(<<>>) = 0
    BY EmptySeq
  <2>2. QED
    BY <2>1 DEF FramesOK
<1>4. ChunksOK
  BY EmptySeq DEF ChunksOK
<1>5. OthersLaunched /\ MapOK
  BY DEF OthersLaunched, MapOK, Launched
<1>6. AwaitOK
  BY DEF AwaitOK, ReaderIsAwaited
<1>7. QED
  BY <1>1, <1>2, <1>3, <1>4, <1>5, <1>6 DEF Inv

\* The invariant gives every variable its type.
LEMMA InvTypes == ASSUME Inv PROVE TypeOK
<1> USE SessionAssumption, TcpAssumption DEF Inv
<1>1. Longest \in Nat /\ ReqLen <= Longest /\ RespLen <= Longest
  BY DEF Longest
<1>2. DownFrame \subseteq FrameUpTo(Longest) /\ UpFrame \subseteq FrameUpTo(Longest)
  BY <1>1 DEF DownFrame, UpFrame, RespFrame, FrameUpTo, Launched
<1>3. down \in Seq(FrameUpTo(Longest)) /\ up \in Seq(FrameUpTo(Longest))
  BY <1>2, SeqMonotonic DEF FramesOK
<1>4. buf \in [Stream -> Seq(1 .. Longest)]
  <2>1. 1 .. ReqLen \subseteq 1 .. Longest
    BY <1>1
  <2>2. \A s \in Stream : buf[s] \in Seq(1 .. Longest)
    BY <2>1, SeqMonotonic DEF ChunksOK
  <2>3. QED
    BY <2>2 DEF ChunksOK
<1>5. held \in FrameUpTo(Longest) \cup {Nil}
  BY <1>2 DEF FramesOK, UpFrame
<1>6. streams \in SUBSET Stream /\ known \in SUBSET Stream /\ pumping \in SUBSET Stream
  BY DEF MapOK, OthersLaunched, Launched
<1>7. SessionTypeOK(Longest)
  BY <1>3, <1>4, <1>5, <1>6 DEF SessionTypeOK, LifeOK, FramesOK
<1>8. QED
  BY <1>6, <1>7 DEF TypeOK, PlacesOK, ChunksOK

-----------------------------------------------------------------------------
(***************************************************************************)
(* Helpers for the steps.                                                  *)
(***************************************************************************)

\* A step that launches nothing leaves the frames what they are.
LEMMA SameFrames ==
  ASSUME Launched' = Launched
  PROVE  DownFrame' = DownFrame /\ UpFrame' = UpFrame /\ RespFrame' = RespFrame
BY DEF DownFrame, UpFrame, RespFrame, CloseFrame, RegisteredFrame, Frame

\* Launching a stream allows more frames.
LEMMA MoreFrames ==
  ASSUME Launched \subseteq Launched'
  PROVE  DownFrame \subseteq DownFrame' /\ UpFrame \subseteq UpFrame' /\ RespFrame \subseteq RespFrame'
BY DEF DownFrame, UpFrame, RespFrame, CloseFrame, RegisteredFrame, Frame

\* What Send does to the FIFO: it stays typed, and within its bound while the
\* WebSocket is up.
LEMMA SendTyped ==
  ASSUME FramesOK, drops \in 0 .. MaxDrops, NEW F, DownFrame \subseteq F, NEW f \in F, Send(f)
  PROVE  /\ down' \in Seq(F)
         /\ Len(down') <= SendCap + 1
         /\ wsUp => Len(down') <= SendCap
         /\ drops' \in 0 .. MaxDrops
<1>1. down \in Seq(F) /\ Len(down) \in Nat
  BY SeqMonotonic, LenProperties DEF FramesOK
<1>2. Append(down, f) \in Seq(F) /\ Len(Append(down, f)) = Len(down) + 1
  BY <1>1, AppendProperties
<1>3. Len(down) <= SendCap + 1 /\ (wsUp => Len(down) <= SendCap)
  BY DEF FramesOK
<1>4. CASE down' = Append(down, f) /\ Len(down) < SendCap /\ UNCHANGED drops
  BY <1>1, <1>2, <1>4, SessionAssumption
<1>5. CASE UNCHANGED down /\ (UNCHANGED drops \/ (drops < MaxDrops /\ drops' = drops + 1))
  BY <1>1, <1>3, <1>5, SessionAssumption
<1>6. QED
  BY <1>4, <1>5 DEF Send

\* FramesOK when the two FIFOs are unchanged and the reader takes nothing.
LEMMA FramesKept ==
  ASSUME FramesOK, UNCHANGED <<down, up>>, held' \in {held, Nil}, wsUp' => wsUp, Launched \subseteq Launched'
  PROVE  FramesOK'
<1>1. DownFrame \subseteq DownFrame' /\ UpFrame \subseteq UpFrame' /\ RespFrame \subseteq RespFrame'
  BY MoreFrames
<1>2. down \in Seq(DownFrame') /\ up \in Seq(UpFrame')
  BY <1>1, SeqMonotonic DEF FramesOK
<1>3. QED
  BY <1>1, <1>2 DEF FramesOK

\* The first frame of a FIFO, and what is left without it.
LEMMA DownTyped ==
  ASSUME Inv, down # <<>>
  PROVE  /\ Head(down) \in DownFrame /\ Tail(down) \in Seq(DownFrame)
         /\ Len(Tail(down)) <= SendCap + 1 /\ (wsUp => Len(Tail(down)) <= SendCap)
<1>1. /\ Head(down) \in DownFrame /\ Tail(down) \in Seq(DownFrame) /\ Len(down) \in Nat
      /\ Len(Tail(down)) = Len(down) - 1
  BY HeadTyped DEF Inv, FramesOK
<1>2. QED
  BY <1>1, SessionAssumption DEF Inv, FramesOK

\* A step that takes the first frame for the client.
LEMMA ReceiveTyped ==
  ASSUME Inv, down # <<>>, down' = Tail(down), UNCHANGED <<up, held>>, wsUp' => wsUp, UNCHANGED Launched
  PROVE  FramesOK'
<1>1. DownFrame' = DownFrame /\ UpFrame' = UpFrame /\ RespFrame' = RespFrame
  BY SameFrames
<1>2. QED
  BY <1>1, DownTyped DEF Inv, FramesOK

-----------------------------------------------------------------------------
(***************************************************************************)
(* Steps of the session.                                                   *)
(***************************************************************************)

\* The WebSocket goes down.
LEMMA GoDownTyped ==
  ASSUME Inv, NEW last \in {<<>>, <<CloseFrame>>}, GoDown(last), UNCHANGED tcpVars
  PROVE  Inv'
<1> USE SessionAssumption DEF tcpVars, inboundVars, outboundVars, serverVars, clientVars
<1>1. Launched' = Launched
  BY DEF Launched
<1>2. DownFrame' = DownFrame /\ UpFrame' = UpFrame /\ RespFrame' = RespFrame
  BY <1>1, SameFrames
<1>3. last \in Seq(DownFrame) /\ Len(last) \in {0, 1}
  <2>1. CloseFrame \in DownFrame
    BY DEF DownFrame
  <2>2. <<>> \in Seq(DownFrame) /\ Len(<<>>) = 0
    BY EmptySeq
  <2>3. <<CloseFrame>> \in Seq(DownFrame) /\ Len(<<CloseFrame>>) = 1
    BY <2>1
  <2>4. QED
    BY <2>2, <2>3
<1>4. PICK n \in 0 .. Len(down) : down' = SubSeq(down, 1, n) \o last
  BY DEF GoDown
<1>5. PICK m \in 0 .. Len(up) : up' = SubSeq(up, 1, m)
  BY DEF GoDown
<1>6. down \in Seq(DownFrame) /\ up \in Seq(UpFrame) /\ Len(down) \in Nat /\ Len(up) \in Nat
  BY LenProperties DEF Inv, FramesOK
<1>7. SubSeq(down, 1, n) \in Seq(DownFrame) /\ Len(SubSeq(down, 1, n)) = n
  BY <1>4, <1>6, PrefixOfSeq
<1>8. down' \in Seq(DownFrame) /\ Len(down') <= SendCap + 1
  <2>1. down' \in Seq(DownFrame) /\ Len(down') = n + Len(last)
    BY <1>3, <1>4, <1>7, ConcatProperties
  <2>2. wsUp /\ n <= SendCap
    BY <1>4, <1>6 DEF GoDown, Inv, FramesOK
  <2>3. n \in Nat /\ Len(last) \in Nat /\ Len(last) <= 1 /\ SendCap \in Nat
    BY <1>3, <1>4
  <2>4. n + Len(last) <= SendCap + 1
    BY <2>2, <2>3
  <2>5. QED
    BY <2>1, <2>4
<1>9. up' \in Seq(UpFrame) /\ Len(up') <= UpCap
  BY <1>5, <1>6, PrefixOfSeq DEF Inv, FramesOK
<1>10. FramesOK'
  BY <1>2, <1>8, <1>9 DEF GoDown, Inv, FramesOK
<1>11. LifeOK' /\ PlacesOK'
  BY DEF GoDown, Inv, LifeOK, PlacesOK
<1>12. ChunksOK' /\ OthersLaunched' /\ MapOK' /\ AwaitOK'
  BY <1>1 DEF GoDown, Inv, ChunksOK, OthersLaunched, MapOK, AwaitOK, ReaderIsAwaited
<1>13. QED
  BY <1>10, <1>11, <1>12 DEF Inv

\* What the session does of its own accord, but for a loss of the connection.
LEMMA SessionStep ==
  ASSUME Inv, Serves \/ TearsDown \/ Killed \/ ReceiveData \/ ReadLoopReturns, UNCHANGED tcpVars
  PROVE  Inv'
<1> USE SessionAssumption
    DEF tcpVars, inboundVars, outboundVars, lifeVars, serverVars, wireVars, clientVars
<1>1. Launched' = Launched
  BY DEF Launched
<1>2. DownFrame' = DownFrame /\ UpFrame' = UpFrame /\ RespFrame' = RespFrame
  BY <1>1, SameFrames
<1>3. PlacesOK'
  BY DEF Inv, PlacesOK
<1>4. ASSUME up # <<>>
      PROVE  Head(up) \in UpFrame /\ Tail(up) \in Seq(UpFrame) /\ Len(Tail(up)) <= UpCap
  BY <1>4, HeadTyped DEF Inv, FramesOK
<1>5. CASE ReaderTakesData
  <2>1. Head(up) \in RespFrame
    BY <1>4, <1>5 DEF ReaderTakesData, UpFrame
  <2>2. FramesOK'
    BY <1>2, <1>4, <1>5, <2>1 DEF ReaderTakesData, Inv, FramesOK
  <2>3. AwaitOK'
    BY <1>5, <2>1 DEF ReaderTakesData, Inv, MapOK, AwaitOK, ReaderIsAwaited, RespFrame, Launched
  <2>4. LifeOK' /\ ChunksOK' /\ OthersLaunched' /\ MapOK'
    BY <1>1, <1>5 DEF ReaderTakesData, Inv, LifeOK, ChunksOK, OthersLaunched, MapOK
  <2>5. QED
    BY <1>3, <2>2, <2>3, <2>4 DEF Inv
<1>6. CASE WriteFails
  <2>1. FramesOK'
    BY <1>1, <1>6, FramesKept DEF WriteFails, Inv
  <2>2. LifeOK' /\ ChunksOK' /\ OthersLaunched' /\ MapOK' /\ AwaitOK'
    BY <1>1, <1>6 DEF WriteFails, Inv, LifeOK, ChunksOK, OthersLaunched, MapOK, AwaitOK, ReaderIsAwaited
  <2>3. QED
    BY <1>3, <2>1, <2>2 DEF Inv
<1>7. CASE ReaderTakesClose
  <2>1. FramesOK'
    BY <1>2, <1>4, <1>7 DEF ReaderTakesClose, Inv, FramesOK
  <2>2. LifeOK'
    BY <1>7 DEF ReaderTakesClose, CloseStream, ClosePipes, Inv, LifeOK
  <2>3. ChunksOK' /\ OthersLaunched' /\ MapOK' /\ AwaitOK'
    BY <1>1, <1>7 DEF ReaderTakesClose, CloseStream, ClosePipes, Inv, ChunksOK, OthersLaunched, MapOK, AwaitOK,
                      ReaderIsAwaited
  <2>4. QED
    BY <1>3, <2>1, <2>2, <2>3 DEF Inv
<1>8. CASE ReaderExits \/ Killed \/ Kick \/ ReadLoopReturns
  <2>1. FramesOK'
    BY <1>1, <1>8, FramesKept DEF ReaderExits, Killed, Kick, ReadLoopReturns, Inv
  <2>2. LifeOK'
    BY <1>8 DEF ReaderExits, Killed, Kick, ReadLoopReturns, Inv, LifeOK
  <2>3. ChunksOK' /\ OthersLaunched' /\ MapOK' /\ AwaitOK'
    BY <1>1, <1>8 DEF ReaderExits, Killed, Kick, ReadLoopReturns, Inv, ChunksOK, OthersLaunched, MapOK,
                      AwaitOK, ReaderIsAwaited
  <2>4. QED
    BY <1>3, <2>1, <2>2, <2>3 DEF Inv
<1>9. CASE CloseSession
  <2>1. FramesOK'
    BY <1>1, <1>9, FramesKept DEF CloseSession, Inv
  <2>2. LifeOK' /\ ChunksOK' /\ OthersLaunched' /\ MapOK' /\ AwaitOK'
    BY <1>1, <1>9 DEF CloseSession, ClosePipes, Inv, LifeOK, ChunksOK, OthersLaunched, MapOK, AwaitOK,
                      ReaderIsAwaited
  <2>3. QED
    BY <1>3, <2>1, <2>2 DEF Inv
<1>10. CASE ReceiveData
  <2>1. Head(down) \in DownFrame /\ Head(down).type = "data" /\ down # <<>>
    BY <1>10, DownTyped DEF ReceiveData, Receive
  <2>2. Head(down).n \in 1 .. ReqLen /\ Head(down).id \in Stream
    BY <2>1 DEF DownFrame, CloseFrame, RegisteredFrame, Frame, Launched
  <2>3. Append(buf[Head(down).id], Head(down).n) \in Seq(1 .. ReqLen)
    BY <2>2, AppendProperties DEF Inv, ChunksOK
  <2>4. ChunksOK'
    BY <1>10, <2>2, <2>3 DEF ReceiveData, Inv, ChunksOK
  <2>5. FramesOK'
    BY <1>1, <1>10, ReceiveTyped DEF ReceiveData, Receive
  <2>6. LifeOK' /\ OthersLaunched' /\ MapOK' /\ AwaitOK'
    BY <1>1, <1>10 DEF ReceiveData, Inv, LifeOK, OthersLaunched, MapOK, AwaitOK, ReaderIsAwaited
  <2>7. QED
    BY <1>3, <2>4, <2>5, <2>6 DEF Inv
<1>11. QED
  BY <1>5, <1>6, <1>7, <1>8, <1>9, <1>10 DEF Serves, TearsDown

\* The handshake is over at the server, and then at the client.
LEMMA HandshakeStep ==
  ASSUME Inv, Announce \/ Joins \/ Refuses
  PROVE  Inv'
<1> USE SessionAssumption
    DEF tcpVars, inboundVars, outboundVars, lifeVars, serverVars, wireVars, clientVars, FirstFrame
<1>1. Launched' = Launched
  BY DEF Announce, Joins, Refuses, Launched
<1>2. PlacesOK'
  BY DEF Announce, Joins, Refuses, Inv, PlacesOK
<1>3. ChunksOK' /\ OthersLaunched' /\ MapOK' /\ AwaitOK'
  BY <1>1 DEF Announce, Joins, Refuses, Inv, ChunksOK, OthersLaunched, MapOK, AwaitOK, ReaderIsAwaited
<1>4. CASE Announce
  <2>1. RegisteredFrame \in DownFrame /\ DownFrame' = DownFrame /\ UpFrame' = UpFrame /\ RespFrame' = RespFrame
    BY <1>1, SameFrames DEF DownFrame
  <2>2. /\ down' \in Seq(DownFrame) /\ Len(down') <= SendCap + 1 /\ (wsUp => Len(down') <= SendCap)
        /\ drops' \in 0 .. MaxDrops
    BY <1>4, <2>1, SendTyped DEF Announce, Inv, LifeOK
  <2>3. FramesOK' /\ LifeOK'
    BY <1>4, <2>1, <2>2 DEF Announce, Inv, FramesOK, LifeOK
  <2>4. QED
    BY <1>2, <1>3, <2>3 DEF Inv
<1>5. CASE Joins
  <2>1. FramesOK'
    BY <1>1, <1>5, ReceiveTyped DEF Joins
  <2>2. LifeOK'
    BY <1>5 DEF Joins, Inv, LifeOK
  <2>3. QED
    BY <1>2, <1>3, <2>1, <2>2 DEF Inv
<1>6. CASE Refuses
  <2>1. /\ DownFrame' = DownFrame /\ UpFrame' = UpFrame /\ RespFrame' = RespFrame
        /\ <<>> \in Seq(DownFrame) /\ Len(<<>>) = 0
    BY <1>1, SameFrames, EmptySeq
  <2>2. FramesOK'
    BY <1>6, <2>1 DEF Refuses, Inv, FramesOK
  <2>3. LifeOK'
    BY <1>6 DEF Refuses, Inv, LifeOK
  <2>4. QED
    BY <1>2, <1>3, <2>2, <2>3 DEF Inv
<1>7. QED
  BY <1>4, <1>5, <1>6

-----------------------------------------------------------------------------
(***************************************************************************)
(* Steps at the server's end of a stream.                                  *)
(***************************************************************************)

\* A goroutine of the server that only sends a frame keeps the frames typed.
LEMMA OnlySendsTyped ==
  ASSUME Inv, NEW f \in DownFrame', Launched \subseteq Launched', OnlySends(f)
  PROVE  FramesOK' /\ LifeOK'
<1>1. DownFrame \subseteq DownFrame' /\ UpFrame \subseteq UpFrame' /\ RespFrame \subseteq RespFrame'
  BY MoreFrames
<1>2. /\ down' \in Seq(DownFrame') /\ Len(down') <= SendCap + 1 /\ (wsUp => Len(down') <= SendCap)
      /\ drops' \in 0 .. MaxDrops
  BY <1>1, SendTyped DEF Inv, LifeOK, OnlySends
<1>3. up \in Seq(UpFrame')
  BY <1>1, SeqMonotonic DEF Inv, FramesOK
<1>4. QED
  BY <1>1, <1>2, <1>3 DEF OnlySends, Inv, FramesOK, LifeOK, lifeVars, serverVars, clientVars

\* The visitor arrives and the stream is opened.
LEMMA OpenStep ==
  ASSUME Inv, NEW s \in Stream, Arrive(s) \/ OpenTCPStream(s) \/ SendOpen(s)
  PROVE  Inv'
<1> USE DEF Inv, inboundVars, outboundVars, lifeVars, serverVars, wireVars, clientVars, sessionVars, Inbound
<1>1. CASE Arrive(s)
  <2>1. Launched \subseteq Launched'
    BY <1>1 DEF Arrive, PlacesOK, Launched
  <2>2. FramesOK'
    BY <1>1, <2>1, FramesKept DEF Arrive
  <2>3. PlacesOK'
    BY <1>1 DEF Arrive, PlacesOK
  <2>4. LifeOK' /\ ChunksOK' /\ OthersLaunched' /\ MapOK'
    BY <1>1, <2>1 DEF Arrive, PlacesOK, LifeOK, ChunksOK, OthersLaunched, MapOK
  <2>5. AwaitOK'
    BY <1>1 DEF Arrive, PlacesOK, AwaitOK, ReaderIsAwaited
  <2>6. QED
    BY <2>2, <2>3, <2>4, <2>5
<1>2. CASE OpenTCPStream(s)
  <2>1. Launched' = Launched
    BY <1>2 DEF OpenTCPStream, PlacesOK, Launched
  <2>2. FramesOK'
    BY <1>2, <2>1, FramesKept DEF OpenTCPStream, RegisterStream
  <2>3. PlacesOK'
    BY <1>2 DEF OpenTCPStream, RegisterStream, PlacesOK
  <2>4. LifeOK' /\ ChunksOK' /\ OthersLaunched' /\ MapOK'
    BY <1>2, <2>1 DEF OpenTCPStream, RegisterStream, PlacesOK, LifeOK, ChunksOK, OthersLaunched, MapOK
  <2>5. AwaitOK'
    BY <1>2 DEF OpenTCPStream, RegisterStream, PlacesOK, AwaitOK, ReaderIsAwaited
  <2>6. QED
    BY <2>2, <2>3, <2>4, <2>5
<1>3. CASE SendOpen(s)
  <2>1. Launched' = Launched \cup {s} /\ OnlySends(Frame("open", s, 0))
    BY <1>3 DEF SendOpen, PlacesOK, Launched
  <2>2. Frame("open", s, 0) \in DownFrame'
    BY <2>1 DEF Frame, DownFrame
  <2>3. FramesOK' /\ LifeOK'
    BY <2>1, <2>2, OnlySendsTyped
  <2>4. PlacesOK'
    BY <1>3 DEF SendOpen, PlacesOK
  <2>5. ChunksOK' /\ OthersLaunched' /\ MapOK'
    BY <1>3, <2>1 DEF SendOpen, OnlySends, PlacesOK, ChunksOK, OthersLaunched, MapOK
  <2>6. AwaitOK'
    BY <1>3 DEF SendOpen, OnlySends, PlacesOK, FramesOK, RespFrame, Launched, AwaitOK, ReaderIsAwaited
  <2>7. QED
    BY <2>3, <2>4, <2>5, <2>6
<1>4. QED
  BY <1>1, <1>2, <1>3

\* A chunk of the visitor goes out.
LEMMA TakeStep ==
  ASSUME Inv, NEW s \in Stream, HeadWritten(s) \/ FromVisitor(s)
  PROVE  Inv'
<1> USE TcpAssumption
    DEF Inv, inboundVars, outboundVars, lifeVars, serverVars, wireVars, clientVars, sessionVars, Inbound, Take,
        HeadWritten, FromVisitor
<1>1. Launched' = Launched
  BY DEF PlacesOK, Launched
<1>2. s \in Launched /\ taken[s] + 1 \in 1 .. ReqLen
  BY DEF OthersLaunched, PlacesOK
<1>3. Frame("data", s, taken[s] + 1) \in DownFrame'
  BY <1>1, <1>2, SameFrames DEF Frame, DownFrame
<1>4. FramesOK' /\ LifeOK'
  BY <1>1, <1>3, OnlySendsTyped
<1>5. PlacesOK'
  BY <1>2 DEF PlacesOK
<1>6. ChunksOK' /\ OthersLaunched' /\ MapOK'
  BY <1>1 DEF OnlySends, PlacesOK, ChunksOK, OthersLaunched, MapOK
<1>7. AwaitOK'
  <2>1. \A r \in Stream : serve'[r] = serve[r] \/ (serve[r] = "head" /\ serve'[r] = "bridge")
    BY DEF PlacesOK
  <2>2. UNCHANGED <<held, respOpen, visitor>>
    BY DEF OnlySends
  <2>3. held = Nil \/ held.id \in Stream
    BY DEF FramesOK, RespFrame, Launched
  <2>4. QED
    BY <2>1, <2>2, <2>3 DEF AwaitOK, ReaderIsAwaited
<1>8. QED
  BY <1>4, <1>5, <1>6, <1>7

\* Nothing more is taken from the visitor, and MsgClose goes out.
LEMMA StopStep ==
  ASSUME Inv, NEW s \in Stream, StopTaking(s) \/ PumpEnds(s)
  PROVE  Inv'
<1> USE DEF Inv, inboundVars, outboundVars, lifeVars, serverVars, wireVars, clientVars, sessionVars
<1>1. Launched' = Launched
  BY DEF StopTaking, PumpEnds, Launched
<1>2. PlacesOK'
  BY DEF StopTaking, PumpEnds, PlacesOK
<1>3. CASE StopTaking(s)
  <2>1. FramesOK'
    BY <1>1, <1>3, FramesKept DEF StopTaking, CloseRequest
  <2>2. LifeOK' /\ ChunksOK' /\ OthersLaunched' /\ MapOK' /\ AwaitOK'
    BY <1>1, <1>3 DEF StopTaking, CloseRequest, LifeOK, ChunksOK, OthersLaunched, MapOK, AwaitOK, ReaderIsAwaited
  <2>3. QED
    BY <1>2, <2>1, <2>2
<1>4. CASE PumpEnds(s)
  <2>1. s \in Launched
    BY <1>4 DEF PumpEnds, OthersLaunched
  <2>2. Frame("close", s, 0) \in DownFrame'
    BY <1>1, <2>1, SameFrames DEF Frame, DownFrame
  <2>3. FramesOK' /\ LifeOK'
    BY <1>1, <1>4, <2>2, OnlySendsTyped DEF PumpEnds
  <2>4. ChunksOK' /\ OthersLaunched' /\ MapOK' /\ AwaitOK'
    BY <1>1, <1>4 DEF PumpEnds, OnlySends, ChunksOK, OthersLaunched, MapOK, AwaitOK, ReaderIsAwaited
  <2>5. QED
    BY <1>2, <2>3, <2>4
<1>5. QED
  BY <1>3, <1>4

\* A chunk passes the response pipe to the visitor.
LEMMA ToVisitorStep ==
  ASSUME Inv, NEW s \in Stream, ToVisitor(s)
  PROVE  Inv'
<1> USE DEF Inv, inboundVars, outboundVars, lifeVars, serverVars, wireVars, clientVars, ToVisitor, HandOver
<1>1. Launched' = Launched
  BY DEF Launched
<1>2. FramesOK'
  BY <1>1, FramesKept
<1>3. held.n \in 1 .. RespLen
  BY DEF FramesOK, RespFrame
<1>4. Append(got[s], held.n) \in Seq(1 .. RespLen)
  BY <1>3, AppendProperties DEF ChunksOK
<1>5. ChunksOK'
  BY <1>4 DEF ChunksOK
<1>6. LifeOK' /\ PlacesOK' /\ OthersLaunched' /\ MapOK' /\ AwaitOK'
  BY <1>1 DEF LifeOK, PlacesOK, OthersLaunched, MapOK, AwaitOK, ReaderIsAwaited
<1>7. QED
  BY <1>2, <1>5, <1>6

\* The copy to the visitor ends, and the stream with it or later.
LEMMA ReturnStep ==
  ASSUME Inv, NEW s \in Stream, PipeCloses(s) \/ WriteInVain(s) \/ HeadFails(s) \/ UpgradeReturns(s)
  PROVE  Inv'
<1> USE DEF Inv, inboundVars, outboundVars, lifeVars, serverVars, wireVars, clientVars, tcpVars, Inbound,
            CloseStream, ClosePipes, Bridged
<1>1. /\ serve'[s] \in {serve[s], "waiting", "done", "failed"} /\ serve[s] \in {"head", "bridge", "waiting"}
      /\ serve' = [serve EXCEPT ![s] = serve'[s]]
      /\ held' \in {held, Nil} /\ streams' \in {streams, streams \ {s}}
      /\ respOpen' \in {respOpen, respOpen \ {s}} /\ reqOpen' \in {reqOpen, reqOpen \ {s}}
      /\ UNCHANGED <<lifeVars, reading, wireVars, clientVars, handshake, kind, taking, taken, pumping, visitor>>
      /\ UNCHANGED <<got, outboundVars>>
  <2>1. /\ UNCHANGED <<lifeVars, reading, wireVars, clientVars, handshake, kind, taking, taken, pumping, visitor>>
        /\ UNCHANGED <<got, outboundVars>>
        /\ held' \in {held, Nil}
    BY DEF PipeCloses, WriteInVain, HeadFails, UpgradeReturns
  <2>2. serve[s] \in {"head", "bridge", "waiting"}
    BY DEF PipeCloses, WriteInVain, HeadFails, UpgradeReturns
  <2>3. \E place \in {serve[s], "waiting", "done", "failed"} : serve' = [serve EXCEPT ![s] = place]
    BY DEF PipeCloses, WriteInVain, HeadFails, UpgradeReturns, PlacesOK
  <2>4. /\ streams' \in {streams, streams \ {s}}
        /\ respOpen' \in {respOpen, respOpen \ {s}} /\ reqOpen' \in {reqOpen, reqOpen \ {s}}
    <3>1. {s} \cap streams \in {{s}, {}}
      OBVIOUS
    <3>2. respOpen \ {} = respOpen /\ reqOpen \ {} = reqOpen
      OBVIOUS
    <3>3. QED
      BY <3>1, <3>2 DEF PipeCloses, WriteInVain, HeadFails, UpgradeReturns
  <2>5. QED
    BY <2>1, <2>2, <2>3, <2>4 DEF PlacesOK
<1>2. Launched' = Launched
  BY <1>1 DEF Launched, PlacesOK
<1>3. FramesOK'
  BY <1>1, <1>2, FramesKept
<1>4. PlacesOK'
  BY <1>1 DEF PlacesOK
<1>5. LifeOK' /\ ChunksOK' /\ OthersLaunched'
  BY <1>1, <1>2 DEF LifeOK, ChunksOK, OthersLaunched
<1>6. MapOK'
  <2>1. s \in streams' => serve'[s] \notin {"done", "failed"}
    BY DEF PipeCloses, WriteInVain, HeadFails, UpgradeReturns, PlacesOK
  <2>2. s \in respOpen' => s \in respOpen /\ (s \in streams => s \in streams')
    BY DEF PipeCloses, WriteInVain, HeadFails, UpgradeReturns, PlacesOK
  <2>3. QED
    BY <1>1, <2>1, <2>2 DEF MapOK, PlacesOK
<1>7. AwaitOK'
  <2>1. s \in respOpen' /\ serve'[s] \in {"waiting", "done", "failed"} => serve'[s] = "waiting" /\ visitor[s] = "closed"
    BY <1>1 DEF PipeCloses, WriteInVain, HeadFails, UpgradeReturns, PlacesOK, MapOK, AwaitOK
  <2>2. QED
    BY <1>1, <2>1 DEF AwaitOK, ReaderIsAwaited, PlacesOK, FramesOK, RespFrame, Launched
<1>8. QED
  BY <1>3, <1>4, <1>5, <1>6, <1>7

\* The visitor closes a side of the connection, or all of it.
LEMMA VisitorStep ==
  ASSUME Inv, NEW s \in Stream, VisitorFinishes(s) \/ VisitorLeaves(s)
  PROVE  Inv'
<1> USE DEF Inv, inboundVars, outboundVars, lifeVars, serverVars, wireVars, clientVars, sessionVars
<1>1. /\ visitor' \in [Stream -> End] /\ \A r \in Stream : visitor[r] = "closed" => visitor'[r] = "closed"
      /\ UNCHANGED <<sessionVars, handshake, kind, serve, taking, taken, pumping, got, outboundVars>>
  BY DEF VisitorFinishes, VisitorLeaves, PlacesOK, End
<1>2. Launched' = Launched
  BY <1>1 DEF Launched
<1>3. FramesOK'
  BY <1>1, <1>2, FramesKept
<1>4. LifeOK' /\ PlacesOK' /\ ChunksOK' /\ OthersLaunched' /\ MapOK'
  BY <1>1, <1>2 DEF LifeOK, PlacesOK, ChunksOK, OthersLaunched, MapOK
<1>5. AwaitOK'
  BY <1>1 DEF AwaitOK, ReaderIsAwaited, FramesOK, RespFrame, Launched
<1>6. QED
  BY <1>3, <1>4, <1>5

-----------------------------------------------------------------------------
(***************************************************************************)
(* Steps at the client's end of a stream.                                  *)
(***************************************************************************)

\* One more frame of a launched stream on its way to the server.
LEMMA UpTyped ==
  ASSUME Inv, NEW f \in UpFrame, Len(up) < UpCap
  PROVE  Append(up, f) \in Seq(UpFrame) /\ Len(Append(up, f)) <= UpCap
<1>1. up \in Seq(UpFrame) /\ Len(up) \in Nat
  BY LenProperties DEF Inv, FramesOK
<1>2. QED
  BY <1>1, AppendProperties, SessionAssumption

\* readLoop takes a frame that opens or closes a stream.
LEMMA FrameStep ==
  ASSUME Inv, NEW s \in Stream, StartDrive(s) \/ ReceiveClose(s)
  PROVE  Inv'
<1> USE DEF Inv, inboundVars, outboundVars, lifeVars, serverVars, wireVars, clientVars, tcpVars
<1>1. Launched' = Launched
  BY DEF StartDrive, ReceiveClose, Launched
<1>2. FramesOK'
  BY <1>1, ReceiveTyped DEF StartDrive, ReceiveOpen, ReceiveClose, Receive
<1>3. StartDrive(s) => s \in Launched
  BY DownTyped DEF StartDrive, ReceiveOpen, Receive, DownFrame, CloseFrame, RegisteredFrame, Frame
<1>4. PlacesOK'
  BY DEF StartDrive, ReceiveOpen, ReceiveClose, PlacesOK
<1>5. LifeOK' /\ ChunksOK' /\ MapOK' /\ AwaitOK'
  BY <1>1 DEF StartDrive, ReceiveOpen, ReceiveClose, LifeOK, ChunksOK, MapOK, AwaitOK, ReaderIsAwaited
<1>6. OthersLaunched'
  BY <1>1, <1>3 DEF StartDrive, ReceiveOpen, ReceiveClose, OthersLaunched, PlacesOK
<1>7. QED
  BY <1>2, <1>4, <1>5, <1>6

\* Steps that only change places and local connections.
LEMMA PlacesStep ==
  ASSUME Inv, NEW s \in Stream,
         DialSucceeds(s) \/ StopCopying(s) \/ ServiceRead(s) \/ ServiceFinishes(s) \/ ServiceCloses(s)
  PROVE  Inv'
<1> USE DEF Inv, inboundVars, outboundVars, lifeVars, serverVars, wireVars, clientVars, sessionVars, DialSucceeds,
            StopCopying, ServiceRead, ServiceFinishes, ServiceCloses
<1>1. UNCHANGED <<sessionVars, handshake, inboundVars, shut, local, sent>>
  OBVIOUS
<1>2. Launched' = Launched
  BY <1>1 DEF Launched
<1>3. FramesOK'
  BY <1>1, <1>2, FramesKept
<1>4. PlacesOK' /\ \A r \in Stream : drive'[r] # "none" => drive[r] # "none"
  BY DEF PlacesOK, End
<1>5. LifeOK' /\ ChunksOK' /\ OthersLaunched' /\ MapOK' /\ AwaitOK'
  BY <1>1, <1>2, <1>4 DEF LifeOK, ChunksOK, OthersLaunched, MapOK, AwaitOK, ReaderIsAwaited
<1>6. QED
  BY <1>3, <1>4, <1>5

\* A chunk goes from the buffer to the local service.
LEMMA ToServiceStep ==
  ASSUME Inv, NEW s \in Stream, ToService(s)
  PROVE  Inv'
<1> USE DEF Inv, inboundVars, outboundVars, lifeVars, serverVars, wireVars, clientVars, ToService, TakeChunk
<1>1. Launched' = Launched
  BY DEF Launched
<1>2. FramesOK'
  BY <1>1, FramesKept
<1>3. buf[s] \in Seq(1 .. ReqLen) /\ buf[s] # <<>> /\ local[s] \in Seq(1 .. ReqLen)
  BY DEF ChunksOK
<1>4. Tail(buf[s]) \in Seq(1 .. ReqLen) /\ Append(local[s], Head(buf[s])) \in Seq(1 .. ReqLen)
  BY <1>3, HeadTyped, AppendProperties
<1>5. ChunksOK'
  BY <1>4 DEF ChunksOK
<1>6. LifeOK' /\ PlacesOK' /\ OthersLaunched' /\ MapOK' /\ AwaitOK'
  BY <1>1 DEF LifeOK, PlacesOK, OthersLaunched, MapOK, AwaitOK, ReaderIsAwaited
<1>7. QED
  BY <1>2, <1>5, <1>6

\* A chunk of the service goes out.
LEMMA FromServiceStep ==
  ASSUME Inv, NEW s \in Stream, FromService(s)
  PROVE  Inv'
<1> USE TcpAssumption
    DEF Inv, inboundVars, outboundVars, lifeVars, serverVars, wireVars, clientVars, FromService, SendUp
<1>1. Launched' = Launched
  BY DEF Launched
<1>2. s \in Launched /\ sent[s] + 1 \in 1 .. RespLen
  BY DEF PlacesOK, OthersLaunched
<1>3. Frame("data", s, sent[s] + 1) \in UpFrame
  BY <1>2 DEF Frame, UpFrame, RespFrame
<1>4. up' \in Seq(UpFrame) /\ Len(up') <= UpCap
  BY <1>3, UpTyped
<1>5. FramesOK'
  BY <1>1, <1>4, SameFrames DEF FramesOK
<1>6. PlacesOK'
  BY <1>2 DEF PlacesOK
<1>7. LifeOK' /\ ChunksOK' /\ OthersLaunched' /\ MapOK' /\ AwaitOK'
  BY <1>1 DEF LifeOK, ChunksOK, OthersLaunched, MapOK, AwaitOK, ReaderIsAwaited
<1>8. QED
  BY <1>5, <1>6, <1>7

\* driveTCPStream ends, whatever ended it.
LEMMA FinishStep ==
  ASSUME Inv, NEW s \in Stream, DialInVain(s) \/ FinishDrive(s)
  PROVE  Inv'
<1> USE DEF Inv, inboundVars, outboundVars, lifeVars, serverVars, wireVars, clientVars, DialInVain, FinishDrive,
            DriveEnds, ClientFinishes
<1>1. Launched' = Launched
  BY DEF Launched
<1>2. s \in Launched
  BY DEF PlacesOK, OthersLaunched
<1>3. Frame("close", s, 0) \in UpFrame
  BY <1>2 DEF Frame, UpFrame
<1>4. up' \in Seq(UpFrame) /\ Len(up') <= UpCap
  BY <1>3, UpTyped DEF Farewell, FramesOK
<1>5. FramesOK'
  BY <1>1, <1>4, SameFrames DEF FramesOK
<1>6. PlacesOK'
  BY DEF PlacesOK, End
<1>7. LifeOK' /\ ChunksOK' /\ OthersLaunched' /\ MapOK' /\ AwaitOK'
  BY <1>1, <1>2 DEF LifeOK, PlacesOK, ChunksOK, OthersLaunched, MapOK, AwaitOK, ReaderIsAwaited
<1>8. QED
  BY <1>5, <1>6, <1>7

\* The client's process ends.
LEMMA ExitStep ==
  ASSUME Inv, Exit
  PROVE  Inv'
<1> USE DEF Inv, inboundVars, outboundVars, lifeVars, serverVars, Exit, ClientExits, Receive
<1>1. Launched' = Launched
  BY DEF Launched
<1>2. FramesOK'
  BY <1>1, ReceiveTyped
<1>3. \A r \in Stream : drive'[r] \in {"none", "gone"} /\ (drive'[r] # "none" => drive[r] # "none")
  OBVIOUS
<1>4. drive' \in [Stream -> {"none", "dial", "bridge", "waiting", "gone"}]
  OBVIOUS
<1>5. LifeOK'
  BY DEF LifeOK
<1>6. PlacesOK'
  BY <1>4 DEF PlacesOK
<1>7. ChunksOK' /\ OthersLaunched' /\ MapOK' /\ AwaitOK'
  BY <1>1, <1>3 DEF ChunksOK, OthersLaunched, MapOK, AwaitOK, ReaderIsAwaited
<1>8. QED
  BY <1>2, <1>5, <1>6, <1>7

\* A step that changes nothing.
LEMMA StutterStep ==
  ASSUME Inv, UNCHANGED vars
  PROVE  Inv'
<1> USE DEF vars, sessionVars, tcpVars, inboundVars, outboundVars, lifeVars, serverVars, wireVars, clientVars, Inv
<1>1. Launched' = Launched
  BY DEF Launched
<1>2. FramesOK'
  BY <1>1, FramesKept
<1>3. LifeOK' /\ PlacesOK' /\ ChunksOK' /\ OthersLaunched' /\ MapOK' /\ AwaitOK'
  BY <1>1 DEF LifeOK, PlacesOK, ChunksOK, OthersLaunched, MapOK, AwaitOK, ReaderIsAwaited
<1>4. QED
  BY <1>2, <1>3

-----------------------------------------------------------------------------
\* Inv is inductive.
LEMMA Invariant == Spec => []Inv
<1>1. Init => Inv
  BY InvInit
<1>2. Inv /\ [Next]_vars => Inv'
  <2> SUFFICES ASSUME Inv, [Next]_vars PROVE Inv'
    OBVIOUS
  <2>1. CASE LostEarly \/ Running
    BY <2>1, GoDownTyped DEF LostEarly, Running, ConnectionLost, WriterCloses
  <2>2. CASE (Serves \/ TearsDown \/ Killed \/ ReceiveData \/ ReadLoopReturns) /\ UNCHANGED tcpVars
    BY <2>2, SessionStep
  <2>3. CASE Announce \/ Joins \/ Refuses
    BY <2>3, HandshakeStep
  <2>4. CASE Exit
    BY <2>4, ExitStep
  <2>5. ASSUME NEW s \in Stream, Serve(s) PROVE Inv'
    BY <2>5, OpenStep, TakeStep, ToVisitorStep, ReturnStep DEF Serve
  <2>6. ASSUME NEW s \in Stream, Drive(s) PROVE Inv'
    BY <2>6, PlacesStep, FinishStep, ToServiceStep DEF Drive
  <2>7. ASSUME NEW s \in Stream, Outside(s) PROVE Inv'
    BY <2>7, OpenStep, TakeStep, VisitorStep, FromServiceStep, PlacesStep DEF Outside
  <2>8. ASSUME NEW s \in Stream, StopTaking(s) \/ PumpEnds(s) \/ StartDrive(s) \/ ReceiveClose(s) \/ StopCopying(s)
        PROVE  Inv'
    BY <2>8, StopStep, FrameStep, PlacesStep
  <2>9. CASE UNCHANGED vars
    BY <2>9, StutterStep
  <2>10. QED
    BY <2>1, <2>2, <2>3, <2>4, <2>5, <2>6, <2>7, <2>8, <2>9 DEF Next
<1>3. QED
  BY <1>1, <1>2, PTL DEF Spec

\* Whatever visitors, services, the network and the teardown do, every variable
\* keeps its type and the two FIFOs keep to their bounds.
THEOREM TypeCorrect == Spec => []TypeOK
<1>1. Inv => TypeOK
  BY InvTypes
<1>2. QED
  BY <1>1, Invariant, PTL

\* However many connections share the session, its reader is stuck on none: a
\* bridge takes what it holds, or the write is about to fail.
THEOREM ReaderNeverStuck == Spec => []ReaderIsAwaited
<1>1. Inv => ReaderIsAwaited
  BY DEF Inv, AwaitOK
<1>2. QED
  BY <1>1, Invariant, PTL

-----------------------------------------------------------------------------
(***************************************************************************)
(* The handshake, against the first streams.                               *)
(***************************************************************************)

\* Until the client has joined it takes nothing else from the WebSocket, so
\* that MsgRegistered is still on its way unless Send gave it up.
HandshakeOK ==
  /\ handshake \in {"published", "announced"} => ~ looping
  /\ kicked => doomed
  /\ handshake = "announced" =>
       drops > 0 \/ doomed \/ ~ wsUp \/ Has(down, "registered", Nil)

\* A step that sends something, whatever it is.
Sends(s) == SendOpen(s) \/ HeadWritten(s) \/ FromVisitor(s) \/ PumpEnds(s)

\* What such a step leaves alone.
LEMMA SendsOnly ==
  ASSUME NEW s \in Stream, Sends(s)
  PROVE  /\ \E f \in {Frame("open", s, 0), Frame("data", s, taken[s] + 1), Frame("close", s, 0)} : Send(f)
         /\ UNCHANGED <<handshake, lifeVars, serverVars, up, clientVars>>
BY DEF Sends, SendOpen, HeadWritten, FromVisitor, PumpEnds, Take, OnlySends, Inbound

\* A step that takes a frame for the client's readLoop.
Reads == (ReceiveData /\ UNCHANGED tcpVars) \/ Exit \/ \E s \in Stream : StartDrive(s) \/ ReceiveClose(s)

\* The steps that neither send nor take, nor lose the WebSocket.
LEMMA OtherSteps ==
  ASSUME Inv, [Next]_vars, ~ Announce, ~ Joins, ~ Refuses, ~ LostEarly, ~ Running, ~ Reads,
         \A s \in Stream : ~ Sends(s)
  PROVE  UNCHANGED <<handshake, down, drops, wsUp>>
<1> USE DEF sessionVars, lifeVars, serverVars, wireVars, clientVars, tcpVars, inboundVars, outboundVars
<1>1. CASE ((Serves \/ TearsDown \/ Killed \/ ReadLoopReturns) /\ UNCHANGED tcpVars) \/ UNCHANGED vars
  BY <1>1 DEF Serves, TearsDown, Killed, ReadLoopReturns, ReaderTakesData, WriteFails, ReaderTakesClose, ReaderExits,
              CloseSession, Kick, vars
<1>2. ASSUME NEW s \in Stream, Serve(s) \/ StopTaking(s) \/ Outside(s), ~ Sends(s)
      PROVE  UNCHANGED <<handshake, down, drops, wsUp>>
  <2>1. CASE Serve(s)
    BY <1>2, <2>1 DEF Sends, Serve, OpenTCPStream, RegisterStream, Inbound, ToVisitor, HandOver, HeadFails, PipeCloses,
                      WriteInVain, Bridged, UpgradeReturns
  <2>2. CASE StopTaking(s)
    BY <2>2 DEF StopTaking, CloseRequest
  <2>3. CASE Outside(s)
    BY <1>2, <2>3 DEF Sends, Outside, Arrive, Inbound, VisitorFinishes, VisitorLeaves, FromService, SendUp,
                      ServiceFinishes, ServiceCloses
  <2>4. QED
    BY <1>2, <2>1, <2>2, <2>3
<1>3. ASSUME NEW s \in Stream, Drive(s) \/ StopCopying(s)
      PROVE  UNCHANGED <<handshake, down, drops, wsUp>>
  BY <1>3 DEF Drive, DialSucceeds, DialInVain, DriveEnds, ClientFinishes, ToService, TakeChunk, ServiceRead,
              FinishDrive, StopCopying
<1>4. QED
  BY <1>1, <1>2, <1>3 DEF Next, Reads, Sends

\* What any step does to the flags of HandshakeOK.
LEMMA Flags ==
  ASSUME Inv, [Next]_vars, ~ Joins
  PROVE  /\ looping' => looping
         /\ kicked' => kicked \/ doomed
         /\ doomed => doomed'
<1> USE DEF sessionVars, lifeVars, serverVars, wireVars, clientVars, tcpVars, inboundVars, outboundVars
<1>1. CASE ((Serves \/ TearsDown \/ Killed \/ ReadLoopReturns \/ ReceiveData) /\ UNCHANGED tcpVars) \/ UNCHANGED vars
  BY <1>1 DEF Serves, TearsDown, Killed, ReadLoopReturns, ReceiveData, ReaderTakesData, WriteFails, ReaderTakesClose,
              ReaderExits, CloseSession, Kick, vars
<1>2. CASE Announce \/ Refuses \/ LostEarly \/ Running \/ Exit
  BY <1>2 DEF Announce, Refuses, FirstFrame, LostEarly, Running, ConnectionLost, WriterCloses, GoDown, Exit, ClientExits
<1>3. ASSUME NEW s \in Stream, Serve(s) \/ StopTaking(s) \/ PumpEnds(s) \/ Outside(s)
      PROVE  UNCHANGED <<looping, kicked, doomed>>
  <2>1. CASE Sends(s)
    BY <2>1, SendsOnly
  <2>2. CASE ~ Sends(s)
    BY <1>3, <2>2
       DEF Sends, Serve, OpenTCPStream, RegisterStream, Inbound, ToVisitor, HandOver, HeadFails, PipeCloses, WriteInVain,
           UpgradeReturns, StopTaking, CloseRequest, Outside, Arrive, VisitorFinishes, VisitorLeaves, FromService,
           SendUp, ServiceFinishes, ServiceCloses
  <2>3. QED
    BY <2>1, <2>2
<1>4. ASSUME NEW s \in Stream, Drive(s) \/ StopCopying(s) \/ StartDrive(s) \/ ReceiveClose(s)
      PROVE  UNCHANGED <<looping, kicked, doomed>>
  BY <1>4 DEF Drive, DialSucceeds, DialInVain, DriveEnds, ClientFinishes, ToService, TakeChunk, ServiceRead,
              FinishDrive, StopCopying, StartDrive, ReceiveOpen, ReceiveClose
<1>5. QED
  BY <1>1, <1>2, <1>3, <1>4 DEF Next

\* HandshakeOK is inductive.
LEMMA HandshakeKept ==
  ASSUME Inv, HandshakeOK, [Next]_vars
  PROVE  HandshakeOK'
<1>1. down \in Seq(DownFrame) /\ drops \in Nat
  BY SessionAssumption DEF Inv, FramesOK, LifeOK
<1>2. CASE Announce
  <2>1. RegisteredFrame \in DownFrame /\ IsFrame(RegisteredFrame, "registered", Nil)
    BY DEF DownFrame, RegisteredFrame, Frame, IsFrame
  <2>2. wsUp /\ ~ kicked /\ drops' = drops => Has(down', "registered", Nil)
    BY <1>1, <1>2, <2>1, SendHas DEF Announce
  <2>3. drops' = drops \/ drops' = drops + 1
    BY <1>2 DEF Announce, Send
  <2>4. drops' # drops => drops' > 0
    BY <1>1, <2>3
  <2>5. UNCHANGED <<looping, kicked, doomed, wsUp>> /\ handshake' = "announced" /\ handshake = "published"
    BY <1>2 DEF Announce, lifeVars, clientVars
  <2>6. QED
    BY <2>2, <2>4, <2>5 DEF HandshakeOK
<1>3. CASE Joins
  BY <1>3 DEF Joins, FirstFrame, HandshakeOK
<1>4. CASE Refuses
  BY <1>4 DEF Refuses, FirstFrame, HandshakeOK
<1>5. CASE LostEarly \/ Running
  <2>1. wsUp' = FALSE /\ UNCHANGED <<looping, kicked, doomed, handshake>>
    BY <1>5 DEF LostEarly, Running, ConnectionLost, WriterCloses, GoDown, clientVars, tcpVars
  <2>2. QED
    BY <2>1 DEF HandshakeOK
<1>6. CASE Reads
  <2>1. looping /\ handshake' = handshake
    BY <1>6 DEF Reads, ReceiveData, Exit, ClientExits, StartDrive, ReceiveOpen, ReceiveClose, Receive,
                tcpVars
  <2>2. kicked' => doomed'
    <3>1. ~ Joins
      BY <2>1 DEF Joins, HandshakeOK, FirstFrame
    <3>2. QED
      BY <3>1, Flags DEF HandshakeOK
  <2>3. QED
    BY <2>1, <2>2 DEF HandshakeOK
<1>7. ASSUME NEW s \in Stream, Sends(s) PROVE HandshakeOK'
  <2>1. PICK f \in {Frame("open", s, 0), Frame("data", s, taken[s] + 1), Frame("close", s, 0)} : Send(f)
    BY <1>7, SendsOnly
  <2>2. down \in Seq(DownFrame \cup {f})
    BY <1>1, SeqMonotonic
  <2>3. Has(down, "registered", Nil) => Has(down', "registered", Nil)
    BY <2>1, <2>2, SendHas
  <2>4. drops > 0 => drops' > 0
    BY <1>1, <2>1 DEF Send
  <2>5. UNCHANGED <<handshake, looping, kicked, doomed, wsUp>>
    BY <1>7, SendsOnly DEF lifeVars, clientVars
  <2>6. QED
    BY <2>3, <2>4, <2>5 DEF HandshakeOK
<1>8. CASE ~ (Announce \/ Joins \/ Refuses \/ LostEarly \/ Running \/ Reads \/ \E s \in Stream : Sends(s))
  <2>1. UNCHANGED <<handshake, down, drops, wsUp>>
    BY <1>8, OtherSteps
  <2>2. (looping' => looping) /\ (kicked' => kicked \/ doomed) /\ (doomed => doomed')
    BY <1>8, Flags
  <2>3. QED
    BY <2>1, <2>2 DEF HandshakeOK
<1>9. QED
  BY <1>2, <1>3, <1>4, <1>5, <1>6, <1>7, <1>8

\* HandshakeOK holds in every reachable state.
LEMMA HandshakeInvariant == Spec => [](Inv /\ HandshakeOK)
<1>1. Init => HandshakeOK
  BY DEF Init, SessionPublished, HandshakeOK
<1>2. Inv /\ HandshakeOK /\ [Next]_vars => HandshakeOK'
  BY HandshakeKept
<1>3. QED
  BY <1>1, <1>2, Invariant, PTL DEF Spec

\* A client that gives its session up because the first frame is that of a
\* visitor has the reply still to come: register refuses what was granted.
THEOREM RefusalIsOvertaking == Spec => RefusedWhenOvertaken
<1>1. ASSUME Inv, HandshakeOK, [Next]_vars
      PROVE  [handshake # "refused" /\ handshake' = "refused" =>
                \/ \E i \in 2 .. Len(down) : down[i] = RegisteredFrame
                \/ drops > 0 \/ doomed \/ ~ wsUp]_vars
  <2> SUFFICES ASSUME handshake # "refused", handshake' = "refused", drops <= 0, ~ doomed, wsUp
               PROVE  \E i \in 2 .. Len(down) : down[i] = RegisteredFrame
    <3>1. drops \in Nat
      BY <1>1, SessionAssumption DEF Inv, LifeOK
    <3>2. QED
      BY <3>1
  <2>1. Refuses
    <3>1. CASE Announce \/ Joins \/ LostEarly \/ Running \/ Reads
      BY <1>1, <3>1 DEF Announce, Joins, LostEarly, Running, tcpVars, Reads, ReceiveData, Exit, ClientExits, StartDrive,
                   ReceiveClose
    <3>2. CASE \E s \in Stream : Sends(s)
      BY <3>2, SendsOnly
    <3>3. CASE ~ (Announce \/ Joins \/ Refuses \/ LostEarly \/ Running \/ Reads \/ \E s \in Stream : Sends(s))
      BY <1>1, <3>3, OtherSteps
    <3>4. QED
      BY <3>1, <3>2, <3>3
  <2>2. handshake = "announced" /\ down # <<>> /\ Head(down) # RegisteredFrame
    BY <2>1 DEF Refuses, FirstFrame
  <2>3. Has(down, "registered", Nil)
    <3>1. ~ (drops > 0)
      <4>1. drops \in Nat
        BY <1>1, SessionAssumption DEF Inv, LifeOK
      <4>2. QED
        BY <4>1
    <3>2. QED
      BY <1>1, <2>2, <3>1 DEF HandshakeOK
  <2>4. PICK i \in 1 .. Len(down) : IsFrame(down[i], "registered", Nil)
    BY <2>3 DEF Has
  <2>5. down \in Seq(DownFrame) /\ down[i] \in DownFrame
    BY <1>1, <2>4, ElementOfSeq DEF Inv, FramesOK
  <2>6. down[i] = RegisteredFrame
    BY <2>4, <2>5 DEF DownFrame, IsFrame, CloseFrame, RegisteredFrame, Frame
  <2>7. i # 1
    BY <2>2, <2>5, <2>6, HeadTyped
  <2>8. i \in 2 .. Len(down)
    BY <2>4, <2>7
  <2>9. QED
    BY <2>6, <2>8
<1>2. QED
  BY <1>1, HandshakeInvariant, PTL DEF Spec, RefusedWhenOvertaken

-----------------------------------------------------------------------------
(***************************************************************************)
(* The order of what arrives.                                              *)
(***************************************************************************)

\* MsgOpenTCP is there once, before there is a driveTCPStream.
OpenOK(s) == Once(down, "open", s) /\ (Has(down, "open", s) => drive[s] = "none")

\* What the places of the goroutines say of the frames, and of the pipes.
EndsOK(s) ==
  /\ drive[s] \in {"dial", "bridge", "waiting"} => s \in known
  /\ Has(down, "close", s) => s \notin reqOpen
  /\ Has(up, "close", s) => drive[s] = "gone"
  /\ Len(got[s]) <= sent[s]
  /\ drive[s] = "none" => sent[s] = 0
  /\ serve[s] \in {"idle", "found", "opening", "head"} /\ s \in respOpen => s \in reqOpen
  /\ s \in taking => serve[s] \in {"bridge", "waiting", "done"}
  /\ s \in copying \ shut => drive[s] # "gone"

\* Chunks of the response that left the FIFO.
Holds(s) == held # Nil /\ held.id = s
Arrived(s) == IF Holds(s) THEN Len(got[s]) + 1 ELSE Len(got[s])

\* A bridge may still bring chunks to the visitor.
Towards(s) == serve[s] \in {"head", "bridge"} /\ s \in respOpen /\ visitor[s] # "closed"

\* The client ended the stream, and the visitor is there to see it.
Ended(s) ==
  /\ ~ torn /\ mapped /\ visitor[s] # "closed"
  /\ \/ s \notin respOpen /\ serve[s] # "failed"
     \/ serve[s] \in {"waiting", "done"}

Resp(s) ==
  /\ Numbered(got[s], 0)
  /\ Towards(s) =>
       /\ Holds(s) => held.n = Len(got[s]) + 1
       /\ Flow(up, wsUp, s, Arrived(s), sent[s], "close")
  /\ Ended(s) => Len(got[s]) = sent[s] /\ drive[s] = "gone"

\* Send gave no frame up that it would have had to queue.
Carried == drops = 0 /\ ~ kicked

\* Chunks of the request that left the FIFO.
Landed(s) == Len(local[s]) + Len(buf[s])

\* The request of a stream whose driveTCPStream has not ended.
ReqEarly(s) ==
  /\ Numbered(buf[s], Len(local[s]))
  /\ s \notin bufClosed => Flow(down, wsUp, s, Landed(s), taken[s], "close")
  /\ drive[s] = "none" => Preceded(down, s, "close") /\ (s \in pumping /\ wsUp => Has(down, "open", s))

Req(s) == Carried => Numbered(local[s], 0) /\ (drive[s] # "gone" => ReqEarly(s))

Order(s) == OpenOK(s) /\ EndsOK(s) /\ Resp(s) /\ Req(s)

OrderInv == Inv /\ \A s \in Stream : Order(s)

\* The types of what the invariant speaks of.
LEMMA OrderTypes ==
  ASSUME Inv, NEW s \in Stream
  PROVE  /\ down \in Seq(DownFrame) /\ up \in Seq(UpFrame) /\ Len(down) \in Nat /\ Len(up) \in Nat
         /\ got[s] \in Seq(1 .. RespLen) /\ Len(got[s]) \in Nat
         /\ local[s] \in Seq(1 .. ReqLen) /\ Len(local[s]) \in Nat
         /\ buf[s] \in Seq(1 .. ReqLen) /\ Len(buf[s]) \in Nat
         /\ sent[s] \in Nat /\ taken[s] \in Nat /\ drops \in Nat /\ wsUp \in BOOLEAN
         /\ Arrived(s) \in Nat /\ Landed(s) \in Nat
<1>1. got[s] \in Seq(1 .. RespLen) /\ local[s] \in Seq(1 .. ReqLen) /\ buf[s] \in Seq(1 .. ReqLen)
  BY DEF Inv, ChunksOK
<1>2. Len(got[s]) \in Nat /\ Len(local[s]) \in Nat /\ Len(buf[s]) \in Nat
  BY <1>1, LenProperties
<1>3. down \in Seq(DownFrame) /\ up \in Seq(UpFrame) /\ Len(down) \in Nat /\ Len(up) \in Nat
  BY LenProperties DEF Inv, FramesOK
<1>4. sent[s] \in Nat /\ taken[s] \in Nat
  BY TcpAssumption DEF Inv, PlacesOK
<1>5. drops \in Nat /\ wsUp \in BOOLEAN
  BY SessionAssumption DEF Inv, LifeOK
<1>6. Landed(s) \in Nat
  BY <1>2, SumTyped DEF Landed
<1>7. QED
  BY <1>1, <1>2, <1>3, <1>4, <1>5, <1>6 DEF Arrived

\* A stream that is not launched has no frame and no chunk anywhere.
LEMMA NotLaunched ==
  ASSUME Inv, NEW s \in Stream, s \notin Launched
  PROVE  /\ ~ Holds(s) /\ drive[s] = "none" /\ s \notin pumping /\ s \notin known
         /\ ~ Has(down, "open", s) /\ ~ Has(down, "close", s) /\ ~ Has(up, "close", s)
         /\ \A i \in 1 .. Len(down) : ~ IsChunk(down[i], s)
         /\ \A i \in 1 .. Len(up) : ~ IsChunk(up[i], s)
<1>1. \A f \in DownFrame : ~ IsFrame(f, "open", s) /\ ~ IsFrame(f, "close", s) /\ ~ IsChunk(f, s)
  BY DEF DownFrame, IsFrame, IsChunk, CloseFrame, RegisteredFrame, Frame
<1>2. \A f \in UpFrame : ~ IsFrame(f, "close", s) /\ ~ IsChunk(f, s)
  BY DEF UpFrame, RespFrame, IsFrame, IsChunk
<1>3. /\ \A i \in 1 .. Len(down) : down[i] \in DownFrame
      /\ \A i \in 1 .. Len(up) : up[i] \in UpFrame
  BY OrderTypes, ElementOfSeq
<1>4. ~ Holds(s)
  BY DEF Inv, FramesOK, RespFrame, Holds
<1>5. drive[s] = "none" /\ s \notin pumping /\ s \notin known
  BY DEF Inv, OthersLaunched
<1>6. QED
  BY <1>1, <1>2, <1>3, <1>4, <1>5 DEF Has

\* Chunks that are numbered from 1 are the first ones.
LEMMA WholeElements ==
  ASSUME NEW S, NEW q \in Seq(S), Numbered(q, 0)
  PROVE  q = Whole(Len(q))
<1>1. q \in [1 .. Len(q) -> S]
  BY LenProperties
<1>2. q = [i \in 1 .. Len(q) |-> q[i]]
  BY <1>1
<1>3. \A i \in 1 .. Len(q) : q[i] = i
  BY DEF Numbered
<1>4. QED
  BY <1>2, <1>3 DEF Whole

\* Initially nothing has arrived, and nothing is on its way.
LEMMA OrderInit == ASSUME Init PROVE \A s \in Stream : Order(s)
<1> SUFFICES ASSUME NEW s \in Stream PROVE Order(s)
  OBVIOUS
<1>1. /\ got[s] = <<>> /\ buf[s] = <<>> /\ local[s] = <<>> /\ drive[s] = "none" /\ serve[s] = "idle"
      /\ sent[s] = 0 /\ taken[s] = 0 /\ down = <<>> /\ up = <<>> /\ held = Nil /\ torn = FALSE
      /\ s \in reqOpen /\ s \in respOpen /\ s \notin pumping /\ s \notin taking /\ s \notin copying
      /\ s \notin bufClosed
  BY DEF Init, SessionPublished
<1>2. Len(<<>>) = 0 /\ \A i \in 1 .. Len(<<>>) : FALSE
  BY EmptySeq
<1>3. OpenOK(s)
  BY <1>1, <1>2 DEF OpenOK, Once, Has
<1>4. EndsOK(s)
  BY <1>1, <1>2 DEF EndsOK, Has
<1>5. Numbered(<<>>, 0)
  BY <1>2 DEF Numbered
<1>6. Resp(s)
  BY <1>1, <1>5 DEF Resp, Towards, Ended
<1>7. Req(s)
  <2>1. Landed(s) = 0
    BY <1>1, <1>2 DEF Landed
  <2>2. Flow(down, wsUp, s, 0, 0, "close")
    BY <1>1, <1>2, FlowStarts
  <2>3. Preceded(down, s, "close")
    BY <1>1, <1>2 DEF Preceded
  <2>4. Len(local[s]) = 0
    BY <1>1, <1>2
  <2>5. QED
    BY <1>1, <1>5, <2>1, <2>2, <2>3, <2>4 DEF Req, ReqEarly
<1>8. QED
  BY <1>3, <1>4, <1>6, <1>7 DEF Order

-----------------------------------------------------------------------------
(***************************************************************************)
(* What a kind of step does to the two directions of a stream.             *)
(***************************************************************************)

\* A step that does not concern the response.
LEMMA RespKept ==
  ASSUME NEW s \in Stream, Resp(s),
         UNCHANGED <<up, wsUp>>, got'[s] = got[s], sent'[s] = sent[s],
         drive[s] = "gone" => drive'[s] = "gone",
         Towards(s)' => Towards(s) /\ (held' = held \/ ~ (Holds(s) \/ Holds(s)')),
         Ended(s)' => Ended(s)
  PROVE  Resp(s)'
<1>1. Numbered(got[s], 0)'
  BY DEF Resp, Numbered
<1>2. ASSUME Towards(s)'
      PROVE  /\ Holds(s)' => held'.n = Len(got'[s]) + 1
             /\ Arrived(s)' = Arrived(s)
  BY <1>2 DEF Resp, Holds, Arrived
<1>3. QED
  BY <1>1, <1>2 DEF Resp

\* A step that does not concern the request.
LEMMA ReqKept ==
  ASSUME NEW s \in Stream, Req(s),
         UNCHANGED <<down, wsUp>>, buf'[s] = buf[s], local'[s] = local[s], taken'[s] = taken[s],
         Carried' => Carried,
         drive'[s] # "gone" => /\ drive[s] # "gone"
                               /\ drive'[s] = "none" => drive[s] = "none"
                               /\ s \in bufClosed => s \in bufClosed',
         s \in pumping' => s \in pumping
  PROVE  Req(s)'
<1>1. Landed(s)' = Landed(s)
  BY DEF Landed
<1>2. ASSUME Carried', drive'[s] # "gone" PROVE ReqEarly(s)'
  <2>1. ReqEarly(s)
    BY <1>2 DEF Req
  <2>2. Numbered(buf[s], Len(local[s]))'
    BY <2>1 DEF ReqEarly, Numbered
  <2>3. QED
    BY <1>1, <1>2, <2>1, <2>2 DEF ReqEarly
<1>3. Carried' => Numbered(local[s], 0)'
  BY DEF Req, Numbered
<1>4. QED
  BY <1>2, <1>3 DEF Req

\* A frame that is no chunk of s is taken from down, and s stays in front of the
\* end of its request.
LEMMA ReqTaken ==
  ASSUME Inv, NEW s \in Stream, OpenOK(s), Req(s), down # <<>>, down' = Tail(down), ~ IsChunk(Head(down), s),
         UNCHANGED <<wsUp, drops, kicked>>, buf'[s] = buf[s], local'[s] = local[s], taken'[s] = taken[s],
         s \in pumping' <=> s \in pumping,
         s \in bufClosed => s \in bufClosed',
         IF IsFrame(Head(down), "open", s) THEN drive'[s] = "dial" ELSE drive'[s] \in {drive[s], "gone"}
  PROVE  Req(s)'
<1>1. down \in Seq(DownFrame) /\ Landed(s) \in Nat /\ taken[s] \in Nat
  BY OrderTypes
<1>2. Carried' = Carried /\ Landed(s)' = Landed(s)
  BY DEF Carried, Landed
<1>3. ASSUME Carried, drive'[s] # "gone" PROVE ReqEarly(s)'
  <2>1. drive[s] # "gone"
    <3>1. IsFrame(Head(down), "open", s) => drive[s] = "none"
      BY <1>1, HasTail DEF OpenOK
    <3>2. QED
      BY <1>3, <3>1
  <2>2. ReqEarly(s)
    BY <1>3, <2>1 DEF Req
  <2>3. Numbered(buf[s], Len(local[s]))'
    BY <2>2 DEF ReqEarly, Numbered
  <2>4. s \notin bufClosed => Flow(down', wsUp, s, Landed(s), taken[s], "close")
    BY <1>1, <2>2, FlowTakeOther DEF ReqEarly
  <2>5. ASSUME drive'[s] = "none"
        PROVE  Preceded(down', s, "close") /\ (s \in pumping /\ wsUp => Has(down', "open", s))
    <3>1. ~ IsFrame(Head(down), "open", s) /\ drive[s] = "none"
      BY <1>3, <2>5
    <3>2. Preceded(down, s, "close") /\ (s \in pumping /\ wsUp => Has(down, "open", s))
      BY <2>2, <3>1 DEF ReqEarly
    <3>3. Preceded(down', s, "close")
      BY <1>1, <3>1, <3>2, PrecededTail
    <3>4. Has(down, "open", s) => Has(down', "open", s)
      BY <1>1, <3>1, HasTail
    <3>5. QED
      BY <3>2, <3>3, <3>4
  <2>6. QED
    BY <1>2, <2>3, <2>4, <2>5 DEF ReqEarly
<1>4. Carried => Numbered(local[s], 0)'
  BY DEF Req, Numbered
<1>5. QED
  BY <1>2, <1>3, <1>4 DEF Req

\* What Send costs when the invariant still promises something afterwards.
LEMMA SendCarried ==
  ASSUME Inv, NEW f, Send(f), UNCHANGED kicked, Carried'
  PROVE  Carried /\ drops' = 0 /\ drops = 0
<1>1. drops \in Nat /\ (drops' = drops \/ drops' = drops + 1) /\ drops' = 0
  BY SessionAssumption DEF Send, Carried, Inv, LifeOK
<1>2. QED
  BY <1>1 DEF Carried

\* A frame that is no chunk of s is handed to Send: one that opens s makes it
\* pump, one that closes it comes from its pump.
LEMMA ReqSent ==
  ASSUME Inv, NEW s \in Stream, Req(s), NEW f, Send(f), ~ IsChunk(f, s),
         UNCHANGED <<wsUp, kicked>>, buf'[s] = buf[s], local'[s] = local[s], taken'[s] = taken[s],
         drive'[s] = drive[s], s \in bufClosed' <=> s \in bufClosed,
         s \in pumping' => s \in pumping \/ IsFrame(f, "open", s),
         IsFrame(f, "close", s) => s \in pumping
  PROVE  Req(s)'
<1>1. Landed(s) \in Nat /\ taken[s] \in Nat /\ wsUp \in BOOLEAN /\ drops \in Nat
  BY OrderTypes
<1>2. down \in Seq(DownFrame \cup {f}) /\ f \in DownFrame \cup {f}
  <2>1. down \in Seq(DownFrame)
    BY OrderTypes
  <2>2. QED
    BY <2>1, SeqMonotonic
<1>3. Landed(s)' = Landed(s)
  BY DEF Landed
<1>4. ASSUME Carried', drive[s] # "gone" PROVE ReqEarly(s)'
  <2>1. Carried /\ drops' = drops
    BY <1>4, SendCarried
  <2>2. ReqEarly(s)
    BY <1>4, <2>1 DEF Req
  <2>3. Numbered(buf[s], Len(local[s]))'
    BY <2>2 DEF ReqEarly, Numbered
  <2>4. s \notin bufClosed => Flow(down', wsUp, s, Landed(s), taken[s], "close")
    BY <1>1, <1>2, <2>2, SendOther DEF ReqEarly
  <2>5. ASSUME drive[s] = "none"
        PROVE  Preceded(down', s, "close") /\ (s \in pumping' /\ wsUp => Has(down', "open", s))
    <3>1. Preceded(down, s, "close") /\ (s \in pumping /\ wsUp => Has(down, "open", s))
      BY <2>2, <2>5 DEF ReqEarly
    <3>2. Preceded(down', s, "close")
      BY <1>2, <3>1, SendPreceded
    <3>3. Has(down, "open", s) => Has(down', "open", s)
      BY <1>2, SendHas
    <3>4. wsUp /\ IsFrame(f, "open", s) => Has(down', "open", s)
      BY <1>1, <1>2, <2>1, SendHas DEF Carried
    <3>5. QED
      BY <3>1, <3>2, <3>3, <3>4
  <2>6. QED
    BY <1>3, <2>3, <2>4, <2>5 DEF ReqEarly
<1>5. Carried' => Numbered(local[s], 0)'
  <2>1. Carried' => Numbered(local[s], 0)
    BY SendCarried DEF Req
  <2>2. QED
    BY <2>1 DEF Numbered
<1>6. QED
  BY <1>4, <1>5 DEF Req

-----------------------------------------------------------------------------
(***************************************************************************)
(* Steps of the session.                                                   *)
(***************************************************************************)

\* Steps that take nothing from the FIFOs and close no pipe.
LEMMA QuietOrder ==
  ASSUME Inv, NEW s \in Stream, Order(s), WriteFails \/ ReaderExits \/ Killed \/ Kick \/ ReadLoopReturns,
         UNCHANGED tcpVars
  PROVE  Order(s)'
<1> USE DEF lifeVars, serverVars, wireVars, clientVars, tcpVars, inboundVars, outboundVars
<1>1. /\ UNCHANGED <<down, up, wsUp, reqOpen, respOpen, torn, drops, known, buf, bufClosed, tcpVars>>
      /\ held' = held \/ (held' = Nil /\ held.id \notin respOpen)
      /\ mapped' => mapped
      /\ ~ kicked' => ~ kicked
  BY DEF WriteFails, ReaderExits, Killed, Kick, ReadLoopReturns
<1>2. OpenOK(s)'
  BY <1>1 DEF Order, OpenOK
<1>3. EndsOK(s)'
  BY <1>1 DEF Order, EndsOK
<1>4. Resp(s)'
  <2>1. Towards(s)' => Towards(s) /\ (held' = held \/ ~ (Holds(s) \/ Holds(s)'))
    BY <1>1 DEF Towards, Holds
  <2>2. Ended(s)' => Ended(s)
    BY <1>1 DEF Ended
  <2>3. QED
    BY <1>1, <2>1, <2>2, RespKept DEF Order
<1>5. Req(s)'
  <2>1. Carried' => Carried
    BY <1>1 DEF Carried
  <2>2. QED
    BY <1>1, <2>1, ReqKept DEF Order
<1>6. QED
  BY <1>2, <1>3, <1>4, <1>5 DEF Order

\* The teardown ends what is promised of the response.
LEMMA TeardownOrder ==
  ASSUME Inv, NEW s \in Stream, Order(s), CloseSession, UNCHANGED tcpVars
  PROVE  Order(s)'
<1> USE DEF lifeVars, serverVars, wireVars, clientVars, tcpVars, inboundVars, outboundVars
<1>1. /\ UNCHANGED <<down, up, wsUp, held, kicked, drops, known, buf, bufClosed, tcpVars>>
      /\ torn' = TRUE
      /\ reqOpen' = reqOpen \ streams /\ respOpen' = respOpen \ streams
  BY DEF CloseSession, ClosePipes
<1>2. OpenOK(s)'
  BY <1>1 DEF Order, OpenOK
<1>3. EndsOK(s)'
  BY <1>1 DEF Order, EndsOK
<1>4. Resp(s)'
  <2>1. (Towards(s)' => Towards(s)) /\ ~ Ended(s)'
    BY <1>1 DEF Towards, Ended
  <2>2. QED
    BY <1>1, <2>1, RespKept DEF Order
<1>5. Req(s)'
  BY <1>1, ReqKept DEF Order, Carried
<1>6. QED
  BY <1>2, <1>3, <1>4, <1>5 DEF Order

\* The reader takes a chunk of a response.
LEMMA TakesDataOrder ==
  ASSUME Inv, NEW s \in Stream, Order(s), ReaderTakesData, UNCHANGED tcpVars
  PROVE  Order(s)'
<1> USE DEF lifeVars, serverVars, clientVars, tcpVars, inboundVars, outboundVars
<1> DEFINE f == Head(up)
<1>1. /\ up \in Seq(UpFrame) /\ up # <<>> /\ f \in RespFrame /\ up' = Tail(up) /\ held = Nil
      /\ f.type = "data"
  <2>1. f \in UpFrame
    BY OrderTypes, HeadTyped DEF ReaderTakesData
  <2>2. QED
    BY <2>1, OrderTypes DEF ReaderTakesData, UpFrame
<1>2. /\ UNCHANGED <<lifeVars, streams, reqOpen, respOpen, drops, down, clientVars, tcpVars>>
      /\ held' = IF f.id \in streams THEN f ELSE Nil
  BY DEF ReaderTakesData
<1>3. f # Nil
  <2>1. f \in [type : {"data"}, id : Stream, n : Nat]
    BY <1>1 DEF RespFrame, Launched
  <2>2. QED
    BY <2>1, SessionAssumption
<1> HIDE DEF f
<1>4. OpenOK(s)'
  BY <1>2 DEF Order, OpenOK
<1>5. EndsOK(s)'
  <2>1. Has(up', "close", s) => Has(up, "close", s)
    BY <1>1, HasTail
  <2>2. QED
    BY <1>2, <2>1 DEF Order, EndsOK
<1>6. Numbered(got[s], 0)' /\ (Ended(s)' => Ended(s)) /\ (Towards(s)' => Towards(s))
  BY <1>2 DEF Order, Resp, Numbered, Ended, Towards
<1>7. ASSUME Towards(s)
      PROVE  /\ Holds(s)' => held'.n = Len(got[s]) + 1
             /\ Flow(up', wsUp, s, Arrived(s)', sent[s], "close")
  <2>1. /\ Flow(up, wsUp, s, Len(got[s]), sent[s], "close")
        /\ Len(got[s]) \in Nat /\ sent[s] \in Nat
    BY <1>1, <1>7, OrderTypes DEF Order, Resp, Holds, Arrived
  <2>2. CASE f.id = s
    <3>1. s \in streams
      BY <1>7 DEF Inv, MapOK, Towards
    <3>2. held' = f /\ Holds(s)' /\ Arrived(s)' = Len(got[s]) + 1
      BY <1>2, <1>3, <2>2, <3>1 DEF Holds, Arrived
    <3>3. IsChunk(f, s)
      BY <1>1, <2>2 DEF IsChunk
    <3>4. f.n = Len(got[s]) + 1 /\ Flow(up', wsUp, s, Len(got[s]) + 1, sent[s], "close")
      BY <1>1, <2>1, <3>3, FlowTakeChunk DEF f
    <3>5. QED
      BY <3>2, <3>4
  <2>3. CASE f.id # s
    <3>1. ~ Holds(s)' /\ Arrived(s)' = Len(got[s])
      BY <1>2, <2>3 DEF Holds, Arrived
    <3>2. ~ IsChunk(f, s)
      BY <2>3 DEF IsChunk
    <3>3. Flow(up', wsUp, s, Len(got[s]), sent[s], "close")
      BY <1>1, <2>1, <3>2, FlowTakeOther DEF f
    <3>4. QED
      BY <3>1, <3>3
  <2>4. QED
    BY <2>2, <2>3
<1>8. Resp(s)'
  BY <1>2, <1>6, <1>7 DEF Order, Resp
<1>9. Req(s)'
  BY <1>2, ReqKept DEF Order, Carried
<1>10. QED
  BY <1>4, <1>5, <1>8, <1>9 DEF Order

\* The reader takes a MsgClose: all that was sent has arrived.
LEMMA TakesCloseOrder ==
  ASSUME Inv, NEW s \in Stream, Order(s), ReaderTakesClose, UNCHANGED tcpVars
  PROVE  Order(s)'
<1> USE DEF lifeVars, serverVars, clientVars, tcpVars, inboundVars, outboundVars
<1> DEFINE f == Head(up)
<1>1. up \in Seq(UpFrame) /\ up # <<>> /\ up' = Tail(up) /\ held = Nil /\ f.type = "close" /\ f \in UpFrame
  BY OrderTypes, HeadTyped DEF ReaderTakesClose
<1>2. /\ UNCHANGED <<lifeVars, held, drops, down, clientVars, tcpVars>>
      /\ reqOpen' = reqOpen \ ({f.id} \cap streams) /\ respOpen' = respOpen \ ({f.id} \cap streams)
  BY DEF ReaderTakesClose, CloseStream, ClosePipes
<1>3. ~ IsChunk(f, s) /\ (f.id = s => IsFrame(f, "close", s))
  BY <1>1 DEF IsFrame, IsChunk
<1> HIDE DEF f
<1>4. Has(up', "close", s) => Has(up, "close", s)
  BY <1>1, HasTail
<1>5. f.id = s => Has(up, "close", s)
  BY <1>1, <1>3, HasTail DEF f
<1>6. OpenOK(s)'
  BY <1>2 DEF Order, OpenOK
<1>7. EndsOK(s)'
  BY <1>2, <1>4 DEF Order, EndsOK
<1>8. ~ Holds(s) /\ ~ Holds(s)' /\ Arrived(s) = Len(got[s]) /\ Arrived(s)' = Len(got[s])
  BY <1>1, <1>2 DEF Holds, Arrived
<1>9. ASSUME Towards(s)
      PROVE  Flow(up, wsUp, s, Len(got[s]), sent[s], "close") /\ Len(got[s]) \in Nat /\ sent[s] \in Nat
  BY <1>8, <1>9, OrderTypes DEF Order, Resp
<1>10. ASSUME Towards(s)
       PROVE  Flow(up', wsUp, s, Len(got[s]), sent[s], "close") /\ (f.id = s => Len(got[s]) = sent[s])
  <2>1. Flow(up', wsUp, s, Len(got[s]), sent[s], "close")
    BY <1>1, <1>3, <1>9, <1>10, FlowTakeOther DEF f
  <2>2. f.id = s => Len(got[s]) = sent[s]
    BY <1>1, <1>3, <1>9, <1>10, FlowArrives DEF f
  <2>3. QED
    BY <2>1, <2>2
<1>11. (Towards(s)' => Towards(s)) /\ Numbered(got[s], 0)'
  BY <1>2 DEF Towards, Order, Resp, Numbered
<1>12. ASSUME Ended(s)', ~ Ended(s) PROVE Len(got[s]) = sent[s] /\ drive[s] = "gone"
  <2>1. f.id = s /\ s \in streams /\ s \in respOpen /\ visitor[s] # "closed" /\ serve[s] \notin {"waiting", "done"}
    BY <1>2, <1>12 DEF Ended
  <2>2. serve[s] \in {"head", "bridge"}
    <3>1. s \in Launched
      BY <1>1, <2>1 DEF UpFrame, RespFrame
    <3>2. QED
      BY <1>1, <2>1, <3>1 DEF Launched, Inv, MapOK
  <2>3. Len(got[s]) = sent[s]
    BY <1>10, <2>1, <2>2 DEF Towards
  <2>4. drive[s] = "gone"
    BY <1>5, <2>1 DEF Order, EndsOK
  <2>5. QED
    BY <2>3, <2>4
<1>13. Resp(s)'
  BY <1>2, <1>8, <1>10, <1>11, <1>12 DEF Order, Resp
<1>14. Req(s)'
  BY <1>2, ReqKept DEF Order, Carried
<1>15. QED
  BY <1>6, <1>7, <1>13, <1>14 DEF Order

\* Request bytes arrive at the client.
LEMMA ReceiveDataOrder ==
  ASSUME Inv, NEW s \in Stream, Order(s), ReceiveData, UNCHANGED tcpVars
  PROVE  Order(s)'
<1> USE DEF lifeVars, serverVars, tcpVars, inboundVars, outboundVars
<1> DEFINE f == Head(down)
<1>1. /\ down \in Seq(DownFrame) /\ down # <<>> /\ down' = Tail(down) /\ f \in DownFrame /\ f.type = "data"
  BY OrderTypes, HeadTyped DEF ReceiveData, Receive
<1>2. /\ buf' = IF f.id \in known \ bufClosed THEN [buf EXCEPT ![f.id] = Append(buf[f.id], f.n)] ELSE buf
      /\ UNCHANGED <<lifeVars, serverVars, drops, up, known, bufClosed, tcpVars>>
  BY DEF ReceiveData
<1>3. ~ IsFrame(f, "open", s) /\ ~ IsFrame(f, "close", s) /\ (IsChunk(f, s) <=> f.id = s)
  BY <1>1 DEF IsFrame, IsChunk
<1> HIDE DEF f
<1>4. Has(down', "open", s) <=> Has(down, "open", s)
  BY <1>1, <1>3, HasTail DEF f
<1>5. OpenOK(s)'
  <2>1. Once(down, "open", s) => Once(down', "open", s)
    BY <1>1, OnceTail
  <2>2. QED
    BY <1>2, <1>4, <2>1 DEF Order, OpenOK
<1>6. EndsOK(s)'
  <2>1. Has(down', "close", s) => Has(down, "close", s)
    BY <1>1, HasTail
  <2>2. QED
    BY <1>2, <2>1 DEF Order, EndsOK
<1>7. Resp(s)'
  <2>1. (Towards(s)' => Towards(s)) /\ (Ended(s)' => Ended(s))
    BY <1>2 DEF Towards, Ended
  <2>2. QED
    BY <1>2, <2>1, RespKept DEF Order
<1>8. CASE ~ (IsChunk(f, s) /\ s \in known \ bufClosed)
  <2>1. buf'[s] = buf[s]
    BY <1>2, <1>3, <1>8 DEF Inv, ChunksOK
  <2>2. CASE ~ IsChunk(f, s)
    <3>1. Req(s)'
      BY <1>1, <1>2, <1>3, <2>1, <2>2, ReqTaken DEF Order, f
    <3>2. QED
      BY <1>5, <1>6, <1>7, <3>1 DEF Order
  <2>3. CASE IsChunk(f, s)
    <3>1. ASSUME Carried, drive[s] # "gone" PROVE ReqEarly(s)'
      <4>1. ReqEarly(s)
        BY <3>1 DEF Order, Req
      <4>2. drive[s] # "none"
        <5>1. drive[s] = "none" => Preceded(down, s, "close")
          BY <4>1 DEF ReqEarly
        <5>2. QED
          BY <1>1, <2>3, <5>1, PrecededTail DEF f
      <4>3. s \in known
        BY <3>1, <4>2 DEF Order, EndsOK, Inv, PlacesOK
      <4>4. s \in bufClosed'
        BY <1>2, <1>8, <2>3, <4>3
      <4>5. Numbered(buf[s], Len(local[s]))'
        BY <1>2, <2>1, <4>1 DEF ReqEarly, Numbered
      <4>6. QED
        BY <1>2, <4>2, <4>4, <4>5 DEF ReqEarly
    <3>2. Carried' = Carried /\ (Carried => Numbered(local[s], 0)')
      BY <1>2 DEF Carried, Order, Req, Numbered
    <3>3. Req(s)'
      BY <1>2, <3>1, <3>2 DEF Req
    <3>4. QED
      BY <1>5, <1>6, <1>7, <3>3 DEF Order
  <2>4. QED
    BY <2>2, <2>3
<1>9. CASE IsChunk(f, s) /\ s \in known \ bufClosed
  <2>1. buf'[s] = Append(buf[s], f.n) /\ f.n \in 1 .. ReqLen
    <3>1. buf'[s] = Append(buf[s], f.n)
      BY <1>2, <1>3, <1>9 DEF Inv, ChunksOK
    <3>2. f.n \in 1 .. ReqLen
      BY <1>1 DEF DownFrame, CloseFrame, RegisteredFrame, Frame
    <3>3. QED
      BY <3>1, <3>2
  <2>2. ASSUME Carried, drive[s] # "gone" PROVE ReqEarly(s)'
    <3>1. ReqEarly(s)
      BY <2>2 DEF Order, Req
    <3>2. Landed(s) \in Nat /\ taken[s] \in Nat /\ buf[s] \in Seq(1 .. ReqLen) /\ Len(local[s]) \in Nat
      BY OrderTypes
    <3>3. f.n = Landed(s) + 1 /\ Flow(down', wsUp, s, Landed(s) + 1, taken[s], "close")
      BY <1>1, <1>9, <3>1, <3>2, FlowTakeChunk DEF f, ReqEarly
    <3>4. /\ Numbered(Append(buf[s], f.n), Len(local[s]))
          /\ Len(local[s]) + Len(Append(buf[s], f.n)) = Landed(s) + 1
      <4>1. f.n = (Len(local[s]) + Len(buf[s])) + 1
        BY <3>3 DEF Landed
      <4>2. QED
        BY <2>1, <3>1, <3>2, <4>1, NumberedAppend DEF ReqEarly, Landed
    <3>5. Landed(s)' = Landed(s) + 1 /\ Numbered(buf[s], Len(local[s]))'
      BY <1>2, <2>1, <3>4 DEF Landed, Numbered
    <3>6. drive[s] = "none" => Preceded(down', s, "close") /\ (s \in pumping /\ wsUp => Has(down', "open", s))
      BY <1>1, <1>3, <1>4, <3>1, PrecededTail DEF ReqEarly, f
    <3>7. QED
      BY <1>2, <3>3, <3>5, <3>6 DEF ReqEarly
  <2>3. Carried' = Carried /\ (Carried => Numbered(local[s], 0)')
    BY <1>2 DEF Carried, Order, Req, Numbered
  <2>4. Req(s)'
    BY <1>2, <2>2, <2>3 DEF Req
  <2>5. QED
    BY <1>5, <1>6, <1>7, <2>4 DEF Order
<1>10. QED
  BY <1>8, <1>9

\* The two FIFOs are cut off somewhere, with a frame that is of no stream behind.
LEMMA CutOrder ==
  ASSUME Inv, NEW s \in Stream, Order(s), wsUp' = FALSE,
         NEW n \in Nat, n <= Len(down), Len(down') \in Nat,
         \A i \in 1 .. Len(down') : i <= n => down'[i] = down[i],
         \A i \in 1 .. Len(down') : i > n => down'[i] = CloseFrame,
         NEW m \in Nat, m <= Len(up), Len(up') \in Nat,
         \A i \in 1 .. Len(up') : i <= m /\ up'[i] = up[i],
         UNCHANGED <<mapped, torn, kicked, held, reqOpen, respOpen, drops, known, buf, bufClosed>>,
         UNCHANGED <<inboundVars, outboundVars>>
  PROVE  Order(s)'
<1> USE DEF inboundVars, outboundVars
<1>1. Len(down) \in Nat /\ Len(up) \in Nat
  BY OrderTypes
<1>2. \A i \in 1 .. Len(down') : i > n =>
        ~ IsFrame(down'[i], "open", s) /\ ~ IsFrame(down'[i], "close", s) /\ ~ IsChunk(down'[i], s)
  BY DEF IsFrame, IsChunk, CloseFrame, Frame
<1>3. OpenOK(s)'
  <2>1. Has(down', "open", s) => Has(down, "open", s)
    BY <1>1, <1>2, HasPrefix
  <2>2. Once(down, "open", s) => Once(down', "open", s)
    BY <1>1, <1>2, HasPrefix
  <2>3. QED
    BY <2>1, <2>2 DEF Order, OpenOK
<1>4. EndsOK(s)'
  <2>1. Has(down', "close", s) => Has(down, "close", s)
    BY <1>1, <1>2, HasPrefix
  <2>2. Has(up', "close", s) => Has(up, "close", s)
    BY <1>1, HasPrefix
  <2>3. QED
    BY <2>1, <2>2 DEF Order, EndsOK
<1>5. Resp(s)'
  <2>1. ASSUME Towards(s)
        PROVE  Flow(up', FALSE, s, Arrived(s), sent[s], "close")
    <3>1. Flow(up, wsUp, s, Arrived(s), sent[s], "close") /\ Arrived(s) \in Nat /\ sent[s] \in Nat
      BY <2>1, OrderTypes DEF Order, Resp
    <3>2. \A i \in 1 .. Len(up') : i > m => ~ IsChunk(up'[i], s) /\ ~ IsFrame(up'[i], "close", s)
      OBVIOUS
    <3>3. \A i \in 1 .. Len(up') : i <= m => up'[i] = up[i]
      OBVIOUS
    <3>4. QED
      BY <1>1, <3>1, <3>2, <3>3, FlowGoesDown
  <2>2. Arrived(s)' = Arrived(s) /\ Holds(s)' = Holds(s) /\ Towards(s)' = Towards(s) /\ (Ended(s)' => Ended(s))
    BY DEF Arrived, Holds, Towards, Ended
  <2>3. Numbered(got[s], 0)'
    BY DEF Order, Resp, Numbered
  <2>4. QED
    BY <2>1, <2>2, <2>3 DEF Order, Resp
<1>6. Req(s)'
  <2>1. ASSUME Carried, drive[s] # "gone" PROVE ReqEarly(s)'
    <3>1. ReqEarly(s) /\ Landed(s) \in Nat /\ taken[s] \in Nat
      BY <2>1, OrderTypes DEF Order, Req
    <3>2. s \notin bufClosed => Flow(down', FALSE, s, Landed(s), taken[s], "close")
      BY <1>1, <1>2, <3>1, FlowGoesDown DEF ReqEarly
    <3>3. Preceded(down, s, "close") => Preceded(down', s, "close")
      BY <1>1, <1>2, PrecededPrefix
    <3>4. Landed(s)' = Landed(s) /\ Numbered(buf[s], Len(local[s]))'
      BY <3>1 DEF Landed, ReqEarly, Numbered
    <3>5. QED
      BY <3>1, <3>2, <3>3, <3>4 DEF ReqEarly
  <2>2. Carried' = Carried /\ (Carried => Numbered(local[s], 0)')
    BY DEF Carried, Order, Req, Numbered
  <2>3. QED
    BY <2>1, <2>2 DEF Req
<1>7. QED
  BY <1>3, <1>4, <1>5, <1>6 DEF Order

\* The WebSocket goes down.
LEMMA GoDownOrder ==
  ASSUME Inv, NEW s \in Stream, Order(s), NEW last \in {<<>>, <<CloseFrame>>}, GoDown(last), UNCHANGED tcpVars
  PROVE  Order(s)'
<1> USE DEF serverVars, clientVars, tcpVars
<1>1. last \in Seq(DownFrame) /\ \A i \in 1 .. Len(last) : last[i] = CloseFrame
  <2>1. CASE last = <<>>
    BY <2>1, EmptySeq
  <2>2. CASE last = <<CloseFrame>>
    <3>1. CloseFrame \in DownFrame
      BY DEF DownFrame
    <3>2. QED
      BY <2>2, <3>1
  <2>3. QED
    BY <2>1, <2>2
<1>2. PICK n \in 0 .. Len(down) : down' = SubSeq(down, 1, n) \o last
  BY DEF GoDown
<1>3. PICK m \in 0 .. Len(up) : up' = SubSeq(up, 1, m)
  BY DEF GoDown
<1>4. /\ n \in Nat /\ n <= Len(down) /\ Len(down') \in Nat
      /\ \A i \in 1 .. Len(down') : i <= n => down'[i] = down[i]
      /\ \A i \in 1 .. Len(down') : i > n => down'[i] = CloseFrame
  <2>1. down \in Seq(DownFrame)
    BY OrderTypes
  <2>2. /\ n \in Nat /\ n <= Len(down) /\ Len(down') \in Nat
        /\ \A i \in 1 .. Len(down') : i <= n => down'[i] = down[i]
        /\ \A i \in 1 .. Len(down') : i > n => i - n \in 1 .. Len(last) /\ down'[i] = last[i - n]
    BY <1>1, <1>2, <2>1, PrefixThen
  <2>3. QED
    BY <1>1, <2>2
<1>5. /\ m \in Nat /\ m <= Len(up) /\ Len(up') \in Nat
      /\ \A i \in 1 .. Len(up') : i <= m /\ up'[i] = up[i]
  <2>1. up \in Seq(UpFrame) /\ Len(up) \in Nat
    BY OrderTypes
  <2>2. Len(up') = m /\ \A i \in 1 .. m : up'[i] = up[i]
    BY <1>3, <2>1, PrefixOfSeq
  <2>3. QED
    BY <2>1, <2>2
<1>6. /\ UNCHANGED <<mapped, torn, kicked, held, reqOpen, respOpen, drops, known, buf, bufClosed>>
      /\ UNCHANGED <<inboundVars, outboundVars>> /\ wsUp' = FALSE
  BY DEF GoDown
<1>7. QED
  BY <1>4, <1>5, <1>6, CutOrder

\* The reply is handed to Send; the client takes it, or another frame.
LEMMA HandshakeOrder ==
  ASSUME Inv, NEW s \in Stream, Order(s), Announce \/ Joins \/ Refuses
  PROVE  Order(s)'
<1> USE DEF lifeVars, serverVars, clientVars, FirstFrame
<1>1. /\ UNCHANGED <<mapped, torn, kicked, held, reqOpen, respOpen, known, buf, bufClosed, up>>
      /\ UNCHANGED <<inboundVars, outboundVars>>
  BY DEF Announce, Joins, Refuses
<1>2. /\ ~ IsFrame(RegisteredFrame, "open", s) /\ ~ IsFrame(RegisteredFrame, "close", s)
      /\ ~ IsChunk(RegisteredFrame, s)
  BY DEF RegisteredFrame, Frame, IsFrame, IsChunk
<1>3. /\ Towards(s)' = Towards(s) /\ Ended(s)' = Ended(s)
  BY <1>1 DEF Towards, Ended, inboundVars
<1>4. CASE Announce
  <2>1. Send(RegisteredFrame) /\ wsUp' = wsUp
    BY <1>4 DEF Announce
  <2>2. down \in Seq(DownFrame) /\ RegisteredFrame \in DownFrame
    BY OrderTypes DEF DownFrame
  <2>3. OpenOK(s)'
    <3>1. /\ Has(down', "open", s) => Has(down, "open", s)
          /\ Once(down, "open", s) => Once(down', "open", s)
      BY <1>2, <2>1, <2>2, SendHas
    <3>2. QED
      BY <1>1, <3>1 DEF Order, OpenOK, outboundVars
  <2>4. EndsOK(s)'
    <3>1. Has(down', "close", s) => Has(down, "close", s)
      BY <1>2, <2>1, <2>2, SendHas
    <3>2. QED
      BY <1>1, <3>1 DEF Order, EndsOK, inboundVars, outboundVars
  <2>5. Resp(s)'
    BY <1>1, <1>3, <2>1, RespKept DEF Order, inboundVars, outboundVars
  <2>6. Req(s)'
    BY <1>1, <1>2, <2>1, ReqSent DEF Order, inboundVars, outboundVars
  <2>7. QED
    BY <2>3, <2>4, <2>5, <2>6 DEF Order
<1>5. CASE Joins
  <2>1. /\ down \in Seq(DownFrame) /\ down # <<>> /\ down' = Tail(down) /\ Head(down) = RegisteredFrame
        /\ UNCHANGED <<wsUp, drops>>
    BY <1>5, OrderTypes DEF Joins
  <2>2. OpenOK(s)'
    <3>1. /\ Has(down', "open", s) => Has(down, "open", s)
          /\ Once(down, "open", s) => Once(down', "open", s)
      BY <2>1, HasTail, OnceTail
    <3>2. QED
      BY <1>1, <3>1 DEF Order, OpenOK, outboundVars
  <2>3. EndsOK(s)'
    <3>1. Has(down', "close", s) => Has(down, "close", s)
      BY <2>1, HasTail
    <3>2. QED
      BY <1>1, <3>1 DEF Order, EndsOK, inboundVars, outboundVars
  <2>4. Resp(s)'
    BY <1>1, <1>3, <2>1, RespKept DEF Order, inboundVars, outboundVars
  <2>5. Req(s)'
    BY <1>1, <1>2, <2>1, ReqTaken DEF Order, inboundVars, outboundVars
  <2>6. QED
    BY <2>2, <2>3, <2>4, <2>5 DEF Order
<1>6. CASE Refuses
  <2>1. down' = <<>> /\ wsUp' = FALSE /\ drops' = drops
    BY <1>6 DEF Refuses
  <2>2. Len(down') = 0 /\ Len(down) \in Nat /\ Len(up) \in Nat
    BY <2>1, OrderTypes, EmptySeq
  <2>3. QED
    <3>1. 0 <= Len(down) /\ Len(up) <= Len(up) /\ Len(up') \in Nat
      BY <1>1, <2>2
    <3>2. \A i \in 1 .. Len(up') : i <= Len(up) /\ up'[i] = up[i]
      BY <1>1, <2>2
    <3>3. \A i \in 1 .. Len(down') : FALSE
      BY <2>2
    <3>4. QED
      BY <1>1, <2>1, <2>2, <3>1, <3>2, <3>3, CutOrder
<1>7. QED
  BY <1>4, <1>5, <1>6

-----------------------------------------------------------------------------
(***************************************************************************)
(* Steps of the server's end of a stream.                                  *)
(***************************************************************************)

\* A connection arrives and gets its stream; one that finds no session is closed.
LEMMA ArriveOrder ==
  ASSUME Inv, NEW s \in Stream, Order(s), NEW r \in Stream, Arrive(r) \/ OpenTCPStream(r)
  PROVE  Order(s)'
<1> USE DEF lifeVars, serverVars, wireVars, clientVars, sessionVars, outboundVars, Inbound
<1>1. /\ UNCHANGED <<lifeVars, reqOpen, respOpen, held, wireVars, clientVars, outboundVars>>
      /\ UNCHANGED <<handshake, kind, taking, taken, pumping, visitor, got>>
  BY DEF Arrive, OpenTCPStream, RegisterStream
<1>2. \/ serve'[s] = serve[s]
      \/ /\ serve[s] \in {"idle", "found"}
         /\ serve'[s] \in {"found", "opening"} \/ (serve'[s] = "done" /\ (torn \/ ~ mapped))
  <2>1. serve' = [serve EXCEPT ![r] = serve'[r]] /\ {r, s} \subseteq DOMAIN serve
    BY DEF Arrive, OpenTCPStream, Inv, PlacesOK
  <2>2. CASE Arrive(r)
    <3>1. kind[r] \in {"tcp", "upgrade"}
      BY DEF Inv, PlacesOK
    <3>2. /\ serve[r] = "idle"
          /\ serve'[r] = IF (kind[r] = "tcp" /\ ~torn) \/ (kind[r] = "upgrade" /\ mapped) THEN "found" ELSE "done"
      BY <2>1, <2>2 DEF Arrive
    <3>3. QED
      BY <2>1, <3>1, <3>2
  <2>3. CASE OpenTCPStream(r)
    BY <2>1, <2>3 DEF OpenTCPStream
  <2>4. QED
    BY <2>2, <2>3
<1>3. OpenOK(s)'
  BY <1>1 DEF Order, OpenOK
<1>4. EndsOK(s)'
  BY <1>1, <1>2 DEF Order, EndsOK
<1>5. Resp(s)'
  <2>1. (Towards(s)' => Towards(s)) /\ (Ended(s)' => Ended(s))
    BY <1>1, <1>2 DEF Towards, Ended
  <2>2. QED
    BY <1>1, <2>1, RespKept DEF Order
<1>6. Req(s)'
  BY <1>1, ReqKept DEF Order, Carried
<1>7. QED
  BY <1>3, <1>4, <1>5, <1>6 DEF Order

\* MsgOpenTCP is handed to Send.
LEMMA SendOpenOrder ==
  ASSUME Inv, NEW s \in Stream, Order(s), NEW r \in Stream, SendOpen(r)
  PROVE  Order(s)'
<1> USE DEF lifeVars, serverVars, clientVars, outboundVars, Inbound
<1> DEFINE f == Frame("open", r, 0)
<1>1. /\ Send(f)
      /\ UNCHANGED <<lifeVars, serverVars, up, clientVars, outboundVars, handshake, kind, taken, visitor, got>>
      /\ pumping' = pumping \cup {r}
      /\ serve[r] = "opening"
  BY DEF SendOpen, OnlySends
<1>2. /\ \/ taking' = taking /\ serve' = [serve EXCEPT ![r] = "head"]
         \/ taking' = taking \cup {r} /\ serve' = [serve EXCEPT ![r] = "bridge"]
      /\ {r, s} \subseteq DOMAIN serve
  BY DEF SendOpen, Inv, PlacesOK
<1>3. ~ IsFrame(f, "close", s) /\ ~ IsChunk(f, s) /\ (IsFrame(f, "open", s) <=> s = r)
  BY DEF Frame, IsFrame, IsChunk
<1> HIDE DEF f
<1>4. s = r => s \notin Launched
  BY <1>1 DEF Launched
<1>5. down \in Seq(DownFrame \cup {f}) /\ f \in DownFrame \cup {f}
  <2>1. down \in Seq(DownFrame)
    BY OrderTypes
  <2>2. QED
    BY <2>1, SeqMonotonic
<1>6. OpenOK(s)'
  <2>1. Has(down', "open", s) => Has(down, "open", s) \/ s = r
    BY <1>1, <1>3, <1>5, SendHas
  <2>2. s = r => ~ Has(down, "open", s) /\ drive[s] = "none"
    BY <1>4, NotLaunched
  <2>3. Once(down', "open", s)
    BY <1>1, <1>3, <1>5, <2>2, SendHas DEF Order, OpenOK
  <2>4. QED
    BY <1>1, <2>1, <2>2, <2>3 DEF Order, OpenOK
<1>7. EndsOK(s)'
  <2>1. Has(down', "close", s) => Has(down, "close", s)
    BY <1>1, <1>3, <1>5, SendHas
  <2>2. s \in taking' => serve'[s] \in {"bridge", "waiting", "done"}
    BY <1>1, <1>2 DEF Order, EndsOK
  <2>3. serve'[s] \in {"idle", "found", "opening", "head"} /\ s \in respOpen => s \in reqOpen
    BY <1>1, <1>2 DEF Order, EndsOK
  <2>4. QED
    BY <1>1, <2>1, <2>2, <2>3 DEF Order, EndsOK
<1>8. Ended(s)' => Ended(s)
  BY <1>1, <1>2 DEF Ended
<1>9. Resp(s)'
  <2>1. CASE s # r
    <3>1. Towards(s)' => Towards(s)
      BY <1>1, <1>2, <2>1 DEF Towards
    <3>2. QED
      BY <1>1, <1>8, <3>1, RespKept DEF Order
  <2>2. CASE s = r
    <3>1. ~ Holds(s) /\ drive[s] = "none" /\ \A i \in 1 .. Len(up) : ~ IsChunk(up[i], s)
      BY <1>4, <2>2, NotLaunched
    <3>2. Len(got[s]) \in Nat /\ Len(got[s]) = sent[s]
      <4>1. Len(got[s]) \in Nat /\ sent[s] \in Nat
        BY OrderTypes
      <4>2. QED
        BY <3>1, <4>1 DEF Order, EndsOK
    <3>3. Flow(up, wsUp, s, Len(got[s]), Len(got[s]), "close")
      BY <3>1, <3>2, FlowStarts
    <3>4. Holds(s)' = Holds(s) /\ Arrived(s)' = Len(got[s])
      BY <1>1, <3>1 DEF Holds, Arrived
    <3>5. Numbered(got[s], 0)'
      BY <1>1 DEF Order, Resp, Numbered
    <3>6. Ended(s) => Len(got[s]) = sent[s] /\ drive[s] = "gone"
      BY DEF Order, Resp
    <3>7. QED
      BY <1>1, <1>8, <3>1, <3>2, <3>3, <3>4, <3>5, <3>6 DEF Resp
  <2>3. QED
    BY <2>1, <2>2
<1>10. Req(s)'
  <2>1. s \in pumping' => s \in pumping \/ IsFrame(f, "open", s)
    BY <1>1, <1>3
  <2>2. QED
    BY <1>1, <1>3, <2>1, ReqSent DEF Order
<1>11. QED
  BY <1>6, <1>7, <1>9, <1>10 DEF Order

\* A chunk of the request is handed to Send.
LEMMA TakeOrder ==
  ASSUME Inv, NEW s \in Stream, Order(s), NEW r \in Stream, HeadWritten(r) \/ FromVisitor(r)
  PROVE  Order(s)'
<1> USE DEF lifeVars, serverVars, clientVars, outboundVars, Inbound
<1> DEFINE f == Frame("data", r, taken[r] + 1)
<1>1. /\ Send(f)
      /\ UNCHANGED <<lifeVars, serverVars, up, clientVars, outboundVars, handshake, kind, pumping, visitor, got>>
      /\ r \in pumping /\ r \in reqOpen
  BY DEF HeadWritten, FromVisitor, Take, OnlySends
<1>2. taken' = [taken EXCEPT ![r] = taken[r] + 1] /\ {r, s} \subseteq DOMAIN taken
  BY DEF HeadWritten, FromVisitor, Take, Inv, PlacesOK
<1>3. /\ \/ UNCHANGED <<serve, taking>>
         \/ serve[r] = "head" /\ taking' = taking \cup {r} /\ serve' = [serve EXCEPT ![r] = "bridge"]
      /\ {r, s} \subseteq DOMAIN serve
  BY DEF HeadWritten, FromVisitor, Inv, PlacesOK
<1>4. /\ ~ IsFrame(f, "open", s) /\ ~ IsFrame(f, "close", s) /\ (IsChunk(f, s) <=> s = r)
      /\ f.n = taken[r] + 1
  BY DEF Frame, IsFrame, IsChunk
<1> HIDE DEF f
<1>5. down \in Seq(DownFrame \cup {f}) /\ f \in DownFrame \cup {f}
  <2>1. down \in Seq(DownFrame)
    BY OrderTypes
  <2>2. QED
    BY <2>1, SeqMonotonic
<1>6. /\ Has(down', "open", s) <=> Has(down, "open", s)
      /\ Has(down', "close", s) => Has(down, "close", s)
      /\ Once(down, "open", s) => Once(down', "open", s)
  BY <1>1, <1>4, <1>5, SendHas
<1>7. OpenOK(s)'
  BY <1>1, <1>6 DEF Order, OpenOK
<1>8. EndsOK(s)'
  <2>1. s \in taking' => serve'[s] \in {"bridge", "waiting", "done"}
    BY <1>3 DEF Order, EndsOK
  <2>2. serve'[s] \in {"idle", "found", "opening", "head"} /\ s \in respOpen => s \in reqOpen
    BY <1>3 DEF Order, EndsOK
  <2>3. QED
    BY <1>1, <1>6, <2>1, <2>2 DEF Order, EndsOK
<1>9. Resp(s)'
  <2>1. (Towards(s)' => Towards(s)) /\ (Ended(s)' => Ended(s))
    BY <1>1, <1>3 DEF Towards, Ended
  <2>2. QED
    BY <1>1, <2>1, RespKept DEF Order
<1>10. CASE s # r
  <2>1. taken'[s] = taken[s]
    BY <1>2, <1>10
  <2>2. Req(s)'
    BY <1>1, <1>4, <1>10, <2>1, ReqSent DEF Order
  <2>3. QED
    BY <1>7, <1>8, <1>9, <2>2 DEF Order
<1>11. CASE s = r
  <2>1. ASSUME Carried', drive[s] # "gone" PROVE ReqEarly(s)'
    <3>1. Carried /\ drops' = 0 /\ drops = 0
      BY <1>1, <2>1, SendCarried
    <3>2. ReqEarly(s)
      BY <2>1, <3>1 DEF Order, Req
    <3>3. Numbered(buf[s], Len(local[s]))' /\ Landed(s)' = Landed(s) /\ taken'[s] = taken[s] + 1
      BY <1>1, <1>2, <1>11, <3>2 DEF ReqEarly, Numbered, Landed
    <3>4. ~ Has(down, "close", s)
      BY <1>1, <1>11 DEF Order, EndsOK
    <3>5. Landed(s) \in Nat /\ taken[s] \in Nat /\ wsUp \in BOOLEAN /\ drops \in Nat
      BY OrderTypes
    <3>6. s \notin bufClosed => Flow(down', wsUp, s, Landed(s), taken[s] + 1, "close")
      <4>1. IsChunk(f, s) /\ f.n = taken[s] + 1 /\ ~ kicked
        BY <1>4, <1>11, <3>1 DEF Carried
      <4>2. QED
        BY <1>1, <1>5, <3>1, <3>2, <3>4, <3>5, <4>1, SendChunk DEF ReqEarly
    <3>7. ASSUME drive[s] = "none"
          PROVE  Preceded(down', s, "close") /\ (s \in pumping /\ wsUp => Has(down', "open", s))
      <4>1. Preceded(down, s, "close") /\ (wsUp => Has(down, "open", s))
        BY <1>1, <1>11, <3>2, <3>7 DEF ReqEarly
      <4>2. Preceded(down', s, "close")
        BY <1>1, <1>5, <4>1, SendPreceded
      <4>3. QED
        BY <1>6, <4>1, <4>2
    <3>8. QED
      BY <1>1, <3>3, <3>6, <3>7 DEF ReqEarly
  <2>2. Carried' => Numbered(local[s], 0)'
    <3>1. Carried' => Numbered(local[s], 0)
      BY <1>1, SendCarried DEF Order, Req
    <3>2. QED
      BY <1>1, <3>1 DEF Numbered
  <2>3. Req(s)'
    BY <1>1, <2>1, <2>2 DEF Req
  <2>4. QED
    BY <1>7, <1>8, <1>9, <2>3 DEF Order
<1>12. QED
  BY <1>10, <1>11

\* The pump hands MsgClose to Send, after the request pipe was closed.
LEMMA PumpEndsOrder ==
  ASSUME Inv, NEW s \in Stream, Order(s), NEW r \in Stream, PumpEnds(r)
  PROVE  Order(s)'
<1> USE DEF lifeVars, serverVars, clientVars, outboundVars
<1> DEFINE f == Frame("close", r, 0)
<1>1. /\ Send(f)
      /\ UNCHANGED <<lifeVars, serverVars, up, clientVars, outboundVars>>
      /\ UNCHANGED <<handshake, kind, serve, taking, taken, visitor, got>>
      /\ pumping' = pumping \ {r} /\ r \in pumping /\ r \notin reqOpen
  BY DEF PumpEnds, OnlySends
<1>2. ~ IsFrame(f, "open", s) /\ ~ IsChunk(f, s) /\ (IsFrame(f, "close", s) <=> s = r)
  BY DEF Frame, IsFrame, IsChunk
<1> HIDE DEF f
<1>3. down \in Seq(DownFrame \cup {f}) /\ f \in DownFrame \cup {f}
  <2>1. down \in Seq(DownFrame)
    BY OrderTypes
  <2>2. QED
    BY <2>1, SeqMonotonic
<1>4. /\ Has(down', "open", s) => Has(down, "open", s)
      /\ Has(down', "close", s) => Has(down, "close", s) \/ s = r
      /\ Once(down, "open", s) => Once(down', "open", s)
  BY <1>1, <1>2, <1>3, SendHas
<1>5. OpenOK(s)'
  BY <1>1, <1>4 DEF Order, OpenOK
<1>6. EndsOK(s)'
  BY <1>1, <1>4 DEF Order, EndsOK
<1>7. Resp(s)'
  <2>1. (Towards(s)' => Towards(s)) /\ (Ended(s)' => Ended(s))
    BY <1>1 DEF Towards, Ended
  <2>2. QED
    BY <1>1, <2>1, RespKept DEF Order
<1>8. Req(s)'
  BY <1>1, <1>2, ReqSent DEF Order
<1>9. QED
  BY <1>5, <1>6, <1>7, <1>8 DEF Order

\* The goroutine that copies from the visitor ends.
LEMMA StopTakingOrder ==
  ASSUME Inv, NEW s \in Stream, Order(s), NEW r \in Stream, StopTaking(r)
  PROVE  Order(s)'
<1> USE DEF lifeVars, wireVars, clientVars, outboundVars
<1>1. /\ UNCHANGED <<lifeVars, respOpen, held, wireVars, clientVars, outboundVars>>
      /\ UNCHANGED <<handshake, kind, serve, taken, pumping, visitor, got>>
      /\ r \in taking /\ taking' = taking \ {r} /\ reqOpen' = reqOpen \ {r}
  BY DEF StopTaking, CloseRequest
<1>2. OpenOK(s)'
  BY <1>1 DEF Order, OpenOK
<1>3. EndsOK(s)'
  BY <1>1 DEF Order, EndsOK
<1>4. Resp(s)'
  <2>1. (Towards(s)' => Towards(s)) /\ (Ended(s)' => Ended(s))
    BY <1>1 DEF Towards, Ended
  <2>2. QED
    BY <1>1, <2>1, RespKept DEF Order
<1>5. Req(s)'
  BY <1>1, ReqKept DEF Order, Carried
<1>6. QED
  BY <1>2, <1>3, <1>4, <1>5 DEF Order

\* The visitor receives the chunk that WriteRespData holds.
LEMMA ToVisitorOrder ==
  ASSUME Inv, NEW s \in Stream, Order(s), NEW r \in Stream, ToVisitor(r)
  PROVE  Order(s)'
<1> USE DEF lifeVars, wireVars, clientVars, outboundVars
<1>1. /\ UNCHANGED <<lifeVars, reqOpen, respOpen, wireVars, clientVars, outboundVars>>
      /\ UNCHANGED <<handshake, kind, serve, taking, taken, pumping, visitor>>
      /\ Holds(r) /\ held' = Nil /\ Towards(r)
  BY DEF ToVisitor, HandOver, Holds, Towards
<1>2. got' = [got EXCEPT ![r] = Append(got[r], held.n)] /\ {r, s} \subseteq DOMAIN got
  BY DEF ToVisitor, Inv, ChunksOK
<1>3. OpenOK(s)'
  BY <1>1 DEF Order, OpenOK
<1>4. Req(s)'
  BY <1>1, ReqKept DEF Order, Carried
<1>5. ~ Holds(s)' /\ Towards(s)' = Towards(s) /\ Ended(s)' = Ended(s)
  BY <1>1 DEF Holds, Towards, Ended
<1>6. CASE s # r
  <2>1. got'[s] = got[s] /\ ~ Holds(s)
    BY <1>1, <1>2, <1>6 DEF Holds
  <2>2. EndsOK(s)'
    BY <1>1, <2>1 DEF Order, EndsOK
  <2>3. Resp(s)'
    BY <1>1, <1>5, <2>1, RespKept DEF Order
  <2>4. QED
    BY <1>3, <1>4, <2>2, <2>3 DEF Order
<1>7. CASE s = r
  <2>1. /\ held.n = Len(got[s]) + 1 /\ Flow(up, wsUp, s, Arrived(s), sent[s], "close")
        /\ Arrived(s) = Len(got[s]) + 1 /\ Numbered(got[s], 0)
    BY <1>1, <1>7 DEF Order, Resp, Arrived
  <2>2. got[s] \in Seq(1 .. RespLen) /\ Len(got[s]) \in Nat /\ held.n \in 1 .. RespLen
    <3>1. got[s] \in Seq(1 .. RespLen) /\ Len(got[s]) \in Nat
      BY OrderTypes
    <3>2. held.n \in 1 .. RespLen
      BY <1>1 DEF Holds, Inv, FramesOK, RespFrame
    <3>3. QED
      BY <3>1, <3>2
  <2>3. got'[s] = Append(got[s], held.n)
    BY <1>2, <1>7
  <2>4. Numbered(Append(got[s], held.n), 0) /\ Len(Append(got[s], held.n)) = Len(got[s]) + 1
    <3>1. held.n = (0 + Len(got[s])) + 1
      BY <2>1, <2>2
    <3>2. Numbered(Append(got[s], held.n), 0)
      BY <2>1, <2>2, <3>1, NumberedAppend
    <3>3. QED
      BY <2>2, <3>2, AppendProperties
  <2>5. Numbered(got[s], 0)' /\ Len(got'[s]) = Len(got[s]) + 1 /\ Arrived(s)' = Arrived(s)
    BY <1>5, <2>1, <2>3, <2>4 DEF Numbered, Arrived
  <2>6. Len(got'[s]) <= sent[s]
    BY <2>1, <2>5 DEF Flow
  <2>7. EndsOK(s)'
    BY <1>1, <2>6 DEF Order, EndsOK
  <2>8. ~ Ended(s)
    BY <1>1, <1>7 DEF Towards, Ended
  <2>9. Resp(s)'
    BY <1>1, <1>5, <2>1, <2>5, <2>8 DEF Resp
  <2>10. QED
    BY <1>3, <1>4, <2>7, <2>9 DEF Order
<1>8. QED
  BY <1>6, <1>7

\* proxyTCPConn or handleUpgrade stops copying to the visitor, or returns: the
\* response pipe is closed, or the visitor has left.
LEMMA ReturnOrder ==
  ASSUME Inv, NEW s \in Stream, Order(s), NEW r \in Stream,
         HeadFails(r) \/ PipeCloses(r) \/ WriteInVain(r) \/ UpgradeReturns(r)
  PROVE  Order(s)'
<1> USE DEF lifeVars, wireVars, clientVars, outboundVars, inboundVars, tcpVars, Inbound, CloseStream, ClosePipes, Bridged
<1>1. /\ UNCHANGED <<lifeVars, wireVars, clientVars, outboundVars>>
      /\ UNCHANGED <<handshake, kind, taking, taken, pumping, visitor, got>>
  BY DEF HeadFails, PipeCloses, WriteInVain, UpgradeReturns
<1>2. \/ UNCHANGED <<reqOpen, respOpen>>
      \/ reqOpen' = reqOpen \ ({r} \cap streams) /\ respOpen' = respOpen \ ({r} \cap streams)
  BY DEF HeadFails, PipeCloses, WriteInVain, UpgradeReturns
<1>3. /\ \/ UNCHANGED <<serve, reqOpen, respOpen>>
         \/ serve' = [serve EXCEPT ![r] = "waiting"]
         \/ serve' = [serve EXCEPT ![r] = "done"]
         \/ serve[r] = "head" /\ serve' = [serve EXCEPT ![r] = "failed"]
      /\ {r, s} \subseteq DOMAIN serve
      /\ serve[r] # "failed"
  <2>1. {r, s} \subseteq DOMAIN serve
    BY DEF Inv, PlacesOK
  <2>2. serve[r] # "failed"
    BY DEF HeadFails, PipeCloses, WriteInVain, UpgradeReturns
  <2>3. \/ UNCHANGED <<serve, reqOpen, respOpen>>
        \/ serve' = [serve EXCEPT ![r] = "waiting"]
        \/ serve' = [serve EXCEPT ![r] = "done"]
        \/ serve[r] = "head" /\ serve' = [serve EXCEPT ![r] = "failed"]
    <3>1. CASE HeadFails(r)
      BY <3>1 DEF HeadFails
    <3>2. CASE PipeCloses(r) \/ WriteInVain(r) \/ UpgradeReturns(r)
      BY <3>2 DEF PipeCloses, WriteInVain, UpgradeReturns
    <3>3. QED
      BY <3>1, <3>2
  <2>4. QED
    BY <2>1, <2>2, <2>3
<1>4. s = r => visitor[s] = "closed" \/ serve'[s] = "failed" \/ s \notin respOpen \/ serve[s] = "waiting"
  <2>1. CASE HeadFails(r)
    <3>1. s = r /\ s \in reqOpen => serve'[s] = "failed"
      BY <1>3, <2>1 DEF HeadFails
    <3>2. s = r /\ s \notin reqOpen => s \notin respOpen
      BY <2>1 DEF HeadFails, Order, EndsOK
    <3>3. QED
      BY <3>1, <3>2
  <2>2. CASE PipeCloses(r) \/ WriteInVain(r) \/ UpgradeReturns(r)
    BY <2>2 DEF PipeCloses, WriteInVain, UpgradeReturns
  <2>3. QED
    BY <2>1, <2>2
<1>5. held' = held \/ (held' = Nil /\ Holds(r) /\ visitor[r] = "closed")
  BY DEF HeadFails, PipeCloses, WriteInVain, UpgradeReturns, Holds
<1>6. OpenOK(s)'
  BY <1>1 DEF Order, OpenOK
<1>7. EndsOK(s)'
  <2>1. Has(down, "close", s) => s \notin reqOpen'
    BY <1>2 DEF Order, EndsOK
  <2>2. s \in taking => serve'[s] \in {"bridge", "waiting", "done"}
    BY <1>3 DEF Order, EndsOK
  <2>3. serve'[s] \in {"idle", "found", "opening", "head"} /\ s \in respOpen' => s \in reqOpen'
    BY <1>2, <1>3 DEF Order, EndsOK
  <2>4. QED
    BY <1>1, <2>1, <2>2, <2>3 DEF Order, EndsOK
<1>8. Resp(s)'
  <2>1. Towards(s)' => Towards(s)
    BY <1>1, <1>2, <1>3 DEF Towards
  <2>2. Towards(s)' => held' = held \/ ~ (Holds(s) \/ Holds(s)')
    BY <1>1, <1>5 DEF Towards, Holds
  <2>3. Ended(s)' => Ended(s)
    <3>1. CASE s # r
      BY <1>1, <1>2, <1>3, <3>1 DEF Ended
    <3>2. CASE s = r
      BY <1>1, <1>2, <1>3, <1>4, <3>2 DEF Ended
    <3>3. QED
      BY <3>1, <3>2
  <2>4. QED
    BY <1>1, <2>1, <2>2, <2>3, RespKept DEF Order
<1>9. Req(s)'
  BY <1>1, ReqKept DEF Order, Carried
<1>10. QED
  BY <1>6, <1>7, <1>8, <1>9 DEF Order

\* The visitor finishes, or leaves.
LEMMA VisitorOrder ==
  ASSUME Inv, NEW s \in Stream, Order(s), NEW r \in Stream, VisitorFinishes(r) \/ VisitorLeaves(r)
  PROVE  Order(s)'
<1> USE DEF lifeVars, serverVars, wireVars, clientVars, sessionVars, outboundVars
<1>1. /\ UNCHANGED <<sessionVars, outboundVars, handshake, kind, serve, taking, taken, pumping, got>>
      /\ visitor'[s] # "closed" => visitor[s] # "closed"
  BY DEF VisitorFinishes, VisitorLeaves, Inv, PlacesOK
<1>2. OpenOK(s)'
  BY <1>1 DEF Order, OpenOK
<1>3. EndsOK(s)'
  BY <1>1 DEF Order, EndsOK
<1>4. Resp(s)'
  <2>1. (Towards(s)' => Towards(s)) /\ (Ended(s)' => Ended(s))
    BY <1>1 DEF Towards, Ended
  <2>2. QED
    BY <1>1, <2>1, RespKept DEF Order
<1>5. Req(s)'
  BY <1>1, ReqKept DEF Order, Carried
<1>6. QED
  BY <1>2, <1>3, <1>4, <1>5 DEF Order

-----------------------------------------------------------------------------
(***************************************************************************)
(* Steps of the client's end of a stream.                                  *)
(***************************************************************************)

\* MsgOpenTCP arrives.
LEMMA StartDriveOrder ==
  ASSUME Inv, NEW s \in Stream, Order(s), NEW r \in Stream, StartDrive(r)
  PROVE  Order(s)'
<1> USE DEF lifeVars, serverVars, inboundVars
<1> DEFINE f == Head(down)
<1>1. /\ UNCHANGED <<lifeVars, serverVars, drops, up, buf, bufClosed, handshake, inboundVars>>
      /\ UNCHANGED <<copying, shut, service, local, sent>>
      /\ known' = known \cup {r}
      /\ down # <<>> /\ down' = Tail(down) /\ f.type = "open" /\ f.id = r
  BY DEF StartDrive, ReceiveOpen, Receive
<1>2. drive' = [drive EXCEPT ![r] = "dial"] /\ {r, s} \subseteq DOMAIN drive
  BY DEF StartDrive, Inv, PlacesOK
<1>3. ~ IsChunk(f, s) /\ ~ IsFrame(f, "close", s) /\ (IsFrame(f, "open", s) <=> s = r)
  BY <1>1 DEF IsChunk, IsFrame
<1> HIDE DEF f
<1>4. down \in Seq(DownFrame)
  BY OrderTypes
<1>5. Has(down', "open", s) => Has(down, "open", s) /\ s # r
  BY <1>1, <1>3, <1>4, HasTail, OnceTail DEF Order, OpenOK, f
<1>6. s = r => drive[s] = "none"
  BY <1>1, <1>3, <1>4, HasTail DEF Order, OpenOK, f
<1>7. OpenOK(s)'
  <2>1. Once(down', "open", s)
    BY <1>1, <1>4, OnceTail DEF Order, OpenOK
  <2>2. QED
    BY <1>2, <1>5, <2>1 DEF Order, OpenOK
<1>8. EndsOK(s)'
  <2>1. Has(down', "close", s) => Has(down, "close", s)
    BY <1>1, <1>4, HasTail
  <2>2. drive'[s] = IF s = r THEN "dial" ELSE drive[s]
    BY <1>2
  <2>3. QED
    BY <1>1, <1>6, <2>1, <2>2 DEF Order, EndsOK
<1>9. Resp(s)'
  <2>1. (Towards(s)' => Towards(s)) /\ (Ended(s)' => Ended(s))
    BY <1>1 DEF Towards, Ended
  <2>2. drive[s] = "gone" => drive'[s] = "gone"
    BY <1>2, <1>6
  <2>3. QED
    BY <1>1, <2>1, <2>2, RespKept DEF Order
<1>10. Req(s)'
  <2>1. IF IsFrame(f, "open", s) THEN drive'[s] = "dial" ELSE drive'[s] \in {drive[s], "gone"}
    BY <1>2, <1>3
  <2>2. QED
    BY <1>1, <1>3, <2>1, ReqTaken DEF Order, f
<1>11. QED
  BY <1>7, <1>8, <1>9, <1>10 DEF Order

\* MsgClose arrives at the client.
LEMMA ReceiveCloseOrder ==
  ASSUME Inv, NEW s \in Stream, Order(s), NEW r \in Stream, ReceiveClose(r)
  PROVE  Order(s)'
<1> USE DEF lifeVars, serverVars, inboundVars
<1> DEFINE f == Head(down)
<1>1. /\ UNCHANGED <<lifeVars, serverVars, drops, up, known, buf, handshake, inboundVars>>
      /\ UNCHANGED <<drive, copying, service, local, sent>>
      /\ bufClosed \subseteq bufClosed' /\ shut \subseteq shut'
      /\ down # <<>> /\ down' = Tail(down) /\ f.type = "close"
  BY DEF ReceiveClose, Receive
<1>2. ~ IsChunk(f, s) /\ ~ IsFrame(f, "open", s)
  BY <1>1 DEF IsChunk, IsFrame
<1> HIDE DEF f
<1>3. /\ Has(down', "open", s) => Has(down, "open", s)
      /\ Has(down', "close", s) => Has(down, "close", s)
      /\ Once(down, "open", s) => Once(down', "open", s)
  <2>1. down \in Seq(DownFrame)
    BY OrderTypes
  <2>2. QED
    BY <1>1, <2>1, HasTail, OnceTail
<1>4. OpenOK(s)'
  BY <1>1, <1>3 DEF Order, OpenOK
<1>5. EndsOK(s)'
  BY <1>1, <1>3 DEF Order, EndsOK
<1>6. Resp(s)'
  <2>1. (Towards(s)' => Towards(s)) /\ (Ended(s)' => Ended(s))
    BY <1>1 DEF Towards, Ended
  <2>2. QED
    BY <1>1, <2>1, RespKept DEF Order
<1>7. Req(s)'
  BY <1>1, <1>2, ReqTaken DEF Order, f
<1>8. QED
  BY <1>4, <1>5, <1>6, <1>7 DEF Order

\* The goroutines of the client and the service go on, but for chunks.
LEMMA PlacesOrder ==
  ASSUME Inv, NEW s \in Stream, Order(s), NEW r \in Stream,
         DialSucceeds(r) \/ ServiceRead(r) \/ StopCopying(r) \/ ServiceFinishes(r) \/ ServiceCloses(r)
  PROVE  Order(s)'
<1> USE DEF lifeVars, serverVars, wireVars, clientVars, sessionVars, inboundVars
<1>1. /\ UNCHANGED <<sessionVars, handshake, inboundVars, shut, local, sent>>
  BY DEF DialSucceeds, ServiceRead, StopCopying, ServiceFinishes, ServiceCloses
<1>2. /\ drive'[s] = drive[s] \/ (drive[s] \in {"dial", "bridge"} /\ drive'[s] \in {"bridge", "waiting"})
      /\ s \in copying' => s \in copying \/ drive'[s] = "bridge"
  <2>1. {r, s} \subseteq DOMAIN drive
    BY DEF Inv, PlacesOK
  <2>2. QED
    BY <2>1 DEF DialSucceeds, ServiceRead, StopCopying, ServiceFinishes, ServiceCloses
<1>3. OpenOK(s)'
  BY <1>1, <1>2 DEF Order, OpenOK
<1>4. EndsOK(s)'
  BY <1>1, <1>2 DEF Order, EndsOK
<1>5. Resp(s)'
  <2>1. (Towards(s)' => Towards(s)) /\ (Ended(s)' => Ended(s))
    BY <1>1 DEF Towards, Ended
  <2>2. drive[s] = "gone" => drive'[s] = "gone"
    BY <1>2
  <2>3. QED
    BY <1>1, <2>1, <2>2, RespKept DEF Order
<1>6. Req(s)'
  <2>1. drive'[s] # "gone" => drive[s] # "gone" /\ (drive'[s] = "none" => drive[s] = "none")
    BY <1>2
  <2>2. QED
    BY <1>1, <2>1, ReqKept DEF Order, Carried
<1>7. QED
  BY <1>3, <1>4, <1>5, <1>6 DEF Order

\* The service receives the next chunk of the buffer.
LEMMA ToServiceOrder ==
  ASSUME Inv, NEW s \in Stream, Order(s), NEW r \in Stream, ToService(r)
  PROVE  Order(s)'
<1> USE DEF lifeVars, serverVars, wireVars, inboundVars
<1>1. /\ UNCHANGED <<lifeVars, serverVars, wireVars, known, bufClosed, handshake, inboundVars>>
      /\ UNCHANGED <<drive, copying, shut, service, sent>>
      /\ buf[r] # <<>> /\ r \in copying \ shut
  BY DEF ToService, TakeChunk
<1>2. /\ buf' = [buf EXCEPT ![r] = Tail(buf[r])] /\ local' = [local EXCEPT ![r] = Append(local[r], Head(buf[r]))]
      /\ {r, s} \subseteq DOMAIN buf /\ {r, s} \subseteq DOMAIN local
  BY DEF ToService, TakeChunk, Inv, ChunksOK
<1>3. OpenOK(s)'
  BY <1>1 DEF Order, OpenOK
<1>4. EndsOK(s)'
  BY <1>1 DEF Order, EndsOK
<1>5. Resp(s)'
  <2>1. (Towards(s)' => Towards(s)) /\ (Ended(s)' => Ended(s))
    BY <1>1 DEF Towards, Ended
  <2>2. QED
    BY <1>1, <2>1, RespKept DEF Order
<1>6. CASE s # r
  <2>1. buf'[s] = buf[s] /\ local'[s] = local[s]
    BY <1>2, <1>6
  <2>2. Req(s)'
    BY <1>1, <2>1, ReqKept DEF Order, Carried
  <2>3. QED
    BY <1>3, <1>4, <1>5, <2>2 DEF Order
<1>7. CASE s = r
  <2>1. buf'[s] = Tail(buf[s]) /\ local'[s] = Append(local[s], Head(buf[s])) /\ buf[s] # <<>>
    BY <1>1, <1>2, <1>7
  <2>2. drive[s] # "gone" /\ Carried' = Carried
    BY <1>1, <1>7 DEF Order, EndsOK, Carried
  <2>3. ASSUME Carried PROVE Numbered(local[s], 0)' /\ ReqEarly(s)'
    <3>1. ReqEarly(s) /\ Numbered(local[s], 0)
      BY <2>2, <2>3 DEF Order, Req
    <3>2. /\ local[s] \in Seq(1 .. ReqLen) /\ Len(local[s]) \in Nat
          /\ buf[s] \in Seq(1 .. ReqLen) /\ Len(buf[s]) \in Nat
      BY OrderTypes
    <3>3. /\ Head(buf[s]) \in 1 .. ReqLen /\ Head(buf[s]) = Len(local[s]) + 1
          /\ Numbered(Tail(buf[s]), Len(local[s]) + 1)
          /\ (Len(local[s]) + 1) + Len(Tail(buf[s])) = Len(local[s]) + Len(buf[s])
      BY <2>1, <3>1, <3>2, NumberedTail DEF ReqEarly
    <3>4. Numbered(Append(local[s], Head(buf[s])), 0) /\ Len(Append(local[s], Head(buf[s]))) = Len(local[s]) + 1
      <4>1. Head(buf[s]) = (0 + Len(local[s])) + 1
        BY <3>2, <3>3
      <4>2. Numbered(Append(local[s], Head(buf[s])), 0)
        BY <3>1, <3>2, <3>3, <4>1, NumberedAppend
      <4>3. QED
        BY <3>2, <3>3, <4>2, AppendProperties
    <3>5. Numbered(local[s], 0)' /\ Len(local'[s]) = Len(local[s]) + 1
      BY <2>1, <3>4 DEF Numbered
    <3>6. Numbered(buf[s], Len(local[s]))'
      BY <2>1, <3>3, <3>5 DEF Numbered
    <3>7. Landed(s)' = Landed(s)
      BY <2>1, <3>3, <3>5 DEF Landed
    <3>8. QED
      BY <1>1, <3>1, <3>5, <3>6, <3>7 DEF ReqEarly
  <2>4. Req(s)'
    BY <2>2, <2>3 DEF Req
  <2>5. QED
    BY <1>3, <1>4, <1>5, <2>4 DEF Order
<1>8. QED
  BY <1>6, <1>7

\* A chunk of the service is sent to the server.
LEMMA FromServiceOrder ==
  ASSUME Inv, NEW s \in Stream, Order(s), NEW r \in Stream, FromService(r)
  PROVE  Order(s)'
<1> USE DEF lifeVars, serverVars, clientVars, inboundVars
<1> DEFINE f == Frame("data", r, sent[r] + 1)
<1>1. /\ UNCHANGED <<lifeVars, serverVars, drops, down, clientVars, handshake, inboundVars>>
      /\ UNCHANGED <<drive, copying, shut, service, local>>
      /\ wsUp /\ up' = Append(up, f) /\ drive[r] = "bridge"
  BY DEF FromService, SendUp
<1>2. sent' = [sent EXCEPT ![r] = sent[r] + 1] /\ {r, s} \subseteq DOMAIN sent
  BY DEF FromService, Inv, PlacesOK
<1>3. ~ IsFrame(f, "close", s) /\ (IsChunk(f, s) <=> s = r) /\ f.n = sent[r] + 1
  BY DEF Frame, IsFrame, IsChunk
<1> HIDE DEF f
<1>4. up \in Seq(UpFrame \cup {f}) /\ f \in UpFrame \cup {f}
  <2>1. up \in Seq(UpFrame)
    BY OrderTypes
  <2>2. QED
    BY <2>1, SeqMonotonic
<1>5. Has(up', "close", s) => Has(up, "close", s)
  BY <1>1, <1>3, <1>4, HasAppend
<1>6. OpenOK(s)'
  BY <1>1 DEF Order, OpenOK
<1>7. Req(s)'
  BY <1>1, ReqKept DEF Order, Carried
<1>8. /\ Towards(s)' = Towards(s) /\ Ended(s)' = Ended(s) /\ Holds(s)' = Holds(s) /\ Arrived(s)' = Arrived(s)
      /\ wsUp = TRUE /\ wsUp' = TRUE
  BY <1>1, OrderTypes DEF Towards, Ended, Holds, Arrived
<1>9. Numbered(got[s], 0)'
  BY <1>1 DEF Order, Resp, Numbered
<1>10. Len(got[s]) \in Nat /\ sent[s] \in Nat /\ Arrived(s) \in Nat
  BY OrderTypes
<1>11. CASE s # r
  <2>1. sent'[s] = sent[s]
    BY <1>2, <1>11
  <2>2. EndsOK(s)'
    BY <1>1, <1>5, <2>1 DEF Order, EndsOK
  <2>3. Towards(s) => Flow(up', wsUp, s, Arrived(s), sent[s], "close")
    BY <1>1, <1>3, <1>4, <1>8, <1>10, <1>11, FlowPutOther DEF Order, Resp
  <2>4. Resp(s)'
    BY <1>1, <1>8, <1>9, <2>1, <2>3 DEF Order, Resp
  <2>5. QED
    BY <1>6, <1>7, <2>2, <2>4 DEF Order
<1>12. CASE s = r
  <2>1. sent'[s] = sent[s] + 1 /\ drive[s] = "bridge"
    BY <1>1, <1>2, <1>12
  <2>2. Len(got[s]) <= sent'[s]
    BY <1>10, <2>1 DEF Order, EndsOK
  <2>3. EndsOK(s)'
    BY <1>1, <1>5, <2>1, <2>2 DEF Order, EndsOK
  <2>4. ~ Has(up, "close", s) /\ ~ Ended(s)
    BY <2>1 DEF Order, EndsOK, Resp
  <2>5. Towards(s) => Flow(up', wsUp, s, Arrived(s), sent[s] + 1, "close")
    BY <1>1, <1>3, <1>4, <1>8, <1>10, <1>12, <2>4, FlowPutChunk DEF Order, Resp
  <2>6. Resp(s)'
    BY <1>1, <1>8, <1>9, <2>1, <2>4, <2>5 DEF Order, Resp
  <2>7. QED
    BY <1>6, <1>7, <2>3, <2>6 DEF Order
<1>13. QED
  BY <1>11, <1>12

\* driveTCPStream ends, and sends MsgClose.
LEMMA FinishOrder ==
  ASSUME Inv, NEW s \in Stream, Order(s), NEW r \in Stream, DialInVain(r) \/ FinishDrive(r)
  PROVE  Order(s)'
<1> USE DEF lifeVars, serverVars, inboundVars
<1> DEFINE f == Frame("close", r, 0)
<1>1. /\ UNCHANGED <<lifeVars, serverVars, drops, down, buf, handshake, inboundVars, copying, local, sent>>
      /\ known' = known \ {r} /\ bufClosed' = bufClosed \cup {r} /\ shut' = shut \cup {r}
      /\ drive[r] \in {"dial", "waiting"}
      /\ up' = IF wsUp THEN Append(up, f) ELSE up
  BY DEF DialInVain, FinishDrive, DriveEnds, ClientFinishes, Farewell
<1>2. drive' = [drive EXCEPT ![r] = "gone"] /\ {r, s} \subseteq DOMAIN drive
  BY DEF DialInVain, FinishDrive, DriveEnds, Inv, PlacesOK
<1>3. ~ IsChunk(f, s) /\ (IsFrame(f, "close", s) <=> s = r)
  BY DEF Frame, IsFrame, IsChunk
<1> HIDE DEF f
<1>4. up \in Seq(UpFrame \cup {f}) /\ f \in UpFrame \cup {f}
  <2>1. up \in Seq(UpFrame)
    BY OrderTypes
  <2>2. QED
    BY <2>1, SeqMonotonic
<1>5. Has(up', "close", s) => Has(up, "close", s) \/ s = r
  BY <1>1, <1>3, <1>4, HasAppend
<1>6. drive'[s] = IF s = r THEN "gone" ELSE drive[s]
  BY <1>2
<1>7. OpenOK(s)'
  BY <1>1, <1>6 DEF Order, OpenOK
<1>8. EndsOK(s)'
  BY <1>1, <1>5, <1>6 DEF Order, EndsOK
<1>9. /\ Towards(s)' = Towards(s) /\ Ended(s)' = Ended(s) /\ Holds(s)' = Holds(s) /\ Arrived(s)' = Arrived(s)
  BY <1>1 DEF Towards, Ended, Holds, Arrived
<1>10. Resp(s)'
  <2>1. Numbered(got[s], 0)'
    BY <1>1 DEF Order, Resp, Numbered
  <2>2. ASSUME Towards(s)
        PROVE  Flow(up', wsUp, s, Arrived(s), sent[s], "close")
    <3>1. /\ Flow(up, wsUp, s, Arrived(s), sent[s], "close") /\ Arrived(s) \in Nat /\ sent[s] \in Nat
          /\ wsUp \in BOOLEAN
      BY <2>2, OrderTypes DEF Order, Resp
    <3>2. CASE wsUp
      <4>1. wsUp = TRUE /\ up' = Append(up, f)
        BY <1>1, <3>1, <3>2
      <4>2. QED
        BY <1>3, <1>4, <3>1, <4>1, FlowPutOther
    <3>3. CASE ~ wsUp
      BY <1>1, <3>1, <3>3
    <3>4. QED
      BY <3>2, <3>3
  <2>3. QED
    BY <1>1, <1>6, <1>9, <2>1, <2>2 DEF Order, Resp
<1>11. Req(s)'
  <2>1. drive'[s] # "gone" => drive[s] # "gone" /\ (drive'[s] = "none" => drive[s] = "none")
    BY <1>6
  <2>2. QED
    BY <1>1, <2>1, ReqKept DEF Order, Carried
<1>12. QED
  BY <1>7, <1>8, <1>10, <1>11 DEF Order

\* The process of the client ends.
LEMMA ExitOrder ==
  ASSUME Inv, NEW s \in Stream, Order(s), Exit
  PROVE  Order(s)'
<1> USE DEF lifeVars, serverVars, inboundVars
<1> DEFINE f == Head(down)
<1>1. /\ UNCHANGED <<lifeVars, serverVars, drops, up, buf, bufClosed, handshake, inboundVars>>
      /\ UNCHANGED <<shut, service, local, sent>>
      /\ copying' = {} /\ drive'[s] = IF drive[s] = "none" THEN "none" ELSE "gone"
      /\ down # <<>> /\ down' = Tail(down) /\ f.type = "4429"
  BY DEF Exit, ClientExits, Receive
<1>2. ~ IsChunk(f, s) /\ ~ IsFrame(f, "open", s)
  BY <1>1 DEF IsChunk, IsFrame
<1> HIDE DEF f
<1>3. /\ Has(down', "open", s) => Has(down, "open", s)
      /\ Has(down', "close", s) => Has(down, "close", s)
      /\ Once(down, "open", s) => Once(down', "open", s)
  <2>1. down \in Seq(DownFrame)
    BY OrderTypes
  <2>2. QED
    BY <1>1, <2>1, HasTail, OnceTail
<1>4. OpenOK(s)'
  BY <1>1, <1>3 DEF Order, OpenOK
<1>5. EndsOK(s)'
  BY <1>1, <1>3 DEF Order, EndsOK
<1>6. Resp(s)'
  <2>1. (Towards(s)' => Towards(s)) /\ (Ended(s)' => Ended(s))
    BY <1>1 DEF Towards, Ended
  <2>2. drive[s] = "gone" => drive'[s] = "gone"
    BY <1>1
  <2>3. QED
    BY <1>1, <2>1, <2>2, RespKept DEF Order
<1>7. Req(s)'
  <2>1. drive'[s] \in {drive[s], "gone"}
    BY <1>1
  <2>2. QED
    BY <1>1, <1>2, <2>1, ReqTaken DEF Order, f
<1>8. QED
  BY <1>4, <1>5, <1>6, <1>7 DEF Order

-----------------------------------------------------------------------------
(***************************************************************************)
(* The theorems.                                                           *)
(***************************************************************************)

\* No step loses the order of a stream.
LEMMA OrderKept ==
  ASSUME Inv, NEW s \in Stream, Order(s), [Next]_vars
  PROVE  Order(s)'
<1>1. CASE Announce \/ Joins \/ Refuses
  BY <1>1, HandshakeOrder
<1>2. CASE LostEarly \/ Running
  <2>1. PICK last \in {<<>>, <<CloseFrame>>} : GoDown(last)
    BY <1>2 DEF LostEarly, Running, ConnectionLost, WriterCloses
  <2>2. UNCHANGED tcpVars
    BY <1>2 DEF LostEarly, Running
  <2>3. QED
    BY <2>1, <2>2, GoDownOrder
<1>3. CASE (Serves \/ TearsDown \/ Killed \/ ReceiveData \/ ReadLoopReturns) /\ UNCHANGED tcpVars
  BY <1>3, QuietOrder, TeardownOrder, TakesDataOrder, TakesCloseOrder, ReceiveDataOrder DEF Serves, TearsDown
<1>4. CASE Exit
  BY <1>4, ExitOrder
<1>5. ASSUME NEW r \in Stream, Serve(r) PROVE Order(s)'
  BY <1>5, ArriveOrder, SendOpenOrder, TakeOrder, ReturnOrder, ToVisitorOrder DEF Serve
<1>6. ASSUME NEW r \in Stream, StopTaking(r) \/ PumpEnds(r) PROVE Order(s)'
  BY <1>6, StopTakingOrder, PumpEndsOrder
<1>7. ASSUME NEW r \in Stream, StartDrive(r) \/ ReceiveClose(r) PROVE Order(s)'
  BY <1>7, StartDriveOrder, ReceiveCloseOrder
<1>8. ASSUME NEW r \in Stream, Drive(r) \/ StopCopying(r) PROVE Order(s)'
  BY <1>8, PlacesOrder, FinishOrder, ToServiceOrder DEF Drive
<1>9. ASSUME NEW r \in Stream, Outside(r) PROVE Order(s)'
  BY <1>9, ArriveOrder, TakeOrder, VisitorOrder, FromServiceOrder, PlacesOrder DEF Outside
<1>10. CASE UNCHANGED vars
  <2> USE DEF vars, sessionVars, tcpVars, lifeVars, serverVars, wireVars, clientVars, inboundVars, outboundVars
  <2>1. OpenOK(s)' /\ EndsOK(s)'
    BY <1>10 DEF Order, OpenOK, EndsOK
  <2>2. Resp(s)'
    BY <1>10, RespKept DEF Order, Towards, Ended
  <2>3. Req(s)'
    BY <1>10, ReqKept DEF Order, Carried
  <2>4. QED
    BY <2>1, <2>2, <2>3 DEF Order
<1>11. QED
  BY <1>1, <1>2, <1>3, <1>4, <1>5, <1>6, <1>7, <1>8, <1>9, <1>10 DEF Next

\* The order of every stream holds in every behaviour.
LEMMA OrderInvariant == Spec => []OrderInv
<1>1. Init => \A s \in Stream : Order(s)
  BY OrderInit
<1>2. Inv /\ Inv' /\ (\A s \in Stream : Order(s)) /\ [Next]_vars => (\A s \in Stream : Order(s))'
  BY OrderKept
<1>3. QED
  BY <1>1, <1>2, Invariant, PTL DEF Spec, OrderInv

\* Neither end of a raw connection ever receives a chunk twice, out of order or
\* after a gap, for any number of streams, chunks and places in the queues: the
\* frames of the streams may mix, the session may be killed, closed or lost at any
\* moment.  The request's half holds as long as Send gives no frame up.
THEOREM ChunksInOrder == Spec => []InOrder
<1>1. ASSUME OrderInv PROVE InOrder
  <2> SUFFICES ASSUME NEW s \in Stream
               PROVE  /\ got[s] = Whole(Len(got[s]))
                      /\ drops = 0 /\ ~kicked => local[s] = Whole(Len(local[s]))
    BY DEF InOrder
  <2>1. got[s] \in Seq(1 .. RespLen) /\ local[s] \in Seq(1 .. ReqLen)
    BY <1>1, OrderTypes DEF OrderInv
  <2>2. Numbered(got[s], 0) /\ (drops = 0 /\ ~kicked => Numbered(local[s], 0))
    BY <1>1 DEF OrderInv, Order, Resp, Req, Carried
  <2>3. QED
    BY <2>1, <2>2, WholeElements
<1>2. QED
  BY <1>1, OrderInvariant, PTL

\* When the server closes a visitor's connection because the client said that the
\* stream is over, the visitor has received every chunk that was sent to it:
\* MsgClose never overtakes the chunks before it, not even the one WriteRespData
\* still holds.
THEOREM EndIsComplete == Spec => []NothingCutOff
<1>1. ASSUME OrderInv PROVE NothingCutOff
  <2> SUFFICES ASSUME NEW s \in Stream, serve[s] \in {"waiting", "done"}, mapped, ~torn, visitor[s] # "closed"
               PROVE  got[s] = Whole(sent[s])
    BY DEF NothingCutOff
  <2>1. got[s] \in Seq(1 .. RespLen)
    BY <1>1, OrderTypes DEF OrderInv
  <2>2. Numbered(got[s], 0) /\ Len(got[s]) = sent[s]
    BY <1>1 DEF OrderInv, Order, Resp, Ended
  <2>3. QED
    BY <2>1, <2>2, WholeElements
<1>2. QED
  BY <1>1, OrderInvariant, PTL

=============================================================================
