----------------------------- MODULE SessionProofs -----------------------------
(***************************************************************************)
(* Lemmas about the two FIFOs of Session, for the proofs about HttpStream  *)
(* and TcpStream.                                                          *)
(*                                                                         *)
(* The frames of all streams share a FIFO.  What matters of one stream is  *)
(* where its numbered chunks are: in order, each once, and without a gap   *)
(* after the last one that left the FIFO.                                  *)
(***************************************************************************)
EXTENDS Session, SequenceTheorems, TLAPS

\* Frame f is of this type and of stream s.
IsFrame(f, type, s) == f.type = type /\ f.id = s

\* There is one in q; there is at most one.
Has(q, type, s) == \E i \in 1 .. Len(q) : IsFrame(q[i], type, s)
Once(q, type, s) == \A i, j \in 1 .. Len(q) : IsFrame(q[i], type, s) /\ IsFrame(q[j], type, s) => i = j

\* Frame f carries a chunk of stream s.
IsChunk(f, s) == f.type = "data" /\ f.id = s

\* The chunks a + 1 to b of s are all in q, before place i.
AllBefore(q, i, s, a, b) ==
  \A m \in a + 1 .. b : \E j \in 1 .. i - 1 : IsChunk(q[j], s) /\ q[j].n = m

\* If a chunks of s have left q and b were put in, those in q are among
\* a + 1 to b, and each comes after all that are smaller and before all that
\* are greater.
InSequence(q, s, a, b) ==
  \A i \in 1 .. Len(q) : IsChunk(q[i], s) =>
    /\ q[i].n \in a + 1 .. b
    /\ \A j \in 1 .. i - 1 : IsChunk(q[j], s) => q[j].n < q[i].n
    /\ AllBefore(q, i, s, a, q[i].n - 1)

\* The chunks and the end of s come after the frame that opens it.
Preceded(q, s, end) ==
  \A i \in 1 .. Len(q) : IsChunk(q[i], s) \/ IsFrame(q[i], end, s) =>
    \E j \in 1 .. i - 1 : IsFrame(q[j], "open", s)

\* The chunks a + 1 to b of s are on their way in q: in sequence, all of them
\* if the WebSocket is up (w), and all of them before a frame that ends s.
Flow(q, w, s, a, b, end) ==
  /\ a <= b
  /\ InSequence(q, s, a, b)
  /\ w => AllBefore(q, Len(q) + 1, s, a, b)
  /\ \A i \in 1 .. Len(q) : IsFrame(q[i], end, s) => AllBefore(q, i, s, a, b)

-----------------------------------------------------------------------------
(***************************************************************************)
(* Sequences.                                                              *)
(***************************************************************************)

\* A prefix of a sequence over S is one.
LEMMA PrefixOfSeq ==
  ASSUME NEW S, NEW q \in Seq(S), NEW n \in 0 .. Len(q)
  PROVE  /\ SubSeq(q, 1, n) \in Seq(S) /\ Len(SubSeq(q, 1, n)) = n
         /\ \A i \in 1 .. n : SubSeq(q, 1, n)[i] = q[i]
<1>1. Len(q) \in Nat /\ \A i \in 1 .. Len(q) : q[i] \in S
  BY LenProperties, ElementOfSeq
<1>2. \A i \in 1 .. n : q[i] \in S
  BY <1>1
<1>3. QED
  BY <1>1, <1>2, SubSeqProperties

\* The frame at the head is typed, and so is what is left.
LEMMA HeadTyped ==
  ASSUME NEW S, NEW q \in Seq(S), q # <<>>
  PROVE  /\ Head(q) \in S /\ Tail(q) \in Seq(S)
         /\ Len(q) \in Nat \ {0} /\ Len(Tail(q)) = Len(q) - 1
         /\ Head(q) = q[1]
         /\ \A i \in 1 .. Len(q) - 1 : Tail(q)[i] = q[i + 1]
BY HeadTailProperties, LenProperties, EmptySeq

\* A prefix that another sequence follows, place by place.
LEMMA PrefixThen ==
  ASSUME NEW S, NEW q \in Seq(S), NEW n \in 0 .. Len(q), NEW last \in Seq(S), NEW r,
         r = SubSeq(q, 1, n) \o last
  PROVE  /\ n \in Nat /\ n <= Len(q) /\ Len(q) \in Nat /\ Len(r) \in Nat
         /\ \A i \in 1 .. Len(r) : i <= n => r[i] = q[i]
         /\ \A i \in 1 .. Len(r) : i > n => i - n \in 1 .. Len(last) /\ r[i] = last[i - n]
<1> DEFINE p == SubSeq(q, 1, n)
<1>1. /\ p \in Seq(S) /\ Len(p) = n /\ \A i \in 1 .. n : p[i] = q[i]
      /\ Len(q) \in Nat /\ Len(last) \in Nat
  BY PrefixOfSeq, LenProperties
<1> HIDE DEF p
<1>2. r = p \o last
  BY DEF p
<1>3. /\ Len(r) = Len(p) + Len(last)
      /\ \A i \in 1 .. Len(p) + Len(last) : r[i] = IF i <= Len(p) THEN p[i] ELSE last[i - Len(p)]
  BY <1>1, <1>2, ConcatProperties
<1>4. QED
  BY <1>1, <1>3

-----------------------------------------------------------------------------
(***************************************************************************)
(* What the operations of a FIFO do to the frames of one type.             *)
(***************************************************************************)

\* A frame leaves the head.
LEMMA HasTail ==
  ASSUME NEW F, NEW q \in Seq(F), q # <<>>, NEW type, NEW s
  PROVE  /\ Has(Tail(q), type, s) => Has(q, type, s)
         /\ IsFrame(Head(q), type, s) => Has(q, type, s)
         /\ Has(q, type, s) => Has(Tail(q), type, s) \/ IsFrame(Head(q), type, s)
<1> DEFINE r == Tail(q)
<1>1. /\ Len(q) \in Nat \ {0} /\ Len(r) = Len(q) - 1 /\ Head(q) = q[1]
      /\ \A i \in 1 .. Len(q) - 1 : r[i] = q[i + 1]
  BY HeadTyped
<1> HIDE DEF r
<1>2. Has(r, type, s) => Has(q, type, s)
  BY <1>1 DEF Has
<1>3. IsFrame(Head(q), type, s) => Has(q, type, s)
  BY <1>1 DEF Has
<1>4. ASSUME Has(q, type, s), ~ IsFrame(Head(q), type, s) PROVE Has(r, type, s)
  <2>1. PICK i \in 1 .. Len(q) : IsFrame(q[i], type, s)
    BY <1>4 DEF Has
  <2>2. i # 1
    BY <1>1, <1>4, <2>1
  <2>3. i - 1 \in 1 .. Len(r) /\ r[i - 1] = q[i]
    BY <1>1, <2>1, <2>2
  <2>4. QED
    BY <2>1, <2>3 DEF Has
<1>5. QED
  BY <1>2, <1>3, <1>4 DEF r

\* The only frame of its kind is gone when it has been taken.
LEMMA OnceTail ==
  ASSUME NEW F, NEW q \in Seq(F), q # <<>>, NEW type, NEW s, Once(q, type, s)
  PROVE  /\ Once(Tail(q), type, s)
         /\ IsFrame(Head(q), type, s) => ~ Has(Tail(q), type, s)
<1> DEFINE r == Tail(q)
<1>1. /\ Len(q) \in Nat \ {0} /\ Len(r) = Len(q) - 1 /\ Head(q) = q[1]
      /\ \A i \in 1 .. Len(q) - 1 : r[i] = q[i + 1]
  BY HeadTyped
<1> HIDE DEF r
<1>2. \A i \in 1 .. Len(r) : i + 1 \in 1 .. Len(q) /\ i + 1 # 1 /\ r[i] = q[i + 1]
  BY <1>1
<1>3. ASSUME NEW i \in 1 .. Len(r), NEW j \in 1 .. Len(r), IsFrame(r[i], type, s), IsFrame(r[j], type, s)
      PROVE  i = j
  <2>1. i + 1 = j + 1
    BY <1>2, <1>3 DEF Once
  <2>2. QED
    BY <2>1
<1>4. IsFrame(Head(q), type, s) => ~ Has(r, type, s)
  BY <1>1, <1>2 DEF Once, Has
<1>5. QED
  BY <1>3, <1>4 DEF Once, r

\* Behind the frame that opens the stream, the rest is still preceded by it.
LEMMA PrecededTail ==
  ASSUME NEW F, NEW q \in Seq(F), q # <<>>, NEW s, NEW end, Preceded(q, s, end)
  PROVE  /\ ~ IsChunk(Head(q), s) /\ ~ IsFrame(Head(q), end, s)
         /\ ~ IsFrame(Head(q), "open", s) => Preceded(Tail(q), s, end)
<1> DEFINE r == Tail(q)
<1>1. /\ Len(q) \in Nat \ {0} /\ Len(r) = Len(q) - 1 /\ Head(q) = q[1]
      /\ \A i \in 1 .. Len(q) - 1 : r[i] = q[i + 1]
  BY HeadTyped
<1> HIDE DEF r
<1>2. ~ IsChunk(Head(q), s) /\ ~ IsFrame(Head(q), end, s)
  BY <1>1 DEF Preceded
<1>3. ASSUME ~ IsFrame(Head(q), "open", s), NEW i \in 1 .. Len(r), IsChunk(r[i], s) \/ IsFrame(r[i], end, s)
      PROVE  \E j \in 1 .. i - 1 : IsFrame(r[j], "open", s)
  <2>1. i + 1 \in 1 .. Len(q) /\ r[i] = q[i + 1]
    BY <1>1
  <2>2. PICK j \in 1 .. (i + 1) - 1 : IsFrame(q[j], "open", s)
    BY <1>3, <2>1 DEF Preceded
  <2>3. j # 1
    BY <1>1, <1>3, <2>2
  <2>4. j - 1 \in 1 .. i - 1 /\ r[j - 1] = q[j]
    BY <1>1, <2>2, <2>3
  <2>5. QED
    BY <2>2, <2>4
<1>4. QED
  BY <1>2, <1>3 DEF Preceded, r

\* A frame is put in.
LEMMA HasAppend ==
  ASSUME NEW F, NEW q \in Seq(F), NEW f \in F, NEW type, NEW s
  PROVE  Has(Append(q, f), type, s) <=> Has(q, type, s) \/ IsFrame(f, type, s)
<1> DEFINE r == Append(q, f)
<1>1. Len(q) \in Nat /\ Len(r) = Len(q) + 1 /\ r[Len(q) + 1] = f /\ \A i \in 1 .. Len(q) : r[i] = q[i]
  BY AppendProperties, LenProperties
<1> HIDE DEF r
<1>2. Has(q, type, s) \/ IsFrame(f, type, s) => Has(r, type, s)
  BY <1>1 DEF Has
<1>3. Has(r, type, s) => Has(q, type, s) \/ IsFrame(f, type, s)
  <2>1. \A i \in 1 .. Len(r) : i = Len(q) + 1 \/ i \in 1 .. Len(q)
    BY <1>1
  <2>2. QED
    BY <1>1, <2>1 DEF Has
<1>4. QED
  BY <1>2, <1>3 DEF r

\* A frame that was not there is there once when it is added.
LEMMA OnceAppend ==
  ASSUME NEW F, NEW q \in Seq(F), NEW f \in F, NEW type, NEW s, Once(q, type, s),
         ~ Has(q, type, s) \/ ~ IsFrame(f, type, s)
  PROVE  Once(Append(q, f), type, s)
<1> DEFINE r == Append(q, f)
<1>1. Len(q) \in Nat /\ Len(r) = Len(q) + 1 /\ r[Len(q) + 1] = f /\ \A i \in 1 .. Len(q) : r[i] = q[i]
  BY AppendProperties, LenProperties
<1> HIDE DEF r
<1>2. \A i \in 1 .. Len(r) : i = Len(q) + 1 \/ i \in 1 .. Len(q)
  BY <1>1
<1>3. QED
  BY <1>1, <1>2 DEF Once, Has, r

\* What is added behind the frame that opens the stream is preceded by it.
LEMMA PrecededAppend ==
  ASSUME NEW F, NEW q \in Seq(F), NEW f \in F, NEW s, NEW end, Preceded(q, s, end),
         Has(q, "open", s) \/ ~ (IsChunk(f, s) \/ IsFrame(f, end, s))
  PROVE  Preceded(Append(q, f), s, end)
<1> DEFINE r == Append(q, f)
<1>1. Len(q) \in Nat /\ Len(r) = Len(q) + 1 /\ r[Len(q) + 1] = f /\ \A i \in 1 .. Len(q) : r[i] = q[i]
  BY AppendProperties, LenProperties
<1> HIDE DEF r
<1>2. ASSUME NEW i \in 1 .. Len(r), IsChunk(r[i], s) \/ IsFrame(r[i], end, s)
      PROVE  \E j \in 1 .. i - 1 : IsFrame(r[j], "open", s)
  <2>1. CASE i = Len(q) + 1
    <3>1. PICK j \in 1 .. Len(q) : IsFrame(q[j], "open", s)
      BY <1>1, <1>2, <2>1 DEF Has
    <3>2. j \in 1 .. i - 1 /\ r[j] = q[j]
      BY <1>1, <2>1, <3>1
    <3>3. QED
      BY <3>1, <3>2
  <2>2. CASE i # Len(q) + 1
    <3>1. i \in 1 .. Len(q) /\ r[i] = q[i]
      BY <1>1, <2>2
    <3>2. PICK j \in 1 .. i - 1 : IsFrame(q[j], "open", s)
      BY <1>2, <3>1 DEF Preceded
    <3>3. r[j] = q[j]
      BY <1>1, <3>1, <3>2
    <3>4. QED
      BY <3>2, <3>3
  <2>3. QED
    BY <2>1, <2>2
<1>3. QED
  BY <1>2 DEF Preceded, r

\* A prefix is left, which frames that are none of these may follow.
LEMMA HasPrefix ==
  ASSUME NEW q, NEW r, NEW n \in Nat, NEW type, NEW s,
         Len(q) \in Nat, Len(r) \in Nat, n <= Len(q),
         \A i \in 1 .. Len(r) : i <= n => r[i] = q[i],
         \A i \in 1 .. Len(r) : i > n => ~ IsFrame(r[i], type, s)
  PROVE  /\ Has(r, type, s) => Has(q, type, s)
         /\ Once(q, type, s) => Once(r, type, s)
<1>1. ASSUME NEW i \in 1 .. Len(r), IsFrame(r[i], type, s)
      PROVE  i \in 1 .. Len(q) /\ r[i] = q[i] /\ IsFrame(q[i], type, s)
  <2>1. i <= n
    BY <1>1
  <2>2. i \in 1 .. Len(q) /\ r[i] = q[i]
    BY <2>1
  <2>3. QED
    BY <1>1, <2>2
<1>2. Has(r, type, s) => Has(q, type, s)
  BY <1>1 DEF Has
<1>3. Once(q, type, s) => Once(r, type, s)
  BY <1>1 DEF Once
<1>4. QED
  BY <1>2, <1>3

\* A suffix that is lost leaves the rest preceded.
LEMMA PrecededPrefix ==
  ASSUME NEW q, NEW r, NEW n \in Nat, NEW s, NEW end,
         Len(q) \in Nat, Len(r) \in Nat, n <= Len(q), Preceded(q, s, end),
         \A i \in 1 .. Len(r) : i <= n => r[i] = q[i],
         \A i \in 1 .. Len(r) : i > n => ~ IsChunk(r[i], s) /\ ~ IsFrame(r[i], end, s)
  PROVE  Preceded(r, s, end)
<1> SUFFICES ASSUME NEW i \in 1 .. Len(r), IsChunk(r[i], s) \/ IsFrame(r[i], end, s)
             PROVE  \E j \in 1 .. i - 1 : IsFrame(r[j], "open", s)
  BY DEF Preceded
<1>1. i <= n /\ i \in 1 .. Len(q) /\ r[i] = q[i] /\ \A j \in 1 .. i - 1 : r[j] = q[j]
  OBVIOUS
<1>2. IsChunk(q[i], s) \/ IsFrame(q[i], end, s)
  BY <1>1
<1>3. PICK j \in 1 .. i - 1 : IsFrame(q[j], "open", s)
  BY <1>1, <1>2 DEF Preceded
<1>4. QED
  BY <1>1, <1>3

-----------------------------------------------------------------------------
(***************************************************************************)
(* What the operations of a FIFO do to the chunks of one stream.           *)
(***************************************************************************)

\* Nothing sent and nothing taken is in sequence.
LEMMA NoneInSequence ==
  ASSUME NEW q, NEW s, NEW a, NEW b, \A i \in 1 .. Len(q) : ~ IsChunk(q[i], s)
  PROVE  InSequence(q, s, a, b)
BY DEF InSequence

\* The chunks of s that the sender lost after the last one in q do not disturb
\* those in q.
LEMMA MoreSent ==
  ASSUME NEW q, NEW s, NEW a \in Nat, NEW b \in Nat, NEW c \in Nat, b <= c, InSequence(q, s, a, b)
  PROVE  InSequence(q, s, a, c)
BY DEF InSequence

\* A prefix of q, which frames that are no chunks of s may follow.
LEMMA PrefixInSequence ==
  ASSUME NEW q, NEW r, NEW s, NEW a \in Nat, NEW b \in Nat, NEW n \in Nat,
         Len(q) \in Nat, Len(r) \in Nat, n <= Len(q),
         \A i \in 1 .. Len(r) : i <= n => r[i] = q[i],
         \A i \in 1 .. Len(r) : i > n => ~ IsChunk(r[i], s),
         InSequence(q, s, a, b)
  PROVE  InSequence(r, s, a, b)
<1> SUFFICES ASSUME NEW i \in 1 .. Len(r), IsChunk(r[i], s)
             PROVE  /\ r[i].n \in a + 1 .. b
                    /\ \A j \in 1 .. i - 1 : IsChunk(r[j], s) => r[j].n < r[i].n
                    /\ AllBefore(r, i, s, a, r[i].n - 1)
  BY DEF InSequence
<1>1. i <= n /\ i \in 1 .. Len(q) /\ \A j \in 1 .. i : r[j] = q[j]
  OBVIOUS
<1>2. r[i] = q[i] /\ IsChunk(q[i], s)
  BY <1>1
<1>3. /\ q[i].n \in a + 1 .. b
      /\ \A j \in 1 .. i - 1 : IsChunk(q[j], s) => q[j].n < q[i].n
      /\ AllBefore(q, i, s, a, q[i].n - 1)
  BY <1>1, <1>2 DEF InSequence
<1>4. AllBefore(r, i, s, a, r[i].n - 1)
  BY <1>1, <1>2, <1>3 DEF AllBefore
<1>5. QED
  BY <1>1, <1>2, <1>3, <1>4

\* What precedes a place stays there if the frames up to it do.
LEMMA PrefixAllBefore ==
  ASSUME NEW q, NEW r, NEW s, NEW a, NEW b, NEW i \in Nat,
         \A j \in 1 .. i - 1 : r[j] = q[j],
         AllBefore(q, i, s, a, b)
  PROVE  AllBefore(r, i, s, a, b)
BY DEF AllBefore

\* The frame that leaves the head is no chunk of s.
LEMMA TailOther ==
  ASSUME NEW F, NEW q \in Seq(F), q # <<>>, NEW s, NEW a \in Nat, NEW b \in Nat,
         ~ IsChunk(Head(q), s), InSequence(q, s, a, b)
  PROVE  InSequence(Tail(q), s, a, b)
<1> DEFINE r == Tail(q)
<1>1. /\ Len(q) \in Nat \ {0} /\ Len(r) = Len(q) - 1 /\ Head(q) = q[1]
      /\ \A i \in 1 .. Len(q) - 1 : r[i] = q[i + 1]
  BY HeadTyped
<1> HIDE DEF r
<1> SUFFICES ASSUME NEW i \in 1 .. Len(r), IsChunk(r[i], s)
             PROVE  /\ r[i].n \in a + 1 .. b
                    /\ \A j \in 1 .. i - 1 : IsChunk(r[j], s) => r[j].n < r[i].n
                    /\ AllBefore(r, i, s, a, r[i].n - 1)
  BY DEF InSequence, r
<1>2. i + 1 \in 1 .. Len(q) /\ r[i] = q[i + 1] /\ IsChunk(q[i + 1], s)
  BY <1>1
<1>3. /\ r[i].n \in a + 1 .. b
      /\ \A j \in 1 .. (i + 1) - 1 : IsChunk(q[j], s) => q[j].n < r[i].n
      /\ AllBefore(q, i + 1, s, a, r[i].n - 1)
  BY <1>2 DEF InSequence
<1>4. \A j \in 1 .. i - 1 : j + 1 \in 1 .. (i + 1) - 1 /\ r[j] = q[j + 1]
  BY <1>1
<1>5. ASSUME NEW m \in a + 1 .. r[i].n - 1
      PROVE  \E j \in 1 .. i - 1 : IsChunk(r[j], s) /\ r[j].n = m
  <2>1. PICK j \in 1 .. (i + 1) - 1 : IsChunk(q[j], s) /\ q[j].n = m
    BY <1>3 DEF AllBefore
  <2>2. j # 1
    BY <1>1, <2>1
  <2>3. j - 1 \in 1 .. i - 1 /\ r[j - 1] = q[j]
    BY <1>1, <2>1, <2>2
  <2>4. QED
    BY <2>1, <2>3
<1>6. QED
  BY <1>3, <1>4, <1>5 DEF AllBefore

\* And what was before a place is before it still.
LEMMA TailOtherBefore ==
  ASSUME NEW F, NEW q \in Seq(F), q # <<>>, NEW s, NEW a \in Nat, NEW b \in Nat,
         ~ IsChunk(Head(q), s), NEW i \in 2 .. Len(q) + 1, AllBefore(q, i, s, a, b)
  PROVE  AllBefore(Tail(q), i - 1, s, a, b)
<1> DEFINE r == Tail(q)
<1>1. /\ Len(q) \in Nat \ {0} /\ Len(r) = Len(q) - 1 /\ Head(q) = q[1]
      /\ \A k \in 1 .. Len(q) - 1 : r[k] = q[k + 1]
  BY HeadTyped
<1> HIDE DEF r
<1>2. ASSUME NEW m \in a + 1 .. b
      PROVE  \E j \in 1 .. (i - 1) - 1 : IsChunk(r[j], s) /\ r[j].n = m
  <2>1. PICK j \in 1 .. i - 1 : IsChunk(q[j], s) /\ q[j].n = m
    BY DEF AllBefore
  <2>2. j # 1
    BY <1>1, <2>1
  <2>3. j - 1 \in 1 .. (i - 1) - 1 /\ r[j - 1] = q[j]
    BY <1>1, <2>1, <2>2
  <2>4. QED
    BY <2>1, <2>3
<1>3. QED
  BY <1>2 DEF AllBefore, r

\* The frame that leaves the head is a chunk of s: it is the next one, and the
\* others follow it.
LEMMA TailChunk ==
  ASSUME NEW F, NEW q \in Seq(F), q # <<>>, NEW s, NEW a \in Nat, NEW b \in Nat,
         IsChunk(Head(q), s), InSequence(q, s, a, b)
  PROVE  /\ Head(q).n = a + 1 /\ a + 1 <= b
         /\ InSequence(Tail(q), s, a + 1, b)
<1> DEFINE r == Tail(q)
<1>1. /\ Len(q) \in Nat \ {0} /\ Len(r) = Len(q) - 1 /\ Head(q) = q[1]
      /\ \A i \in 1 .. Len(q) - 1 : r[i] = q[i + 1]
  BY HeadTyped
<1> HIDE DEF r
<1>2. 1 \in 1 .. Len(q) /\ IsChunk(q[1], s)
  BY <1>1
<1>3. q[1].n \in a + 1 .. b /\ AllBefore(q, 1, s, a, q[1].n - 1)
  BY <1>2 DEF InSequence
<1>4. q[1].n = a + 1
  <2>1. SUFFICES ASSUME q[1].n # a + 1 PROVE FALSE
    OBVIOUS
  <2>2. a + 1 \in a + 1 .. q[1].n - 1
    BY <1>3, <2>1
  <2>3. QED
    BY <1>3, <2>2 DEF AllBefore
<1>5. ASSUME NEW i \in 1 .. Len(r), IsChunk(r[i], s)
      PROVE  /\ r[i].n \in (a + 1) + 1 .. b
             /\ \A j \in 1 .. i - 1 : IsChunk(r[j], s) => r[j].n < r[i].n
             /\ AllBefore(r, i, s, a + 1, r[i].n - 1)
  <2>1. i + 1 \in 1 .. Len(q) /\ r[i] = q[i + 1] /\ IsChunk(q[i + 1], s)
    BY <1>1, <1>5
  <2>2. /\ r[i].n \in a + 1 .. b
        /\ \A j \in 1 .. (i + 1) - 1 : IsChunk(q[j], s) => q[j].n < r[i].n
        /\ AllBefore(q, i + 1, s, a, r[i].n - 1)
    BY <2>1 DEF InSequence
  <2>3. r[i].n \in (a + 1) + 1 .. b
    <3>1. 1 \in 1 .. (i + 1) - 1
      OBVIOUS
    <3>2. q[1].n < r[i].n
      BY <1>2, <2>2, <3>1
    <3>3. QED
      BY <1>4, <2>2, <3>2
  <2>4. \A j \in 1 .. i - 1 : j + 1 \in 1 .. (i + 1) - 1 /\ r[j] = q[j + 1]
    BY <1>1
  <2>5. ASSUME NEW m \in (a + 1) + 1 .. r[i].n - 1
        PROVE  \E j \in 1 .. i - 1 : IsChunk(r[j], s) /\ r[j].n = m
    <3>1. m \in a + 1 .. r[i].n - 1 /\ m # a + 1
      BY <2>2
    <3>2. PICK j \in 1 .. (i + 1) - 1 : IsChunk(q[j], s) /\ q[j].n = m
      BY <2>2, <3>1 DEF AllBefore
    <3>3. j # 1
      BY <1>4, <3>1, <3>2
    <3>4. j - 1 \in 1 .. i - 1 /\ r[j - 1] = q[j]
      BY <1>1, <3>2, <3>3
    <3>5. QED
      BY <3>2, <3>4
  <2>6. QED
    BY <2>2, <2>3, <2>4, <2>5 DEF AllBefore
<1>6. InSequence(r, s, a + 1, b)
  BY <1>5 DEF InSequence
<1>7. QED
  BY <1>1, <1>3, <1>4, <1>6 DEF r

\* Of what was before a place only that chunk is gone.
LEMMA TailChunkBefore ==
  ASSUME NEW F, NEW q \in Seq(F), q # <<>>, NEW s, NEW a \in Nat, NEW b \in Nat,
         Head(q).n = a + 1, NEW i \in 2 .. Len(q) + 1, AllBefore(q, i, s, a, b)
  PROVE  AllBefore(Tail(q), i - 1, s, a + 1, b)
<1> DEFINE r == Tail(q)
<1>1. /\ Len(q) \in Nat \ {0} /\ Len(r) = Len(q) - 1 /\ Head(q) = q[1]
      /\ \A k \in 1 .. Len(q) - 1 : r[k] = q[k + 1]
  BY HeadTyped
<1> HIDE DEF r
<1>2. ASSUME NEW m \in (a + 1) + 1 .. b
      PROVE  \E j \in 1 .. (i - 1) - 1 : IsChunk(r[j], s) /\ r[j].n = m
  <2>1. m \in a + 1 .. b /\ m # a + 1
    OBVIOUS
  <2>2. PICK j \in 1 .. i - 1 : IsChunk(q[j], s) /\ q[j].n = m
    BY <2>1 DEF AllBefore
  <2>3. j # 1
    BY <1>1, <2>1, <2>2
  <2>4. j - 1 \in 1 .. (i - 1) - 1 /\ j - 1 \in 1 .. Len(q) - 1 /\ (j - 1) + 1 = j
    BY <1>1, <2>2, <2>3
  <2>5. r[j - 1] = q[j]
    BY <1>1, <2>4
  <2>6. QED
    BY <2>2, <2>4, <2>5
<1>3. QED
  BY <1>2 DEF AllBefore, r

\* The frame that is put in is no chunk of s.
LEMMA AppendOther ==
  ASSUME NEW F, NEW q \in Seq(F), NEW f \in F, NEW s, NEW a \in Nat, NEW b \in Nat,
         ~ IsChunk(f, s), InSequence(q, s, a, b)
  PROVE  InSequence(Append(q, f), s, a, b)
<1> DEFINE r == Append(q, f)
<1>1. Len(q) \in Nat /\ Len(r) = Len(q) + 1 /\ r[Len(q) + 1] = f /\ \A i \in 1 .. Len(q) : r[i] = q[i]
  BY AppendProperties, LenProperties
<1> HIDE DEF r
<1>2. /\ \A i \in 1 .. Len(r) : i <= Len(q) => r[i] = q[i]
      /\ \A i \in 1 .. Len(r) : i > Len(q) => ~ IsChunk(r[i], s)
  BY <1>1
<1>3. InSequence(r, s, a, b)
  BY <1>1, <1>2, PrefixInSequence
<1>4. QED
  BY <1>3 DEF r

\* The frame that is put in is the next chunk of s, and all before it are in.
LEMMA AppendChunk ==
  ASSUME NEW F, NEW q \in Seq(F), NEW f \in F, NEW s, NEW a \in Nat, NEW b \in Nat, a <= b,
         IsChunk(f, s), f.n = b + 1, InSequence(q, s, a, b), AllBefore(q, Len(q) + 1, s, a, b)
  PROVE  /\ InSequence(Append(q, f), s, a, b + 1)
         /\ AllBefore(Append(q, f), Len(q) + 2, s, a, b + 1)
<1> DEFINE r == Append(q, f)
<1>1. Len(q) \in Nat /\ Len(r) = Len(q) + 1 /\ r[Len(q) + 1] = f /\ \A i \in 1 .. Len(q) : r[i] = q[i]
  BY AppendProperties, LenProperties
<1> HIDE DEF r
<1>2. AllBefore(r, Len(q) + 1, s, a, b)
  BY <1>1, PrefixAllBefore
<1>3. ASSUME NEW i \in 1 .. Len(r), IsChunk(r[i], s)
      PROVE  /\ r[i].n \in a + 1 .. b + 1
             /\ \A j \in 1 .. i - 1 : IsChunk(r[j], s) => r[j].n < r[i].n
             /\ AllBefore(r, i, s, a, r[i].n - 1)
  <2>1. CASE i = Len(q) + 1
    <3>1. r[i].n = b + 1 /\ (b + 1) - 1 = b
      BY <1>1, <2>1
    <3>2. \A j \in 1 .. i - 1 : IsChunk(r[j], s) => r[j].n \in a + 1 .. b
      BY <1>1, <2>1 DEF InSequence
    <3>3. QED
      BY <1>2, <2>1, <3>1, <3>2
  <2>2. CASE i # Len(q) + 1
    <3>1. i \in 1 .. Len(q) /\ r[i] = q[i] /\ IsChunk(q[i], s) /\ \A j \in 1 .. i - 1 : r[j] = q[j]
      BY <1>1, <1>3, <2>2
    <3>2. /\ r[i].n \in a + 1 .. b
          /\ \A j \in 1 .. i - 1 : IsChunk(q[j], s) => q[j].n < r[i].n
          /\ AllBefore(q, i, s, a, r[i].n - 1)
      BY <3>1 DEF InSequence
    <3>3. AllBefore(r, i, s, a, r[i].n - 1)
      <4>1. i \in Nat
        OBVIOUS
      <4>2. QED
        BY <3>1, <3>2, <4>1, PrefixAllBefore
    <3>4. QED
      BY <3>1, <3>2, <3>3
  <2>3. QED
    BY <2>1, <2>2
<1>4. ASSUME NEW m \in a + 1 .. b + 1
      PROVE  \E j \in 1 .. (Len(q) + 2) - 1 : IsChunk(r[j], s) /\ r[j].n = m
  <2>1. CASE m = b + 1
    <3>1. Len(q) + 1 \in 1 .. (Len(q) + 2) - 1
      BY <1>1
    <3>2. QED
      BY <1>1, <2>1, <3>1
  <2>2. CASE m # b + 1
    <3>1. m \in a + 1 .. b
      BY <2>2
    <3>2. PICK j \in 1 .. (Len(q) + 1) - 1 : IsChunk(r[j], s) /\ r[j].n = m
      BY <1>2, <3>1 DEF AllBefore
    <3>3. j \in 1 .. (Len(q) + 2) - 1
      BY <1>1, <3>2
    <3>4. QED
      BY <3>2, <3>3
  <2>3. QED
    BY <2>1, <2>2
<1>5. QED
  BY <1>3, <1>4 DEF InSequence, AllBefore, r

-----------------------------------------------------------------------------
(***************************************************************************)
(* What the operations of a FIFO do to the flow of one stream.             *)
(***************************************************************************)

\* The end of the stream arrives after all its chunks.
LEMMA FlowArrives ==
  ASSUME NEW F, NEW q \in Seq(F), q # <<>>, NEW w, NEW s, NEW a \in Nat, NEW b \in Nat,
         NEW end, Flow(q, w, s, a, b, end), IsFrame(Head(q), end, s)
  PROVE  a = b
<1>1. Head(q) = q[1] /\ 1 \in 1 .. Len(q)
  BY HeadTyped
<1>2. a <= b /\ AllBefore(q, 1, s, a, b)
  BY <1>1 DEF Flow
<1>3. ASSUME a < b PROVE FALSE
  <2>1. a + 1 \in a + 1 .. b
    BY <1>3
  <2>2. QED
    BY <1>2, <2>1 DEF AllBefore
<1>4. QED
  BY <1>2, <1>3

\* A chunk of the stream is taken: it is the next one.
LEMMA FlowTakeChunk ==
  ASSUME NEW F, NEW q \in Seq(F), q # <<>>, NEW w, NEW s, NEW a \in Nat, NEW b \in Nat,
         NEW end, end # "data", Flow(q, w, s, a, b, end), IsChunk(Head(q), s)
  PROVE  Head(q).n = a + 1 /\ Flow(Tail(q), w, s, a + 1, b, end)
<1> DEFINE r == Tail(q)
<1>1. /\ Len(q) \in Nat \ {0} /\ Len(r) = Len(q) - 1 /\ Head(q) = q[1]
      /\ \A i \in 1 .. Len(q) - 1 : r[i] = q[i + 1]
  BY HeadTyped
<1>2. Head(q).n = a + 1 /\ a + 1 <= b /\ InSequence(r, s, a + 1, b)
  BY TailChunk DEF Flow
<1>3. ASSUME NEW i \in 2 .. Len(q) + 1, AllBefore(q, i, s, a, b)
      PROVE  AllBefore(r, i - 1, s, a + 1, b)
  BY <1>2, <1>3, TailChunkBefore
<1> HIDE DEF r
<1>4. ASSUME w PROVE AllBefore(r, Len(r) + 1, s, a + 1, b)
  <2>1. Len(q) + 1 \in 2 .. Len(q) + 1 /\ (Len(q) + 1) - 1 = Len(r) + 1
    BY <1>1
  <2>2. AllBefore(q, Len(q) + 1, s, a, b)
    BY <1>4 DEF Flow
  <2>3. AllBefore(r, (Len(q) + 1) - 1, s, a + 1, b)
    BY <1>3, <2>1, <2>2
  <2>4. QED
    BY <2>1, <2>3
<1>5. ASSUME NEW i \in 1 .. Len(r), IsFrame(r[i], end, s)
      PROVE  AllBefore(r, i, s, a + 1, b)
  <2>1. i + 1 \in 1 .. Len(q) /\ i + 1 \in 2 .. Len(q) + 1 /\ r[i] = q[i + 1] /\ (i + 1) - 1 = i
    BY <1>1
  <2>2. AllBefore(q, i + 1, s, a, b)
    BY <1>5, <2>1 DEF Flow
  <2>3. AllBefore(r, (i + 1) - 1, s, a + 1, b)
    BY <1>3, <2>1, <2>2
  <2>4. QED
    BY <2>1, <2>3
<1>6. Flow(r, w, s, a + 1, b, end)
  BY <1>2, <1>4, <1>5 DEF Flow
<1>7. QED
  BY <1>2, <1>6 DEF r

\* Another frame is taken.
LEMMA FlowTakeOther ==
  ASSUME NEW F, NEW q \in Seq(F), q # <<>>, NEW w, NEW s, NEW a \in Nat, NEW b \in Nat,
         NEW end, Flow(q, w, s, a, b, end), ~ IsChunk(Head(q), s)
  PROVE  Flow(Tail(q), w, s, a, b, end)
<1> DEFINE r == Tail(q)
<1>1. /\ Len(q) \in Nat \ {0} /\ Len(r) = Len(q) - 1 /\ Head(q) = q[1]
      /\ \A i \in 1 .. Len(q) - 1 : r[i] = q[i + 1]
  BY HeadTyped
<1>2. a <= b /\ InSequence(r, s, a, b)
  BY TailOther DEF Flow
<1>3. ASSUME NEW i \in 2 .. Len(q) + 1, AllBefore(q, i, s, a, b)
      PROVE  AllBefore(r, i - 1, s, a, b)
  BY <1>3, TailOtherBefore
<1> HIDE DEF r
<1>4. ASSUME w PROVE AllBefore(r, Len(r) + 1, s, a, b)
  <2>1. Len(q) + 1 \in 2 .. Len(q) + 1 /\ (Len(q) + 1) - 1 = Len(r) + 1
    BY <1>1
  <2>2. AllBefore(q, Len(q) + 1, s, a, b)
    BY <1>4 DEF Flow
  <2>3. AllBefore(r, (Len(q) + 1) - 1, s, a, b)
    BY <1>3, <2>1, <2>2
  <2>4. QED
    BY <2>1, <2>3
<1>5. ASSUME NEW i \in 1 .. Len(r), IsFrame(r[i], end, s)
      PROVE  AllBefore(r, i, s, a, b)
  <2>1. i + 1 \in 1 .. Len(q) /\ i + 1 \in 2 .. Len(q) + 1 /\ r[i] = q[i + 1] /\ (i + 1) - 1 = i
    BY <1>1
  <2>2. AllBefore(q, i + 1, s, a, b)
    BY <1>5, <2>1 DEF Flow
  <2>3. AllBefore(r, (i + 1) - 1, s, a, b)
    BY <1>3, <2>1, <2>2
  <2>4. QED
    BY <2>1, <2>3
<1>6. Flow(r, w, s, a, b, end)
  BY <1>2, <1>4, <1>5 DEF Flow
<1>7. QED
  BY <1>6 DEF r

\* The next chunk of the stream is put in, which has not ended yet.
LEMMA FlowPutChunk ==
  ASSUME NEW F, NEW q \in Seq(F), NEW f \in F, NEW s, NEW a \in Nat, NEW b \in Nat,
         NEW end, end # "data", Flow(q, TRUE, s, a, b, end), IsChunk(f, s), f.n = b + 1,
         ~ Has(q, end, s)
  PROVE  Flow(Append(q, f), TRUE, s, a, b + 1, end)
<1> DEFINE r == Append(q, f)
<1>1. Len(q) \in Nat /\ Len(r) = Len(q) + 1 /\ r[Len(q) + 1] = f /\ \A i \in 1 .. Len(q) : r[i] = q[i]
  BY AppendProperties, LenProperties
<1>2. InSequence(r, s, a, b + 1) /\ AllBefore(r, Len(q) + 2, s, a, b + 1)
  BY AppendChunk DEF Flow
<1> HIDE DEF r
<1>3. AllBefore(r, Len(r) + 1, s, a, b + 1)
  <2>1. Len(r) + 1 = Len(q) + 2
    BY <1>1
  <2>2. QED
    BY <1>2, <2>1
<1>4. ASSUME NEW i \in 1 .. Len(r) PROVE ~ IsFrame(r[i], end, s)
  <2>1. CASE i = Len(q) + 1
    BY <1>1, <2>1 DEF IsFrame, IsChunk
  <2>2. CASE i # Len(q) + 1
    <3>1. i \in 1 .. Len(q)
      BY <1>1, <2>2
    <3>2. QED
      BY <1>1, <3>1 DEF Has
  <2>3. QED
    BY <2>1, <2>2
<1>5. Flow(r, TRUE, s, a, b + 1, end)
  BY <1>2, <1>3, <1>4 DEF Flow
<1>6. QED
  BY <1>5 DEF r

\* Another frame is put in.
LEMMA FlowPutOther ==
  ASSUME NEW F, NEW q \in Seq(F), NEW f \in F, NEW s, NEW a \in Nat, NEW b \in Nat,
         NEW end, Flow(q, TRUE, s, a, b, end), ~ IsChunk(f, s)
  PROVE  Flow(Append(q, f), TRUE, s, a, b, end)
<1> DEFINE r == Append(q, f)
<1>1. Len(q) \in Nat /\ Len(r) = Len(q) + 1 /\ \A i \in 1 .. Len(q) : r[i] = q[i]
  BY AppendProperties, LenProperties
<1>2. a <= b /\ InSequence(r, s, a, b)
  BY AppendOther DEF Flow
<1> HIDE DEF r
<1>3. \A i \in 1 .. Len(q) + 1 : AllBefore(q, i, s, a, b) => AllBefore(r, i, s, a, b)
  <2> SUFFICES ASSUME NEW i \in 1 .. Len(q) + 1, AllBefore(q, i, s, a, b)
               PROVE  AllBefore(r, i, s, a, b)
    OBVIOUS
  <2>1. i \in Nat /\ \A j \in 1 .. i - 1 : r[j] = q[j]
    BY <1>1
  <2>2. QED
    BY <2>1, PrefixAllBefore
<1>4. AllBefore(q, Len(q) + 1, s, a, b) /\ AllBefore(r, Len(q) + 1, s, a, b)
  BY <1>1, <1>3 DEF Flow
<1>5. AllBefore(r, Len(r) + 1, s, a, b)
  BY <1>1, <1>4 DEF AllBefore
<1>6. ASSUME NEW i \in 1 .. Len(r), IsFrame(r[i], end, s)
      PROVE  AllBefore(r, i, s, a, b)
  <2>1. CASE i = Len(q) + 1
    BY <1>4, <2>1
  <2>2. CASE i # Len(q) + 1
    <3>1. i \in 1 .. Len(q) /\ i \in 1 .. Len(q) + 1 /\ r[i] = q[i]
      BY <1>1, <2>2
    <3>2. QED
      BY <1>3, <1>6, <3>1 DEF Flow
  <2>3. QED
    BY <2>1, <2>2
<1>7. Flow(r, TRUE, s, a, b, end)
  BY <1>2, <1>5, <1>6 DEF Flow
<1>8. QED
  BY <1>7 DEF r

\* The WebSocket goes down: of what was on its way a part is left, which frames
\* that do not concern the stream may follow.
LEMMA FlowGoesDown ==
  ASSUME NEW q, NEW r, NEW w, NEW s, NEW a \in Nat, NEW b \in Nat, NEW end, NEW n \in Nat,
         Len(q) \in Nat, Len(r) \in Nat, n <= Len(q), Flow(q, w, s, a, b, end),
         \A i \in 1 .. Len(r) : i <= n => r[i] = q[i],
         \A i \in 1 .. Len(r) : i > n => ~ IsChunk(r[i], s) /\ ~ IsFrame(r[i], end, s)
  PROVE  Flow(r, FALSE, s, a, b, end)
<1>1. a <= b /\ InSequence(r, s, a, b)
  BY PrefixInSequence DEF Flow
<1>2. ASSUME NEW i \in 1 .. Len(r), IsFrame(r[i], end, s)
      PROVE  AllBefore(r, i, s, a, b)
  <2>1. i <= n /\ i \in Nat /\ i \in 1 .. Len(q) /\ r[i] = q[i] /\ \A j \in 1 .. i - 1 : r[j] = q[j]
    BY <1>2
  <2>2. AllBefore(q, i, s, a, b)
    BY <1>2, <2>1 DEF Flow
  <2>3. QED
    BY <2>1, <2>2, PrefixAllBefore
<1>3. QED
  BY <1>1, <1>2 DEF Flow

\* After that a chunk that the sender still handed over is lost.
LEMMA FlowLoses ==
  ASSUME NEW q, NEW s, NEW a \in Nat, NEW b \in Nat, NEW end, Flow(q, FALSE, s, a, b, end),
         ~ Has(q, end, s)
  PROVE  Flow(q, FALSE, s, a, b + 1, end)
<1>1. a <= b + 1 /\ InSequence(q, s, a, b + 1)
  BY MoreSent DEF Flow
<1>2. QED
  BY <1>1 DEF Flow, Has

\* A stream of which nothing is in the FIFO.
LEMMA FlowStarts ==
  ASSUME NEW q, NEW w, NEW s, NEW a \in Nat, NEW end,
         \A i \in 1 .. Len(q) : ~ IsChunk(q[i], s)
  PROVE  Flow(q, w, s, a, a, end)
BY NoneInSequence DEF Flow, AllBefore

-----------------------------------------------------------------------------
(***************************************************************************)
(* What Send does for a stream.                                            *)
(***************************************************************************)

\* The FIFO takes the frame, or it keeps what it has: because the WebSocket is
\* down or the frame is given up.
LEMMA SendEffect ==
  ASSUME NEW f, Send(f)
  PROVE  \/ wsUp /\ down' = Append(down, f) /\ drops' = drops
         \/ down' = down /\ (wsUp => kicked \/ drops' = drops + 1)
BY DEF Send

\* A frame that is no chunk of the stream.
LEMMA SendOther ==
  ASSUME NEW F, down \in Seq(F), NEW f \in F, Send(f), NEW s, ~ IsChunk(f, s),
         wsUp \in BOOLEAN, NEW a \in Nat, NEW b \in Nat, NEW end,
         Flow(down, wsUp, s, a, b, end)
  PROVE  Flow(down', wsUp, s, a, b, end)
<1>1. CASE wsUp /\ down' = Append(down, f)
  <2>1. wsUp = TRUE
    BY <1>1
  <2>2. Flow(down, TRUE, s, a, b, end)
    BY <2>1
  <2>3. Flow(Append(down, f), TRUE, s, a, b, end)
    BY <2>2, FlowPutOther
  <2>4. QED
    BY <1>1, <2>1, <2>3
<1>2. CASE down' = down
  BY <1>2
<1>3. QED
  BY <1>1, <1>2, SendEffect

\* The next chunk of a stream that has not ended yet.
LEMMA SendChunk ==
  ASSUME NEW F, down \in Seq(F), NEW f \in F, Send(f), drops \in Nat, drops' = 0, ~ kicked,
         wsUp \in BOOLEAN, NEW s, NEW a \in Nat, NEW b \in Nat, NEW end, end # "data",
         IsChunk(f, s), f.n = b + 1, ~ Has(down, end, s),
         Flow(down, wsUp, s, a, b, end)
  PROVE  Flow(down', wsUp, s, a, b + 1, end)
<1>1. CASE wsUp /\ down' = Append(down, f)
  <2>1. wsUp = TRUE
    BY <1>1
  <2>2. Flow(down, TRUE, s, a, b, end)
    BY <2>1
  <2>3. Flow(Append(down, f), TRUE, s, a, b + 1, end)
    BY <2>2, FlowPutChunk
  <2>4. QED
    BY <1>1, <2>1, <2>3
<1>2. CASE down' = down /\ ~ wsUp
  <2>1. wsUp = FALSE
    BY <1>2
  <2>2. Flow(down, FALSE, s, a, b, end)
    BY <2>1
  <2>3. Flow(down, FALSE, s, a, b + 1, end)
    BY <2>2, FlowLoses
  <2>4. QED
    BY <1>2, <2>1, <2>3
<1>3. QED
  BY <1>1, <1>2, SendEffect

\* What it means for the frames of a type.
LEMMA SendHas ==
  ASSUME NEW F, down \in Seq(F), NEW f \in F, Send(f), NEW type, NEW s
  PROVE  /\ Has(down, type, s) => Has(down', type, s)
         /\ Has(down', type, s) => Has(down, type, s) \/ IsFrame(f, type, s)
         /\ Once(down, type, s) /\ (~ Has(down, type, s) \/ ~ IsFrame(f, type, s)) => Once(down', type, s)
         /\ wsUp /\ ~ kicked /\ drops' = drops /\ drops \in Nat /\ IsFrame(f, type, s) => Has(down', type, s)
<1>1. CASE wsUp /\ down' = Append(down, f)
  BY <1>1, HasAppend, OnceAppend
<1>2. CASE down' = down /\ (wsUp => kicked \/ drops' = drops + 1)
  BY <1>2
<1>3. QED
  BY <1>1, <1>2, SendEffect

\* ... and so does Send, whether it queues the frame or gives it up.
LEMMA SendPreceded ==
  ASSUME NEW F, down \in Seq(F), NEW f \in F, Send(f), NEW s, NEW end, Preceded(down, s, end),
         wsUp => Has(down, "open", s) \/ ~ (IsChunk(f, s) \/ IsFrame(f, end, s))
  PROVE  Preceded(down', s, end)
<1>1. CASE wsUp /\ down' = Append(down, f)
  BY <1>1, PrecededAppend
<1>2. CASE down' = down
  BY <1>2
<1>3. QED
  BY <1>1, <1>2, SendEffect

-----------------------------------------------------------------------------
(***************************************************************************)
(* Chunks at the two ends: those that arrived, in a sequence of their own  *)
(* or behind the m that went on.                                           *)
(***************************************************************************)

\* Element i of q is chunk m + i.
Numbered(q, m) == \A i \in 1 .. Len(q) : q[i] = m + i

\* A sum of two lengths is a number; kept apart from the lengths for the solver.
LEMMA SumTyped == ASSUME NEW m \in Nat, NEW n \in Nat PROVE m + n \in Nat
OBVIOUS

\* The next chunk is put behind.
LEMMA NumberedAppend ==
  ASSUME NEW S, NEW q \in Seq(S), NEW m \in Nat, NEW x \in S, Numbered(q, m), x = (m + Len(q)) + 1
  PROVE  /\ Numbered(Append(q, x), m)
         /\ m + Len(Append(q, x)) = (m + Len(q)) + 1
<1> DEFINE r == Append(q, x)
           n == Len(q)
<1>1. n \in Nat /\ Len(r) = n + 1 /\ r[n + 1] = x /\ \A i \in 1 .. n : r[i] = q[i]
  BY LenProperties, AppendProperties
<1>2. x = (m + n) + 1 /\ \A i \in 1 .. n : q[i] = m + i
  BY DEF Numbered
<1> HIDE DEF r, n
<1>3. ASSUME NEW i \in 1 .. Len(r) PROVE r[i] = m + i
  <2>1. CASE i = n + 1
    BY <1>1, <1>2, <2>1
  <2>2. CASE i # n + 1
    <3>1. i \in 1 .. n
      BY <1>1, <2>2
    <3>2. QED
      BY <1>1, <1>2, <3>1
  <2>3. QED
    BY <2>1, <2>2
<1>4. m + Len(r) = (m + n) + 1
  BY <1>1
<1>5. QED
  BY <1>3, <1>4 DEF Numbered, r, n

\* The first chunk goes on.
LEMMA NumberedTail ==
  ASSUME NEW S, NEW q \in Seq(S), NEW m \in Nat, q # <<>>, Numbered(q, m)
  PROVE  /\ Head(q) \in S /\ Head(q) = m + 1
         /\ Numbered(Tail(q), m + 1)
         /\ (m + 1) + Len(Tail(q)) = m + Len(q)
<1> DEFINE r == Tail(q)
           n == Len(q)
<1>1. /\ Head(q) \in S /\ n \in Nat \ {0} /\ Len(r) = n - 1 /\ Head(q) = q[1]
      /\ \A i \in 1 .. n - 1 : r[i] = q[i + 1]
  BY HeadTyped
<1>2. \A i \in 1 .. n : q[i] = m + i
  BY DEF Numbered
<1> HIDE DEF r, n
<1>3. Head(q) = m + 1
  BY <1>1, <1>2
<1>4. ASSUME NEW i \in 1 .. Len(r) PROVE r[i] = (m + 1) + i
  <2>1. i + 1 \in 1 .. n /\ i \in 1 .. n - 1
    BY <1>1
  <2>2. r[i] = m + (i + 1)
    BY <1>1, <1>2, <2>1
  <2>3. QED
    BY <2>2
<1>5. (m + 1) + Len(r) = m + n
  BY <1>1
<1>6. QED
  BY <1>1, <1>3, <1>4, <1>5 DEF Numbered, r, n

=============================================================================
