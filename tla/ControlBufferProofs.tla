------------------------ MODULE ControlBufferProofs -------------------------
(***************************************************************************)
(* Proofs about the line framing, for a buffer of any size, lines of any   *)
(* length and any number of them: recv always has room, the middle of a    *)
(* line is taken for a command only behind a message that filled the       *)
(* buffer, commands keep their order, and a patient peer has every line    *)
(* obeyed.                                                                 *)
(*                                                                         *)
(* The invariant is about the stream, the bytes of the buffer and then     *)
(* those of the kernel: lines follow each other in it, what it starts in   *)
(* the middle of was cut, and what has been obeyed lies before it.         *)
(*                                                                         *)
(* Then about Tokenize, by induction over the characters and the words:    *)
(* what any message is cut into (AnyMessageIsCutWell), and that what a     *)
(* peer writes is found again (WordsAreFoundAgain).                        *)
(***************************************************************************)
EXTENDS ControlBuffer, Tokenizer, SequenceTheorems, WellFoundedInduction, TLAPS

Bytes == [line : Nat, first : BOOLEAN, end : BOOLEAN]

\* What has been received and has not become part of a message.
Stream == buf \o kernel

BufferOK ==
  /\ sent \in Seq(Nat) /\ obeyed \in Seq(Nat)
  /\ kernel \in Seq(Bytes) /\ buf \in Seq(Bytes)
  /\ open \in BOOLEAN /\ cut \in BOOLEAN /\ patient \in BOOLEAN
  /\ open => Len(sent) > 0

\* A byte after another is of a later line, or of the rest of the same one.
InOrder(s) ==
  /\ \A j, k \in 1..Len(s) : j < k =>
       \/ s[j].line < s[k].line
       \/ s[j].line = s[k].line /\ ~s[j].end /\ ~s[k].first
  /\ \A j \in 1..(Len(s) - 1) : s[j].end => s[j + 1].first

\* The stream is of lines sent, and ends where the peer is.
EndsWithPeer(s) ==
  /\ \A j \in 1..Len(s) : s[j].line =< Len(sent)
  /\ \A j \in 1..Len(s) : open /\ s[j].line = Len(sent) => ~s[j].end
  /\ s # <<>> => (s[Len(s)].end <=> ~open)

\* In the middle of a line the last message has filled the buffer.
CutBefore(s) ==
  /\ s # <<>> => s[1].first \/ cut
  /\ s = <<>> => ~open \/ cut

\* The lines obeyed lie before the stream; only a cut line is also in it.
ObeyedBefore(s) ==
  \A i \in 1..Len(obeyed) :
    /\ s = <<>> => obeyed[i] =< Len(sent)
    /\ s # <<>> => \/ obeyed[i] < s[1].line
                   \/ cut /\ obeyed[i] = s[1].line

\* What a patient peer knows: the stream is of its last line, the others are
\* obeyed, and so is the last one when all of it has been taken.
PatienceHelps(s) ==
  patient =>
    /\ \A j \in 1..Len(s) : s[j].line = Len(sent)
    /\ \A i \in 1..Len(sent) : i < Len(sent) => i \in ToSet(obeyed)
    /\ (s = <<>> /\ ~open /\ Len(sent) > 0) => Len(sent) \in ToSet(obeyed)

IInv ==
  /\ BufferOK
  /\ RoomLeft
  /\ buf # <<>> => ~buf[Len(buf)].end
  /\ InOrder(Stream) /\ EndsWithPeer(Stream) /\ CutBefore(Stream)
  /\ ObeyedBefore(Stream) /\ PatienceHelps(Stream)

USE SizeAssumption, BoundsAssumption
-----------------------------------------------------------------------------
(* What the steps make of the stream.                                      *)

LEMMA MinOfTwo ==
  ASSUME NEW a \in Nat, NEW b \in Nat
  PROVE  Min({a, b}) = IF a =< b THEN a ELSE b
<1> DEFINE m == IF a =< b THEN a ELSE b
<1>1. m \in {a, b} /\ \A y \in {a, b} : m =< y
  OBVIOUS
<1>2. \A x \in {a, b} : (\A y \in {a, b} : x =< y) => x = m
  OBVIOUS
<1> HIDE DEF m
<1>3. Min({a, b}) = m
  BY <1>1, <1>2 DEF Min
<1> QED
  BY <1>3 DEF m

LEMMA StreamTyped ==
  ASSUME BufferOK
  PROVE  Stream \in Seq(Bytes) /\ Len(Stream) \in Nat
BY ConcatProperties DEF Stream, BufferOK

\* recv takes a byte at least, and no more than fits.
LEMMA TakesSome ==
  ASSUME BufferOK, RoomLeft, kernel # <<>>
  PROVE  /\ Taken \in Seq(Bytes)
         /\ Len(Taken) \in 1..Len(kernel) /\ Len(buf) + Len(Taken) =< Size
         /\ \A j \in 1..Len(Taken) : Taken[j] = kernel[j]
<1>1. /\ kernel \in Seq(Bytes) /\ Len(kernel) \in Nat \ {0}
      /\ Len(buf) \in Nat /\ Len(buf) < Size
  BY EmptySeq DEF BufferOK, RoomLeft
<1> DEFINE n == Min({Len(kernel), Size - Len(buf)})
<1>2. n \in 1..Len(kernel) /\ Len(buf) + n =< Size
  BY <1>1, MinOfTwo
<1> HIDE DEF n
<1>3. \A j \in 1..n : kernel[j] \in Bytes
  BY <1>1, <1>2, ElementOfSeq
<1>4. /\ SubSeq(kernel, 1, n) \in Seq(Bytes) /\ Len(SubSeq(kernel, 1, n)) = n
      /\ \A j \in 1..n : SubSeq(kernel, 1, n)[j] = kernel[j]
  BY <1>2, <1>3, SubSeqProperties
<1> QED
  BY <1>2, <1>4 DEF Taken, n

\* The buffer after recv, and what recv leaves to the kernel.
Filled == buf \o Taken
Rest   == SubSeq(kernel, Len(Taken) + 1, Len(kernel))

\* The first is the front of the stream, the second is what follows.
LEMMA ReadSplits ==
  ASSUME BufferOK, RoomLeft, kernel # <<>>
  PROVE  /\ Filled \in Seq(Bytes) /\ Rest \in Seq(Bytes)
         /\ Len(Filled) \in 1..Size /\ Len(Stream) = Len(Filled) + Len(Rest)
         /\ \A j \in 1..Len(Filled) : Filled[j] = Stream[j]
         /\ \A j \in 1..Len(Rest) : Rest[j] = Stream[Len(Filled) + j]
         /\ Filled \o Rest = Stream
<1> DEFINE n == Len(Taken)
<1>1. /\ Taken \in Seq(Bytes) /\ n \in 1..Len(kernel) /\ Len(buf) + n =< Size
      /\ \A j \in 1..n : Taken[j] = kernel[j]
  BY TakesSome
<1>2. /\ kernel \in Seq(Bytes) /\ buf \in Seq(Bytes)
      /\ Len(kernel) \in Nat /\ Len(buf) \in Nat
  BY DEF BufferOK
<1> HIDE DEF n
<1>3. \A j \in (n + 1)..Len(kernel) : kernel[j] \in Bytes
  BY <1>1, <1>2, ElementOfSeq
<1>4. /\ Rest \in Seq(Bytes) /\ Len(Rest) = Len(kernel) - n
      /\ \A j \in 1..Len(Rest) : Rest[j] = kernel[n + j]
  <2>1. n + 1 \in Int /\ Len(kernel) \in Int
    BY <1>1, <1>2
  <2>2. /\ Rest \in Seq(Bytes)
        /\ Len(Rest) = IF n + 1 =< Len(kernel)
                    THEN Len(kernel) - (n + 1) + 1 ELSE 0
        /\ \A j \in 1..(Len(kernel) - (n + 1) + 1) :
             Rest[j] = kernel[(n + 1) + j - 1]
    BY <1>3, <2>1, SubSeqProperties DEF n, Rest
  <2>3. Len(Rest) = Len(kernel) - n
    BY <1>1, <1>2, <2>2
  <2>4. ASSUME NEW j \in 1..Len(Rest) PROVE Rest[j] = kernel[n + j]
    <3>1. (n + 1) + j - 1 = n + j /\ j \in 1..(Len(kernel) - (n + 1) + 1)
      BY <1>1, <1>2, <2>3
    <3> QED
      BY <2>2, <3>1
  <2> QED
    BY <2>2, <2>3, <2>4
<1>5. /\ Filled \in Seq(Bytes) /\ Len(Filled) = Len(buf) + n
      /\ \A j \in 1..Len(Filled) :
           Filled[j] = IF j =< Len(buf) THEN buf[j] ELSE Taken[j - Len(buf)]
  BY <1>1, <1>2, ConcatProperties DEF n, Filled
<1>6. /\ Stream \in Seq(Bytes) /\ Len(Stream) = Len(buf) + Len(kernel)
      /\ \A j \in 1..Len(Stream) :
           Stream[j] = IF j =< Len(buf) THEN buf[j] ELSE kernel[j - Len(buf)]
  BY <1>2, ConcatProperties DEF Stream
<1>7. Len(Filled) \in 1..Size /\ Len(Stream) = Len(Filled) + Len(Rest)
  BY <1>1, <1>2, <1>4, <1>5, <1>6
<1>8. ASSUME NEW j \in 1..Len(Filled) PROVE Filled[j] = Stream[j]
  <2>1. j \in 1..Len(Stream)
    BY <1>4, <1>7
  <2>2. CASE j =< Len(buf)
    BY <1>5, <1>6, <2>1, <2>2
  <2>3. CASE ~(j =< Len(buf))
    <3>1. j - Len(buf) \in 1..n
      BY <1>1, <1>2, <1>5, <2>3
    <3> QED
      BY <1>1, <1>5, <1>6, <2>1, <2>3, <3>1
  <2> QED
    BY <2>2, <2>3
<1>9. ASSUME NEW j \in 1..Len(Rest) PROVE Rest[j] = Stream[Len(Filled) + j]
  <2>1. /\ Len(Filled) + j \in 1..Len(Stream) /\ ~(Len(Filled) + j =< Len(buf))
        /\ (Len(Filled) + j) - Len(buf) = n + j
    BY <1>1, <1>2, <1>4, <1>5, <1>7
  <2> QED
    BY <1>4, <1>6, <2>1
<1>10. Filled \o Rest = Stream
  <2>1. /\ Filled \o Rest \in Seq(Bytes)
        /\ Len(Filled \o Rest) = Len(Filled) + Len(Rest)
        /\ \A j \in 1..(Len(Filled) + Len(Rest)) :
             (Filled \o Rest)[j] = IF j =< Len(Filled) THEN Filled[j]
                                    ELSE Rest[j - Len(Filled)]
    BY <1>4, <1>5, ConcatProperties
  <2>2. ASSUME NEW j \in 1..Len(Stream) PROVE (Filled \o Rest)[j] = Stream[j]
    <3>1. CASE j =< Len(Filled)
      BY <1>7, <1>8, <2>1, <3>1
    <3>2. CASE ~(j =< Len(Filled))
      <4>1. /\ j - Len(Filled) \in 1..Len(Rest)
            /\ Len(Filled) + (j - Len(Filled)) = j
        BY <1>4, <1>5, <1>7, <3>2
      <4> QED
        BY <1>7, <1>9, <2>1, <3>2, <4>1
    <3> QED
      BY <3>1, <3>2
  <2> QED
    BY <1>6, <1>7, <2>1, <2>2, SeqEqual
<1> QED
  BY <1>4, <1>5, <1>7, <1>8, <1>9, <1>10

\* A byte the peer sends is the last one of the stream.
LEMMA SendAppends ==
  ASSUME BufferOK, NEW x \in Bytes, kernel' = Append(kernel, x), buf' = buf
  PROVE  /\ Stream' \in Seq(Bytes) /\ Len(Stream') = Len(Stream) + 1
         /\ \A j \in 1..Len(Stream) : Stream'[j] = Stream[j]
         /\ Stream'[Len(Stream) + 1] = x
<1>1. buf \o Append(kernel, x) = Append(buf \o kernel, x)
  BY AppendIsConcat, ConcatAssociative, ConcatProperties DEF BufferOK
<1>2. Stream \in Seq(Bytes)
  BY StreamTyped
<1>3. Stream' = Append(Stream, x)
  BY <1>1 DEF Stream
<1> QED
  BY <1>2, <1>3, AppendProperties


\* It keeps the order if it follows all that is there, and starts a line
\* where the last byte ends one.
LEMMA SendInOrder ==
  ASSUME NEW s \in Seq(Bytes), NEW t \in Seq(Bytes), NEW x \in Bytes,
         Len(t) = Len(s) + 1, \A j \in 1..Len(s) : t[j] = s[j],
         t[Len(s) + 1] = x,
         \A j \in 1..Len(s) :
            \/ s[j].line < x.line
            \/ s[j].line = x.line /\ ~s[j].end /\ ~x.first,
         s # <<>> /\ s[Len(s)].end => x.first,
         InOrder(s)
  PROVE  InOrder(t)
<1> DEFINE k == Len(s)
<1>1. k \in Nat
  OBVIOUS
<1> HIDE DEF k
<1>2. \A j \in 1..(k + 1) : j \in 1..k \/ j = k + 1
  BY <1>1
<1>3. ASSUME NEW i \in 1..(k + 1), NEW j \in 1..(k + 1), i < j
      PROVE  \/ t[i].line < t[j].line
             \/ t[i].line = t[j].line /\ ~t[i].end /\ ~t[j].first
  <2>1. i \in 1..k
    BY <1>1, <1>3
  <2>2. CASE j = k + 1
    BY <2>1, <2>2 DEF k
  <2>3. CASE j \in 1..k
    BY <1>3, <2>1, <2>3 DEF InOrder, k
  <2> QED
    BY <1>2, <2>2, <2>3
<1>4. ASSUME NEW j \in 1..k, t[j].end PROVE t[j + 1].first
  <2>1. CASE j = k
    <3>1. s # <<>>
      BY <2>1, EmptySeq DEF k
    <3> QED
      BY <1>4, <2>1, <3>1 DEF k
  <2>2. CASE j # k
    <3>1. j \in 1..(k - 1) /\ j + 1 \in 1..k
      BY <1>1, <2>2
    <3> QED
      BY <1>4, <3>1 DEF InOrder, k
  <2> QED
    BY <2>1, <2>2
<1>5. Len(t) = k + 1 /\ Len(t) - 1 = k
  BY <1>1 DEF k
<1> QED
  BY <1>3, <1>4, <1>5 DEF InOrder

\* What is obeyed stays behind if the stream was not empty.
LEMMA SendBehind ==
  ASSUME Stream \in Seq(Bytes), Stream' \in Seq(Bytes), NEW x \in Bytes,
         Len(Stream') = Len(Stream) + 1,
         \A j \in 1..Len(Stream) : Stream'[j] = Stream[j],
         Stream'[Len(Stream) + 1] = x, cut' = cut, obeyed' = obeyed,
         CutBefore(Stream), ObeyedBefore(Stream),
         Stream = <<>> => x.first \/ cut,
         Stream = <<>> => \A i \in 1..Len(obeyed) :
                            \/ obeyed[i] < x.line
                            \/ cut /\ obeyed[i] = x.line
  PROVE  CutBefore(Stream)' /\ ObeyedBefore(Stream)'
<1>1. Len(Stream) \in Nat
  OBVIOUS
<1>2. Stream' # <<>>
  BY <1>1, EmptySeq
<1>3. CASE Stream = <<>>
  <2>1. Stream'[1] = x
    BY <1>3, EmptySeq
  <2> QED
    BY <1>2, <1>3, <2>1 DEF CutBefore, ObeyedBefore
<1>4. CASE Stream # <<>>
  <2>1. Stream'[1] = Stream[1]
    BY <1>1, <1>4, EmptySeq
  <2> QED
    BY <1>2, <1>4, <2>1 DEF CutBefore, ObeyedBefore
<1> QED
  BY <1>3, <1>4

-----------------------------------------------------------------------------
(* One lemma for each action.                                              *)

\* What is known of the bytes of the stream.
LEMMA StreamBytes ==
  ASSUME IInv
  PROVE  \A j \in 1..Len(Stream) :
           /\ Stream[j] \in Bytes /\ Stream[j].line \in Nat
           /\ Stream[j].line =< Len(sent)
<1>1. Stream \in Seq(Bytes)
  BY StreamTyped DEF IInv
<1>2. \A j \in 1..Len(Stream) : Stream[j] \in Bytes
  BY <1>1, ElementOfSeq
<1>3. \A j \in 1..Len(Stream) : Stream[j].line =< Len(sent)
  BY DEF IInv, EndsWithPeer
<1> QED
  BY <1>2, <1>3 DEF Bytes

LEMMA StartStep == ASSUME IInv, StartLine PROVE IInv'
<1> DEFINE n == Len(sent)
           x == Byte(n + 1, TRUE, FALSE)
           k == Len(Stream)
<1>1. /\ ~open /\ open' = TRUE /\ sent' = Append(sent, 1)
      /\ kernel' = Append(kernel, x)
      /\ patient' = (patient /\ kernel = <<>> /\ buf = <<>>)
      /\ buf' = buf /\ obeyed' = obeyed /\ cut' = cut
  BY DEF StartLine
<1>2. n \in Nat /\ sent' \in Seq(Nat) /\ Len(sent') = n + 1
  BY <1>1, AppendProperties DEF IInv, BufferOK
<1>3. x \in Bytes /\ x.line = n + 1 /\ x.first = TRUE /\ x.end = FALSE
  BY <1>2 DEF Byte, Bytes
<1> HIDE DEF x
<1>4. k \in Nat /\ Stream \in Seq(Bytes)
  BY StreamTyped DEF IInv
<1>5. /\ Stream' \in Seq(Bytes) /\ Len(Stream') = k + 1
      /\ \A j \in 1..k : Stream'[j] = Stream[j]
      /\ Stream'[k + 1] = x
  BY <1>1, <1>3, SendAppends DEF IInv
<1>6. \A j \in 1..k : Stream[j].line \in Nat /\ Stream[j].line < x.line
  <2> SUFFICES ASSUME NEW j \in 1..k
               PROVE  Stream[j].line \in Nat /\ Stream[j].line < x.line
    OBVIOUS
  <2>1. Stream[j].line \in Nat /\ Stream[j].line =< n
    BY StreamBytes
  <2> HIDE DEF n
  <2> QED
    BY <1>2, <1>3, <2>1
<1>7. InOrder(Stream')
  BY <1>3, <1>4, <1>5, <1>6, SendInOrder DEF IInv
<1> HIDE DEF n, k
<1>8. BufferOK' /\ RoomLeft' /\ (buf' # <<>> => ~buf'[Len(buf')].end)
  BY <1>1, <1>2, <1>3, AppendProperties DEF IInv, BufferOK, RoomLeft
<1>9. Stream' # <<>>
  BY <1>4, <1>5, EmptySeq
<1>10. \A j \in 1..(k + 1) : j \in 1..k \/ j = k + 1
  BY <1>4
<1>11. EndsWithPeer(Stream)'
  <2>1. \A j \in 1..(k + 1) : Stream'[j].line =< n + 1
    BY <1>2, <1>3, <1>5, <1>6, <1>10
  <2>2. \A j \in 1..(k + 1) : Stream'[j].line = n + 1 => ~Stream'[j].end
    BY <1>2, <1>3, <1>5, <1>6, <1>10
  <2> QED
    BY <1>1, <1>2, <1>3, <1>5, <2>1, <2>2 DEF EndsWithPeer
<1>12. CutBefore(Stream)' /\ ObeyedBefore(Stream)'
  <2>1. ASSUME Stream = <<>>, NEW i \in 1..Len(obeyed)
        PROVE  obeyed[i] < x.line
    <3>1. obeyed[i] \in Nat
      BY ElementOfSeq DEF IInv, BufferOK
    <3>2. obeyed[i] =< n
      BY <2>1 DEF IInv, ObeyedBefore, n
    <3> QED
      BY <1>2, <1>3, <3>1, <3>2
  <2> QED
    BY <1>1, <1>3, <1>4, <1>5, <2>1, SendBehind DEF IInv, k
<1>13. PatienceHelps(Stream)'
  <2> SUFFICES ASSUME patient'
               PROVE  /\ \A j \in 1..Len(Stream') : Stream'[j].line = n + 1
                      /\ \A i \in 1..(n + 1) : i < n + 1 => i \in ToSet(obeyed)
    BY <1>1, <1>2, <1>9 DEF PatienceHelps
  <2>1. patient /\ Stream = <<>>
    BY <1>1, ConcatEmptySeq DEF Stream, IInv, BufferOK
  <2>2. k = 0
    BY <2>1, EmptySeq DEF k
  <2>3. ASSUME NEW i \in 1..(n + 1), i < n + 1 PROVE i \in ToSet(obeyed)
    <3>1. i \in 1..n /\ n > 0
      BY <1>2, <2>3
    <3> QED
      BY <1>1, <1>2, <2>1, <3>1 DEF IInv, PatienceHelps, n
  <2> QED
    BY <1>3, <1>5, <2>2, <2>3
<1> QED
  BY <1>7, <1>8, <1>11, <1>12, <1>13 DEF IInv

LEMMA ContinueStep == ASSUME IInv, ContinueLine PROVE IInv'
<1> DEFINE n == Len(sent)
           k == Len(Stream)
<1>1. PICK end \in BOOLEAN :
        open' = ~end /\ kernel' = Append(kernel, Byte(n, FALSE, end))
  BY DEF ContinueLine
<1> DEFINE x == Byte(n, FALSE, end)
<1>2. /\ open /\ sent' = [sent EXCEPT ![n] = @ + 1]
      /\ buf' = buf /\ obeyed' = obeyed /\ cut' = cut /\ patient' = patient
  BY DEF ContinueLine
<1>3. n \in Nat \ {0} /\ sent' \in Seq(Nat) /\ Len(sent') = n
  <2>1. n \in 1..Len(sent) /\ sent \in Seq(Nat)
    BY <1>2 DEF IInv, BufferOK
  <2>2. sent[n] + 1 \in Nat
    BY <2>1, ElementOfSeq
  <2> QED
    BY <1>2, <2>1, <2>2, ExceptSeq
<1>4. x \in Bytes /\ x.line = n /\ x.first = FALSE /\ x.end = end
  BY <1>3 DEF Byte, Bytes
<1> HIDE DEF x
<1>5. k \in Nat /\ Stream \in Seq(Bytes)
  BY StreamTyped DEF IInv
<1>6. /\ Stream' \in Seq(Bytes) /\ Len(Stream') = k + 1
      /\ \A j \in 1..k : Stream'[j] = Stream[j]
      /\ Stream'[k + 1] = x
  BY <1>1, <1>2, <1>4, SendAppends DEF IInv, x
<1>7. \A j \in 1..k : Stream[j].line \in Nat /\ Stream[j].line =< n
  BY StreamBytes
<1>8. \A j \in 1..k : Stream[j].line = n => ~Stream[j].end
  BY <1>2 DEF IInv, EndsWithPeer
<1>9. Stream # <<>> => ~Stream[k].end
  BY <1>2 DEF IInv, EndsWithPeer
<1>10. InOrder(Stream')
  <2>1. ASSUME NEW j \in 1..k
        PROVE  \/ Stream[j].line < x.line
               \/ Stream[j].line = x.line /\ ~Stream[j].end /\ ~x.first
    <3>1. /\ Stream[j].line \in Nat /\ Stream[j].line =< n
          /\ Stream[j].line = n => ~Stream[j].end
      BY <1>7, <1>8
    <3> HIDE DEF n
    <3> QED
      BY <1>3, <1>4, <3>1
  <2> QED
    BY <1>4, <1>5, <1>6, <1>9, <2>1, SendInOrder DEF IInv
<1> HIDE DEF n, k
<1>11. BufferOK' /\ RoomLeft' /\ (buf' # <<>> => ~buf'[Len(buf')].end)
  <2>1. kernel' = Append(kernel, x)
    BY <1>1 DEF x
  <2>2. kernel' \in Seq(Bytes)
    BY <1>4, <2>1, AppendProperties DEF IInv, BufferOK
  <2>3. open' \in BOOLEAN /\ Len(sent') > 0
    BY <1>1, <1>3
  <2> QED
    BY <1>2, <1>3, <2>2, <2>3 DEF IInv, BufferOK, RoomLeft
<1>12. Stream' # <<>>
  BY <1>5, <1>6, EmptySeq
<1>13. \A j \in 1..(k + 1) : j \in 1..k \/ j = k + 1
  BY <1>5
<1>14. EndsWithPeer(Stream)'
  <2>1. \A j \in 1..(k + 1) : Stream'[j].line =< n
    BY <1>3, <1>4, <1>6, <1>7, <1>13
  <2>2. ASSUME NEW j \in 1..(k + 1), open', Stream'[j].line = n
        PROVE  ~Stream'[j].end
    BY <1>1, <1>4, <1>6, <1>8, <1>13, <2>2
  <2>3. Stream'[k + 1].end <=> ~open'
    BY <1>1, <1>4, <1>6
  <2> QED
    BY <1>3, <1>6, <2>1, <2>2, <2>3 DEF EndsWithPeer
<1>15. CutBefore(Stream)' /\ ObeyedBefore(Stream)'
  <2>1. Stream = <<>> => cut
    BY <1>2 DEF IInv, CutBefore
  <2>2. ASSUME Stream = <<>>, NEW i \in 1..Len(obeyed)
        PROVE  \/ obeyed[i] < x.line
               \/ cut /\ obeyed[i] = x.line
    <3>1. obeyed[i] \in Nat
      BY ElementOfSeq DEF IInv, BufferOK
    <3>2. obeyed[i] =< n
      BY <2>2 DEF IInv, ObeyedBefore, n
    <3>3. obeyed[i] < n => obeyed[i] < x.line
      BY <1>4
    <3>4. ~(obeyed[i] < n) => obeyed[i] = x.line
      BY <1>3, <1>4, <3>1, <3>2
    <3>5. cut
      BY <2>1, <2>2
    <3> QED
      BY <3>3, <3>4, <3>5
  <2> QED
    BY <1>2, <1>4, <1>5, <1>6, <2>1, <2>2, SendBehind DEF IInv, k
<1>16. PatienceHelps(Stream)'
  <2> SUFFICES ASSUME patient
               PROVE  /\ \A j \in 1..(k + 1) : Stream'[j].line = n
                      /\ \A i \in 1..n : i < n => i \in ToSet(obeyed)
    BY <1>2, <1>3, <1>6, <1>12 DEF PatienceHelps
  <2> QED
    BY <1>4, <1>6, <1>13 DEF IInv, PatienceHelps, n, k
<1> QED
  BY <1>10, <1>11, <1>14, <1>15, <1>16 DEF IInv

\* A message leaves the stream behind it, and is obeyed by its first line.
LEMMA MessageStep ==
  ASSUME IInv, ReadClientMessage, Complete(Filled)
  PROVE  IInv'
<1> DEFINE n == Len(sent)
           m == Len(Filled)
           r == Len(Rest)
           c == Stream[1].line
<1>1. /\ kernel # <<>> /\ kernel' = Rest /\ buf' = <<>>
      /\ obeyed' = Append(obeyed, Head(Filled).line) /\ cut' = (m = Size)
      /\ UNCHANGED <<sent, open, patient>>
  BY DEF ReadClientMessage, Filled, Rest, AfterMessage, CommandLine
<1>2. /\ Filled \in Seq(Bytes) /\ Rest \in Seq(Bytes)
      /\ m \in 1..Size /\ Len(Stream) = m + r
      /\ \A j \in 1..m : Filled[j] = Stream[j]
      /\ \A j \in 1..r : Rest[j] = Stream[m + j]
  BY <1>1, ReadSplits DEF IInv
<1>3. r \in Nat /\ n \in Nat
  BY <1>2 DEF IInv, BufferOK
<1>4. Stream' = Rest
  BY <1>1, <1>2, ConcatEmptySeq DEF Stream
<1> HIDE DEF n, m, r
<1>5. \A j \in 1..(m + r) :
        /\ Stream[j] \in Bytes /\ Stream[j].line \in Nat /\ Stream[j].line =< n
  BY <1>2, StreamBytes DEF n
<1>6. /\ Head(Filled) = Stream[1] /\ 1 \in 1..(m + r)
      /\ Stream # <<>> /\ c \in Nat /\ c =< n
  <2>1. 1 \in 1..m /\ 1 \in 1..(m + r)
    BY <1>2, <1>3
  <2>2. Head(Filled) = Filled[1]
    BY <1>2, <2>1
  <2>3. Stream # <<>>
    BY <1>2, <1>3, EmptySeq
  <2> QED
    BY <1>2, <1>5, <2>1, <2>2, <2>3
<1>7. \A j \in 1..(m + r) : c =< Stream[j].line
  <2> SUFFICES ASSUME NEW j \in 1..(m + r) PROVE c =< Stream[j].line
    OBVIOUS
  <2>1. CASE j = 1
    BY <1>6, <2>1
  <2>2. CASE j # 1
    <3>1. 1 < j
      BY <2>2
    <3>2. c < Stream[j].line \/ c = Stream[j].line
      BY <1>2, <1>6, <3>1 DEF IInv, InOrder
    <3> QED
      BY <1>5, <1>6, <3>2
  <2> QED
    BY <2>1, <2>2
<1>8. ASSUME m # Size PROVE Stream[m].end
  <2>1. Filled[m].end
    BY <1>8 DEF Complete, Last, m
  <2>2. m \in 1..m
    BY <1>2
  <2> QED
    BY <1>2, <2>1, <2>2
<1> HIDE DEF c
<1>9. /\ obeyed' = Append(obeyed, c) /\ obeyed' \in Seq(Nat)
      /\ Len(obeyed) \in Nat /\ Len(obeyed') = Len(obeyed) + 1
      /\ \A i \in 1..Len(obeyed) : obeyed'[i] = obeyed[i]
      /\ obeyed'[Len(obeyed) + 1] = c
  <2>1. obeyed \in Seq(Nat) /\ obeyed' = Append(obeyed, c)
    BY <1>1, <1>6 DEF IInv, BufferOK, c
  <2> QED
    BY <1>6, <2>1, AppendProperties
<1>10. BufferOK'
  BY <1>1, <1>2, <1>9 DEF IInv, BufferOK
<1>11. RoomLeft' /\ buf' = <<>>
  <2>1. Len(buf') = 0
    BY <1>1, EmptySeq
  <2> QED
    BY <1>1, <2>1 DEF RoomLeft
<1>12. \A j \in 1..r : m + j \in 1..(m + r) /\ Rest[j] = Stream[m + j]
  BY <1>2, <1>3
<1>13. Len(Rest) = r
  BY DEF r
<1>14. InOrder(Rest)
  <2>1. ASSUME NEW i \in 1..r, NEW j \in 1..r, i < j
        PROVE  \/ Rest[i].line < Rest[j].line
               \/ Rest[i].line = Rest[j].line /\ ~Rest[i].end /\ ~Rest[j].first
    <3>1. m + i < m + j /\ m + i \in 1..(m + r) /\ m + j \in 1..(m + r)
      BY <1>2, <1>3, <2>1
    <3> QED
      BY <1>2, <1>12, <3>1 DEF IInv, InOrder
  <2>2. ASSUME NEW j \in 1..(r - 1), Rest[j].end PROVE Rest[j + 1].first
    <3>1. /\ j \in 1..r /\ j + 1 \in 1..r
          /\ m + j \in 1..(m + r - 1) /\ m + (j + 1) = (m + j) + 1
      BY <1>2, <1>3
    <3>2. Rest[j] = Stream[m + j] /\ Rest[j + 1] = Stream[(m + j) + 1]
      BY <1>12, <3>1
    <3>3. m + j \in 1..(Len(Stream) - 1)
      BY <1>2, <1>3, <3>1
    <3>4. \A i \in 1..(Len(Stream) - 1) : Stream[i].end => Stream[i + 1].first
      BY DEF IInv, InOrder
    <3> QED
      BY <2>2, <3>2, <3>3, <3>4
  <2> QED
    BY <1>13, <2>1, <2>2 DEF InOrder
<1>15. EndsWithPeer(Stream)'
  <2>1. \A j \in 1..r : Rest[j].line =< n
    BY <1>5, <1>12
  <2>2. \A j \in 1..r : open /\ Rest[j].line = n => ~Rest[j].end
    BY <1>2, <1>12 DEF IInv, EndsWithPeer, n
  <2>3. Rest # <<>> => (Rest[r].end <=> ~open)
    <3> SUFFICES ASSUME Rest # <<>> PROVE Rest[r].end <=> ~open
      OBVIOUS
    <3>1. r \in 1..r
      BY <1>2, <1>3, EmptySeq DEF r
    <3> QED
      BY <1>2, <1>6, <1>12, <3>1 DEF IInv, EndsWithPeer
  <2> QED
    BY <1>1, <1>4, <1>13, <2>1, <2>2, <2>3 DEF EndsWithPeer, n
<1>16. ASSUME NEW i \in 1..Len(obeyed')
       PROVE  obeyed'[i] \in Nat /\ obeyed'[i] =< c
  <2>1. CASE i \in 1..Len(obeyed)
    <3>1. obeyed[i] \in Nat
      BY <2>1, ElementOfSeq DEF IInv, BufferOK
    <3>2. obeyed[i] < c \/ obeyed[i] = c
      BY <1>6, <2>1 DEF IInv, ObeyedBefore, c
    <3> QED
      BY <1>6, <1>9, <2>1, <3>1, <3>2
  <2>2. CASE i = Len(obeyed) + 1
    BY <1>6, <1>9, <2>2
  <2> QED
    BY <1>9, <2>1, <2>2
<1>17. CutBefore(Stream)' /\ ObeyedBefore(Stream)'
  <2>1. CASE Rest = <<>>
    <3>1. r = 0
      BY <2>1, EmptySeq DEF r
    <3>2. Stream[m].end <=> ~open
      BY <1>2, <1>3, <1>6, <3>1 DEF IInv, EndsWithPeer
    <3>3. CutBefore(Stream)'
      BY <1>1, <1>4, <1>8, <2>1, <3>2 DEF CutBefore
    <3>4. \A i \in 1..Len(obeyed') : obeyed'[i] =< n
      BY <1>3, <1>6, <1>16
    <3> QED
      BY <1>1, <1>4, <2>1, <3>3, <3>4 DEF ObeyedBefore, n
  <2>2. CASE Rest # <<>>
    <3>1. /\ r > 0 /\ m \in 1..(m + r) /\ m + 1 \in 1..(m + r) /\ m < m + 1
          /\ m \in 1..(m + r - 1) /\ Rest[1] = Stream[m + 1]
      BY <1>2, <1>3, <2>2, EmptySeq DEF r
    <3>2. Rest[1].line \in Nat /\ c =< Rest[1].line
      BY <1>5, <1>7, <3>1
    <3>3. ASSUME m # Size PROVE Rest[1].first /\ c < Rest[1].line
      <4>1. Stream[m].end
        BY <1>8, <3>3
      <4>2. Rest[1].first
        BY <1>2, <3>1, <4>1 DEF IInv, InOrder
      <4>3. Stream[m].line < Rest[1].line
        BY <1>2, <3>1, <4>1 DEF IInv, InOrder
      <4>4. c =< Stream[m].line /\ Stream[m].line \in Nat
        BY <1>5, <1>7, <3>1
      <4> QED
        BY <1>6, <3>2, <4>2, <4>3, <4>4
    <3>4. CutBefore(Stream)'
      BY <1>1, <1>4, <2>2, <3>3 DEF CutBefore, m
    <3>5. ASSUME NEW i \in 1..Len(obeyed')
          PROVE  \/ obeyed'[i] < Rest[1].line
                 \/ cut' /\ obeyed'[i] = Rest[1].line
      <4>1. obeyed'[i] \in Nat /\ obeyed'[i] =< c
        BY <1>16
      <4>2. CASE m # Size
        BY <1>6, <3>2, <3>3, <4>1, <4>2
      <4>3. CASE m = Size
        <5>1. cut'
          BY <1>1, <4>3 DEF m
        <5>2. obeyed'[i] < Rest[1].line \/ obeyed'[i] = Rest[1].line
          BY <1>6, <3>2, <4>1
        <5> QED
          BY <5>1, <5>2
      <4> QED
        BY <4>2, <4>3
    <3> QED
      BY <1>4, <2>2, <3>4, <3>5 DEF ObeyedBefore
  <2> QED
    BY <2>1, <2>2
<1>18. PatienceHelps(Stream)'
  <2> SUFFICES ASSUME patient
               PROVE  /\ \A j \in 1..r : Rest[j].line = n
                      /\ \A i \in 1..n : i < n => i \in ToSet(obeyed')
                      /\ n \in ToSet(obeyed')
    BY <1>1, <1>4, <1>13 DEF PatienceHelps, n
  <2>1. \A j \in 1..(m + r) : Stream[j].line = n
    BY <1>2 DEF IInv, PatienceHelps, n
  <2>2. \A i \in 1..n : i < n => i \in ToSet(obeyed)
    BY DEF IInv, PatienceHelps, n
  <2>3. \A i \in 1..Len(obeyed) : i \in 1..Len(obeyed')
    BY <1>9
  <2>4. /\ DOMAIN obeyed = 1..Len(obeyed) /\ DOMAIN obeyed' = 1..Len(obeyed')
    BY <1>9 DEF IInv, BufferOK
  <2>5. ToSet(obeyed) \subseteq ToSet(obeyed')
    BY <1>9, <2>3, <2>4 DEF ToSet
  <2>6. c = n /\ Len(obeyed') \in 1..Len(obeyed')
    BY <1>6, <1>9, <2>1 DEF c
  <2>7. n \in ToSet(obeyed')
    BY <1>9, <2>4, <2>6 DEF ToSet
  <2> QED
    BY <1>12, <2>1, <2>2, <2>5, <2>7
<1> QED
  BY <1>4, <1>10, <1>11, <1>14, <1>15, <1>17, <1>18 DEF IInv

\* A read that completes nothing leaves the stream as it is.
LEMMA PartStep ==
  ASSUME IInv, ReadClientMessage, ~Complete(Filled)
  PROVE  IInv'
<1>1. /\ kernel # <<>> /\ kernel' = Rest /\ buf' = Filled
      /\ UNCHANGED <<sent, open, obeyed, cut, patient>>
  BY DEF ReadClientMessage, Filled, Rest
<1>2. /\ Filled \in Seq(Bytes) /\ Rest \in Seq(Bytes)
      /\ Len(Filled) \in 1..Size /\ Filled \o Rest = Stream
  BY <1>1, ReadSplits DEF IInv
<1>3. Stream' = Stream
  BY <1>1, <1>2 DEF Stream
<1>4. BufferOK' /\ RoomLeft' /\ (buf' # <<>> => ~buf'[Len(buf')].end)
  BY <1>1, <1>2 DEF IInv, BufferOK, RoomLeft, Complete, Last
<1>5. EndsWithPeer(Stream)' /\ CutBefore(Stream)' /\ ObeyedBefore(Stream)'
      /\ PatienceHelps(Stream)'
  BY <1>1, <1>3 DEF IInv, EndsWithPeer, CutBefore, ObeyedBefore, PatienceHelps
<1> QED
  BY <1>3, <1>4, <1>5 DEF IInv

-----------------------------------------------------------------------------
LEMMA InitIInv == ASSUME Init PROVE IInv
<1> USE DEF Init
<1>1. Stream = <<>> /\ Len(Stream) = 0
  BY DEF Stream
<1>2. BufferOK /\ RoomLeft /\ buf = <<>>
  <2>1. \A S : <<>> \in Seq(S)
    OBVIOUS
  <2>2. Len(buf) = 0
    BY EmptySeq
  <2>3. BufferOK
    BY <2>1 DEF BufferOK
  <2> QED
    BY <2>2, <2>3 DEF RoomLeft
<1>3. /\ InOrder(Stream) /\ EndsWithPeer(Stream) /\ CutBefore(Stream)
      /\ ObeyedBefore(Stream) /\ PatienceHelps(Stream)
  BY <1>1
     DEF InOrder, EndsWithPeer, CutBefore, ObeyedBefore, PatienceHelps
<1> QED
  BY <1>2, <1>3 DEF IInv

LEMMA IInvStep == ASSUME IInv, [Next]_vars PROVE IInv'
<1>1. CASE UNCHANGED vars
  <2>1. UNCHANGED <<sent, open, kernel, buf, obeyed, cut, patient>>
    BY <1>1 DEF vars
  <2>2. Stream' = Stream
    BY <2>1 DEF Stream
  <2>3. BufferOK' /\ RoomLeft' /\ (buf' # <<>> => ~buf'[Len(buf')].end)
    BY <2>1 DEF IInv, BufferOK, RoomLeft
  <2>4. /\ EndsWithPeer(Stream)' /\ CutBefore(Stream)'
        /\ ObeyedBefore(Stream)' /\ PatienceHelps(Stream)'
    BY <2>1, <2>2
       DEF IInv, EndsWithPeer, CutBefore, ObeyedBefore, PatienceHelps
  <2> QED
    BY <2>2, <2>3, <2>4 DEF IInv
<1> QED
  BY <1>1, StartStep, ContinueStep, MessageStep, PartStep DEF Next

\* However the peer cuts its messages, and whatever Read and its parser have
\* taken of them, the buffer and what is not read yet are as IInv says.
THEOREM Inductive == Spec => []IInv
BY InitIInv, IInvStep, PTL DEF Spec

-----------------------------------------------------------------------------
\* Whatever recv returns, ReadClientMessage leaves room in the buffer: it
\* never asks for zero bytes, and never takes the zero it would then get for
\* a lost connection.
THEOREM RecvHasRoom == Spec => []RoomLeft
<1>1. IInv => RoomLeft
  BY DEF IInv
<1> QED
  BY <1>1, Inductive, PTL

\* A peer that waits for its lines to be read has each obeyed when its end is
\* read, however long it is and however recv cuts it.
THEOREM PatientPeerObeyed == Spec => []ObeyedAtOnce
<1>1. IInv => ObeyedAtOnce
  <2> SUFFICES ASSUME IInv, patient, NEW i \in Past(kernel)
               PROVE  i \in ToSet(obeyed)
    BY DEF ObeyedAtOnce
  <2>1. /\ i \in 1..Len(sent) /\ Len(sent) \in Nat
        /\ i = Len(sent) => ~open
        /\ \A j \in 1..Len(kernel) : kernel[j].line # i
    BY DEF Past, IInv, BufferOK
  <2>2. CASE i < Len(sent)
    BY <2>1, <2>2 DEF IInv, PatienceHelps
  <2>3. CASE i = Len(sent)
    <3>1. /\ buf \in Seq(Bytes) /\ kernel \in Seq(Bytes)
          /\ Len(buf) \in Nat /\ Len(kernel) \in Nat
          /\ Len(Stream) = Len(buf) + Len(kernel)
          /\ \A j \in 1..(Len(buf) + Len(kernel)) :
               Stream[j] = IF j =< Len(buf) THEN buf[j]
                           ELSE kernel[j - Len(buf)]
      BY ConcatProperties DEF IInv, BufferOK, Stream
    <3>2. \A j \in 1..Len(Stream) : Stream[j].line = Len(sent)
      BY DEF IInv, PatienceHelps
    <3>3. Len(kernel) = 0
      <4> SUFFICES ASSUME Len(kernel) # 0 PROVE FALSE
        OBVIOUS
      <4>1. /\ Len(buf) + 1 \in 1..Len(Stream) /\ ~(Len(buf) + 1 =< Len(buf))
            /\ (Len(buf) + 1) - Len(buf) = 1 /\ 1 \in 1..Len(kernel)
        BY <3>1
      <4>2. Stream[Len(buf) + 1] = kernel[1]
        BY <3>1, <4>1
      <4> QED
        BY <2>1, <2>3, <3>2, <4>1, <4>2
    <3>4. kernel = <<>> /\ Stream = buf
      BY <3>1, <3>3, EmptySeq, ConcatEmptySeq DEF Stream
    <3>5. buf = <<>>
      <4>1. buf # <<>> => (buf[Len(buf)].end <=> ~open)
        BY <3>4 DEF IInv, EndsWithPeer
      <4> QED
        BY <2>1, <2>3, <4>1 DEF IInv
    <3> QED
      BY <2>1, <2>3, <3>4, <3>5 DEF IInv, PatienceHelps
  <2> QED
    BY <2>1, <2>2, <2>3
<1> QED
  BY <1>1, Inductive, PTL

\* What ProcessClientMessage takes for a command is the first word of a line,
\* unless the message before filled m_pReadBuf.
THEOREM CommandsBeginLines == Spec => MidLineOnlyIfCut
<1>1. IInv /\ [Next]_vars =>
        [Len(obeyed') > Len(obeyed) => Head(buf \o kernel).first \/ cut]_vars
  <2> SUFFICES ASSUME IInv, Next, Len(obeyed') > Len(obeyed)
               PROVE  Head(buf \o kernel).first \/ cut
    OBVIOUS
  <2>1. kernel # <<>>
    <3>1. Len(obeyed) \in Nat
      BY DEF IInv, BufferOK
    <3>2. obeyed' # obeyed
      BY <3>1
    <3> QED
      BY <3>2 DEF Next, StartLine, ContinueLine, ReadClientMessage
  <2>2. Stream \in Seq(Bytes) /\ Len(Stream) > 0
    <3>1. /\ Len(Filled) > 0 /\ Len(Rest) >= 0
          /\ Len(Stream) = Len(Filled) + Len(Rest)
      BY <2>1, ReadSplits DEF IInv
    <3> QED
      BY <3>1, StreamTyped DEF IInv
  <2>3. Stream # <<>> /\ Head(Stream) = Stream[1]
    BY <2>2, EmptySeq
  <2> QED
    BY <2>3 DEF IInv, CutBefore, Stream
<1> QED
  BY <1>1, Inductive, PTL DEF Spec, MidLineOnlyIfCut

\* No command overtakes another, and no line is obeyed a second time but the
\* one that is cut.
THEOREM CommandsKeepOrder == Spec => ObeyedInOrder
<1> DEFINE A == \A i \in 1..Len(obeyed) :
                  Len(obeyed') > Len(obeyed) =>
                    \/ obeyed[i] < Last(obeyed')
                    \/ cut /\ obeyed[i] = Last(obeyed')
<1>1. IInv /\ [Next]_vars => [A]_vars
  <2> SUFFICES ASSUME IInv, Next, Len(obeyed') > Len(obeyed),
                      NEW i \in 1..Len(obeyed)
               PROVE  \/ obeyed[i] < Last(obeyed')
                      \/ cut /\ obeyed[i] = Last(obeyed')
    OBVIOUS
  <2>1. obeyed \in Seq(Nat) /\ Len(obeyed) \in Nat
    BY DEF IInv, BufferOK
  <2>2. /\ kernel # <<>>
        /\ obeyed' = Append(obeyed, Head(Filled).line)
    <3>1. obeyed' # obeyed
      BY <2>1
    <3>2. ReadClientMessage
      BY <3>1 DEF Next, StartLine, ContinueLine
    <3> QED
      BY <3>1, <3>2 DEF ReadClientMessage, Filled, CommandLine
  <2>3. /\ Filled \in Seq(Bytes) /\ Len(Filled) \in 1..Size
        /\ Rest \in Seq(Bytes) /\ Len(Stream) = Len(Filled) + Len(Rest)
        /\ \A j \in 1..Len(Filled) : Filled[j] = Stream[j]
    BY <2>2, ReadSplits DEF IInv
  <2>4. Head(Filled) = Stream[1] /\ Stream # <<>>
    <3>1. Head(Filled) = Filled[1] /\ 1 \in 1..Len(Filled)
      BY <2>3
    <3>2. Len(Stream) # 0
      BY <2>3
    <3> QED
      BY <2>3, <3>1, <3>2, EmptySeq
  <2>5. Stream[1].line \in Nat
    <3>1. 1 \in 1..Len(Stream)
      BY <2>3
    <3> QED
      BY <3>1, StreamBytes
  <2>6. Last(obeyed') = Stream[1].line
    <3>1. obeyed' = Append(obeyed, Stream[1].line)
      BY <2>2, <2>4
    <3>2. /\ Len(obeyed') = Len(obeyed) + 1
          /\ obeyed'[Len(obeyed) + 1] = Stream[1].line
      BY <2>1, <2>5, <3>1, AppendProperties
    <3> QED
      BY <3>2 DEF Last
  <2> QED
    BY <2>4, <2>6 DEF IInv, ObeyedBefore
<1> QED
  BY <1>1, Inductive, PTL DEF Spec, ObeyedInOrder

-----------------------------------------------------------------------------
(* Numbers and iterations, for the loops of Tokenize.  The library's       *)
(* induction theorems take an operator; these take sets and functions.     *)

Least(I) == CHOOSE i \in I : \A j \in I : i =< j

\* A set of numbers has a least one.
LEMMA HasLeast ==
  ASSUME NEW T \in SUBSET Nat, T # {}
  PROVE  /\ Least(T) \in T
         /\ \A y \in T : Least(T) =< y
<1> DEFINE R == OpToRel(<, Nat)
<1>1. IsWellFoundedOn(R, Nat)
  BY NatLessThanWellFounded
<1>2. \A x, y \in Nat : y < x => <<y, x>> \in R
  BY DEF OpToRel
<1> HIDE DEF R
<1>3. PICK x \in T : \A y \in T : ~(<<y, x>> \in R)
  BY <1>1, WFMin
<1>4. ASSUME NEW y \in T PROVE x =< y
  <2>1. x \in Nat /\ y \in Nat /\ ~(y < x)
    BY <1>2, <1>3
  <2> QED
    BY <2>1
<1> QED
  BY <1>4 DEF Least

\* Induction up to N.
LEMMA Climb ==
  ASSUME NEW N \in Nat, NEW P, 0 \in P,
         \A n \in 0..(N - 1) : n \in P => n + 1 \in P
  PROVE  \A n \in 0..N : n \in P
<1> DEFINE T == (0..N) \ P
<1> SUFFICES ASSUME T # {} PROVE FALSE
  OBVIOUS
<1>1. T \in SUBSET Nat
  OBVIOUS
<1> HIDE DEF T
<1>2. Least(T) \in T /\ \A y \in T : Least(T) =< y
  BY <1>1, HasLeast
<1>3. PICK x \in T : \A y \in T : x =< y
  BY <1>2
<1>4. x \in 0..N /\ x \notin P
  BY <1>3 DEF T
<1>5. x # 0
  BY <1>4
<1>6. x - 1 \in 0..(N - 1) /\ (x - 1) + 1 = x
  BY <1>4, <1>5
<1>7. x - 1 \notin P
  BY <1>4, <1>6
<1>8. x - 1 \in T
  BY <1>4, <1>6, <1>7 DEF T
<1> QED
  BY <1>3, <1>6, <1>8

\* A loop of N turns over a state in A, with the turns h, has its N states.
IsLoop(f, N, A, b, h) ==
  /\ f \in [0..N -> A]
  /\ f[0] = b
  /\ \A n \in 1..N : f[n] = h[n][f[n - 1]]

\* Each loop has its states.
LEMMA Iterates ==
  ASSUME NEW N \in Nat, NEW A, NEW b \in A, NEW h \in [1..N -> [A -> A]]
  PROVE  \E f : IsLoop(f, N, A, b, h)
<1> DEFINE Good(f, n) == f[0] = b /\ \A k \in 1..n : f[k] = h[k][f[k - 1]]
           P == {n \in 0..N : \E f \in [0..n -> A] : Good(f, n)}
<1>1. 0 \in P
  <2> DEFINE f == [i \in 0..0 |-> b]
  <2>1. f \in [0..0 -> A] /\ Good(f, 0)
    OBVIOUS
  <2>2. 0 \in 0..N
    OBVIOUS
  <2> HIDE DEF f, Good
  <2> QED
    BY <2>1, <2>2
<1>2. ASSUME NEW n \in 0..(N - 1), n \in P PROVE n + 1 \in P
  <2>1. PICK f \in [0..n -> A] : Good(f, n)
    BY <1>2
  <2> DEFINE g == [i \in 0..(n + 1) |-> IF i = n + 1 THEN h[n + 1][f[n]] ELSE f[i]]
  <2>2. h[n + 1][f[n]] \in A
    <3>1. n + 1 \in 1..N /\ n \in 0..n
      OBVIOUS
    <3>2. h[n + 1] \in [A -> A] /\ f[n] \in A
      BY <3>1
    <3> QED
      BY <3>2
  <2>3. g \in [0..(n + 1) -> A]
    BY <2>2
  <2>4. g[n + 1] = h[n + 1][f[n]] /\ \A i \in 0..n : g[i] = f[i]
    OBVIOUS
  <2> HIDE DEF g
  <2>5. ASSUME NEW k \in 1..(n + 1) PROVE g[k] = h[k][g[k - 1]]
    <3>1. CASE k = n + 1
      BY <2>4, <3>1
    <3>2. CASE k # n + 1
      <4>1. k \in 1..n /\ k - 1 \in 0..n /\ k \in 0..n
        BY <3>2
      <4>2. g[k] = f[k] /\ g[k - 1] = f[k - 1]
        BY <2>4, <4>1
      <4> QED
        BY <2>1, <4>1, <4>2
    <3> QED
      BY <3>1, <3>2
  <2>6. g[0] = b
    BY <2>1, <2>4
  <2>7. Good(g, n + 1)
    BY <2>5, <2>6
  <2> HIDE DEF Good
  <2>8. n + 1 \in 0..N
    OBVIOUS
  <2> QED
    BY <2>3, <2>7, <2>8
<1> HIDE DEF P
<1>3. \A n \in 0..N : n \in P
  BY <1>1, <1>2, Climb
<1>4. N \in P
  BY <1>3
<1>5. PICK f \in [0..N -> A] : Good(f, N)
  BY <1>4 DEF P
<1> QED
  BY <1>5 DEF IsLoop
-----------------------------------------------------------------------------
(* Texts, and what trimming leaves of them.                                *)

-----------------------------------------------------------------------------
(* Tokenize: what the loop does.                                           *)

\* A piece of a sequence.
LEMMA Piece ==
  ASSUME NEW C, NEW s \in Seq(C), NEW m \in Nat \ {0}, NEW n \in Int, n =< Len(s)
  PROVE  /\ SubSeq(s, m, n) \in Seq(C)
         /\ Len(SubSeq(s, m, n)) = IF m =< n THEN n - m + 1 ELSE 0
         /\ \A i \in 1..(n - m + 1) : SubSeq(s, m, n)[i] = s[m + i - 1]
<1>1. Len(s) \in Nat
  BY LenProperties
<1>2. \A i \in m..n : i \in 1..Len(s)
  BY <1>1
<1>3. \A i \in m..n : s[i] \in C
  BY <1>2, ElementOfSeq
<1> QED
  BY <1>3, SubSeqProperties

\* Sequences, their lengths and the empty one.
LEMMA Lengths ==
  ASSUME NEW C, NEW s \in Seq(C)
  PROVE  /\ Len(s) \in Nat
         /\ s = <<>> <=> Len(s) = 0
         /\ <<>> \in Seq(C) /\ Len(<<>>) = 0
BY LenProperties, EmptySeq

\* States of the loop: nLastSpacePos is behind a character.
Scans(C) == [tokens : Seq(Seq(C)), last : Nat \ {0}, broken : BOOLEAN]

\* Pushing changes nothing, or adds one token.
AddsOne(us, ts, t) ==
  /\ Len(us) = Len(ts) + 1 /\ us # <<>>
  /\ \A i \in 1..Len(ts) : us[i] = ts[i]
  /\ us[Len(ts) + 1] = t

LEMMA PushedIs ==
  ASSUME NEW C, NEW ts \in Seq(Seq(C)), NEW t \in Seq(C)
  PROVE  /\ Pushed(ts, t) \in Seq(Seq(C))
         /\ t # <<>> => AddsOne(Pushed(ts, t), ts, t)
<1>1. CASE t = <<>>
  BY <1>1 DEF Pushed
<1>2. CASE t # <<>>
  <2>1. Pushed(ts, t) = Append(ts, t)
    BY <1>2 DEF Pushed
  <2> QED
    BY <2>1, AppendProperties DEF AddsOne
<1> QED
  BY <1>1, <1>2

\* The three kinds of turn.
LEMMA TurnIs ==
  ASSUME NEW C, NEW line \in Seq(C), NEW i \in 1..Len(line), NEW acc \in Scans(C)
  PROVE  /\ Turn(line, acc, i) \in Scans(C)
         /\ acc.broken \/ line[i] \notin Ends => Turn(line, acc, i) = acc
         /\ ~acc.broken /\ line[i] \in Ends =>
              /\ Turn(line, acc, i).tokens =
                   Pushed(acc.tokens, SubSeq(line, acc.last, i - 1))
              /\ line[i] = Colon => Turn(line, acc, i).broken
              /\ line[i] # Colon => ~Turn(line, acc, i).broken
              /\ Turn(line, acc, i).last =
                   (IF line[i] = Colon THEN acc.last ELSE i + 1)
<1>1. acc.last \in Nat \ {0} /\ acc.tokens \in Seq(Seq(C)) /\ acc.broken \in BOOLEAN
  BY DEF Scans
<1>2. Len(line) \in Nat
  BY Lengths
<1>3. i - 1 \in Int /\ i - 1 =< Len(line) /\ i + 1 \in Nat \ {0}
  BY <1>2
<1>4. SubSeq(line, acc.last, i - 1) \in Seq(C)
  BY <1>1, <1>3, Piece
<1>5. Pushed(acc.tokens, SubSeq(line, acc.last, i - 1)) \in Seq(Seq(C))
  BY <1>1, <1>4, PushedIs
<1>6. CASE acc.broken \/ line[i] \notin Ends
  BY <1>6 DEF Turn
<1>7. CASE ~acc.broken /\ line[i] \in Ends
  <2>1. Turn(line, acc, i) =
          [tokens |-> Pushed(acc.tokens, SubSeq(line, acc.last, i - 1)),
           last   |-> IF line[i] = Colon THEN acc.last ELSE i + 1,
           broken |-> line[i] = Colon]
    BY <1>7 DEF Turn
  <2>2. CASE line[i] = Colon
    <3>1. Turn(line, acc, i) =
            [tokens |-> Pushed(acc.tokens, SubSeq(line, acc.last, i - 1)),
             last   |-> acc.last, broken |-> TRUE]
      BY <2>1, <2>2
    <3> QED
      BY <1>1, <1>5, <1>7, <2>2, <3>1 DEF Scans
  <2>3. CASE line[i] # Colon
    <3>1. Turn(line, acc, i) =
            [tokens |-> Pushed(acc.tokens, SubSeq(line, acc.last, i - 1)),
             last   |-> i + 1, broken |-> FALSE]
      BY <2>1, <2>3
    <3> QED
      BY <1>3, <1>5, <1>7, <2>3, <3>1 DEF Scans
  <2> QED
    BY <2>2, <2>3
<1> QED
  BY <1>1, <1>6, <1>7

\* s is what the loop over line goes through.
IsScan(C, line, s) ==
  /\ s[0] = [tokens |-> <<>>, last |-> 1, broken |-> FALSE]
  /\ \A n \in 1..Len(line) : s[n] = Turn(line, s[n - 1], n)
  /\ \A n \in 0..Len(line) : s[n] \in Scans(C)

LEMMA ScannedIs ==
  ASSUME NEW C, NEW line \in Seq(C)
  PROVE  IsScan(C, line, Scanned(line))
<1> DEFINE N == Len(line)
           b == [tokens |-> <<>>, last |-> 1, broken |-> FALSE]
           h == [n \in 1..N |-> [acc \in Scans(C) |-> Turn(line, acc, n)]]
           t == Scanned(line)
           Is(g) == g = [n \in 0..N |-> IF n = 0 THEN b ELSE Turn(line, g[n - 1], n)]
<1>1. N \in Nat
  BY Lengths
<1>2. b \in Scans(C)
  BY EmptySeq DEF Scans
<1>3. h \in [1..N -> [Scans(C) -> Scans(C)]]
  BY TurnIs
<1> HIDE DEF b
<1>4. PICK f : IsLoop(f, N, Scans(C), b, h)
  <2> HIDE DEF h, N
  <2> QED
    BY <1>1, <1>2, <1>3, Iterates
<1>5. f \in [0..N -> Scans(C)] /\ f[0] = b /\ \A n \in 1..N : f[n] = h[n][f[n - 1]]
  <2> HIDE DEF h, N
  <2> QED
    BY <1>4 DEF IsLoop
<1>6. \A n \in 1..N : f[n] = Turn(line, f[n - 1], n)
  <2> SUFFICES ASSUME NEW n \in 1..N PROVE f[n] = Turn(line, f[n - 1], n)
    OBVIOUS
  <2>1. n - 1 \in 0..N
    BY <1>1
  <2>2. f[n - 1] \in Scans(C)
    BY <1>5, <2>1
  <2>3. h[n][f[n - 1]] = Turn(line, f[n - 1], n)
    BY <2>2
  <2> QED
    BY <1>5, <2>3
<1>7. Is(f)
  <2>1. \A n \in 0..N : f[n] = IF n = 0 THEN b ELSE Turn(line, f[n - 1], n)
    BY <1>1, <1>5, <1>6
  <2> QED
    BY <1>5, <2>1
<1>8. t = CHOOSE g : Is(g)
  BY DEF Scanned, b
<1>9. Is(t)
  <2> HIDE DEF Is, t
  <2> QED
    BY <1>7, <1>8
<1> HIDE DEF t
<1>10. t[0] = b /\ \A n \in 1..N : t[n] = Turn(line, t[n - 1], n)
  <2>1. \A n \in 0..N : t[n] = IF n = 0 THEN b ELSE Turn(line, t[n - 1], n)
    BY <1>9
  <2> QED
    BY <1>1, <2>1
<1>11. \A n \in 0..N : t[n] \in Scans(C)
  <2> DEFINE P == {n \in 0..N : t[n] \in Scans(C)}
  <2>1. 0 \in P
    BY <1>1, <1>2, <1>10
  <2>2. ASSUME NEW n \in 0..(N - 1), n \in P PROVE n + 1 \in P
    <3>1. n + 1 \in 1..N /\ (n + 1) - 1 = n /\ n + 1 \in 0..N
      BY <1>1
    <3>2. t[n + 1] = Turn(line, t[n], n + 1)
      BY <1>10, <3>1
    <3>3. t[n + 1] \in Scans(C)
      BY <2>2, <3>1, <3>2, TurnIs
    <3> QED
      BY <3>1, <3>3
  <2> HIDE DEF P
  <2>3. \A n \in 0..N : n \in P
    <3> HIDE DEF N
    <3> QED
      BY <1>1, <2>1, <2>2, Climb
  <2> QED
    BY <2>3 DEF P
<1> QED
  BY <1>10, <1>11 DEF t, b, IsScan

-----------------------------------------------------------------------------
(* Tokenize: what any message is cut into.                                 *)

\* The tokens are words: not empty, and without characters that end one.
AreWords(tokens) ==
  \A i \in 1..Len(tokens) :
    tokens[i] # <<>> /\ \A j \in 1..Len(tokens[i]) : tokens[i][j] \notin Ends

\* After n characters: the tokens are words, the first of them begins the
\* line, and behind nLastSpacePos no word has ended.
CutSoFar(line, acc, n) ==
  /\ acc.last \in 1..(n + 1)
  /\ AreWords(acc.tokens)
  /\ ~acc.broken => \A j \in acc.last..n : line[j] \notin Ends
  /\ IF acc.tokens = <<>> THEN \A k \in 1..(acc.last - 1) : line[k] \in Ends
                          ELSE Begins(acc.tokens[1], line)

\* A turn keeps this.
LEMMA CutGoesOn ==
  ASSUME NEW C, NEW line \in Seq(C), NEW n \in 0..(Len(line) - 1),
         NEW acc \in Scans(C), CutSoFar(line, acc, n)
  PROVE  CutSoFar(line, Turn(line, acc, n + 1), n + 1)
<1> DEFINE new == Turn(line, acc, n + 1)
           ts  == acc.tokens
           t   == SubSeq(line, acc.last, n)
<1>1. Len(line) \in Nat
  BY Lengths
<1>2. n + 1 \in 1..Len(line) /\ (n + 1) - 1 = n /\ n \in Int /\ n =< Len(line)
  BY <1>1
<1>3. /\ acc.broken \/ line[n + 1] \notin Ends => new = acc
      /\ ~acc.broken /\ line[n + 1] \in Ends =>
           /\ new.tokens = Pushed(ts, t)
           /\ line[n + 1] = Colon => new.broken
           /\ line[n + 1] # Colon => ~new.broken
           /\ new.last = (IF line[n + 1] = Colon THEN acc.last ELSE n + 2)
  <2>1. (n + 1) + 1 = n + 2
    BY <1>1
  <2> QED
    BY <1>2, <2>1, TurnIs
<1>4. acc.last \in 1..(n + 1) /\ acc.last \in Nat \ {0} /\ acc.broken \in BOOLEAN
      /\ ts \in Seq(Seq(C))
  BY DEF CutSoFar, Scans
<1> SUFFICES CutSoFar(line, new, n + 1)
  OBVIOUS
<1> HIDE DEF new
<1>5. CASE acc.broken
  <2>1. acc.last \in 1..((n + 1) + 1)
    BY <1>1, <1>4
  <2> QED
    BY <1>3, <1>5, <2>1 DEF CutSoFar
<1>6. CASE ~acc.broken /\ line[n + 1] \notin Ends
  <2>1. acc.last \in 1..((n + 1) + 1)
    BY <1>1, <1>4
  <2>2. \A j \in acc.last..n : line[j] \notin Ends
    BY <1>6 DEF CutSoFar
  <2>3. \A j \in acc.last..(n + 1) : j \in acc.last..n \/ j = n + 1
    BY <1>1, <1>4
  <2>4. \A j \in acc.last..(n + 1) : line[j] \notin Ends
    BY <1>6, <2>2, <2>3
  <2> QED
    BY <1>3, <1>6, <2>1, <2>4 DEF CutSoFar
<1>7. CASE ~acc.broken /\ line[n + 1] \in Ends
  <2>1. /\ t \in Seq(C) /\ Len(t) = (IF acc.last =< n THEN n - acc.last + 1 ELSE 0)
        /\ \A i \in 1..(n - acc.last + 1) : t[i] = line[acc.last + i - 1]
    BY <1>2, <1>4, Piece
  <2>2. \A j \in acc.last..n : line[j] \notin Ends
    BY <1>7 DEF CutSoFar
  <2> HIDE DEF t
  <2>3. \A i \in 1..Len(t) : t[i] \notin Ends
    <3> SUFFICES ASSUME NEW i \in 1..Len(t) PROVE t[i] \notin Ends
      OBVIOUS
    <3>1. PICK j \in Int : j = acc.last + i - 1
      BY <1>4
    <3>2. i \in 1..(n - acc.last + 1) /\ j \in acc.last..n
      BY <1>1, <1>4, <2>1, <3>1
    <3> QED
      BY <2>1, <2>2, <3>1, <3>2
  <2>4. new.last \in 1..((n + 1) + 1)
    BY <1>1, <1>3, <1>4, <1>7
  <2>5. ~new.broken => \A j \in new.last..(n + 1) : line[j] \notin Ends
    BY <1>1, <1>3, <1>7
  <2>6. CASE t = <<>>
    <3>1. new.tokens = ts
      BY <1>3, <1>7, <2>6 DEF Pushed
    <3>2. acc.last = n + 1
      BY <1>1, <1>4, <2>1, <2>6, Lengths
    <3>3. ASSUME ts = <<>>, NEW k \in 1..(new.last - 1)
          PROVE  line[k] \in Ends
      <4>1. \A i \in 1..(acc.last - 1) : line[i] \in Ends
        BY <3>3 DEF CutSoFar
      <4>2. k \in 1..(acc.last - 1) \/ k = n + 1
        BY <1>1, <1>3, <1>4, <1>7, <3>2
      <4> QED
        BY <1>7, <4>1, <4>2
    <3>4. ts # <<>> => Begins(ts[1], line)
      BY DEF CutSoFar
    <3>5. AreWords(ts)
      BY DEF CutSoFar
    <3> QED
      BY <2>4, <2>5, <3>1, <3>3, <3>4, <3>5 DEF CutSoFar
  <2>7. CASE t # <<>>
    <3> DEFINE us == new.tokens
    <3>1. AddsOne(us, ts, t)
      <4>1. us = Pushed(ts, t)
        BY <1>3, <1>7
      <4> QED
        BY <1>4, <2>1, <2>7, <4>1, PushedIs
    <3>2. Len(ts) \in Nat /\ (ts = <<>> <=> Len(ts) = 0)
      BY <1>4, Lengths
    <3> HIDE DEF us
    <3>3. us # <<>>
      BY <3>1 DEF AddsOne
    <3>4. AreWords(us)
      <4>1. AreWords(ts)
        BY DEF CutSoFar
      <4>2. \A i \in 1..Len(us) : i \in 1..Len(ts) \/ i = Len(ts) + 1
        BY <3>1, <3>2 DEF AddsOne
      <4> QED
        BY <2>3, <2>7, <3>1, <4>1, <4>2 DEF AreWords, AddsOne
    <3>5. Begins(us[1], line)
      <4>1. CASE ts = <<>>
        <5>1. us[1] = t /\ \A k \in 1..(acc.last - 1) : line[k] \in Ends
          BY <3>1, <3>2, <4>1 DEF CutSoFar, AddsOne
        <5>2. acc.last \in 1..Len(line) /\ n \in 0..Len(line)
          BY <1>1, <1>4
        <5> QED
          BY <5>1, <5>2 DEF Begins, t
      <4>2. CASE ts # <<>>
        <5>1. 1 \in 1..Len(ts)
          BY <3>2, <4>2
        <5> QED
          BY <3>1, <4>2, <5>1 DEF CutSoFar, AddsOne
      <4> QED
        BY <4>1, <4>2
    <3> QED
      BY <2>4, <2>5, <3>3, <3>4, <3>5 DEF CutSoFar, us
  <2> QED
    BY <2>6, <2>7
<1> QED
  BY <1>4, <1>5, <1>6, <1>7

\* Whatever characters a message holds (MyString.cpp:20-72): no token is empty,
\* none but the last holds a character that ends a word, and the first one, the
\* command, is what the message begins with.
THEOREM AnyMessageIsCutWell ==
  ASSUME NEW C, NEW line \in Seq(C)
  PROVE  CutWell(line)
<1> DEFINE N == Len(line)
           s == Scanned(line)
           acc == s[N]
           e == EndOfLine(line)
           rest == SubSeq(line, acc.last, N - e)
           t == Tokenize(line)
           P == {n \in 0..N : CutSoFar(line, s[n], n)}
<1>1. N \in Nat
  BY Lengths
<1>2. IsScan(C, line, s)
  BY ScannedIs
<1> HIDE DEF s
<1>3. 0 \in P
  <2>1. s[0] = [tokens |-> <<>>, last |-> 1, broken |-> FALSE]
    BY <1>2 DEF IsScan
  <2>2. AreWords(<<>>)
    BY EmptySeq DEF AreWords
  <2>3. CutSoFar(line, s[0], 0)
    BY <2>1, <2>2 DEF CutSoFar
  <2> QED
    BY <1>1, <2>3
<1>4. ASSUME NEW n \in 0..(N - 1), n \in P PROVE n + 1 \in P
  <2>1. n + 1 \in 1..N /\ (n + 1) - 1 = n /\ n + 1 \in 0..N /\ n \in 0..N
    BY <1>1
  <2>2. s[n + 1] = Turn(line, s[n], n + 1) /\ s[n] \in Scans(C)
    BY <1>2, <2>1 DEF IsScan
  <2>3. CutSoFar(line, s[n], n)
    BY <1>4
  <2>4. CutSoFar(line, s[n + 1], n + 1)
    BY <2>2, <2>3, CutGoesOn
  <2> QED
    BY <2>1, <2>4
<1>5. CutSoFar(line, acc, N) /\ acc \in Scans(C)
  <2> HIDE DEF P
  <2>1. \A n \in 0..N : n \in P
    <3> HIDE DEF N
    <3> QED
      BY <1>1, <1>3, <1>4, Climb
  <2>2. N \in 0..N
    BY <1>1
  <2> QED
    BY <1>2, <2>1, <2>2 DEF P, IsScan
<1>6. t = Pushed(acc.tokens, rest)
  BY DEF Tokenize, s
<1>7. e \in {1, 2}
  BY DEF EndOfLine
<1> HIDE DEF acc, e, t
<1>8. acc.last \in 1..(N + 1) /\ acc.last \in Nat \ {0} /\ acc.tokens \in Seq(Seq(C))
  BY <1>5 DEF CutSoFar, Scans
<1>9. N - e \in Int /\ N - e =< Len(line)
  BY <1>1, <1>7
<1>10. rest \in Seq(C) /\ (rest # <<>> => acc.last =< N - e)
  BY <1>8, <1>9, Piece, SubSeqEmpty
<1> HIDE DEF rest
<1>11. CASE rest = <<>>
  <2>1. t = acc.tokens
    BY <1>6, <1>11 DEF Pushed
  <2>2. t # <<>> => Begins(t[1], line)
    BY <1>5, <2>1 DEF CutSoFar
  <2>3. AreWords(t)
    BY <1>5, <2>1 DEF CutSoFar
  <2> QED
    BY <2>2, <2>3 DEF CutWell, AreWords, t
<1>12. CASE rest # <<>>
  <2>1. AddsOne(t, acc.tokens, rest)
    BY <1>6, <1>8, <1>10, <1>12, PushedIs
  <2>2. Len(acc.tokens) \in Nat /\ (acc.tokens = <<>> <=> Len(acc.tokens) = 0)
    BY <1>8, Lengths
  <2>3. AreWords(acc.tokens)
    BY <1>5 DEF CutSoFar
  <2>4. ASSUME NEW i \in 1..Len(t)
        PROVE  /\ t[i] # <<>>
               /\ i < Len(t) => \A j \in 1..Len(t[i]) : t[i][j] \notin Ends
    <3>1. i \in 1..Len(acc.tokens) \/ i = Len(t)
      BY <2>1, <2>2 DEF AddsOne
    <3>2. CASE i \in 1..Len(acc.tokens)
      BY <2>1, <2>3, <3>2 DEF AreWords, AddsOne
    <3>3. CASE i = Len(t)
      BY <1>12, <2>1, <2>2, <3>3 DEF AddsOne
    <3> QED
      BY <3>1, <3>2, <3>3
  <2>5. Begins(t[1], line)
    <3>1. CASE acc.tokens = <<>>
      <4>1. t[1] = rest /\ \A k \in 1..(acc.last - 1) : line[k] \in Ends
        BY <1>5, <2>1, <2>2, <3>1 DEF CutSoFar, AddsOne
      <4>2. acc.last \in 1..Len(line) /\ N - e \in 0..Len(line)
        BY <1>1, <1>7, <1>8, <1>10, <1>12
      <4> QED
        BY <4>1, <4>2 DEF Begins, rest
    <3>2. CASE acc.tokens # <<>>
      <4>1. 1 \in 1..Len(acc.tokens)
        BY <2>2, <3>2
      <4> QED
        BY <1>5, <2>1, <3>2, <4>1 DEF CutSoFar, AddsOne
    <3> QED
      BY <3>1, <3>2
  <2> QED
    BY <2>4, <2>5 DEF CutWell, t
<1> QED
  BY <1>11, <1>12

-----------------------------------------------------------------------------
(* Tokenize: what a peer writes is found again.                            *)

\* Nothing happens behind a colon, and inside of a word.
LEMMA NothingHappens ==
  ASSUME NEW C, NEW line \in Seq(C), NEW s, IsScan(C, line, s),
         NEW p \in 0..Len(line), NEW q \in p..Len(line),
         \A i \in (p + 1)..q : s[p].broken \/ line[i] \notin Ends
  PROVE  s[q] = s[p]
<1> DEFINE P == {n \in 0..(q - p) : s[p + n] = s[p]}
<1>1. Len(line) \in Nat
  BY Lengths
<1>2. q - p \in Nat /\ p + (q - p) = q
  BY <1>1
<1>3. 0 \in P
  <2>1. p + 0 = p
    BY <1>1
  <2> QED
    BY <1>2, <2>1
<1>4. ASSUME NEW n \in 0..((q - p) - 1), n \in P PROVE n + 1 \in P
  <2>1. PICK j \in Int : j = p + n + 1
    BY <1>1
  <2>2. /\ j \in 1..Len(line) /\ j \in (p + 1)..q /\ j - 1 = p + n
        /\ n + 1 \in 0..(q - p) /\ p + (n + 1) = j
    BY <1>1, <2>1
  <2>3. p \in 0..Len(line) /\ s[p] \in Scans(C)
    BY DEF IsScan
  <2>4. s[j] = Turn(line, s[p], j)
    BY <1>4, <2>2 DEF IsScan
  <2>5. s[j] = s[p]
    BY <2>2, <2>3, <2>4, TurnIs
  <2> QED
    BY <2>2, <2>5
<1> HIDE DEF P
<1>5. \A n \in 0..(q - p) : n \in P
  BY <1>2, <1>3, <1>4, Climb
<1>6. q - p \in P
  BY <1>2, <1>5
<1> QED
  BY <1>2, <1>6 DEF P

\* With the word up to p the tokens are ts.
Done(line, acc, ts, p) ==
  ~acc.broken /\ Pushed(acc.tokens, SubSeq(line, acc.last, p)) = ts

\* The tokens are ts, and the next one begins at k.
Between(acc, ts, k) == acc.tokens = ts /\ acc.last = k /\ ~acc.broken

\* Characters that end words, and are no colon, push one word.
LEMMA GapPushes ==
  ASSUME NEW C, NEW line \in Seq(C), NEW s, IsScan(C, line, s),
         NEW p \in 0..Len(line), NEW q \in (p + 1)..Len(line),
         \A i \in (p + 1)..q : line[i] \in Ends \ {Colon},
         NEW ts, Done(line, s[p], ts, p)
  PROVE  Between(s[q], ts, q + 1)
<1> DEFINE M == q - p - 1
           P == {n \in 0..M : Between(s[(p + 1) + n], ts, (p + 1) + n + 1)}
<1>1. Len(line) \in Nat
  BY Lengths
<1>2. M \in Nat /\ (p + 1) + M = q /\ (p + 1) + M + 1 = q + 1
  BY <1>1
<1>3. 0 \in P
  <2>1. PICK j \in Int : j = p + 1
    OBVIOUS
  <2>2. j \in 1..Len(line) /\ j \in (p + 1)..q /\ j - 1 = p /\ (p + 1) + 0 = j
        /\ (p + 1) + 0 + 1 = j + 1
    BY <1>1, <2>1
  <2>3. line[j] \in Ends /\ line[j] # Colon
    BY <2>2
  <2>4. s[p] \in Scans(C) /\ s[j] = Turn(line, s[p], j)
    BY <2>2 DEF IsScan
  <2>5. ~s[p].broken
    BY DEF Done
  <2>6. /\ s[j].tokens = Pushed(s[p].tokens, SubSeq(line, s[p].last, j - 1))
        /\ ~s[j].broken /\ s[j].last = j + 1
    BY <2>2, <2>3, <2>4, <2>5, TurnIs
  <2>7. Between(s[j], ts, j + 1)
    BY <2>2, <2>6 DEF Done, Between
  <2> QED
    BY <1>2, <2>2, <2>7
<1>4. ASSUME NEW n \in 0..(M - 1), n \in P PROVE n + 1 \in P
  <2>1. PICK j \in Int : j = (p + 1) + n + 1
    OBVIOUS
  <2>2. /\ j \in 1..Len(line) /\ j \in (p + 1)..q /\ j - 1 = (p + 1) + n
        /\ (p + 1) + (n + 1) = j /\ (p + 1) + (n + 1) + 1 = j + 1
        /\ n + 1 \in 0..M /\ j - 1 \in 0..Len(line)
    BY <1>1, <2>1
  <2>3. line[j] \in Ends /\ line[j] # Colon
    BY <2>2
  <2>4. s[j - 1] \in Scans(C) /\ s[j] = Turn(line, s[j - 1], j)
    BY <2>2 DEF IsScan
  <2>5. Between(s[j - 1], ts, j)
    BY <1>4, <2>1, <2>2
  <2>6. SubSeq(line, j, j - 1) = <<>>
    BY SubSeqEmpty
  <2>7. /\ s[j].tokens = Pushed(s[j - 1].tokens, SubSeq(line, s[j - 1].last, j - 1))
        /\ ~s[j].broken /\ s[j].last = j + 1
    BY <2>2, <2>3, <2>4, <2>5, TurnIs DEF Between
  <2>8. Between(s[j], ts, j + 1)
    BY <2>5, <2>6, <2>7 DEF Between, Pushed
  <2> QED
    BY <2>2, <2>8
<1> HIDE DEF P, M
<1>5. \A n \in 0..M : n \in P
  BY <1>2, <1>3, <1>4, Climb
<1>6. M \in P
  BY <1>2, <1>5
<1> QED
  BY <1>2, <1>6 DEF P

\* A word behind a gap is one more token.
LEMMA WordIsNext ==
  ASSUME NEW C, NEW line \in Seq(C), NEW s, IsScan(C, line, s),
         NEW p \in 0..Len(line), NEW q \in (p + 1)..Len(line),
         \A i \in (p + 1)..q : line[i] \notin Ends,
         NEW ts, Between(s[p], ts, p + 1)
  PROVE  Done(line, s[q], Append(ts, SubSeq(line, p + 1, q)), q)
<1>1. Len(line) \in Nat
  BY Lengths
<1>2. q \in p..Len(line)
  BY <1>1
<1>3. s[q] = s[p]
  BY <1>2, NothingHappens
<1>4. p + 1 \in Nat \ {0} /\ q \in Int /\ q =< Len(line) /\ q - (p + 1) + 1 # 0
      /\ p + 1 =< q
  BY <1>1
<1>5. SubSeq(line, p + 1, q) # <<>>
  <2>1. Len(SubSeq(line, p + 1, q)) = q - (p + 1) + 1
    BY <1>4, Piece
  <2> QED
    BY <1>4, <2>1, EmptySeq
<1> QED
  BY <1>3, <1>5 DEF Between, Done, Pushed

\* The characters of a sequence put together from three.
OfThree(l, a, b, c) ==
  /\ Len(l) = Len(a) + Len(b) + Len(c)
  /\ \A i \in 1..Len(a) : l[i] = a[i]
  /\ \A i \in 1..Len(b) : l[Len(a) + i] = b[i]
  /\ \A i \in 1..Len(c) : l[Len(a) + Len(b) + i] = c[i]

LEMMA ThreeParts ==
  ASSUME NEW C, NEW a \in Seq(C), NEW b \in Seq(C), NEW c \in Seq(C)
  PROVE  a \o b \o c \in Seq(C) /\ OfThree(a \o b \o c, a, b, c)
<1> DEFINE h == a \o b
           l == h \o c
<1>1. Len(a) \in Nat /\ Len(b) \in Nat /\ Len(c) \in Nat
  BY Lengths
<1>2. /\ h \in Seq(C) /\ Len(h) = Len(a) + Len(b)
      /\ \A i \in 1..(Len(a) + Len(b)) :
           h[i] = IF i <= Len(a) THEN a[i] ELSE b[i - Len(a)]
  BY ConcatProperties
<1> HIDE DEF h
<1>3. /\ l \in Seq(C) /\ Len(l) = Len(h) + Len(c)
      /\ \A i \in 1..(Len(h) + Len(c)) :
           l[i] = IF i <= Len(h) THEN h[i] ELSE c[i - Len(h)]
  <2>1. h \in Seq(C)
    BY <1>2
  <2> QED
    BY <2>1, ConcatProperties
<1> HIDE DEF l
<1>4. ASSUME NEW i \in 1..Len(a) PROVE l[i] = a[i]
  BY <1>1, <1>2, <1>3
<1>5. ASSUME NEW i \in 1..Len(b) PROVE l[Len(a) + i] = b[i]
  <2>1. PICK j \in Int : j = Len(a) + i
    BY <1>1
  <2>2. j \in 1..(Len(a) + Len(b)) /\ j \in 1..(Len(h) + Len(c)) /\ j =< Len(h)
        /\ ~(j =< Len(a)) /\ j - Len(a) = i
    BY <1>1, <1>2, <2>1
  <2>3. l[j] = h[j] /\ h[j] = b[i]
    BY <1>2, <1>3, <2>2
  <2> QED
    BY <2>1, <2>3
<1>6. ASSUME NEW i \in 1..Len(c) PROVE l[Len(a) + Len(b) + i] = c[i]
  <2>1. PICK j \in Int : j = Len(a) + Len(b) + i
    BY <1>1
  <2>2. j \in 1..(Len(h) + Len(c)) /\ ~(j =< Len(h)) /\ j - Len(h) = i
    BY <1>1, <1>2, <2>1
  <2>3. l[j] = c[i]
    BY <1>3, <2>2
  <2> QED
    BY <2>1, <2>3
<1>7. Len(l) = Len(a) + Len(b) + Len(c)
  BY <1>2, <1>3
<1> QED
  BY <1>3, <1>4, <1>5, <1>6, <1>7 DEF OfThree, l, h

\* Words of characters that end none, and the spaces between them.
AWord(C)  == {w \in Seq(C) : w # <<>> /\ \A i \in 1..Len(w) : w[i] \notin Ends}
Spaces(C) == {g \in Seq(C) : g # <<>> /\ \A i \in 1..Len(g) : g[i] = Space}

\* The line grows by spaces and a word at a time.
LEMMA WordsAre ==
  ASSUME NEW C, NEW g \in Spaces(C), NEW words \in Seq(AWord(C))
  PROVE  /\ Words(g, words)[0] = <<>>
         /\ \A n \in 1..Len(words) :
              Words(g, words)[n] = Words(g, words)[n - 1] \o g \o words[n]
         /\ \A n \in 0..Len(words) : Words(g, words)[n] \in Seq(C)
<1> DEFINE N == Len(words)
           t == Words(g, words)
           h == [n \in 1..N |-> [w \in Seq(C) |-> w \o g \o words[n]]]
           b == <<>>
           Is(f) == f = [n \in 0..N |-> IF n = 0 THEN b ELSE f[n - 1] \o g \o words[n]]
<1>1. N \in Nat /\ \A n \in 1..N : words[n] \in Seq(C)
  BY Lengths, ElementOfSeq DEF AWord
<1>2. b \in Seq(C) /\ g \in Seq(C)
  BY EmptySeq DEF Spaces
<1>3. \A n \in 1..N, w \in Seq(C) : w \o g \o words[n] \in Seq(C)
  BY <1>1, <1>2, ThreeParts
<1> HIDE DEF b
<1>4. h \in [1..N -> [Seq(C) -> Seq(C)]]
  BY <1>3
<1>5. PICK f : IsLoop(f, N, Seq(C), b, h)
  <2> HIDE DEF h, N
  <2> QED
    BY <1>1, <1>2, <1>4, Iterates
<1>6. f \in [0..N -> Seq(C)] /\ f[0] = b /\ \A n \in 1..N : f[n] = h[n][f[n - 1]]
  <2> HIDE DEF h, N
  <2> QED
    BY <1>5 DEF IsLoop
<1>7. \A n \in 1..N : f[n] = f[n - 1] \o g \o words[n]
  <2> SUFFICES ASSUME NEW n \in 1..N PROVE f[n] = f[n - 1] \o g \o words[n]
    OBVIOUS
  <2>1. n - 1 \in 0..N
    BY <1>1
  <2>2. f[n - 1] \in Seq(C)
    BY <1>6, <2>1
  <2>3. h[n][f[n - 1]] = f[n - 1] \o g \o words[n]
    BY <2>2
  <2> QED
    BY <1>6, <2>3
<1>8. Is(f)
  <2>1. \A n \in 0..N : f[n] = IF n = 0 THEN b ELSE f[n - 1] \o g \o words[n]
    <3> SUFFICES ASSUME NEW n \in 0..N
                 PROVE  f[n] = IF n = 0 THEN b ELSE f[n - 1] \o g \o words[n]
      OBVIOUS
    <3>1. n = 0 \/ (n # 0 /\ n \in 1..N)
      BY <1>1
    <3>2. CASE n = 0
      BY <1>6, <3>2
    <3>3. CASE n # 0 /\ n \in 1..N
      BY <1>7, <3>3
    <3> QED
      BY <3>1, <3>2, <3>3
  <2> QED
    BY <1>6, <2>1
<1>9. t = CHOOSE x : Is(x)
  BY DEF Words, b
<1>10. Is(t)
  <2> HIDE DEF Is, t
  <2> QED
    BY <1>8, <1>9
<1> HIDE DEF t
<1>11. t[0] = b /\ \A n \in 1..N : t[n] = t[n - 1] \o g \o words[n]
  <2>1. \A n \in 0..N : t[n] = IF n = 0 THEN b ELSE t[n - 1] \o g \o words[n]
    BY <1>10
  <2>2. 0 \in 0..N
    BY <1>1
  <2>3. \A n \in 1..N : n \in 0..N /\ n # 0
    BY <1>1
  <2>4. t[0] = b
    BY <2>1, <2>2
  <2>5. \A n \in 1..N : t[n] = t[n - 1] \o g \o words[n]
    BY <2>1, <2>3
  <2> QED
    BY <2>4, <2>5
<1>12. \A n \in 0..N : t[n] \in Seq(C)
  <2> DEFINE P == {n \in 0..N : t[n] \in Seq(C)}
  <2>1. 0 \in P
    BY <1>1, <1>2, <1>11
  <2>2. ASSUME NEW n \in 0..(N - 1), n \in P PROVE n + 1 \in P
    <3>1. n + 1 \in 1..N /\ (n + 1) - 1 = n /\ n + 1 \in 0..N
      BY <1>1
    <3>2. t[n + 1] = t[n] \o g \o words[n + 1]
      BY <1>11, <3>1
    <3>3. t[n + 1] \in Seq(C)
      BY <1>3, <2>2, <3>1, <3>2
    <3> QED
      BY <3>1, <3>3
  <2> HIDE DEF P
  <2>3. \A n \in 0..N : n \in P
    <3> HIDE DEF N
    <3> QED
      BY <1>1, <2>1, <2>2, Climb
  <2> QED
    BY <2>3 DEF P
<1> QED
  BY <1>11, <1>12 DEF t, b

\* line begins with w.
BeginsWith(line, w) == Len(w) =< Len(line) /\ \A i \in 1..Len(w) : line[i] = w[i]

\* In whichever line that begins so, the words are the tokens.
FoundUpTo(C, w, ts) ==
  \A line \in Seq(C) :
    BeginsWith(line, w) => Done(line, Scanned(line)[Len(w)], ts, Len(w))

\* One word more.
LEMMA OneWordMore ==
  ASSUME NEW C, NEW w \in Seq(C), NEW g \in Spaces(C), NEW word \in AWord(C),
         NEW ts, FoundUpTo(C, w, ts)
  PROVE  FoundUpTo(C, w \o g \o word, Append(ts, word))
<1> DEFINE l == w \o g \o word
<1>1. /\ g \in Seq(C) /\ g # <<>> /\ \A i \in 1..Len(g) : g[i] = Space
      /\ word \in Seq(C) /\ word # <<>>
      /\ \A i \in 1..Len(word) : word[i] \notin Ends
  BY DEF Spaces, AWord
<1>2. Len(w) \in Nat /\ Len(g) \in Nat \ {0} /\ Len(word) \in Nat \ {0}
  BY <1>1, Lengths
<1>3. OfThree(l, w, g, word)
  BY <1>1, ThreeParts
<1> HIDE DEF l
<1>4. /\ Len(l) = Len(w) + Len(g) + Len(word)
      /\ \A i \in 1..Len(w) : l[i] = w[i]
      /\ \A i \in 1..Len(g) : l[Len(w) + i] = g[i]
      /\ \A i \in 1..Len(word) : l[Len(w) + Len(g) + i] = word[i]
  BY <1>3 DEF OfThree
<1> SUFFICES ASSUME NEW line \in Seq(C), BeginsWith(line, l)
             PROVE  Done(line, Scanned(line)[Len(l)], Append(ts, word), Len(l))
  BY DEF FoundUpTo, l
<1> DEFINE s == Scanned(line)
<1>5. Len(line) \in Nat /\ Len(l) =< Len(line) /\ \A i \in 1..Len(l) : line[i] = l[i]
  BY Lengths DEF BeginsWith
<1>6. IsScan(C, line, s)
  BY ScannedIs
<1>7. PICK p, q, r \in Nat : p = Len(w) /\ q = Len(w) + Len(g) /\ r = Len(l)
  BY <1>2, <1>4
<1>8. /\ p \in 0..Len(line) /\ q \in (p + 1)..Len(line) /\ r \in (q + 1)..Len(line)
      /\ q \in 0..Len(line)
  BY <1>2, <1>4, <1>5, <1>7
<1>9. Done(line, s[p], ts, p)
  <2>1. BeginsWith(line, w)
    <3>1. \A i \in 1..Len(w) : i \in 1..Len(l)
      BY <1>2, <1>4
    <3>2. Len(w) =< Len(line)
      BY <1>7, <1>8
    <3> QED
      BY <1>4, <1>5, <3>1, <3>2 DEF BeginsWith
  <2> QED
    BY <1>7, <2>1 DEF FoundUpTo
<1> HIDE DEF s
<1>10. ASSUME NEW i \in (p + 1)..q PROVE line[i] \in Ends \ {Colon}
  <2>1. PICK h \in Int : h = i - p
    OBVIOUS
  <2>2. h \in 1..Len(g) /\ Len(w) + h = i /\ i \in 1..Len(l)
    BY <1>2, <1>4, <1>7, <2>1
  <2>3. line[i] = l[i] /\ l[i] = g[h] /\ g[h] = Space
    BY <1>1, <1>4, <1>5, <2>2
  <2> QED
    BY <2>3 DEF Ends, Space, Colon
<1>11. Between(s[q], ts, q + 1)
  BY <1>6, <1>8, <1>9, <1>10, GapPushes
<1>12. ASSUME NEW i \in 1..Len(word) PROVE q + i \in (q + 1)..r /\ line[q + i] = word[i]
  <2>1. PICK h \in Int : h = q + i
    OBVIOUS
  <2>2. h \in 1..Len(l) /\ h = Len(w) + Len(g) + i /\ h \in (q + 1)..r
    BY <1>2, <1>4, <1>7, <2>1
  <2>3. line[h] = l[h] /\ l[h] = word[i]
    BY <1>4, <1>5, <2>2
  <2> QED
    BY <2>1, <2>2, <2>3
<1>13. ASSUME NEW i \in (q + 1)..r PROVE line[i] \notin Ends
  <2>1. PICK h \in Int : h = i - q
    OBVIOUS
  <2>2. h \in 1..Len(word) /\ q + h = i
    BY <1>2, <1>4, <1>7, <2>1
  <2> QED
    BY <1>1, <1>12, <2>2
<1>14. SubSeq(line, q + 1, r) = word
  <2> DEFINE t == SubSeq(line, q + 1, r)
  <2>1. q + 1 \in Nat \ {0} /\ r \in Int /\ r =< Len(line) /\ q + 1 =< r
        /\ r - (q + 1) + 1 = Len(word)
    BY <1>2, <1>4, <1>7, <1>8
  <2>2. /\ t \in Seq(C) /\ Len(t) = Len(word)
        /\ \A i \in 1..Len(word) : t[i] = line[(q + 1) + i - 1]
    <3>1. /\ t \in Seq(C) /\ Len(t) = r - (q + 1) + 1
          /\ \A i \in 1..(r - (q + 1) + 1) : t[i] = line[(q + 1) + i - 1]
      BY <2>1, Piece
    <3> QED
      BY <2>1, <3>1
  <2> HIDE DEF t
  <2>3. \A i \in 1..Len(word) : (q + 1) + i - 1 = q + i
    BY <1>2
  <2>4. \A i \in 1..Len(t) : t[i] = word[i]
    BY <1>12, <2>2, <2>3
  <2>5. t = word
    BY <1>1, <2>2, <2>4, SeqEqual
  <2> QED
    BY <2>5 DEF t
<1>15. Done(line, s[r], Append(ts, SubSeq(line, q + 1, r)), r)
  BY <1>6, <1>8, <1>11, <1>13, WordIsNext
<1> QED
  BY <1>7, <1>14, <1>15 DEF s

\* All words.
LEMMA AllWords ==
  ASSUME NEW C, NEW g \in Spaces(C), NEW words \in Seq(AWord(C))
  PROVE  FoundUpTo(C, Words(g, words)[Len(words)], words)
<1> DEFINE N == Len(words)
           t == Words(g, words)
           P == {n \in 0..N : FoundUpTo(C, t[n], SubSeq(words, 1, n))}
<1>1. N \in Nat /\ \A n \in 1..N : words[n] \in AWord(C)
  BY Lengths, ElementOfSeq
<1>2. /\ t[0] = <<>>
      /\ \A n \in 1..N : t[n] = t[n - 1] \o g \o words[n]
      /\ \A n \in 0..N : t[n] \in Seq(C)
  BY WordsAre
<1> HIDE DEF t
<1>3. 0 \in P
  <2> SUFFICES ASSUME NEW line \in Seq(C)
               PROVE  Done(line, Scanned(line)[0], SubSeq(words, 1, 0), 0)
    BY <1>1, <1>2, EmptySeq DEF FoundUpTo
  <2>1. Scanned(line)[0] = [tokens |-> <<>>, last |-> 1, broken |-> FALSE]
    BY ScannedIs DEF IsScan
  <2>2. SubSeq(line, 1, 0) = <<>> /\ SubSeq(words, 1, 0) = <<>>
    BY SubSeqEmpty
  <2> QED
    BY <2>1, <2>2 DEF Done, Pushed
<1>4. ASSUME NEW n \in 0..(N - 1), n \in P PROVE n + 1 \in P
  <2>1. n + 1 \in 1..N /\ (n + 1) - 1 = n /\ n + 1 \in 0..N /\ n \in 0..N
    BY <1>1
  <2>2. t[n + 1] = t[n] \o g \o words[n + 1] /\ t[n] \in Seq(C)
        /\ words[n + 1] \in AWord(C)
    BY <1>1, <1>2, <2>1
  <2>3. FoundUpTo(C, t[n], SubSeq(words, 1, n))
    BY <1>4
  <2>4. FoundUpTo(C, t[n + 1], Append(SubSeq(words, 1, n), words[n + 1]))
    BY <2>2, <2>3, OneWordMore
  <2>5. Append(SubSeq(words, 1, n), words[n + 1]) = SubSeq(words, 1, n + 1)
    <3> DEFINE u == SubSeq(words, 1, n)
               v == Append(u, words[n + 1])
               x == SubSeq(words, 1, n + 1)
    <3>1. n \in Int /\ n =< Len(words) /\ n + 1 \in Int /\ n + 1 =< Len(words)
          /\ n - 1 + 1 = n /\ (n + 1) - 1 + 1 = n + 1 /\ n \in Nat /\ 1 \in Nat \ {0}
      BY <1>1
    <3>2. u \in Seq(AWord(C)) /\ Len(u) = n /\ \A i \in 1..n : u[i] = words[i]
      <4>1. /\ u \in Seq(AWord(C)) /\ Len(u) = (IF 1 =< n THEN n - 1 + 1 ELSE 0)
            /\ \A i \in 1..(n - 1 + 1) : u[i] = words[1 + i - 1]
        BY <3>1, Piece
      <4> QED
        BY <3>1, <4>1
    <3>3. x \in Seq(AWord(C)) /\ Len(x) = n + 1 /\ \A i \in 1..(n + 1) : x[i] = words[i]
      <4>1. /\ x \in Seq(AWord(C))
            /\ Len(x) = (IF 1 =< n + 1 THEN (n + 1) - 1 + 1 ELSE 0)
            /\ \A i \in 1..((n + 1) - 1 + 1) : x[i] = words[1 + i - 1]
        BY <3>1, Piece
      <4> QED
        BY <3>1, <4>1
    <3> HIDE DEF u, x
    <3>4. /\ v \in Seq(AWord(C)) /\ Len(v) = Len(u) + 1
          /\ \A i \in 1..Len(u) : v[i] = u[i]
          /\ v[Len(u) + 1] = words[n + 1]
      BY <2>2, <3>2, AppendProperties
    <3> HIDE DEF v
    <3>5. \A i \in 1..(n + 1) : i \in 1..n \/ i = n + 1
      BY <3>1
    <3>6. \A i \in 1..Len(v) : v[i] = x[i]
      BY <3>1, <3>2, <3>3, <3>4, <3>5
    <3>7. v = x
      BY <3>2, <3>3, <3>4, <3>6, SeqEqual
    <3> QED
      BY <3>7 DEF u, v, x
  <2> QED
    BY <2>1, <2>4, <2>5
<1> HIDE DEF P
<1>5. \A n \in 0..N : n \in P
  <2> HIDE DEF N
  <2> QED
    BY <1>1, <1>3, <1>4, Climb
<1>6. N \in P
  BY <1>1, <1>5
<1>7. SubSeq(words, 1, N) = words
  BY SubSeqFull
<1> QED
  BY <1>6, <1>7 DEF P, t

\* The end of line that was written is the one that is left out.
LEMMA EndIs ==
  ASSUME NEW C, NEW line \in Seq(C), NEW e \in {<<LF>>, <<CR, LF>>},
         Len(line) >= Len(e),
         \A i \in 1..Len(e) : line[Len(line) - Len(e) + i] = e[i],
         Len(line) > 1 /\ e = <<LF>> => line[Len(line) - 1] # CR
  PROVE  EndOfLine(line) = Len(e)
<1>1. Len(line) \in Nat
  BY Lengths
<1>2. CASE e = <<LF>>
  <2>1. Len(e) = 1
    BY <1>2
  <2> QED
    BY <1>1, <1>2, <2>1 DEF EndOfLine
<1>3. CASE e = <<CR, LF>>
  <2>1. Len(e) = 2 /\ e[1] = CR /\ e[2] = LF
    BY <1>3
  <2>2. 1 \in 1..Len(e) /\ 2 \in 1..Len(e)
    BY <2>1
  <2>3. line[Len(line) - Len(e) + 1] = CR /\ line[Len(line) - Len(e) + 2] = LF
    BY <2>1, <2>2
  <2>4. Len(line) - Len(e) + 1 = Len(line) - 1 /\ Len(line) - Len(e) + 2 = Len(line)
    BY <1>1, <2>1
  <2>5. Len(line) > 1
    BY <1>1, <2>1
  <2> QED
    BY <2>1, <2>3, <2>4, <2>5 DEF EndOfLine
<1> QED
  BY <1>2, <1>3

\* A command, its parameters and its text are found again by Tokenize
\* (MyString.cpp:20-72), however many they are, whatever is in the text, however
\* many spaces stand between the words and whichever of the line ends follows.
THEOREM WordsAreFoundAgain ==
  ASSUME NEW C, Ends \subseteq C, NEW g \in Spaces(C), NEW words \in Seq(AWord(C)),
         NEW text \in Seq(C), NEW e \in {<<LF>>, <<CR, LF>>}
  PROVE  FoundAgain(g, words, text, e)
<1> DEFINE w    == Words(g, words)[Len(words)]
           mid  == IF text = <<>> THEN <<>> ELSE g \o <<Colon>> \o text
           line == w \o mid \o e
           s    == Scanned(line)
           N    == Len(line)
<1> SUFFICES ASSUME text # <<>> => Last(text) # CR
             PROVE  Tokenize(line) =
                      words \o (IF text = <<>> THEN <<>> ELSE <<<<Colon>> \o text>>)
  BY DEF FoundAgain, Written
<1>1. g \in Seq(C) /\ g # <<>> /\ \A i \in 1..Len(g) : g[i] = Space
  BY DEF Spaces
<1>2. <<Colon>> \in Seq(C) /\ Len(<<Colon>>) = 1 /\ <<Colon>>[1] = Colon /\ e \in Seq(C)
  <2>1. Colon \in C /\ CR \in C /\ LF \in C
    BY DEF Ends
  <2>2. <<Colon>> \in Seq(C) /\ Len(<<Colon>>) = 1 /\ <<Colon>>[1] = Colon
    BY <2>1
  <2>3. <<LF>> \in Seq(C) /\ <<CR, LF>> \in Seq(C)
    BY <2>1
  <2> QED
    BY <2>2, <2>3
<1>3. w \in Seq(C)
  <2>1. Len(words) \in 0..Len(words)
    BY Lengths
  <2> QED
    BY <2>1, WordsAre
<1>4. FoundUpTo(C, w, words)
  BY AllWords
<1>5. mid \in Seq(C)
  <2>1. g \o <<Colon>> \o text \in Seq(C)
    BY <1>1, <1>2, ThreeParts
  <2> QED
    BY <2>1, EmptySeq
<1> HIDE DEF w
<1>6. line \in Seq(C) /\ OfThree(line, w, mid, e)
  <2> HIDE DEF mid
  <2> QED
    BY <1>2, <1>3, <1>5, ThreeParts
<1>7. Len(w) \in Nat /\ Len(mid) \in Nat /\ Len(text) \in Nat /\ Len(g) \in Nat \ {0}
      /\ N \in Nat
  BY <1>1, <1>3, <1>5, <1>6, Lengths
<1> HIDE DEF line, mid
<1>8. /\ N = Len(w) + Len(mid) + Len(e)
      /\ \A i \in 1..Len(w) : line[i] = w[i]
      /\ \A i \in 1..Len(mid) : line[Len(w) + i] = mid[i]
      /\ \A i \in 1..Len(e) : line[Len(w) + Len(mid) + i] = e[i]
  BY <1>6 DEF OfThree
<1>9. /\ Len(e) \in {1, 2}
      /\ \A i \in 1..Len(e) : e[i] \in Ends \ {Colon}
  <2>1. CR \in Ends \ {Colon} /\ LF \in Ends \ {Colon}
    BY DEF Ends, CR, LF, Colon
  <2>2. CASE e = <<LF>>
    <3>1. Len(e) = 1 /\ e[1] = LF
      BY <2>2
    <3> QED
      BY <2>1, <3>1
  <2>3. CASE e = <<CR, LF>>
    <3>1. Len(e) = 2 /\ e[1] = CR /\ e[2] = LF
      BY <2>3
    <3> QED
      BY <2>1, <3>1
  <2> QED
    BY <2>2, <2>3
<1>10. IsScan(C, line, s)
  BY <1>6, ScannedIs
<1>11. Done(line, s[Len(w)], words, Len(w))
  <2>1. Len(w) =< Len(line)
    BY <1>7, <1>8, <1>9
  <2>2. BeginsWith(line, w)
    BY <1>8, <2>1 DEF BeginsWith
  <2> QED
    BY <1>4, <1>6, <2>2 DEF FoundUpTo
<1> HIDE DEF s
<1>12. Tokenize(line) =
         Pushed(s[N].tokens, SubSeq(line, s[N].last, N - EndOfLine(line)))
  BY DEF Tokenize, s
<1> HIDE DEF N
<1>13. PICK p \in Nat : p = Len(w)
  BY <1>7
<1>14. CASE text = <<>>
  <2>1. Len(mid) = 0
    BY <1>14 DEF mid
  <2>2. p \in 0..Len(line) /\ N \in (p + 1)..Len(line)
    <3>1. N \in Nat /\ N = p + Len(e) /\ Len(line) = N
      BY <1>7, <1>8, <1>13, <2>1 DEF N
    <3>2. PICK n \in Nat : n = Len(e)
      BY <1>9
    <3>3. n \in {1, 2} /\ N = p + n
      BY <1>9, <3>1, <3>2
    <3>4. p \in 0..N /\ N \in (p + 1)..N
      BY <3>3
    <3> QED
      BY <3>1, <3>4
  <2>3. ASSUME NEW i \in (p + 1)..N PROVE line[i] \in Ends \ {Colon}
    <3>1. PICK h \in Int : h = i - p
      OBVIOUS
    <3>2. h \in 1..Len(e) /\ Len(w) + Len(mid) + h = i
      BY <1>7, <1>8, <1>9, <1>13, <2>1, <3>1
    <3> QED
      BY <1>8, <1>9, <3>2
  <2>4. Between(s[N], words, N + 1)
    BY <1>6, <1>10, <1>11, <1>13, <2>2, <2>3, GapPushes
  <2>5. EndOfLine(line) \in {1, 2}
    BY DEF EndOfLine
  <2>6. SubSeq(line, N + 1, N - EndOfLine(line)) = <<>>
    <3>1. N + 1 \in Int /\ N - EndOfLine(line) \in Int /\ N - EndOfLine(line) < N + 1
      BY <1>7, <2>5
    <3> QED
      BY <3>1, SubSeqEmpty
  <2>7. Tokenize(line) = words
    BY <1>12, <2>4, <2>6 DEF Between, Pushed
  <2>8. words \o <<>> = words
    BY ConcatEmptySeq
  <2> QED
    BY <1>14, <2>7, <2>8
<1>15. CASE text # <<>>
  <2>1. mid = g \o <<Colon>> \o text
    BY <1>15 DEF mid
  <2>2. OfThree(mid, g, <<Colon>>, text)
    BY <1>1, <1>2, <2>1, ThreeParts
  <2>3. /\ Len(mid) = Len(g) + 1 + Len(text)
        /\ \A i \in 1..Len(g) : mid[i] = Space
        /\ mid[Len(g) + 1] = Colon
        /\ \A i \in 1..Len(text) : mid[Len(g) + 1 + i] = text[i]
    <3>1. /\ Len(mid) = Len(g) + Len(<<Colon>>) + Len(text)
          /\ \A i \in 1..Len(g) : mid[i] = g[i]
          /\ \A i \in 1..Len(<<Colon>>) : mid[Len(g) + i] = <<Colon>>[i]
          /\ \A i \in 1..Len(text) : mid[Len(g) + Len(<<Colon>>) + i] = text[i]
      BY <2>2 DEF OfThree
    <3>2. Len(<<Colon>>) = 1 /\ <<Colon>>[1] = Colon /\ 1 \in 1..1
      BY <1>2
    <3>3. mid[Len(g) + 1] = Colon
      BY <3>1, <3>2
    <3>4. \A i \in 1..Len(g) : mid[i] = Space
      BY <1>1, <3>1
    <3>5. \A i \in 1..Len(text) : mid[Len(g) + 1 + i] = text[i]
      BY <3>1, <3>2
    <3> QED
      BY <3>1, <3>2, <3>3, <3>4, <3>5
  <2>4. Len(text) # 0
    BY <1>15, Lengths
  <2>5. PICK q, c \in Nat : q = p + Len(g) /\ c = q + 1
    BY <1>7
  <2>6. /\ p \in 0..Len(line) /\ q \in (p + 1)..Len(line) /\ q \in 0..Len(line)
        /\ c \in 1..Len(line) /\ c \in 0..Len(line) /\ c - 1 = q /\ c =< N
        /\ N \in c..Len(line)
    BY <1>7, <1>8, <1>9, <1>13, <2>3, <2>4, <2>5 DEF N
  <2>7. ASSUME NEW i \in (p + 1)..q PROVE line[i] \in Ends \ {Colon}
    <3>1. PICK h \in Int : h = i - p
      OBVIOUS
    <3>2. h \in 1..Len(g) /\ h \in 1..Len(mid) /\ Len(w) + h = i
      BY <1>7, <1>13, <2>3, <2>5, <3>1
    <3>3. line[i] = mid[h] /\ mid[h] = Space
      BY <1>8, <2>3, <3>2
    <3> QED
      BY <3>3 DEF Ends, Space, Colon
  <2>8. Between(s[q], words, q + 1)
    BY <1>6, <1>10, <1>11, <1>13, <2>6, <2>7, GapPushes
  <2>9. line[c] = Colon
    <3>1. PICK h \in Int : h = Len(g) + 1
      BY <1>7
    <3>2. h \in 1..Len(mid) /\ Len(w) + h = c
      BY <1>7, <1>13, <2>3, <2>5, <3>1
    <3> QED
      BY <1>8, <2>3, <3>1, <3>2
  <2>10. s[c].tokens = words /\ s[c].last = c /\ s[c].broken
    <3>1. s[q] \in Scans(C) /\ s[c] = Turn(line, s[q], c)
      BY <1>10, <2>6 DEF IsScan
    <3>2. line[c] \in Ends
      BY <2>9 DEF Ends
    <3>3. /\ s[c].tokens = Pushed(s[q].tokens, SubSeq(line, s[q].last, c - 1))
          /\ s[c].broken /\ s[c].last = s[q].last
      BY <1>6, <2>6, <2>8, <2>9, <3>1, <3>2, TurnIs DEF Between
    <3>4. s[q].last = c /\ s[q].tokens = words
      BY <2>5, <2>8 DEF Between
    <3>5. SubSeq(line, c, c - 1) = <<>>
      BY SubSeqEmpty
    <3> QED
      BY <3>3, <3>4, <3>5 DEF Pushed
  <2>11. s[N] = s[c]
    BY <1>6, <1>10, <2>6, <2>10, NothingHappens
  <2>12. EndOfLine(line) = Len(e)
    <3>1. N >= Len(e)
      BY <1>7, <1>8, <1>9
    <3>2. ASSUME NEW i \in 1..Len(e) PROVE line[N - Len(e) + i] = e[i]
      <4>1. N - Len(e) + i = Len(w) + Len(mid) + i
        BY <1>7, <1>8, <1>9
      <4> QED
        BY <1>8, <4>1
    <3>3. ASSUME e = <<LF>> PROVE line[N - 1] # CR
      <4>1. Len(e) = 1
        BY <3>3
      <4>2. PICK h \in Int : h = Len(mid)
        BY <1>7
      <4>3. h \in 1..Len(mid) /\ Len(w) + h = N - 1 /\ h = Len(g) + 1 + Len(text)
            /\ Len(text) \in 1..Len(text)
        BY <1>7, <1>8, <2>3, <2>4, <4>1, <4>2
      <4>4. line[N - 1] = mid[h] /\ mid[h] = text[Len(text)]
        BY <1>8, <2>3, <4>3
      <4> QED
        BY <1>15, <4>4 DEF Last
    <3> QED
      BY <1>6, <3>1, <3>2, <3>3, EndIs DEF N
  <2> DEFINE rest == SubSeq(line, c, N - Len(e))
             tail == <<Colon>> \o text
  <2>13. rest = tail
    <3>1. c \in Nat \ {0} /\ N - Len(e) \in Int /\ N - Len(e) =< Len(line)
          /\ c =< N - Len(e) /\ (N - Len(e)) - c + 1 = Len(text) + 1
      BY <1>7, <1>8, <1>9, <1>13, <2>3, <2>4, <2>5 DEF N
    <3>2. /\ rest \in Seq(C) /\ Len(rest) = Len(text) + 1
          /\ \A i \in 1..(Len(text) + 1) : rest[i] = line[c + i - 1]
      <4>1. /\ rest \in Seq(C) /\ Len(rest) = (N - Len(e)) - c + 1
            /\ \A i \in 1..((N - Len(e)) - c + 1) : rest[i] = line[c + i - 1]
        BY <1>6, <3>1, Piece
      <4> QED
        BY <3>1, <4>1
    <3>3. /\ tail \in Seq(C) /\ Len(tail) = 1 + Len(text)
          /\ \A i \in 1..(1 + Len(text)) :
               tail[i] = IF i <= 1 THEN <<Colon>>[i] ELSE text[i - 1]
      BY <1>2, ConcatProperties
    <3> HIDE DEF rest, tail
    <3>4. ASSUME NEW i \in 1..Len(rest) PROVE rest[i] = tail[i]
      <4>1. rest[i] = line[c + i - 1]
        BY <3>2
      <4>2. CASE i = 1
        <5>1. c + i - 1 = c /\ i \in 1..(1 + Len(text)) /\ i <= 1
          BY <1>7, <4>2
        <5>2. tail[i] = Colon
          BY <1>2, <3>3, <4>2, <5>1
        <5> QED
          BY <2>9, <4>1, <5>1, <5>2
      <4>3. CASE i # 1
        <5>1. PICK j, h \in Int : j = i - 1 /\ h = Len(g) + 1 + j
          BY <1>7
        <5>2. /\ i \in 1..(1 + Len(text)) /\ ~(i <= 1) /\ j \in 1..Len(text)
              /\ h \in 1..Len(mid) /\ Len(w) + h = c + i - 1
          BY <1>7, <1>13, <2>3, <2>5, <3>2, <4>3, <5>1
        <5>3. tail[i] = text[j]
          BY <3>3, <5>1, <5>2
        <5>4. line[c + i - 1] = mid[h] /\ mid[h] = text[j]
          BY <1>8, <2>3, <5>1, <5>2
        <5> QED
          BY <4>1, <5>3, <5>4
      <4> QED
        BY <4>2, <4>3
    <3>5. Len(rest) = Len(tail)
      BY <1>7, <3>2, <3>3
    <3> QED
      BY <3>2, <3>3, <3>4, <3>5, SeqEqual
  <2>14. tail # <<>> /\ tail \in Seq(C)
    BY <1>2, <1>7, ConcatProperties, EmptySeq
  <2> HIDE DEF rest, tail
  <2>15. Tokenize(line) = Append(words, tail)
    BY <1>12, <2>10, <2>11, <2>12, <2>13, <2>14 DEF Pushed, rest
  <2>16. Append(words, tail) = words \o <<tail>>
    <3>1. words \in Seq(Seq(C))
      BY ElementOfSeq, LenProperties DEF AWord
    <3> QED
      BY <2>14, <3>1, AppendIsConcat
  <2> QED
    BY <1>15, <2>15, <2>16 DEF tail
<1> QED
  BY <1>14, <1>15
=============================================================================
