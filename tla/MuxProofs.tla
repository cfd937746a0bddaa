----------------------------- MODULE MuxProofs ------------------------------
(***************************************************************************)
(* What the reader of a session gets of what Write was given, for any data,*)
(* any size of a chunk that the size field holds, and any connections,     *)
(* whatever breaks: the theorems of the Reassembler, and that cutting and  *)
(* putting together are inverse.                                           *)
(***************************************************************************)
EXTENDS Mux, ReassemblerProofs, WellFoundedInduction

----------------------------------------------------------------------------
(* Cutting the data *)

\* The size of a chunk fits its field.
SizeFits == ChunkSize < SizeMod

\* How many units the first n chunks hold.
Cut(n) == IF n = NumChunks THEN DataLen ELSE n * ChunkSize

\* The units of the data after the m-th up to the n-th.
Piece(m, n) == [i \in 1..(n - m) |-> m + i]

\* The chunks cover the data, and the last one is not empty.
LEMMA Cover ==
    /\ ChunkSize \in Nat \ {0} /\ DataLen \in Nat /\ Fin \in Nat
    /\ Fin * ChunkSize < DataLen
    /\ DataLen <= Fin * ChunkSize + ChunkSize
<1>1. /\ ChunkSize \in Nat \ {0} /\ DataLen \in Nat /\ NumChunks \in Nat \ {0}
      /\ NumChunks = (DataLen + ChunkSize - 1) \div ChunkSize
  BY SizeAssumption, StreamAssumption DEF ChunkSize
<1>2. \A c \in Nat \ {0}, d \in Nat, n \in Nat \ {0} :
          n = (d + c - 1) \div c =>
              (n - 1) * c < d /\ d <= (n - 1) * c + c
  <2> SUFFICES ASSUME NEW c \in Nat \ {0}, NEW d \in Nat, NEW n \in Nat \ {0},
                      n = (d + c - 1) \div c
               PROVE  (n - 1) * c < d /\ d <= (n - 1) * c + c
    OBVIOUS
  <2>1. n * c <= d + c - 1 /\ d + c - 1 < n * c + c
    OBVIOUS
  <2>2. (n - 1) * c = n * c - c /\ n * c \in Nat
    OBVIOUS
  <2> QED BY <2>1, <2>2
<1> QED BY <1>1, <1>2 DEF Fin

\* A chunk whose size fits is read as it was cut.
LEMMA Pieces ==
    ASSUME SizeFits, NEW s \in Chunks
    PROVE  /\ Cut(s) \in Nat /\ Cut(s + 1) \in Nat /\ Cut(s) <= Cut(s + 1)
           /\ Payload(s) = Piece(Cut(s), Cut(s + 1))
<1>1. /\ ChunkSize \in Nat \ {0} /\ DataLen \in Nat /\ Fin \in Nat /\ s \in Nat
      /\ SizeMod \in Nat /\ ChunkSize < SizeMod /\ NumChunks = Fin + 1
  BY Cover, SizeAssumption, StreamAssumption DEF SizeFits, Chunks, Fin
<1>2. s * ChunkSize \in Nat /\ (s + 1) * ChunkSize = s * ChunkSize + ChunkSize
  BY <1>1
<1>3. \A size \in 0..(SizeMod - 1) : WireSize(size) = size
  BY <1>1 DEF WireSize
<1>4. Cut(s) = s * ChunkSize
  BY <1>1 DEF Cut, Chunks
<1>5. CASE s = Fin
  <2>1. Cut(s + 1) = DataLen /\ DataLen - s * ChunkSize \in 0..(SizeMod - 1)
    BY <1>1, <1>2, <1>5, Cover DEF Cut
  <2> QED BY <1>1, <1>2, <1>3, <1>4, <1>5, <2>1 DEF Payload, LastChunk, Piece
<1>6. CASE s # Fin
  <2>1. Cut(s + 1) = s * ChunkSize + ChunkSize
    BY <1>1, <1>2, <1>6 DEF Cut
  <2> QED BY <1>1, <1>2, <1>3, <1>4, <1>6, <2>1 DEF Payload, LastChunk, Piece
<1> QED BY <1>5, <1>6

----------------------------------------------------------------------------
(* Putting it together *)

\* The sequences put together so far.
Grows(f, seqs) == f = [i \in 1..Len(seqs) |->
                          IF i = 1 THEN seqs[i] ELSE f[i - 1] \o seqs[i]]

LEMMA GrowsAt ==
    ASSUME NEW f, NEW seqs, Grows(f, seqs), NEW i \in 1..Len(seqs)
    PROVE  f[i] = IF i = 1 THEN seqs[i] ELSE f[i - 1] \o seqs[i]
<1>1. f = [k \in 1..Len(seqs) |->
              IF k = 1 THEN seqs[k] ELSE f[k - 1] \o seqs[k]]
  BY Zenon DEF Grows
<1> QED BY <1>1, Zenon

\* FlattenSeq is known by how its result grows with every sequence.
LEMMA Flatten ==
    ASSUME NEW seqs, Len(seqs) \in Nat \ {0}, NEW g, Grows(g, seqs)
    PROVE  FlattenSeq(seqs) = g[Len(seqs)]
<1>1. \E f : Grows(f, seqs) /\ FlattenSeq(seqs) = f[Len(seqs)]
  <2> DEFINE first == CHOOSE f : Grows(f, seqs)
  <2>1. FlattenSeq(seqs) = first[Len(seqs)]
    BY DEF FlattenSeq, Grows
  <2>2. Grows(first, seqs)
    OBVIOUS
  <2> QED BY <2>1, <2>2
<1>2. PICK f : Grows(f, seqs) /\ FlattenSeq(seqs) = f[Len(seqs)]
  BY <1>1
<1> DEFINE Wrong == {i \in 1..Len(seqs) : f[i] # g[i]}
<1>3. Wrong = {}
  <2> SUFFICES ASSUME Wrong # {} PROVE FALSE
    OBVIOUS
  <2>1. Wrong \subseteq Nat
    OBVIOUS
  <2>2. PICK i \in Wrong : \A j \in Wrong : ~ (<<j, i>> \in OpToRel(<, Nat))
    <3> HIDE DEF Wrong
    <3> QED BY <2>1, NatLessThanWellFounded, WFMin
  <2>3. i - 1 \notin Wrong
    <3>1. \A m, n \in Nat : m < n => <<m, n>> \in OpToRel(<, Nat)
      BY DEF OpToRel
    <3> HIDE DEF Wrong
    <3>2. i \in Nat
      BY <2>1, <2>2, Zenon
    <3>3. i - 1 < i
      BY <3>2
    <3> QED BY <2>1, <2>2, <3>1, <3>2, <3>3
  <2>4. i \in 1..Len(seqs) /\ f[i] # g[i]
    BY <2>2
  <2>5. i = 1 \/ i - 1 \in 1..Len(seqs)
    BY <2>4
  <2>6. i = 1 \/ f[i - 1] = g[i - 1]
    BY <2>3, <2>5, Zenon
  <2>7. /\ f[i] = IF i = 1 THEN seqs[i] ELSE f[i - 1] \o seqs[i]
        /\ g[i] = IF i = 1 THEN seqs[i] ELSE g[i - 1] \o seqs[i]
    BY <1>2, <2>4, GrowsAt, Zenon
  <2>8. CASE i = 1
    BY <2>4, <2>7, <2>8, Zenon
  <2>9. CASE i # 1
    BY <2>4, <2>6, <2>7, <2>9, Zenon
  <2> QED BY <2>8, <2>9
<1>4. f[Len(seqs)] = g[Len(seqs)]
  BY <1>3
<1> QED BY <1>2, <1>4

\* What was cut is the data again once it is put together.
LEMMA Together ==
    ASSUME SizeFits
    PROVE  FlattenSeq([i \in 1..NumChunks |-> Payload(i - 1)]) = Data
<1> DEFINE pieces == [i \in 1..NumChunks |-> Payload(i - 1)]
           g == [i \in 1..NumChunks |-> Piece(0, Cut(i))]
<1>1. NumChunks \in Nat \ {0} /\ \A i \in 1..NumChunks : i - 1 \in Chunks
  BY StreamAssumption DEF Chunks
<1>2. ASSUME NEW i \in 1..NumChunks
      PROVE  /\ Cut(i - 1) \in Nat /\ Cut(i) \in Nat /\ Cut(i - 1) <= Cut(i)
             /\ Payload(i - 1) = Piece(Cut(i - 1), Cut(i))
  <2>1. i - 1 + 1 = i /\ i - 1 \in Chunks
    BY <1>1
  <2>2. /\ Cut(i - 1) \in Nat /\ Cut(i - 1 + 1) \in Nat
        /\ Cut(i - 1) <= Cut(i - 1 + 1)
        /\ Payload(i - 1) = Piece(Cut(i - 1), Cut(i - 1 + 1))
    BY <2>1, Pieces
  <2> QED BY <2>1, <2>2
<1>3. Len(pieces) = NumChunks
  BY <1>1
<1>4. ASSUME NEW m \in Nat, NEW n \in Nat, m <= n
      PROVE  Piece(0, m) \o Piece(m, n) = Piece(0, n)
  BY <1>4 DEF Piece
<1>5. Cut(0) = 0
  BY Cover, StreamAssumption DEF Cut
<1>6. ASSUME NEW i \in 1..NumChunks
      PROVE  Piece(0, Cut(i)) = IF i = 1 THEN Payload(i - 1)
                                ELSE g[i - 1] \o Payload(i - 1)
  <2>1. CASE i = 1
    BY <1>2, <1>5, <2>1
  <2>2. CASE i # 1
    <3>1. g[i - 1] = Piece(0, Cut(i - 1))
      BY <1>1, <2>2
    <3> QED BY <1>2, <1>4, <2>2, <3>1
  <2> QED BY <2>1, <2>2
<1>7. Grows(g, pieces)
  <2>1. g = [i \in 1..NumChunks |-> IF i = 1 THEN Payload(i - 1)
                                    ELSE g[i - 1] \o Payload(i - 1)]
    BY <1>6
  <2> QED BY <1>3, <2>1 DEF Grows
<1>8. FlattenSeq(pieces) = g[NumChunks]
  <2> HIDE DEF pieces, g
  <2> QED BY <1>1, <1>3, <1>7, Flatten
<1>9. g[NumChunks] = Piece(0, DataLen)
  BY <1>1 DEF Cut
<1> QED BY <1>8, <1>9, Cover DEF Data, Piece

----------------------------------------------------------------------------
(* The writer and the connections *)

\* While Write goes on, every chunk took one turn.
WriteInv == MuxTypeOK /\ (writing = "writing" => seq < NumChunks /\ nextConn = seq)

LEMMA InitWriteInv == ASSUME MuxInit PROVE WriteInv
<1>1. queue \in [Workers -> Seq(Chunks)]
  BY DEF MuxInit
<1>2. NumChunks \in Nat \ {0} /\ seq = 0 /\ nextConn = 0
  BY StreamAssumption DEF MuxInit
<1>3. 0 \in 0..NumChunks /\ 0 < NumChunks
  BY <1>2
<1> QED BY <1>1, <1>2, <1>3 DEF MuxInit, WriteInv, MuxTypeOK

LEMMA PickConnType == ASSUME WriteInv PROVE PickConn \in Workers
<1>1. /\ Transports \in Seq(Workers) /\ Len(Transports) \in Nat \ {0}
      /\ nextConn \in Nat
  BY TransportsAssumption, WorkersAssumption, StreamAssumption
     DEF ToSet, WriteInv, MuxTypeOK
<1>2. (nextConn + 1) % Len(Transports) \in 0..(Len(Transports) - 1)
  BY <1>1
<1> QED BY <1>1, <1>2 DEF PickConn

LEMMA WriteNext == ASSUME WriteInv, MuxNext PROVE WriteInv'
<1>0. /\ NumChunks \in Nat \ {0} /\ seq \in 0..NumChunks
      /\ nextConn \in 0..NumChunks /\ queue \in [Workers -> Seq(Chunks)]
  BY StreamAssumption DEF WriteInv, MuxTypeOK
<1>1. CASE WriteFrame
  <2>1. seq \in Chunks /\ PickConn \in Workers
    BY <1>0, <1>1, PickConnType DEF WriteFrame, WriteInv, Chunks
  <2>2. queue' \in [Workers -> Seq(Chunks)]
    BY <1>0, <1>1, <2>1 DEF WriteFrame
  <2> QED BY <1>0, <1>1, <2>2 DEF WriteFrame, LastChunk, Fin, WriteInv, MuxTypeOK
<1>2. CASE WriteLost
  BY <1>0, <1>2 DEF WriteLost, LastChunk, Fin, WriteInv, MuxTypeOK
<1>3. CASE WriteFails
  BY <1>0, <1>3 DEF WriteFails, WriteInv, MuxTypeOK
<1>4. CASE CloseTransports
  BY <1>4 DEF CloseTransports, writerVars, WriteInv, MuxTypeOK
<1>5. ASSUME NEW w \in Workers, Break(w) PROVE WriteInv'
  <2>1. queue' \in [Workers -> Seq(Chunks)] /\ broken' \subseteq Workers
    BY <1>0, <1>5 DEF Break, WriteInv, MuxTypeOK
  <2> QED BY <1>5, <2>1 DEF Break, writerVars, WriteInv, MuxTypeOK
<1>6. ASSUME NEW w \in Workers, Deliver(w) PROVE WriteInv'
  <2>1. Tail(queue[w]) \in Seq(Chunks)
    BY <1>0, <1>6 DEF Deliver
  <2>2. queue' \in [Workers -> Seq(Chunks)]
    BY <1>0, <1>6, <2>1 DEF Deliver
  <2> QED BY <1>6, <2>2 DEF Deliver, writerVars, WriteInv, MuxTypeOK
<1>7. CASE UNCHANGED muxVars
  BY <1>7 DEF muxVars, WriteInv, MuxTypeOK
<1> QED BY <1>1, <1>2, <1>3, <1>4, <1>5, <1>6, <1>7 DEF MuxNext, Write

\* Whatever the writer and the connections do, the receiver behaves as the
\* Reassembler, so that all its theorems hold here.
LEMMA ReceiverNext ==
    ASSUME WriteInv, [MuxNext]_allVars PROVE [Next]_vars
<1>1. ASSUME NEW w \in Workers, Deliver(w) PROVE Next
  <2>1. Head(queue[w]) \in Chunks
    BY <1>1 DEF Deliver, WriteInv, MuxTypeOK
  <2> QED BY <1>1, <2>1 DEF Deliver, Next
<1>2. CASE ReceiverStep
  BY <1>2 DEF ReceiverStep, Next
<1>3. CASE Write \/ CloseTransports \/ \E w \in Workers : Break(w)
  BY <1>3 DEF Write, WriteFrame, WriteLost, WriteFails, CloseTransports, Break
<1> QED BY <1>1, <1>2, <1>3 DEF MuxNext, allVars

LEMMA WriteAlways == MuxSpec => []WriteInv
<1>1. WriteInv /\ [MuxNext]_allVars => WriteInv'
  BY WriteNext DEF allVars, muxVars, WriteInv, MuxTypeOK
<1> QED BY <1>1, InitWriteInv, PTL DEF MuxSpec

\* The reassembler behind an aggregator does only what Reassembler.tla allows.
THEOREM ReceiverIsReassembler == MuxSpec => Spec
<1>1. MuxInit => Init
  BY DEF MuxInit
<1> QED BY <1>1, WriteAlways, ReceiverNext, PTL DEF MuxSpec, Spec

\* A stream that came to its end, and was not removed, is what Write was given,
\* unit by unit, if the size of a chunk fits its field: no write that fails half
\* way and no connection that loses frames looks like a complete stream.
THEOREM Whole == ASSUME SizeFits PROVE MuxSpec => []EndMeansWhole
<1>1. ASSUME IInv, SessionInv, WriteInv, sawEnd, cbuf = current
      PROVE  Read = Data
  <2>1. /\ cbuf \in Buffers /\ output[cbuf] = << >> /\ outputClosed[cbuf]
        /\ received \in [Buffers -> Seq(Chunks)]
        /\ NumChunks \in Nat
    BY <1>1, BoundsAssumption, StreamAssumption DEF IInv, TypeOK, DataTypeOK,
       SessionTypeOK, SessionInv, ReaderInv, Buffers
  <2>2. SentCount(cbuf) = NumChunks
    BY <1>1, <2>1 DEF SessionInv, WholeInv, IInv, EndInv
  <2>3. Len(received[cbuf]) = NumChunks
    BY <2>1, <2>2 DEF SentCount
  <2>4. \A i \in 1..NumChunks : received[cbuf][i] = i - 1
    BY <1>1, <2>1, <2>3 DEF IInv, PrefixInv
  <2>5. [i \in 1..Len(received[cbuf]) |-> Payload(received[cbuf][i])]
           = [i \in 1..NumChunks |-> Payload(i - 1)]
    BY <2>3, <2>4
  <2> QED BY <2>5, Together DEF Read
<1>2. IInv /\ SessionInv /\ WriteInv => EndMeansWhole
  BY <1>1 DEF EndMeansWhole, WriteInv
<1> QED BY <1>2, WriteAlways, ReceiverIsReassembler, Invariance,
        SessionInvariance, PTL

=============================================================================
