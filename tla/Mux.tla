-------------------------------- MODULE Mux --------------------------------
(***************************************************************************)
(* internal/mux as a whole: Aggregator.Write (aggregator.go) cuts the data *)
(* of one session into chunks and writes the frames in turn to several     *)
(* physical connections; at the other end of each connection one goroutine *)
(* hands what arrives to Process of the Reassembler, whose state and       *)
(* actions are those of Reassembler.tla: a worker is a connection with its *)
(* reading goroutine.  A connection keeps the order of its frames and may  *)
(* break: frames on their way are lost, and a later write to it fails, or  *)
(* is accepted and lost as well.  The data are the units 1 .. DataLen.     *)
(***************************************************************************)
EXTENDS Reassembler, SequencesExt

CONSTANTS
    Transports,   \* the connections in the order of Aggregator.transports
    DataLen,      \* length of the data of the one Write
    Requested,    \* what SetChunkSize was called with, 0 if it was not called
    SizeMod,      \* the size of a chunk travels in 16 bits: 65536 in the code
    MaxBroken     \* bound: how many connections may break

ASSUME TransportsAssumption ==
    /\ Transports \in Seq(Workers)
    /\ Len(Transports) = Cardinality(Workers)
    /\ ToSet(Transports) = Workers

\* DefaultChunkSize is 64 * 1024, which is not among the sizes SetChunkSize
\* accepts.
ChunkSize == IF Requested > 0 /\ Requested < SizeMod THEN Requested ELSE SizeMod

ASSUME SizeAssumption ==
    /\ SizeMod \in Nat \ {0} /\ {DataLen, Requested, MaxBroken} \subseteq Nat
    /\ NumChunks = (DataLen + ChunkSize - 1) \div ChunkSize

VARIABLES
    writing,      \* Write: "writing", "ok" if it returned nil, or "failed"
    seq,          \* its local sequence number
    nextConn,     \* Aggregator.nextConn
    queue,        \* the frames on their way on each connection
    broken,       \* the connections that broke
    closed        \* Aggregator.Close was called

writerVars == <<writing, seq, nextConn>>
muxVars == <<writing, seq, nextConn, queue, broken, closed>>
allVars == <<vars, muxVars>>

MuxInit ==
    /\ Init
    /\ writing = "writing"
    /\ seq = 0
    /\ nextConn = 0
    /\ queue = [w \in Workers |-> << >>]
    /\ broken = {}
    /\ closed = FALSE

----------------------------------------------------------------------------
(* The sender *)

\* nextConn.Add(1) modulo the number of connections.
PickConn == Transports[((nextConn + 1) % Len(Transports)) + 1]

LastChunk(s) == s = Fin

\* One iteration of the loop of Write: the last chunk carries FlagFIN, and nil
\* is returned after it.
WriteFrame ==
    /\ writing = "writing"
    /\ ~closed
    /\ PickConn \notin broken
    /\ nextConn' = nextConn + 1
    /\ queue' = [queue EXCEPT ![PickConn] = Append(@, seq)]
    /\ seq' = seq + 1
    /\ writing' = IF LastChunk(seq) THEN "ok" ELSE "writing"
    /\ UNCHANGED <<vars, broken, closed>>

\* The kernel takes a frame for a connection that has broken.
WriteLost ==
    /\ writing = "writing"
    /\ ~closed
    /\ PickConn \in broken
    /\ nextConn' = nextConn + 1
    /\ seq' = seq + 1
    /\ writing' = IF LastChunk(seq) THEN "ok" ELSE "writing"
    /\ UNCHANGED <<vars, queue, broken, closed>>

\* conn.Write returns an error, and so does Write: what it has sent stays sent.
WriteFails ==
    /\ writing = "writing"
    /\ closed \/ PickConn \in broken
    /\ nextConn' = nextConn + 1
    /\ writing' = "failed"
    /\ UNCHANGED <<vars, seq, queue, broken, closed>>

\* Close of the Aggregator during the Write, by another goroutine; the frames on
\* their way still arrive.  After the Write it changes nothing here.
CloseTransports ==
    /\ ~closed
    /\ writing = "writing"
    /\ closed' = TRUE
    /\ UNCHANGED <<vars, writerVars, queue, broken>>

\* Wrong: the size is written in fewer bits.
WireSizeNarrow(size) == size % (SizeMod - 1)

\* The size field is 16 bits wide: Process reads as much as it says.
WireSize(size) == size % SizeMod

\* The units of chunk s that Process reads.
Payload(s) ==
    LET size == IF LastChunk(s) THEN DataLen - s * ChunkSize ELSE ChunkSize
    IN  [i \in 1..WireSize(size) |-> s * ChunkSize + i]

Data == [i \in 1..DataLen |-> i]

----------------------------------------------------------------------------
(* The connections and the receiver *)

\* A break that neither loses a frame nor can fail a write is left out.
Break(w) ==
    /\ w \notin broken
    /\ writing = "writing" \/ queue[w] # << >>
    /\ Cardinality(broken) < MaxBroken
    /\ broken' = broken \cup {w}
    /\ queue' = [queue EXCEPT ![w] = << >>]
    /\ UNCHANGED <<vars, writerVars, closed>>

\* The reading goroutine of w takes the next frame and calls Process.
Deliver(w) ==
    /\ queue[w] # << >>
    /\ Receive(w, Head(queue[w]))
    /\ queue' = [queue EXCEPT ![w] = Tail(@)]
    /\ UNCHANGED <<writerVars, broken, closed>>

Write == WriteFrame \/ WriteLost \/ WriteFails

ReceiverStep ==
    \/ \E w \in Workers : Worker(w)
    \/ \E b \in Buffers : Retry(b)
    \/ Consumer
    \/ RemoveLookup
    \/ RemoveClose

MuxNext ==
    \/ Write
    \/ CloseTransports
    \/ \E w \in Workers : Break(w) \/ Deliver(w)
    \/ ReceiverStep /\ UNCHANGED muxVars

\* Write runs on, arrived frames are read and the receiver's goroutines run.
MuxFairness ==
    /\ SystemFairness
    /\ WF_allVars(Write)
    /\ \A w \in Workers : WF_allVars(Deliver(w))

MuxSpec == MuxInit /\ [][MuxNext]_allVars /\ MuxFairness

----------------------------------------------------------------------------
(* Properties *)

\* What the consumer has read.
Read == FlattenSeq([i \in 1..Len(received[cbuf]) |-> Payload(received[cbuf][i])])

\* The types of the writer's and the connections' variables.
MuxTypeOK ==
    /\ writing \in {"writing", "ok", "failed"}
    /\ seq \in 0..NumChunks
    /\ nextConn \in 0..NumChunks
    /\ broken \subseteq Workers
    /\ closed \in BOOLEAN
    /\ queue \in [Workers -> Seq(Chunks)]

\* A consumer whose channel was closed by the stream's own end, and not by
\* RemoveSession, has read the data to the last unit: a Write that failed half
\* way or a connection that lost frames never looks like a complete stream.  (With
\* the types of this module.)
EndMeansWhole ==
    /\ MuxTypeOK
    /\ sawEnd /\ cbuf = current => Read = Data

\* If the consumer goes on reading: what Write sent completely is read to its
\* end when no connection breaks, whatever order the connections deliver in; and
\* a reader whose session is removed comes to an end in any case.
WrittenIsRead ==
    ConsumerFairness =>
        /\ writing = "ok" /\ cbuf = 1 ~> sawEnd \/ broken # {}
        /\ cbuf # 0 /\ cbuf # current ~> sawEnd
=============================================================================
