---------------------------- MODULE Reassembler ----------------------------
(***************************************************************************)
(* internal/mux/reassembler.go and flowcontrol.go: the frames of one       *)
(* session arrive on several physical connections, each with a goroutine   *)
(* that calls Process; the chunks are put back in order and sent on the    *)
(* session's bounded output channel.  A full channel hands the right to    *)
(* send to a retry goroutine.  A consumer reads the channel and returns    *)
(* credit with OnConsumed; the session's owner may call RemoveSession.     *)
(*                                                                         *)
(* One session ID is modelled.  A SessionBuffer is an element of Buffers:  *)
(* buffer b is the b-th one that LoadOrStore stored under the ID.  Every   *)
(* section under sb.mu is one action, except tryReassemble's loop, which   *)
(* keeps the lock for several actions because the consumer, which does not *)
(* take the lock, runs in between.  A chunk counts one unit of window.     *)
(***************************************************************************)
EXTENDS Integers, Sequences, FiniteSets

CONSTANTS
    Workers,      \* goroutines that call Process, one per physical connection
    MaxBuffers,   \* bound: how many SessionBuffers may be created for the ID
    NumChunks,    \* the stream is the chunks 0 .. NumChunks-1, the last has FIN
    Capacity,     \* of the output channel (100 in the code)
    Window,       \* of the flow controller, in chunks (16 MB in the code)
    MaxCopies,    \* bound: how often one frame may be handed to Process
    MaxHeld,      \* chunks the consumer takes before it calls OnConsumed
    Unlocked      \* the holder of a free mutex

ASSUME WorkersAssumption == Workers # {} /\ Unlocked \notin Workers
ASSUME StreamAssumption == NumChunks \in Nat \ {0}
ASSUME BoundsAssumption ==
    /\ Capacity \in Nat \ {0}
    /\ Window \in Nat
    /\ MaxBuffers \in Nat \ {0}
    /\ MaxCopies \in Nat \ {0}
    /\ MaxHeld \in Nat \ {0}

VARIABLES
    copies,        \* how often each frame has been handed to Process
    current,       \* the buffer stored in r.sessions under the ID, 0 if none
    created,       \* buffers stored so far
    \* SessionBuffer, per buffer
    chunks,        \* sb.chunks
    nextSeq,       \* sb.nextSeq
    finSeq,        \* sb.finSeq
    output,        \* what sb.output holds
    outputClosed,  \* sb.outputClosed
    done,          \* sb.done is closed
    buffered,      \* sb.flowCtrl.buffered
    retrying,      \* sb.retrying
    mu,            \* the worker that holds sb.mu between two actions
    \* the retry goroutine of a buffer
    rpc, held,     \* where it is; the chunk it holds outside the lock
    \* the workers
    wpc, wbuf, wseq,
    \* the consumer
    cbuf,          \* the buffer whose output GetOutput returned, 0 if none yet
    received,      \* what was received from the output of each buffer
    uncredited,    \* taken and not yet reported to OnConsumed
    sawEnd,        \* the consumer's range over the channel has ended
    \* the caller of RemoveSession
    rbuf           \* the buffer it deleted from the map and will close, or 0

sessionVars == <<current, created>>
bufferVars == <<chunks, nextSeq, finSeq, output, outputClosed, done, buffered,
                retrying, mu>>
retryVars == <<rpc, held>>
workerVars == <<copies, wpc, wbuf, wseq>>
consumerVars == <<cbuf, received, uncredited, sawEnd>>
vars == <<copies, current, created, chunks, nextSeq, finSeq, output,
          outputClosed, done, buffered, retrying, mu, rpc, held, wpc, wbuf,
          wseq, cbuf, received, uncredited, sawEnd, rbuf>>

----------------------------------------------------------------------------
Buffers == 1..MaxBuffers
Chunks == 0..(NumChunks - 1)     \* a chunk is known by its sequence number
Fin == NumChunks - 1             \* the one whose frame carries FlagFIN

Init ==
    /\ copies = [s \in Chunks |-> 0]
    /\ current = 0
    /\ created = 0
    /\ chunks = [b \in Buffers |-> {}]
    /\ nextSeq = [b \in Buffers |-> 0]
    /\ finSeq = [b \in Buffers |-> -1]
    /\ output = [b \in Buffers |-> << >>]
    /\ outputClosed = [b \in Buffers |-> FALSE]
    /\ done = [b \in Buffers |-> FALSE]
    /\ buffered = [b \in Buffers |-> 0]
    /\ retrying = [b \in Buffers |-> FALSE]
    /\ mu = [b \in Buffers |-> Unlocked]
    /\ rpc = [b \in Buffers |-> "off"]
    /\ held = [b \in Buffers |-> 0]
    /\ wpc = [w \in Workers |-> "idle"]
    /\ wbuf = [w \in Workers |-> 1]
    /\ wseq = [w \in Workers |-> 0]
    /\ cbuf = 0
    /\ received = [b \in Buffers |-> << >>]
    /\ uncredited = 0
    /\ sawEnd = FALSE
    /\ rbuf = 0

----------------------------------------------------------------------------
\* WindowFlowController

ShouldPause(b) == buffered[b] > Window

OnBuffered(b) == buffered' = [buffered EXCEPT ![b] = @ + 1]

\* The part both senders share, under the lock, once `seq` is in the channel:
\* account for it, forget the chunk, move on, and after FIN close the output
\* and then done.
Advance(b, seq) ==
    /\ OnBuffered(b)
    /\ chunks' = [chunks EXCEPT ![b] = @ \ {seq}]
    /\ nextSeq' = [nextSeq EXCEPT ![b] = @ + 1]
    /\ IF finSeq[b] >= 0 /\ seq = finSeq[b]
          THEN /\ outputClosed' = [outputClosed EXCEPT ![b] = TRUE]
               /\ done' = [done EXCEPT ![b] = TRUE]
          ELSE UNCHANGED <<outputClosed, done>>

SendChunk(b, seq) == output' = [output EXCEPT ![b] = Append(@, seq)]

----------------------------------------------------------------------------
\* Process: parse the frame, look the session up, store the chunk, reassemble.

\* sessions.LoadOrStore: b is the stored buffer, or a new one.
LoadOrStore(b) ==
    \/ /\ current # 0
       /\ b = current
       /\ UNCHANGED sessionVars
    \/ /\ current = 0
       /\ b = created + 1
       /\ b \in Buffers
       /\ current' = b
       /\ created' = b

\* A frame arrives on w's connection and w looks its session up.
Receive(w, s) ==
    /\ wpc[w] = "idle"
    /\ copies[s] < MaxCopies
    /\ copies' = [copies EXCEPT ![s] = @ + 1]
    /\ \E b \in Buffers :
          /\ LoadOrStore(b)
          /\ wbuf' = [wbuf EXCEPT ![w] = b]
    /\ wseq' = [wseq EXCEPT ![w] = s]
    /\ wpc' = [wpc EXCEPT ![w] = "store"]
    /\ UNCHANGED <<bufferVars, retryVars, consumerVars, rbuf>>

\* Wrong: ignores the flags of the frame.
RecordFinAlways(b, seq) == finSeq' = [finSeq EXCEPT ![b] = seq]

RecordFin(b, seq) ==
    finSeq' = [finSeq EXCEPT ![b] = IF seq = Fin THEN seq ELSE @]

\* The first section under the lock.
StoreChunk(w) ==
    LET b == wbuf[w]
        seq == wseq[w]
    IN  /\ wpc[w] = "store"
        /\ mu[b] = Unlocked
        /\ IF done[b]
              THEN /\ wpc' = [wpc EXCEPT ![w] = "idle"]
                   /\ UNCHANGED <<chunks, finSeq>>
              ELSE /\ chunks' = [chunks EXCEPT ![b] = @ \cup {seq}]
                   /\ RecordFin(b, seq)
                   /\ wpc' = [wpc EXCEPT ![w] = "try"]
        /\ UNCHANGED <<copies, sessionVars, nextSeq, output, outputClosed, done,
                       buffered, retrying, mu, retryVars, wbuf, wseq,
                       consumerVars, rbuf>>

\* Wrong: does not respect the retry goroutine's ownership of the channel.
MayNotSendUnlessDone(b) == done[b]

MayNotSend(b) == done[b] \/ retrying[b]

\* tryReassemble takes the lock; it does nothing when the session has ended or
\* the retry goroutine owns the channel.
TryBegin(w) ==
    LET b == wbuf[w]
    IN  /\ wpc[w] = "try"
        /\ mu[b] = Unlocked
        /\ IF MayNotSend(b)
              THEN /\ wpc' = [wpc EXCEPT ![w] = "idle"]
                   /\ UNCHANGED mu
              ELSE /\ wpc' = [wpc EXCEPT ![w] = "loop"]
                   /\ mu' = [mu EXCEPT ![b] = w]
        /\ UNCHANGED <<copies, sessionVars, chunks, nextSeq, finSeq, output,
                       outputClosed, done, buffered, retrying, retryVars, wbuf,
                       wseq, consumerVars, rbuf>>

TryReturn(w, b) ==
    /\ wpc' = [wpc EXCEPT ![w] = "idle"]
    /\ mu' = [mu EXCEPT ![b] = Unlocked]

\* Leaves the loop: paused by flow control, or the next chunk is not there.
TryStop(w) ==
    LET b == wbuf[w]
    IN  /\ wpc[w] = "loop"
        /\ ShouldPause(b) \/ nextSeq[b] \notin chunks[b]
        /\ TryReturn(w, b)
        /\ UNCHANGED <<copies, sessionVars, chunks, nextSeq, finSeq, output,
                       outputClosed, done, buffered, retrying, retryVars, wbuf,
                       wseq, consumerVars, rbuf>>

\* The non-blocking send succeeds; after FIN the method returns.
TrySend(w) ==
    LET b == wbuf[w]
        seq == nextSeq[b]
    IN  /\ wpc[w] = "loop"
        /\ ~ShouldPause(b)
        /\ seq \in chunks[b]
        /\ Len(output[b]) < Capacity
        /\ SendChunk(b, seq)
        /\ Advance(b, seq)
        /\ IF seq = finSeq[b]
              THEN TryReturn(w, b)
              ELSE UNCHANGED <<wpc, mu>>
        /\ UNCHANGED <<copies, sessionVars, finSeq, retrying, retryVars, wbuf,
                       wseq, consumerVars, rbuf>>

\* The channel is full: start the retry goroutine and return.
TryHandOver(w) ==
    LET b == wbuf[w]
    IN  /\ wpc[w] = "loop"
        /\ ~ShouldPause(b)
        /\ nextSeq[b] \in chunks[b]
        /\ Len(output[b]) = Capacity
        /\ retrying' = [retrying EXCEPT ![b] = TRUE]
        /\ rpc' = [rpc EXCEPT ![b] = "loop"]
        /\ TryReturn(w, b)
        /\ UNCHANGED <<copies, sessionVars, chunks, nextSeq, finSeq, output,
                       outputClosed, done, buffered, held, wbuf, wseq,
                       consumerVars, rbuf>>

----------------------------------------------------------------------------
\* retryReassemble

\* Wrong: leaves the channel of a removed session open.
RetryNeverCloses(b) == FALSE

\* Wrong: closes the channel whenever it gives it back.
RetryAlwaysCloses(b) == TRUE

RetryMayClose(b) == done[b]

\* Wrong: forgets to clear retrying.
RetryExitKeepsFlag(b) ==
    /\ UNCHANGED retrying
    /\ outputClosed' = [outputClosed EXCEPT ![b] = @ \/ RetryMayClose(b)]
    /\ rpc' = [rpc EXCEPT ![b] = "off"]

\* Gives the channel back; closes it if the session ended meanwhile.
RetryExit(b) ==
    /\ retrying' = [retrying EXCEPT ![b] = FALSE]
    /\ outputClosed' = [outputClosed EXCEPT ![b] = @ \/ RetryMayClose(b)]
    /\ rpc' = [rpc EXCEPT ![b] = "off"]

\* The locked part of an iteration finds nothing to do.
RetryGiveUp(b) ==
    /\ rpc[b] = "loop"
    /\ mu[b] = Unlocked
    /\ done[b] \/ nextSeq[b] \notin chunks[b]
    /\ RetryExit(b)
    /\ UNCHANGED <<sessionVars, chunks, nextSeq, finSeq, output, done, buffered,
                   mu, held, workerVars, consumerVars, rbuf>>

\* After a send both paths account for it, and stop after FIN.
RetryAdvance(b, seq) ==
    /\ Advance(b, seq)
    /\ IF seq = finSeq[b]
          THEN /\ retrying' = [retrying EXCEPT ![b] = FALSE]
               /\ rpc' = [rpc EXCEPT ![b] = "off"]
          ELSE /\ rpc' = [rpc EXCEPT ![b] = "loop"]
               /\ UNCHANGED retrying

\* The non-blocking send, under the lock.  ShouldPause is not asked here.
RetrySend(b) ==
    LET seq == nextSeq[b]
    IN  /\ rpc[b] = "loop"
        /\ mu[b] = Unlocked
        /\ ~done[b]
        /\ seq \in chunks[b]
        /\ Len(output[b]) < Capacity
        /\ SendChunk(b, seq)
        /\ RetryAdvance(b, seq)
        /\ UNCHANGED <<sessionVars, finSeq, mu, held, workerVars, consumerVars,
                       rbuf>>

\* The channel is still full: keep the chunk and wait outside the lock.
RetryBlock(b) ==
    LET seq == nextSeq[b]
    IN  /\ rpc[b] = "loop"
        /\ mu[b] = Unlocked
        /\ ~done[b]
        /\ seq \in chunks[b]
        /\ Len(output[b]) = Capacity
        /\ held' = [held EXCEPT ![b] = seq]
        /\ rpc' = [rpc EXCEPT ![b] = "blocked"]
        /\ UNCHANGED <<sessionVars, bufferVars, workerVars, consumerVars, rbuf>>

\* The blocking send goes through.
RetryUnblock(b) ==
    /\ rpc[b] = "blocked"
    /\ Len(output[b]) < Capacity
    /\ SendChunk(b, held[b])
    /\ rpc' = [rpc EXCEPT ![b] = "sent"]
    /\ UNCHANGED <<sessionVars, chunks, nextSeq, finSeq, outputClosed, done,
                   buffered, retrying, mu, held, workerVars, consumerVars, rbuf>>

\* Wrong: the blocking send does not select on done.
RetryAbandonNever(b) ==
    /\ FALSE
    /\ UNCHANGED vars

\* done is closed while the send blocks.
RetryAbandon(b) ==
    /\ rpc[b] = "blocked"
    /\ done[b]
    /\ rpc' = [rpc EXCEPT ![b] = "exit"]
    /\ UNCHANGED <<sessionVars, bufferVars, held, workerVars, consumerVars, rbuf>>

\* Back under the lock after the blocking send.
RetryAccount(b) ==
    /\ rpc[b] = "sent"
    /\ mu[b] = Unlocked
    /\ IF done[b]
          THEN /\ RetryExit(b)
               /\ UNCHANGED <<chunks, nextSeq, done, buffered>>
          ELSE RetryAdvance(b, held[b])
    /\ UNCHANGED <<sessionVars, finSeq, output, mu, held, workerVars,
                   consumerVars, rbuf>>

\* retryExit(false): take the lock to leave.
RetryLeave(b) ==
    /\ rpc[b] = "exit"
    /\ mu[b] = Unlocked
    /\ RetryExit(b)
    /\ UNCHANGED <<sessionVars, chunks, nextSeq, finSeq, output, done, buffered,
                   mu, held, workerVars, consumerVars, rbuf>>

----------------------------------------------------------------------------
\* The consumer: GetOutput once, then receive until the channel is closed,
\* calling OnConsumed at the latest after MaxHeld chunks.

GetOutput ==
    /\ cbuf = 0
    /\ current # 0
    /\ cbuf' = current
    /\ UNCHANGED <<workerVars, sessionVars, bufferVars, retryVars, received,
                   uncredited, sawEnd, rbuf>>

Consume ==
    /\ cbuf # 0
    /\ uncredited < MaxHeld
    /\ output[cbuf] # << >>
    /\ received' = [received EXCEPT ![cbuf] = Append(@, Head(output[cbuf]))]
    /\ output' = [output EXCEPT ![cbuf] = Tail(@)]
    /\ uncredited' = uncredited + 1
    /\ UNCHANGED <<workerVars, sessionVars, chunks, nextSeq, finSeq,
                   outputClosed, done, buffered, retrying, mu, retryVars, cbuf,
                   sawEnd, rbuf>>

\* OnConsumed looks the session up by its ID again, and does nothing without it.
OnConsumed ==
    /\ uncredited > 0
    /\ uncredited' = 0
    /\ buffered' = IF current = 0
                      THEN buffered
                      ELSE [buffered EXCEPT ![current] = @ - uncredited]
    /\ UNCHANGED <<workerVars, sessionVars, chunks, nextSeq, finSeq, output,
                   outputClosed, done, retrying, mu, retryVars, cbuf, received,
                   sawEnd, rbuf>>

\* Receiving from the drained, closed channel ends the consumer's loop.
SeeEnd ==
    /\ cbuf # 0
    /\ ~sawEnd
    /\ output[cbuf] = << >>
    /\ outputClosed[cbuf]
    /\ sawEnd' = TRUE
    /\ UNCHANGED <<workerVars, sessionVars, bufferVars, retryVars, cbuf,
                   received, uncredited, rbuf>>

----------------------------------------------------------------------------
\* RemoveSession: LoadAndDelete, then the section under the lock.

RemoveLookup ==
    /\ rbuf = 0
    /\ current # 0
    /\ rbuf' = current
    /\ current' = 0
    /\ UNCHANGED <<workerVars, created, bufferVars, retryVars, consumerVars>>

\* Wrong: closes the channel while the retry goroutine may send on it.
RemoveAlwaysCloses(b) == TRUE

\* Wrong: leaves closing to a retry goroutine that need not exist.
RemoveNeverCloses(b) == FALSE

RemoveMayClose(b) == ~retrying[b]

RemoveClose ==
    /\ rbuf # 0
    /\ mu[rbuf] = Unlocked
    /\ done' = [done EXCEPT ![rbuf] = TRUE]
    /\ outputClosed' = [outputClosed EXCEPT ![rbuf] = @ \/ RemoveMayClose(rbuf)]
    /\ rbuf' = 0
    /\ UNCHANGED <<workerVars, sessionVars, chunks, nextSeq, finSeq, output,
                   buffered, retrying, mu, retryVars, consumerVars>>

----------------------------------------------------------------------------
Worker(w) == StoreChunk(w) \/ TryBegin(w) \/ TryStop(w) \/ TrySend(w)
             \/ TryHandOver(w)

Retry(b) == RetryGiveUp(b) \/ RetrySend(b) \/ RetryBlock(b) \/ RetryUnblock(b)
            \/ RetryAbandon(b) \/ RetryAccount(b) \/ RetryLeave(b)

Consumer == GetOutput \/ Consume \/ OnConsumed \/ SeeEnd

Next ==
    \/ \E w \in Workers, s \in Chunks : Receive(w, s)
    \/ \E w \in Workers : Worker(w)
    \/ \E b \in Buffers : Retry(b)
    \/ Consumer
    \/ RemoveLookup
    \/ RemoveClose

Spec == Init /\ [][Next]_vars

\* The Go scheduler runs every runnable goroutine and a free mutex is acquired.
\* RemoveSession need not be called; once it is, it runs to its end.
SystemFairness ==
    /\ \A w \in Workers : WF_vars(Worker(w))
    /\ \A b \in Buffers : WF_vars(Retry(b))
    /\ WF_vars(RemoveClose)

SystemSpec == Spec /\ SystemFairness

\* The consumer keeps reading and returning credit.
ConsumerFairness ==
    /\ WF_vars(GetOutput)
    /\ WF_vars(Consume)
    /\ WF_vars(OnConsumed)
    /\ WF_vars(SeeEnd)

\* Besides, the connections deliver every frame.
EnvironmentFairness ==
    /\ \A s \in Chunks : WF_vars(\E w \in Workers : Receive(w, s))
    /\ ConsumerFairness
----------------------------------------------------------------------------
(***************************************************************************)
(* Properties                                                              *)
(***************************************************************************)

\* The locks, flags and program counters.
SyncTypeOK ==
    /\ outputClosed \in [Buffers -> BOOLEAN]
    /\ done \in [Buffers -> BOOLEAN]
    /\ retrying \in [Buffers -> BOOLEAN]
    /\ mu \in [Buffers -> Workers \cup {Unlocked}]
    /\ rpc \in [Buffers -> {"off", "loop", "blocked", "sent", "exit"}]
    /\ wpc \in [Workers -> {"idle", "store", "try", "loop"}]
    /\ wbuf \in [Workers -> Buffers]

\* The chunks on their way.
DataTypeOK ==
    /\ chunks \in [Buffers -> SUBSET Chunks]
    /\ nextSeq \in [Buffers -> 0..NumChunks]
    /\ finSeq \in [Buffers -> {-1, Fin}]
    /\ output \in [Buffers -> Seq(Chunks)]
    /\ received \in [Buffers -> Seq(Chunks)]
    /\ held \in [Buffers -> Chunks]
    /\ wseq \in [Workers -> Chunks]

\* The sessions map, the consumer, the remover and the environment.
SessionTypeOK ==
    /\ copies \in [Chunks -> 0..MaxCopies]
    /\ created \in Buffers \cup {0}
    /\ current \in 0..created
    /\ cbuf \in 0..created
    /\ rbuf \in 0..created
    /\ buffered \in [Buffers -> Int]
    /\ uncredited \in 0..MaxHeld
    /\ sawEnd \in BOOLEAN

TypeOK == SyncTypeOK /\ DataTypeOK /\ SessionTypeOK

\* Everything ever sent on the output of b.
SentTo(b) == received[b] \o output[b]

\* The chunks come out of every output channel in order, without a gap and
\* without a duplicate, whatever order the connections deliver them in and
\* however tryReassemble and retryReassemble hand the channel to each other.
InOrder ==
    \A b \in Buffers : \A i \in 1..Len(SentTo(b)) : SentTo(b)[i] = i - 1

\* retrying is true exactly while a retry goroutine lives, and then no worker
\* is inside tryReassemble's loop: the channel has one sender at a time.
SingleSender ==
    \A b \in Buffers :
        /\ retrying[b] <=> rpc[b] # "off"
        /\ \A w \in Workers :
              wpc[w] = "loop" /\ wbuf[w] = b => mu[b] = w /\ ~retrying[b]

\* A session that has ended has its output closed, or a retry goroutine is
\* still there to close it: no consumer waits on it for ever.
EndedIsClosed ==
    \A b \in Buffers : done[b] => outputClosed[b] \/ rpc[b] # "off"

\* No chunk that is next in order is left to nobody: while one is stored, the
\* retry goroutine runs or a worker is on its way to tryReassemble, unless
\* RemoveSession is about to end the session.  It needs a window that the
\* channel and the consumer's uncredited chunks cannot exhaust: the loop of
\* tryReassemble that stops on ShouldPause is never resumed by OnConsumed.
NoLostWakeup ==
    \A b \in Buffers :
        nextSeq[b] \in chunks[b] /\ ~done[b] /\ rbuf # b =>
            \/ rpc[b] # "off"
            \/ \E w \in Workers : wpc[w] \in {"try", "loop"} /\ wbuf[w] = b

\* Nobody sends on a closed channel, and no channel is closed under a blocked
\* sender: either one would panic the process.
NoSendOnClosed ==
    [][\A b \in Buffers :
          /\ Len(SentTo(b)') > Len(SentTo(b)) => ~outputClosed[b]
          /\ rpc[b] = "blocked" => ~outputClosed'[b]]_vars

\* What the consumer gets is an in-order delivery of the stream that ends
\* after the last chunk or because the session was removed.
Delivery ==
    INSTANCE InOrderDelivery WITH
        delivered <- IF cbuf = 0 THEN << >> ELSE received[cbuf],
        removed <- cbuf # 0 /\ cbuf # current,
        ended <- sawEnd

ImplementsDelivery == Delivery!DeliverySpec

\* A consumer that got the session's first buffer reads to the end of it, if
\* the connections and the consumer itself go on.
ConsumerFinishes == EnvironmentFairness => (cbuf = 1 ~> sawEnd)

\* A retry goroutine whose session has ended exits, even when nobody reads the
\* channel any more: nothing is assumed of the consumer or the connections.
RetryExits == \A b \in Buffers : done[b] ~> rpc[b] = "off"
=============================================================================
