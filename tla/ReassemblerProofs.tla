------------------------- MODULE ReassemblerProofs -------------------------
(***************************************************************************)
(* The inductive invariant of Reassembler and what follows from it, for    *)
(* any number of workers, buffers, chunks and copies, and any capacity.    *)
(***************************************************************************)
EXTENDS Reassembler, TLAPS

\* Who holds what: the lock belongs to the one worker inside the loop, which
\* excludes the retry goroutine and the end of the session.
LockInv ==
    /\ SingleSender
    /\ \A w \in Workers : wpc[w] = "loop" => ~done[wbuf[w]]

\* How a session ends: closed implies done, a done session is closed by
\* whoever owned the channel, and a live retry goroutine keeps it open.
EndInv ==
    \A b \in Buffers :
        /\ outputClosed[b] => done[b]
        /\ done[b] => outputClosed[b] \/ rpc[b] # "off"
        /\ rpc[b] # "off" => ~outputClosed[b]
        /\ rpc[b] = "exit" => done[b]

\* The chunk a blocked retry goroutine holds is still the next one.
HeldInv ==
    \A b \in Buffers :
        rpc[b] \in {"blocked", "sent"} => held[b] = nextSeq[b]

\* What was sent is a prefix of the stream.
PrefixInv ==
    \A b \in Buffers :
        /\ \A i \in 1..Len(received[b]) : received[b][i] = i - 1
        /\ \A i \in 1..Len(output[b]) :
              output[b][i] = Len(received[b]) + i - 1

SentCount(b) == Len(received[b]) + Len(output[b])

\* nextSeq counts what was sent, except between the blocking send and the
\* lock that follows it, and unless a send raced the end of the session.
CountInv ==
    \A b \in Buffers :
        /\ ~done[b] /\ rpc[b] = "sent" => SentCount(b) = nextSeq[b] + 1
        /\ rpc[b] = "blocked" \/ (~done[b] /\ rpc[b] # "sent") =>
              SentCount(b) = nextSeq[b]

IInv == TypeOK /\ LockInv /\ EndInv /\ HeldInv /\ PrefixInv /\ CountInv

\* The initial state: no buffer exists and every goroutine rests.
LEMMA InitIInv == Init => IInv
<1> SUFFICES ASSUME Init PROVE IInv OBVIOUS
<1>1. SyncTypeOK
  BY BoundsAssumption DEF Init, SyncTypeOK, Buffers
<1>2. DataTypeOK
  BY StreamAssumption DEF Init, DataTypeOK, Chunks
<1>3. SessionTypeOK
  <2>1. copies \in [Chunks -> 0..MaxCopies]
    BY BoundsAssumption DEF Init
  <2>2. buffered \in [Buffers -> Int] /\ uncredited \in 0..MaxHeld
    BY BoundsAssumption DEF Init
  <2>3. created \in Buffers \cup {0} /\ 0 \in 0..0 /\ created = 0
    BY DEF Init
  <2> QED BY <2>1, <2>2, <2>3 DEF Init, SessionTypeOK
<1>4. LockInv /\ EndInv /\ HeldInv
  BY DEF Init, LockInv, SingleSender, EndInv, HeldInv
<1>5. PrefixInv
  BY DEF Init, PrefixInv
<1>6. CountInv
  BY DEF Init, CountInv, SentCount
<1> QED BY <1>1, <1>2, <1>3, <1>4, <1>5, <1>6 DEF IInv, TypeOK

\* What Append does to the length and the elements of a sequence.
LEMMA AppendFacts ==
    ASSUME NEW S, NEW q \in Seq(S), NEW e \in S
    PROVE  /\ Append(q, e) \in Seq(S)
           /\ Len(Append(q, e)) = Len(q) + 1
           /\ \A i \in 1..Len(q) : Append(q, e)[i] = q[i]
           /\ Append(q, e)[Len(q) + 1] = e
           /\ Len(q) \in Nat
  OBVIOUS

\* What receiving the head of a channel leaves in it.
LEMMA TailFacts ==
    ASSUME NEW S, NEW q \in Seq(S), q # << >>
    PROVE  /\ Tail(q) \in Seq(S)
           /\ Head(q) \in S
           /\ Head(q) = q[1]
           /\ Len(q) \in Nat \ {0}
           /\ Len(Tail(q)) = Len(q) - 1
           /\ \A i \in 1..Len(Tail(q)) : Tail(q)[i] = q[i + 1]
  OBVIOUS

\* Moving one element from one sequence to another keeps the total.
LEMMA AddOne ==
    ASSUME NEW m \in Nat, NEW n \in Nat
    PROVE  /\ m + n \in Nat
           /\ m + (n + 1) = (m + n) + 1
           /\ (m + 1) + (n - 1) = m + n
  OBVIOUS

\* The number of chunks sent on a buffer is a natural number.
LEMMA SentCountNat ==
    ASSUME DataTypeOK, NEW b \in Buffers PROVE SentCount(b) \in Nat
<1>1. received[b] \in Seq(Chunks) /\ output[b] \in Seq(Chunks)
  BY DEF DataTypeOK
<1>2. Len(received[b]) \in Nat /\ Len(output[b]) \in Nat
  BY <1>1
<1>3. Len(received[b]) + Len(output[b]) \in Nat
  BY <1>2, AddOne, Zenon
<1> QED BY <1>3 DEF SentCount

\* Sending chunk SentCount(b) keeps what was sent a prefix of the stream.
LEMMA SendPrefix ==
    ASSUME DataTypeOK, PrefixInv, NEW b \in Buffers, NEW seq \in Chunks,
           SentCount(b) = seq,
           received' = received, output' = [output EXCEPT ![b] = Append(@,
               seq)]
    PROVE  /\ PrefixInv'
           /\ output' \in [Buffers -> Seq(Chunks)]
           /\ SentCount(b)' = SentCount(b) + 1
           /\ \A c \in Buffers \ {b} : SentCount(c)' = SentCount(c)
<1>1. output[b] \in Seq(Chunks) /\ Len(received[b]) \in Nat
  BY DEF DataTypeOK
<1>2. /\ Append(output[b], seq) \in Seq(Chunks)
      /\ Len(Append(output[b], seq)) = Len(output[b]) + 1
      /\ \A i \in 1..Len(output[b]) : Append(output[b], seq)[i] = output[b][i]
      /\ Append(output[b], seq)[Len(output[b]) + 1] = seq
      /\ Len(output[b]) \in Nat
  BY <1>1, AppendFacts
<1>3. /\ output' \in [Buffers -> Seq(Chunks)]
      /\ output'[b] = Append(output[b], seq)
      /\ \A c \in Buffers \ {b} : output'[c] = output[c]
  BY <1>1, <1>2 DEF DataTypeOK
<1>4. ASSUME NEW i \in 1..Len(output'[b])
      PROVE  output'[b][i] = Len(received[b]) + i - 1
  <2>1. CASE i = Len(output[b]) + 1
    <3>1. output'[b][i] = seq
      BY <2>1, <1>2, <1>3
    <3>2. Len(received[b]) + Len(output[b]) = Len(received[b]) + i - 1
      BY <2>1, <1>1, <1>2
    <3> QED BY <3>1, <3>2, Zenon DEF SentCount
  <2>2. CASE i # Len(output[b]) + 1
    <3>1. i \in 1..Len(output[b])
      BY <2>2, <1>2, <1>3
    <3>2. output'[b][i] = output[b][i]
      BY <3>1, <1>2, <1>3
    <3>3. output[b][i] = Len(received[b]) + i - 1
      BY <3>1 DEF PrefixInv
    <3> QED BY <3>2, <3>3
  <2> QED BY <2>1, <2>2
<1>5. PrefixInv'
  BY <1>3, <1>4 DEF PrefixInv
<1>6. SentCount(b)' = SentCount(b) + 1
  <2>1. Len(received[b]) + (Len(output[b]) + 1)
           = (Len(received[b]) + Len(output[b])) + 1
    BY <1>1, <1>2, AddOne, Zenon
  <2>2. received'[b] = received[b] /\ Len(output'[b]) = Len(output[b]) + 1
    BY <1>2, <1>3
  <2> QED BY <2>1, <2>2, Zenon DEF SentCount
<1>7. \A c \in Buffers \ {b} : SentCount(c)' = SentCount(c)
  BY <1>3 DEF SentCount
<1> QED BY <1>3, <1>5, <1>6, <1>7

\* Storing a chunk touches nothing the senders rely on.
LEMMA StoreChunkStep ==
    ASSUME IInv, NEW w \in Workers, StoreChunk(w) PROVE IInv'
<1>1. UNCHANGED <<outputClosed, done, retrying, mu, rpc, wbuf, nextSeq,
    output, received, held, wseq, copies, created, current, cbuf, rbuf,
    buffered, uncredited, sawEnd>>
  BY DEF StoreChunk, sessionVars, bufferVars, retryVars, workerVars,
      consumerVars
<1>2. /\ wpc[w] = "store"
      /\ wpc' \in {[wpc EXCEPT ![w] = "idle"], [wpc EXCEPT ![w] = "try"]}
      /\ chunks' \in {chunks, [chunks EXCEPT ![wbuf[w]] = @ \cup {wseq[w]}]}
      /\ \/ finSeq' = finSeq
         \/ finSeq' = [finSeq EXCEPT ![wbuf[w]] = IF wseq[w] = Fin THEN Fin ELSE @]
  BY DEF StoreChunk, RecordFin
<1>3. wbuf[w] \in Buffers /\ wseq[w] \in Chunks
  BY DEF IInv, TypeOK, SyncTypeOK, DataTypeOK
<1>10. SyncTypeOK'
  BY <1>1, <1>2 DEF IInv, TypeOK, SyncTypeOK
<1>11. DataTypeOK'
  <2>0. chunks \in [Buffers -> SUBSET Chunks]
    BY DEF IInv, TypeOK, DataTypeOK
  <2>1. chunks' \in [Buffers -> SUBSET Chunks]
    BY <1>2, <1>3, <2>0
  <2>2. finSeq' \in [Buffers -> {-1, Fin}]
    BY <1>2, <1>3 DEF IInv, TypeOK, DataTypeOK
  <2> QED BY <1>1, <2>1, <2>2 DEF IInv, TypeOK, DataTypeOK
<1>12. SessionTypeOK'
  BY <1>1 DEF IInv, TypeOK, SessionTypeOK
<1>13. LockInv'
  BY <1>1, <1>2 DEF IInv, TypeOK, SyncTypeOK, LockInv, SingleSender
<1>14. EndInv'
  BY <1>1 DEF IInv, EndInv
<1>15. HeldInv'
  BY <1>1 DEF IInv, HeldInv
<1>16. PrefixInv'
  BY <1>1 DEF IInv, PrefixInv
<1>17. CountInv'
  BY <1>1 DEF IInv, CountInv, SentCount
<1> QED BY <1>10, <1>11, <1>12, <1>13, <1>14, <1>15, <1>16, <1>17 DEF IInv,
    TypeOK

\* The worker that takes the lock enters the loop only when nobody else sends.
LEMMA TryBeginStep == ASSUME IInv, NEW w \in Workers, TryBegin(w) PROVE IInv'
<1>1. UNCHANGED <<outputClosed, done, retrying, rpc, wbuf, chunks, nextSeq,
    finSeq, output, received, held, wseq, copies, created, current, cbuf,
    rbuf, buffered, uncredited, sawEnd>>
  BY DEF TryBegin, sessionVars, bufferVars, retryVars, workerVars, consumerVars
<1>2. /\ wpc[w] = "try"
      /\ mu[wbuf[w]] = Unlocked
      /\ \/ wpc' = [wpc EXCEPT ![w] = "idle"] /\ mu' = mu
         \/ /\ ~done[wbuf[w]] /\ ~retrying[wbuf[w]]
            /\ wpc' = [wpc EXCEPT ![w] = "loop"]
            /\ mu' = [mu EXCEPT ![wbuf[w]] = w]
  BY DEF TryBegin, MayNotSend
<1>10. SyncTypeOK'
  BY <1>1, <1>2 DEF IInv, TypeOK, SyncTypeOK
<1>11. DataTypeOK'
  BY <1>1 DEF IInv, TypeOK, DataTypeOK
<1>12. SessionTypeOK'
  BY <1>1 DEF IInv, TypeOK, SessionTypeOK
<1>13. LockInv'
  BY <1>1, <1>2, WorkersAssumption DEF IInv, TypeOK, SyncTypeOK, LockInv,
      SingleSender
<1>14. EndInv'
  BY <1>1 DEF IInv, EndInv
<1>15. HeldInv'
  BY <1>1 DEF IInv, HeldInv
<1>16. PrefixInv'
  BY <1>1 DEF IInv, PrefixInv
<1>17. CountInv'
  BY <1>1 DEF IInv, CountInv, SentCount
<1> QED BY <1>10, <1>11, <1>12, <1>13, <1>14, <1>15, <1>16, <1>17 DEF IInv,
    TypeOK

\* Leaving the loop frees the lock.
LEMMA TryStopStep == ASSUME IInv, NEW w \in Workers, TryStop(w) PROVE IInv'
<1>1. UNCHANGED <<outputClosed, done, retrying, rpc, wbuf, chunks, nextSeq,
    finSeq, output, received, held, wseq, copies, created, current, cbuf,
    rbuf, buffered, uncredited, sawEnd>>
  BY DEF TryStop, TryReturn, sessionVars, bufferVars, retryVars, workerVars,
      consumerVars
<1>2. /\ wpc[w] = "loop"
      /\ wpc' = [wpc EXCEPT ![w] = "idle"]
      /\ mu' = [mu EXCEPT ![wbuf[w]] = Unlocked]
  BY DEF TryStop, TryReturn
<1>10. SyncTypeOK'
  BY <1>1, <1>2 DEF IInv, TypeOK, SyncTypeOK
<1>11. DataTypeOK'
  BY <1>1 DEF IInv, TypeOK, DataTypeOK
<1>12. SessionTypeOK'
  BY <1>1 DEF IInv, TypeOK, SessionTypeOK
<1>13. LockInv'
  BY <1>1, <1>2, WorkersAssumption DEF IInv, TypeOK, SyncTypeOK, LockInv,
      SingleSender
<1>14. EndInv'
  BY <1>1 DEF IInv, EndInv
<1>15. HeldInv'
  BY <1>1 DEF IInv, HeldInv
<1>16. PrefixInv'
  BY <1>1 DEF IInv, PrefixInv
<1>17. CountInv'
  BY <1>1 DEF IInv, CountInv, SentCount
<1> QED BY <1>10, <1>11, <1>12, <1>13, <1>14, <1>15, <1>16, <1>17 DEF IInv,
    TypeOK

\* Handing over starts the only retry goroutine of the buffer.
LEMMA TryHandOverStep ==
    ASSUME IInv, NEW w \in Workers, TryHandOver(w) PROVE IInv'
<1>1. UNCHANGED <<outputClosed, done, wbuf, chunks, nextSeq, finSeq, output,
    received, held, wseq, copies, created, current, cbuf, rbuf, buffered,
    uncredited, sawEnd>>
  BY DEF TryHandOver, TryReturn, sessionVars, bufferVars, retryVars,
      workerVars, consumerVars
<1>2. /\ wpc[w] = "loop"
      /\ wpc' = [wpc EXCEPT ![w] = "idle"]
      /\ mu' = [mu EXCEPT ![wbuf[w]] = Unlocked]
      /\ retrying' = [retrying EXCEPT ![wbuf[w]] = TRUE]
      /\ rpc' = [rpc EXCEPT ![wbuf[w]] = "loop"]
  BY DEF TryHandOver, TryReturn
<1>3. wbuf[w] \in Buffers /\ ~done[wbuf[w]] /\ rpc[wbuf[w]] = "off"
  BY <1>2 DEF IInv, TypeOK, SyncTypeOK, LockInv, SingleSender
<1>10. SyncTypeOK'
  BY <1>1, <1>2 DEF IInv, TypeOK, SyncTypeOK
<1>11. DataTypeOK'
  BY <1>1 DEF IInv, TypeOK, DataTypeOK
<1>12. SessionTypeOK'
  BY <1>1 DEF IInv, TypeOK, SessionTypeOK
<1>13. LockInv'
  BY <1>1, <1>2, <1>3, WorkersAssumption DEF IInv, TypeOK, SyncTypeOK,
      LockInv, SingleSender
<1>14. EndInv'
  BY <1>1, <1>2, <1>3 DEF IInv, TypeOK, SyncTypeOK, EndInv
<1>15. HeldInv'
  BY <1>1, <1>2 DEF IInv, TypeOK, SyncTypeOK, HeldInv
<1>16. PrefixInv'
  BY <1>1 DEF IInv, PrefixInv
<1>17. CountInv'
  BY <1>1, <1>2, <1>3 DEF IInv, TypeOK, SyncTypeOK, CountInv, SentCount
<1> QED BY <1>10, <1>11, <1>12, <1>13, <1>14, <1>15, <1>16, <1>17 DEF IInv,
    TypeOK

\* A frame arrives at an idle worker, which holds no lock.
LEMMA ReceiveStep ==
    ASSUME IInv, NEW w \in Workers, NEW s \in Chunks, Receive(w, s) PROVE IInv'
<1>1. UNCHANGED <<outputClosed, done, retrying, mu, rpc, chunks, nextSeq,
    finSeq, output, received, held, cbuf, rbuf, buffered, uncredited, sawEnd>>
  BY DEF Receive, LoadOrStore, sessionVars, bufferVars, retryVars, workerVars,
      consumerVars
<1>2. PICK b \in Buffers : LoadOrStore(b) /\ wbuf' = [wbuf EXCEPT ![w] = b]
  BY DEF Receive
<1>3. /\ wpc[w] = "idle"
      /\ wpc' = [wpc EXCEPT ![w] = "store"]
      /\ wseq' = [wseq EXCEPT ![w] = s]
      /\ copies[s] < MaxCopies
      /\ copies' = [copies EXCEPT ![s] = @ + 1]
  BY DEF Receive
<1>10. SyncTypeOK'
  BY <1>1, <1>2, <1>3 DEF IInv, TypeOK, SyncTypeOK
<1>11. DataTypeOK'
  BY <1>1, <1>3 DEF IInv, TypeOK, DataTypeOK
<1>12. SessionTypeOK'
  <2>1. copies' \in [Chunks -> 0..MaxCopies]
    BY <1>3, BoundsAssumption DEF IInv, TypeOK, SessionTypeOK
  <2>2. /\ created' \in Buffers \cup {0}
        /\ created' >= created
        /\ current' \in 0..created'
    BY <1>2, BoundsAssumption DEF LoadOrStore, sessionVars, Buffers, IInv,
        TypeOK, SessionTypeOK
  <2>3. cbuf \in 0..created' /\ rbuf \in 0..created'
    BY <2>2, BoundsAssumption DEF Buffers, IInv, TypeOK, SessionTypeOK
  <2> QED BY <1>1, <2>1, <2>2, <2>3 DEF IInv, TypeOK, SessionTypeOK
<1>13. LockInv'
  BY <1>1, <1>2, <1>3 DEF IInv, TypeOK, SyncTypeOK, LockInv, SingleSender
<1>14. EndInv'
  BY <1>1 DEF IInv, EndInv
<1>15. HeldInv'
  BY <1>1 DEF IInv, HeldInv
<1>16. PrefixInv'
  BY <1>1 DEF IInv, PrefixInv
<1>17. CountInv'
  BY <1>1 DEF IInv, CountInv, SentCount
<1> QED BY <1>10, <1>11, <1>12, <1>13, <1>14, <1>15, <1>16, <1>17 DEF IInv,
    TypeOK

\* Giving the channel back closes it exactly when the session has ended.
LEMMA RetryGiveUpStep ==
    ASSUME IInv, NEW b \in Buffers, RetryGiveUp(b) PROVE IInv'
<1>1. UNCHANGED <<done, mu, wpc, wbuf, chunks, nextSeq, finSeq, output,
    received, held, wseq, copies, created, current, cbuf, rbuf, buffered,
    uncredited, sawEnd>>
  BY DEF RetryGiveUp, RetryExit, sessionVars, bufferVars, retryVars,
      workerVars, consumerVars
<1>2. /\ rpc[b] = "loop"
      /\ retrying' = [retrying EXCEPT ![b] = FALSE]
      /\ outputClosed' = [outputClosed EXCEPT ![b] = @ \/ done[b]]
      /\ rpc' = [rpc EXCEPT ![b] = "off"]
  BY DEF RetryGiveUp, RetryExit, RetryMayClose
<1>10. SyncTypeOK'
  BY <1>1, <1>2 DEF IInv, TypeOK, SyncTypeOK
<1>11. DataTypeOK'
  BY <1>1 DEF IInv, TypeOK, DataTypeOK
<1>12. SessionTypeOK'
  BY <1>1 DEF IInv, TypeOK, SessionTypeOK
<1>13. LockInv'
  BY <1>1, <1>2 DEF IInv, TypeOK, SyncTypeOK, LockInv, SingleSender
<1>14. EndInv'
  BY <1>1, <1>2 DEF IInv, TypeOK, SyncTypeOK, EndInv
<1>15. HeldInv'
  BY <1>1, <1>2 DEF IInv, TypeOK, SyncTypeOK, HeldInv
<1>16. PrefixInv'
  BY <1>1 DEF IInv, PrefixInv
<1>17. CountInv'
  BY <1>1, <1>2 DEF IInv, TypeOK, SyncTypeOK, CountInv, SentCount
<1> QED BY <1>10, <1>11, <1>12, <1>13, <1>14, <1>15, <1>16, <1>17 DEF IInv,
    TypeOK

\* The same exit after done was seen outside the lock.
LEMMA RetryLeaveStep ==
    ASSUME IInv, NEW b \in Buffers, RetryLeave(b) PROVE IInv'
<1>1. UNCHANGED <<done, mu, wpc, wbuf, chunks, nextSeq, finSeq, output,
    received, held, wseq, copies, created, current, cbuf, rbuf, buffered,
    uncredited, sawEnd>>
  BY DEF RetryLeave, RetryExit, sessionVars, bufferVars, retryVars,
      workerVars, consumerVars
<1>2. /\ rpc[b] = "exit"
      /\ retrying' = [retrying EXCEPT ![b] = FALSE]
      /\ outputClosed' = [outputClosed EXCEPT ![b] = @ \/ done[b]]
      /\ rpc' = [rpc EXCEPT ![b] = "off"]
  BY DEF RetryLeave, RetryExit, RetryMayClose
<1>10. SyncTypeOK'
  BY <1>1, <1>2 DEF IInv, TypeOK, SyncTypeOK
<1>11. DataTypeOK'
  BY <1>1 DEF IInv, TypeOK, DataTypeOK
<1>12. SessionTypeOK'
  BY <1>1 DEF IInv, TypeOK, SessionTypeOK
<1>13. LockInv'
  BY <1>1, <1>2 DEF IInv, TypeOK, SyncTypeOK, LockInv, SingleSender
<1>14. EndInv'
  BY <1>1, <1>2 DEF IInv, TypeOK, SyncTypeOK, EndInv
<1>15. HeldInv'
  BY <1>1, <1>2 DEF IInv, TypeOK, SyncTypeOK, HeldInv
<1>16. PrefixInv'
  BY <1>1 DEF IInv, PrefixInv
<1>17. CountInv'
  BY <1>1, <1>2 DEF IInv, TypeOK, SyncTypeOK, CountInv, SentCount
<1> QED BY <1>10, <1>11, <1>12, <1>13, <1>14, <1>15, <1>16, <1>17 DEF IInv,
    TypeOK

\* A blocked send is given up only when done is closed.
LEMMA RetryAbandonStep ==
    ASSUME IInv, NEW b \in Buffers, RetryAbandon(b) PROVE IInv'
<1>1. UNCHANGED <<outputClosed, done, retrying, mu, wpc, wbuf, chunks,
    nextSeq, finSeq, output, received, held, wseq, copies, created, current,
    cbuf, rbuf, buffered, uncredited, sawEnd>>
  BY DEF RetryAbandon, sessionVars, bufferVars, retryVars, workerVars,
      consumerVars
<1>2. /\ rpc[b] = "blocked"
      /\ done[b]
      /\ rpc' = [rpc EXCEPT ![b] = "exit"]
  BY DEF RetryAbandon
<1>10. SyncTypeOK'
  BY <1>1, <1>2 DEF IInv, TypeOK, SyncTypeOK
<1>11. DataTypeOK'
  BY <1>1 DEF IInv, TypeOK, DataTypeOK
<1>12. SessionTypeOK'
  BY <1>1 DEF IInv, TypeOK, SessionTypeOK
<1>13. LockInv'
  BY <1>1, <1>2 DEF IInv, TypeOK, SyncTypeOK, LockInv, SingleSender
<1>14. EndInv'
  BY <1>1, <1>2 DEF IInv, TypeOK, SyncTypeOK, EndInv
<1>15. HeldInv'
  BY <1>1, <1>2 DEF IInv, TypeOK, SyncTypeOK, HeldInv
<1>16. PrefixInv'
  BY <1>1 DEF IInv, PrefixInv
<1>17. CountInv'
  BY <1>1, <1>2 DEF IInv, TypeOK, SyncTypeOK, CountInv, SentCount
<1> QED BY <1>10, <1>11, <1>12, <1>13, <1>14, <1>15, <1>16, <1>17 DEF IInv,
    TypeOK

\* The chunk taken out of the lock is the next one.
LEMMA RetryBlockStep ==
    ASSUME IInv, NEW b \in Buffers, RetryBlock(b) PROVE IInv'
<1>1. UNCHANGED <<outputClosed, done, retrying, mu, wpc, wbuf, chunks,
    nextSeq, finSeq, output, received, wseq, copies, created, current, cbuf,
    rbuf, buffered, uncredited, sawEnd>>
  BY DEF RetryBlock, sessionVars, bufferVars, retryVars, workerVars,
      consumerVars
<1>2. /\ rpc[b] = "loop"
      /\ ~done[b]
      /\ nextSeq[b] \in chunks[b]
      /\ held' = [held EXCEPT ![b] = nextSeq[b]]
      /\ rpc' = [rpc EXCEPT ![b] = "blocked"]
  BY DEF RetryBlock
<1>10. SyncTypeOK'
  BY <1>1, <1>2 DEF IInv, TypeOK, SyncTypeOK
<1>11. DataTypeOK'
  BY <1>1, <1>2 DEF IInv, TypeOK, DataTypeOK
<1>12. SessionTypeOK'
  BY <1>1 DEF IInv, TypeOK, SessionTypeOK
<1>13. LockInv'
  BY <1>1, <1>2 DEF IInv, TypeOK, SyncTypeOK, LockInv, SingleSender
<1>14. EndInv'
  BY <1>1, <1>2 DEF IInv, TypeOK, SyncTypeOK, EndInv
<1>15. HeldInv'
  BY <1>1, <1>2 DEF IInv, TypeOK, SyncTypeOK, DataTypeOK, HeldInv
<1>16. PrefixInv'
  BY <1>1 DEF IInv, PrefixInv
<1>17. CountInv'
  BY <1>1, <1>2 DEF IInv, TypeOK, SyncTypeOK, CountInv, SentCount
<1> QED BY <1>10, <1>11, <1>12, <1>13, <1>14, <1>15, <1>16, <1>17 DEF IInv,
    TypeOK

\* The blocked send appends the next chunk; nextSeq follows later.
LEMMA RetryUnblockStep ==
    ASSUME IInv, NEW b \in Buffers, RetryUnblock(b) PROVE IInv'
<1>1. UNCHANGED <<outputClosed, done, retrying, mu, wpc, wbuf, chunks,
    nextSeq, finSeq, received, held, wseq, copies, created, current, cbuf,
    rbuf, buffered, uncredited, sawEnd>>
  BY DEF RetryUnblock, SendChunk, sessionVars, bufferVars, retryVars,
      workerVars, consumerVars
<1>2. /\ rpc[b] = "blocked"
      /\ output' = [output EXCEPT ![b] = Append(@, held[b])]
      /\ rpc' = [rpc EXCEPT ![b] = "sent"]
  BY DEF RetryUnblock, SendChunk
<1>3. /\ held[b] \in Chunks
      /\ SentCount(b) = held[b]
      /\ DataTypeOK /\ PrefixInv
      /\ received' = received
  BY <1>1, <1>2 DEF IInv, TypeOK, DataTypeOK, HeldInv, CountInv
<1>4. /\ PrefixInv'
      /\ output' \in [Buffers -> Seq(Chunks)]
      /\ SentCount(b)' = SentCount(b) + 1
      /\ \A c \in Buffers \ {b} : SentCount(c)' = SentCount(c)
  BY <1>2, <1>3, SendPrefix
<1>10. SyncTypeOK'
  BY <1>1, <1>2 DEF IInv, TypeOK, SyncTypeOK
<1>11. DataTypeOK'
  BY <1>1, <1>4 DEF IInv, TypeOK, DataTypeOK
<1>12. SessionTypeOK'
  BY <1>1 DEF IInv, TypeOK, SessionTypeOK
<1>13. LockInv'
  BY <1>1, <1>2 DEF IInv, TypeOK, SyncTypeOK, LockInv, SingleSender
<1>14. EndInv'
  BY <1>1, <1>2 DEF IInv, TypeOK, SyncTypeOK, EndInv
<1>15. HeldInv'
  BY <1>1, <1>2 DEF IInv, TypeOK, SyncTypeOK, HeldInv
<1>16. PrefixInv'
  BY <1>4
<1>17. CountInv'
  <2>1. SentCount(b) = nextSeq[b]
    BY <1>2 DEF IInv, CountInv
  <2>2. SentCount(b)' = nextSeq'[b] + 1
    BY <1>1, <1>4, <2>1
  <2>3. rpc'[b] = "sent" /\ \A c \in Buffers \ {b} : rpc'[c] = rpc[c]
    BY <1>2 DEF IInv, TypeOK, SyncTypeOK
  <2> QED BY <1>1, <1>4, <2>2, <2>3 DEF IInv, CountInv
<1> QED BY <1>10, <1>11, <1>12, <1>13, <1>14, <1>15, <1>16, <1>17 DEF IInv,
    TypeOK

\* LoadAndDelete only moves the buffer out of the map.
LEMMA RemoveLookupStep == ASSUME IInv, RemoveLookup PROVE IInv'
<1>1. UNCHANGED <<outputClosed, done, retrying, mu, rpc, wpc, wbuf, chunks,
    nextSeq, finSeq, output, received, held, wseq, copies, created, cbuf,
    buffered, uncredited, sawEnd>>
  BY DEF RemoveLookup, sessionVars, bufferVars, retryVars, workerVars,
      consumerVars
<1>2. rbuf' = current /\ current' = 0
  BY DEF RemoveLookup
<1>10. SyncTypeOK'
  BY <1>1 DEF IInv, TypeOK, SyncTypeOK
<1>11. DataTypeOK'
  BY <1>1 DEF IInv, TypeOK, DataTypeOK
<1>12. SessionTypeOK'
  <2>1. created \in Nat
    BY BoundsAssumption DEF IInv, TypeOK, SessionTypeOK, Buffers
  <2> QED BY <1>1, <1>2, <2>1 DEF IInv, TypeOK, SessionTypeOK
<1>13. LockInv'
  BY <1>1 DEF IInv, LockInv, SingleSender
<1>14. EndInv'
  BY <1>1 DEF IInv, EndInv
<1>15. HeldInv'
  BY <1>1 DEF IInv, HeldInv
<1>16. PrefixInv'
  BY <1>1 DEF IInv, PrefixInv
<1>17. CountInv'
  BY <1>1 DEF IInv, CountInv, SentCount
<1> QED BY <1>10, <1>11, <1>12, <1>13, <1>14, <1>15, <1>16, <1>17 DEF IInv,
    TypeOK

\* RemoveSession closes the output itself unless a retry goroutine owns it.
LEMMA RemoveCloseStep == ASSUME IInv, RemoveClose PROVE IInv'
<1>1. UNCHANGED <<retrying, mu, rpc, wpc, wbuf, chunks, nextSeq, finSeq,
    output, received, held, wseq, copies, created, current, cbuf, buffered,
    uncredited, sawEnd>>
  BY DEF RemoveClose, sessionVars, bufferVars, retryVars, workerVars,
      consumerVars
<1>2. /\ rbuf # 0
      /\ mu[rbuf] = Unlocked
      /\ done' = [done EXCEPT ![rbuf] = TRUE]
      /\ outputClosed' = [outputClosed EXCEPT ![rbuf] = @ \/ ~retrying[rbuf]]
      /\ rbuf' = 0
  BY DEF RemoveClose, RemoveMayClose
<1>3. rbuf \in Buffers /\ created \in Nat
  BY <1>2, BoundsAssumption DEF IInv, TypeOK, SessionTypeOK, Buffers
<1>10. SyncTypeOK'
  BY <1>1, <1>2, <1>3 DEF IInv, TypeOK, SyncTypeOK
<1>11. DataTypeOK'
  BY <1>1 DEF IInv, TypeOK, DataTypeOK
<1>12. SessionTypeOK'
  BY <1>1, <1>2, <1>3 DEF IInv, TypeOK, SessionTypeOK
<1>13. LockInv'
  BY <1>1, <1>2, <1>3, WorkersAssumption DEF IInv, TypeOK, SyncTypeOK,
      LockInv, SingleSender
<1>14. EndInv'
  BY <1>1, <1>2, <1>3 DEF IInv, TypeOK, SyncTypeOK, LockInv, SingleSender,
      EndInv
<1>15. HeldInv'
  BY <1>1 DEF IInv, HeldInv
<1>16. PrefixInv'
  BY <1>1 DEF IInv, PrefixInv
<1>17. CountInv'
  BY <1>1, <1>2, <1>3 DEF IInv, TypeOK, SyncTypeOK, CountInv, SentCount
<1> QED BY <1>10, <1>11, <1>12, <1>13, <1>14, <1>15, <1>16, <1>17 DEF IInv,
    TypeOK

\* The consumer remembers an existing buffer.
LEMMA GetOutputStep == ASSUME IInv, GetOutput PROVE IInv'
<1>1. UNCHANGED <<outputClosed, done, retrying, mu, rpc, wpc, wbuf, chunks,
    nextSeq, finSeq, output, received, held, wseq, copies, created, current,
    rbuf, buffered, uncredited, sawEnd>>
  BY DEF GetOutput, sessionVars, bufferVars, retryVars, workerVars,
      consumerVars
<1>2. cbuf' = current
  BY DEF GetOutput
<1>10. SyncTypeOK'
  BY <1>1 DEF IInv, TypeOK, SyncTypeOK
<1>11. DataTypeOK'
  BY <1>1 DEF IInv, TypeOK, DataTypeOK
<1>12. SessionTypeOK'
  BY <1>1, <1>2 DEF IInv, TypeOK, SessionTypeOK
<1>13. LockInv'
  BY <1>1 DEF IInv, LockInv, SingleSender
<1>14. EndInv'
  BY <1>1 DEF IInv, EndInv
<1>15. HeldInv'
  BY <1>1 DEF IInv, HeldInv
<1>16. PrefixInv'
  BY <1>1 DEF IInv, PrefixInv
<1>17. CountInv'
  BY <1>1 DEF IInv, CountInv, SentCount
<1> QED BY <1>10, <1>11, <1>12, <1>13, <1>14, <1>15, <1>16, <1>17 DEF IInv,
    TypeOK

\* Credit changes the window only.
LEMMA OnConsumedStep == ASSUME IInv, OnConsumed PROVE IInv'
<1>1. UNCHANGED <<outputClosed, done, retrying, mu, rpc, wpc, wbuf, chunks,
    nextSeq, finSeq, output, received, held, wseq, copies, created, current,
    cbuf, rbuf, sawEnd>>
  BY DEF OnConsumed, sessionVars, bufferVars, retryVars, workerVars,
      consumerVars
<1>2. /\ uncredited' = 0
      /\ \/ buffered' = buffered
         \/ buffered' = [buffered EXCEPT ![current] = @ - uncredited]
  BY DEF OnConsumed
<1>10. SyncTypeOK'
  BY <1>1 DEF IInv, TypeOK, SyncTypeOK
<1>11. DataTypeOK'
  BY <1>1 DEF IInv, TypeOK, DataTypeOK
<1>12. SessionTypeOK'
  <2>1. buffered' \in [Buffers -> Int]
    BY <1>2, BoundsAssumption DEF IInv, TypeOK, SessionTypeOK
  <2> QED BY <1>1, <1>2, <2>1, BoundsAssumption DEF IInv, TypeOK, SessionTypeOK
<1>13. LockInv'
  BY <1>1 DEF IInv, LockInv, SingleSender
<1>14. EndInv'
  BY <1>1 DEF IInv, EndInv
<1>15. HeldInv'
  BY <1>1 DEF IInv, HeldInv
<1>16. PrefixInv'
  BY <1>1 DEF IInv, PrefixInv
<1>17. CountInv'
  BY <1>1 DEF IInv, CountInv, SentCount
<1> QED BY <1>10, <1>11, <1>12, <1>13, <1>14, <1>15, <1>16, <1>17 DEF IInv,
    TypeOK

\* Seeing the end changes nothing else.
LEMMA SeeEndStep == ASSUME IInv, SeeEnd PROVE IInv'
<1>1. UNCHANGED <<outputClosed, done, retrying, mu, rpc, wpc, wbuf, chunks,
    nextSeq, finSeq, output, received, held, wseq, copies, created, current,
    cbuf, rbuf, buffered, uncredited>>
  BY DEF SeeEnd, sessionVars, bufferVars, retryVars, workerVars, consumerVars
<1>2. sawEnd' = TRUE
  BY DEF SeeEnd
<1>10. SyncTypeOK'
  BY <1>1 DEF IInv, TypeOK, SyncTypeOK
<1>11. DataTypeOK'
  BY <1>1 DEF IInv, TypeOK, DataTypeOK
<1>12. SessionTypeOK'
  BY <1>1, <1>2 DEF IInv, TypeOK, SessionTypeOK
<1>13. LockInv'
  BY <1>1 DEF IInv, LockInv, SingleSender
<1>14. EndInv'
  BY <1>1 DEF IInv, EndInv
<1>15. HeldInv'
  BY <1>1 DEF IInv, HeldInv
<1>16. PrefixInv'
  BY <1>1 DEF IInv, PrefixInv
<1>17. CountInv'
  BY <1>1 DEF IInv, CountInv, SentCount
<1> QED BY <1>10, <1>11, <1>12, <1>13, <1>14, <1>15, <1>16, <1>17 DEF IInv,
    TypeOK

\* Receiving moves the head of the channel to the end of what was received.
LEMMA ConsumeStep ==
    ASSUME IInv,
    Consume PROVE IInv' /\ \A c \in Buffers : SentCount(c)' = SentCount(c)
<1>1. UNCHANGED <<outputClosed, done, retrying, mu, rpc, wpc, wbuf, chunks,
    nextSeq, finSeq, held, wseq, copies, created, current, cbuf, rbuf,
    buffered, sawEnd>>
  BY DEF Consume, sessionVars, bufferVars, retryVars, workerVars, consumerVars
<1>2. /\ cbuf # 0
      /\ uncredited < MaxHeld
      /\ output[cbuf] # << >>
      /\ received' = [received EXCEPT ![cbuf] = Append(@, Head(output[cbuf]))]
      /\ output' = [output EXCEPT ![cbuf] = Tail(@)]
      /\ uncredited' = uncredited + 1
  BY DEF Consume
<1>3. cbuf \in Buffers
  BY <1>2, BoundsAssumption DEF IInv, TypeOK, SessionTypeOK, Buffers
<1>4. output[cbuf] \in Seq(Chunks) /\ received[cbuf] \in Seq(Chunks)
  BY <1>3 DEF IInv, TypeOK, DataTypeOK
<1>5. /\ Tail(output[cbuf]) \in Seq(Chunks)
      /\ Head(output[cbuf]) \in Chunks
      /\ Head(output[cbuf]) = output[cbuf][1]
      /\ Len(output[cbuf]) \in Nat \ {0}
      /\ Len(Tail(output[cbuf])) = Len(output[cbuf]) - 1
      /\ \A i \in 1..Len(Tail(output[cbuf])) :
            Tail(output[cbuf])[i] = output[cbuf][i + 1]
  BY <1>2, <1>4, TailFacts
<1> DEFINE h == Head(output[cbuf])
<1>6. /\ Append(received[cbuf], h) \in Seq(Chunks)
      /\ Len(Append(received[cbuf], h)) = Len(received[cbuf]) + 1
      /\ \A i \in 1..Len(received[cbuf]) :
            Append(received[cbuf], h)[i] = received[cbuf][i]
      /\ Append(received[cbuf], h)[Len(received[cbuf]) + 1] = h
      /\ Len(received[cbuf]) \in Nat
  BY <1>4, <1>5, AppendFacts
<1>7. /\ received' \in [Buffers -> Seq(Chunks)]
      /\ output' \in [Buffers -> Seq(Chunks)]
      /\ received'[cbuf] = Append(received[cbuf], h)
      /\ output'[cbuf] = Tail(output[cbuf])
      /\ \A c \in Buffers \ {cbuf} :
            received'[c] = received[c] /\ output'[c] = output[c]
  BY <1>2, <1>3, <1>5, <1>6 DEF IInv, TypeOK, DataTypeOK
<1>8. h = Len(received[cbuf])
  BY <1>3, <1>5, <1>6 DEF IInv, PrefixInv
<1>9. \A c \in Buffers : SentCount(c)' = SentCount(c)
  <2>1. Len(received'[cbuf]) + Len(output'[cbuf])
           = Len(received[cbuf]) + Len(output[cbuf])
    <3>1. Len(received'[cbuf]) = Len(received[cbuf]) + 1
      BY <1>6, <1>7
    <3>2. Len(output'[cbuf]) = Len(output[cbuf]) - 1
      BY <1>5, <1>7
    <3>3. Len(received[cbuf]) \in Nat /\ Len(output[cbuf]) \in Nat
      BY <1>5, <1>6
    <3>4. (Len(received[cbuf]) + 1) + (Len(output[cbuf]) - 1)
             = Len(received[cbuf]) + Len(output[cbuf])
      BY <3>3, AddOne, Zenon
    <3> QED BY <3>1, <3>2, <3>4, Zenon
  <2>2. \A c \in Buffers \ {cbuf} :
          Len(received'[c]) + Len(output'[c]) = Len(received[c]) + Len(output[c])
    BY <1>7
  <2>3. ASSUME NEW c \in Buffers PROVE SentCount(c)' = SentCount(c)
    <3>1. CASE c = cbuf
      BY <2>1, <3>1 DEF SentCount
    <3>2. CASE c # cbuf
      BY <2>2, <3>2 DEF SentCount
    <3> QED BY <3>1, <3>2
  <2> QED BY <2>3
<1>10. SyncTypeOK'
  BY <1>1 DEF IInv, TypeOK, SyncTypeOK
<1>11. DataTypeOK'
  BY <1>1, <1>7 DEF IInv, TypeOK, DataTypeOK
<1>12. SessionTypeOK'
  BY <1>1, <1>2, BoundsAssumption DEF IInv, TypeOK, SessionTypeOK
<1>13. LockInv'
  BY <1>1 DEF IInv, LockInv, SingleSender
<1>14. EndInv'
  BY <1>1 DEF IInv, EndInv
<1>15. HeldInv'
  BY <1>1 DEF IInv, HeldInv
<1>16. PrefixInv'
  <2>1. ASSUME NEW i \in 1..Len(received'[cbuf])
        PROVE  received'[cbuf][i] = i - 1
    <3>1. CASE i = Len(received[cbuf]) + 1
      BY <3>1, <1>6, <1>7, <1>8
    <3>2. CASE i # Len(received[cbuf]) + 1
      BY <3>2, <1>3, <1>6, <1>7 DEF IInv, PrefixInv
    <3> QED BY <3>1, <3>2
  <2>2. ASSUME NEW i \in 1..Len(output'[cbuf])
        PROVE  output'[cbuf][i] = Len(received'[cbuf]) + i - 1
    <3>1. output[cbuf][i + 1] = Len(received[cbuf]) + (i + 1) - 1
      BY <1>3, <1>5, <1>7 DEF IInv, PrefixInv
    <3> QED BY <3>1, <1>5, <1>6, <1>7
  <2>3. ASSUME NEW c \in Buffers \ {cbuf}
        PROVE  /\ \A i \in 1..Len(received'[c]) : received'[c][i] = i - 1
               /\ \A i \in 1..Len(output'[c]) :
                     output'[c][i] = Len(received'[c]) + i - 1
    BY <1>7 DEF IInv, PrefixInv
  <2> QED BY <2>1, <2>2, <2>3 DEF PrefixInv
<1>17. CountInv'
  BY <1>1, <1>9 DEF IInv, CountInv
<1> QED BY <1>10, <1>11, <1>12, <1>13, <1>14, <1>15, <1>16, <1>17, <1>9
    DEF IInv, TypeOK

\* A worker in the loop sends the next chunk and may end the session.
LEMMA TrySendStep == ASSUME IInv, NEW w \in Workers, TrySend(w) PROVE IInv'
<1>1. UNCHANGED <<retrying, rpc, wbuf, finSeq, received, held, wseq, copies,
    created, current, cbuf, rbuf, uncredited, sawEnd>>
  BY DEF TrySend, TryReturn, SendChunk, Advance, OnBuffered, sessionVars,
      bufferVars, retryVars, workerVars, consumerVars
<1>0. PICK b \in Buffers : b = wbuf[w]
  BY DEF IInv, TypeOK, SyncTypeOK
<1> DEFINE seq == nextSeq[b]
<1>2. /\ wpc[w] = "loop"
      /\ seq \in chunks[b]
      /\ output' = [output EXCEPT ![b] = Append(@, seq)]
      /\ buffered' = [buffered EXCEPT ![b] = @ + 1]
      /\ chunks' = [chunks EXCEPT ![b] = @ \ {seq}]
      /\ nextSeq' = [nextSeq EXCEPT ![b] = @ + 1]
  BY <1>0 DEF TrySend, SendChunk, Advance, OnBuffered
<1>3. b \in Buffers /\ ~done[b] /\ rpc[b] = "off" /\ ~retrying[b] /\ mu[b] = w
  BY <1>0, <1>2 DEF IInv, TypeOK, SyncTypeOK, LockInv, SingleSender
<1>4. /\ seq \in Chunks
      /\ SentCount(b) = seq
      /\ DataTypeOK /\ PrefixInv
      /\ received' = received
  BY <1>1, <1>2, <1>3 DEF IInv, TypeOK, SyncTypeOK, DataTypeOK, CountInv
<1>5. /\ PrefixInv'
      /\ output' \in [Buffers -> Seq(Chunks)]
      /\ SentCount(b)' = SentCount(b) + 1
      /\ \A c \in Buffers \ {b} : SentCount(c)' = SentCount(c)
  BY <1>2, <1>3, <1>4, SendPrefix
<1> HIDE DEF seq
<1>8. finSeq[b] \in {-1, Fin} /\ Fin \in Nat
  BY <1>3, StreamAssumption DEF Fin, IInv, TypeOK, DataTypeOK
<1>9. \/ /\ seq = finSeq[b]
         /\ outputClosed' = [outputClosed EXCEPT ![b] = TRUE]
         /\ done' = [done EXCEPT ![b] = TRUE]
         /\ wpc' = [wpc EXCEPT ![w] = "idle"]
         /\ mu' = [mu EXCEPT ![b] = Unlocked]
      \/ UNCHANGED <<outputClosed, done, wpc, mu>>
  BY <1>0, <1>4, <1>8, StreamAssumption DEF TrySend, TryReturn, Advance,
      Chunks, seq
<1>10. SyncTypeOK'
  BY <1>1, <1>3, <1>9 DEF IInv, TypeOK, SyncTypeOK
<1>11. DataTypeOK'
  <2>1. nextSeq' \in [Buffers -> 0..NumChunks]
    BY <1>2, <1>3, <1>4, StreamAssumption DEF IInv, TypeOK, DataTypeOK,
        Chunks, seq
  <2>2. chunks' \in [Buffers -> SUBSET Chunks]
    BY <1>2, <1>3 DEF IInv, TypeOK, DataTypeOK
  <2> QED BY <1>1, <1>5, <2>1, <2>2 DEF IInv, TypeOK, DataTypeOK
<1>12. SessionTypeOK'
  BY <1>1, <1>2, <1>3 DEF IInv, TypeOK, SessionTypeOK
<1>13. LockInv'
  BY <1>0, <1>1, <1>2, <1>3, <1>9, WorkersAssumption DEF IInv, TypeOK,
      SyncTypeOK, LockInv, SingleSender
<1>14. EndInv'
  BY <1>1, <1>3, <1>9 DEF IInv, TypeOK, SyncTypeOK, EndInv
<1>15. HeldInv'
  BY <1>1, <1>2, <1>3 DEF IInv, TypeOK, DataTypeOK, HeldInv
<1>16. PrefixInv'
  BY <1>5
<1>17. CountInv'
  <2>1. /\ nextSeq \in [Buffers -> 0..NumChunks]
        /\ done \in [Buffers -> BOOLEAN]
        /\ rpc \in [Buffers -> {"off", "loop", "blocked", "sent", "exit"}]
    BY DEF IInv, TypeOK, SyncTypeOK, DataTypeOK
  <2>2. SentCount(b)' = nextSeq'[b]
    BY <1>2, <1>3, <1>4, <1>5, <2>1 DEF seq
  <2>3. \A c \in Buffers \ {b} :
          nextSeq'[c] = nextSeq[c] /\ done'[c] = done[c] /\ rpc'[c] = rpc[c]
    BY <1>1, <1>2, <1>3, <1>9, <2>1
  <2>4. rpc'[b] # "sent"
    BY <1>1, <1>3, <1>9, <2>1
  <2> QED BY <1>1, <1>3, <1>5, <2>2, <2>3, <2>4 DEF IInv, CountInv
<1> QED BY <1>10, <1>11, <1>12, <1>13, <1>14, <1>15, <1>16, <1>17 DEF IInv,
    TypeOK

\* The retry goroutine's send under the lock.
LEMMA RetrySendStep == ASSUME IInv, NEW b \in Buffers, RetrySend(b) PROVE IInv'
<1>1. UNCHANGED <<mu, wpc, wbuf, finSeq, received, held, wseq, copies,
    created, current, cbuf, rbuf, uncredited, sawEnd>>
  BY DEF RetrySend, RetryAdvance, SendChunk, Advance, OnBuffered, sessionVars,
      bufferVars, retryVars, workerVars, consumerVars
<1> DEFINE seq == nextSeq[b]
<1>2. /\ rpc[b] = "loop" /\ mu[b] = Unlocked /\ ~done[b]
      /\ seq \in chunks[b]
      /\ output' = [output EXCEPT ![b] = Append(@, seq)]
      /\ buffered' = [buffered EXCEPT ![b] = @ + 1]
      /\ chunks' = [chunks EXCEPT ![b] = @ \ {seq}]
      /\ nextSeq' = [nextSeq EXCEPT ![b] = @ + 1]
  BY DEF RetrySend, RetryAdvance, SendChunk, Advance, OnBuffered
<1>3. b \in Buffers /\ ~done[b] /\ rpc[b] = "loop"
  BY <1>2
<1>4. /\ seq \in Chunks
      /\ SentCount(b) = seq
      /\ DataTypeOK /\ PrefixInv
      /\ received' = received
  BY <1>1, <1>2, <1>3 DEF IInv, TypeOK, DataTypeOK, CountInv
<1>5. /\ PrefixInv'
      /\ output' \in [Buffers -> Seq(Chunks)]
      /\ SentCount(b)' = SentCount(b) + 1
      /\ \A c \in Buffers \ {b} : SentCount(c)' = SentCount(c)
  BY <1>2, <1>3, <1>4, SendPrefix
<1> HIDE DEF seq
<1>8. finSeq[b] \in {-1, Fin} /\ Fin \in Nat
  BY <1>3, StreamAssumption DEF Fin, IInv, TypeOK, DataTypeOK
<1>9. \/ /\ seq = finSeq[b]
         /\ outputClosed' = [outputClosed EXCEPT ![b] = TRUE]
         /\ done' = [done EXCEPT ![b] = TRUE]
         /\ retrying' = [retrying EXCEPT ![b] = FALSE]
         /\ rpc' = [rpc EXCEPT ![b] = "off"]
      \/ /\ UNCHANGED <<outputClosed, done, retrying>>
         /\ rpc' = [rpc EXCEPT ![b] = "loop"]
  BY <1>4, <1>8, StreamAssumption DEF RetrySend, RetryAdvance, Advance,
      Chunks, seq
<1>10. SyncTypeOK'
  BY <1>1, <1>3, <1>9 DEF IInv, TypeOK, SyncTypeOK
<1>11. DataTypeOK'
  <2>1. nextSeq' \in [Buffers -> 0..NumChunks]
    BY <1>2, <1>3, <1>4, StreamAssumption DEF IInv, TypeOK, DataTypeOK,
        Chunks, seq
  <2>2. chunks' \in [Buffers -> SUBSET Chunks]
    BY <1>2, <1>3 DEF IInv, TypeOK, DataTypeOK
  <2> QED BY <1>1, <1>5, <2>1, <2>2 DEF IInv, TypeOK, DataTypeOK
<1>12. SessionTypeOK'
  BY <1>1, <1>2, <1>3 DEF IInv, TypeOK, SessionTypeOK
<1>13. LockInv'
  BY <1>1, <1>2, <1>3, <1>9, WorkersAssumption DEF IInv, TypeOK, SyncTypeOK,
      LockInv, SingleSender
<1>14. EndInv'
  BY <1>1, <1>3, <1>9 DEF IInv, TypeOK, SyncTypeOK, EndInv
<1>15. HeldInv'
  BY <1>1, <1>2, <1>3, <1>9 DEF IInv, TypeOK, SyncTypeOK, DataTypeOK, HeldInv
<1>16. PrefixInv'
  BY <1>5
<1>17. CountInv'
  <2>1. /\ nextSeq \in [Buffers -> 0..NumChunks]
        /\ done \in [Buffers -> BOOLEAN]
        /\ rpc \in [Buffers -> {"off", "loop", "blocked", "sent", "exit"}]
    BY DEF IInv, TypeOK, SyncTypeOK, DataTypeOK
  <2>2. SentCount(b)' = nextSeq'[b]
    BY <1>2, <1>3, <1>4, <1>5, <2>1 DEF seq
  <2>3. \A c \in Buffers \ {b} :
          nextSeq'[c] = nextSeq[c] /\ done'[c] = done[c] /\ rpc'[c] = rpc[c]
    BY <1>1, <1>2, <1>3, <1>9, <2>1
  <2>4. rpc'[b] # "sent"
    BY <1>1, <1>3, <1>9, <2>1
  <2> QED BY <1>1, <1>3, <1>5, <2>2, <2>3, <2>4 DEF IInv, CountInv
<1> QED BY <1>10, <1>11, <1>12, <1>13, <1>14, <1>15, <1>16, <1>17 DEF IInv,
    TypeOK

\* The accounting that follows the blocking send.
LEMMA RetryAccountStep ==
    ASSUME IInv, NEW b \in Buffers, RetryAccount(b) PROVE IInv'
<1>1. UNCHANGED <<mu, wpc, wbuf, finSeq, output, received, held, wseq, copies,
    created, current, cbuf, rbuf, uncredited, sawEnd>>
  BY DEF RetryAccount, RetryExit, RetryAdvance, Advance, OnBuffered,
      sessionVars, bufferVars, retryVars, workerVars, consumerVars
<1>2. rpc[b] = "sent"
  BY DEF RetryAccount
<1> DEFINE seq == nextSeq[b]
<1>3. held[b] = seq /\ seq \in Chunks
  BY <1>2 DEF IInv, TypeOK, DataTypeOK, HeldInv
<1>8. finSeq[b] \in {-1, Fin} /\ Fin \in Nat
  BY <1>3, StreamAssumption DEF Fin, IInv, TypeOK, DataTypeOK
<1> HIDE DEF seq
<1>7. \/ /\ done[b]
         /\ UNCHANGED <<chunks, nextSeq, done, buffered>>
         /\ outputClosed' = [outputClosed EXCEPT ![b] = TRUE]
         /\ retrying' = [retrying EXCEPT ![b] = FALSE]
         /\ rpc' = [rpc EXCEPT ![b] = "off"]
      \/ /\ ~done[b]
         /\ buffered' = [buffered EXCEPT ![b] = @ + 1]
         /\ chunks' = [chunks EXCEPT ![b] = @ \ {seq}]
         /\ nextSeq' = [nextSeq EXCEPT ![b] = @ + 1]
         /\ \/ /\ outputClosed' = [outputClosed EXCEPT ![b] = TRUE]
               /\ done' = [done EXCEPT ![b] = TRUE]
               /\ retrying' = [retrying EXCEPT ![b] = FALSE]
               /\ rpc' = [rpc EXCEPT ![b] = "off"]
            \/ /\ UNCHANGED <<outputClosed, done, retrying>>
               /\ rpc' = [rpc EXCEPT ![b] = "loop"]
  <2>1. CASE done[b]
    BY <2>1 DEF RetryAccount, RetryExit, RetryMayClose, IInv, TypeOK,
        SyncTypeOK
  <2>2. CASE ~done[b]
    BY <2>2, <1>3, <1>8 DEF RetryAccount, RetryAdvance, Advance, OnBuffered,
        Chunks
  <2> QED BY <2>1, <2>2
<1>10. SyncTypeOK'
  BY <1>1, <1>7 DEF IInv, TypeOK, SyncTypeOK
<1>11. DataTypeOK'
  <2>0. nextSeq \in [Buffers -> 0..NumChunks]
    BY DEF IInv, TypeOK, DataTypeOK
  <2>1. nextSeq' \in [Buffers -> 0..NumChunks]
    BY <1>7, <1>3, <2>0, StreamAssumption DEF Chunks, seq
  <2>2. chunks' \in [Buffers -> SUBSET Chunks]
    BY <1>7 DEF IInv, TypeOK, DataTypeOK
  <2> QED BY <1>1, <2>1, <2>2 DEF IInv, TypeOK, DataTypeOK
<1>12. SessionTypeOK'
  BY <1>1, <1>7 DEF IInv, TypeOK, SessionTypeOK
<1>13. LockInv'
  BY <1>1, <1>2, <1>7, WorkersAssumption DEF IInv, TypeOK, SyncTypeOK,
      LockInv, SingleSender
<1>14. EndInv'
  BY <1>1, <1>2, <1>7 DEF IInv, TypeOK, SyncTypeOK, EndInv
<1>15. HeldInv'
  BY <1>1, <1>7 DEF IInv, TypeOK, SyncTypeOK, DataTypeOK, HeldInv
<1>16. PrefixInv'
  BY <1>1 DEF IInv, PrefixInv
<1>17. CountInv'
  <2>1. nextSeq \in [Buffers -> 0..NumChunks]
    BY DEF IInv, TypeOK, DataTypeOK
  <2>2. ~done[b] => SentCount(b) = nextSeq'[b]
    BY <1>2, <1>7, <2>1 DEF IInv, CountInv
  <2>0. /\ nextSeq \in [Buffers -> 0..NumChunks]
        /\ done \in [Buffers -> BOOLEAN]
        /\ rpc \in [Buffers -> {"off", "loop", "blocked", "sent", "exit"}]
    BY DEF IInv, TypeOK, SyncTypeOK, DataTypeOK
  <2>3. \A c \in Buffers \ {b} :
          nextSeq'[c] = nextSeq[c] /\ done'[c] = done[c] /\ rpc'[c] = rpc[c]
    BY <1>7, <2>0
  <2>4. rpc'[b] \in {"off", "loop"} /\ (done[b] => done'[b])
    BY <1>7 DEF IInv, TypeOK, SyncTypeOK
  <2>5. \A c \in Buffers : SentCount(c)' = SentCount(c)
    BY <1>1 DEF SentCount
  <2> QED BY <2>2, <2>3, <2>4, <2>5 DEF IInv, CountInv
<1> QED BY <1>10, <1>11, <1>12, <1>13, <1>14, <1>15, <1>16, <1>17 DEF IInv,
    TypeOK
----------------------------------------------------------------------------
\* Every step of the system preserves the invariant.
LEMMA NextIInv == IInv /\ [Next]_vars => IInv'
<1> SUFFICES ASSUME IInv, [Next]_vars PROVE IInv'
  OBVIOUS
<1>1. CASE UNCHANGED vars
  <2>1. SyncTypeOK'
    BY <1>1 DEF vars, IInv, TypeOK, SyncTypeOK
  <2>2. DataTypeOK'
    BY <1>1 DEF vars, IInv, TypeOK, DataTypeOK
  <2>3. SessionTypeOK'
    BY <1>1 DEF vars, IInv, TypeOK, SessionTypeOK
  <2>4. LockInv' /\ EndInv' /\ HeldInv'
    BY <1>1 DEF vars, IInv, LockInv, SingleSender, EndInv, HeldInv
  <2>5. PrefixInv' /\ CountInv'
    BY <1>1 DEF vars, IInv, PrefixInv, CountInv, SentCount
  <2> QED BY <2>1, <2>2, <2>3, <2>4, <2>5 DEF IInv, TypeOK
<1>2. ASSUME NEW w \in Workers, NEW s \in Chunks, Receive(w, s) PROVE IInv'
  BY <1>2, ReceiveStep
<1>3. ASSUME NEW w \in Workers, Worker(w) PROVE IInv'
  BY <1>3, StoreChunkStep, TryBeginStep, TryStopStep, TrySendStep,
     TryHandOverStep DEF Worker
<1>4. ASSUME NEW b \in Buffers, Retry(b) PROVE IInv'
  BY <1>4, RetryGiveUpStep, RetrySendStep, RetryBlockStep, RetryUnblockStep,
     RetryAbandonStep, RetryAccountStep, RetryLeaveStep DEF Retry
<1>5. CASE Consumer
  BY <1>5, GetOutputStep, ConsumeStep, OnConsumedStep, SeeEndStep DEF Consumer
<1>6. CASE RemoveLookup
  BY <1>6, RemoveLookupStep
<1>7. CASE RemoveClose
  BY <1>7, RemoveCloseStep
<1> QED BY <1>1, <1>2, <1>3, <1>4, <1>5, <1>6, <1>7 DEF Next

\* The inductive invariant holds in every reachable state.
THEOREM Invariance == Spec => []IInv
  BY InitIInv, NextIInv, PTL DEF Spec

\* Every variable keeps its type: in particular nextSeq never points further
\* than one past FIN and finSeq is never anything but the number of FIN.
THEOREM TypeCorrect == Spec => []TypeOK
<1>1. IInv => TypeOK
  BY DEF IInv
<1> QED BY <1>1, Invariance, PTL

\* The hand-over between tryReassemble and retryReassemble leaves the channel
\* with one sender at a time.
THEOREM OneSender == Spec => []SingleSender
<1>1. IInv => SingleSender
  BY DEF IInv, LockInv
<1> QED BY <1>1, Invariance, PTL

\* A session that has ended is closed, or will be by its retry goroutine.
THEOREM EndClosesOutput == Spec => []EndedIsClosed
<1>1. IInv => EndedIsClosed
  BY DEF IInv, EndInv, EndedIsClosed
<1> QED BY <1>1, Invariance, PTL

\* Concatenation adds the lengths and keeps the elements in place.
LEMMA ConcatFacts ==
    ASSUME NEW S, NEW p \in Seq(S), NEW q \in Seq(S)
    PROVE  /\ Len(p \o q) = Len(p) + Len(q)
           /\ Len(p) \in Nat /\ Len(q) \in Nat
           /\ \A i \in 1..Len(p) : (p \o q)[i] = p[i]
           /\ \A i \in (Len(p) + 1)..(Len(p) + Len(q)) :
                 (p \o q)[i] = q[i - Len(p)]
  OBVIOUS

\* What was received from an output channel, followed by what it still holds,
\* is a prefix of the stream: the heart of the reassembler.
THEOREM Ordered == Spec => []InOrder
<1>1. ASSUME IInv, NEW b \in Buffers, NEW i \in 1..Len(SentTo(b))
      PROVE  SentTo(b)[i] = i - 1
  <2> DEFINE r == received[b]
             o == output[b]
  <2>1. r \in Seq(Chunks) /\ o \in Seq(Chunks)
    BY <1>1 DEF IInv, TypeOK, DataTypeOK
  <2>2. /\ \A j \in 1..Len(r) : r[j] = j - 1
        /\ \A j \in 1..Len(o) : o[j] = Len(r) + j - 1
    BY <1>1 DEF IInv, PrefixInv
  <2> HIDE DEF r, o
  <2>3. /\ Len(r \o o) = Len(r) + Len(o)
        /\ Len(r) \in Nat /\ Len(o) \in Nat
        /\ \A j \in 1..Len(r) : (r \o o)[j] = r[j]
        /\ \A j \in (Len(r) + 1)..(Len(r) + Len(o)) :
              (r \o o)[j] = o[j - Len(r)]
    BY <2>1, ConcatFacts
  <2>4. SentTo(b) = r \o o /\ i \in 1..Len(r \o o)
    BY <1>1 DEF SentTo, r, o
  <2>5. CASE i \in 1..Len(r)
    BY <2>2, <2>3, <2>4, <2>5
  <2>6. CASE i \notin 1..Len(r)
    <3>1. i \in (Len(r) + 1)..(Len(r) + Len(o)) /\ i - Len(r) \in 1..Len(o)
      BY <2>3, <2>4, <2>6
    <3>2. (r \o o)[i] = o[i - Len(r)]
      BY <2>3, <3>1
    <3>3. o[i - Len(r)] = Len(r) + (i - Len(r)) - 1
      BY <2>2, <3>1
    <3>4. Len(r) + (i - Len(r)) - 1 = i - 1
      BY <2>3, <3>1
    <3> QED BY <2>4, <3>2, <3>3, <3>4
  <2> QED BY <2>5, <2>6
<1>2. IInv => InOrder
  BY <1>1 DEF InOrder
<1> QED BY <1>2, Invariance, PTL


\* What was sent on a buffer grows only while its output is open, and the
\* output is not closed while a send on it blocks.
LEMMA SendStep ==
    ASSUME IInv, IInv', Next, NEW b \in Buffers
    PROVE  /\ SentCount(b)' = SentCount(b) \/ ~outputClosed[b]
           /\ rpc[b] = "blocked" => rpc'[b] # "off"
<1> USE DEF Next, Worker, Retry, Consumer
<1>1. SentCount(b)' = SentCount(b) \/ ~outputClosed[b]
  <2>0. /\ output \in [Buffers -> Seq(Chunks)]
        /\ wbuf \in [Workers -> Buffers]
    BY DEF IInv, TypeOK, SyncTypeOK, DataTypeOK
  <2>1. CASE output' = output /\ received' = received
    BY <2>1 DEF SentCount
  <2>2. CASE Consume
    BY <2>2, ConsumeStep
  <2>3. ASSUME NEW w \in Workers, TrySend(w)
        PROVE  SentCount(b)' = SentCount(b) \/ ~outputClosed[b]
    <3>1. CASE b = wbuf[w]
      BY <2>3, <3>1 DEF TrySend, IInv, LockInv, EndInv
    <3>2. CASE b # wbuf[w]
      <4>1. output'[b] = output[b] /\ received' = received
        BY <2>0, <2>3, <3>2 DEF TrySend, SendChunk, consumerVars
      <4> QED BY <4>1 DEF SentCount
    <3> QED BY <3>1, <3>2
  <2>4. ASSUME NEW c \in Buffers, RetrySend(c) \/ RetryUnblock(c)
        PROVE  SentCount(b)' = SentCount(b) \/ ~outputClosed[b]
    <3>1. CASE b = c
      BY <2>4, <3>1 DEF RetrySend, RetryUnblock, IInv, EndInv
    <3>2. CASE b # c
      <4>1. output'[b] = output[b] /\ received' = received
        BY <2>0, <2>4, <3>2 DEF RetrySend, RetryUnblock, SendChunk,
            consumerVars
      <4> QED BY <4>1 DEF SentCount
    <3> QED BY <3>1, <3>2
  <2>5. ASSUME NEW w \in Workers,
               \/ \E s \in Chunks : Receive(w, s)
               \/ StoreChunk(w) \/ TryBegin(w) \/ TryStop(w) \/ TryHandOver(w)
        PROVE  output' = output /\ received' = received
    BY <2>5 DEF Receive, StoreChunk, TryBegin, TryStop, TryHandOver,
                bufferVars, consumerVars
  <2>6. ASSUME NEW c \in Buffers,
               \/ RetryGiveUp(c) \/ RetryBlock(c) \/ RetryAbandon(c)
               \/ RetryAccount(c) \/ RetryLeave(c)
        PROVE  output' = output /\ received' = received
    BY <2>6 DEF RetryGiveUp, RetryBlock, RetryAbandon, RetryAccount,
                RetryLeave, bufferVars, consumerVars
  <2>7. CASE GetOutput \/ OnConsumed \/ SeeEnd \/ RemoveLookup \/ RemoveClose
    BY <2>7, <2>1 DEF GetOutput, OnConsumed, SeeEnd, RemoveLookup, RemoveClose,
                bufferVars, consumerVars
  <2> QED BY <2>1, <2>2, <2>3, <2>4, <2>5, <2>6, <2>7
<1>2. rpc[b] = "blocked" => rpc'[b] # "off"
  <2> SUFFICES ASSUME rpc[b] = "blocked" PROVE rpc'[b] # "off"
    OBVIOUS
  <2>0. rpc \in [Buffers -> {"off", "loop", "blocked", "sent", "exit"}]
    BY DEF IInv, TypeOK, SyncTypeOK
  <2>1. CASE rpc' = rpc
    BY <2>1
  <2>2. ASSUME NEW w \in Workers, TryHandOver(w) PROVE rpc'[b] # "off"
    BY <2>0, <2>2 DEF TryHandOver
  <2>3. ASSUME NEW c \in Buffers, Retry(c) PROVE rpc'[b] # "off"
    BY <2>0, <2>3 DEF RetryGiveUp, RetrySend, RetryAdvance, RetryExit,
        RetryBlock,
       RetryUnblock, RetryAbandon, RetryAccount, RetryLeave
  <2>4. ASSUME NEW w \in Workers,
               \/ \E s \in Chunks : Receive(w, s)
               \/ StoreChunk(w) \/ TryBegin(w) \/ TryStop(w) \/ TrySend(w)
        PROVE  rpc' = rpc
    BY <2>4 DEF Receive, StoreChunk, TryBegin, TryStop, TrySend, retryVars
  <2>5. CASE Consumer \/ RemoveLookup \/ RemoveClose
    BY <2>1, <2>5 DEF GetOutput, Consume, OnConsumed, SeeEnd, RemoveLookup,
       RemoveClose, retryVars
  <2> QED BY <2>1, <2>2, <2>3, <2>4, <2>5
<1> QED BY <1>1, <1>2

\* Nobody ever sends on a closed channel, and no channel is closed under a
\* blocked sender: neither panic can happen.
THEOREM NeverSendsOnClosed == Spec => NoSendOnClosed
<1> DEFINE Safe ==
        \A b \in Buffers :
            /\ Len(SentTo(b)') > Len(SentTo(b)) => ~outputClosed[b]
            /\ rpc[b] = "blocked" => ~outputClosed'[b]
<1>1. ASSUME IInv, IInv', Next PROVE Safe
  <2> SUFFICES ASSUME NEW b \in Buffers
               PROVE  /\ Len(SentTo(b)') > Len(SentTo(b)) => ~outputClosed[b]
                      /\ rpc[b] = "blocked" => ~outputClosed'[b]
    OBVIOUS
  <2>1. /\ received[b] \in Seq(Chunks) /\ output[b] \in Seq(Chunks)
        /\ received'[b] \in Seq(Chunks) /\ output'[b] \in Seq(Chunks)
    BY <1>1 DEF IInv, TypeOK, DataTypeOK
  <2>2. Len(received[b] \o output[b]) = Len(received[b]) + Len(output[b])
    BY <2>1, ConcatFacts
  <2>3. Len(received'[b] \o output'[b]) = Len(received'[b]) + Len(output'[b])
    BY <2>1, ConcatFacts
  <2>4. Len(SentTo(b)) = SentCount(b) /\ Len(SentTo(b)') = SentCount(b)'
    BY <2>2, <2>3 DEF SentTo, SentCount
  <2>5. SentCount(b) \in Nat
    BY <1>1, SentCountNat DEF IInv, TypeOK
  <2>6. SentCount(b)' = SentCount(b) \/ ~outputClosed[b]
    BY <1>1, SendStep
  <2>7. Len(SentTo(b)') > Len(SentTo(b)) => ~outputClosed[b]
    BY <2>4, <2>5, <2>6
  <2>8. rpc[b] = "blocked" => ~outputClosed'[b]
    BY <1>1, SendStep DEF IInv, EndInv
  <2> QED BY <2>7, <2>8
<1>2. UNCHANGED vars /\ IInv => Safe
  <2> SUFFICES ASSUME UNCHANGED vars, IInv, NEW b \in Buffers
               PROVE  /\ Len(SentTo(b)') > Len(SentTo(b)) => ~outputClosed[b]
                      /\ rpc[b] = "blocked" => ~outputClosed'[b]
    OBVIOUS
  <2>1. rpc[b] = "blocked" => ~outputClosed'[b]
    BY DEF vars, IInv, EndInv
  <2>2. SentTo(b)' = SentTo(b)
    BY DEF vars, SentTo
  <2>3. SentTo(b) \in Seq(Chunks)
    BY DEF SentTo, IInv, TypeOK, DataTypeOK
  <2>4. Len(SentTo(b)) \in Nat
    BY <2>3
  <2> QED BY <2>1, <2>2, <2>4
<1>3. IInv /\ IInv' /\ [Next]_vars => [Safe]_vars
  BY <1>1, <1>2
<1> QED BY <1>3, Invariance, PTL DEF Spec, NoSendOnClosed

----------------------------------------------------------------------------
\* What b holds and what is known of it, apart from what was received from it.
Contents(b) == <<chunks[b], output[b], done[b], outputClosed[b], buffered[b],
                 rpc[b], nextSeq[b]>>

\* A worker disturbs its own buffer and itself, and nothing else.
LEMMA WorkerFrame ==
    ASSUME TypeOK, NEW w \in Workers, Worker(w)
    PROVE  /\ UNCHANGED <<current, created, rbuf, wbuf, cbuf, received,
                          uncredited, sawEnd>>
           /\ wpc[w] # "idle"
           /\ \A v \in Workers \ {w} : wpc'[v] = wpc[v]
           /\ \A b \in Buffers \ {wbuf[w]} : Contents(b)' = Contents(b)
<1>0. /\ wbuf[w] \in Buffers
      /\ outputClosed \in [Buffers -> BOOLEAN]
      /\ done \in [Buffers -> BOOLEAN]
      /\ rpc \in [Buffers -> {"off", "loop", "blocked", "sent", "exit"}]
      /\ wpc \in [Workers -> {"idle", "store", "try", "loop"}]
      /\ chunks \in [Buffers -> SUBSET Chunks]
      /\ nextSeq \in [Buffers -> 0..NumChunks]
      /\ output \in [Buffers -> Seq(Chunks)]
      /\ buffered \in [Buffers -> Int]
  BY DEF TypeOK, SyncTypeOK, DataTypeOK, SessionTypeOK
<1> USE <1>0 DEF Contents, sessionVars, bufferVars, retryVars, workerVars,
                 consumerVars
<1>1. CASE StoreChunk(w) \/ TryBegin(w)
  BY <1>1 DEF StoreChunk, TryBegin
<1>2. CASE TryStop(w) \/ TryHandOver(w)
  BY <1>2 DEF TryStop, TryHandOver, TryReturn
<1>3. CASE TrySend(w)
  BY <1>3 DEF TrySend, TryReturn, SendChunk, Advance, OnBuffered
<1> QED BY <1>1, <1>2, <1>3 DEF Worker

\* So does the retry goroutine of a buffer.
LEMMA RetryFrame ==
    ASSUME TypeOK, NEW c \in Buffers, Retry(c)
    PROVE  /\ UNCHANGED <<current, created, rbuf, wpc, wbuf, cbuf, received,
                          uncredited, sawEnd>>
           /\ rpc[c] # "off"
           /\ \A b \in Buffers \ {c} : Contents(b)' = Contents(b)
<1>0. /\ outputClosed \in [Buffers -> BOOLEAN]
      /\ done \in [Buffers -> BOOLEAN]
      /\ rpc \in [Buffers -> {"off", "loop", "blocked", "sent", "exit"}]
      /\ chunks \in [Buffers -> SUBSET Chunks]
      /\ nextSeq \in [Buffers -> 0..NumChunks]
      /\ output \in [Buffers -> Seq(Chunks)]
      /\ buffered \in [Buffers -> Int]
  BY DEF TypeOK, SyncTypeOK, DataTypeOK, SessionTypeOK
<1> USE <1>0 DEF Contents, sessionVars, bufferVars, retryVars, workerVars,
                 consumerVars
<1>1. CASE RetryGiveUp(c) \/ RetryLeave(c)
  BY <1>1 DEF RetryGiveUp, RetryLeave, RetryExit
<1>2. CASE RetrySend(c)
  BY <1>2 DEF RetrySend, SendChunk, RetryAdvance, Advance, OnBuffered
<1>3. CASE RetryBlock(c) \/ RetryUnblock(c) \/ RetryAbandon(c)
  BY <1>3 DEF RetryBlock, RetryUnblock, RetryAbandon, SendChunk
<1>4. CASE RetryAccount(c)
  BY <1>4 DEF RetryAccount, RetryExit, RetryAdvance, Advance, OnBuffered
<1> QED BY <1>1, <1>2, <1>3, <1>4 DEF Retry

\* A frame that arrives disturbs an idle worker and perhaps the sessions map,
\* where a buffer nobody has used before takes the ID.
LEMMA ReceiveFrame ==
    ASSUME TypeOK, NEW w \in Workers, NEW s \in Chunks, Receive(w, s)
    PROVE  /\ UNCHANGED <<rbuf, cbuf, received, uncredited, sawEnd>>
           /\ wpc[w] = "idle"
           /\ wpc' = [wpc EXCEPT ![w] = "store"]
           /\ wbuf'[w] = current' /\ current' \in 1..created'
           /\ \A v \in Workers \ {w} : wbuf'[v] = wbuf[v]
           /\ \A b \in Buffers : Contents(b)' = Contents(b)
           /\ \/ UNCHANGED <<current, created>>
              \/ current = 0 /\ created' = created + 1 /\ current' = created'
<1>0. wbuf \in [Workers -> Buffers] /\ created \in Nat /\ current \in 0..created
  BY BoundsAssumption DEF TypeOK, SyncTypeOK, SessionTypeOK, Buffers
<1>1. PICK b \in Buffers : LoadOrStore(b) /\ wbuf' = [wbuf EXCEPT ![w] = b]
  BY DEF Receive
<1>2. /\ b = current' /\ current' \in 1..created'
      /\ \/ UNCHANGED <<current, created>>
         \/ current = 0 /\ created' = created + 1 /\ current' = created'
  BY <1>0, <1>1 DEF LoadOrStore, sessionVars
<1> QED BY <1>0, <1>1, <1>2 DEF Receive, Contents, bufferVars, retryVars,
          consumerVars

\* A buffer that was never stored under the ID is untouched, and nobody works
\* on it.
FreshInv ==
    /\ \A w \in Workers : wpc[w] # "idle" => wbuf[w] <= created
    /\ \A b \in Buffers :
          b > created =>
              /\ rpc[b] = "off" /\ ~done[b] /\ chunks[b] = {}
              /\ output[b] = << >> /\ buffered[b] = 0

\* Of the buffers stored so far all but the current one and the one
\* RemoveSession is about to close have ended.
RemovalInv ==
    /\ rbuf # 0 => rbuf # current
    /\ \A b \in Buffers :
          b <= created => b = current \/ b = rbuf \/ done[b]

\* The current buffer ends in one way only: FIN, and everything before it, was
\* sent on its output.
WholeInv ==
    \A b \in Buffers :
        b = current /\ done[b] => rpc[b] = "off" /\ SentCount(b) = NumChunks

\* Only the reader's buffer is ever read from, and the reader that has seen the
\* end of it has drained it.
ReaderInv ==
    /\ \A b \in Buffers : b # cbuf => received[b] = << >>
    /\ cbuf = 0 => uncredited = 0
    /\ sawEnd => cbuf # 0 /\ output[cbuf] = << >> /\ outputClosed[cbuf]

SessionInv == FreshInv /\ RemovalInv /\ WholeInv /\ ReaderInv

\* What the reader of b still owes the flow controller.
Owed(b) == IF b = cbuf THEN uncredited ELSE 0

\* The flow controller of the current buffer never counts more than what the
\* channel holds and the reader has not reported; between the blocking send and
\* the lock that follows it, one less.
CreditInv ==
    /\ \A b \in Buffers : Len(output[b]) <= Capacity
    /\ \A b \in Buffers :
          b = current =>
              /\ buffered[b] <= Len(output[b]) + Owed(b)
              /\ rpc[b] = "sent" => buffered[b] < Len(output[b]) + Owed(b)

\* Only Receive lets anybody work on a buffer, and it is then stored.
LEMMA FreshStep == ASSUME TypeOK, FreshInv, Next PROVE FreshInv'
<1>0. /\ created \in Nat /\ current \in 0..created /\ rbuf \in 0..created
      /\ cbuf \in 0..created
      /\ wbuf \in [Workers -> Buffers]
      /\ wpc \in [Workers -> {"idle", "store", "try", "loop"}]
  BY BoundsAssumption DEF TypeOK, SyncTypeOK, SessionTypeOK, Buffers
<1>1. ASSUME NEW w \in Workers, NEW s \in Chunks, Receive(w, s) PROVE FreshInv'
  <2>1. created' \in Nat /\ created <= created' /\ current' <= created'
    BY <1>0, <1>1, ReceiveFrame
  <2>2. \A v \in Workers : wpc'[v] # "idle" => wbuf'[v] <= created'
    <3> SUFFICES ASSUME NEW v \in Workers, wpc'[v] # "idle"
                 PROVE  wbuf'[v] <= created'
      OBVIOUS
    <3>1. CASE v = w
      BY <1>1, <2>1, <3>1, ReceiveFrame
    <3>2. CASE v # w
      <4>1. wbuf'[v] = wbuf[v] /\ wbuf[v] <= created /\ wbuf[v] \in Nat
        BY <1>0, <1>1, <3>2, ReceiveFrame DEF FreshInv, Buffers
      <4> QED BY <1>0, <2>1, <4>1
    <3> QED BY <3>1, <3>2
  <2>3. ASSUME NEW b \in Buffers, b > created'
        PROVE  b > created /\ Contents(b)' = Contents(b)
    BY <1>0, <1>1, <2>1, <2>3, ReceiveFrame DEF Buffers
  <2> QED BY <2>2, <2>3 DEF FreshInv, Contents
<1>2. ASSUME NEW w \in Workers, Worker(w) PROVE FreshInv'
  BY <1>0, <1>2, WorkerFrame DEF FreshInv, Contents, Buffers
<1>3. ASSUME NEW c \in Buffers, Retry(c) PROVE FreshInv'
  BY <1>0, <1>3, RetryFrame DEF FreshInv, Contents, Buffers
<1>4. CASE GetOutput \/ SeeEnd \/ RemoveLookup
  BY <1>4 DEF GetOutput, SeeEnd, RemoveLookup, FreshInv, sessionVars,
              bufferVars, retryVars, workerVars
<1>5. CASE Consume
  <2>1. \A b \in Buffers \ {cbuf} : output'[b] = output[b]
    BY <1>5 DEF Consume, TypeOK, DataTypeOK
  <2> QED BY <1>0, <1>5, <2>1 DEF Consume, FreshInv, sessionVars, retryVars,
                                  workerVars, Buffers
<1>6. CASE OnConsumed
  <2>1. \A b \in Buffers \ {current} : buffered'[b] = buffered[b]
    BY <1>6 DEF OnConsumed, TypeOK, SessionTypeOK
  <2> QED BY <1>0, <1>6, <2>1 DEF OnConsumed, FreshInv, sessionVars, retryVars,
                                  workerVars, Buffers
<1>7. CASE RemoveClose
  <2>1. \A b \in Buffers \ {rbuf} : done'[b] = done[b]
    BY <1>7 DEF RemoveClose, TypeOK, SyncTypeOK
  <2> QED BY <1>0, <1>7, <2>1 DEF RemoveClose, FreshInv, sessionVars,
                                  retryVars, workerVars, Buffers
<1> QED BY <1>1, <1>2, <1>3, <1>4, <1>5, <1>6, <1>7 DEF Next, Consumer

\* A buffer that has ended stays ended.
LEMMA DoneStays ==
    ASSUME TypeOK, Next, NEW b \in Buffers, done[b] PROVE done'[b]
<1>0. done \in [Buffers -> BOOLEAN]
  BY DEF TypeOK, SyncTypeOK
<1>1. ASSUME NEW w \in Workers, Worker(w) PROVE done'[b]
  BY <1>0, <1>1 DEF Worker, StoreChunk, TryBegin, TryStop, TrySend,
     TryHandOver, Advance
<1>2. ASSUME NEW c \in Buffers, Retry(c) PROVE done'[b]
  BY <1>0, <1>2 DEF Retry, RetryGiveUp, RetrySend, RetryBlock, RetryUnblock,
     RetryAbandon, RetryAccount, RetryLeave, RetryAdvance, Advance, bufferVars
<1>3. CASE \/ \E w \in Workers, s \in Chunks : Receive(w, s)
           \/ Consumer \/ RemoveLookup \/ RemoveClose
  BY <1>0, <1>3 DEF Receive, Consumer, GetOutput, Consume, OnConsumed, SeeEnd,
     RemoveLookup, RemoveClose, bufferVars
<1> QED BY <1>1, <1>2, <1>3 DEF Next

\* RemoveSession closes the buffer it took out before it takes another.
LEMMA RemovalStep == ASSUME TypeOK, RemovalInv, Next PROVE RemovalInv'
<1>0. /\ created \in Nat /\ current \in 0..created /\ rbuf \in 0..created
      /\ done \in [Buffers -> BOOLEAN]
  BY BoundsAssumption DEF TypeOK, SyncTypeOK, SessionTypeOK, Buffers
<1>d. \A b \in Buffers : done[b] => done'[b]
  BY DoneStays
<1>1. ASSUME NEW w \in Workers, NEW s \in Chunks, Receive(w, s)
      PROVE  RemovalInv'
  BY <1>0, <1>d, <1>1, ReceiveFrame DEF RemovalInv, Buffers
<1>2. CASE UNCHANGED <<created, current, rbuf>>
  BY <1>d, <1>2 DEF RemovalInv
<1>3. CASE \/ \E w \in Workers : Worker(w)
           \/ \E c \in Buffers : Retry(c)
           \/ Consumer
  BY <1>2, <1>3, WorkerFrame, RetryFrame DEF Consumer, GetOutput, Consume,
     OnConsumed, SeeEnd, sessionVars
<1>4. CASE RemoveLookup
  BY <1>0, <1>d, <1>4 DEF RemoveLookup, RemovalInv
<1>5. CASE RemoveClose
  BY <1>0, <1>d, <1>5 DEF RemoveClose, RemovalInv, sessionVars
<1> QED BY <1>1, <1>3, <1>4, <1>5 DEF Next

\* A sender that ends the session has just sent FIN, and all before it.
LEMMA FinIsLast ==
    ASSUME IInv, NEW b \in Buffers, ~done[b], done'[b],
           \/ \E w \in Workers : Worker(w)
           \/ \E c \in Buffers : Retry(c)
    PROVE  rpc'[b] = "off" /\ SentCount(b)' = NumChunks
<1>0. /\ done \in [Buffers -> BOOLEAN]
      /\ rpc \in [Buffers -> {"off", "loop", "blocked", "sent", "exit"}]
      /\ wbuf \in [Workers -> Buffers]
      /\ finSeq[b] \in {-1, Fin} /\ Fin \in Nat /\ Fin + 1 = NumChunks
      /\ chunks[b] \subseteq Nat
      /\ DataTypeOK /\ PrefixInv
  BY StreamAssumption DEF IInv, TypeOK, SyncTypeOK, DataTypeOK, Fin, Chunks
<1>1. ASSUME NEW w \in Workers, Worker(w)
      PROVE  rpc'[b] = "off" /\ SentCount(b)' = NumChunks
  <2>1. TrySend(w) /\ b = wbuf[w]
    BY <1>0, <1>1 DEF Worker, StoreChunk, TryBegin, TryStop, TrySend,
       TryHandOver, Advance
  <2>2. /\ nextSeq[b] \in chunks[b]
        /\ nextSeq[b] = finSeq[b]
        /\ output' = [output EXCEPT ![b] = Append(@, nextSeq[b])]
        /\ received' = received /\ rpc' = rpc
    BY <1>0, <2>1 DEF TrySend, Advance, SendChunk, retryVars, consumerVars
  <2>3. rpc[b] = "off"
    BY <2>1 DEF TrySend, IInv, LockInv, SingleSender
  <2>4. SentCount(b) = nextSeq[b] /\ nextSeq[b] \in Chunks
    BY <2>2, <2>3 DEF IInv, TypeOK, DataTypeOK, CountInv
  <2>5. SentCount(b)' = SentCount(b) + 1
    BY <1>0, <2>2, <2>4, SendPrefix
  <2> QED BY <1>0, <2>2, <2>3, <2>4, <2>5
<1>2. ASSUME NEW c \in Buffers, Retry(c)
      PROVE  rpc'[b] = "off" /\ SentCount(b)' = NumChunks
  <2>1. b = c /\ (RetrySend(b) \/ RetryAccount(b))
    BY <1>0, <1>2 DEF Retry, RetryGiveUp, RetrySend, RetryBlock, RetryUnblock,
       RetryAbandon, RetryAccount, RetryLeave, RetryAdvance, Advance,
       bufferVars
  <2>2. CASE RetrySend(b)
    <3>1. /\ nextSeq[b] \in chunks[b]
          /\ nextSeq[b] = finSeq[b]
          /\ output' = [output EXCEPT ![b] = Append(@, nextSeq[b])]
          /\ received' = received
          /\ rpc' = [rpc EXCEPT ![b] = "off"]
      BY <1>0, <2>2 DEF RetrySend, RetryAdvance, Advance, SendChunk,
         consumerVars
    <3>2. SentCount(b) = nextSeq[b] /\ nextSeq[b] \in Chunks
      BY <2>2, <3>1 DEF RetrySend, IInv, TypeOK, DataTypeOK, CountInv
    <3>3. SentCount(b)' = SentCount(b) + 1
      BY <1>0, <3>1, <3>2, SendPrefix
    <3> QED BY <1>0, <3>1, <3>2, <3>3
  <2>3. CASE RetryAccount(b)
    <3>1. held[b] = nextSeq[b] /\ SentCount(b) = nextSeq[b] + 1
      BY <2>3 DEF RetryAccount, IInv, HeldInv, CountInv
    <3>2. /\ held[b] = finSeq[b]
          /\ rpc' = [rpc EXCEPT ![b] = "off"]
          /\ output' = output /\ received' = received
      BY <1>0, <2>3 DEF RetryAccount, RetryAdvance, Advance, consumerVars
    <3>3. held[b] \in Nat
      BY DEF IInv, TypeOK, DataTypeOK, Chunks
    <3>4. SentCount(b)' = SentCount(b)
      BY <3>2 DEF SentCount
    <3>5. held[b] = Fin
      BY <1>0, <3>2, <3>3
    <3>6. rpc'[b] = "off"
      BY <1>0, <3>2
    <3> QED BY <1>0, <3>1, <3>4, <3>5, <3>6
  <2> QED BY <2>1, <2>2, <2>3
<1> QED BY <1>1, <1>2

\* Once the channel of an ended session has been given back, no worker and no
\* retry goroutine touches it.
LEMMA EndedRests ==
    ASSUME IInv, NEW b \in Buffers, done[b], rpc[b] = "off",
           \/ \E w \in Workers : Worker(w)
           \/ \E c \in Buffers : Retry(c)
    PROVE  /\ UNCHANGED <<output[b], outputClosed[b], rpc[b], received>>
           /\ SentCount(b)' = SentCount(b)
<1>0. TypeOK
  BY DEF IInv
<1>1. ASSUME NEW w \in Workers, Worker(w)
      PROVE  UNCHANGED <<output[b], outputClosed[b], rpc[b], received>>
  <2>1. CASE b # wbuf[w]
    BY <1>0, <1>1, <2>1, WorkerFrame DEF Contents
  <2>2. CASE b = wbuf[w]
    <3>1. wpc[w] # "loop"
      BY <2>2 DEF IInv, LockInv
    <3>2. StoreChunk(w) \/ TryBegin(w)
      BY <1>1, <3>1 DEF Worker, TryStop, TrySend, TryHandOver
    <3> QED BY <3>2 DEF StoreChunk, TryBegin, retryVars, consumerVars
  <2> QED BY <2>1, <2>2
<1>2. ASSUME NEW c \in Buffers, Retry(c)
      PROVE  UNCHANGED <<output[b], outputClosed[b], rpc[b], received>>
  BY <1>0, <1>2, RetryFrame DEF Contents
<1>3. UNCHANGED <<output[b], outputClosed[b], rpc[b], received>>
  BY <1>1, <1>2
<1> QED BY <1>3 DEF SentCount

\* FIN is the only end of the current buffer, as RemoveSession takes a buffer
\* out before it ends it.
LEMMA WholeStep ==
    ASSUME IInv, IInv', FreshInv, RemovalInv, WholeInv, Next PROVE WholeInv'
<1> SUFFICES ASSUME NEW b \in Buffers, b = current', done'[b]
             PROVE  rpc'[b] = "off" /\ SentCount(b)' = NumChunks
  BY DEF WholeInv
<1>t. TypeOK
  BY DEF IInv
<1>0. /\ b \in Nat \ {0}
      /\ created \in Nat
      /\ done \in [Buffers -> BOOLEAN]
      /\ TypeOK
  BY <1>t, BoundsAssumption DEF TypeOK, SyncTypeOK, SessionTypeOK, Buffers
<1>1. ASSUME NEW w \in Workers, NEW s \in Chunks, Receive(w, s)
      PROVE  rpc'[b] = "off" /\ SentCount(b)' = NumChunks
  <2>1. Contents(b)' = Contents(b) /\ received' = received
    BY <1>0, <1>1, ReceiveFrame
  <2>2. done[b]
    BY <2>1 DEF Contents
  <2>3. current = b
    <3>1. current' = current \/ b = created + 1
      BY <1>0, <1>1, ReceiveFrame
    <3> QED BY <1>0, <2>2, <3>1 DEF FreshInv
  <2> QED BY <2>1, <2>2, <2>3 DEF WholeInv, Contents, SentCount
<1>2. CASE \/ \E w \in Workers : Worker(w)
           \/ \E c \in Buffers : Retry(c)
  <2>1. current = b
    BY <1>0, <1>2, WorkerFrame, RetryFrame
  <2>2. CASE done[b]
    BY <1>0, <1>2, <2>1, <2>2, EndedRests DEF WholeInv
  <2>3. CASE ~done[b]
    BY <1>0, <1>2, <2>3, FinIsLast
  <2> QED BY <2>2, <2>3
<1>3. CASE GetOutput \/ OnConsumed \/ SeeEnd
  BY <1>3 DEF GetOutput, OnConsumed, SeeEnd, WholeInv, SentCount, sessionVars,
              bufferVars, retryVars
<1>4. CASE Consume
  <2>1. current' = current /\ done' = done /\ rpc' = rpc
    BY <1>4 DEF Consume, sessionVars, retryVars
  <2> QED BY <1>0, <1>4, <2>1, ConsumeStep DEF WholeInv
<1>5. CASE RemoveLookup
  BY <1>0, <1>5 DEF RemoveLookup
<1>6. CASE RemoveClose
  BY <1>0, <1>6 DEF RemoveClose, RemovalInv, WholeInv, SentCount, sessionVars,
                    retryVars, consumerVars
<1> QED BY <1>1, <1>2, <1>3, <1>4, <1>5, <1>6 DEF Next, Consumer

\* Only Consume receives, and only from the reader's buffer, to which nobody
\* sends once it is closed.
LEMMA ReaderStep == ASSUME IInv, IInv', ReaderInv, Next PROVE ReaderInv'
<1>0. /\ TypeOK
      /\ cbuf # 0 => cbuf \in Buffers
      /\ uncredited \in Nat
  BY BoundsAssumption DEF IInv, TypeOK, SessionTypeOK, Buffers
<1>1. ASSUME NEW w \in Workers, NEW s \in Chunks, Receive(w, s)
      PROVE  ReaderInv'
  BY <1>0, <1>1, ReceiveFrame DEF ReaderInv, Contents
<1>2. CASE \/ \E w \in Workers : Worker(w)
           \/ \E c \in Buffers : Retry(c)
  <2>1. UNCHANGED <<cbuf, received, uncredited, sawEnd>>
    BY <1>0, <1>2, WorkerFrame, RetryFrame
  <2>2. sawEnd => output'[cbuf] = output[cbuf] /\ outputClosed'[cbuf]
    <3> SUFFICES ASSUME sawEnd
                 PROVE  output'[cbuf] = output[cbuf] /\ outputClosed'[cbuf]
      OBVIOUS
    <3>1. cbuf \in Buffers /\ outputClosed[cbuf]
      BY <1>0 DEF ReaderInv
    <3>2. done[cbuf] /\ rpc[cbuf] = "off"
      BY <3>1 DEF IInv, EndInv
    <3> QED BY <1>2, <3>1, <3>2, EndedRests
  <2> QED BY <2>1, <2>2 DEF ReaderInv
<1>3. CASE GetOutput
  BY <1>0, <1>3 DEF GetOutput, ReaderInv, Buffers
<1>4. CASE Consume
  <2>1. \A b \in Buffers : b # cbuf => received'[b] = received[b]
    BY <1>4 DEF Consume, IInv, TypeOK, DataTypeOK
  <2> QED BY <1>4, <2>1 DEF Consume, ReaderInv
<1>5. CASE OnConsumed \/ SeeEnd
  BY <1>5 DEF OnConsumed, SeeEnd, ReaderInv, bufferVars
<1>6. CASE RemoveLookup \/ RemoveClose
  BY <1>0, <1>6 DEF RemoveLookup, RemoveClose, ReaderInv, bufferVars,
                    consumerVars, IInv, TypeOK, SyncTypeOK
<1> QED BY <1>1, <1>2, <1>3, <1>4, <1>5, <1>6 DEF Next, Consumer

\* Sending raises both sides, the accounting after a blocking send restores
\* what the send gave, and OnConsumed takes off what the reader took out.
LEMMA CreditStep ==
    ASSUME IInv, FreshInv, ReaderInv, CreditInv, Next PROVE CreditInv'
<1>t. TypeOK
  BY DEF IInv
<1>0. /\ uncredited \in Nat /\ created \in Nat
      /\ cbuf \in 0..created /\ current \in 0..created
      /\ buffered \in [Buffers -> Int]
      /\ output \in [Buffers -> Seq(Chunks)]
      /\ rpc \in [Buffers -> {"off", "loop", "blocked", "sent", "exit"}]
      /\ wbuf \in [Workers -> Buffers]
      /\ nextSeq \in [Buffers -> 0..NumChunks] /\ held \in [Buffers -> Chunks]
      /\ chunks \in [Buffers -> SUBSET Chunks]
      /\ \A b \in Buffers : b \in Nat \ {0}
  BY <1>t, BoundsAssumption DEF TypeOK, SyncTypeOK, DataTypeOK, SessionTypeOK,
     Buffers
<1>l. \A b \in Buffers : Len(output[b]) \in Nat
  BY <1>0
<1>c. Capacity \in Nat \ {0} /\ MaxHeld \in Nat \ {0}
  BY BoundsAssumption
<1>a. ASSUME NEW b \in Buffers, NEW e \in Chunks,
             output' = [output EXCEPT ![b] = Append(@, e)]
      PROVE  /\ Len(output'[b]) = Len(output[b]) + 1
             /\ \A c \in Buffers \ {b} : output'[c] = output[c]
  <2>1. output[b] \in Seq(Chunks) /\ output'[b] = Append(output[b], e)
    BY <1>0, <1>a
  <2> QED BY <1>0, <1>a, <2>1, AppendFacts
<1>1. ASSUME NEW w \in Workers, NEW s \in Chunks, Receive(w, s)
      PROVE  CreditInv'
  <2>1. UNCHANGED <<cbuf, uncredited>>
        /\ \A b \in Buffers : Contents(b)' = Contents(b)
    BY <1>t, <1>1, ReceiveFrame
  <2>2. \A b \in Buffers : Owed(b)' = Owed(b) /\ Owed(b) \in Nat
    BY <1>0, <2>1 DEF Owed
  <2>3. \A b \in Buffers : b > created =>
           buffered[b] = 0 /\ rpc[b] = "off" /\ Len(output[b]) = 0
    BY DEF FreshInv
  <2>4. current' = current \/ current' > created
    BY <1>t, <1>0, <1>1, ReceiveFrame
  <2> QED BY <1>l, <2>1, <2>2, <2>3, <2>4 DEF CreditInv, Contents
<1>2. ASSUME NEW w \in Workers, Worker(w) PROVE CreditInv'
  <2> DEFINE c == wbuf[w]
  <2>1. /\ UNCHANGED <<cbuf, uncredited, current>>
        /\ \A b \in Buffers \ {c} : Contents(b)' = Contents(b)
        /\ c \in Buffers
    BY <1>t, <1>0, <1>2, WorkerFrame
  <2>2. \A b \in Buffers : Owed(b)' = Owed(b) /\ Owed(b) \in Nat
    BY <1>0, <2>1 DEF Owed
  <2>3. CASE TrySend(w)
    <3>1. /\ output' = [output EXCEPT ![c] = Append(@, nextSeq[c])]
          /\ buffered' = [buffered EXCEPT ![c] = @ + 1]
          /\ nextSeq[c] \in Chunks
          /\ Len(output[c]) < Capacity
          /\ rpc' = rpc
          /\ rpc[c] = "off"
      BY <1>0, <2>1, <2>3 DEF TrySend, SendChunk, Advance, OnBuffered, IInv,
         LockInv, SingleSender, retryVars
    <3>2. Len(output'[c]) = Len(output[c]) + 1
          /\ buffered'[c] = buffered[c] + 1
      BY <1>a, <1>0, <2>1, <3>1
    <3>3. Len(output[c]) \in Nat /\ Owed(c) \in Nat /\ buffered[c] \in Int
      BY <1>0, <1>l, <2>1, <2>2
    <3>4. Len(output'[c]) <= Capacity
      BY <1>c, <3>1, <3>2, <3>3
    <3>5. c = current =>
             /\ buffered'[c] <= Len(output'[c]) + Owed(c)
             /\ rpc'[c] = "sent" => buffered'[c] < Len(output'[c]) + Owed(c)
      BY <2>1, <3>1, <3>2, <3>3 DEF CreditInv
    <3> QED BY <2>1, <2>2, <3>4, <3>5 DEF CreditInv, Contents
  <2>4. CASE ~TrySend(w)
    <3>1. UNCHANGED <<output, buffered>> /\ (rpc'[c] = "sent" => rpc[c] = "sent")
      BY <1>0, <1>2, <2>1, <2>4 DEF Worker, StoreChunk, TryBegin, TryStop,
         TryHandOver, retryVars
    <3> QED BY <2>1, <2>2, <3>1 DEF CreditInv, Contents
  <2> QED BY <2>3, <2>4
<1>3. ASSUME NEW c \in Buffers, Retry(c) PROVE CreditInv'
  <2>1. /\ UNCHANGED <<cbuf, uncredited, current>>
        /\ \A b \in Buffers \ {c} : Contents(b)' = Contents(b)
    BY <1>t, <1>3, RetryFrame
  <2>2. \A b \in Buffers : Owed(b)' = Owed(b) /\ Owed(b) \in Nat
    BY <1>0, <2>1 DEF Owed
  <2>3. CASE RetrySend(c) \/ RetryUnblock(c)
    <3>0. PICK e \in Chunks : output' = [output EXCEPT ![c] = Append(@, e)]
      BY <1>0, <2>3 DEF RetrySend, RetryUnblock, SendChunk
    <3>1. Len(output'[c]) = Len(output[c]) + 1 /\ Len(output[c]) < Capacity
      BY <1>a, <2>3, <3>0 DEF RetrySend, RetryUnblock
    <3>2. \/ buffered' = buffered
          \/ buffered'[c] = buffered[c] + 1 /\ rpc'[c] # "sent"
      BY <1>0, <2>3 DEF RetrySend, RetryUnblock, RetryAdvance, Advance,
         OnBuffered
    <3>3. Len(output[c]) \in Nat /\ Owed(c) \in Nat /\ buffered[c] \in Int
      BY <1>0, <1>l, <2>1, <2>2
    <3>4. Len(output'[c]) <= Capacity
      BY <1>c, <3>1, <3>2, <3>3
    <3>5. c = current =>
             /\ buffered'[c] <= Len(output'[c]) + Owed(c)
             /\ rpc'[c] = "sent" => buffered'[c] < Len(output'[c]) + Owed(c)
      BY <2>1, <3>1, <3>2, <3>3 DEF CreditInv
    <3> QED BY <2>1, <2>2, <3>4, <3>5 DEF CreditInv, Contents
  <2>4. CASE ~(RetrySend(c) \/ RetryUnblock(c))
    <3>1. output' = output
          /\ \/ buffered' = buffered /\ rpc'[c] # "sent"
             \/ buffered'[c] = buffered[c] + 1 /\ rpc[c] = "sent"
                /\ rpc'[c] # "sent"
      BY <1>0, <1>3, <2>4 DEF Retry, RetryGiveUp, RetryBlock, RetryAbandon,
         RetryAccount, RetryLeave, RetryExit, RetryAdvance, Advance, OnBuffered,
         bufferVars
    <3> QED BY <1>0, <1>l, <2>1, <2>2, <3>1 DEF CreditInv, Contents
  <2> QED BY <2>3, <2>4
<1>4. CASE GetOutput
  BY <1>0, <1>l, <1>4 DEF GetOutput, CreditInv, ReaderInv, Owed, bufferVars,
     retryVars, sessionVars
<1>5. CASE Consume
  <2>1. cbuf \in Buffers /\ output[cbuf] \in Seq(Chunks)
        /\ output[cbuf] # << >>
    BY <1>t, <1>0, <1>5, BoundsAssumption DEF Consume, TypeOK, SessionTypeOK,
       Buffers
  <2>2. /\ output' = [output EXCEPT ![cbuf] = Tail(@)]
        /\ uncredited' = uncredited + 1
        /\ UNCHANGED <<buffered, rpc, current, cbuf>>
    BY <1>5 DEF Consume, sessionVars, retryVars
  <2>3. Len(Tail(output[cbuf])) = Len(output[cbuf]) - 1
    BY <2>1, TailFacts
  <2>4. Len(output'[cbuf]) = Len(output[cbuf]) - 1
        /\ \A b \in Buffers \ {cbuf} : output'[b] = output[b]
    BY <1>0, <2>1, <2>2, <2>3
  <2> QED BY <1>0, <1>l, <1>c, <2>1, <2>2, <2>4 DEF CreditInv, Owed
<1>6. CASE OnConsumed
  <2>1. /\ uncredited' = 0
        /\ UNCHANGED <<output, rpc, current, cbuf>>
        /\ \A b \in Buffers : b = current => buffered'[b] = buffered[b] - uncredited
    BY <1>0, <1>6 DEF OnConsumed, sessionVars, retryVars
  <2> QED BY <1>0, <1>l, <2>1 DEF CreditInv, Owed
<1>7. CASE SeeEnd \/ RemoveClose
  BY <1>7 DEF SeeEnd, RemoveClose, CreditInv, Owed, bufferVars, retryVars,
     sessionVars, consumerVars
<1>8. CASE RemoveLookup
  BY <1>0, <1>8 DEF RemoveLookup, CreditInv, bufferVars
<1> QED BY <1>1, <1>2, <1>3, <1>4, <1>5, <1>6, <1>7, <1>8 DEF Next, Consumer

\* Somebody is there to send what is next in order on b.
Attended(b) ==
    \/ rpc[b] # "off"
    \/ \E w \in Workers : wpc[w] \in {"try", "loop"} /\ wbuf[w] = b

\* Whoever stops sending on a live buffer leaves nothing to send: the window
\* does not pause it, as the credits of its buffer are all there.
LEMMA WakeStep ==
    ASSUME Window >= Capacity + MaxHeld,
           IInv, RemovalInv, FreshInv, CreditInv, NoLostWakeup, Next
    PROVE  NoLostWakeup'
<1>t. TypeOK
  BY DEF IInv
<1>0. /\ wbuf \in [Workers -> Buffers]
      /\ wpc \in [Workers -> {"idle", "store", "try", "loop"}]
      /\ rpc \in [Buffers -> {"off", "loop", "blocked", "sent", "exit"}]
      /\ done \in [Buffers -> BOOLEAN]
      /\ rbuf \in Nat
  BY <1>t, BoundsAssumption DEF TypeOK, SyncTypeOK, SessionTypeOK, Buffers
<1>d. ASSUME NEW b \in Buffers, ~done'[b] PROVE ~done[b]
  BY <1>t, <1>d, DoneStays
<1>w. \A b \in Buffers :
        nextSeq[b] \in chunks[b] /\ ~done[b] /\ rbuf # b => Attended(b)
  BY DEF NoLostWakeup, Attended
<1> SUFFICES ASSUME NEW b \in Buffers, nextSeq'[b] \in chunks'[b], ~done'[b],
                    rbuf' # b
             PROVE  Attended(b)'
  BY DEF NoLostWakeup, Attended
<1>1. ASSUME NEW w \in Workers, NEW s \in Chunks, Receive(w, s)
      PROVE  Attended(b)'
  <2>1. Attended(b)
    BY <1>t, <1>d, <1>w, <1>1, ReceiveFrame DEF Contents
  <2> QED BY <1>t, <1>0, <1>1, <2>1, ReceiveFrame DEF Attended, Contents
<1>2. ASSUME NEW w \in Workers, Worker(w) PROVE Attended(b)'
  <2>1. CASE b # wbuf[w]
    <3>1. Attended(b)
      BY <1>t, <1>d, <1>w, <1>2, <2>1, WorkerFrame DEF Contents
    <3> QED BY <1>t, <1>2, <2>1, <3>1, WorkerFrame DEF Attended, Contents
  <2>2. CASE b = wbuf[w] /\ StoreChunk(w)
    <3>1. wpc'[w] = "try" /\ wbuf' = wbuf
      BY <1>0, <1>d, <2>2 DEF StoreChunk
    <3> QED BY <2>2, <3>1 DEF Attended
  <2>3. CASE b = wbuf[w] /\ TryBegin(w)
    <3>1. wbuf' = wbuf /\ rpc' = rpc /\ (retrying[b] \/ wpc'[w] = "loop")
      BY <1>0, <1>d, <2>3 DEF TryBegin, MayNotSend, retryVars
    <3>2. retrying[b] => rpc[b] # "off"
      BY DEF IInv, LockInv, SingleSender
    <3> QED BY <2>3, <3>1, <3>2 DEF Attended
  <2>4. CASE b = wbuf[w] /\ TryStop(w)
    <3>1. /\ ShouldPause(b) \/ nextSeq[b] \notin chunks[b]
          /\ UNCHANGED <<nextSeq, chunks, done, rbuf>>
      BY <2>4 DEF TryStop
    <3>2. b <= created
      BY <2>4 DEF TryStop, FreshInv
    <3>3. b = current
      BY <3>1, <3>2 DEF RemovalInv
    <3>4. /\ Len(output[b]) <= Capacity
          /\ buffered[b] <= Len(output[b]) + Owed(b)
      BY <3>3 DEF CreditInv
    <3>5. /\ Len(output[b]) \in Nat /\ buffered[b] \in Int
          /\ Owed(b) \in 0..MaxHeld
      BY <1>t, BoundsAssumption DEF TypeOK, DataTypeOK, SessionTypeOK, Owed
    <3>6. ~(buffered[b] > Window)
      BY <3>4, <3>5, BoundsAssumption
    <3> QED BY <3>1, <3>6 DEF ShouldPause
  <2>5. CASE b = wbuf[w] /\ TrySend(w)
    <3>1. wbuf' = wbuf /\ wpc'[w] = "loop"
      <4>1. finSeq[b] \in {-1, Fin} /\ Fin \in Nat
            /\ nextSeq[b] \in Nat
        BY <1>t, StreamAssumption DEF TypeOK, DataTypeOK, Fin
      <4>2. nextSeq[b] # finSeq[b]
        BY <1>0, <2>5, <4>1 DEF TrySend, Advance
      <4> QED BY <2>5, <4>2 DEF TrySend
    <3> QED BY <2>5, <3>1 DEF Attended
  <2>6. CASE b = wbuf[w] /\ TryHandOver(w)
    <3>1. rpc'[b] = "loop"
      BY <1>0, <2>6 DEF TryHandOver
    <3> QED BY <3>1 DEF Attended
  <2> QED BY <1>2, <2>1, <2>2, <2>3, <2>4, <2>5, <2>6 DEF Worker
<1>3. ASSUME NEW c \in Buffers, Retry(c) PROVE Attended(b)'
  <2>1. CASE b # c
    <3>1. Attended(b)
      BY <1>t, <1>d, <1>w, <1>3, <2>1, RetryFrame DEF Contents
    <3> QED BY <1>t, <1>3, <2>1, <3>1, RetryFrame DEF Attended, Contents
  <2>2. CASE b = c
    <3>0. finSeq[b] \in {-1, Fin} /\ Fin \in Nat /\ nextSeq[b] \in Nat
          /\ held[b] \in Nat
      BY <1>t, StreamAssumption DEF TypeOK, DataTypeOK, Fin, Chunks
    <3>1. CASE RetryGiveUp(b) \/ RetryLeave(b)
      BY <1>d, <3>1 DEF RetryGiveUp, RetryLeave, IInv, EndInv
    <3>2. CASE RetrySend(b)
      <4>1. nextSeq[b] # finSeq[b]
        BY <1>0, <3>0, <3>2 DEF RetrySend, RetryAdvance, Advance
      <4>2. rpc'[b] = "loop"
        BY <1>0, <3>2, <4>1 DEF RetrySend, RetryAdvance
      <4> QED BY <4>2 DEF Attended
    <3>3. CASE RetryBlock(b) \/ RetryUnblock(b) \/ RetryAbandon(b)
      <4>1. rpc'[b] # "off"
        BY <1>0, <3>3 DEF RetryBlock, RetryUnblock, RetryAbandon
      <4> QED BY <4>1 DEF Attended
    <3>4. CASE RetryAccount(b)
      <4>0. ~done[b]
        BY <1>d
      <4>1. held[b] # finSeq[b]
        BY <1>0, <3>0, <3>4, <4>0 DEF RetryAccount, RetryAdvance, Advance
      <4>2. rpc'[b] = "loop"
        BY <1>0, <3>4, <4>0, <4>1 DEF RetryAccount, RetryAdvance
      <4> QED BY <4>2 DEF Attended
    <3> QED BY <1>3, <2>2, <3>1, <3>2, <3>3, <3>4 DEF Retry
  <2> QED BY <2>1, <2>2
<1>4. CASE Consumer \/ RemoveLookup \/ RemoveClose
  <2>1. UNCHANGED <<wpc, wbuf, rpc, nextSeq, chunks>>
    BY <1>4 DEF Consumer, GetOutput, Consume, OnConsumed, SeeEnd, RemoveLookup,
       RemoveClose, bufferVars, retryVars, workerVars
  <2>2. rbuf # b
    <3>1. CASE Consumer
      BY <3>1 DEF Consumer, GetOutput, Consume, OnConsumed, SeeEnd
    <3>2. CASE RemoveLookup
      BY <3>2, BoundsAssumption DEF RemoveLookup, Buffers
    <3>3. CASE RemoveClose
      BY <1>0, <3>3 DEF RemoveClose
    <3> QED BY <1>4, <3>1, <3>2, <3>3
  <2> QED BY <1>d, <1>w, <2>1, <2>2 DEF Attended
<1> QED BY <1>1, <1>2, <1>3, <1>4 DEF Next
----------------------------------------------------------------------------
\* The initial state satisfies what is known of the sessions map.
LEMMA InitSessionInv == Init => SessionInv /\ CreditInv /\ NoLostWakeup
<1> SUFFICES ASSUME Init PROVE SessionInv /\ CreditInv /\ NoLostWakeup
  OBVIOUS
<1>1. FreshInv /\ RemovalInv /\ WholeInv /\ ReaderInv
  BY BoundsAssumption DEF Init, FreshInv, RemovalInv, WholeInv, ReaderInv,
     Buffers
<1>2. CreditInv
  BY BoundsAssumption DEF Init, CreditInv, Owed, Buffers
<1>3. NoLostWakeup
  BY DEF Init, NoLostWakeup
<1> QED BY <1>1, <1>2, <1>3 DEF SessionInv

\* A step that changes nothing keeps it.
LEMMA StutterSessionInv ==
    UNCHANGED vars /\ SessionInv /\ CreditInv => SessionInv' /\ CreditInv'
<1> SUFFICES ASSUME UNCHANGED vars, SessionInv, CreditInv
             PROVE  SessionInv' /\ CreditInv'
  OBVIOUS
<1>1. FreshInv' /\ RemovalInv'
  BY DEF vars, SessionInv, FreshInv, RemovalInv
<1>2. WholeInv' /\ ReaderInv'
  BY DEF vars, SessionInv, WholeInv, ReaderInv, SentCount
<1>3. CreditInv'
  BY DEF vars, CreditInv, Owed
<1> QED BY <1>1, <1>2, <1>3 DEF SessionInv

\* The life of the buffers of one ID: which is current, which has ended and how,
\* which was never used, and what the reader and the flow controller know.
THEOREM SessionInvariance == Spec => [](SessionInv /\ CreditInv)
<1>1. IInv /\ IInv' /\ SessionInv /\ CreditInv /\ [Next]_vars
         => SessionInv' /\ CreditInv'
  BY StutterSessionInv, FreshStep, RemovalStep, WholeStep, ReaderStep,
     CreditStep DEF SessionInv, IInv
<1> QED BY <1>1, InitSessionInv, Invariance, PTL DEF Spec

\* No chunk that is next in order is left to nobody, if the window cannot be
\* used up by a full channel and what the reader has not reported: in the
\* code 16 MB against 100 chunks whose length has 16 bits.
THEOREM WakeupsArrive ==
    ASSUME Window >= Capacity + MaxHeld PROVE Spec => []NoLostWakeup
<1>1. IInv /\ SessionInv /\ CreditInv /\ NoLostWakeup /\ [Next]_vars
         => NoLostWakeup'
  <2>1. UNCHANGED vars /\ NoLostWakeup => NoLostWakeup'
    BY DEF vars, NoLostWakeup
  <2> QED BY <2>1, WakeStep DEF SessionInv
<1> QED BY <1>1, InitSessionInv, Invariance, SessionInvariance, PTL DEF Spec

\* Every step of the reassembler is a step of the in-order delivery it promises,
\* or changes nothing the reader sees.
LEMMA DeliveryStep ==
    ASSUME IInv, SessionInv, Next
    PROVE  [Delivery!DeliveryNext]_(Delivery!deliveryVars)
<1> USE DEF Delivery!deliveryVars
<1> DEFINE delivered == IF cbuf = 0 THEN << >> ELSE received[cbuf]
           removed == cbuf # 0 /\ cbuf # current
<1>t. TypeOK /\ ReaderInv
  BY DEF IInv, SessionInv
<1>0. /\ created \in Nat /\ cbuf \in 0..created /\ current \in 0..created
      /\ cbuf # 0 => cbuf \in Buffers
      /\ current # 0 => current \in Buffers
      /\ received \in [Buffers -> Seq(Chunks)]
      /\ output \in [Buffers -> Seq(Chunks)]
      /\ NumChunks \in Nat \ {0}
  BY <1>t, BoundsAssumption, StreamAssumption DEF TypeOK, DataTypeOK,
     SessionTypeOK, Buffers
<1>1. CASE UNCHANGED <<cbuf, received, sawEnd>> /\ removed' = removed
  BY <1>1
<1>2. ASSUME NEW w \in Workers, NEW s \in Chunks, Receive(w, s)
      PROVE  UNCHANGED <<cbuf, received, sawEnd>> /\ removed' = removed
  BY <1>t, <1>0, <1>2, ReceiveFrame
<1>3. CASE \/ \E w \in Workers : Worker(w)
           \/ \E c \in Buffers : Retry(c)
  BY <1>t, <1>3, WorkerFrame, RetryFrame
<1>4. CASE GetOutput
  BY <1>t, <1>0, <1>4 DEF GetOutput, ReaderInv, sessionVars
<1>5. CASE Consume
  <2>1. /\ cbuf \in Buffers
        /\ output[cbuf] \in Seq(Chunks) /\ output[cbuf] # << >>
        /\ received[cbuf] \in Seq(Chunks)
        /\ ~sawEnd
    BY <1>t, <1>0, <1>5 DEF Consume, ReaderInv
  <2>2. Head(output[cbuf]) = output[cbuf][1] /\ Head(output[cbuf]) \in Chunks
        /\ Len(output[cbuf]) \in Nat \ {0}
    BY <2>1, TailFacts
  <2>3. Len(received[cbuf]) \in Nat
    BY <2>1
  <2>4. Head(output[cbuf]) = Len(received[cbuf])
    BY <2>1, <2>2, <2>3 DEF IInv, PrefixInv
  <2>5. received'[cbuf] = Append(received[cbuf], Len(received[cbuf]))
    BY <1>0, <1>5, <2>1, <2>4 DEF Consume
  <2>6. UNCHANGED <<cbuf, current, sawEnd>> /\ cbuf # 0
    BY <1>5 DEF Consume, sessionVars
  <2>7. Len(received[cbuf]) < NumChunks
    BY <1>0, <2>2, <2>4 DEF Chunks
  <2> QED BY <2>1, <2>5, <2>6, <2>7 DEF Delivery!DeliveryNext, Delivery!Deliver
<1>6. CASE SeeEnd
  <2>1. /\ cbuf \in Buffers /\ ~sawEnd /\ sawEnd' = TRUE
        /\ output[cbuf] = << >> /\ outputClosed[cbuf]
        /\ UNCHANGED <<cbuf, received, current>>
    BY <1>0, <1>6 DEF SeeEnd, sessionVars
  <2>2. CASE cbuf = current
    <3>1. SentCount(cbuf) = NumChunks
      BY <2>1, <2>2 DEF SessionInv, WholeInv, IInv, EndInv
    <3>2. Len(received[cbuf]) = NumChunks
      BY <1>0, <2>1, <3>1 DEF SentCount
    <3>3. cbuf # 0 /\ cbuf' # 0 /\ received'[cbuf'] = received[cbuf]
          /\ removed' = removed
      BY <1>0, <1>6, <2>1 DEF SeeEnd
    <3> QED BY <2>1, <3>2, <3>3 DEF Delivery!DeliveryNext, Delivery!End
  <2>3. CASE cbuf # current
    BY <1>0, <1>6, <2>1, <2>3 DEF SeeEnd, Delivery!DeliveryNext, Delivery!End
  <2> QED BY <2>2, <2>3
<1>7. CASE OnConsumed \/ RemoveClose
  BY <1>7 DEF OnConsumed, RemoveClose, sessionVars, consumerVars
<1>8. CASE RemoveLookup
  BY <1>8 DEF RemoveLookup, consumerVars, Delivery!DeliveryNext,
     Delivery!Remove
<1> QED BY <1>1, <1>2, <1>3, <1>4, <1>5, <1>6, <1>7, <1>8 DEF Next, Consumer

\* The reassembler implements the abstract delivery: its reader gets the chunks
\* one by one in order, and its end only after the last one or a removal.
THEOREM Refinement == Spec => ImplementsDelivery
<1>1. Init => Delivery!DeliveryInit
  BY DEF Init, Delivery!DeliveryInit
<1>2. IInv /\ SessionInv /\ [Next]_vars
         => [Delivery!DeliveryNext]_(Delivery!deliveryVars)
  <2>1. UNCHANGED vars => UNCHANGED Delivery!deliveryVars
    BY DEF vars, Delivery!deliveryVars
  <2> QED BY <2>1, DeliveryStep
<1> QED BY <1>1, <1>2, Invariance, SessionInvariance, PTL
        DEF Spec, ImplementsDelivery, Delivery!DeliverySpec
=============================================================================
