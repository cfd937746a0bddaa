--------------------------- MODULE InboundProofs ----------------------------
(***************************************************************************)
(* The inductive invariant of Inbound and what follows from it, for any    *)
(* number of connections, streams and calls of Stop.                       *)
(***************************************************************************)
EXTENDS Inbound, FiniteSetTheorems, TLAPS

\* What wg counts: the handlers that run and, over QUIC, the goroutines that
\* accept streams.
Busy == {"upgrade", "track", "read", "refused", "dial", "trackTarget", "relay"}
Handlers == {c \in Conns : hpc[c] \in Busy}
Loops == {c \in Conns : qpc[c] = "loop"}

CountInv == wg = Cardinality(Handlers) + Cardinality(Loops)

\* Only the connection that Accept has just returned waits for its goroutine, and
\* nobody accepts streams before that.
SpawnInv ==
    /\ spc = "spawn" => hpc[scur] = "accepted"
    /\ \A c \in Conns :
          hpc[c] \in {"none", "queued", "accepted"} => qpc[c] = "none"

\* What a Stop has done stays done: Start never takes the cancellation back.
StopInv ==
    /\ spc \in {"listen", "assign"} => ~assigned
    /\ inTime # {} => assigned /\ ctxDone
    /\ \A s \in Stoppers : stpc[s] \in {"wait", "ok", "timedOut"} => trackerShut

\* What a handler holds open once it has told the tracker is tracked, and the
\* tracker keeps nothing once it is shut.
TrackInv ==
    /\ \A c \in Conns :
          /\ hpc[c] \in {"read", "refused", "dial", "trackTarget", "relay"}
                /\ clientOpen[c] => <<c, "client">> \in tracked
          /\ hpc[c] = "relay" /\ targetOpen[c] => <<c, "target">> \in tracked
    /\ trackerShut => tracked = {}

\* A Stop that reported success, over QUIC one that came in time.
Stopped == \E s \in Stoppers : stpc[s] = "ok" /\ (kind = "quic" => s \in inTime)

IInv == TypeOK /\ CountInv /\ SpawnInv /\ StopInv /\ TrackInv /\ StoppedIsQuiet
----------------------------------------------------------------------------
(* What the steps do *)

\* The steps, with the ends of a handler as one.
LEMMA Steps ==
    ASSUME Next
    PROVE  \/ ListenFails \/ Listen \/ Assign \/ CloseReady \/ Spawn
           \/ AcceptFails \/ CancelParent
           \/ \E c \in Conns :
                 \/ Accept(c) \/ TrackClient(c) \/ Dial(c) \/ TrackTarget(c)
                 \/ StreamsEnd(c) \/ Upgrade(c) \/ ReadFrame(c)
                 \/ AcceptStream(c) \/ ClientLeaves(c) \/ ClientConnects(c)
                 \/ \E from \in Busy : Finish(c, from)
           \/ \E s \in Stoppers :
                 \/ StopReady(s) \/ StopLocked(s) \/ CloseAll(s)
                 \/ StopDone(s) \/ StopTimesOut(s)
<1>1. ASSUME NEW c \in Conns, HandlerRuns(c)
      PROVE  \/ TrackClient(c) \/ Dial(c) \/ TrackTarget(c) \/ StreamsEnd(c)
             \/ \E from \in Busy : Finish(c, from)
  BY <1>1 DEF HandlerRuns, ReadClosed, DialFails, RelayClosed, Busy
<1>2. ASSUME NEW c \in Conns, PeersAct(c)
      PROVE  \/ Upgrade(c) \/ ReadFrame(c) \/ AcceptStream(c) \/ ClientLeaves(c)
             \/ \E from \in Busy : Finish(c, from)
  BY <1>2 DEF PeersAct, UpgradeFails, ReadFails, RelayEnds, Busy
<1>3. Start => \/ ListenFails \/ Listen \/ Assign \/ CloseReady \/ Spawn
               \/ AcceptFails \/ \E c \in Conns : Accept(c)
  BY DEF Start
<1>4. \A s \in Stoppers : Stop(s) => \/ StopLocked(s) \/ CloseAll(s)
                                     \/ StopDone(s) \/ StopTimesOut(s)
  BY DEF Stop
<1> QED BY <1>1, <1>2, <1>3, <1>4 DEF Next

\* A handler moves on; the others stay where they are.
LEMMA HandleFacts ==
    ASSUME TypeOK, NEW c \in Conns, NEW from, NEW to, Handle(c, from, to)
    PROVE  /\ hpc[c] = from /\ hpc'[c] = to
           /\ \A d \in Conns \ {c} : hpc'[d] = hpc[d]
BY DEF TypeOK, Handle

\* A handler that joins, leaves or stays changes the count by one or not at all.
LEMMA SubsetFacts ==
    /\ Cardinality(Conns) \in Nat
    /\ \A S \in SUBSET Conns : /\ IsFiniteSet(S)
                               /\ Cardinality(S) \in Nat
                               /\ Cardinality(S) <= Cardinality(Conns)
BY ConnsAssumption, FS_Subset, FS_CardinalityType

LEMMA CountFacts ==
    /\ IsFiniteSet(Handlers) /\ Cardinality(Handlers) \in Nat
    /\ IsFiniteSet(Loops) /\ Cardinality(Loops) \in Nat
BY SubsetFacts DEF Handlers, Loops

LEMMA Joins ==
    ASSUME NEW S, NEW T, IsFiniteSet(S), NEW c, c \notin S, T = S \cup {c}
    PROVE  Cardinality(T) = Cardinality(S) + 1
BY FS_AddElement

LEMMA Leaves ==
    ASSUME NEW S, NEW T, IsFiniteSet(S), NEW c \in S, T = S \ {c}
    PROVE  Cardinality(T) = Cardinality(S) - 1
BY FS_RemoveElement

----------------------------------------------------------------------------
(* Every step keeps the invariant *)

LEMMA CountStep ==
    ASSUME TypeOK, CountInv, SpawnInv, Next
    PROVE  CountInv'
<1>c. /\ IsFiniteSet(Handlers) /\ Cardinality(Handlers) \in Nat
      /\ IsFiniteSet(Loops) /\ Cardinality(Loops) \in Nat
  BY CountFacts
<1>1. CASE ListenFails
  <2>1. Handlers' = Handlers
    BY <1>1 DEF ListenFails, Handlers, Busy, handlerVars
  <2>2. Loops' = Loops
    BY <1>1 DEF ListenFails, Loops, handlerVars, quicVars
  <2> QED BY <1>1, <2>1, <2>2 DEF ListenFails, CountInv
<1>2. CASE Listen
  <2>1. Handlers' = Handlers
    BY <1>2 DEF Listen, Handlers, Busy, handlerVars
  <2>2. Loops' = Loops
    BY <1>2 DEF Listen, Loops, handlerVars, quicVars
  <2> QED BY <1>2, <2>1, <2>2 DEF Listen, CountInv
<1>3. CASE Assign
  <2>1. Handlers' = Handlers
    BY <1>3 DEF Assign, Handlers, Busy, handlerVars
  <2>2. Loops' = Loops
    BY <1>3 DEF Assign, Loops, handlerVars, quicVars
  <2> QED BY <1>3, <2>1, <2>2 DEF Assign, CountInv
<1>4. CASE CloseReady
  <2>1. Handlers' = Handlers
    BY <1>4 DEF CloseReady, Handlers, Busy, handlerVars
  <2>2. Loops' = Loops
    BY <1>4 DEF CloseReady, Loops, handlerVars, quicVars
  <2> QED BY <1>4, <2>1, <2>2 DEF CloseReady, CountInv
<1>5. CASE Spawn
  <2>1. hpc[scur] = "accepted" /\ qpc[scur] = "none" /\ scur \in Conns
    BY <1>5 DEF Spawn, SpawnInv, TypeOK
  <2>2. CASE kind = "quic"
    <3>1. /\ hpc' = [hpc EXCEPT ![scur] = "noStream"]
          /\ qpc' = [qpc EXCEPT ![scur] = "loop"]
      BY <1>5, <2>2 DEF Spawn, Go, FirstStep
    <3>2. Handlers' = Handlers
      BY <2>1, <3>1 DEF TypeOK, Handlers, Busy
    <3>3. scur \notin Loops /\ Loops' = Loops \cup {scur}
      BY <2>1, <3>1 DEF TypeOK, Loops
    <3>4. Cardinality(Loops') = Cardinality(Loops) + 1
      BY <1>c, <3>3, Joins
    <3> QED BY <1>5, <1>c, <3>2, <3>4 DEF Spawn, CountInv
  <2>3. CASE kind # "quic"
    <3>1. /\ hpc' = [hpc EXCEPT ![scur] = FirstStep] /\ qpc' = qpc
          /\ FirstStep \in {"upgrade", "track"}
      BY <1>5, <2>3 DEF Spawn, Go, FirstStep, TypeOK
    <3>2. Loops' = Loops
      BY <3>1 DEF Loops
    <3>3. scur \notin Handlers /\ Handlers' = Handlers \cup {scur}
      BY <2>1, <3>1 DEF TypeOK, Handlers, Busy
    <3>4. Cardinality(Handlers') = Cardinality(Handlers) + 1
      BY <1>c, <3>3, Joins
    <3> QED BY <1>5, <1>c, <3>2, <3>4 DEF Spawn, CountInv
  <2> QED BY <2>2, <2>3
<1>6. CASE AcceptFails
  <2>1. Handlers' = Handlers
    BY <1>6 DEF AcceptFails, Handlers, Busy, handlerVars
  <2>2. Loops' = Loops
    BY <1>6 DEF AcceptFails, Loops, handlerVars, quicVars
  <2> QED BY <1>6, <2>1, <2>2 DEF AcceptFails, CountInv
<1>7. CASE CancelParent
  <2>1. Handlers' = Handlers
    BY <1>7 DEF CancelParent, Handlers, Busy, handlerVars, startVars
  <2>2. Loops' = Loops
    BY <1>7 DEF CancelParent, Loops, handlerVars, startVars, quicVars
  <2> QED BY <1>7, <2>1, <2>2 DEF CancelParent, CountInv
<1>8. ASSUME NEW c \in Conns, Accept(c) PROVE CountInv'
  <2>1. Handlers' = Handlers
    BY <1>8 DEF Accept, Handlers, Busy, TypeOK
  <2>2. Loops' = Loops
    BY <1>8 DEF Accept, Loops, quicVars
  <2> QED BY <1>8, <2>1, <2>2 DEF Accept, CountInv
<1>9. ASSUME NEW c \in Conns, TrackClient(c) PROVE CountInv'
  <2>1. Handlers' = Handlers
    BY <1>9, HandleFacts DEF TrackClient, Handlers, Busy
  <2>2. Loops' = Loops
    BY <1>9 DEF TrackClient, Loops, quicVars
  <2> QED BY <1>9, <2>1, <2>2 DEF TrackClient, CountInv
<1>10. ASSUME NEW c \in Conns, Dial(c) PROVE CountInv'
  <2>1. Handlers' = Handlers
    BY <1>10, HandleFacts DEF Dial, Handlers, Busy
  <2>2. Loops' = Loops
    BY <1>10 DEF Dial, Loops, quicVars
  <2> QED BY <1>10, <2>1, <2>2 DEF Dial, CountInv
<1>11. ASSUME NEW c \in Conns, TrackTarget(c) PROVE CountInv'
  <2>1. Handlers' = Handlers
    BY <1>11, HandleFacts DEF TrackTarget, Handlers, Busy
  <2>2. Loops' = Loops
    BY <1>11 DEF TrackTarget, Loops, quicVars
  <2> QED BY <1>11, <2>1, <2>2 DEF TrackTarget, CountInv
<1>12. ASSUME NEW c \in Conns, StreamsEnd(c) PROVE CountInv'
  <2>1. Handlers' = Handlers
    BY <1>12 DEF StreamsEnd, Handlers
  <2>2. c \in Loops /\ Loops' = Loops \ {c}
    BY <1>12 DEF StreamsEnd, Loops, TypeOK
  <2>3. Cardinality(Loops') = Cardinality(Loops) - 1
    BY <1>c, <2>2, Leaves
  <2> QED BY <1>12, <1>c, <2>1, <2>3 DEF StreamsEnd, CountInv
<1>13. ASSUME NEW c \in Conns, Upgrade(c) PROVE CountInv'
  <2>1. Handlers' = Handlers
    BY <1>13, HandleFacts DEF Upgrade, Handlers, Busy
  <2>2. Loops' = Loops
    BY <1>13 DEF Upgrade, Loops, quicVars
  <2> QED BY <1>13, <2>1, <2>2 DEF Upgrade, CountInv
<1>14. ASSUME NEW c \in Conns, ReadFrame(c) PROVE CountInv'
  <2>1. Handlers' = Handlers
    BY <1>14, HandleFacts DEF ReadFrame, Handlers, Busy
  <2>2. Loops' = Loops
    BY <1>14 DEF ReadFrame, Loops, quicVars
  <2> QED BY <1>14, <2>1, <2>2 DEF ReadFrame, CountInv
<1>15. ASSUME NEW c \in Conns, AcceptStream(c) PROVE CountInv'
  <2>1. Loops' = Loops
    BY <1>15 DEF AcceptStream, Loops, quicVars
  <2>2. c \notin Handlers /\ Handlers' = Handlers \cup {c}
    BY <1>15, HandleFacts DEF AcceptStream, Handlers, Busy
  <2>3. Cardinality(Handlers') = Cardinality(Handlers) + 1
    BY <1>c, <2>2, Joins
  <2> QED BY <1>15, <1>c, <2>1, <2>3 DEF AcceptStream, CountInv
<1>16. ASSUME NEW c \in Conns, ClientLeaves(c) PROVE CountInv'
  <2>1. Handlers' = Handlers
    BY <1>16 DEF ClientLeaves, Handlers, Busy
  <2>2. Loops' = Loops
    BY <1>16 DEF ClientLeaves, Loops
  <2> QED BY <1>16, <2>1, <2>2 DEF ClientLeaves, CountInv
<1>17. ASSUME NEW c \in Conns, ClientConnects(c) PROVE CountInv'
  <2>1. Handlers' = Handlers
    BY <1>17 DEF ClientConnects, Handlers, Busy, TypeOK
  <2>2. Loops' = Loops
    BY <1>17 DEF ClientConnects, Loops, quicVars
  <2> QED BY <1>17, <2>1, <2>2 DEF ClientConnects, CountInv
<1>18. ASSUME NEW c \in Conns, NEW from \in Busy, Finish(c, from)
      PROVE  CountInv'
  <2>1. Loops' = Loops
    BY <1>18 DEF Finish, Loops, quicVars
  <2>2. c \in Handlers /\ Handlers' = Handlers \ {c}
    BY <1>18, HandleFacts DEF Finish, Handlers, Busy
  <2>3. Cardinality(Handlers') = Cardinality(Handlers) - 1
    BY <1>c, <2>2, Leaves
  <2> QED BY <1>18, <1>c, <2>1, <2>3 DEF Finish, CountInv
<1>19. ASSUME NEW s \in Stoppers, StopReady(s) PROVE CountInv'
  <2>1. Handlers' = Handlers
    BY <1>19 DEF StopReady, Handlers, Busy, handlerVars
  <2>2. Loops' = Loops
    BY <1>19 DEF StopReady, Loops, handlerVars, quicVars
  <2> QED BY <1>19, <2>1, <2>2 DEF StopReady, CountInv
<1>20. ASSUME NEW s \in Stoppers, StopLocked(s) PROVE CountInv'
  <2>1. Handlers' = Handlers
    BY <1>20 DEF StopLocked, DropQueued, Handlers, Busy
  <2>2. Loops' = Loops
    BY <1>20 DEF StopLocked, Loops, quicVars
  <2> QED BY <1>20, <2>1, <2>2 DEF StopLocked, CountInv
<1>21. ASSUME NEW s \in Stoppers, CloseAll(s) PROVE CountInv'
  <2>1. Handlers' = Handlers
    BY <1>21 DEF CloseAll, Handlers, Busy
  <2>2. Loops' = Loops
    BY <1>21 DEF CloseAll, Loops, quicVars
  <2> QED BY <1>21, <2>1, <2>2 DEF CloseAll, CountInv
<1>22. ASSUME NEW s \in Stoppers, StopDone(s) PROVE CountInv'
  <2>1. Handlers' = Handlers
    BY <1>22 DEF StopDone, StopReturn, Handlers, Busy, handlerVars
  <2>2. Loops' = Loops
    BY <1>22 DEF StopDone, StopReturn, Loops, handlerVars, quicVars
  <2> QED BY <1>22, <2>1, <2>2 DEF StopDone, StopReturn, CountInv
<1>23. ASSUME NEW s \in Stoppers, StopTimesOut(s) PROVE CountInv'
  <2>1. Handlers' = Handlers
    BY <1>23 DEF StopTimesOut, StopReturn, Handlers, Busy, handlerVars
  <2>2. Loops' = Loops
    BY <1>23 DEF StopTimesOut, StopReturn, Loops, handlerVars, quicVars
  <2> QED BY <1>23, <2>1, <2>2 DEF StopTimesOut, StopReturn, CountInv
<1> QED BY Steps, <1>1, <1>2, <1>3, <1>4, <1>5, <1>6, <1>7, <1>8, <1>9,
           <1>10, <1>11, <1>12, <1>13, <1>14, <1>15, <1>16, <1>17, <1>18, <1>19,
           <1>20, <1>21, <1>22, <1>23

LEMMA SpawnStep ==
    ASSUME TypeOK, SpawnInv, Next
    PROVE  SpawnInv'
<1>t. /\ hpc \in [Conns -> {"none", "queued", "accepted", "upgrade", "noStream",
                          "track", "read", "refused", "dial", "trackTarget",
                          "relay", "done"}]
      /\ qpc \in [Conns -> {"none", "loop", "done"}]
      /\ clientOpen \in [Conns -> BOOLEAN] /\ targetOpen \in [Conns -> BOOLEAN]
      /\ scur \in Conns
  BY DEF TypeOK
<1>1. CASE ListenFails
  BY <1>1, <1>t DEF ListenFails, ctxVars, quicVars, handlerVars, trackerVars,
      stopVars, SpawnInv, Busy
<1>2. CASE Listen
  BY <1>2, <1>t DEF Listen, ctxVars, quicVars, handlerVars, trackerVars,
      stopVars, SpawnInv, Busy
<1>3. CASE Assign
  BY <1>3, <1>t DEF Assign, quicVars, handlerVars, trackerVars, stopVars,
      SpawnInv, Busy
<1>4. CASE CloseReady
  BY <1>4, <1>t DEF CloseReady, ctxVars, quicVars, handlerVars, trackerVars,
      stopVars, SpawnInv, Busy
<1>5. CASE Spawn
  BY <1>5, <1>t DEF Spawn, Go, FirstStep, ctxVars, trackerVars, stopVars,
      SpawnInv, Busy
<1>6. CASE AcceptFails
  BY <1>6, <1>t DEF AcceptFails, ctxVars, quicVars, handlerVars, trackerVars,
      stopVars, SpawnInv, Busy
<1>7. CASE CancelParent
  BY <1>7, <1>t DEF CancelParent, startVars, quicVars, handlerVars,
      trackerVars, stopVars, SpawnInv, Busy
<1>8. ASSUME NEW c \in Conns, Accept(c) PROVE SpawnInv'
  BY <1>8, <1>t DEF Accept, ctxVars, quicVars, trackerVars, stopVars, SpawnInv,
      Busy
<1>9. ASSUME NEW c \in Conns, TrackClient(c) PROVE SpawnInv'
  BY <1>9, <1>t, HandleFacts DEF TrackClient, startVars, ctxVars, quicVars,
      stopVars, SpawnInv, Busy
<1>10. ASSUME NEW c \in Conns, Dial(c) PROVE SpawnInv'
  BY <1>10, <1>t, HandleFacts DEF Dial, startVars, ctxVars, quicVars,
      trackerVars, stopVars, SpawnInv, Busy
<1>11. ASSUME NEW c \in Conns, TrackTarget(c) PROVE SpawnInv'
  BY <1>11, <1>t, HandleFacts DEF TrackTarget, startVars, ctxVars, quicVars,
      stopVars, SpawnInv, Busy
<1>12. ASSUME NEW c \in Conns, StreamsEnd(c) PROVE SpawnInv'
  BY <1>12, <1>t DEF StreamsEnd, startVars, ctxVars, trackerVars, stopVars,
      SpawnInv, Busy
<1>13. ASSUME NEW c \in Conns, Upgrade(c) PROVE SpawnInv'
  BY <1>13, <1>t, HandleFacts DEF Upgrade, startVars, ctxVars, quicVars,
      trackerVars, stopVars, SpawnInv, Busy
<1>14. ASSUME NEW c \in Conns, ReadFrame(c) PROVE SpawnInv'
  BY <1>14, <1>t, HandleFacts DEF ReadFrame, startVars, ctxVars, quicVars,
      trackerVars, stopVars, SpawnInv, Busy
<1>15. ASSUME NEW c \in Conns, AcceptStream(c) PROVE SpawnInv'
  BY <1>15, <1>t, HandleFacts DEF AcceptStream, startVars, ctxVars, quicVars,
      trackerVars, stopVars, SpawnInv, Busy
<1>16. ASSUME NEW c \in Conns, ClientLeaves(c) PROVE SpawnInv'
  BY <1>16, <1>t DEF ClientLeaves, startVars, ctxVars, trackerVars, stopVars,
      SpawnInv, Busy
<1>17. ASSUME NEW c \in Conns, ClientConnects(c) PROVE SpawnInv'
  BY <1>17, <1>t DEF ClientConnects, startVars, ctxVars, quicVars, trackerVars,
      stopVars, SpawnInv, Busy
<1>18. ASSUME NEW c \in Conns, NEW from \in Busy, Finish(c, from)
      PROVE  SpawnInv'
  BY <1>18, <1>t, HandleFacts DEF Finish, startVars, ctxVars, quicVars,
      stopVars, SpawnInv, Busy
<1>19. ASSUME NEW s \in Stoppers, StopReady(s) PROVE SpawnInv'
  BY <1>19, <1>t DEF StopReady, ctxVars, quicVars, handlerVars, trackerVars,
      SpawnInv, Busy
<1>20. ASSUME NEW s \in Stoppers, StopLocked(s) PROVE SpawnInv'
  BY <1>20, <1>t DEF StopLocked, DropQueued, quicVars, trackerVars, SpawnInv,
      Busy
<1>21. ASSUME NEW s \in Stoppers, CloseAll(s) PROVE SpawnInv'
  BY <1>21, <1>t DEF CloseAll, startVars, ctxVars, quicVars, SpawnInv, Busy
<1>22. ASSUME NEW s \in Stoppers, StopDone(s) PROVE SpawnInv'
  BY <1>22, <1>t DEF StopDone, StopReturn, startVars, ctxVars, quicVars,
      handlerVars, trackerVars, SpawnInv, Busy
<1>23. ASSUME NEW s \in Stoppers, StopTimesOut(s) PROVE SpawnInv'
  BY <1>23, <1>t DEF StopTimesOut, StopReturn, startVars, ctxVars, quicVars,
      handlerVars, trackerVars, SpawnInv, Busy
<1> QED BY Steps, <1>1, <1>2, <1>3, <1>4, <1>5, <1>6, <1>7, <1>8, <1>9,
           <1>10, <1>11, <1>12, <1>13, <1>14, <1>15, <1>16, <1>17, <1>18, <1>19,
           <1>20, <1>21, <1>22, <1>23

LEMMA StopStep ==
    ASSUME TypeOK, StopInv, Next
    PROVE  StopInv'
<1>t. stpc \in [Stoppers -> {"idle", "lock", "closeAll", "wait", "ok",
                          "timedOut"}]
  BY DEF TypeOK
<1>1. CASE ListenFails
  BY <1>1, <1>t DEF ListenFails, ctxVars, quicVars, handlerVars, trackerVars,
      stopVars, StopInv
<1>2. CASE Listen
  BY <1>2, <1>t DEF Listen, ctxVars, quicVars, handlerVars, trackerVars,
      stopVars, StopInv
<1>3. CASE Assign
  BY <1>3, <1>t DEF Assign, quicVars, handlerVars, trackerVars, stopVars,
      StopInv
<1>4. CASE CloseReady
  BY <1>4, <1>t DEF CloseReady, ctxVars, quicVars, handlerVars, trackerVars,
      stopVars, StopInv
<1>5. CASE Spawn
  BY <1>5, <1>t DEF Spawn, Go, FirstStep, ctxVars, trackerVars, stopVars,
      StopInv
<1>6. CASE AcceptFails
  BY <1>6, <1>t DEF AcceptFails, ctxVars, quicVars, handlerVars, trackerVars,
      stopVars, StopInv
<1>7. CASE CancelParent
  BY <1>7, <1>t DEF CancelParent, startVars, quicVars, handlerVars,
      trackerVars, stopVars, StopInv
<1>8. ASSUME NEW c \in Conns, Accept(c) PROVE StopInv'
  BY <1>8, <1>t DEF Accept, ctxVars, quicVars, trackerVars, stopVars, StopInv
<1>9. ASSUME NEW c \in Conns, TrackClient(c) PROVE StopInv'
  BY <1>9, <1>t DEF TrackClient, startVars, ctxVars, quicVars, stopVars, StopInv
<1>10. ASSUME NEW c \in Conns, Dial(c) PROVE StopInv'
  BY <1>10, <1>t DEF Dial, startVars, ctxVars, quicVars, trackerVars, stopVars,
      StopInv
<1>11. ASSUME NEW c \in Conns, TrackTarget(c) PROVE StopInv'
  BY <1>11, <1>t DEF TrackTarget, startVars, ctxVars, quicVars, stopVars,
      StopInv
<1>12. ASSUME NEW c \in Conns, StreamsEnd(c) PROVE StopInv'
  BY <1>12, <1>t DEF StreamsEnd, startVars, ctxVars, trackerVars, stopVars,
      StopInv
<1>13. ASSUME NEW c \in Conns, Upgrade(c) PROVE StopInv'
  BY <1>13, <1>t DEF Upgrade, startVars, ctxVars, quicVars, trackerVars,
      stopVars, StopInv
<1>14. ASSUME NEW c \in Conns, ReadFrame(c) PROVE StopInv'
  BY <1>14, <1>t DEF ReadFrame, startVars, ctxVars, quicVars, trackerVars,
      stopVars, StopInv
<1>15. ASSUME NEW c \in Conns, AcceptStream(c) PROVE StopInv'
  BY <1>15, <1>t DEF AcceptStream, startVars, ctxVars, quicVars, trackerVars,
      stopVars, StopInv
<1>16. ASSUME NEW c \in Conns, ClientLeaves(c) PROVE StopInv'
  BY <1>16, <1>t DEF ClientLeaves, startVars, ctxVars, trackerVars, stopVars,
      StopInv
<1>17. ASSUME NEW c \in Conns, ClientConnects(c) PROVE StopInv'
  BY <1>17, <1>t DEF ClientConnects, startVars, ctxVars, quicVars, trackerVars,
      stopVars, StopInv
<1>18. ASSUME NEW c \in Conns, NEW from \in Busy, Finish(c, from)
      PROVE  StopInv'
  BY <1>18, <1>t DEF Finish, startVars, ctxVars, quicVars, stopVars, StopInv
<1>19. ASSUME NEW s \in Stoppers, StopReady(s) PROVE StopInv'
  BY <1>19, <1>t DEF StopReady, ctxVars, quicVars, handlerVars, trackerVars,
      StopInv
<1>20. ASSUME NEW s \in Stoppers, StopLocked(s) PROVE StopInv'
  BY <1>20, <1>t DEF StopLocked, DropQueued, quicVars, trackerVars, StopInv
<1>21. ASSUME NEW s \in Stoppers, CloseAll(s) PROVE StopInv'
  BY <1>21, <1>t DEF CloseAll, startVars, ctxVars, quicVars, StopInv
<1>22. ASSUME NEW s \in Stoppers, StopDone(s) PROVE StopInv'
  BY <1>22, <1>t DEF StopDone, StopReturn, startVars, ctxVars, quicVars,
      handlerVars, trackerVars, StopInv
<1>23. ASSUME NEW s \in Stoppers, StopTimesOut(s) PROVE StopInv'
  BY <1>23, <1>t DEF StopTimesOut, StopReturn, startVars, ctxVars, quicVars,
      handlerVars, trackerVars, StopInv
<1> QED BY Steps, <1>1, <1>2, <1>3, <1>4, <1>5, <1>6, <1>7, <1>8, <1>9,
           <1>10, <1>11, <1>12, <1>13, <1>14, <1>15, <1>16, <1>17, <1>18, <1>19,
           <1>20, <1>21, <1>22, <1>23

LEMMA TrackStep ==
    ASSUME TypeOK, TrackInv, Next
    PROVE  TrackInv'
<1>t. /\ hpc \in [Conns -> {"none", "queued", "accepted", "upgrade", "noStream",
                          "track", "read", "refused", "dial", "trackTarget",
                          "relay", "done"}]
      /\ qpc \in [Conns -> {"none", "loop", "done"}]
      /\ clientOpen \in [Conns -> BOOLEAN] /\ targetOpen \in [Conns -> BOOLEAN]
      /\ scur \in Conns
  BY DEF TypeOK
<1>1. CASE ListenFails
  BY <1>1, <1>t DEF ListenFails, ctxVars, quicVars, handlerVars, trackerVars,
      stopVars, TrackInv, AddKeeps
<1>2. CASE Listen
  BY <1>2, <1>t DEF Listen, ctxVars, quicVars, handlerVars, trackerVars,
      stopVars, TrackInv, AddKeeps
<1>3. CASE Assign
  BY <1>3, <1>t DEF Assign, quicVars, handlerVars, trackerVars, stopVars,
      TrackInv, AddKeeps
<1>4. CASE CloseReady
  BY <1>4, <1>t DEF CloseReady, ctxVars, quicVars, handlerVars, trackerVars,
      stopVars, TrackInv, AddKeeps
<1>5. CASE Spawn
  BY <1>5, <1>t DEF Spawn, Go, FirstStep, ctxVars, trackerVars, stopVars,
      TrackInv, AddKeeps
<1>6. CASE AcceptFails
  BY <1>6, <1>t DEF AcceptFails, ctxVars, quicVars, handlerVars, trackerVars,
      stopVars, TrackInv, AddKeeps
<1>7. CASE CancelParent
  BY <1>7, <1>t DEF CancelParent, startVars, quicVars, handlerVars,
      trackerVars, stopVars, TrackInv, AddKeeps
<1>8. ASSUME NEW c \in Conns, Accept(c) PROVE TrackInv'
  BY <1>8, <1>t DEF Accept, ctxVars, quicVars, trackerVars, stopVars, TrackInv,
      AddKeeps
<1>9. ASSUME NEW c \in Conns, TrackClient(c) PROVE TrackInv'
  <2>1. CASE trackerShut
    <3>1. /\ tracked' = tracked /\ ~clientOpen'[c] /\ hpc'[c] # "relay"
          /\ targetOpen' = targetOpen /\ trackerShut' = trackerShut
          /\ \A d \in Conns \ {c} :
                hpc'[d] = hpc[d] /\ clientOpen'[d] = clientOpen[d]
        <4>1. AddKeeps = FALSE
          BY <2>1 DEF AddKeeps
        <4> QED BY <1>9, <1>t, <4>1, HandleFacts DEF TrackClient, Track
    <3> QED BY <2>1, <3>1 DEF TrackInv
  <2>2. CASE ~trackerShut
    <3>1. /\ tracked' = tracked \cup {<<c, "client">>} /\ hpc[c] = "track"
          /\ hpc'[c] \in {"dial", "read"} /\ targetOpen' = targetOpen
          /\ trackerShut' = trackerShut
          /\ \A d \in Conns \ {c} :
                hpc'[d] = hpc[d] /\ clientOpen'[d] = clientOpen[d]
      BY <1>9, <1>t, <2>2, HandleFacts DEF TrackClient, Track, AddKeeps
    <3> QED BY <2>2, <3>1 DEF TrackInv
  <2> QED BY <2>1, <2>2
<1>10. ASSUME NEW c \in Conns, Dial(c) PROVE TrackInv'
  BY <1>10, <1>t, HandleFacts DEF Dial, startVars, ctxVars, quicVars,
      trackerVars, stopVars, TrackInv, AddKeeps
<1>11. ASSUME NEW c \in Conns, TrackTarget(c) PROVE TrackInv'
  BY <1>11, <1>t, HandleFacts DEF TrackTarget, startVars, ctxVars, quicVars,
      stopVars, TrackInv, Track, AddKeeps
<1>12. ASSUME NEW c \in Conns, StreamsEnd(c) PROVE TrackInv'
  BY <1>12, <1>t DEF StreamsEnd, startVars, ctxVars, trackerVars, stopVars,
      TrackInv, AddKeeps
<1>13. ASSUME NEW c \in Conns, Upgrade(c) PROVE TrackInv'
  BY <1>13, <1>t, HandleFacts DEF Upgrade, startVars, ctxVars, quicVars,
      trackerVars, stopVars, TrackInv, AddKeeps
<1>14. ASSUME NEW c \in Conns, ReadFrame(c) PROVE TrackInv'
  BY <1>14, <1>t, HandleFacts DEF ReadFrame, startVars, ctxVars, quicVars,
      trackerVars, stopVars, TrackInv, AddKeeps
<1>15. ASSUME NEW c \in Conns, AcceptStream(c) PROVE TrackInv'
  BY <1>15, <1>t, HandleFacts DEF AcceptStream, startVars, ctxVars, quicVars,
      trackerVars, stopVars, TrackInv, AddKeeps
<1>16. ASSUME NEW c \in Conns, ClientLeaves(c) PROVE TrackInv'
  BY <1>16, <1>t DEF ClientLeaves, startVars, ctxVars, trackerVars, stopVars,
      TrackInv, AddKeeps
<1>17. ASSUME NEW c \in Conns, ClientConnects(c) PROVE TrackInv'
  BY <1>17, <1>t DEF ClientConnects, startVars, ctxVars, quicVars, trackerVars,
      stopVars, TrackInv, AddKeeps
<1>18. ASSUME NEW c \in Conns, NEW from \in Busy, Finish(c, from)
      PROVE  TrackInv'
  BY <1>18, <1>t, HandleFacts DEF Finish, startVars, ctxVars, quicVars,
      stopVars, TrackInv, AddKeeps
<1>19. ASSUME NEW s \in Stoppers, StopReady(s) PROVE TrackInv'
  BY <1>19, <1>t DEF StopReady, ctxVars, quicVars, handlerVars, trackerVars,
      TrackInv, AddKeeps
<1>20. ASSUME NEW s \in Stoppers, StopLocked(s) PROVE TrackInv'
  BY <1>20, <1>t DEF StopLocked, DropQueued, quicVars, trackerVars, TrackInv,
      AddKeeps
<1>21. ASSUME NEW s \in Stoppers, CloseAll(s) PROVE TrackInv'
  BY <1>21, <1>t DEF CloseAll, startVars, ctxVars, quicVars, TrackInv, AddKeeps
<1>22. ASSUME NEW s \in Stoppers, StopDone(s) PROVE TrackInv'
  BY <1>22, <1>t DEF StopDone, StopReturn, startVars, ctxVars, quicVars,
      handlerVars, trackerVars, TrackInv, AddKeeps
<1>23. ASSUME NEW s \in Stoppers, StopTimesOut(s) PROVE TrackInv'
  BY <1>23, <1>t DEF StopTimesOut, StopReturn, startVars, ctxVars, quicVars,
      handlerVars, trackerVars, TrackInv, AddKeeps
<1> QED BY Steps, <1>1, <1>2, <1>3, <1>4, <1>5, <1>6, <1>7, <1>8, <1>9,
           <1>10, <1>11, <1>12, <1>13, <1>14, <1>15, <1>16, <1>17, <1>18, <1>19,
           <1>20, <1>21, <1>22, <1>23

\* When wg is 0, nothing that it counts runs.
LEMMA NobodyRuns ==
    ASSUME CountInv, wg = 0
    PROVE  \A c \in Conns : hpc[c] \notin Busy /\ qpc[c] # "loop"
<1>1. Cardinality(Handlers) = 0 /\ Cardinality(Loops) = 0
  BY CountFacts DEF CountInv
<1>2. Handlers = {} /\ Loops = {}
  BY <1>1, CountFacts, FS_EmptySet
<1> QED BY <1>2 DEF Handlers, Loops

LEMMA QuietStep ==
    ASSUME TypeOK, CountInv, StopInv, TrackInv, StoppedIsQuiet, Next
    PROVE  StoppedIsQuiet'
<1>t. /\ hpc \in [Conns -> {"none", "queued", "accepted", "upgrade", "noStream",
                          "track", "read", "refused", "dial", "trackTarget",
                          "relay", "done"}]
      /\ qpc \in [Conns -> {"none", "loop", "done"}]
      /\ clientOpen \in [Conns -> BOOLEAN] /\ targetOpen \in [Conns -> BOOLEAN]
      /\ scur \in Conns
  BY DEF TypeOK
<1>s. Stopped => /\ trackerShut /\ tracked = {}
                 /\ kind = "quic" => ctxDone
  BY DEF Stopped, StopInv, TrackInv
<1>h. Stopped => \A c \in Conns :
         /\ hpc[c] \in {"read", "refused", "dial", "trackTarget", "relay"} =>
               ~clientOpen[c]
         /\ hpc[c] = "relay" => ~targetOpen[c]
         /\ kind # "forward" => hpc[c] \notin {"dial", "trackTarget", "relay"}
  BY <1>s DEF TrackInv, StoppedIsQuiet, Stopped
<1>1. CASE ListenFails
  BY <1>1, <1>t DEF ListenFails, ctxVars, quicVars, handlerVars, trackerVars,
      stopVars, StoppedIsQuiet
<1>2. CASE Listen
  BY <1>2, <1>t DEF Listen, ctxVars, quicVars, handlerVars, trackerVars,
      stopVars, StoppedIsQuiet
<1>3. CASE Assign
  BY <1>3, <1>t DEF Assign, quicVars, handlerVars, trackerVars, stopVars,
      StoppedIsQuiet
<1>4. CASE CloseReady
  BY <1>4, <1>t DEF CloseReady, ctxVars, quicVars, handlerVars, trackerVars,
      stopVars, StoppedIsQuiet
<1>5. CASE Spawn
  BY <1>5, <1>t DEF Spawn, Go, FirstStep, ctxVars, trackerVars, stopVars,
      StoppedIsQuiet
<1>6. CASE AcceptFails
  BY <1>6, <1>t DEF AcceptFails, ctxVars, quicVars, handlerVars, trackerVars,
      stopVars, StoppedIsQuiet
<1>7. CASE CancelParent
  BY <1>7, <1>t DEF CancelParent, startVars, quicVars, handlerVars,
      trackerVars, stopVars, StoppedIsQuiet
<1>8. ASSUME NEW c \in Conns, Accept(c) PROVE StoppedIsQuiet'
  BY <1>8, <1>t DEF Accept, ctxVars, quicVars, trackerVars, stopVars,
      StoppedIsQuiet
<1>9. ASSUME NEW c \in Conns, TrackClient(c) PROVE StoppedIsQuiet'
  BY <1>9, <1>t, HandleFacts DEF TrackClient, startVars, ctxVars, quicVars,
      stopVars, StoppedIsQuiet
<1>10. ASSUME NEW c \in Conns, Dial(c) PROVE StoppedIsQuiet'
  BY <1>10, <1>t, HandleFacts DEF Dial, startVars, ctxVars, quicVars,
      trackerVars, stopVars, StoppedIsQuiet
<1>11. ASSUME NEW c \in Conns, TrackTarget(c) PROVE StoppedIsQuiet'
  <2>1. Stopped' => Stopped
    BY <1>11 DEF TrackTarget, Stopped, stopVars, startVars
  <2>2. Stopped => ~targetOpen'[c] /\ ~clientOpen[c] /\ kind = "forward"
    BY <1>11, <1>t, <1>s, <1>h, HandleFacts DEF TrackTarget, AddKeeps
  <2>3. /\ \A d \in Conns \ {c} :
              hpc'[d] = hpc[d] /\ targetOpen'[d] = targetOpen[d]
        /\ clientOpen' = clientOpen /\ kind' = kind
    BY <1>11, <1>t, HandleFacts DEF TrackTarget, startVars
  <2> QED BY <1>h, <2>1, <2>2, <2>3 DEF StoppedIsQuiet, Stopped
<1>12. ASSUME NEW c \in Conns, StreamsEnd(c) PROVE StoppedIsQuiet'
  BY <1>12, <1>t DEF StreamsEnd, startVars, ctxVars, trackerVars, stopVars,
      StoppedIsQuiet
<1>13. ASSUME NEW c \in Conns, Upgrade(c) PROVE StoppedIsQuiet'
  BY <1>13, <1>t, HandleFacts DEF Upgrade, startVars, ctxVars, quicVars,
      trackerVars, stopVars, StoppedIsQuiet
<1>14. ASSUME NEW c \in Conns, ReadFrame(c) PROVE StoppedIsQuiet'
  <2>1. Stopped' => Stopped
    BY <1>14 DEF ReadFrame, Stopped, stopVars, startVars
  <2>2. Stopped => kind = "quic" /\ ctxDone
    BY <1>14, <1>s, <1>h, HandleFacts DEF ReadFrame, Readable
  <2>3. /\ \A d \in Conns \ {c} : hpc'[d] = hpc[d]
        /\ ctxDone => hpc'[c] = "refused"
        /\ UNCHANGED <<kind, clientOpen, targetOpen>>
    BY <1>14, HandleFacts DEF ReadFrame, startVars
  <2> QED BY <1>h, <2>1, <2>2, <2>3 DEF StoppedIsQuiet, Stopped
<1>15. ASSUME NEW c \in Conns, AcceptStream(c) PROVE StoppedIsQuiet'
  BY <1>15, <1>t, HandleFacts DEF AcceptStream, startVars, ctxVars, quicVars,
      trackerVars, stopVars, StoppedIsQuiet
<1>16. ASSUME NEW c \in Conns, ClientLeaves(c) PROVE StoppedIsQuiet'
  BY <1>16, <1>t DEF ClientLeaves, startVars, ctxVars, trackerVars, stopVars,
      StoppedIsQuiet
<1>17. ASSUME NEW c \in Conns, ClientConnects(c) PROVE StoppedIsQuiet'
  BY <1>17, <1>t DEF ClientConnects, startVars, ctxVars, quicVars, trackerVars,
      stopVars, StoppedIsQuiet
<1>18. ASSUME NEW c \in Conns, NEW from \in Busy, Finish(c, from)
      PROVE  StoppedIsQuiet'
  BY <1>18, <1>t, HandleFacts DEF Finish, startVars, ctxVars, quicVars,
      stopVars, StoppedIsQuiet
<1>19. ASSUME NEW s \in Stoppers, StopReady(s) PROVE StoppedIsQuiet'
  BY <1>19, <1>t DEF StopReady, ctxVars, quicVars, handlerVars, trackerVars,
      StoppedIsQuiet
<1>20. ASSUME NEW s \in Stoppers, StopLocked(s) PROVE StoppedIsQuiet'
  BY <1>20, <1>t DEF StopLocked, DropQueued, quicVars, trackerVars,
      StoppedIsQuiet
<1>21. ASSUME NEW s \in Stoppers, CloseAll(s) PROVE StoppedIsQuiet'
  <2>1. Stopped' => Stopped
    BY <1>21 DEF CloseAll, Stopped, startVars, TypeOK
  <2>2. /\ \A d \in Conns : clientOpen'[d] => clientOpen[d]
        /\ \A d \in Conns : targetOpen'[d] => targetOpen[d]
        /\ UNCHANGED <<hpc, kind>>
    BY <1>21 DEF CloseAll, startVars
  <2> QED BY <1>h, <2>1, <2>2 DEF StoppedIsQuiet, Stopped
<1>22. ASSUME NEW s \in Stoppers, StopDone(s) PROVE StoppedIsQuiet'
  <2>1. \A c \in Conns : hpc[c] \notin Busy
    BY <1>22, NobodyRuns DEF StopDone
  <2> QED BY <1>22, <2>1 DEF StopDone, StopReturn, startVars, handlerVars,
                 Busy, StoppedIsQuiet
<1>23. ASSUME NEW s \in Stoppers, StopTimesOut(s) PROVE StoppedIsQuiet'
  BY <1>23, <1>t DEF StopTimesOut, StopReturn, startVars, ctxVars, quicVars,
      handlerVars, trackerVars, StoppedIsQuiet
<1> QED BY Steps, <1>1, <1>2, <1>3, <1>4, <1>5, <1>6, <1>7, <1>8, <1>9,
           <1>10, <1>11, <1>12, <1>13, <1>14, <1>15, <1>16, <1>17, <1>18, <1>19,
           <1>20, <1>21, <1>22, <1>23

LEMMA TypeStep ==
    ASSUME TypeOK, CountInv', Next
    PROVE  TypeOK'
<1> DEFINE HTypes == {"none", "queued", "accepted", "upgrade", "noStream",
                      "track", "read", "refused", "dial", "trackTarget",
                      "relay", "done"}
<1>w. wg' \in 0..(2 * Cardinality(Conns))
  <2> DEFINE h == Cardinality(Handlers')
             l == Cardinality(Loops')
             n == Cardinality(Conns)
  <2>1. h \in Nat /\ l \in Nat /\ n \in Nat /\ h <= n /\ l <= n
    BY SubsetFacts DEF Handlers, Loops
  <2>2. wg' = h + l
    BY DEF CountInv
  <2> HIDE DEF h, l, n
  <2>3. h + l \in 0..(2 * n)
    BY <2>1
  <2> QED BY <2>2, <2>3 DEF n
<1>q. Busy \subseteq HTypes
  BY DEF Busy
<1>1. CASE ListenFails
  BY <1>1, <1>w DEF TypeOK, ListenFails, ctxVars, quicVars, handlerVars,
      trackerVars, stopVars, FirstStep, AddKeeps
<1>2. CASE Listen
  BY <1>2, <1>w DEF TypeOK, Listen, ctxVars, quicVars, handlerVars,
      trackerVars, stopVars, FirstStep, AddKeeps
<1>3. CASE Assign
  BY <1>3, <1>w DEF TypeOK, Assign, quicVars, handlerVars, trackerVars,
      stopVars, FirstStep, AddKeeps
<1>4. CASE CloseReady
  BY <1>4, <1>w DEF TypeOK, CloseReady, ctxVars, quicVars, handlerVars,
      trackerVars, stopVars, FirstStep, AddKeeps
<1>5. CASE Spawn
  BY <1>5, <1>w DEF TypeOK, Spawn, Go, FirstStep, ctxVars, trackerVars,
      stopVars, AddKeeps
<1>6. CASE AcceptFails
  BY <1>6, <1>w DEF TypeOK, AcceptFails, ctxVars, quicVars, handlerVars,
      trackerVars, stopVars, FirstStep, AddKeeps
<1>7. CASE CancelParent
  BY <1>7, <1>w DEF TypeOK, CancelParent, startVars, quicVars, handlerVars,
      trackerVars, stopVars, FirstStep, AddKeeps
<1>8. ASSUME NEW c \in Conns, Accept(c) PROVE TypeOK'
  BY <1>8, <1>w DEF TypeOK, Accept, ctxVars, quicVars, trackerVars, stopVars,
      FirstStep, AddKeeps
<1>9. ASSUME NEW c \in Conns, TrackClient(c) PROVE TypeOK'
  BY <1>9, <1>w DEF TypeOK, Handle, Track, TrackClient, startVars, ctxVars,
      quicVars, stopVars, FirstStep, AddKeeps
<1>10. ASSUME NEW c \in Conns, Dial(c) PROVE TypeOK'
  BY <1>10, <1>w DEF TypeOK, Handle, Dial, startVars, ctxVars, quicVars,
      trackerVars, stopVars, FirstStep, AddKeeps
<1>11. ASSUME NEW c \in Conns, TrackTarget(c) PROVE TypeOK'
  BY <1>11, <1>w DEF TypeOK, Handle, Track, TrackTarget, startVars, ctxVars,
      quicVars, stopVars, FirstStep, AddKeeps
<1>12. ASSUME NEW c \in Conns, StreamsEnd(c) PROVE TypeOK'
  BY <1>12, <1>w DEF TypeOK, StreamsEnd, startVars, ctxVars, trackerVars,
      stopVars, FirstStep, AddKeeps
<1>13. ASSUME NEW c \in Conns, Upgrade(c) PROVE TypeOK'
  BY <1>13, <1>w DEF TypeOK, Handle, Upgrade, startVars, ctxVars, quicVars,
      trackerVars, stopVars, FirstStep, AddKeeps
<1>14. ASSUME NEW c \in Conns, ReadFrame(c) PROVE TypeOK'
  BY <1>14, <1>w DEF TypeOK, Handle, ReadFrame, startVars, ctxVars, quicVars,
      trackerVars, stopVars, FirstStep, AddKeeps
<1>15. ASSUME NEW c \in Conns, AcceptStream(c) PROVE TypeOK'
  BY <1>15, <1>w DEF TypeOK, Handle, AcceptStream, startVars, ctxVars,
      quicVars, trackerVars, stopVars, FirstStep, AddKeeps
<1>16. ASSUME NEW c \in Conns, ClientLeaves(c) PROVE TypeOK'
  BY <1>16, <1>w DEF TypeOK, ClientLeaves, startVars, ctxVars, trackerVars,
      stopVars, FirstStep, AddKeeps
<1>17. ASSUME NEW c \in Conns, ClientConnects(c) PROVE TypeOK'
  BY <1>17, <1>w DEF TypeOK, ClientConnects, startVars, ctxVars, quicVars,
      trackerVars, stopVars, FirstStep, AddKeeps
<1>18. ASSUME NEW c \in Conns, NEW from \in Busy, Finish(c, from)
      PROVE  TypeOK'
  BY <1>18, <1>w DEF TypeOK, Handle, Finish, startVars, ctxVars, quicVars,
      stopVars, FirstStep, AddKeeps
<1>19. ASSUME NEW s \in Stoppers, StopReady(s) PROVE TypeOK'
  BY <1>19, <1>w DEF TypeOK, StopReady, ctxVars, quicVars, handlerVars,
      trackerVars, FirstStep, AddKeeps
<1>20. ASSUME NEW s \in Stoppers, StopLocked(s) PROVE TypeOK'
  BY <1>20, <1>w DEF TypeOK, StopLocked, DropQueued, quicVars, trackerVars,
      FirstStep, AddKeeps
<1>21. ASSUME NEW s \in Stoppers, CloseAll(s) PROVE TypeOK'
  BY <1>21, <1>w DEF TypeOK, CloseAll, startVars, ctxVars, quicVars, FirstStep,
      AddKeeps
<1>22. ASSUME NEW s \in Stoppers, StopDone(s) PROVE TypeOK'
  BY <1>22, <1>w DEF TypeOK, StopDone, StopReturn, startVars, ctxVars,
      quicVars, handlerVars, trackerVars, FirstStep, AddKeeps
<1>23. ASSUME NEW s \in Stoppers, StopTimesOut(s) PROVE TypeOK'
  BY <1>23, <1>w DEF TypeOK, StopTimesOut, StopReturn, startVars, ctxVars,
      quicVars, handlerVars, trackerVars, FirstStep, AddKeeps
<1> QED BY Steps, <1>1, <1>2, <1>3, <1>4, <1>5, <1>6, <1>7, <1>8, <1>9,
           <1>10, <1>11, <1>12, <1>13, <1>14, <1>15, <1>16, <1>17, <1>18, <1>19,
           <1>20, <1>21, <1>22, <1>23

----------------------------------------------------------------------------
(* The theorems *)

LEMMA InitInv == Init => IInv
<1> SUFFICES ASSUME Init PROVE IInv
  OBVIOUS
<1>1. TypeOK
  <2>1. scur \in Conns
    BY ConnsAssumption DEF Init
  <2>2. wg \in 0..(2 * Cardinality(Conns))
    BY SubsetFacts DEF Init
  <2> QED BY <2>1, <2>2 DEF Init, TypeOK
<1>2. CountInv
  <2>1. Handlers = {} /\ Loops = {}
    BY DEF Init, Handlers, Loops, Busy
  <2> QED BY <2>1, FS_EmptySet DEF Init, CountInv
<1>3. SpawnInv /\ StopInv /\ TrackInv /\ StoppedIsQuiet
  BY DEF Init, SpawnInv, StopInv, TrackInv, StoppedIsQuiet
<1> QED BY <1>1, <1>2, <1>3 DEF IInv

LEMMA InvStep == IInv /\ [Next]_vars => IInv'
<1> SUFFICES ASSUME IInv, [Next]_vars PROVE IInv'
  OBVIOUS
<1>1. CASE Next
  BY <1>1, CountStep, TypeStep, SpawnStep, StopStep, TrackStep, QuietStep DEF IInv
<1>2. CASE UNCHANGED vars
  BY <1>2 DEF IInv, vars, TypeOK, CountInv, Handlers, Loops, SpawnInv, StopInv,
              TrackInv, StoppedIsQuiet
<1> QED BY <1>1, <1>2

\* The inductive invariant holds in every state of the inbound.
THEOREM Invariance == Spec => []IInv
BY InitInv, InvStep, PTL DEF Spec

\* Every variable keeps its type; in particular wg is never negative, which would
\* panic, and counts at most a handler and a stream loop for each connection.
THEOREM TypeCorrect == Spec => []TypeOK
BY Invariance, PTL DEF IInv

\* CloseAll reaches every open connection a handler may block on.
THEOREM Reachable == Spec => []BlockedIsTracked
<1>1. IInv => BlockedIsTracked
  BY DEF IInv, TrackInv, BlockedIsTracked
<1> QED BY <1>1, Invariance, PTL

\* After a Stop that reported success nothing is dialled or relayed any more.
THEOREM Quiet == Spec => []StoppedIsQuiet
BY Invariance, PTL DEF IInv

\* A Stop reports success only when no goroutine that was counted still runs.
THEOREM Ended == Spec => SuccessMeansEnded
<1> DEFINE Ends ==
        \A s \in Stoppers, c \in Conns :
            stpc[s] # "ok" /\ stpc'[s] = "ok" =>
                /\ hpc[c] \in {"none", "queued", "accepted", "noStream", "done"}
                /\ qpc[c] # "loop"
<1>1. ASSUME IInv, Next PROVE Ends
  <2> SUFFICES ASSUME NEW s \in Stoppers, NEW c \in Conns,
                      stpc[s] # "ok", stpc'[s] = "ok"
               PROVE  /\ hpc[c] \in {"none", "queued", "accepted", "noStream",
                                     "done"}
                      /\ qpc[c] # "loop"
    OBVIOUS
  <2>0. TypeOK /\ CountInv
    BY <1>1 DEF IInv
  <2>1. UNCHANGED stpc \/ \E t \in Stoppers :
            \/ StopReady(t) \/ StopLocked(t) \/ CloseAll(t)
            \/ StopDone(t) \/ StopTimesOut(t)
    BY <1>1, Steps DEF stopVars, ListenFails, Listen, Assign, CloseReady, Spawn,
           AcceptFails, CancelParent, Accept, TrackClient, Dial, TrackTarget,
           StreamsEnd, Upgrade, ReadFrame, AcceptStream, ClientLeaves,
           ClientConnects, Finish
  <2>2. PICK t \in Stoppers : StopDone(t)
    BY <2>0, <2>1 DEF StopReady, StopLocked, CloseAll, StopTimesOut, StopReturn,
           TypeOK
  <2>3. hpc[c] \notin Busy /\ qpc[c] # "loop"
    BY <2>0, <2>2, NobodyRuns DEF StopDone
  <2> QED BY <2>0, <2>3 DEF TypeOK, Busy
<1>2. IInv /\ [Next]_vars => [Ends]_vars
  BY <1>1
<1> QED BY <1>2, Invariance, PTL DEF Spec, SuccessMeansEnded
=============================================================================
