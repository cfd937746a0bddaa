------------------------------ MODULE Inbound ------------------------------
(***************************************************************************)
(* One inbound of internal/inbound: Start binds the listener and accepts   *)
(* connections, each handled by a goroutine that registers it with the     *)
(* connTracker, reads the frame, dials the outbound, registers the target  *)
(* connection and relays; Stop cancels, closes the listener, force-closes  *)
(* what is tracked and waits at most ten seconds for the goroutines.       *)
(* tcp.go is the reference; tls.go and npchain.go have the same shape,     *)
(* ws.go upgrades the connection before it is registered, and forward.go   *)
(* dials its one target at once, reading no frame and heeding no context.  *)
(* quic.go has a goroutine per connection that accepts its streams and a   *)
(* handler per stream; each connection has at most one stream here.  The   *)
(* client side of a QUIC session is the stream: closing it closes only the *)
(* direction we write.                                                     *)
(***************************************************************************)
EXTENDS Naturals, FiniteSets

CONSTANTS
    Conns,        \* client connections that may arrive
    Stoppers,     \* goroutines that may call Stop
    QuicStoppers, \* bound: those that may call it on a QUIC inbound
    Kinds         \* which inbounds: "tcp", "ws", "forward", "quic"

ASSUME ConnsAssumption == IsFiniteSet(Conns) /\ Conns # {}
ASSUME StoppersAssumption == QuicStoppers \subseteq Stoppers
ASSUME KindAssumption == Kinds \subseteq {"tcp", "ws", "forward", "quic"}

VARIABLES
    kind,         \* the inbound modelled; it does not change
    spc,          \* where Start is
    scur,         \* the connection Accept has just returned
    listener,     \* the socket: "none", "open", "closed"
    assigned,     \* t.listener and t.cancel are set
    ready,        \* t.ready is closed
    ctxDone,      \* the inbound's own context is cancelled
    parentDone,   \* the context given to Start is cancelled
    hpc,          \* where the handler of each connection is
    qpc,          \* QUIC: the goroutine that accepts a connection's streams
    gone,         \* QUIC: the client has ended the connection
    clientOpen,   \* the accepted connection is open on our side
    targetOpen,   \* the dialled connection is open on our side
    tracked,      \* connTracker.conns: pairs of a connection and its side
    trackerShut,  \* connTracker.closed
    wg,           \* t.wg
    stpc,         \* where each Stop is
    inTime        \* the Stops that found a listener to close (history)

startVars == <<kind, spc, scur, listener, assigned, ready>>
ctxVars == <<ctxDone, parentDone>>
quicVars == <<qpc, gone>>
handlerVars == <<hpc, clientOpen, targetOpen, quicVars>>
trackerVars == <<tracked, trackerShut>>
stopVars == <<stpc, inTime>>
vars == <<kind, spc, scur, listener, assigned, ready, ctxDone, parentDone, hpc,
          qpc, gone, clientOpen, targetOpen, tracked, trackerShut, wg, stpc, inTime>>

Init ==
    /\ kind \in Kinds
    /\ spc = "listen"
    /\ scur = CHOOSE c \in Conns : TRUE
    /\ listener = "none"
    /\ assigned = FALSE
    /\ ready = FALSE
    /\ ctxDone = FALSE
    /\ parentDone = FALSE
    /\ hpc = [c \in Conns |-> "none"]
    /\ qpc = [c \in Conns |-> "none"]
    /\ gone = [c \in Conns |-> FALSE]
    /\ clientOpen = [c \in Conns |-> FALSE]
    /\ targetOpen = [c \in Conns |-> FALSE]
    /\ tracked = {}
    /\ trackerShut = FALSE
    /\ wg = 0
    /\ stpc = [s \in Stoppers |-> "idle"]
    /\ inTime = {}

----------------------------------------------------------------------------
\* Start

\* net.Listen fails; the deferred function still closes ready.
ListenFails ==
    /\ spc = "listen"
    /\ spc' = "failed"
    /\ ready' = TRUE
    /\ UNCHANGED <<kind, scur, listener, assigned, ctxVars, handlerVars, trackerVars,
                   wg, stopVars>>

Listen ==
    /\ spc = "listen"
    /\ listener' = "open"
    /\ spc' = "assign"
    /\ UNCHANGED <<kind, scur, assigned, ready, ctxVars, handlerVars, trackerVars, wg,
                   stopVars>>

\* The section under t.mu; the new context is born cancelled with its parent.
Assign ==
    /\ spc = "assign"
    /\ assigned' = TRUE
    /\ ctxDone' = parentDone
    /\ spc' = "ready"
    /\ UNCHANGED <<kind, scur, listener, ready, parentDone, handlerVars, trackerVars,
                   wg, stopVars>>

CloseReady ==
    /\ spc = "ready"
    /\ ready' = TRUE
    /\ spc' = "accept"
    /\ UNCHANGED <<kind, scur, listener, assigned, ctxVars, handlerVars, trackerVars,
                   wg, stopVars>>

\* A QUIC listener gives away what is queued even after it was closed.
Accept(c) ==
    /\ spc = "accept"
    /\ listener = "open" \/ kind = "quic"
    /\ hpc[c] = "queued"
    /\ scur' = c
    /\ clientOpen' = [clientOpen EXCEPT ![c] = TRUE]
    /\ hpc' = [hpc EXCEPT ![c] = "accepted"]
    /\ spc' = "spawn"
    /\ UNCHANGED <<kind, listener, assigned, ready, ctxVars, targetOpen, quicVars,
                   trackerVars, wg, stopVars>>

\* What a new handler does first.
FirstStep == CASE kind = "ws"   -> "upgrade"
               [] kind = "quic" -> "noStream"
               [] OTHER         -> "track"

\* The goroutine starts: the handler, or the one that accepts the streams.
Go(c) ==
    /\ hpc' = [hpc EXCEPT ![c] = FirstStep]
    /\ qpc' = [qpc EXCEPT ![c] = IF kind = "quic" THEN "loop" ELSE @]
    /\ UNCHANGED gone

\* Wrong: the goroutine itself calls wg.Add, after it was started.
SpawnUncounted ==
    /\ spc = "spawn"
    /\ UNCHANGED wg
    /\ Go(scur)
    /\ spc' = "accept"
    /\ UNCHANGED <<kind, scur, listener, assigned, ready, ctxVars, clientOpen,
                   targetOpen, trackerVars, stopVars>>

\* wg.Add, then the goroutine of the connection starts.
Spawn ==
    /\ spc = "spawn"
    /\ wg' = wg + 1
    /\ Go(scur)
    /\ spc' = "accept"
    /\ UNCHANGED <<kind, scur, listener, assigned, ready, ctxVars, clientOpen,
                   targetOpen, trackerVars, stopVars>>

\* After an error of Accept, Start returns if the context is done and tries
\* again if it is not.  That of QUIC ends with its context, the others only
\* with the listener.
AcceptEnds == listener = "closed" \/ (kind = "quic" /\ ctxDone)

AcceptFails ==
    /\ spc = "accept"
    /\ spc' = IF ctxDone THEN "returned" ELSE "accept"
    /\ UNCHANGED <<kind, scur, listener, assigned, ready, ctxVars, handlerVars,
                   trackerVars, wg, stopVars>>

----------------------------------------------------------------------------
\* The handler of a connection: handleNPChainStream

\* Wrong: does not ask whether the tracker is already closed.
AddAlwaysKeeps == TRUE

\* connTracker.Add closes a connection that comes after CloseAll ...
AddKeeps == ~trackerShut

\* ... and registers the others.
Track(c, side) ==
    tracked' = IF AddKeeps THEN tracked \cup {<<c, side>>} ELSE tracked

Handle(c, from, to) ==
    /\ hpc[c] = from
    /\ hpc' = [hpc EXCEPT ![c] = to]

\* The deferred functions: untrack, close both connections, wg.Done.
Finish(c, from) ==
    /\ Handle(c, from, "done")
    /\ tracked' = tracked \ {<<c, "client">>, <<c, "target">>}
    /\ clientOpen' = [clientOpen EXCEPT ![c] = FALSE]
    /\ targetOpen' = [targetOpen EXCEPT ![c] = FALSE]
    /\ wg' = wg - 1
    /\ UNCHANGED <<startVars, ctxVars, quicVars, trackerShut, stopVars>>

\* The WebSocket handshake: the client completes it or breaks it off.
Upgrade(c) ==
    /\ Handle(c, "upgrade", "track")
    /\ UNCHANGED <<startVars, ctxVars, clientOpen, targetOpen, quicVars, trackerVars,
                   wg, stopVars>>

UpgradeFails(c) == Finish(c, "upgrade")

TrackClient(c) ==
    /\ Handle(c, "track", IF kind = "forward" THEN "dial" ELSE "read")
    /\ Track(c, "client")
    /\ clientOpen' = [clientOpen EXCEPT ![c] = AddKeeps]
    /\ UNCHANGED <<startVars, ctxVars, targetOpen, quicVars, trackerShut, wg, stopVars>>

\* Reading from a connection that CloseAll or Add closed fails; a QUIC stream
\* that was closed can still be read.
Readable(c) == IF kind = "quic" THEN ~gone[c] ELSE clientOpen[c]

\* The frame arrives and decodes, and Route finds an outbound, whose Dial
\* refuses a context that is done.
ReadFrame(c) ==
    /\ Handle(c, "read", IF ctxDone THEN "refused" ELSE "dial")
    /\ Readable(c)
    /\ UNCHANGED <<startVars, ctxVars, clientOpen, targetOpen, quicVars, trackerVars,
                   wg, stopVars>>

\* The client goes away, sends nonsense or has no route.
ReadFails(c) == Readable(c) /\ Finish(c, "read")

ReadClosed(c) == ~Readable(c) /\ Finish(c, "read")

Dial(c) ==
    /\ Handle(c, "dial", "trackTarget")
    /\ targetOpen' = [targetOpen EXCEPT ![c] = TRUE]
    /\ UNCHANGED <<startVars, ctxVars, clientOpen, quicVars, trackerVars, wg, stopVars>>

\* The dial fails, times out or sees the cancelled context.
DialFails(c) == Finish(c, "dial") \/ Finish(c, "refused")

TrackTarget(c) ==
    /\ Handle(c, "trackTarget", "relay")
    /\ Track(c, "target")
    /\ targetOpen' = [targetOpen EXCEPT ![c] = AddKeeps]
    /\ UNCHANGED <<startVars, ctxVars, clientOpen, quicVars, trackerShut, wg, stopVars>>

\* Both peers finish and biRelay returns; over QUIC the client alone may end it
\* once the target is closed.
RelayEnds(c) ==
    /\ Readable(c)
    /\ targetOpen[c] \/ kind = "quic"
    /\ Finish(c, "relay")

\* biRelay returns when both of its connections are closed under it.
RelayClosed(c) == ~Readable(c) /\ ~targetOpen[c] /\ Finish(c, "relay")

----------------------------------------------------------------------------
\* handleConn of quic.go

\* Wrong: the stream's goroutine is not counted.
AcceptStreamUncounted(c) ==
    /\ qpc[c] = "loop"
    /\ Handle(c, "noStream", "track")
    /\ UNCHANGED <<startVars, ctxVars, clientOpen, targetOpen, quicVars, trackerVars,
                   wg, stopVars>>

\* A stream that is there is accepted, the context done or not.
AcceptStream(c) ==
    /\ qpc[c] = "loop"
    /\ Handle(c, "noStream", "track")
    /\ wg' = wg + 1
    /\ UNCHANGED <<startVars, ctxVars, clientOpen, targetOpen, quicVars, trackerVars,
                   stopVars>>

\* AcceptStream fails, and nobody closes the connection.
StreamsEnd(c) ==
    /\ qpc[c] = "loop"
    /\ ctxDone \/ gone[c]
    /\ qpc' = [qpc EXCEPT ![c] = "done"]
    /\ wg' = wg - 1
    /\ UNCHANGED <<startVars, ctxVars, hpc, gone, clientOpen, targetOpen, trackerVars,
                   stopVars>>

----------------------------------------------------------------------------
\* Stop, which may be called by several goroutines at a time.

\* readyOnce, and then the section under t.mu: cancel and close the listener.
StopReady(s) ==
    /\ stpc[s] = "idle"
    /\ kind = "quic" => s \in QuicStoppers
    /\ ready' = TRUE
    /\ stpc' = [stpc EXCEPT ![s] = "lock"]
    /\ UNCHANGED <<kind, spc, scur, listener, assigned, ctxVars, handlerVars,
                   trackerVars, wg, inTime>>

\* Closing the listener also drops the connections nobody has accepted, but for
\* QUIC, whose Accept may still return them.
DropQueued ==
    hpc' = [c \in Conns |-> IF assigned /\ kind # "quic" /\ hpc[c] = "queued"
                            THEN "done" ELSE hpc[c]]

\* Wrong: closes the listener and forgets to cancel the context.
StopWithoutCancel(s) ==
    /\ stpc[s] = "lock"
    /\ IF assigned
          THEN listener' = "closed"
          ELSE UNCHANGED listener
    /\ DropQueued
    /\ stpc' = [stpc EXCEPT ![s] = "closeAll"]
    /\ inTime' = IF assigned THEN inTime \cup {s} ELSE inTime
    /\ UNCHANGED <<kind, spc, scur, assigned, ready, ctxVars, clientOpen,
                   targetOpen, quicVars, trackerVars, wg>>

\* The section under t.mu.
StopLocked(s) ==
    /\ stpc[s] = "lock"
    /\ IF assigned
          THEN listener' = "closed" /\ ctxDone' = TRUE
          ELSE UNCHANGED <<listener, ctxDone>>
    /\ DropQueued
    /\ stpc' = [stpc EXCEPT ![s] = "closeAll"]
    /\ inTime' = IF assigned THEN inTime \cup {s} ELSE inTime
    /\ UNCHANGED <<kind, spc, scur, assigned, ready, parentDone, clientOpen,
                   targetOpen, quicVars, trackerVars, wg>>

\* Wrong: empties the map without closing what is in it.
CloseAllKeepsOpen(s) ==
    /\ stpc[s] = "closeAll"
    /\ trackerShut' = TRUE
    /\ tracked' = {}
    /\ stpc' = [stpc EXCEPT ![s] = "wait"]
    /\ UNCHANGED <<startVars, ctxVars, handlerVars, wg, inTime>>

\* Wrong: force-closes the connections of the clients only.
CloseClientsOnly(s) ==
    /\ stpc[s] = "closeAll"
    /\ trackerShut' = TRUE
    /\ clientOpen' = [c \in Conns |-> clientOpen[c] /\ <<c, "client">> \notin tracked]
    /\ UNCHANGED targetOpen
    /\ tracked' = {}
    /\ stpc' = [stpc EXCEPT ![s] = "wait"]
    /\ UNCHANGED <<startVars, ctxVars, hpc, quicVars, wg, inTime>>

\* connTracker.CloseAll
CloseAll(s) ==
    /\ stpc[s] = "closeAll"
    /\ trackerShut' = TRUE
    /\ clientOpen' = [c \in Conns |-> clientOpen[c] /\ <<c, "client">> \notin tracked]
    /\ targetOpen' = [c \in Conns |-> targetOpen[c] /\ <<c, "target">> \notin tracked]
    /\ tracked' = {}
    /\ stpc' = [stpc EXCEPT ![s] = "wait"]
    /\ UNCHANGED <<startVars, ctxVars, hpc, quicVars, wg, inTime>>

StopReturn(s, result) ==
    /\ stpc[s] = "wait"
    /\ stpc' = [stpc EXCEPT ![s] = result]
    /\ UNCHANGED <<startVars, ctxVars, handlerVars, trackerVars, wg, inTime>>

\* wg.Wait returns.
StopDone(s) == wg = 0 /\ StopReturn(s, "ok")

\* The ten seconds are over first.
StopTimesOut(s) == wg > 0 /\ StopReturn(s, "timedOut")

----------------------------------------------------------------------------
\* The environment

ClientConnects(c) ==
    /\ hpc[c] = "none"
    /\ listener = "open"
    /\ hpc' = [hpc EXCEPT ![c] = "queued"]
    /\ UNCHANGED <<startVars, ctxVars, clientOpen, targetOpen, quicVars, trackerVars,
                   wg, stopVars>>

\* The client of a QUIC connection ends it, which matters while somebody reads.
ClientLeaves(c) ==
    /\ qpc[c] = "loop" \/ hpc[c] \in {"track", "read", "dial", "trackTarget", "relay"}
    /\ kind = "quic"
    /\ ~gone[c]
    /\ gone' = [gone EXCEPT ![c] = TRUE]
    /\ UNCHANGED <<startVars, ctxVars, hpc, qpc, clientOpen, targetOpen, trackerVars,
                   wg, stopVars>>

\* The agent's context is cancelled, and the inbound's with it.
CancelParent ==
    /\ ~parentDone
    /\ parentDone' = TRUE
    /\ ctxDone' = (ctxDone \/ assigned)
    /\ UNCHANGED <<startVars, handlerVars, trackerVars, wg, stopVars>>

----------------------------------------------------------------------------
Start == ListenFails \/ Listen \/ Assign \/ CloseReady \/ Spawn
         \/ (AcceptEnds /\ AcceptFails)
         \/ \E c \in Conns : Accept(c)

\* What a handler does without its peers; a dial always comes to an end.
HandlerRuns(c) ==
    TrackClient(c) \/ ReadClosed(c) \/ Dial(c) \/ DialFails(c) \/ TrackTarget(c)
    \/ RelayClosed(c) \/ StreamsEnd(c)

\* What it does when the peers do something.
PeersAct(c) ==
    Upgrade(c) \/ UpgradeFails(c) \/ ReadFrame(c) \/ ReadFails(c) \/ RelayEnds(c)
    \/ AcceptStream(c) \/ ClientLeaves(c)

Stop(s) == StopLocked(s) \/ CloseAll(s) \/ StopDone(s) \/ StopTimesOut(s)

Next ==
    \/ Start
    \/ AcceptFails         \* also for a passing reason, the listener open
    \/ \E c \in Conns : HandlerRuns(c) \/ PeersAct(c) \/ ClientConnects(c)
    \/ \E s \in Stoppers : StopReady(s) \/ Stop(s)
    \/ CancelParent

Spec == Init /\ [][Next]_vars

\* Runnable goroutines run.  Clients and targets need never do anything, Stop
\* need not be called, and the context need not be cancelled.
FairSpec ==
    /\ Spec
    /\ WF_vars(Start)
    /\ \A c \in Conns : WF_vars(HandlerRuns(c))
    /\ \A s \in Stoppers : WF_vars(Stop(s))

----------------------------------------------------------------------------
(* Properties *)

TypeOK ==
    /\ kind \in Kinds
    /\ spc \in {"listen", "assign", "ready", "accept", "spawn", "returned",
                "failed"}
    /\ scur \in Conns
    /\ listener \in {"none", "open", "closed"}
    /\ {assigned, ready, ctxDone, parentDone, trackerShut} \subseteq BOOLEAN
    /\ hpc \in [Conns -> {"none", "queued", "accepted", "upgrade", "noStream",
                          "track", "read", "refused", "dial", "trackTarget",
                          "relay", "done"}]
    /\ qpc \in [Conns -> {"none", "loop", "done"}]
    /\ gone \in [Conns -> BOOLEAN]
    /\ clientOpen \in [Conns -> BOOLEAN]
    /\ targetOpen \in [Conns -> BOOLEAN]
    /\ tracked \subseteq Conns \X {"client", "target"}
    /\ wg \in 0..(2 * Cardinality(Conns))
    /\ stpc \in [Stoppers -> {"idle", "lock", "closeAll", "wait", "ok",
                              "timedOut"}]
    /\ inTime \subseteq Stoppers

StopBegun == \E s \in Stoppers : stpc[s] # "idle"

\* Once a Stop has returned without an error nothing is relayed, not even for
\* a connection accepted just before the listener closed, and nothing is
\* dialled either, except by forward.go, whose dial asks for no context.  A Stop
\* that comes before Start has set the listener leaves it open: what is accepted
\* later is closed at once, but a QUIC stream can be read all the same.
StoppedIsQuiet ==
    (\E s \in Stoppers : stpc[s] = "ok" /\ (kind = "quic" => s \in inTime)) =>
        \A c \in Conns :
            /\ kind # "forward" => hpc[c] \notin {"dial", "trackTarget", "relay"}
            /\ hpc[c] = "relay" => ~clientOpen[c] /\ ~targetOpen[c]

\* An open connection of a handler that may block on it for ever is known to
\* the tracker, so CloseAll reaches it.
BlockedIsTracked ==
    \A c \in Conns :
        /\ hpc[c] \in {"read", "relay"} /\ clientOpen[c] => <<c, "client">> \in tracked
        /\ hpc[c] = "relay" /\ targetOpen[c] => <<c, "target">> \in tracked

\* A Stop that reports success leaves no goroutine behind that was counted
\* before it: one that blocks beyond the reach of CloseAll, in a handshake or on
\* a QUIC stream, makes it report the timeout.  A connection that Accept had
\* just returned is not counted yet.
SuccessMeansEnded ==
    [][\A s \in Stoppers, c \in Conns :
          stpc[s] # "ok" /\ stpc'[s] = "ok" =>
              /\ hpc[c] \in {"none", "queued", "accepted", "noStream", "done"}
              /\ qpc[c] # "loop"]_vars

\* A Stop that comes after Start has set the listener ends Start, although
\* Accept asks for no context; an earlier one closes nothing.  Over QUIC Accept
\* does, so that the agent's context is enough.
StopEndsStart ==
    /\ assigned
    /\ (\E s \in Stoppers : stpc[s] = "lock") \/ (kind = "quic" /\ parentDone)
    ~> spc = "returned"

\* Every Stop, early or late, ends the handlers, whatever the clients and the
\* targets do; a WebSocket handshake is awaited without being tracked, so only
\* the handlers that are past it are sure to end, and a QUIC stream can be read
\* after its Close, so only those whose client has left.
StopEndsHandlers ==
    \A c \in Conns :
        /\ StopBegun
        /\ hpc[c] \in {"track", "read", "refused", "dial", "trackTarget", "relay"}
        /\ kind = "quic" => gone[c]
        ~> hpc[c] = "done"
=============================================================================
