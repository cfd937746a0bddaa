# A verification development for NodePass

TLA+ models of the parts of NodePass (`src/internal`) in which several goroutines, nodes or processes meet, the TLC
runs that check them on small instances, and TLAPS proofs of their safety properties for every instance. `PROJECT.json`
lists the components, the runs, the mutants that show each property can fail, the lines each definition translates, the
hazards and the theorems.

## The system

NodePass is an agent that accepts client connections on *inbounds*, reads a small frame that carries a session id and a
chain of hops, asks the *router* for an *outbound*, and relays bytes between the two. A configuration file describes
inbounds, outbounds and routing rules, and is reloaded while the agent runs. A *control plane* keeps configurations for
many nodes. A *multiplexing layer* spreads one session over several connections and puts it back together.

| Part (under `src/internal`) | State | Operations | What is hard | What makes it correct |
|---|---|---|---|---|
| `mux/reassembler.go`, `flowcontrol.go` | per session: chunks, next and final number, bounded channel, `done`, `retrying`, credit | `Process`, `tryReassemble`, `retryReassemble`, `GetOutput`, `OnConsumed`, `RemoveSession` | a blocking send outside the lock, the right to send passed between goroutines, removal at any time | in order and complete, one sender, closed once and never under a sender, no chunk stranded, goroutines end |
| `mux/aggregator.go` | connections, round-robin counter, chunk size | `Write`, `Close` | 16- and 32-bit counters, a failed write in the middle, frames a broken connection swallows | what is written is read, and a stream that ends is whole |
| `inbound/*.go`, `conntracker.go` | listener, context, tracker, wait group | `Start`, accept loop, handlers, `Stop` | `Stop` at any moment, connections accepted while stopping, blocking reads | after `Stop` nothing serves, and everything ends |
| `inbound/tcp.go` (`handleNPChainStream`, `biRelay`), `outbound/*.go`, `protocol/npchain` | per session: two connections, two copies | read frame, route, dial, relay, half-close | ends and failures in either direction over several nodes | streams complete, ends arrive, sessions end, the target is the right one |
| `agent/agent.go` | state, context, `mu`, `reloadMu`, inbounds, outbounds, configuration, wait group | `Start`, `Stop`, `ReloadConfig` | a reload in three phases with locks released in between, rollback, `Stop` during a reload | the stored configuration is what runs, no listener lost, failure means no change, everything returns |
| `agent/agent.go` (watch loop) | last modification time | poll, load, reload | edits between the steps, retry or advance after an error, `Stop` at any moment | a change is never taken for done when it is not, and is applied in the end |
| `protocol/npchain/codec.go` | - | `Encode`, `Decode` | widths of count, port and address | what is decoded is what was encoded |
| `agent/lifecycle.go` | registered and started components | `StartAll`, `StopAll`, `GracefulShutdown` | rollback, timeout | stopped in reverse order, once |
| `routing/router.go` | outbounds, groups, rules, counters | `Route`, `AddOutbound`, `RemoveOutbound`, `UpdateRules` | routing under the read lock while the agent changes the tables step by step | groups list what is registered, turns are fair, a session gets what a configuration says |
| `control/server.go`, `client.go` | node records; token and version of the client | `Register`, `Heartbeat`, `ReportStats`, `GetConfig`, `SetNodeConfig` | calls lost, late, reordered or abandoned; restarts of either side | a client is not locked out and does not miss a version |
| `transport/*.go` | idle connections | `Get`, `Put`, `Close` | work outside the lock, `Close` meanwhile | no connection leaks or is used twice |

The agent creates inbounds and outbounds and hands the router to every inbound; an inbound's handler calls `Route` and
`Dial`. `Stop` of the agent cancels the context of all inbounds and calls their `Stop`; the watch loop calls
`ReloadConfig`. The multiplexing layer, the pools and the lifecycle manager are not called by the agent yet.

## The modules

| Module | Models | MC module, configurations |
|---|---|---|
| `InOrderDelivery` | the promise of the multiplexing layer to a reader (abstract) | - |
| `Reassembler` | one session of the reassembler | `MCReassembler`: `ReassemblerPaused` |
| `ReassemblerProofs` | theorems about `Reassembler` | - |
| `Mux` | an aggregator, its connections and a `Reassembler` at the other end | `MCMux`: `MCMux` |
| `MuxProofs` | theorems about `Mux` | - |
| `Inbound` | one TCP, WebSocket, forward or QUIC inbound | `MCInbound`: `MCInbound` |
| `InboundProofs` | theorems about `Inbound` | - |
| `NPCodec` | `Encode` and `Decode` of the chain of hops | - |
| `NPChain` | one session through a path of nodes, with the frames of `NPCodec` | `MCNPChain`: `MCNPChain`, `NPChainDoc` |
| `NPChainProofs` | theorems about `NPCodec` and `NPChain` | - |
| `Agent` | start, stop, reload | `MCAgent`: `MCAgent`, `AgentStopRace` |
| `ConfigWatch` | the agent of `Agent` under its watch loop, and the file | `MCConfigWatch`: `MCConfigWatch` |
| `AgentProofs` | theorems about `Agent` and `ConfigWatch` | - |
| `Router` | routing and its change during a reload | `MCRouter`: `MCRouter`, `RouterDetour` |
| `RouterProofs` | theorems about `Router` | - |
| `ControlPlane` | server, clients and administrator of the control plane | `MCControlPlane`: `MCControlPlane` |
| `ControlPlaneProofs` | theorems about `ControlPlane` | - |
| `ConnPool` | a TCP or QUIC connection pool | `ConnPool` |
| `ConnPoolProofs` | theorems about `ConnPool` | - |

Operators that begin a `\* Wrong:` comment are plausible mistakes in the definition below them. Nothing uses them; the
list of mutants in `PROJECT.json` puts one in the place of the right definition, and a property must then fail.

### Reassembler

A buffer is a `SessionBuffer`; buffer *b* is the *b*-th one stored under the session's id, so that a late frame after
`RemoveSession` creates the next. Every section under `sb.mu` is an action, except the loop of `tryReassemble`: it keeps
the lock for one action per chunk, as the consumer, who takes no lock, runs in between. The retry goroutine has a program
counter: it looks (`loop`), blocks on the channel outside the lock (`blocked`), accounts (`sent`), leaves (`exit`). A
chunk is its sequence number and counts one unit of the window.

`InOrder` says that every channel gets 0, 1, 2, ... whatever order frames come in. `SingleSender` says why: `retrying`
holds exactly while a retry goroutine lives, and then no worker is in the sending loop. `EndedIsClosed`,
`NoSendOnClosed` and `NoLostWakeup` are about the hand-over: the channel of an ended session is closed or has somebody
left to close it, is never closed under a sender, and a chunk that is next always has somebody to send it.
`ImplementsDelivery` maps it all to `InOrderDelivery`: the reader's chunks are `delivered`, the session is `removed` once
the map has forgotten the reader's buffer.

### Mux

`Mux` extends `Reassembler` with the other end: one `Write` of one session, cut into chunks (`WriteFrame`), each on the
next connection in turn. A connection keeps its frames in order (`queue`) and its reading goroutine is the worker that
calls `Process` (`Deliver`). A connection may break: the frames on their way are gone, and a later write either fails
(`WriteFails`, after which `Write` returns) or is taken by the kernel and lost (`WriteLost`). A unit of data stands for
bytes; the size field of a frame counts modulo `SizeMod`.

`EndMeansWhole` compares what the reader got with what was written, unit by unit: a stream that comes to its end, without
`RemoveSession`, is whole, although writes fail and frames are lost. `WrittenIsRead` is the other direction: what
`Write` sent completely is read to the end if no connection breaks and the consumer goes on. The run sets a chunk size
with `SetChunkSize`. The default of `NewAggregator`, 65536, does not fit the field (`aggregator.go:77`): with
`Requested = 0` `EndMeansWhole` fails, as a full chunk arrives empty. A second `Write` of the same session, which starts
at sequence number 0 again, is left out, and so is the wrap of the round-robin counter after 2^31 chunks.

### Inbound

`spc` is where `Start` is, `stpc` where each `Stop` is, `hpc` where each connection's handler is; the variable `kind`
picks the file: `ws` has a handshake before the connection is tracked, `forward` dials without reading, and `quic` has an
`Accept` that heeds the context and a goroutine for each connection that waits for its stream. The section under
`t.mu` in `Stop` finds the listener or does not (`assigned`). `connTracker.Add` closes a connection that comes after
`CloseAll`. `StopDone` needs the wait group at zero; `StopTimesOut` is always possible before that.

`StoppedIsQuiet` says what a successful `Stop` guarantees. `BlockedIsTracked` is the invariant behind it: whatever a
handler may block on for ever is in the tracker. `StopEndsStart` and `StopEndsHandlers` are the liveness of it; the first
holds only for a `Stop` that comes after the listener was assigned (`tcp.go:182-185`): an earlier one closes nothing and
`Start` goes on, contrary to the comment at `tcp.go:180-181`. Cancelling the context alone never ends `Start`, which
`common/types.go:23` promises.

`SuccessMeansEnded` is an action property: a `Stop` that returns success has seen every counted goroutine end. For QUIC an
early `Stop`, before the listener is assigned, is the exception of `StoppedIsQuiet`: it returns success, and `Start` then
serves. Closing the wrapped stream closes its write side only (`quic.go:118`), so `StopEndsHandlers` is claimed for
handlers of QUIC once the client has left; and not for a handler in the WebSocket handshake, which nothing interrupts
(`ws.go:91`).

### NPChain

Connections 0 to `Egress` join the client, the nodes and the target; each has two directions with the bytes in flight, a
flag that the writer has ended (`fin`) and one that the reader has gone (`shut`). `copying[n]` is the set of `io.Copy`
goroutines of node *n*'s `biRelay`. `UpEnds` and `DownEnds` are the end of a copy with the `CloseWrite` that follows;
towards the client there is one only if its connection is a `*net.TCPConn`.

`EndMeansAll`: an end that sees the stream end has received everything, if nothing broke the session off. `EndsArrive`:
the end of either direction arrives independently of the other, over TLS and WebSocket only once the client has ended its
own. `NothingLingers`: handlers end when both ends have closed and one of them had read to the end. If *both* break off
while bytes are in flight in *both* directions, it does not hold: node 1 waits to write to node 2, whose upward copy has
already failed, and node 2 to node 1, whose downward copy has. `EveryNodeSeesTheChain` states what the code does with the
hops: each outbound puts the target back, so each node decodes the client's own chain and the egress dials its first hop.

The frame a node sends is `Encode` of `NPCodec`. A hop is a kind of address, a length and a port; the port is written
modulo 2^16 and the count modulo 2^8 (`PortMod`, `CountMod`), and an address longer than an entry or one that is no
`host:port` is refused. So a chain of 256 hops arrives as none and a port above 65535 as another one; all nodes then
agree on what the first frame said, and `EveryNodeSeesTheChain` claims the client's chain only for chains that fit
(`Carried`).

### Agent

A handler is an address and the generation of its creation: 1 for `Start`, one more for each reload. `mpc` is the
goroutine of `Start` and `Stop`, `rpc` the one of `ReloadConfig`, and each handler has its state. What a handler does inside is
`Inbound`; here it matters when its `Start` returns and whether the listener is closed then. `QuicInbounds` says which
inbounds are QUIC's. Over TCP (tcp, tls, ws, np-chain, forward) `Accept` blocks until `Stop` of the handler has closed the
listener (`StartReturns`). Over QUIC it heeds the agent's context as well (`quic.go:94-103`): once that is cancelled
`Start` returns by itself, and its goroutine leaves `a.wg`, with the listener still open (`StartLeaves`, state `left`);
`Stop` of the handler, before or afterwards, closes it. An `Accept` of TCP may also fail for a passing reason while the
context is done and leaves in the same way (`tcp.go:192-201`), which is possible but never certain. `job` holds the
local variables of `commitDiff`: phase 1 starts what is added, phase 2 replaces what is updated one by one and releases
`a.mu` while it waits, phase 3 removes, registers and changes the outbound. The rigid variable `env` says what the
environment may do in a behaviour: which ports somebody else may hold (another process, or the connections of a QUIC
listener that was closed, which keep the socket until they end), whether a handler's `Stop` may time out, and
whether `Stop` may be called during a reload. The `select` in `startAndWaitInbounds` takes either branch when both
channels are ready.

`ConfigIsRunning` is what reconciliation is for: after every outcome the next difference is computed from what really
runs. `NoStrayListener` and `StoppedIsClosed` say that no listener is forgotten, the latter with an exception. `Stop`
stops the handlers that are in the map and waits for `a.wg`. If it meets a reload of the watch loop (`metReload`), the
handlers that reload has started may enter the map too late, or not at all. One of TCP then keeps `a.wg` from reaching
zero (`agent_stop_race`); one of QUIC does not, and its socket is still bound when `Stop` has returned. `StoppedIsClosed`
allows exactly these listeners: of the last reload, which `Stop` met, with their `Start` gone. `FailedReloadChangesNothing` justifies
the watch loop's retry after a plain error (`agent.go:808-820`), without slow stops. `CleanReloadsSucceed` is about an
environment in which nothing interferes. `UnchangedKeepsServing` is an action property: no step of a reload interrupts
an inbound that does not change.

### ConfigWatch

`ConfigWatch` extends `Agent` with the file (its contents and its modification time), somebody who edits, spoils or removes
it at any moment, and `configWatchLoop` in the steps between which the file or the agent may change: take the time,
load, call `ReloadConfig`, decide whether the time counts as dealt with. `a.wg` counts the loop, so `Stop` waits for it
while a reload that the loop has called waits for handlers.

`NothingForgotten`: while the loop waits and the file is not newer than the time it remembers, the agent has the
file's configuration, unless a reload succeeded in part, which the code treats as dealt with (`agent.go:813-820`).
`FileIsFollowed`: a newer file is taken over in the end when nothing interferes. Both leave out an edit between `New` and
the loop's first look at the file, which is lost, and every edit has a later modification time. `ReloadReturns` and
`StopReturns` are about the locks and `a.wg`, the latter for a `Stop` between reloads.

### Router

The agent's side follows `initOutbounds` and the third phase of `commitDiff`, one call of the router per step, and
`Route` may come between any two. Round robin has the three steps of `selectRoundRobin`: look the counter up, perhaps
store a new one (under the read lock, so two callers may), add and choose. `picks` counts who was chosen since the group
changed. A pattern is the set of sessions it matches.

### ControlPlane

A call is a request and a response that may be lost, late, or given up by the client (`GiveUp`), in which case the server
may still handle it. Handlers hold `s.mu` and are one step. A configuration is its number. The administrator reads a token
and sends a configuration with it; several may be on their way and arrive in any order, or after the node has registered
anew and are then refused. `Restart` empties the records; `ClientRestart` begins a client without token and version,
whose predecessor's last call may still be served.

`UpToDate` says that "no update" is never an error: a client whose version is not below the server's has the server's
data. It needs that client process and server share one record; a second `Register` of the same process starts the
versions again at 0 (`server.go:126`) and drops the configuration, while the client keeps its count.

### ConnPool

One module for both pools, as they share the shape of `Get`: the lock is released to probe (TCP) and to dial (both). A
TCP connection is taken out and put back; a QUIC connection stays in the pool and is shared, and `kind` tells them
apart. Connections die at any moment and `Close` may come between any two sections. `OneUser` is about TCP; `NothingLost`
says that an open connection is pooled or in somebody's hands, and that a closed pool holds none. QUIC connections dialled
while the pool was full or closed are its exception (`quic.go:78`): they are handed out, and nobody closes them.

## The runs

| Run | Shows | Bounds |
|---|---|---|
| `reassembler` | delivery from `Write` to the reader: order, single sender, closing, completeness, no stranded chunk, the abstract specification, and that all ends | 2 connections, 1 may break, 4 chunks of 2 units (the last of 1), channel of 1, 2 buffers |
| `reassembler_paused` (fails) | a reader that returns credit late is never resumed | window 1, 2 chunks held |
| `inbound` | safety and liveness of `Stop` for four inbounds | 2 connections, 2 concurrent `Stop`s |
| `npchain` | completeness, ends and termination of a session, hops | 2 nodes, 2 bytes each way, 1 in flight, 4 chains |
| `npchain_doc` (fails) | the documented chain makes the egress dial the relay | 3 nodes |
| `agent` | all safety of start, stop and reload | 2 addresses, one of them QUIC in its second version, 6 configurations, 2 reloads, 3 environments |
| `agent_liveness` | the file is followed; `ReloadConfig` and `Stop` return | 2 edits, 2 reloads, 2 configurations, one inbound that changes from TCP to QUIC and back, 3 environments |
| `agent_stop_race` (fails) | `Stop` during a reload may never return | 1 reload |
| `router` | groups, configuration and fairness through reloads | 2 callers, 4 sessions, 3 reloads |
| `router_detour` (fails) | a session routed by neither configuration | 1 caller, 1 reload |
| `control` | tokens, versions and data of a node | 1 node, 5 calls, 2 client processes, 2 registrations of each, 3 configurations, 1 server restart |
| `pool` | users, losses and return of `Get` for both pools | 3 users, pool of 2 |

The type invariants of `Mux`, `Router`, `ControlPlane`, `NPChain` and `ConnPool` are conjuncts of `EndMeansWhole`,
`GroupsMatch`, `RegisteredIsAccepted`, `EndMeansAll` and `NothingLost`.

Why the bounds are enough to be of interest: a channel of 1 fills at once, so every hand-over of the reassembler
happens, twice with 4 chunks; four chunks on two connections give each two frames, one of which a break can take; two buffers give a removed session and its successor. Two addresses let one reload contain an update
and a removal, an addition and a removal, or two updates of which one fails; a second reload starts from whatever the
first left behind. One byte in flight makes every writer block. A group of two with four sessions goes round twice. A
node of the control plane shares nothing with another one but the restart; two registrations with three
configurations let the server's count fall behind the client's, and two client processes let a call of the first be
served after those of the second. The chains include an empty one, one whose length does not fit the count, and one
whose port does not fit its field and whose address is spelled in another way. Two edits of the file let one come at each step of the loop and be followed by another. A pool of
two with three users is full, empty and shared. Deadlock is not checked where a system may come to
rest: sessions end, agents stop, and calls are bounded.

### What the failing runs show

- `reassembler_paused`: `tryReassemble` leaves its loop when the window is used up (`reassembler.go:133`) and only a new
  frame runs it again. When all frames have arrived, nothing does.
- `npchain_doc`: `docs/protocol.md:50-58` lets each node take its hop off the chain; `outbound/npchain.go:63` puts it back.
- `agent_stop_race`: `Stop` never takes `reloadMu`, despite the comment at `agent.go:292`. A reload of the watch loop goes
  on and registers a handler that nobody stops, for which `a.wg.Wait` waits.
- `router_detour`: the comment at `agent.go:438` calls the outbound changes atomic; between `RemoveOutbound` and
  `AddOutbound` a session falls through to another rule.

Further limits of the code are written into the conditions of properties; each disappears from the property, and TLC
shows why, when the condition is dropped: `env.slowStops` in `FailedReloadChangesNothing` (the old listener is closed
although the error says that nothing changed, `agent.go:567`), `TwoPorts` for `CleanReloadsSucceed` (one port under two
spellings), `MaxStarts = 1` for `GroupsMatch` (a repeated `Start` registers twice), one counter in `RoundRobinFair`, one
registration in `UpToDate`, no abandoned `Register` in `RegisteredIsAccepted`, `FromWatchLoop` for `StoppedIsClosed` (a
caller that `a.wg` does not count binds a listener after `Stop`), `metReload` in the same (the QUIC listener that a reload
leaves). `RouterIsConfig` needs no `MaxStarts = 1`: a repeated `Start` leaves duplicates, which `GroupsMatch` excludes,
but every configured outbound can still be chosen through its group.

A hazard in `PROJECT.json` names the properties that catch it, or a part of it; the note says which case they leave out.
Covered by no property are: the default chunk size and the wrap of the aggregator's counter, the WebSocket handshake that
nothing interrupts, two ends of a session that break off at once, a read error that looks like an end, the `select` of
`startAndWaitInbounds` that takes the wrong branch, sections of the configuration the difference does not compare, two
counters of one group, a repeated `Start`, a node that registers anew or whose abandoned `Register` is served late, and
QUIC connections dialled beside the pool.

## Fairness

Weak fairness of each goroutine's steps: the Go scheduler runs what can run, and a free mutex is acquired. Nothing is
assumed of clients, targets, administrators or callers of `Stop` and `RemoveSession`. Exceptions, all stated where they are used:
`ConsumerFinishes` assumes that connections deliver and that the consumer reads and returns credit (`EnvironmentFairness`);
`WrittenIsRead` that the consumer goes on (`ConsumerFairness`, a hypothesis of the property);
in `NPChain` both ends read what arrives, as `EndsArrive` is about receiving; a dial comes to an end one way or the other
(a TCP connect times out). In `ConfigWatch` strong fairness of `LoopExits`: the loop's `select` takes either of two ready
branches, and the ticker is ready only once per interval, so that the cancelled context is chosen in the end. Nobody has
to edit the file, to start or stop the agent, or to call `Get` or `Put`.

## What is proved

Every invariant and every action property that a passing run checks is also a theorem of its specification, and so is
the refinement: for any number of connections, buffers, nodes, callers, users and configurations, from the `ASSUME`s of
the modules, which say what kind of value each constant is. A theorem that needs more says so as a hypothesis of its own.

Almost none of the properties is inductive. A module of proofs therefore begins with the conjuncts of an invariant that is,
in most modules named `IInv` and proved as the theorem `Invariance`, followed by what the actions do (one lemma for each
action or group of actions), a lemma for each conjunct that they keep it, and the theorems.

### The multiplexing layer

`ReassemblerProofs`:

| Theorem | Statement |
|---|---|
| `Invariance` | `Spec => []IInv` |
| `TypeCorrect` | `Spec => []TypeOK` |
| `OneSender` | `Spec => []SingleSender` |
| `EndClosesOutput` | `Spec => []EndedIsClosed` |
| `Ordered` | `Spec => []InOrder` |
| `NeverSendsOnClosed` | `Spec => NoSendOnClosed` |
| `SessionInvariance` | `Spec => [](SessionInv /\ CreditInv)` |
| `WakeupsArrive` | `Spec => []NoLostWakeup`, if `Window >= Capacity + MaxHeld` |
| `Refinement` | `Spec => ImplementsDelivery` |

`IInv` adds to `TypeOK`: `LockInv`, who holds a buffer's lock in each state of a worker, and that a live retry goroutine
excludes a worker in the sending loop; `EndInv`, that a closed channel means a done session, that a done session is closed
or has a live retry goroutine, and that a live one means it is still open; `HeldInv`, that the chunk a retry goroutine
holds, while blocked on the channel or about to account for it, is the next one; `PrefixInv`, that what was sent is
0, 1, 2, ...; and `CountInv`, that the number sent, while the session has not ended, is `nextSeq`, plus one between a
blocking send and its accounting. `InOrder` follows from `PrefixInv`; `NoSendOnClosed` from `EndInv` before the step and a
case for every action that sends or closes.

Completeness needs the life of the session as well. `SessionInv` says that a buffer that was never stored is untouched, that
of the others all but the current and the one about to be closed have ended, that a current buffer that ended has sent every
chunk, and that the reader has read from its own buffer only. `CreditInv` bounds the flow controller's count by what the
channel holds and the reader has not reported. With that, a chunk that is next always has somebody to send it; the hypothesis
of `WakeupsArrive` is what the run `reassembler_paused` violates, and holds in the code (16 MB of window; 100 chunks of less
than 64 KB in the channel) for a reader that reports soon. `Refinement` maps every step to one of `InOrderDelivery` or a stutter.

`MuxProofs`, for any data, any connections and any breaks:

| Theorem | Statement |
|---|---|
| `ReceiverIsReassembler` | `MuxSpec => Spec` |
| `Whole` | `MuxSpec => []EndMeansWhole`, if `ChunkSize < SizeMod` |

The first lets all theorems of the reassembler hold behind an aggregator. The second adds that cutting and putting together
are inverse. `FlattenSeq` is recursive: that what it computes is the data follows by the least place at which the partial
results could differ from the pieces of the data. The hypothesis fails for the default chunk size, as said above.

### Inbounds

`InboundProofs`, for any number of connections and calls of `Stop`, and every kind:

| Theorem | Statement |
|---|---|
| `TypeCorrect` | `Spec => []TypeOK`; in particular the wait group is never negative |
| `Reachable` | `Spec => []BlockedIsTracked` |
| `Quiet` | `Spec => []StoppedIsQuiet` |
| `Ended` | `Spec => SuccessMeansEnded` |

`IInv` counts: `wg` is the number of handlers that run and of goroutines that accept streams (`CountInv`). `StopInv` says
what a `Stop` leaves for good: the context is done and the tracker shut, and a `Stop` that found the listener found it
assigned. `TrackInv` says that what a handler holds open once it has told the tracker is tracked, and nothing is tracked once
it is shut. `SpawnInv` places the connection between `Accept` and its goroutine.

### A session through the nodes

`NPChainProofs`:

| Theorem | Statement |
|---|---|
| `RoundTrip` | a chain that fits (`Carried`) is encoded, decodes, and decodes to itself |
| `ForwardedUnchanged` | a chain that was decoded once is carried unchanged by every further frame |
| `ChainKept` | `Spec => []EveryNodeSeesTheChain`, if chains are sequences of hops over some set of hosts |
| `Whole` | `Spec => []EndMeansAll` |

The first two are about `NPCodec` alone, for all widths of the count and the port, all sizes of an entry and all chains. The
argument goes hop by hop: an entry that was decoded has a port and a length that fit, so that a second wrap changes nothing.
`ChainKept` follows, for paths of any length: what reaches a node behind the first is what the first has decoded. For `Whole`,
`FlowInv` gives each direction a position at every place on the path, the number of bytes that have come so far: positions do
not rise along the way, each connection holds the bytes between two of them, and an end that is on its way has all bytes
ahead of it. Every step moves one position by one or leaves all alone.

### The agent and its watch loop

`AgentProofs`, for any addresses (at least one), ports, versions, configurations, reloads and environments:

| Theorem | Statement |
|---|---|
| `TypeCorrect` | `Spec => []TypeOK` |
| `Reconciles` | `Spec => []ConfigIsRunning` |
| `NoneForgotten` | `Spec => []NoStrayListener` |
| `Closed` | `Spec => []StoppedIsClosed`, if `FromWatchLoop`: closed are all listeners but those of the reload that `Stop` met whose `Start` has ended with the context |
| `FailureIsHarmless` | `Spec => []FailedReloadChangesNothing` |
| `CleanSucceeds` | `Spec => []CleanReloadsSucceed`, if no two addresses share a port (`OnePort`) |
| `KeepsServing` | `Spec => UnchangedKeepsServing` |
| `UnderTheLoop` | `WatchSpec => Spec` |
| `NothingIsForgotten` | `WatchSpec => []NothingForgotten` |

`IInv` says where a reload is and what its local variables mean there (`JobInv`): what is done, gone and still to do make up
what the two configurations differ in. `GenInv` says that a generation leaves no trace before its reload and that the handlers
of the running reload are those its variables tell. `ConfigInv` relates the map to the stored configuration for each address in the middle
of a reload (`Mid`) and to the new one before it is stored (`Applied`). `LiveInv` says who holds each handler that listens or
may yet: the map, the list of added ones, or the update that waits. `StopInv` is about the time after the context is
cancelled: a `Start` leaves its listener open only then, and a handler whose listener is open is one the running reload
has started, if `Stop` met it, or one of the map that `Stop` has yet to visit. With `a.wg` at zero `Closed` follows. `SameInv` compares with the state a reload found until it
stops its first handler; `CleanInv` says that nothing fails in a clean environment. The two hypotheses are the limits the runs
show: `agent_stop_race` and a reload from outside the loop, and one port under two spellings.

`UnderTheLoop` carries all of it over to the agent under its watch loop. `NothingIsForgotten` needs what the loop knows at
each step (`FileInv`, `LoopInv`): a time it has taken is not later than the file's, and if it is the file's, what was loaded
since is what the file holds.

### Router, control plane, pools

| Module | Theorem | Statement |
|---|---|---|
| `RouterProofs` | `Configured` | `Spec => []RouterIsConfig`: outbounds, rules, and every outbound in its group |
| | `Grouped` | `Spec => []GroupsMatch`, if `MaxStarts <= 1` |
| | `Fair` | `Spec => []RoundRobinFair`, if `MaxStarts <= 1` |
| `ControlPlaneProofs` | `Accepted` | `Spec => []RegisteredIsAccepted` |
| | `NothingMissed` | `Spec => []UpToDate` |
| | `Monotone` | `Spec => VersionNeverFalls` |
| `ConnPoolProofs` | `Exclusive` | `Spec => []OneUser` |
| | `Kept` | `Spec => []NothingLost` |

`Router`: `TodoInv` and `RegisteredInv` say for each step of the agent which outbounds are registered, between the stored and
the new configuration; `ListedInv` that a registered outbound is listed in its group, however often it was appended;
`FairInv` says that the members of a group were chosen equally often, and those since the turn began
once more, which is stronger than a difference of one and moves on with the counter. `main` starts the agent once; a second
`Start` after a failed one appends every outbound to its group again (`router.go:167`), hence the hypothesis.

`ControlPlane`: calls are numbered, so an answer that is on its way is the only one its client waits for (`AnswerInv`), and the
version in the request is the one the client still has (`VersionInv`). `SetsInv` counts the configurations still on their way,
`TokenInv` follows the token of a client that gave no `Register` up, and `DataInv` compares client and server as long as both
speak of one record.

`ConnPool`: `OwnInv` says when a user has a connection for itself, and that it is then open, not pooled and nobody else's;
`PlaceInv` where every open connection is.

### Only model-checked

Liveness: TLAPS proves nothing about `ENABLED`, so `WrittenIsRead`, `RetryExits`, `StopEndsStart`, `StopEndsHandlers`,
`EndsArrive`, `NothingLingers`, `ReloadReturns`, `StopReturns`, `FileIsFollowed` and `GetReturns` stay with TLC. The
properties of the failing runs do not hold, and their counterexamples are TLC's.

## Not modelled

Parsing, validation, framing (`wsconn.go`), TLS, logging and metrics have no state the properties could tell apart, and
constructors and the command line no behaviour. `GetNode` and `ListNodes` are read by the administrator, whose knowledge
of a token stands for them. Health checks only inform `least-load`, which may choose any member here; their loop holds
`a.mu` for reading for five seconds at most, and like the loop of the metrics ends with the context. A data race on the
map of counters may also abort the process: the model shows its other outcome, two counters.

The lifecycle manager (`agent/lifecycle.go`) is not used by any code of the program: it starts and stops a list under
one lock, and what could be said of it would be about its tests.

## Plan

The components that carry the program's logic are modelled, and their safety properties proved. What would add to that:

1. An abstract agent, "what runs is some configuration", which `Agent` implements in environments without slow stops, and an
   abstract router, "the answer of the old or the new configuration", for sessions whose rules a reload does not touch: both
   could be stated as refinements like `InOrderDelivery`, their step lemmas from `ConfigInv` and `RegisteredInv`.
2. The parts of liveness that are safety: a variant that every step of a reload or of a `Stop` lowers, as a theorem, with
   only the fairness argument left to TLC.
3. A second `Write` of one session through `Mux`, which starts at sequence number 0 again, and what its reader may see.
