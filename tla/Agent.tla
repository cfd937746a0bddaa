------------------------------- MODULE Agent -------------------------------
(***************************************************************************)
(* internal/agent/agent.go: the Agent that starts its inbounds, replaces   *)
(* them when the configuration changes, and stops.  Three kinds of         *)
(* goroutines interleave: the one that calls Start and Stop, the one that  *)
(* runs ReloadConfig (the configuration watch loop, or any caller), and    *)
(* one per inbound handler that runs its Start.                            *)
(*                                                                         *)
(* A configuration gives every listen address the version of its inbound   *)
(* (0: none) and the version of the outbound; a handler is identified by   *)
(* its address and the generation that created it: 1 for Start, then one   *)
(* more for each ReloadConfig.  What a handler does inside is Inbound.tla; *)
(* what matters here is when its Start returns.  Over TCP (tcp, tls, ws,   *)
(* np-chain, forward) Accept blocks until the listener is closed, over     *)
(* QUIC it also ends with the agent's context, the listener still open.    *)
(***************************************************************************)
EXTENDS Naturals, FiniteSets

CONSTANTS
    Addrs,            \* listen addresses, as the configuration spells them
    Port,             \* the port each address binds
    Versions,         \* versions of an inbound or an outbound
    QuicInbounds,     \* the inbounds, by address and version, that are QUIC's
    FirstConfig,      \* the configuration given to New
    Configs,          \* those given to ReloadConfig
    MaxReloads,       \* bound: calls of ReloadConfig
    FromWatchLoop,    \* TRUE if the watch loop, counted by a.wg, reloads
    Envs              \* environments the agent may run in

ConfigType == [inbound : [Addrs -> Versions \cup {0}],
               outbound : Versions \cup {0}]

ASSUME ConfigAssumption ==
    /\ Addrs # {}
    /\ 0 \notin Versions
    /\ QuicInbounds \subseteq Addrs \X Versions
    /\ FirstConfig \in ConfigType
    /\ Configs \subseteq ConfigType
    /\ MaxReloads \in Nat
\* The ports that may be taken, by another process or by connections of a QUIC
\* listener that was closed, whether a handler's Stop may time out, and whether
\* Stop may be called during a reload.
ASSUME EnvAssumption ==
    /\ FromWatchLoop \in BOOLEAN
    /\ \A e \in Envs : /\ e.busyPorts \subseteq {Port[a] : a \in Addrs}
                      /\ {e.slowStops, e.stopMeetsReload} \subseteq BOOLEAN

VARIABLES
    env,         \* the environment; it does not change
    state,       \* a.state
    cancelled,   \* a.ctx is cancelled
    mpc,         \* where Start or Stop is
    stopping,    \* the addresses Stop, or Start's rollback, has yet to visit
    metReload,   \* Stop was called while a reload ran (a history variable)
    mu,          \* the writer that holds a.mu
    config,      \* a.config
    inbounds,    \* a.inbounds: the generation at each address, 0 for none
    router,      \* the version of the outbound the router has, 0 for none
    handler,     \* the state of every handler
    version,     \* the version every handler was created with
    seen,        \* what the goroutine of startAndWaitInbounds has seen
    rpc,         \* where ReloadConfig is
    gen,         \* the generation of the last call
    job,         \* its local variables
    result,      \* what it returned
    before       \* what ran when it was called (a history variable)

mainVars == <<env, state, cancelled, mpc, stopping, metReload>>
runVars == <<config, inbounds, router>>
handlerVars == <<handler, version, seen>>
reloadVars == <<rpc, gen, job, result, before>>
vars == <<env, state, cancelled, mpc, stopping, metReload, mu, config, inbounds, router,
          handler, version, seen, rpc, gen, job, result, before>>

Gens == 1..(MaxReloads + 1)
Handlers == Addrs \X Gens

Configured(c) == {a \in Addrs : c.inbound[a] # 0}

NoJob == [target |-> FirstConfig, added |-> {}, updated |-> {}, removed |-> {},
          todo |-> {}, cur |-> CHOOSE a \in Addrs : TRUE, bound |-> FALSE,
          done |-> {}, gone |-> {}, failed |-> FALSE, leaked |-> FALSE]

Serving == {a \in Addrs : /\ inbounds[a] # 0
                          /\ handler[<<a, inbounds[a]>>] = "listening"}

Snapshot == [inbounds |-> inbounds, config |-> config, router |-> router,
             serving |-> Serving]

Init ==
    /\ env \in Envs
    /\ state = "stopped"
    /\ cancelled = FALSE
    /\ mpc = "new"
    /\ stopping = {}
    /\ metReload = FALSE
    /\ mu = "free"
    /\ config = FirstConfig
    /\ inbounds = [a \in Addrs |-> 0]
    /\ router = 0
    /\ handler = [h \in Handlers |-> "none"]
    /\ version = [h \in Handlers |-> 0]
    /\ seen = [h \in Handlers |-> "none"]
    /\ rpc = "idle"
    /\ gen = 1
    /\ job = NoJob
    /\ result = "none"
    /\ before = Snapshot

----------------------------------------------------------------------------
(* Handlers *)

Quic(h) == <<h[1], version[h]>> \in QuicInbounds

\* The handlers whose listener is open.
Bound == {h \in Handlers : handler[h] \in {"unassigned", "listening", "left"}}

\* QUIC's port is one of UDP.
PortTaken(h) == \E g \in Bound : Port[g[1]] = Port[h[1]] /\ (Quic(g) <=> Quic(h))

\* Start has closed the ready channel, by itself or because it failed.
Ready(h) == handler[h] \in {"listening", "left", "failed", "closing", "returned"}

\* a.wg counts the goroutine that runs the handler's Start until it returns, and
\* the one of startAndWaitInbounds until it has seen what became of the handler.
Counted(h) == \/ handler[h] \in {"starting", "unassigned", "listening", "closing"}
              \/ seen[h] = "pending"

\* The goroutines that run Start begin; startAndWaitInbounds watches each.
Launch(hs, watched) ==
    /\ handler' = [h \in Handlers |-> IF h \in hs THEN "starting" ELSE handler[h]]
    /\ seen' = [h \in Handlers |-> IF h \in hs /\ watched THEN "pending" ELSE seen[h]]

\* Stop of a handler closes its listener if Start has already assigned it, also
\* when Start has left the listener open.
AfterStop(s) ==
    CASE s = "listening" -> "closing"
      [] s = "left"      -> "returned"
      [] OTHER           -> s

\* Wrong: Stop forgets to close the listener.
StopHandlerKeepsOpen(h) == UNCHANGED handler

StopHandler(h) == handler' = [handler EXCEPT ![h] = AfterStop(@)]

\* Stop waits ten seconds for the connections and then fails.
MayTimeOut(h, slow) ==
    slow => env.slowStops /\ handler[h] \in {"listening", "left", "closing", "returned"}

HandlerStep(h, from, to) ==
    /\ handler[h] = from
    /\ handler' = [handler EXCEPT ![h] = to]
    /\ UNCHANGED <<mainVars, mu, runVars, version, seen, reloadVars>>

Bind(h) == ~PortTaken(h) /\ HandlerStep(h, "starting", "unassigned")

BindFails(h) ==
    /\ PortTaken(h) \/ Port[h[1]] \in env.busyPorts
    /\ HandlerStep(h, "starting", "failed")

\* t.listener and t.cancel are assigned and ready is closed.
Assign(h) == HandlerStep(h, "unassigned", "listening")

\* Accept fails on the closed listener.
StartReturns(h) == HandlerStep(h, "closing", "returned")

\* Accept fails, with the listener open, when the context is done: Start returns.
\* That of QUIC is sure to fail then, the others for a passing reason only.
StartLeaves(h) == cancelled /\ HandlerStep(h, "listening", "left")

See(h, what) ==
    /\ seen[h] = "pending"
    /\ seen' = [seen EXCEPT ![h] = what]
    /\ UNCHANGED <<mainVars, mu, runVars, handler, version, reloadVars>>

\* The select of startAndWaitInbounds.  After a failed Start both channels are
\* ready, and either is taken.
SeeReady(h) == Ready(h) /\ See(h, "ready")
SeeError(h) == handler[h] = "failed" /\ See(h, "error")

\* readyWg.Wait returns.
AllSeen(hs) == \A h \in hs : seen[h] # "pending"
SomeFailed(hs) == \E h \in hs : seen[h] = "error"

----------------------------------------------------------------------------
(* Start and Stop *)

FirstHandlers == Configured(config) \X {1}

\* initOutbounds, and initInbounds up to the wait.
Start ==
    /\ mpc = "new"
    /\ state' = "starting"
    /\ router' = config.outbound
    /\ version' = [h \in Handlers |-> IF h \in FirstHandlers
                                      THEN config.inbound[h[1]] ELSE 0]
    /\ Launch(FirstHandlers, TRUE)
    /\ mpc' = "starting"
    /\ UNCHANGED <<env, cancelled, stopping, metReload, mu, config, inbounds, reloadVars>>

Started ==
    /\ mpc = "starting"
    /\ AllSeen(FirstHandlers)
    /\ ~SomeFailed(FirstHandlers)
    /\ inbounds' = [a \in Addrs |-> IF config.inbound[a] # 0 THEN 1 ELSE 0]
    /\ state' = "running"
    /\ mpc' = "up"
    /\ UNCHANGED <<env, cancelled, stopping, metReload, mu, config, router, handlerVars, reloadVars>>

\* One listener could not be bound: the others are stopped, in any order.
StartFails ==
    /\ mpc = "starting"
    /\ AllSeen(FirstHandlers)
    /\ SomeFailed(FirstHandlers)
    /\ stopping' = Configured(config)
    /\ mpc' = "rollback"
    /\ UNCHANGED <<env, state, cancelled, metReload, mu, runVars, handlerVars, reloadVars>>

StartRollback(a) ==
    /\ mpc = "rollback"
    /\ a \in stopping
    /\ stopping' = stopping \ {a}
    /\ StopHandler(<<a, 1>>)
    /\ UNCHANGED <<env, state, cancelled, mpc, metReload, mu, runVars, version, seen, reloadVars>>

StartFailed ==
    /\ mpc = "rollback"
    /\ stopping = {}
    /\ state' = "stopped"
    /\ mpc' = "failed"
    /\ UNCHANGED <<env, cancelled, stopping, metReload, mu, runVars, handlerVars, reloadVars>>

Stop ==
    /\ mpc = "up"
    /\ env.stopMeetsReload \/ rpc = "idle"
    /\ state' = "stopping"
    /\ cancelled' = TRUE
    /\ metReload' = (rpc # "idle")
    /\ mpc' = "lock"
    /\ UNCHANGED <<env, stopping, mu, runVars, handlerVars, reloadVars>>

StopLock ==
    /\ mpc = "lock"
    /\ mu = "free"
    /\ mu' = "stop"
    /\ stopping' = {a \in Addrs : inbounds[a] # 0}
    /\ mpc' = "stopping"
    /\ UNCHANGED <<env, state, cancelled, metReload, runVars, handlerVars, reloadVars>>

StopInbound(a) ==
    /\ mpc = "stopping"
    /\ a \in stopping
    /\ stopping' = stopping \ {a}
    /\ StopHandler(<<a, inbounds[a]>>)
    /\ UNCHANGED <<env, state, cancelled, mpc, metReload, mu, runVars, version, seen, reloadVars>>

StopUnlock ==
    /\ mpc = "stopping"
    /\ stopping = {}
    /\ mu' = "free"
    /\ mpc' = "wait"
    /\ UNCHANGED <<env, state, cancelled, stopping, metReload, runVars, handlerVars, reloadVars>>

\* Wrong: does not wait for the goroutines of the handlers.
NothingRunsUnchecked == TRUE

\* a.wg is zero.
NothingRuns == /\ \A h \in Handlers : ~Counted(h)
               /\ FromWatchLoop => rpc = "idle"

Stopped ==
    /\ mpc = "wait"
    /\ NothingRuns
    /\ state' = "stopped"
    /\ mpc' = "done"
    /\ UNCHANGED <<env, cancelled, stopping, metReload, mu, runVars, handlerVars, reloadVars>>

----------------------------------------------------------------------------
(* ReloadConfig *)

New(a) == <<a, gen>>

Return(what) ==
    /\ rpc' = "idle"
    /\ result' = what
    /\ UNCHANGED <<gen, before>>

Goto(where) ==
    /\ rpc' = where
    /\ UNCHANGED <<gen, result, before>>

\* Wrong: takes every inbound that stays for an updated one.
KeptInbounds(old, new) == Configured(old) \cap Configured(new)

\* Wrong: takes a removed inbound for an updated one.
AllChangedInbounds(old, new) == {a \in Addrs : old.inbound[a] # new.inbound[a]}

\* DiffConfig: the inbounds that stay with another configuration.
UpdatedInbounds(old, new) ==
    {a \in Configured(old) \cap Configured(new) : old.inbound[a] # new.inbound[a]}

\* The state is checked, the difference computed and the new handlers created;
\* a configuration without changes returns at once.
CallReload(c) ==
    LET kept == UpdatedInbounds(config, c)
        fresh == kept \cup (Configured(c) \ Configured(config))
    IN  /\ rpc = "idle"
        /\ gen <= MaxReloads
        /\ state = "running"
        /\ c # config
        /\ gen' = gen + 1
        /\ version' = [h \in Handlers |-> IF h \in fresh \X {gen + 1}
                                          THEN c.inbound[h[1]] ELSE version[h]]
        /\ job' = [NoJob EXCEPT !.target = c, !.todo = fresh,
                                !.removed = Configured(config) \ Configured(c)]
        /\ before' = Snapshot
        /\ result' = "none"
        /\ rpc' = "prepared"
        /\ UNCHANGED <<mainVars, mu, runVars, handler, seen>>

\* The configuration is invalid, or a handler cannot be created.
ReloadRejected ==
    /\ rpc = "idle"
    /\ gen <= MaxReloads
    /\ state = "running"
    /\ gen' = gen + 1
    /\ before' = Snapshot
    /\ result' = "rejected"
    /\ UNCHANGED <<mainVars, mu, runVars, handlerVars, rpc, job>>

\* commitDiff sorts the new handlers by whether their address is in use, and
\* startAndWaitInbounds launches those whose address is not.
Classify ==
    LET added == {a \in job.todo : inbounds[a] = 0}
    IN  /\ rpc = "prepared"
        /\ mu # "stop"
        /\ job' = [job EXCEPT !.added = added, !.updated = job.todo \ added, !.todo = {}]
        /\ Launch(added \X {gen}, TRUE)
        /\ Goto("phase1")
        /\ UNCHANGED <<mainVars, mu, runVars, version>>

AddedHandlers == job.added \X {gen}

AddedReady ==
    /\ rpc = "phase1"
    /\ AllSeen(AddedHandlers)
    /\ ~SomeFailed(AddedHandlers)
    /\ Goto(IF job.updated = {} THEN "apply" ELSE "lock")
    /\ UNCHANGED <<mainVars, mu, runVars, handlerVars, job>>

\* Wrong: returns without stopping the handlers that did start.
AddedFailKeepsOthers ==
    /\ rpc = "phase1"
    /\ AllSeen(AddedHandlers)
    /\ SomeFailed(AddedHandlers)
    /\ job' = [job EXCEPT !.todo = {}]
    /\ Goto("rollback")
    /\ UNCHANGED <<mainVars, mu, runVars, handlerVars>>

AddedFail ==
    /\ rpc = "phase1"
    /\ AllSeen(AddedHandlers)
    /\ SomeFailed(AddedHandlers)
    /\ job' = [job EXCEPT !.todo = job.added]
    /\ Goto("rollback")
    /\ UNCHANGED <<mainVars, mu, runVars, handlerVars>>

LockUpdates ==
    /\ rpc = "lock"
    /\ mu = "free"
    /\ mu' = "reload"
    /\ job' = [job EXCEPT !.todo = job.updated]
    /\ Goto("updating")
    /\ UNCHANGED <<mainVars, runVars, handlerVars>>

\* Wrong: starts the new handler while the old one still listens.
UpdateInboundKeepsOld(a) ==
    /\ rpc = "updating"
    /\ a \in job.todo
    /\ handler' = [handler EXCEPT ![New(a)] = "starting"]
    /\ mu' = "free"
    /\ job' = [job EXCEPT !.todo = job.todo \ {a}, !.cur = a]
    /\ Goto("awaiting")
    /\ UNCHANGED <<mainVars, runVars, version, seen>>

\* The old handler stops, the new one starts, and the lock is released.
UpdateInbound(a) ==
    /\ rpc = "updating"
    /\ a \in job.todo
    /\ handler' = [handler EXCEPT ![<<a, inbounds[a]>>] = AfterStop(@),
                                  ![New(a)] = "starting"]
    /\ mu' = "free"
    /\ job' = [job EXCEPT !.todo = job.todo \ {a}, !.cur = a]
    /\ Goto("awaiting")
    /\ UNCHANGED <<mainVars, runVars, version, seen>>

\* Stop of the old handler times out: it stays in the map, its listener closed.
UpdateSkipped(a) ==
    /\ rpc = "updating"
    /\ a \in job.todo
    /\ MayTimeOut(<<a, inbounds[a]>>, TRUE)
    /\ StopHandler(<<a, inbounds[a]>>)
    /\ job' = [job EXCEPT !.todo = job.todo \ {a}, !.failed = TRUE]
    /\ Goto("updating")
    /\ UNCHANGED <<mainVars, mu, runVars, version, seen>>

\* The select between the ready channel, the error of Start and a.ctx.
Awaited(bound) ==
    /\ rpc = "awaiting"
    /\ job' = [job EXCEPT !.bound = bound]
    /\ Goto("relock")
    /\ UNCHANGED <<mainVars, mu, runVars, handlerVars>>

UpdateReady == Ready(New(job.cur)) /\ Awaited(TRUE)
UpdateError == handler[New(job.cur)] = "failed" /\ Awaited(FALSE)
UpdateCancelled == cancelled /\ Awaited(FALSE)

UpdateEnds ==
    /\ rpc = "relock"
    /\ mu = "free"
    /\ mu' = "reload"
    /\ inbounds' = [inbounds EXCEPT ![job.cur] = IF job.bound THEN gen ELSE 0]
    /\ IF job.bound
          THEN /\ job' = [job EXCEPT !.done = job.done \cup {job.cur}]
               /\ UNCHANGED handler
          ELSE /\ job' = [job EXCEPT !.gone = job.gone \cup {job.cur}, !.failed = TRUE]
               /\ StopHandler(New(job.cur))
    /\ Goto("updating")
    /\ UNCHANGED <<mainVars, config, router, version, seen>>

\* Wrong: keeps a.mu locked.
UpdatesDoneLocked ==
    /\ rpc = "updating"
    /\ job.todo = {}
    /\ IF job.failed
          THEN job' = [job EXCEPT !.todo = job.added] /\ Goto("rollback")
          ELSE UNCHANGED job /\ Goto("apply")
    /\ UNCHANGED <<mainVars, mu, runVars, handlerVars>>

UpdatesDone ==
    /\ rpc = "updating"
    /\ job.todo = {}
    /\ mu' = "free"
    /\ IF job.failed
          THEN job' = [job EXCEPT !.todo = job.added] /\ Goto("rollback")
          ELSE UNCHANGED job /\ Goto("apply")
    /\ UNCHANGED <<mainVars, runVars, handlerVars>>

\* One of the added handlers is stopped; Stop may fail.
Rollback(a, slow) ==
    /\ rpc = "rollback"
    /\ a \in job.todo
    /\ MayTimeOut(New(a), slow)
    /\ StopHandler(New(a))
    /\ job' = [job EXCEPT !.todo = job.todo \ {a}, !.leaked = job.leaked \/ slow]
    /\ Goto("rollback")
    /\ UNCHANGED <<mainVars, mu, runVars, version, seen>>

\* Wrong: the reconciled configuration forgets the updates that succeeded.
ReconciledOld ==
    [config EXCEPT !.inbound =
        [a \in Addrs |-> IF a \in job.gone THEN 0 ELSE config.inbound[a]]]

\* storeReconciledConfig
Reconciled ==
    [config EXCEPT !.inbound =
        [a \in Addrs |-> IF a \in job.gone THEN 0
                         ELSE IF a \in job.done THEN job.target.inbound[a]
                         ELSE config.inbound[a]]]

\* Wrong: overlooks the inbounds that were stopped and did not start again.
FailureForgetsGone == IF job.done = {} /\ ~job.leaked THEN "error" ELSE "partial"

\* Nothing changed: an error; otherwise a PartialReloadError.
Failure ==
    IF job.done \cup job.gone = {} /\ ~job.leaked THEN "error" ELSE "partial"

RollbackDone ==
    /\ rpc = "rollback"
    /\ job.todo = {}
    /\ config' = Reconciled
    /\ Return(Failure)
    /\ UNCHANGED <<mainVars, mu, inbounds, router, handlerVars, job>>

LockApply ==
    /\ rpc = "apply"
    /\ mu = "free"
    /\ mu' = "reload"
    /\ job' = [job EXCEPT !.todo = job.removed]
    /\ Goto("removing")
    /\ UNCHANGED <<mainVars, runVars, handlerVars>>

\* The removed handler is forgotten even when its Stop fails.
RemoveInbound(a) ==
    /\ rpc = "removing"
    /\ a \in job.todo
    /\ IF inbounds[a] # 0 THEN StopHandler(<<a, inbounds[a]>>) ELSE UNCHANGED handler
    /\ inbounds' = [inbounds EXCEPT ![a] = 0]
    /\ job' = [job EXCEPT !.todo = job.todo \ {a}]
    /\ Goto("removing")
    /\ UNCHANGED <<mainVars, mu, config, router, version, seen>>

\* The added handlers enter the map; a changed outbound leaves the router ...
RegisterAdded ==
    /\ rpc = "removing"
    /\ job.todo = {}
    /\ inbounds' = [a \in Addrs |-> IF a \in job.added THEN gen ELSE inbounds[a]]
    /\ router' = IF job.target.outbound = config.outbound THEN router ELSE 0
    /\ Goto("outbound")
    /\ UNCHANGED <<mainVars, mu, config, handlerVars, job>>

\* ... and its new form enters it; the lock is released, the new configuration
\* stored.
ReloadDone ==
    /\ rpc = "outbound"
    /\ router' = job.target.outbound
    /\ mu' = "free"
    /\ config' = job.target
    /\ Return("ok")
    /\ UNCHANGED <<mainVars, inbounds, handlerVars, job>>

----------------------------------------------------------------------------
\* What a handler does by itself ...
HandlerRuns(h) ==
    \/ Bind(h) \/ BindFails(h) \/ Assign(h) \/ StartReturns(h)
    \/ Quic(h) /\ StartLeaves(h)
    \/ SeeReady(h) \/ SeeError(h)

\* ... and what may also happen to it.
HandlerActs(h) == HandlerRuns(h) \/ StartLeaves(h)

MainRuns ==
    \/ Started \/ StartFails \/ StartFailed \/ StopLock \/ StopUnlock \/ Stopped
    \/ \E a \in Addrs : StartRollback(a) \/ StopInbound(a)

ReloadRuns ==
    \/ Classify \/ AddedReady \/ AddedFail \/ LockUpdates \/ UpdateReady \/ UpdateError
    \/ UpdateCancelled \/ UpdateEnds \/ UpdatesDone \/ RollbackDone \/ LockApply
    \/ RegisterAdded \/ ReloadDone
    \/ \E a \in Addrs : UpdateInbound(a) \/ UpdateSkipped(a) \/ RemoveInbound(a)
    \/ \E a \in Addrs, slow \in BOOLEAN : Rollback(a, slow)

Next ==
    \/ Start \/ Stop \/ MainRuns
    \/ ReloadRejected \/ ReloadRuns
    \/ \E c \in Configs : CallReload(c)
    \/ \E h \in Handlers : HandlerActs(h)

Spec == Init /\ [][Next]_vars

\* Goroutines that can run do.  Nobody has to call Start, Stop or ReloadConfig.
FairSpec ==
    /\ Spec
    /\ WF_vars(MainRuns)
    /\ WF_vars(ReloadRuns)
    /\ \A h \in Handlers : WF_vars(HandlerRuns(h))

----------------------------------------------------------------------------
(* Properties *)

TypeOK ==
    /\ env \in Envs
    /\ state \in {"stopped", "starting", "running", "stopping"}
    /\ cancelled \in BOOLEAN
    /\ mpc \in {"new", "starting", "rollback", "failed", "up", "lock", "stopping",
                "wait", "done"}
    /\ stopping \subseteq Addrs
    /\ metReload \in BOOLEAN
    /\ mu \in {"free", "stop", "reload"}
    /\ config \in ConfigType
    /\ inbounds \in [Addrs -> Gens \cup {0}]
    /\ router \in Versions \cup {0}
    /\ handler \in [Handlers -> {"none", "starting", "unassigned", "listening",
                                 "left", "failed", "closing", "returned"}]
    /\ version \in [Handlers -> Versions \cup {0}]
    /\ \A h \in Handlers : handler[h] # "none" => version[h] # 0
    /\ seen \in [Handlers -> {"none", "pending", "ready", "error"}]
    /\ rpc \in {"idle", "prepared", "phase1", "lock", "updating", "awaiting",
                "relock", "rollback", "apply", "removing", "outbound"}
    /\ gen \in Gens
    /\ job \in [target : ConfigType, added : SUBSET Addrs, updated : SUBSET Addrs,
                removed : SUBSET Addrs, todo : SUBSET Addrs, cur : Addrs,
                bound : BOOLEAN, done : SUBSET Addrs, gone : SUBSET Addrs,
                failed : BOOLEAN, leaked : BOOLEAN]
    /\ result \in {"none", "ok", "error", "partial", "rejected"}
    /\ before \in [inbounds : [Addrs -> Gens \cup {0}], config : ConfigType,
                   router : Versions \cup {0}, serving : SUBSET Addrs]

\* Between two reloads the agent has started once and is not stopping.
Settled == state = "running" /\ rpc = "idle"

\* Whatever a reload returned, the stored configuration names the handlers in
\* the map, each with the version it was created from, and the outbound of the
\* router, so that the next difference is taken from what really runs.
ConfigIsRunning ==
    mpc \notin {"new", "starting", "rollback", "failed"} /\ rpc = "idle" =>
        /\ \A a \in Addrs : config.inbound[a] =
                IF inbounds[a] = 0 THEN 0 ELSE version[<<a, inbounds[a]>>]
        /\ router = config.outbound

\* Between two reloads every bound listener is one the agent can stop.
NoStrayListener == Settled => \A h \in Bound : inbounds[h[1]] = h[2]

\* An inbound that the new configuration leaves alone serves all through the
\* reload, failed or not.
UnchangedKeepsServing ==
    [][\A a \in Serving :
          cancelled' \/ (rpc # "idle" /\ config.inbound[a] # job.target.inbound[a])
          \/ a \in Serving']_vars

\* A reload that returns a plain error, which the watch loop will retry, has
\* changed nothing, neither the handlers, nor what they serve, nor the outbound,
\* as long as no Stop of a handler times out: one that does has already closed
\* the listener the reload takes to be running.
FailedReloadChangesNothing ==
    Settled /\ result = "error" /\ ~env.slowStops => Snapshot = before

\* Without foreign processes on its ports and without slow connections, no
\* reload fails and each configured inbound serves.
CleanReloadsSucceed ==
    Settled /\ env.busyPorts = {} /\ ~env.slowStops =>
        result \notin {"error", "partial"} /\ Serving = Configured(config)

\* When Stop has returned, every inbound is closed and none is about to listen,
\* but for one case: of a reload that Stop met, a new handler's listener may stay
\* open, its Start gone with the context.
StoppedIsClosed ==
    mpc = "done" => \A h \in Bound : handler[h] = "left" /\ metReload /\ h[2] = gen

\* ReloadConfig returns, also when the agent is stopped under it ...
ReloadReturns == rpc # "idle" ~> rpc = "idle"

\* ... and Stop returns, if it is called between two reloads.
StopReturns == ~env.stopMeetsReload => (state = "stopping" ~> state = "stopped")

\* The code's own claim for Stop: reloads exclude it, so it returns whenever it
\* is called.
AnyStopReturns == state = "stopping" ~> state = "stopped"
=============================================================================
