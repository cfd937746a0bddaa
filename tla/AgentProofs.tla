---------------------------- MODULE AgentProofs ----------------------------
(***************************************************************************)
(* The inductive invariant of Agent and what follows from it, for any      *)
(* addresses, ports, versions and configurations, any number of reloads    *)
(* and any environment; then that of the watch loop of ConfigWatch, which  *)
(* takes over all that holds of Agent.                                     *)
(***************************************************************************)
EXTENDS ConfigWatch, TLAPS

\* Before Start has succeeded no reload runs and no handler is in the map.
Early == mpc \in {"new", "starting", "rollback", "failed"}

MainInv ==
    /\ state = "running" <=> mpc = "up"
    /\ cancelled <=> mpc \in {"lock", "stopping", "wait", "done"}
    /\ Early => /\ rpc = "idle" /\ gen = 1 /\ result = "none"
                /\ \A a \in Addrs : inbounds[a] = 0
    /\ mpc = "new" => \A h \in Handlers : handler[h] = "none" /\ seen[h] = "none"

\* The inbounds the reload is to change, from the stored configuration to its target.
Updated == UpdatedInbounds(config, job.target)
Added == Configured(job.target) \ Configured(config)
Removed == Configured(config) \ Configured(job.target)

Waiting == rpc \in {"awaiting", "relock"}

\* The local variables of a reload, by its place in commitDiff.
JobInv ==
    rpc # "idle" =>
        /\ job.removed = Removed
        /\ rpc = "prepared" => /\ job.todo = Updated \cup Added
                               /\ job.added = {} /\ job.updated = {}
        /\ rpc # "prepared" => job.added = Added /\ job.updated = Updated
        /\ rpc \in {"prepared", "phase1", "lock"} =>
              job.done = {} /\ job.gone = {} /\ ~job.failed /\ ~job.leaked
        /\ job.done \subseteq Updated /\ job.gone \subseteq Updated
        /\ job.done \cap job.gone = {}
        /\ rpc \in {"updating", "awaiting", "relock"} =>
              /\ job.todo \subseteq Updated
              /\ job.todo \cap (job.done \cup job.gone) = {}
              /\ ~job.failed => Updated = job.done \cup job.todo
                                            \cup (IF Waiting THEN {job.cur} ELSE {})
        /\ Waiting => job.cur \in Updated \ (job.todo \cup job.done \cup job.gone)
        /\ ~job.failed => job.gone = {}
        /\ rpc \in {"apply", "removing", "outbound"} => ~job.failed /\ job.done = Updated
        /\ rpc = "removing" => job.todo \subseteq Removed
        /\ rpc = "rollback" => job.todo \subseteq Added
        /\ job.leaked => env.slowStops
        /\ job.failed /\ ~env.slowStops => job.gone # {}

\* Nothing is known of a generation before its time.
LaterInv ==
    /\ \A h \in Handlers : h[2] > gen => handler[h] = "none" /\ seen[h] = "none"
    /\ \A a \in Addrs : inbounds[a] <= gen

\* While a reload runs, the handlers of its own are the ones its variables tell.
Own(a) ==
    /\ a \notin job.added => seen[New(a)] = "none"
    /\ handler[New(a)] # "none" =>
          a \in job.added \cup job.done \cup job.gone \cup (IF Waiting THEN {job.cur} ELSE {})
    /\ inbounds[a] = gen => a \in job.done \/ (rpc = "outbound" /\ a \in job.added)

GenInv == LaterInv /\ (rpc # "idle" => \A a \in Addrs : Own(a))

\* What startAndWaitInbounds has seen is so.
SeenInv ==
    /\ \A h \in Handlers :
          /\ seen[h] \in {"ready", "error"} => Ready(h)
          /\ seen[h] = "error" => handler[h] = "failed"
          /\ seen[h] = "pending" => handler[h] # "none"
    /\ mpc = "starting" => \A h \in FirstHandlers : seen[h] # "none"
    /\ rpc = "phase1" => \A h \in AddedHandlers : seen[h] # "none"

\* A handler in the map, or about to enter it, is past its start.
MapInv ==
    /\ \A a \in Addrs : inbounds[a] # 0 => Ready(<<a, inbounds[a]>>)
    /\ rpc \notin {"idle", "prepared", "phase1"} => \A h \in AddedHandlers : Ready(h)
    /\ rpc = "relock" /\ job.bound => Ready(New(job.cur))
    /\ Waiting => /\ inbounds[job.cur] # 0
                  /\ handler[<<job.cur, inbounds[job.cur]>>] \notin {"listening", "left"}

\* The version an address has in the map.
InMap(a) == IF inbounds[a] = 0 THEN 0 ELSE version[<<a, inbounds[a]>>]

\* A handler has the version it was created from, and the router the outbound.
FirstVersions ==
    mpc = "starting" => \A a \in Configured(config) : version[<<a, 1>>] = config.inbound[a]
NewVersions ==
    rpc # "idle" => \A a \in Updated \cup Added : version[New(a)] = job.target.inbound[a]
OutboundInv == mpc # "new" /\ rpc # "outbound" => router = config.outbound

\* How the map relates to the stored configuration in the middle of a reload ...
Mid(a) ==
    /\ a \in job.done => inbounds[a] = gen
    /\ a \in job.gone => inbounds[a] = 0
    /\ a \notin job.done \cup job.gone =>
          config.inbound[a] = InMap(a) \/ (rpc = "removing" /\ a \in Removed \ job.todo)
    /\ rpc = "removing" /\ a \in Removed \ job.todo => inbounds[a] = 0

\* ... and to the target at its end.
Applied(a) ==
    /\ job.target.inbound[a] = InMap(a)
    /\ a \in job.added => inbounds[a] = gen

ConfigInv ==
    /\ FirstVersions
    /\ NewVersions
    /\ OutboundInv
    /\ ~Early /\ rpc = "idle" => \A a \in Addrs : config.inbound[a] = InMap(a)
    /\ rpc \notin {"idle", "outbound"} => \A a \in Addrs : Mid(a)
    /\ rpc = "outbound" => \A a \in Addrs : Applied(a)

Live(h) == handler[h] \in {"starting", "unassigned", "listening"}

\* A handler that listens, or may yet, is in the map or in the hands of the reload.
Held(h) ==
    \/ inbounds[h[1]] = h[2]
    \/ /\ rpc # "idle" /\ h \in AddedHandlers
       /\ rpc = "rollback" => h[1] \in job.todo
    \/ Waiting /\ h = New(job.cur)

LiveInv ==
    /\ mpc = "starting" => \A h \in Handlers : Live(h) => h \in FirstHandlers
    /\ mpc = "rollback" => \A h \in Handlers :
          Live(h) => handler[h] = "listening" /\ h[2] = 1 /\ h[1] \in stopping
    /\ mpc = "failed" => \A h \in Handlers : ~Live(h)
    /\ mpc = "up" => \A h \in Handlers : Live(h) => Held(h)
    /\ mpc = "up" /\ rpc = "relock" /\ ~job.bound => handler[New(job.cur)] = "failed"

\* When Stop has returned no goroutine is left.
DoneInv == mpc = "done" /\ FromWatchLoop => NothingRuns

\* Of the others, a reload that Stop met has created them ...
Met(h) == metReload /\ h[2] = gen

\* ... and what is open after Stop was called is one of those, or Stop has yet to
\* visit it.
Open(h) == Live(h) \/ handler[h] = "left"
Kept(h) ==
    \/ Met(h)
    \/ mpc = "lock" /\ inbounds[h[1]] = h[2]
    \/ mpc = "stopping" /\ inbounds[h[1]] = h[2] /\ h[1] \in stopping

StopInv ==
    /\ \A h \in Handlers : handler[h] = "left" => cancelled
    /\ cancelled /\ rpc # "idle" => metReload
    /\ cancelled => \A h \in Handlers : Open(h) => Kept(h)

\* What a reload found is unchanged until it has stopped the first handler.
Untouched ==
    \/ rpc \in {"prepared", "phase1"}
    \/ rpc = "rollback" /\ job.done \cup job.gone = {}
    \/ rpc = "idle" /\ result = "error"

SameInv == mpc = "up" /\ ~env.slowStops /\ Untouched => Snapshot = before

OnePort == \A a, b \in Addrs : Port[a] = Port[b] => a = b

\* Every address has a port of its own that nobody else takes, and no handler is
\* slow to stop.
Clean == /\ OnePort /\ env.busyPorts = {} /\ ~env.slowStops
         /\ mpc \in {"new", "starting", "up"}

\* Then no handler fails.
AllWell ==
    /\ \A h \in Handlers : handler[h] # "failed"
    /\ rpc # "rollback"
    /\ result \notin {"error", "partial"}
    /\ mpc = "starting" => \A h \in FirstHandlers : Live(h)
    /\ mpc = "up" => \A a \in Addrs :
          inbounds[a] # 0 /\ ~(Waiting /\ a = job.cur) => handler[<<a, inbounds[a]>>] = "listening"
    /\ rpc # "idle" => job.gone = {}
    /\ Waiting => Live(New(job.cur))
    /\ rpc \notin {"idle", "prepared"} => \A h \in AddedHandlers : Live(h)

CleanInv == Clean => AllWell

IInv ==
    /\ TypeOK
    /\ MainInv
    /\ JobInv
    /\ GenInv
    /\ SeenInv
    /\ MapInv
    /\ ConfigInv
    /\ LiveInv
    /\ DoneInv
    /\ StopInv
    /\ SameInv
    /\ CleanInv

----------------------------------------------------------------------------
(* What the actions do *)

HandlerStates == {"none", "starting", "unassigned", "listening", "left", "failed",
                  "closing", "returned"}

HandlerType == [Handlers -> HandlerStates]
SeenType == [Handlers -> {"none", "pending", "ready", "error"}]
VersionType == [Handlers -> Versions \cup {0}]
MapType == [Addrs -> Gens \cup {0}]
JobType == [target : ConfigType, added : SUBSET Addrs, updated : SUBSET Addrs,
            removed : SUBSET Addrs, todo : SUBSET Addrs, cur : Addrs,
            bound : BOOLEAN, done : SUBSET Addrs, gone : SUBSET Addrs,
            failed : BOOLEAN, leaked : BOOLEAN]

\* How Stop of a handler changes its state is expanded wherever it is spoken of.
USE DEF AfterStop

\* The local variables of the reload a step leaves alone.
TargetKept == job'.target = job.target /\ job'.removed = job.removed
PlanKept == TargetKept /\ job'.added = job.added /\ job'.updated = job.updated
WaitKept == job'.cur = job.cur /\ (job'.bound <=> job.bound)
ResultKept == /\ job'.done = job.done /\ job'.gone = job.gone
              /\ job'.failed <=> job.failed
              /\ job'.leaked <=> job.leaked

LEMMA Types ==
    ASSUME TypeOK
    PROVE  /\ handler \in HandlerType /\ seen \in SeenType /\ version \in VersionType
           /\ inbounds \in MapType /\ job \in JobType
           /\ config \in ConfigType /\ config.inbound \in [Addrs -> Versions \cup {0}]
           /\ config.outbound \in Versions \cup {0}
           /\ job.target \in ConfigType
           /\ job.target.inbound \in [Addrs -> Versions \cup {0}]
           /\ job.target.outbound \in Versions \cup {0}
           /\ job.cur \in Addrs
           /\ {job.added, job.updated, job.removed, job.todo, job.done, job.gone}
                 \subseteq SUBSET Addrs
           /\ gen \in Gens /\ MaxReloads \in Nat
           /\ \A a \in Addrs : New(a) \in Handlers
           /\ \A a \in Addrs : inbounds[a] # 0 => <<a, inbounds[a]>> \in Handlers
<1>1. /\ handler \in HandlerType /\ seen \in SeenType /\ version \in VersionType
      /\ inbounds \in MapType /\ job \in JobType /\ config \in ConfigType /\ gen \in Gens
  BY DEF TypeOK, HandlerType, HandlerStates, SeenType, VersionType, MapType, JobType
<1>2. MaxReloads \in Nat
  BY ConfigAssumption
<1>3. /\ \A a \in Addrs : New(a) \in Handlers
      /\ \A a \in Addrs : inbounds[a] # 0 => <<a, inbounds[a]>> \in Handlers
  BY <1>1 DEF New, Handlers, MapType
<1>4. /\ job.target \in ConfigType /\ job.cur \in Addrs
      /\ {job.added, job.updated, job.removed, job.todo, job.done, job.gone}
                 \subseteq SUBSET Addrs
  BY <1>1 DEF JobType
<1>5. \A c \in ConfigType : /\ c.inbound \in [Addrs -> Versions \cup {0}]
                            /\ c.outbound \in Versions \cup {0}
  BY DEF ConfigType
<1> QED BY <1>1, <1>2, <1>3, <1>4, <1>5

LEMMA StartFacts ==
    ASSUME TypeOK, Start
    PROVE  /\ mpc = "new"
           /\ state' = "starting"
           /\ router' = config.outbound
           /\ mpc' = "starting"
           /\ \A g \in Handlers : handler'[g] =
                IF g \in FirstHandlers THEN "starting" ELSE handler[g]
           /\ \A g \in Handlers : version'[g] =
                IF g \in FirstHandlers THEN config.inbound[g[1]] ELSE 0
           /\ \A g \in Handlers : seen'[g] = IF g \in FirstHandlers
                                                THEN "pending" ELSE seen[g]
           /\ handler' \in HandlerType
           /\ seen' \in SeenType
           /\ version' \in VersionType
           /\ UNCHANGED <<env, cancelled, metReload, stopping, mu, config, inbounds, rpc,
                         gen, job, result, before>>
<1>1. 1 \in Gens /\ \A g \in Handlers : g[1] \in Addrs
  BY Types DEF Gens, Handlers
<1>2. \A g \in Handlers : g[1] \in Addrs => config.inbound[g[1]] \in Versions \cup {0}
  BY Types
<1> QED
  BY <1>1, <1>2, Types DEF Start, Launch, reloadVars, HandlerType, HandlerStates,
     SeenType, VersionType

LEMMA StartedFacts ==
    ASSUME TypeOK, Started
    PROVE  /\ mpc = "starting"
           /\ AllSeen(FirstHandlers)
           /\ ~SomeFailed(FirstHandlers)
           /\ state' = "running"
           /\ mpc' = "up"
           /\ \A b \in Addrs : inbounds'[b] = IF config.inbound[b] # 0 THEN 1 ELSE 0
           /\ inbounds' \in MapType
           /\ UNCHANGED <<env, cancelled, metReload, stopping, mu, config, router,
                         handler, version, seen, rpc, gen, job, result, before>>
<1>1. 1 \in Gens
  BY Types DEF Gens
<1> QED
  BY <1>1, Types DEF Started, handlerVars, reloadVars, MapType

LEMMA StartFailsFacts ==
    ASSUME TypeOK, StartFails
    PROVE  /\ mpc = "starting"
           /\ AllSeen(FirstHandlers)
           /\ stopping' = Configured(config)
           /\ mpc' = "rollback"
           /\ UNCHANGED <<env, state, cancelled, metReload, mu, config, inbounds, router,
                         handler, version, seen, rpc, gen, job, result, before>>
  BY Types DEF StartFails, runVars, handlerVars, reloadVars

LEMMA StartRollbackFacts ==
    ASSUME TypeOK, NEW a \in Addrs, StartRollback(a)
    PROVE  /\ mpc = "rollback"
           /\ a \in stopping
           /\ stopping' = stopping \ {a}
           /\ \A g \in Handlers : handler'[g] =
                IF g = <<a, 1>> THEN AfterStop(handler[g]) ELSE handler[g]
           /\ handler' \in HandlerType
           /\ UNCHANGED <<env, state, cancelled, metReload, mpc, mu, config, inbounds,
                         router, version, seen, rpc, gen, job, result, before>>
  BY Types DEF StartRollback, StopHandler, runVars, reloadVars, HandlerType,
     HandlerStates

LEMMA StartFailedFacts ==
    ASSUME TypeOK, StartFailed
    PROVE  /\ mpc = "rollback"
           /\ stopping = {}
           /\ state' = "stopped"
           /\ mpc' = "failed"
           /\ UNCHANGED <<env, cancelled, metReload, stopping, mu, config, inbounds,
                         router, handler, version, seen, rpc, gen, job,
                         result, before>>
  BY Types DEF StartFailed, runVars, handlerVars, reloadVars

LEMMA StopFacts ==
    ASSUME TypeOK, Stop
    PROVE  /\ mpc = "up"
           /\ state' = "stopping"
           /\ mpc' = "lock"
           /\ cancelled'
           /\ metReload' = (rpc # "idle")
           /\ UNCHANGED <<env, stopping, mu, config, inbounds, router,
                         handler, version, seen, rpc, gen, job, result, before>>
  BY Types DEF Stop, runVars, handlerVars, reloadVars

LEMMA StopLockFacts ==
    ASSUME TypeOK, StopLock
    PROVE  /\ mpc = "lock"
           /\ mu' = "stop"
           /\ stopping' = {a \in Addrs : inbounds[a] # 0}
           /\ mpc' = "stopping"
           /\ UNCHANGED <<env, state, cancelled, metReload, config, inbounds, router,
                         handler, version, seen, rpc, gen, job, result, before>>
  BY Types DEF StopLock, runVars, handlerVars, reloadVars

LEMMA StopInboundFacts ==
    ASSUME TypeOK, NEW a \in Addrs, StopInbound(a)
    PROVE  /\ mpc = "stopping"
           /\ a \in stopping
           /\ stopping' = stopping \ {a}
           /\ \A g \in Handlers : handler'[g] =
                IF g = <<a, inbounds[a]>> THEN AfterStop(handler[g]) ELSE handler[g]
           /\ handler' \in HandlerType
           /\ UNCHANGED <<env, state, cancelled, metReload, mpc, mu, config, inbounds,
                         router, version, seen, rpc, gen, job, result, before>>
  BY Types DEF StopInbound, StopHandler, runVars, reloadVars, HandlerType,
     HandlerStates

LEMMA StopUnlockFacts ==
    ASSUME TypeOK, StopUnlock
    PROVE  /\ mpc = "stopping"
           /\ stopping = {}
           /\ mu' = "free"
           /\ mpc' = "wait"
           /\ UNCHANGED <<env, state, cancelled, metReload, stopping, config, inbounds,
                         router, handler, version, seen, rpc, gen, job,
                         result, before>>
  BY Types DEF StopUnlock, runVars, handlerVars, reloadVars

LEMMA StoppedFacts ==
    ASSUME TypeOK, Stopped
    PROVE  /\ mpc = "wait"
           /\ NothingRuns
           /\ state' = "stopped"
           /\ mpc' = "done"
           /\ UNCHANGED <<env, cancelled, metReload, stopping, mu, config, inbounds,
                         router, handler, version, seen, rpc, gen, job,
                         result, before>>
  BY Types DEF Stopped, runVars, handlerVars, reloadVars

LEMMA CallReloadFacts ==
    ASSUME TypeOK, NEW c \in Configs, CallReload(c)
    PROVE  /\ rpc = "idle"
           /\ gen <= MaxReloads
           /\ state = "running"
           /\ gen' = gen + 1
           /\ before' = Snapshot
           /\ result' = "none"
           /\ rpc' = "prepared"
           /\ \A g \in Handlers : version'[g] =
                IF /\ g[2] = gen + 1
                   /\ g[1] \in UpdatedInbounds(config, c) \cup (Configured(c) \ Configured(config))
                THEN c.inbound[g[1]] ELSE version[g]
           /\ version' \in VersionType
           /\ job' \in JobType
           /\ job'.target = c
           /\ job'.todo = UpdatedInbounds(config, c) \cup (Configured(c) \ Configured(config))
           /\ job'.removed = Configured(config) \ Configured(c)
           /\ job'.added = {}
           /\ job'.updated = {}
           /\ job'.done = {}
           /\ job'.gone = {}
           /\ ~job'.failed
           /\ ~job'.leaked
           /\ job'.cur = NoJob.cur
           /\ ~job'.bound
           /\ UNCHANGED <<env, state, cancelled, metReload, mpc, stopping, mu, config,
                         inbounds, router, handler, seen>>
<1> DEFINE fresh == UpdatedInbounds(config, c) \cup (Configured(c) \ Configured(config))
<1>1. c \in ConfigType /\ c.inbound \in [Addrs -> Versions \cup {0}]
  BY ConfigAssumption DEF ConfigType
<1>2. fresh \subseteq Addrs /\ Configured(config) \ Configured(c) \subseteq Addrs
  BY DEF Configured, UpdatedInbounds
<1>3. /\ job' = [NoJob EXCEPT !.target = c, !.todo = fresh,
                              !.removed = Configured(config) \ Configured(c)]
      /\ version' = [h \in Handlers |-> IF h \in fresh \X {gen + 1}
                                        THEN c.inbound[h[1]] ELSE version[h]]
  BY DEF CallReload
<1>4. /\ job' \in JobType /\ job'.target = c /\ job'.todo = fresh
      /\ job'.removed = Configured(config) \ Configured(c)
      /\ job'.added = {} /\ job'.updated = {} /\ job'.done = {} /\ job'.gone = {}
      /\ ~job'.failed /\ ~job'.leaked /\ job'.cur = NoJob.cur /\ ~job'.bound
  <2> DEFINE first == CHOOSE a \in Addrs : TRUE
  <2>1. first \in Addrs
    BY ConfigAssumption
  <2>2. PICK no \in BOOLEAN : no = FALSE
    BY Zenon
  <2>3. NoJob = [target |-> FirstConfig, added |-> {}, updated |-> {}, removed |-> {},
                 todo |-> {}, cur |-> first, bound |-> no,
                 done |-> {}, gone |-> {}, failed |-> no, leaked |-> no]
    BY <2>2, Zenon DEF NoJob
  <2> HIDE DEF first, fresh
  <2>4. job' = [target |-> c, added |-> {}, updated |-> {},
                removed |-> Configured(config) \ Configured(c),
                todo |-> fresh, cur |-> first, bound |-> no,
                done |-> {}, gone |-> {}, failed |-> no, leaked |-> no]
    BY <1>3, <2>3
  <2> QED BY <1>1, <1>2, <2>1, <2>2, <2>3, <2>4 DEF JobType
<1>5. /\ \A g \in Handlers : version'[g] =
            IF g[2] = gen + 1 /\ g[1] \in fresh THEN c.inbound[g[1]] ELSE version[g]
      /\ version' \in VersionType
  <2> HIDE DEF fresh
  <2>1. \A g \in Handlers : g = <<g[1], g[2]>> /\ g[1] \in Addrs
    BY DEF Handlers
  <2>2. \A g \in Handlers : g \in fresh \X {gen + 1} <=> g[2] = gen + 1 /\ g[1] \in fresh
    BY <2>1
  <2> QED BY <1>1, <1>3, <2>1, <2>2, Types DEF VersionType
<1> QED
  BY <1>4, <1>5 DEF CallReload, mainVars, runVars

LEMMA ReloadRejectedFacts ==
    ASSUME TypeOK, ReloadRejected
    PROVE  /\ rpc = "idle"
           /\ gen <= MaxReloads
           /\ state = "running"
           /\ gen' = gen + 1
           /\ before' = Snapshot
           /\ result' = "rejected"
           /\ UNCHANGED <<env, state, cancelled, metReload, mpc, stopping, mu, config,
                         inbounds, router, handler, version, seen, rpc, job>>
  BY Types DEF ReloadRejected, mainVars, runVars, handlerVars, reloadVars

LEMMA ClassifyFacts ==
    ASSUME TypeOK, Classify
    PROVE  /\ rpc = "prepared"
           /\ rpc' = "phase1"
           /\ \A g \in Handlers : handler'[g] =
                IF g \in job'.added \X {gen} THEN "starting" ELSE handler[g]
           /\ \A g \in Handlers : seen'[g] =
                IF g \in job'.added \X {gen} THEN "pending" ELSE seen[g]
           /\ handler' \in HandlerType
           /\ seen' \in SeenType
           /\ job' \in JobType
           /\ job'.added = {a \in job.todo : inbounds[a] = 0}
           /\ job'.updated = job.todo \ {a \in job.todo : inbounds[a] = 0}
           /\ job'.todo = {}
           /\ TargetKept
           /\ WaitKept
           /\ ResultKept
           /\ UNCHANGED <<env, state, cancelled, metReload, mpc, stopping, mu, config,
                         inbounds, router, version, gen, result, before>>
  BY Types DEF Classify, Goto, Launch, mainVars, runVars, handlerVars,
     reloadVars, HandlerType, HandlerStates, SeenType, JobType, TargetKept,
     WaitKept, ResultKept

LEMMA AddedReadyFacts ==
    ASSUME TypeOK, AddedReady
    PROVE  /\ rpc = "phase1"
           /\ AllSeen(AddedHandlers)
           /\ ~SomeFailed(AddedHandlers)
           /\ rpc' = IF job.updated = {} THEN "apply" ELSE "lock"
           /\ UNCHANGED <<env, state, cancelled, metReload, mpc, stopping, mu, config,
                         inbounds, router, handler, version, seen, gen, job,
                         result, before>>
  BY Types DEF AddedReady, Goto, mainVars, runVars, handlerVars, reloadVars

LEMMA AddedFailFacts ==
    ASSUME TypeOK, AddedFail
    PROVE  /\ rpc = "phase1"
           /\ AllSeen(AddedHandlers)
           /\ SomeFailed(AddedHandlers)
           /\ rpc' = "rollback"
           /\ job' \in JobType
           /\ job'.todo = job.added
           /\ PlanKept
           /\ WaitKept
           /\ ResultKept
           /\ UNCHANGED <<env, state, cancelled, metReload, mpc, stopping, mu, config,
                         inbounds, router, handler, version, seen, gen,
                         result, before>>
  BY Types DEF AddedFail, Goto, mainVars, runVars, handlerVars, reloadVars,
     JobType, PlanKept, TargetKept, WaitKept, ResultKept

LEMMA LockUpdatesFacts ==
    ASSUME TypeOK, LockUpdates
    PROVE  /\ rpc = "lock"
           /\ mu' = "reload"
           /\ rpc' = "updating"
           /\ job' \in JobType
           /\ job'.todo = job.updated
           /\ PlanKept
           /\ WaitKept
           /\ ResultKept
           /\ UNCHANGED <<env, state, cancelled, metReload, mpc, stopping, config,
                         inbounds, router, handler, version, seen, gen,
                         result, before>>
  BY Types DEF LockUpdates, Goto, mainVars, runVars, handlerVars, reloadVars,
     JobType, PlanKept, TargetKept, WaitKept, ResultKept

LEMMA UpdateInboundFacts ==
    ASSUME TypeOK, NEW a \in Addrs, UpdateInbound(a)
    PROVE  /\ rpc = "updating"
           /\ a \in job.todo
           /\ mu' = "free"
           /\ rpc' = "awaiting"
           /\ \A g \in Handlers : handler'[g] =
                IF g = New(a) THEN "starting"
                ELSE IF g = <<a, inbounds[a]>> THEN AfterStop(handler[g]) ELSE handler[g]
           /\ handler' \in HandlerType
           /\ job' \in JobType
           /\ job'.todo = job.todo \ {a}
           /\ job'.cur = a
           /\ PlanKept
           /\ ResultKept
           /\ job'.bound <=> job.bound
           /\ UNCHANGED <<env, state, cancelled, metReload, mpc, stopping, config,
                         inbounds, router, version, seen, gen, result, before>>
  BY Types DEF UpdateInbound, Goto, mainVars, runVars, handlerVars,
     reloadVars, HandlerType, HandlerStates, JobType, PlanKept, TargetKept,
     ResultKept

LEMMA UpdateSkippedFacts ==
    ASSUME TypeOK, NEW a \in Addrs, UpdateSkipped(a)
    PROVE  /\ rpc = "updating"
           /\ a \in job.todo
           /\ env.slowStops
           /\ rpc' = "updating"
           /\ \A g \in Handlers : handler'[g] =
                IF g = <<a, inbounds[a]>> THEN AfterStop(handler[g]) ELSE handler[g]
           /\ handler' \in HandlerType
           /\ job' \in JobType
           /\ job'.todo = job.todo \ {a}
           /\ job'.failed
           /\ PlanKept
           /\ WaitKept
           /\ job'.done = job.done
           /\ job'.gone = job.gone
           /\ job'.leaked <=> job.leaked
           /\ UNCHANGED <<env, state, cancelled, metReload, mpc, stopping, mu, config,
                         inbounds, router, version, seen, gen, result, before>>
  BY Types DEF UpdateSkipped, Goto, StopHandler, mainVars, runVars,
     MayTimeOut, handlerVars, reloadVars, HandlerType, HandlerStates,
     JobType, PlanKept, TargetKept, WaitKept

LEMMA AwaitedFacts ==
    ASSUME TypeOK, NEW bound \in BOOLEAN, Awaited(bound)
    PROVE  /\ rpc = "awaiting"
           /\ rpc' = "relock"
           /\ job'.bound <=> bound
           /\ job' \in JobType
           /\ PlanKept
           /\ ResultKept
           /\ job'.todo = job.todo
           /\ job'.cur = job.cur
           /\ UNCHANGED <<env, state, cancelled, metReload, mpc, stopping, mu, config,
                         inbounds, router, handler, version, seen, gen,
                         result, before>>
  BY Types DEF Awaited, Goto, mainVars, runVars, handlerVars, reloadVars,
     JobType, PlanKept, TargetKept, ResultKept

LEMMA UpdateEndsFacts ==
    ASSUME TypeOK, UpdateEnds
    PROVE  /\ rpc = "relock"
           /\ mu' = "reload"
           /\ rpc' = "updating"
           /\ \A g \in Handlers : handler'[g] =
                IF ~job.bound /\ g = New(job.cur) THEN AfterStop(handler[g])
                ELSE handler[g]
           /\ job'.failed <=> job.failed \/ ~job.bound
           /\ \A b \in Addrs : inbounds'[b] =
                IF b = job.cur THEN (IF job.bound THEN gen ELSE 0) ELSE inbounds[b]
           /\ handler' \in HandlerType
           /\ inbounds' \in MapType
           /\ job' \in JobType
           /\ job'.done = IF job.bound THEN job.done \cup {job.cur} ELSE job.done
           /\ job'.gone = IF job.bound THEN job.gone ELSE job.gone \cup {job.cur}
           /\ PlanKept
           /\ WaitKept
           /\ job'.todo = job.todo
           /\ job'.leaked <=> job.leaked
           /\ UNCHANGED <<env, state, cancelled, metReload, mpc, stopping, config,
                         router, version, seen, gen, result, before>>
<1>1. /\ inbounds' = [inbounds EXCEPT ![job.cur] = IF job.bound THEN gen ELSE 0]
      /\ inbounds \in MapType /\ job.cur \in Addrs /\ gen \in Gens
  BY Types DEF UpdateEnds
<1>2. /\ \A b \in Addrs : inbounds'[b] =
            IF b = job.cur THEN (IF job.bound THEN gen ELSE 0) ELSE inbounds[b]
      /\ inbounds' \in MapType
  BY <1>1 DEF MapType
<1>3. CASE job.bound
  BY <1>2, <1>3, Types DEF UpdateEnds, Goto, mainVars, HandlerType, HandlerStates,
     JobType, PlanKept, TargetKept, WaitKept
<1>4. CASE ~job.bound
  <2>1. PICK yes \in BOOLEAN : yes = TRUE
    BY Zenon
  <2>2. job' = [job EXCEPT !.gone = job.gone \cup {job.cur}, !.failed = yes]
    BY <1>4, <2>1, Zenon DEF UpdateEnds
  <2>3. /\ job' \in JobType /\ PlanKept /\ WaitKept
        /\ job'.done = job.done /\ job'.gone = job.gone \cup {job.cur}
        /\ job'.failed /\ job'.todo = job.todo /\ (job'.leaked <=> job.leaked)
    BY <2>1, <2>2, Types DEF JobType, PlanKept, TargetKept, WaitKept
  <2>4. /\ handler' \in HandlerType
        /\ \A g \in Handlers : handler'[g] =
              IF g = New(job.cur) THEN AfterStop(handler[g]) ELSE handler[g]
    BY <1>4, Types DEF UpdateEnds, StopHandler, HandlerType, HandlerStates
  <2> QED BY <1>2, <1>4, <2>3, <2>4 DEF UpdateEnds, Goto, mainVars
<1> QED BY <1>3, <1>4

LEMMA UpdatesDoneFacts ==
    ASSUME TypeOK, UpdatesDone
    PROVE  /\ rpc = "updating"
           /\ job.todo = {}
           /\ mu' = "free"
           /\ rpc' = IF job.failed THEN "rollback" ELSE "apply"
           /\ job' \in JobType
           /\ job'.todo = IF job.failed THEN job.added ELSE {}
           /\ PlanKept
           /\ WaitKept
           /\ ResultKept
           /\ UNCHANGED <<env, state, cancelled, metReload, mpc, stopping, config,
                         inbounds, router, handler, version, seen, gen,
                         result, before>>
  BY Types DEF UpdatesDone, Goto, mainVars, runVars, handlerVars, reloadVars,
     JobType, PlanKept, TargetKept, WaitKept, ResultKept

LEMMA RollbackFacts ==
    ASSUME TypeOK, NEW a \in Addrs, NEW slow \in BOOLEAN, Rollback(a, slow)
    PROVE  /\ rpc = "rollback"
           /\ a \in job.todo
           /\ slow => env.slowStops
           /\ rpc' = "rollback"
           /\ \A g \in Handlers : handler'[g] =
                IF g = New(a) THEN AfterStop(handler[g]) ELSE handler[g]
           /\ job'.leaked <=> job.leaked \/ slow
           /\ handler' \in HandlerType
           /\ job' \in JobType
           /\ job'.todo = job.todo \ {a}
           /\ PlanKept
           /\ WaitKept
           /\ job'.done = job.done
           /\ job'.gone = job.gone
           /\ job'.failed <=> job.failed
           /\ UNCHANGED <<env, state, cancelled, metReload, mpc, stopping, mu, config,
                         inbounds, router, version, seen, gen, result, before>>
  BY Types DEF Rollback, Goto, StopHandler, mainVars, runVars, MayTimeOut,
     handlerVars, reloadVars, HandlerType, HandlerStates, JobType, PlanKept,
     TargetKept, WaitKept

LEMMA RollbackDoneFacts ==
    ASSUME TypeOK, RollbackDone
    PROVE  /\ rpc = "rollback"
           /\ job.todo = {}
           /\ rpc' = "idle"
           /\ result' = Failure
           /\ config' \in ConfigType
           /\ config'.outbound = config.outbound
           /\ \A b \in Addrs : config'.inbound[b] =
                IF b \in job.gone THEN 0
                ELSE IF b \in job.done THEN job.target.inbound[b] ELSE config.inbound[b]
           /\ job.done \cup job.gone = {} => config' = config
           /\ UNCHANGED <<env, state, cancelled, metReload, mpc, stopping, mu, inbounds,
                         router, handler, version, seen, gen, job, before>>
<1> DEFINE entry(a) == IF a \in job.gone THEN 0
                         ELSE IF a \in job.done THEN job.target.inbound[a]
                         ELSE config.inbound[a]
<1>1. /\ config' = [config EXCEPT !.inbound = [a \in Addrs |-> entry(a)]]
      /\ \A a \in Addrs : entry(a) \in Versions \cup {0}
  BY Types DEF RollbackDone, Reconciled
<1>2. /\ config' \in ConfigType /\ config'.outbound = config.outbound
      /\ \A b \in Addrs : config'.inbound[b] = entry(b)
  <2> HIDE DEF entry
  <2> QED BY <1>1, Types DEF ConfigType
<1>3. job.done \cup job.gone = {} => config' = config
  <2> SUFFICES ASSUME job.done = {}, job.gone = {} PROVE config' = config
    OBVIOUS
  <2>1. [a \in Addrs |-> entry(a)] = config.inbound
    BY Types
  <2> QED BY <1>1, <2>1, Types DEF ConfigType
<1> QED
  BY <1>2, <1>3 DEF RollbackDone, Return, mainVars, handlerVars

LEMMA LockApplyFacts ==
    ASSUME TypeOK, LockApply
    PROVE  /\ rpc = "apply"
           /\ mu' = "reload"
           /\ rpc' = "removing"
           /\ job' \in JobType
           /\ job'.todo = job.removed
           /\ PlanKept
           /\ WaitKept
           /\ ResultKept
           /\ UNCHANGED <<env, state, cancelled, metReload, mpc, stopping, config,
                         inbounds, router, handler, version, seen, gen,
                         result, before>>
  BY Types DEF LockApply, Goto, mainVars, runVars, handlerVars, reloadVars,
     JobType, PlanKept, TargetKept, WaitKept, ResultKept

LEMMA RemoveInboundFacts ==
    ASSUME TypeOK, NEW a \in Addrs, RemoveInbound(a)
    PROVE  /\ rpc = "removing"
           /\ a \in job.todo
           /\ rpc' = "removing"
           /\ \A g \in Handlers : handler'[g] =
                IF g = <<a, inbounds[a]>> THEN AfterStop(handler[g]) ELSE handler[g]
           /\ \A b \in Addrs : inbounds'[b] = IF b = a THEN 0 ELSE inbounds[b]
           /\ handler' \in HandlerType
           /\ inbounds' \in MapType
           /\ job' \in JobType
           /\ job'.todo = job.todo \ {a}
           /\ PlanKept
           /\ WaitKept
           /\ ResultKept
           /\ UNCHANGED <<env, state, cancelled, metReload, mpc, stopping, mu, config,
                         router, version, seen, gen, result, before>>
<1>1. /\ inbounds' = [inbounds EXCEPT ![a] = 0]
      /\ handler' = IF inbounds[a] # 0
                    THEN [handler EXCEPT ![<<a, inbounds[a]>>] = AfterStop(@)]
                    ELSE handler
      /\ job' = [job EXCEPT !.todo = job.todo \ {a}]
  BY DEF RemoveInbound, StopHandler
<1>2. /\ inbounds' \in MapType
      /\ \A b \in Addrs : inbounds'[b] = IF b = a THEN 0 ELSE inbounds[b]
  BY <1>1, Types DEF MapType
<1>3. 0 \notin Gens /\ <<a, 0>> \notin Handlers
  BY Types DEF Gens, Handlers
<1>4. /\ handler' \in HandlerType
      /\ \A g \in Handlers : handler'[g] =
            IF g = <<a, inbounds[a]>> THEN AfterStop(handler[g]) ELSE handler[g]
  BY <1>1, <1>3, Types DEF HandlerType, HandlerStates
<1>5. /\ job' \in JobType /\ job'.todo = job.todo \ {a}
      /\ PlanKept /\ WaitKept /\ ResultKept
  BY <1>1, Types DEF JobType, PlanKept, TargetKept, WaitKept, ResultKept
<1> QED
  BY <1>2, <1>4, <1>5 DEF RemoveInbound, Goto, mainVars

LEMMA RegisterAddedFacts ==
    ASSUME TypeOK, RegisterAdded
    PROVE  /\ rpc = "removing"
           /\ job.todo = {}
           /\ router' = IF job.target.outbound = config.outbound THEN router ELSE 0
           /\ rpc' = "outbound"
           /\ \A b \in Addrs : inbounds'[b] = IF b \in job.added THEN gen ELSE inbounds[b]
           /\ inbounds' \in MapType
           /\ UNCHANGED <<env, state, cancelled, metReload, mpc, stopping, mu, config,
                         handler, version, seen, gen, job, result, before>>
  BY Types DEF RegisterAdded, Goto, mainVars, handlerVars, runVars,
     reloadVars, MapType

LEMMA ReloadDoneFacts ==
    ASSUME TypeOK, ReloadDone
    PROVE  /\ rpc = "outbound"
           /\ router' = job.target.outbound
           /\ mu' = "free"
           /\ config' = job.target
           /\ rpc' = "idle"
           /\ result' = "ok"
           /\ UNCHANGED <<env, state, cancelled, metReload, mpc, stopping, inbounds,
                         handler, version, seen, gen, job, before>>
  BY Types DEF ReloadDone, Return, mainVars, handlerVars, runVars, reloadVars

----------------------------------------------------------------------------
(* Who changes what *)

MainSteps == Start \/ Stop \/ MainRuns
ReloadSteps == \/ ReloadRejected \/ ReloadRuns
               \/ \E c \in Configs : CallReload(c)
Await == UpdateReady \/ UpdateError \/ UpdateCancelled

LEMMA AwaitFacts ==
    ASSUME TypeOK, Await
    PROVE  /\ rpc = "awaiting"
           /\ rpc' = "relock"
           /\ job'.bound => Ready(New(job.cur))
           /\ ~job'.bound => handler[New(job.cur)] = "failed" \/ cancelled
           /\ job' \in JobType
           /\ PlanKept
           /\ ResultKept
           /\ job'.todo = job.todo /\ job'.cur = job.cur
           /\ UNCHANGED <<env, state, cancelled, metReload, mpc, stopping, mu, config,
                         inbounds, router, handler, version, seen, gen,
                         result, before>>
<1>1. PICK bound \in BOOLEAN : /\ Awaited(bound)
                               /\ bound => Ready(New(job.cur))
                               /\ ~bound => handler[New(job.cur)] = "failed" \/ cancelled
  BY DEF Await, UpdateReady, UpdateError, UpdateCancelled
<1> QED BY <1>1, AwaitedFacts

\* What the goroutine of a handler, or the one that watches it, does.
LEMMA HandlerFacts ==
    ASSUME TypeOK, NEW h \in Handlers, HandlerActs(h)
    PROVE  /\ UNCHANGED <<env, state, cancelled, metReload, mpc, stopping, mu, config,
                         inbounds, router, version, rpc, gen, job, result, before>>
           /\ handler' \in HandlerType /\ seen' \in SeenType
           /\ \A g \in Handlers : g # h => handler'[g] = handler[g] /\ seen'[g] = seen[g]
           /\ \/ /\ seen' = seen
                 /\ \/ /\ handler[h] = "starting" /\ handler'[h] = "unassigned"
                       /\ ~PortTaken(h)
                    \/ /\ handler[h] = "starting" /\ handler'[h] = "failed"
                       /\ PortTaken(h) \/ Port[h[1]] \in env.busyPorts
                    \/ handler[h] = "unassigned" /\ handler'[h] = "listening"
                    \/ handler[h] = "closing" /\ handler'[h] = "returned"
                    \/ handler[h] = "listening" /\ handler'[h] = "left" /\ cancelled
              \/ /\ handler' = handler /\ seen[h] = "pending"
                 /\ \/ seen'[h] = "ready" /\ Ready(h)
                    \/ seen'[h] = "error" /\ handler[h] = "failed"
<1>1. ASSUME NEW from \in HandlerStates, NEW to \in HandlerStates, HandlerStep(h, from, to)
      PROVE  /\ handler[h] = from /\ handler'[h] = to /\ seen' = seen
             /\ \A g \in Handlers : g # h => handler'[g] = handler[g]
             /\ handler' \in HandlerType
             /\ UNCHANGED <<env, state, cancelled, metReload, mpc, stopping, mu, config,
                         inbounds, router, version, rpc, gen, job, result, before>>
  BY <1>1, Types DEF HandlerStep, HandlerType, mainVars, runVars, reloadVars
<1>2. ASSUME NEW what \in {"ready", "error"}, See(h, what)
      PROVE  /\ seen[h] = "pending" /\ seen'[h] = what /\ handler' = handler
             /\ \A g \in Handlers : g # h => seen'[g] = seen[g]
             /\ seen' \in SeenType
             /\ UNCHANGED <<env, state, cancelled, metReload, mpc, stopping, mu, config,
                         inbounds, router, version, rpc, gen, job, result, before>>
  BY <1>2, Types DEF See, SeenType, mainVars, runVars, reloadVars
<1>3. CASE Bind(h) \/ BindFails(h) \/ Assign(h) \/ StartReturns(h) \/ StartLeaves(h)
  BY <1>1, <1>3, Types
     DEF Bind, BindFails, Assign, StartReturns, StartLeaves, HandlerStates
<1>4. CASE SeeReady(h) \/ SeeError(h)
  BY <1>2, <1>4, Types DEF SeeReady, SeeError
<1> QED BY <1>3, <1>4 DEF HandlerActs, HandlerRuns

\* Start and Stop leave the reload and the configuration alone.
LEMMA MainFrame ==
    ASSUME TypeOK, MainSteps
    PROVE  UNCHANGED <<env, config, rpc, gen, job, result, before>>
<1>1. CASE Start
  BY <1>1, StartFacts
<1>2. CASE Started
  BY <1>2, StartedFacts
<1>3. CASE StartFails
  BY <1>3, StartFailsFacts
<1>4. ASSUME NEW a \in Addrs, StartRollback(a)
      PROVE  UNCHANGED <<env, config, rpc, gen, job, result, before>>
  BY <1>4, StartRollbackFacts
<1>5. CASE StartFailed
  BY <1>5, StartFailedFacts
<1>6. CASE Stop
  BY <1>6, StopFacts
<1>7. CASE StopLock
  BY <1>7, StopLockFacts
<1>8. ASSUME NEW a \in Addrs, StopInbound(a)
      PROVE  UNCHANGED <<env, config, rpc, gen, job, result, before>>
  BY <1>8, StopInboundFacts
<1>9. CASE StopUnlock
  BY <1>9, StopUnlockFacts
<1>10. CASE Stopped
  BY <1>10, StoppedFacts
<1> QED BY <1>1, <1>2, <1>3, <1>4, <1>5, <1>6, <1>7, <1>8, <1>9, <1>10 DEF
   MainSteps, MainRuns

\* A reload leaves Start and Stop alone, and runs only after Start.
LEMMA ReloadFrame ==
    ASSUME TypeOK, MainInv, ReloadSteps
    PROVE  /\ UNCHANGED <<env, state, cancelled, metReload, mpc, stopping>>
           /\ ~Early /\ (rpc = "idle" => mpc = "up")
<1>1. ASSUME NEW c \in Configs, CallReload(c)
      PROVE  /\ UNCHANGED <<env, state, cancelled, metReload, mpc, stopping>>
             /\ ~Early /\ (rpc = "idle" => mpc = "up")
  BY <1>1, CallReloadFacts DEF MainInv, Early
<1>2. CASE ReloadRejected
  BY <1>2, ReloadRejectedFacts DEF MainInv, Early
<1>3. CASE Classify
  BY <1>3, ClassifyFacts DEF MainInv, Early
<1>4. CASE AddedReady
  BY <1>4, AddedReadyFacts DEF MainInv, Early
<1>5. CASE AddedFail
  BY <1>5, AddedFailFacts DEF MainInv, Early
<1>6. CASE LockUpdates
  BY <1>6, LockUpdatesFacts DEF MainInv, Early
<1>7. ASSUME NEW a \in Addrs, UpdateInbound(a)
      PROVE  /\ UNCHANGED <<env, state, cancelled, metReload, mpc, stopping>>
             /\ ~Early /\ (rpc = "idle" => mpc = "up")
  BY <1>7, UpdateInboundFacts DEF MainInv, Early
<1>8. ASSUME NEW a \in Addrs, UpdateSkipped(a)
      PROVE  /\ UNCHANGED <<env, state, cancelled, metReload, mpc, stopping>>
             /\ ~Early /\ (rpc = "idle" => mpc = "up")
  BY <1>8, UpdateSkippedFacts DEF MainInv, Early
<1>9. CASE Await
  BY <1>9, AwaitFacts DEF MainInv, Early
<1>10. CASE UpdateEnds
  BY <1>10, UpdateEndsFacts DEF MainInv, Early
<1>11. CASE UpdatesDone
  BY <1>11, UpdatesDoneFacts DEF MainInv, Early
<1>12. ASSUME NEW a \in Addrs, NEW slow \in BOOLEAN, Rollback(a, slow)
      PROVE  /\ UNCHANGED <<env, state, cancelled, metReload, mpc, stopping>>
             /\ ~Early /\ (rpc = "idle" => mpc = "up")
  BY <1>12, RollbackFacts DEF MainInv, Early
<1>13. CASE RollbackDone
  BY <1>13, RollbackDoneFacts DEF MainInv, Early
<1>14. CASE LockApply
  BY <1>14, LockApplyFacts DEF MainInv, Early
<1>15. ASSUME NEW a \in Addrs, RemoveInbound(a)
      PROVE  /\ UNCHANGED <<env, state, cancelled, metReload, mpc, stopping>>
             /\ ~Early /\ (rpc = "idle" => mpc = "up")
  BY <1>15, RemoveInboundFacts DEF MainInv, Early
<1>16. CASE RegisterAdded
  BY <1>16, RegisterAddedFacts DEF MainInv, Early
<1>17. CASE ReloadDone
  BY <1>17, ReloadDoneFacts DEF MainInv, Early
<1> QED BY <1>1, <1>2, <1>3, <1>4, <1>5, <1>6, <1>7, <1>8, <1>9, <1>10, <1>11,
   <1>12, <1>13, <1>14, <1>15, <1>16, <1>17 DEF ReloadSteps, ReloadRuns, Await

\* A step that changes nothing of the plan changes none of its parts.
LEMMA PlanSame ==
    ASSUME config' = config, job'.target = job.target
    PROVE  Updated' = Updated /\ Added' = Added /\ Removed' = Removed
  BY DEF Updated, Added, Removed, UpdatedInbounds, Configured

LEMMA PlanParts ==
    /\ Updated \subseteq Addrs /\ Added \subseteq Addrs /\ Removed \subseteq Addrs
    /\ Updated \cap Added = {} /\ Updated \cap Removed = {} /\ Added \cap Removed = {}
    /\ Updated \subseteq Configured(config) /\ Removed \subseteq Configured(config)
    /\ Configured(config) \subseteq Addrs
  BY DEF Updated, Added, Removed, UpdatedInbounds, Configured

LEMMA NewFacts ==
    ASSUME TypeOK, NEW b \in Addrs
    PROVE  /\ New(b) \in Handlers /\ New(b)[1] = b /\ New(b)[2] = gen
           /\ \A a \in Addrs : New(a) = New(b) <=> a = b
           /\ \A S : New(b) \in S \X {gen} <=> b \in S
           /\ \A a \in Addrs : <<a, inbounds[a]>> = New(b) <=> a = b /\ inbounds[a] = gen
           /\ gen' = gen => New(b)' = New(b)
           /\ gen > 0 /\ gen # 0
<1>1. gen \in Nat \ {0}
  BY Types DEF Gens
<1> QED BY <1>1, Types DEF New

\* The handlers of a reload do not run before it launches them.
LEMMA NewIsNone ==
    ASSUME TypeOK, JobInv, GenInv, NEW a \in Addrs
    PROVE  /\ rpc = "prepared" => handler[New(a)] = "none" /\ inbounds[a] # gen
           /\ rpc = "updating" /\ a \in job.todo =>
                 handler[New(a)] = "none" /\ inbounds[a] # gen
  BY PlanParts DEF JobInv, GenInv, Own, Waiting

----------------------------------------------------------------------------
(* Every step *)

\* How a handler, and what is known of it, may change in a step.
MovesForward(g) ==
    /\ \/ handler'[g] = handler[g]
       \/ handler[g] = "none" /\ handler'[g] = "starting"
       \/ handler[g] = "starting" /\ handler'[g] \in {"unassigned", "failed"}
       \/ handler[g] = "unassigned" /\ handler'[g] = "listening"
       \/ handler[g] = "listening" /\ handler'[g] \in {"closing", "left"}
       \/ handler[g] \in {"closing", "left"} /\ handler'[g] = "returned"
    /\ \/ seen'[g] = seen[g]
       \/ handler[g] = "none" /\ handler'[g] = "starting" /\ seen'[g] = "pending"
       \/ /\ seen[g] = "pending" /\ handler'[g] = handler[g]
          /\ \/ seen'[g] = "ready" /\ Ready(g)
             \/ seen'[g] = "error" /\ handler[g] = "failed"

\* No handler starts twice, becomes ready again or recovers from a failure.
LEMMA Advance ==
    ASSUME TypeOK, MainInv, JobInv, GenInv, Next, NEW g \in Handlers
    PROVE  MovesForward(g)
<1> USE DEF MovesForward
<1>1. CASE Start
  <2>1. handler[g] = "none"
    BY <1>1, StartFacts DEF MainInv
  <2> QED BY <1>1, <2>1, StartFacts
<1>2. CASE Started
  BY <1>2, StartedFacts
<1>3. CASE StartFails
  BY <1>3, StartFailsFacts
<1>4. ASSUME NEW a \in Addrs, StartRollback(a)
      PROVE  MovesForward(g)
  BY <1>4, StartRollbackFacts
<1>5. CASE StartFailed
  BY <1>5, StartFailedFacts
<1>6. CASE Stop
  BY <1>6, StopFacts
<1>7. CASE StopLock
  BY <1>7, StopLockFacts
<1>8. ASSUME NEW a \in Addrs, StopInbound(a)
      PROVE  MovesForward(g)
  BY <1>8, StopInboundFacts
<1>9. CASE StopUnlock
  BY <1>9, StopUnlockFacts
<1>10. CASE Stopped
  BY <1>10, StoppedFacts
<1>11. ASSUME NEW c \in Configs, CallReload(c)
      PROVE  MovesForward(g)
  BY <1>11, CallReloadFacts
<1>12. CASE ReloadRejected
  BY <1>12, ReloadRejectedFacts
<1>13. CASE Classify
  <2>1. \A a \in Addrs : handler[New(a)] = "none"
    BY <1>13, ClassifyFacts, NewIsNone
  <2>2. g \in job'.added \X {gen} => handler[g] = "none"
    BY <2>1 DEF New, Handlers
  <2> QED BY <1>13, <2>2, ClassifyFacts
<1>14. CASE AddedReady
  BY <1>14, AddedReadyFacts
<1>15. CASE AddedFail
  BY <1>15, AddedFailFacts
<1>16. CASE LockUpdates
  BY <1>16, LockUpdatesFacts
<1>17. ASSUME NEW a \in Addrs, UpdateInbound(a)
      PROVE  MovesForward(g)
  <2>1. handler[New(a)] = "none"
    BY <1>17, UpdateInboundFacts, NewIsNone
  <2> QED BY <1>17, <2>1, UpdateInboundFacts
<1>18. ASSUME NEW a \in Addrs, UpdateSkipped(a)
      PROVE  MovesForward(g)
  BY <1>18, UpdateSkippedFacts
<1>19. CASE Await
  BY <1>19, AwaitFacts
<1>20. CASE UpdateEnds
  BY <1>20, UpdateEndsFacts
<1>21. CASE UpdatesDone
  BY <1>21, UpdatesDoneFacts
<1>22. ASSUME NEW a \in Addrs, NEW slow \in BOOLEAN, Rollback(a, slow)
      PROVE  MovesForward(g)
  BY <1>22, RollbackFacts
<1>23. CASE RollbackDone
  BY <1>23, RollbackDoneFacts
<1>24. CASE LockApply
  BY <1>24, LockApplyFacts
<1>25. ASSUME NEW a \in Addrs, RemoveInbound(a)
      PROVE  MovesForward(g)
  BY <1>25, RemoveInboundFacts
<1>26. CASE RegisterAdded
  BY <1>26, RegisterAddedFacts
<1>27. CASE ReloadDone
  BY <1>27, ReloadDoneFacts
<1>28. ASSUME NEW h \in Handlers, HandlerActs(h)
      PROVE  MovesForward(g)
  BY <1>28, HandlerFacts
<1> QED BY <1>1, <1>2, <1>3, <1>4, <1>5, <1>6, <1>7, <1>8, <1>9, <1>10, <1>11,
   <1>12, <1>13, <1>14, <1>15, <1>16, <1>17, <1>18, <1>19, <1>20, <1>21, <1>22,
   <1>23, <1>24, <1>25, <1>26, <1>27, <1>28 DEF Next, MainRuns, ReloadRuns,
   Await

\* What MovesForward means for the states the invariants speak of.
LEMMA Forward ==
    ASSUME TypeOK, MainInv, JobInv, GenInv, SeenInv, Next, NEW g \in Handlers
    PROVE  /\ Ready(g) => Ready(g)'
           /\ handler[g] # "none" => handler'[g] # "none"
           /\ handler[g] = "failed" => handler'[g] = "failed"
           /\ Live(g)' => Live(g) \/ (handler[g] = "none" /\ handler'[g] = "starting")
           /\ seen[g] # "none" => seen'[g] # "none"
           /\ seen'[g] # "none" => handler'[g] # "none"
           /\ seen'[g] \in {"ready", "error"} => Ready(g)'
           /\ seen'[g] = "error" => handler'[g] = "failed"
           /\ ~Counted(g) /\ handler[g] # "none" => ~Counted(g)'
  BY Advance, Types DEF MovesForward, Ready, Live, Counted, SeenInv, HandlerType,
     HandlerStates, SeenType

\* Where Start and Stop are.
LEMMA MainNext == ASSUME TypeOK, MainInv, Next PROVE MainInv'
<1> USE DEF Early
<1>1. CASE Start
  BY <1>1, StartFacts, MainFrame DEF MainInv, MainSteps, MainRuns
<1>2. CASE Started
  <2>1. ~Early'
    BY <1>2, StartedFacts
  <2> QED BY <1>2, <2>1, MainFrame, StartedFacts DEF MainInv, MainSteps, MainRuns
<1>3. CASE StartFails
  BY <1>3, StartFailsFacts, MainFrame DEF MainInv, MainSteps, MainRuns
<1>4. ASSUME NEW a \in Addrs, StartRollback(a)
      PROVE  MainInv'
  BY <1>4, StartRollbackFacts, MainFrame DEF MainInv, MainSteps, MainRuns
<1>5. CASE StartFailed
  BY <1>5, StartFailedFacts, MainFrame DEF MainInv, MainSteps, MainRuns
<1>6. CASE Stop
  BY <1>6, StopFacts, MainFrame DEF MainInv, MainSteps, MainRuns
<1>7. CASE StopLock
  BY <1>7, StopLockFacts, MainFrame DEF MainInv, MainSteps, MainRuns
<1>8. ASSUME NEW a \in Addrs, StopInbound(a)
      PROVE  MainInv'
  BY <1>8, StopInboundFacts, MainFrame DEF MainInv, MainSteps, MainRuns
<1>9. CASE StopUnlock
  BY <1>9, StopUnlockFacts, MainFrame DEF MainInv, MainSteps, MainRuns
<1>10. CASE Stopped
  BY <1>10, StoppedFacts, MainFrame DEF MainInv, MainSteps, MainRuns
<1>11. CASE ReloadSteps
  BY <1>11, ReloadFrame DEF MainInv
<1>12. ASSUME NEW h \in Handlers, HandlerActs(h)
      PROVE  MainInv'
  BY <1>12, HandlerFacts DEF MainInv
<1> QED BY <1>1, <1>2, <1>3, <1>4, <1>5, <1>6, <1>7, <1>8, <1>9, <1>10, <1>11,
   <1>12 DEF Next, MainRuns, ReloadSteps

\* What is in the map has a version, so the map has what the configuration has.
LEMMA MapHasConfig ==
    ASSUME TypeOK, MapInv, NEW a \in Addrs
    PROVE  /\ InMap(a) = 0 <=> inbounds[a] = 0
           /\ config.inbound[a] = InMap(a) => (inbounds[a] = 0 <=> a \notin Configured(config))
<1>1. inbounds[a] # 0 => version[<<a, inbounds[a]>>] # 0
  BY Types DEF TypeOK, MapInv, Ready
<1> QED BY <1>1 DEF InMap, Configured

\* The local variables of a reload.
LEMMA JobNext == ASSUME TypeOK, MainInv, JobInv, MapInv, ConfigInv, Next PROVE JobInv'
<1> USE PlanSame, PlanParts DEF Waiting
<1>1. ASSUME NEW c \in Configs, CallReload(c)
      PROVE  JobInv'
  <2>1. /\ Updated' = UpdatedInbounds(config, c)
        /\ Added' = Configured(c) \ Configured(config)
        /\ Removed' = Configured(config) \ Configured(c)
    BY <1>1, CallReloadFacts DEF Updated, Added, Removed
  <2> QED BY <1>1, <2>1, CallReloadFacts DEF JobInv
<1>2. CASE ReloadRejected
  BY <1>2, ReloadRejectedFacts DEF JobInv, PlanKept, TargetKept, WaitKept,
     ResultKept
<1>3. CASE Classify
  <2>1. \A a \in Addrs : inbounds[a] = 0 <=> a \notin Configured(config)
    BY <1>3, ClassifyFacts, MapHasConfig DEF ConfigInv, Mid, JobInv
  <2>2. Updated = job.todo \ {a \in job.todo : inbounds[a] = 0}
        /\ Added = {a \in job.todo : inbounds[a] = 0}
    BY <1>3, <2>1, ClassifyFacts DEF JobInv, Added, Updated, UpdatedInbounds
  <2> QED BY <1>3, <2>2, ClassifyFacts DEF JobInv, TargetKept, ResultKept
<1>4. CASE AddedReady
  BY <1>4, AddedReadyFacts DEF JobInv, PlanKept, TargetKept, WaitKept,
     ResultKept
<1>5. CASE AddedFail
  BY <1>5, AddedFailFacts DEF JobInv, PlanKept, TargetKept, WaitKept,
     ResultKept
<1>6. CASE LockUpdates
  BY <1>6, LockUpdatesFacts DEF JobInv, PlanKept, TargetKept, WaitKept,
     ResultKept
<1>7. ASSUME NEW a \in Addrs, UpdateInbound(a)
      PROVE  JobInv'
  BY <1>7, UpdateInboundFacts DEF JobInv, PlanKept, TargetKept, WaitKept,
     ResultKept
<1>8. ASSUME NEW a \in Addrs, UpdateSkipped(a)
      PROVE  JobInv'
  BY <1>8, UpdateSkippedFacts DEF JobInv, PlanKept, TargetKept, WaitKept,
     ResultKept
<1>9. CASE Await
  BY <1>9, AwaitFacts DEF JobInv, PlanKept, TargetKept, WaitKept, ResultKept
<1>10. CASE UpdateEnds
  BY <1>10, UpdateEndsFacts DEF JobInv, PlanKept, TargetKept, WaitKept,
     ResultKept
<1>11. CASE UpdatesDone
  BY <1>11, UpdatesDoneFacts DEF JobInv, PlanKept, TargetKept, WaitKept,
     ResultKept
<1>12. ASSUME NEW a \in Addrs, NEW slow \in BOOLEAN, Rollback(a, slow)
      PROVE  JobInv'
  BY <1>12, RollbackFacts DEF JobInv, PlanKept, TargetKept, WaitKept,
     ResultKept
<1>13. CASE RollbackDone
  BY <1>13, RollbackDoneFacts DEF JobInv, PlanKept, TargetKept, WaitKept,
     ResultKept
<1>14. CASE LockApply
  BY <1>14, LockApplyFacts DEF JobInv, PlanKept, TargetKept, WaitKept,
     ResultKept
<1>15. ASSUME NEW a \in Addrs, RemoveInbound(a)
      PROVE  JobInv'
  BY <1>15, RemoveInboundFacts DEF JobInv, PlanKept, TargetKept, WaitKept,
     ResultKept
<1>16. CASE RegisterAdded
  BY <1>16, RegisterAddedFacts DEF JobInv, PlanKept, TargetKept, WaitKept,
     ResultKept
<1>17. CASE ReloadDone
  BY <1>17, ReloadDoneFacts DEF JobInv, PlanKept, TargetKept, WaitKept,
     ResultKept
<1>18. CASE MainSteps
  BY <1>18, MainFrame DEF JobInv
<1>19. ASSUME NEW h \in Handlers, HandlerActs(h)
      PROVE  JobInv'
  BY <1>19, HandlerFacts DEF JobInv
<1> QED BY <1>1, <1>2, <1>3, <1>4, <1>5, <1>6, <1>7, <1>8, <1>9, <1>10, <1>11,
   <1>12, <1>13, <1>14, <1>15, <1>16, <1>17, <1>18, <1>19 DEF Next, MainSteps,
   ReloadRuns, Await

\* Start and Stop close listeners, and begin nothing after Start.
LEMMA MainHandlers ==
    ASSUME TypeOK, MainSteps, ~Start
    PROVE  /\ seen' = seen /\ version' = version /\ router' = router
           /\ handler' \in HandlerType
           /\ \A h \in Handlers : \/ handler'[h] = handler[h]
                                  \/ handler[h] = "listening" /\ handler'[h] = "closing"
                                  \/ handler[h] = "left" /\ handler'[h] = "returned"
           /\ Started \/ inbounds' = inbounds
  BY Types, StartedFacts, StartFailsFacts, StartRollbackFacts, StartFailedFacts, StopFacts,
     StopLockFacts, StopInboundFacts, StopUnlockFacts, StoppedFacts
     DEF MainSteps, MainRuns

\* Generations to come.
LEMMA LaterNext ==
    ASSUME TypeOK, MainInv, JobInv, LaterInv, Next
    PROVE  LaterInv'
<1>1. ASSUME NEW c \in Configs, CallReload(c)
      PROVE  LaterInv'
  <2>1. /\ gen \in Nat /\ gen' = gen + 1
        /\ \A h \in Handlers : h[2] \in Nat
        /\ \A a \in Addrs : inbounds[a] \in Nat
    BY <1>1, CallReloadFacts, Types DEF Gens, Handlers, MapType
  <2> QED BY <1>1, <2>1, CallReloadFacts DEF LaterInv
<1>2. CASE ReloadRejected
  <2>1. /\ gen \in Nat /\ gen' = gen + 1
        /\ \A h \in Handlers : h[2] \in Nat
        /\ \A a \in Addrs : inbounds[a] \in Nat
    BY <1>2, ReloadRejectedFacts, Types DEF Gens, Handlers, MapType
  <2> QED BY <1>2, <2>1, ReloadRejectedFacts DEF LaterInv
<1>3. CASE Classify
  <2>1. \A g \in Handlers : g \in job'.added \X {gen} => ~(g[2] > gen)
    BY Types DEF Gens
  <2> QED BY <1>3, <2>1, ClassifyFacts DEF LaterInv
<1>4. CASE AddedReady
  BY <1>4, AddedReadyFacts DEF LaterInv
<1>5. CASE AddedFail
  BY <1>5, AddedFailFacts DEF LaterInv
<1>6. CASE LockUpdates
  BY <1>6, LockUpdatesFacts DEF LaterInv
<1>7. ASSUME NEW a \in Addrs, UpdateInbound(a)
      PROVE  LaterInv'
  <2>1. ~(New(a)[2] > gen)
    BY NewFacts, Types DEF Gens
  <2> QED BY <1>7, <2>1, UpdateInboundFacts DEF LaterInv
<1>8. ASSUME NEW a \in Addrs, UpdateSkipped(a)
      PROVE  LaterInv'
  BY <1>8, UpdateSkippedFacts DEF LaterInv
<1>9. CASE Await
  BY <1>9, AwaitFacts DEF LaterInv
<1>10. CASE UpdateEnds
  <2>1. 0 <= gen /\ gen <= gen
    BY Types DEF Gens
  <2> QED BY <1>10, <2>1, UpdateEndsFacts DEF LaterInv
<1>11. CASE UpdatesDone
  BY <1>11, UpdatesDoneFacts DEF LaterInv
<1>12. ASSUME NEW a \in Addrs, NEW slow \in BOOLEAN, Rollback(a, slow)
      PROVE  LaterInv'
  BY <1>12, RollbackFacts DEF LaterInv
<1>13. CASE RollbackDone
  BY <1>13, RollbackDoneFacts DEF LaterInv
<1>14. CASE LockApply
  BY <1>14, LockApplyFacts DEF LaterInv
<1>15. ASSUME NEW a \in Addrs, RemoveInbound(a)
      PROVE  LaterInv'
  <2>1. 0 <= gen
    BY Types DEF Gens
  <2> QED BY <1>15, <2>1, RemoveInboundFacts DEF LaterInv
<1>16. CASE RegisterAdded
  <2>1. gen <= gen
    BY Types DEF Gens
  <2> QED BY <1>16, <2>1, RegisterAddedFacts DEF LaterInv
<1>17. CASE ReloadDone
  BY <1>17, ReloadDoneFacts DEF LaterInv
<1>18. CASE Start
  <2>1. gen = 1 /\ gen' = 1 /\ \A g \in FirstHandlers : ~(g[2] > 1)
    BY <1>18, StartFacts DEF MainInv, Early, FirstHandlers
  <2> QED BY <1>18, <2>1, StartFacts DEF LaterInv
<1>19. CASE Started
  <2>1. gen = 1 /\ 0 <= gen
    BY <1>19, StartedFacts DEF MainInv, Early
  <2> QED BY <1>19, <2>1, StartedFacts DEF LaterInv
<1>20. CASE MainSteps /\ ~Start /\ ~Started
  BY <1>20, MainFrame, MainHandlers DEF LaterInv
<1>21. ASSUME NEW h \in Handlers, HandlerActs(h)
      PROVE  LaterInv'
  BY <1>21, HandlerFacts DEF LaterInv
<1> QED BY <1>1, <1>2, <1>3, <1>4, <1>5, <1>6, <1>7, <1>8, <1>9, <1>10, <1>11,
   <1>12, <1>13, <1>14, <1>15, <1>16, <1>17, <1>18, <1>19, <1>20, <1>21 DEF
   Next, MainSteps, ReloadRuns, Await

\* The handlers of the reload.
LEMMA OwnNext ==
    ASSUME TypeOK, MainInv, JobInv, GenInv, SeenInv, rpc' # "idle", NEW b \in Addrs, Next
    PROVE  Own(b)'
<1> USE NewFacts DEF Waiting
<1>1. ASSUME NEW c \in Configs, CallReload(c)
      PROVE  Own(b)'
  <2>1. /\ New(b)' = <<b, gen + 1>> /\ New(b)' \in Handlers
        /\ gen + 1 > gen /\ inbounds[b] # gen + 1
    BY <1>1, CallReloadFacts, Types DEF New, Gens, Handlers, MapType, GenInv, LaterInv
  <2> QED BY <1>1, <2>1, CallReloadFacts DEF Own, GenInv, LaterInv
<1>2. CASE ReloadRejected
  BY <1>2, ReloadRejectedFacts
<1>3. CASE Classify
  BY <1>3, ClassifyFacts DEF Own, GenInv, JobInv, PlanKept, TargetKept,
     WaitKept, ResultKept
<1>4. CASE AddedReady
  BY <1>4, AddedReadyFacts DEF Own, GenInv, JobInv, PlanKept, TargetKept,
     WaitKept, ResultKept
<1>5. CASE AddedFail
  BY <1>5, AddedFailFacts DEF Own, GenInv, JobInv, PlanKept, TargetKept,
     WaitKept, ResultKept
<1>6. CASE LockUpdates
  BY <1>6, LockUpdatesFacts DEF Own, GenInv, JobInv, PlanKept, TargetKept,
     WaitKept, ResultKept
<1>7. ASSUME NEW a \in Addrs, UpdateInbound(a)
      PROVE  Own(b)'
  BY <1>7, UpdateInboundFacts DEF Own, GenInv, JobInv, PlanKept, TargetKept,
     WaitKept, ResultKept
<1>8. ASSUME NEW a \in Addrs, UpdateSkipped(a)
      PROVE  Own(b)'
  BY <1>8, UpdateSkippedFacts DEF Own, GenInv, JobInv, PlanKept, TargetKept,
     WaitKept, ResultKept
<1>9. CASE Await
  BY <1>9, AwaitFacts DEF Own, GenInv, JobInv, PlanKept, TargetKept, WaitKept,
     ResultKept
<1>10. CASE UpdateEnds
  BY <1>10, UpdateEndsFacts DEF Own, GenInv, JobInv, PlanKept, TargetKept,
     WaitKept, ResultKept
<1>11. CASE UpdatesDone
  BY <1>11, UpdatesDoneFacts DEF Own, GenInv, JobInv, PlanKept, TargetKept,
     WaitKept, ResultKept
<1>12. ASSUME NEW a \in Addrs, NEW slow \in BOOLEAN, Rollback(a, slow)
      PROVE  Own(b)'
  BY <1>12, RollbackFacts DEF Own, GenInv, JobInv, PlanKept, TargetKept,
     WaitKept, ResultKept
<1>13. CASE RollbackDone
  BY <1>13, RollbackDoneFacts
<1>14. CASE LockApply
  BY <1>14, LockApplyFacts DEF Own, GenInv, JobInv, PlanKept, TargetKept,
     WaitKept, ResultKept
<1>15. ASSUME NEW a \in Addrs, RemoveInbound(a)
      PROVE  Own(b)'
  BY <1>15, RemoveInboundFacts DEF Own, GenInv, JobInv, PlanKept, TargetKept,
     WaitKept, ResultKept
<1>16. CASE RegisterAdded
  BY <1>16, RegisterAddedFacts DEF Own, GenInv, JobInv, PlanKept, TargetKept,
     WaitKept, ResultKept
<1>17. CASE ReloadDone
  BY <1>17, ReloadDoneFacts
<1>18. CASE MainSteps
  <2>1. ~Start /\ ~Started
    BY <1>18, MainFrame, StartFacts, StartedFacts DEF MainInv, Early
  <2> QED BY <1>18, <2>1, MainFrame, MainHandlers DEF Own, GenInv
<1>19. ASSUME NEW h \in Handlers, HandlerActs(h)
      PROVE  Own(b)'
  BY <1>19, HandlerFacts DEF Own, GenInv
<1> QED BY <1>1, <1>2, <1>3, <1>4, <1>5, <1>6, <1>7, <1>8, <1>9, <1>10, <1>11,
   <1>12, <1>13, <1>14, <1>15, <1>16, <1>17, <1>18, <1>19 DEF Next, MainSteps,
   ReloadRuns, Await

LEMMA GenNext ==
    ASSUME TypeOK, MainInv, JobInv, GenInv, SeenInv, Next
    PROVE  GenInv'
  BY LaterNext, OwnNext DEF GenInv

\* What the goroutine of startAndWaitInbounds has seen.
LEMMA SeenNext ==
    ASSUME TypeOK, TypeOK', MainInv, JobInv, GenInv, SeenInv, Next
    PROVE  SeenInv'
<1>1. \A h \in Handlers :
          /\ (seen[h] \in {"ready", "error"} => Ready(h))'
          /\ (seen[h] = "error" => handler[h] = "failed")'
          /\ (seen[h] = "pending" => handler[h] # "none")'
  BY Forward
<1>2. ASSUME mpc' = "starting"
      PROVE  \A h \in FirstHandlers' : h \in Handlers => seen'[h] # "none"
  <2>1. CASE Start
    BY <2>1, StartFacts DEF FirstHandlers
  <2>2. CASE ~Start
    <3>1. mpc = "starting" /\ config' = config
      <4>1. CASE MainSteps
        BY <1>2, <2>2, <4>1, MainFrame, StartedFacts, StartFailsFacts, StartRollbackFacts,
           StartFailedFacts, StopFacts, StopLockFacts, StopInboundFacts, StopUnlockFacts,
           StoppedFacts DEF MainSteps, MainRuns
      <4>2. CASE ReloadSteps
        BY <1>2, <4>2, ReloadFrame DEF Early
      <4>3. ASSUME NEW h \in Handlers, HandlerActs(h)
            PROVE  mpc = "starting" /\ config' = config
        BY <1>2, <4>3, HandlerFacts
      <4> QED BY <4>1, <4>2, <4>3 DEF Next, MainSteps, ReloadSteps
    <3> QED BY <3>1, Forward DEF SeenInv, FirstHandlers
  <2> QED BY <2>1, <2>2
<1>3. ASSUME rpc' = "phase1"
      PROVE  \A h \in AddedHandlers' : h \in Handlers => seen'[h] # "none"
  <2>1. CASE Classify
    BY <2>1, ClassifyFacts DEF AddedHandlers
  <2>2. CASE ~Classify
    <3>1. rpc = "phase1" /\ gen' = gen /\ job'.added = job.added
      <4>1. CASE MainSteps
        BY <1>3, <4>1, MainFrame
      <4>2. CASE ReloadSteps
        BY <1>3, <2>2, <4>2, CallReloadFacts, ReloadRejectedFacts, AddedReadyFacts,
           AddedFailFacts, LockUpdatesFacts, UpdateInboundFacts, UpdateSkippedFacts,
           AwaitFacts, UpdateEndsFacts, UpdatesDoneFacts, RollbackFacts, RollbackDoneFacts,
           LockApplyFacts, RemoveInboundFacts, RegisterAddedFacts, ReloadDoneFacts
           DEF ReloadSteps, ReloadRuns, Await
      <4>3. ASSUME NEW h \in Handlers, HandlerActs(h)
            PROVE  rpc = "phase1" /\ gen' = gen /\ job'.added = job.added
        BY <1>3, <4>3, HandlerFacts
      <4> QED BY <4>1, <4>2, <4>3 DEF Next, MainSteps, ReloadSteps
    <3> QED BY <3>1, Forward DEF SeenInv, AddedHandlers
  <2> QED BY <2>1, <2>2
<1>4. FirstHandlers' \subseteq Handlers /\ AddedHandlers' \subseteq Handlers
  <2>1. config' \in ConfigType /\ gen' \in Gens /\ job'.added \subseteq Addrs
    BY DEF TypeOK
  <2>2. 1 \in Gens
    BY Types DEF Gens
  <2> QED
    BY <2>1, <2>2 DEF FirstHandlers, AddedHandlers, Handlers, Configured
<1> QED BY <1>1, <1>2, <1>3, <1>4 DEF SeenInv

\* Handlers and seen change in few steps: everywhere else Forward says enough.
LEMMA AddedSubset ==
    ASSUME TypeOK
    PROVE  AddedHandlers \subseteq Handlers /\ FirstHandlers \subseteq Handlers
<1>1. 1 \in Gens
  BY Types DEF Gens
<1> QED BY <1>1, Types DEF AddedHandlers, FirstHandlers, Handlers, Configured

\* Once all that was launched has been seen, it is past its start.
LEMMA AllSeenReady ==
    ASSUME TypeOK, SeenInv
    PROVE  /\ mpc = "starting" /\ AllSeen(FirstHandlers) => \A h \in FirstHandlers : Ready(h)
           /\ rpc = "phase1" /\ AllSeen(AddedHandlers) => \A h \in AddedHandlers : Ready(h)
  BY AddedSubset, Types DEF SeenInv, AllSeen, SeenType

\* While a reload runs, its plan and the stored configuration stay.
LEMMA PlanStays ==
    ASSUME TypeOK, MainInv, Next, rpc # "idle"
    PROVE  /\ gen' = gen /\ TargetKept
           /\ rpc # "prepared" => rpc' # "prepared" /\ PlanKept
           /\ rpc' # "idle" => config' = config
<1> USE DEF PlanKept, TargetKept
<1>1. CASE MainSteps
  BY <1>1, MainFrame
<1>2. CASE ReloadSteps
  BY <1>2, CallReloadFacts, ReloadRejectedFacts, ClassifyFacts,
     AddedReadyFacts, AddedFailFacts, LockUpdatesFacts, UpdateInboundFacts,
     UpdateSkippedFacts, AwaitFacts, UpdateEndsFacts, UpdatesDoneFacts,
     RollbackFacts, RollbackDoneFacts, LockApplyFacts, RemoveInboundFacts,
     RegisterAddedFacts, ReloadDoneFacts DEF ReloadSteps, ReloadRuns, Await
<1>3. ASSUME NEW h \in Handlers, HandlerActs(h)
      PROVE  /\ gen' = gen /\ TargetKept
             /\ rpc # "prepared" => rpc' # "prepared" /\ PlanKept
             /\ rpc' # "idle" => config' = config
  BY <1>3, HandlerFacts
<1> QED BY <1>1, <1>2, <1>3 DEF Next, MainSteps, ReloadSteps

\* The map changes in five steps.
LEMMA MapSame ==
    ASSUME TypeOK, MainInv, Next, ~Started, ~UpdateEnds, ~RegisterAdded,
           \A a \in Addrs : ~RemoveInbound(a)
    PROVE  inbounds' = inbounds
<1>1. CASE MainSteps
  BY <1>1, StartFacts, MainHandlers
<1>2. CASE ReloadSteps
  BY <1>2, CallReloadFacts, ReloadRejectedFacts, ClassifyFacts,
     AddedReadyFacts, AddedFailFacts, LockUpdatesFacts, UpdateInboundFacts,
     UpdateSkippedFacts, AwaitFacts, UpdateEndsFacts, UpdatesDoneFacts,
     RollbackFacts, RollbackDoneFacts, LockApplyFacts, RemoveInboundFacts,
     RegisterAddedFacts, ReloadDoneFacts DEF ReloadSteps, ReloadRuns, Await
<1>3. ASSUME NEW h \in Handlers, HandlerActs(h)
      PROVE  inbounds' = inbounds
  BY <1>3, HandlerFacts
<1> QED BY <1>1, <1>2, <1>3 DEF Next, MainSteps, ReloadSteps

\* Handlers are launched in three steps.
LEMMA LiveStays ==
    ASSUME TypeOK, MainInv, JobInv, GenInv, Next, ~Start, ~Classify,
           \A a \in Addrs : ~UpdateInbound(a), NEW g \in Handlers
    PROVE  /\ handler[g] = "none" => handler'[g] = "none"
           /\ Live(g)' => Live(g)
<1>1. handler[g] = "none" => handler'[g] = "none"
  <2>1. CASE MainSteps
    BY <2>1, MainHandlers
  <2>2. CASE ReloadSteps
    BY <2>2, CallReloadFacts, ReloadRejectedFacts, ClassifyFacts,
       AddedReadyFacts, AddedFailFacts, LockUpdatesFacts, UpdateInboundFacts,
       UpdateSkippedFacts, AwaitFacts, UpdateEndsFacts, UpdatesDoneFacts,
       RollbackFacts, RollbackDoneFacts, LockApplyFacts, RemoveInboundFacts,
       RegisterAddedFacts, ReloadDoneFacts DEF ReloadSteps, ReloadRuns, Await
  <2>3. ASSUME NEW h \in Handlers, HandlerActs(h)
        PROVE  handler[g] = "none" => handler'[g] = "none"
    BY <2>3, HandlerFacts
  <2> QED BY <2>1, <2>2, <2>3 DEF Next, MainSteps, ReloadSteps
<1> QED BY <1>1, Advance DEF MovesForward, Live

\* The handlers in the map are past their start.
LEMMA InMapReady ==
    ASSUME TypeOK, MainInv, JobInv, GenInv, SeenInv, MapInv, Next,
           NEW b \in Addrs, inbounds'[b] # 0
    PROVE  Ready(<<b, inbounds[b]>>)'
<1>0. \A h \in Handlers : Ready(h) => Ready(h)'
  BY Forward
<1>1. CASE inbounds'[b] = inbounds[b]
  BY <1>0, <1>1, Types DEF MapInv, Ready
<1>2. CASE Started
  <2>1. <<b, 1>> \in FirstHandlers /\ inbounds'[b] = 1
    BY <1>2, StartedFacts DEF FirstHandlers, Configured
  <2> QED BY <1>0, <1>2, <2>1, StartedFacts, AllSeenReady, AddedSubset DEF Ready
<1>3. CASE UpdateEnds
  BY <1>0, <1>1, <1>3, UpdateEndsFacts, NewFacts, Types DEF MapInv, Ready, New
<1>4. ASSUME NEW a \in Addrs, RemoveInbound(a)
      PROVE  Ready(<<b, inbounds[b]>>)'
  BY <1>1, <1>4, RemoveInboundFacts
<1>5. CASE RegisterAdded
  <2>1. b \in job.added => New(b) \in AddedHandlers
    BY DEF New, AddedHandlers
  <2> QED BY <1>0, <1>1, <1>5, <2>1, RegisterAddedFacts, NewFacts DEF MapInv, Ready, New
<1> QED BY <1>1, <1>2, <1>3, <1>4, <1>5, MapSame

LEMMA MapNext ==
    ASSUME TypeOK, TypeOK', MainInv, JobInv, GenInv, SeenInv, MapInv, ConfigInv, Next
    PROVE  MapInv'
<1>1. \A b \in Addrs : inbounds'[b] # 0 => Ready(<<b, inbounds[b]>>)'
  BY InMapReady
<1>2. ASSUME rpc' \notin {"idle", "prepared", "phase1"}
      PROVE  \A h \in AddedHandlers' : Ready(h)'
  <2>1. \A h \in AddedHandlers : Ready(h)
    <3>1. CASE rpc \notin {"idle", "prepared", "phase1"}
      BY <3>1 DEF MapInv
    <3>2. CASE rpc \in {"idle", "prepared", "phase1"}
      <4>1. CASE MainSteps
        BY <1>2, <3>2, <4>1, MainFrame
      <4>2. CASE ReloadSteps
        BY <1>2, <3>2, <4>2, AllSeenReady, CallReloadFacts,
           ReloadRejectedFacts, ClassifyFacts, AddedReadyFacts, AddedFailFacts,
           LockUpdatesFacts, UpdateInboundFacts, UpdateSkippedFacts,
           AwaitFacts, UpdateEndsFacts, UpdatesDoneFacts, RollbackFacts,
           RollbackDoneFacts, LockApplyFacts, RemoveInboundFacts,
           RegisterAddedFacts, ReloadDoneFacts DEF ReloadSteps, ReloadRuns,
           Await
      <4>3. ASSUME NEW h \in Handlers, HandlerActs(h)
            PROVE  \A g \in AddedHandlers : Ready(g)
        BY <1>2, <3>2, <4>3, HandlerFacts
      <4> QED BY <4>1, <4>2, <4>3 DEF Next, MainSteps, ReloadSteps
    <3> QED BY <3>1, <3>2
  <2>2. AddedHandlers' = AddedHandlers
    <3>1. rpc \notin {"idle", "prepared"}
      <4>1. CASE MainSteps
        BY <1>2, <4>1, MainFrame
      <4>2. CASE ReloadSteps
        BY <1>2, <4>2, CallReloadFacts, ReloadRejectedFacts, ClassifyFacts,
           AddedReadyFacts, AddedFailFacts, LockUpdatesFacts,
           UpdateInboundFacts, UpdateSkippedFacts, AwaitFacts, UpdateEndsFacts,
           UpdatesDoneFacts, RollbackFacts, RollbackDoneFacts, LockApplyFacts,
           RemoveInboundFacts, RegisterAddedFacts, ReloadDoneFacts DEF
           ReloadSteps, ReloadRuns, Await
      <4>3. ASSUME NEW h \in Handlers, HandlerActs(h)
            PROVE  rpc \notin {"idle", "prepared"}
        BY <1>2, <4>3, HandlerFacts
      <4> QED BY <4>1, <4>2, <4>3 DEF Next, MainSteps, ReloadSteps
    <3> QED BY <3>1, PlanStays DEF AddedHandlers, PlanKept
  <2> QED BY <2>1, <2>2, AddedSubset, Forward
<1>3. ASSUME Waiting'
      PROVE  /\ inbounds'[job'.cur] # 0
             /\ handler'[<<job'.cur, inbounds'[job'.cur]>>] \notin {"listening", "left"}
             /\ rpc' = "relock" /\ job'.bound => Ready(New(job.cur))'
  <2>1. ASSUME NEW a \in Addrs, UpdateInbound(a)
        PROVE  /\ job'.cur = a /\ inbounds' = inbounds /\ inbounds[a] # 0
               /\ handler'[<<a, inbounds[a]>>] \notin {"listening", "left"} /\ rpc' # "relock"
    <3>1. inbounds[a] # 0
      BY <2>1, UpdateInboundFacts, MapHasConfig, PlanParts DEF ConfigInv, Mid, JobInv
    <3>2. <<a, inbounds[a]>> \in Handlers
      BY <3>1, Types
    <3> QED BY <2>1, <3>1, <3>2, UpdateInboundFacts
  <2>2. CASE Waiting /\ (Await \/ MainSteps \/ \E h \in Handlers : HandlerActs(h))
    <3>1. /\ job'.cur = job.cur /\ inbounds' = inbounds /\ New(job.cur)' = New(job.cur)
          /\ Await \/ (rpc' = rpc /\ (job'.bound <=> job.bound))
      BY <2>2, AwaitFacts, MainFrame, MainHandlers, StartFacts, StartedFacts, HandlerFacts
         DEF New, Waiting, MainInv, Early
    <3>2. LET g == <<job.cur, inbounds[job.cur]>> IN
          /\ g \in Handlers /\ Ready(g) /\ handler[g] \notin {"listening", "left"}
          /\ inbounds[job.cur] # 0
      BY <2>2, Types DEF MapInv
    <3>3. handler'[<<job.cur, inbounds[job.cur]>>] \notin {"listening", "left"}
      BY <3>2, Advance DEF MovesForward, Ready
    <3>4. rpc' = "relock" /\ job'.bound => Ready(New(job.cur))
      BY <2>2, <3>1, AwaitFacts DEF MapInv
    <3>5. New(job.cur) \in Handlers
      BY NewFacts, Types
    <3> QED BY <3>1, <3>2, <3>3, <3>4, <3>5, Forward DEF Ready
  <2>3. \/ \E a \in Addrs : UpdateInbound(a)
        \/ Waiting /\ (Await \/ MainSteps \/ \E h \in Handlers : HandlerActs(h))
    <3>1. CASE MainSteps
      BY <1>3, <3>1, MainFrame DEF Waiting
    <3>2. CASE ReloadSteps
      BY <1>3, <3>2, CallReloadFacts, ReloadRejectedFacts, ClassifyFacts,
         AddedReadyFacts, AddedFailFacts, LockUpdatesFacts, UpdateInboundFacts,
         UpdateSkippedFacts, AwaitFacts, UpdateEndsFacts, UpdatesDoneFacts,
         RollbackFacts, RollbackDoneFacts, LockApplyFacts, RemoveInboundFacts,
         RegisterAddedFacts, ReloadDoneFacts DEF ReloadSteps, ReloadRuns,
         Await, Waiting
    <3>3. ASSUME NEW h \in Handlers, HandlerActs(h)
          PROVE  Waiting
      BY <1>3, <3>3, HandlerFacts DEF Waiting
    <3> QED BY <3>1, <3>2, <3>3 DEF Next, MainSteps, ReloadSteps
  <2> QED BY <2>1, <2>2, <2>3 DEF Waiting
<1> QED BY <1>1, <1>2, <1>3 DEF MapInv, Waiting, Ready

----------------------------------------------------------------------------
(* The stored configuration *)

\* A handler that exists keeps its version.
LEMMA InMapStays ==
    ASSUME TypeOK, LaterInv, Next, ~Start, NEW b \in Addrs, inbounds'[b] = inbounds[b]
    PROVE  InMap(b)' = InMap(b)
<1>1. inbounds[b] # 0 => version'[<<b, inbounds[b]>>] = version[<<b, inbounds[b]>>]
  <2>1. CASE MainSteps
    BY <2>1, MainHandlers
  <2>2. ASSUME NEW c \in Configs, CallReload(c), inbounds[b] # 0
        PROVE  version'[<<b, inbounds[b]>>] = version[<<b, inbounds[b]>>]
    <3>1. inbounds[b] # gen + 1
      BY Types DEF LaterInv, Gens, MapType
    <3> QED BY <2>2, <3>1, CallReloadFacts, Types
  <2>3. CASE ReloadSteps /\ \A c \in Configs : ~CallReload(c)
    BY <2>3, ReloadRejectedFacts, ClassifyFacts, AddedReadyFacts,
       AddedFailFacts, LockUpdatesFacts, UpdateInboundFacts,
       UpdateSkippedFacts, AwaitFacts, UpdateEndsFacts, UpdatesDoneFacts,
       RollbackFacts, RollbackDoneFacts, LockApplyFacts, RemoveInboundFacts,
       RegisterAddedFacts, ReloadDoneFacts DEF ReloadSteps, ReloadRuns, Await
  <2>4. ASSUME NEW h \in Handlers, HandlerActs(h)
        PROVE  version' = version
    BY <2>4, HandlerFacts
  <2> QED BY <2>1, <2>2, <2>3, <2>4 DEF Next, MainSteps, ReloadSteps
<1> QED BY <1>1 DEF InMap

LEMMA FirstVersionsNext ==
    ASSUME TypeOK, MainInv, FirstVersions, Next PROVE FirstVersions'
<1> USE DEF FirstVersions
<1>1. CASE Start
  BY <1>1, StartFacts, AddedSubset DEF FirstHandlers, Configured
<1>2. CASE MainSteps /\ ~Start
  <2>1. mpc' = "starting" => mpc = "starting"
    BY <1>2, StartedFacts, StartFailsFacts, StartRollbackFacts, StartFailedFacts, StopFacts,
       StopLockFacts, StopInboundFacts, StopUnlockFacts, StoppedFacts
       DEF MainSteps, MainRuns
  <2> QED BY <1>2, <2>1, MainFrame, MainHandlers DEF Configured
<1>3. CASE ReloadSteps
  BY <1>3, ReloadFrame DEF Early
<1>4. ASSUME NEW h \in Handlers, HandlerActs(h)
      PROVE  FirstVersions'
  BY <1>4, HandlerFacts DEF Configured
<1> QED BY <1>1, <1>2, <1>3, <1>4 DEF Next, MainSteps, ReloadSteps

LEMMA NewVersionsNext ==
    ASSUME TypeOK, MainInv, NewVersions, Next PROVE NewVersions'
<1> SUFFICES ASSUME rpc' # "idle", NEW b \in Addrs, (b \in Updated \cup Added)'
             PROVE  version'[New(b)'] = job'.target.inbound[b]
  BY DEF NewVersions, Updated, Added, UpdatedInbounds, Configured
<1>1. ASSUME NEW c \in Configs, CallReload(c)
      PROVE  version'[New(b)'] = job'.target.inbound[b]
  <2>1. /\ (Updated \cup Added)' = UpdatedInbounds(config, c)
                                      \cup (Configured(c) \ Configured(config))
        /\ New(b)' = <<b, gen + 1>> /\ job'.target = c
    BY <1>1, CallReloadFacts DEF Updated, Added, New
  <2>2. New(b)' \in Handlers
    BY <1>1, <2>1, CallReloadFacts, Types DEF Handlers, Gens
  <2> QED BY <1>1, <2>1, <2>2, CallReloadFacts
<1>2. ASSUME rpc # "idle", version' = version
      PROVE  version'[New(b)'] = job'.target.inbound[b]
  BY <1>2, PlanStays, PlanSame, NewFacts DEF NewVersions, TargetKept
<1>3. CASE MainSteps
  BY <1>2, <1>3, MainFrame, MainHandlers, StartFacts DEF MainInv, Early
<1>4. CASE ReloadSteps /\ \A c \in Configs : ~CallReload(c)
  BY <1>2, <1>4, ReloadRejectedFacts, ClassifyFacts, AddedReadyFacts,
     AddedFailFacts, LockUpdatesFacts, UpdateInboundFacts, UpdateSkippedFacts,
     AwaitFacts, UpdateEndsFacts, UpdatesDoneFacts, RollbackFacts,
     RollbackDoneFacts, LockApplyFacts, RemoveInboundFacts, RegisterAddedFacts,
     ReloadDoneFacts DEF ReloadSteps, ReloadRuns, Await
<1>5. ASSUME NEW h \in Handlers, HandlerActs(h)
      PROVE  version'[New(b)'] = job'.target.inbound[b]
  BY <1>2, <1>5, HandlerFacts
<1> QED BY <1>1, <1>3, <1>4, <1>5 DEF Next, MainSteps, ReloadSteps

LEMMA OutboundNext ==
    ASSUME TypeOK, MainInv, OutboundInv, Next PROVE OutboundInv'
<1> USE DEF OutboundInv
<1>1. CASE Start
  BY <1>1, StartFacts
<1>2. CASE MainSteps /\ ~Start
  <2>1. mpc # "new"
    BY <1>2, StartedFacts, StartFailsFacts, StartRollbackFacts, StartFailedFacts, StopFacts,
       StopLockFacts, StopInboundFacts, StopUnlockFacts, StoppedFacts
       DEF MainSteps, MainRuns
  <2> QED BY <1>2, <2>1, MainFrame, MainHandlers
<1>3. CASE ReloadSteps
  BY <1>3, ReloadFrame, CallReloadFacts, ReloadRejectedFacts, ClassifyFacts,
     AddedReadyFacts, AddedFailFacts, LockUpdatesFacts, UpdateInboundFacts,
     UpdateSkippedFacts, AwaitFacts, UpdateEndsFacts, UpdatesDoneFacts,
     RollbackFacts, RollbackDoneFacts, LockApplyFacts, RemoveInboundFacts,
     RegisterAddedFacts, ReloadDoneFacts DEF ReloadSteps, ReloadRuns, Await,
     Early
<1>4. ASSUME NEW h \in Handlers, HandlerActs(h)
      PROVE  OutboundInv'
  BY <1>4, HandlerFacts
<1> QED BY <1>1, <1>2, <1>3, <1>4 DEF Next, MainSteps, ReloadSteps

\* The version of an address whose new handler is in the map.
LEMMA NewInMap ==
    ASSUME TypeOK, NewVersions, rpc # "idle", NEW b \in Addrs,
           b \in Updated \cup Added, inbounds[b] = gen
    PROVE  InMap(b) = job.target.inbound[b]
  BY NewFacts DEF NewVersions, InMap, New

\* In the middle of a reload.
LEMMA MidNext ==
    ASSUME TypeOK, MainInv, JobInv, GenInv, MapInv, ConfigInv, rpc' \notin {"idle", "outbound"},
           NEW b \in Addrs, Next PROVE Mid(b)'
<1>0. ~Start /\ (inbounds'[b] = inbounds[b] => InMap(b)' = InMap(b))
  BY StartFacts, InMapStays DEF MainInv, Early, GenInv
<1> USE <1>0, PlanSame, PlanParts DEF Waiting
<1>1. ASSUME NEW c \in Configs, CallReload(c)
      PROVE  Mid(b)'
  BY <1>1, CallReloadFacts, ReloadFrame DEF ReloadSteps, ConfigInv, Mid
<1>2. CASE ReloadRejected
  BY <1>2, ReloadRejectedFacts
<1>3. CASE Classify
  BY <1>3, ClassifyFacts DEF Mid, ConfigInv, JobInv, PlanKept, TargetKept,
     ResultKept
<1>4. CASE AddedReady
  BY <1>4, AddedReadyFacts DEF Mid, ConfigInv, JobInv, PlanKept, TargetKept,
     ResultKept
<1>5. CASE AddedFail
  BY <1>5, AddedFailFacts DEF Mid, ConfigInv, JobInv, PlanKept, TargetKept,
     ResultKept
<1>6. CASE LockUpdates
  BY <1>6, LockUpdatesFacts DEF Mid, ConfigInv, JobInv, PlanKept, TargetKept,
     ResultKept
<1>7. ASSUME NEW a \in Addrs, UpdateInbound(a)
      PROVE  Mid(b)'
  BY <1>7, UpdateInboundFacts DEF Mid, ConfigInv, JobInv, PlanKept, TargetKept,
     ResultKept
<1>8. ASSUME NEW a \in Addrs, UpdateSkipped(a)
      PROVE  Mid(b)'
  BY <1>8, UpdateSkippedFacts DEF Mid, ConfigInv, JobInv, PlanKept, TargetKept,
     ResultKept
<1>9. CASE Await
  BY <1>9, AwaitFacts DEF Mid, ConfigInv, JobInv, PlanKept, TargetKept,
     ResultKept
<1>10. CASE UpdateEnds
  BY <1>10, UpdateEndsFacts DEF Mid, ConfigInv, JobInv, PlanKept, TargetKept,
     ResultKept
<1>11. CASE UpdatesDone
  BY <1>11, UpdatesDoneFacts DEF Mid, ConfigInv, JobInv, PlanKept, TargetKept,
     ResultKept
<1>12. ASSUME NEW a \in Addrs, NEW slow \in BOOLEAN, Rollback(a, slow)
      PROVE  Mid(b)'
  BY <1>12, RollbackFacts DEF Mid, ConfigInv, JobInv, PlanKept, TargetKept,
     ResultKept
<1>13. CASE RollbackDone
  BY <1>13, RollbackDoneFacts
<1>14. CASE LockApply
  BY <1>14, LockApplyFacts DEF Mid, ConfigInv, JobInv, PlanKept, TargetKept,
     ResultKept
<1>15. ASSUME NEW a \in Addrs, RemoveInbound(a)
      PROVE  Mid(b)'
  BY <1>15, RemoveInboundFacts DEF Mid, ConfigInv, JobInv, PlanKept,
     TargetKept, ResultKept
<1>16. CASE RegisterAdded
  BY <1>16, RegisterAddedFacts
<1>17. CASE ReloadDone
  BY <1>17, ReloadDoneFacts
<1>18. CASE MainSteps
  <2>1. ~Started
    BY <1>18, MainFrame, StartedFacts DEF MainInv, Early
  <2> QED BY <1>18, <2>1, MainFrame, MainHandlers DEF Mid, ConfigInv
<1>19. ASSUME NEW h \in Handlers, HandlerActs(h)
      PROVE  Mid(b)'
  BY <1>19, HandlerFacts DEF Mid, ConfigInv
<1> QED BY <1>1, <1>2, <1>3, <1>4, <1>5, <1>6, <1>7, <1>8, <1>9, <1>10, <1>11,
   <1>12, <1>13, <1>14, <1>15, <1>16, <1>17, <1>18, <1>19 DEF Next, MainSteps,
   ReloadRuns, Await

\* When all changes are made.
LEMMA AppliedNext ==
    ASSUME TypeOK, MainInv, JobInv, GenInv, MapInv, ConfigInv, Next,
           rpc' = "outbound", NEW b \in Addrs
    PROVE  Applied(b)'
<1>0. ~Start /\ ~Started /\ (inbounds'[b] = inbounds[b] => InMap(b)' = InMap(b))
  BY StartFacts, StartedFacts, InMapStays DEF MainInv, Early, GenInv
<1>1. CASE RegisterAdded
  <2>1. job'.target = job.target /\ version' = version /\ job' = job /\ gen' = gen
    BY <1>1, RegisterAddedFacts
  <2>2. CASE b \in Added
    <3>1. inbounds'[b] = gen /\ job.added = Added
      BY <1>1, <2>2, RegisterAddedFacts DEF JobInv
    <3>2. InMap(b)' = version[New(b)]
      BY <2>1, <3>1, NewFacts DEF InMap, New
    <3> QED BY <1>1, <2>1, <2>2, <3>1, <3>2, RegisterAddedFacts
            DEF Applied, ConfigInv, NewVersions
  <2>3. CASE b \notin Added
    <3>1. inbounds'[b] = inbounds[b] /\ b \notin job'.added
      BY <1>1, <2>3, RegisterAddedFacts DEF JobInv
    <3>2. Mid(b) /\ job.done = Updated /\ job.gone = {} /\ job.todo = {} /\ rpc = "removing"
      BY <1>1, RegisterAddedFacts DEF JobInv, ConfigInv
    <3>3. InMap(b) = job.target.inbound[b]
      <4>1. CASE b \in Updated
        BY <1>1, <3>2, <4>1, NewInMap DEF Mid, ConfigInv
      <4>2. CASE b \in Removed
        BY <3>2, <4>2 DEF Mid, Removed, Configured, InMap
      <4>3. CASE b \notin Updated \cup Removed
        BY <2>3, <3>2, <4>3 DEF Mid, Removed, Added, Updated, UpdatedInbounds, Configured
      <4> QED BY <4>1, <4>2, <4>3
    <3> QED BY <1>0, <2>1, <3>1, <3>3 DEF Applied
  <2> QED BY <2>2, <2>3
<1>2. CASE MainSteps
  BY <1>0, <1>2, MainFrame, MainHandlers DEF Applied, ConfigInv
<1>3. CASE ReloadSteps /\ ~RegisterAdded
  BY <1>3, CallReloadFacts, ReloadRejectedFacts, ClassifyFacts,
     AddedReadyFacts, AddedFailFacts, LockUpdatesFacts, UpdateInboundFacts,
     UpdateSkippedFacts, AwaitFacts, UpdateEndsFacts, UpdatesDoneFacts,
     RollbackFacts, RollbackDoneFacts, LockApplyFacts, RemoveInboundFacts,
     RegisterAddedFacts, ReloadDoneFacts DEF ReloadSteps, ReloadRuns, Await
<1>4. ASSUME NEW h \in Handlers, HandlerActs(h)
      PROVE  Applied(b)'
  BY <1>0, <1>4, HandlerFacts DEF Applied, ConfigInv
<1> QED BY <1>1, <1>2, <1>3, <1>4 DEF Next, MainSteps, ReloadSteps

\* When no reload runs.
LEMMA StoredNext ==
    ASSUME TypeOK, MainInv, JobInv, GenInv, MapInv, ConfigInv, Next,
           ~Early', rpc' = "idle", NEW b \in Addrs
    PROVE  config'.inbound[b] = InMap(b)'
<1>0. ~Start /\ (inbounds'[b] = inbounds[b] => InMap(b)' = InMap(b))
  BY StartFacts, InMapStays DEF MainInv, Early, GenInv
<1>1. CASE Started
  <2>1. /\ inbounds'[b] = IF config.inbound[b] # 0 THEN 1 ELSE 0
        /\ version' = version /\ config' = config /\ mpc = "starting"
    BY <1>1, StartedFacts
  <2> QED BY <2>1 DEF InMap, ConfigInv, FirstVersions, Configured
<1>2. CASE MainSteps /\ ~Started
  <2>1. ~Early
    BY <1>0, <1>2, StartFailsFacts, StartRollbackFacts, StartFailedFacts, StopFacts,
       StopLockFacts, StopInboundFacts, StopUnlockFacts, StoppedFacts
       DEF MainSteps, MainRuns, Early
  <2> QED BY <1>0, <1>2, <2>1, MainFrame, MainHandlers DEF ConfigInv
<1>3. CASE RollbackDone
  <2>1. /\ Mid(b) /\ rpc = "rollback" /\ inbounds' = inbounds
        /\ config'.inbound[b] = IF b \in job.gone THEN 0
                                ELSE IF b \in job.done THEN job.target.inbound[b]
                                ELSE config.inbound[b]
    BY <1>3, RollbackDoneFacts DEF ConfigInv
  <2>2. CASE b \in job.gone
    BY <1>0, <2>1, <2>2 DEF Mid, InMap
  <2>3. CASE b \in job.done \ job.gone
    BY <1>0, <2>1, <2>3, NewInMap DEF Mid, ConfigInv, JobInv
  <2>4. CASE b \notin job.done \cup job.gone
    BY <1>0, <2>1, <2>4 DEF Mid
  <2> QED BY <2>2, <2>3, <2>4
<1>4. CASE ReloadDone
  BY <1>0, <1>4, ReloadDoneFacts DEF ConfigInv, Applied
<1>5. CASE ReloadRejected
  BY <1>0, <1>5, ReloadRejectedFacts, ReloadFrame DEF ReloadSteps, ConfigInv
<1>6. CASE ReloadSteps /\ ~RollbackDone /\ ~ReloadDone /\ ~ReloadRejected
  BY <1>6, CallReloadFacts, ClassifyFacts, AddedReadyFacts, AddedFailFacts,
     LockUpdatesFacts, UpdateInboundFacts, UpdateSkippedFacts, AwaitFacts,
     UpdateEndsFacts, UpdatesDoneFacts, RollbackFacts, LockApplyFacts,
     RemoveInboundFacts, RegisterAddedFacts DEF ReloadSteps, ReloadRuns, Await
<1>7. ASSUME NEW h \in Handlers, HandlerActs(h)
      PROVE  config'.inbound[b] = InMap(b)'
  BY <1>0, <1>7, HandlerFacts DEF ConfigInv, Early
<1> QED BY <1>1, <1>2, <1>3, <1>4, <1>5, <1>6, <1>7 DEF Next, MainSteps, ReloadSteps

LEMMA ConfigNext ==
    ASSUME TypeOK, MainInv, JobInv, GenInv, MapInv, ConfigInv, Next PROVE ConfigInv'
  BY FirstVersionsNext, NewVersionsNext, OutboundNext, MidNext, AppliedNext, StoredNext
     DEF ConfigInv

----------------------------------------------------------------------------
(* Listeners *)

\* A step of Start or Stop leaves mpc, or visits one address.
LEMMA MainPlace ==
    ASSUME TypeOK, MainSteps
    PROVE  /\ mpc' = "starting" => Start
           /\ mpc' = "rollback" => StartFails \/ \E a \in Addrs : StartRollback(a)
           /\ mpc' = "failed" => StartFailed
           /\ mpc' = "up" => Started
           /\ mpc' = "done" => Stopped
           /\ mpc' # "new"
  BY StartFacts, StartedFacts, StartFailsFacts, StartRollbackFacts, StartFailedFacts,
     StopFacts,
     StopLockFacts, StopInboundFacts, StopUnlockFacts, StoppedFacts
     DEF MainSteps, MainRuns

\* While Start runs, or has failed, only its own handlers live.
LEMMA EarlyLive ==
    ASSUME TypeOK, MainInv, JobInv, GenInv, SeenInv, LiveInv, Next
    PROVE  /\ mpc' = "starting" => \A h \in Handlers : Live(h)' => h \in FirstHandlers'
           /\ mpc' = "rollback" => \A h \in Handlers :
                 Live(h)' => handler'[h] = "listening" /\ h[2] = 1 /\ h[1] \in stopping'
           /\ mpc' = "failed" => \A h \in Handlers : ~Live(h)'
<1> USE DEF Live
<1>1. CASE Start
  BY <1>1, StartFacts DEF MainInv, FirstHandlers
<1>2. CASE StartFails
  <2>1. \A h \in FirstHandlers : Ready(h) /\ h[2] = 1 /\ h[1] \in Configured(config)
    BY <1>2, StartFailsFacts, AllSeenReady DEF FirstHandlers
  <2> QED BY <1>2, <2>1, StartFailsFacts DEF LiveInv, Ready
<1>3. ASSUME NEW a \in Addrs, StartRollback(a), NEW h \in Handlers, Live(h)'
      PROVE  handler'[h] = "listening" /\ h[2] = 1 /\ h[1] \in stopping'
  <2>1. handler[h] = "listening" /\ h[2] = 1 /\ h[1] \in stopping
    BY <1>3, StartRollbackFacts DEF LiveInv
  <2>2. h = <<h[1], h[2]>>
    BY DEF Handlers
  <2>3. h # <<a, 1>> /\ handler'[h] = handler[h]
    BY <1>3, <2>1, StartRollbackFacts
  <2> QED BY <1>3, <2>1, <2>2, <2>3, StartRollbackFacts
<1>4. CASE StartFailed
  BY <1>4, StartFailedFacts DEF LiveInv
<1>5. CASE ReloadSteps
  BY <1>5, ReloadFrame DEF Early
<1>6. ASSUME NEW g \in Handlers, HandlerActs(g)
      PROVE  /\ mpc' = "starting" => \A h \in Handlers : Live(h)' => h \in FirstHandlers'
             /\ mpc' = "rollback" => \A h \in Handlers :
                   Live(h)' => handler'[h] = "listening" /\ h[2] = 1 /\ h[1] \in stopping'
             /\ mpc' = "failed" => \A h \in Handlers : ~Live(h)'
  BY <1>6, HandlerFacts DEF LiveInv, FirstHandlers, Configured
<1>7. CASE MainSteps
  BY <1>1, <1>2, <1>3, <1>4, <1>7, MainPlace, StartFacts, StartFailsFacts,
     StartRollbackFacts,
     StartFailedFacts
<1> QED BY <1>5, <1>6, <1>7 DEF Next, MainSteps, ReloadSteps

\* A handler in the map that lives listens.
LEMMA InMapLive ==
    ASSUME TypeOK, MapInv, NEW a \in Addrs, inbounds[a] # 0
    PROVE  /\ <<a, inbounds[a]>> \in Handlers
           /\ Live(<<a, inbounds[a]>>) => handler[<<a, inbounds[a]>>] = "listening"
  BY Types DEF MapInv, Live, Ready

\* While nobody stops the agent, no handler that lives is lost.
LEMMA HeldNext ==
    ASSUME TypeOK, MainInv, JobInv, GenInv, SeenInv, MapInv, ConfigInv, LiveInv, mpc' = "up",
           NEW g \in Handlers, Live(g)', Next PROVE Held(g)'
<1>0. /\ g = <<g[1], g[2]>> /\ g[1] \in Addrs /\ g[2] # 0
      /\ ReloadSteps => mpc = "up"
      /\ mpc = "up" /\ Live(g) => Held(g)
  BY ReloadFrame DEF Handlers, Gens, LiveInv
<1>a. \A A : g \in A \X {gen} <=> g[1] \in A /\ g[2] = gen
  BY <1>0
<1> USE <1>0, NewFacts DEF Waiting, Held
<1>1. ASSUME NEW c \in Configs, CallReload(c)
      PROVE  Held(g)'
  BY <1>1, CallReloadFacts DEF ReloadSteps, ReloadRuns, Live, AddedHandlers,
     PlanKept, WaitKept
<1>2. CASE ReloadRejected
  BY <1>2, ReloadRejectedFacts DEF ReloadSteps, ReloadRuns, Live,
     AddedHandlers, PlanKept, WaitKept
<1>3. CASE Classify
  <2>1. Live(g) \/ g \in job'.added \X {gen}
    BY <1>3, ClassifyFacts DEF Live
  <2> QED BY <1>3, <2>1, ClassifyFacts DEF ReloadSteps, ReloadRuns, AddedHandlers, JobInv
<1>4. CASE AddedReady
  BY <1>4, AddedReadyFacts DEF ReloadSteps, ReloadRuns, Live, AddedHandlers,
     PlanKept, WaitKept
<1>5. CASE AddedFail
  BY <1>5, AddedFailFacts, <1>a DEF ReloadSteps, ReloadRuns, Live, AddedHandlers, PlanKept
<1>6. CASE LockUpdates
  BY <1>6, LockUpdatesFacts DEF ReloadSteps, ReloadRuns, Live, AddedHandlers,
     PlanKept, WaitKept
<1>7. ASSUME NEW a \in Addrs, UpdateInbound(a)
      PROVE  Held(g)'
  <2>1. Live(g) \/ g = New(a)
    BY <1>7, UpdateInboundFacts DEF Live
  <2> QED BY <1>7, <2>1, UpdateInboundFacts
      DEF ReloadSteps, ReloadRuns, AddedHandlers, PlanKept, New
<1>8. ASSUME NEW a \in Addrs, UpdateSkipped(a)
      PROVE  Held(g)'
  BY <1>8, UpdateSkippedFacts DEF ReloadSteps, ReloadRuns, Live, AddedHandlers,
     PlanKept, WaitKept
<1>9. CASE Await
  BY <1>9, AwaitFacts DEF ReloadSteps, ReloadRuns, Live, AddedHandlers, PlanKept, New
<1>10. CASE UpdateEnds
  <2>0. mpc = "up" /\ Live(g) /\ job.cur \in Addrs
    BY <1>10, UpdateEndsFacts, Types DEF ReloadSteps, ReloadRuns, Live
  <2>1. CASE g[1] # job.cur
    BY <1>10, <2>0, <2>1, UpdateEndsFacts DEF AddedHandlers, PlanKept, New
  <2>2. CASE g[1] = job.cur
    <3>1. ~Live(<<job.cur, inbounds[job.cur]>>) /\ job.cur \notin job.added
      BY <1>10, UpdateEndsFacts, InMapLive, PlanParts DEF MapInv, JobInv
    <3>2. g = New(job.cur)
      BY <2>0, <2>2, <3>1, <1>a DEF AddedHandlers
    <3>3. job.bound
      BY <1>10, <2>0, <3>2, UpdateEndsFacts DEF LiveInv, Live
    <3> QED BY <1>10, <3>2, <3>3, UpdateEndsFacts, Types
  <2> QED BY <2>1, <2>2
<1>11. CASE UpdatesDone
  BY <1>11, UpdatesDoneFacts, <1>a DEF ReloadSteps, ReloadRuns, Live, AddedHandlers,
     PlanKept
<1>12. ASSUME NEW a \in Addrs, NEW slow \in BOOLEAN, Rollback(a, slow)
      PROVE  Held(g)'
  <2>1. Live(g) /\ handler'[g] = handler[g]
    BY <1>12, RollbackFacts DEF Live
  <2>2. CASE g = New(a)
    <3>1. New(a) \in AddedHandlers
      BY <1>12, RollbackFacts DEF JobInv, New, AddedHandlers
    <3>2. handler[g] = "listening"
      BY <1>12, <2>1, <2>2, <3>1, RollbackFacts DEF MapInv, Ready, Live
    <3> QED BY <1>12, <2>1, <2>2, <3>2, RollbackFacts
  <2>3. CASE g # New(a)
    BY <1>12, <2>1, <2>3, RollbackFacts, <1>a
       DEF ReloadSteps, ReloadRuns, AddedHandlers, PlanKept, New
  <2> QED BY <2>2, <2>3
<1>13. CASE RollbackDone
  BY <1>13, RollbackDoneFacts, <1>a DEF ReloadSteps, ReloadRuns, Live, AddedHandlers
<1>14. CASE LockApply
  BY <1>14, LockApplyFacts DEF ReloadSteps, ReloadRuns, Live, AddedHandlers,
     PlanKept, WaitKept
<1>15. ASSUME NEW a \in Addrs, RemoveInbound(a)
      PROVE  Held(g)'
  <2>1. Live(g) /\ handler'[g] = handler[g]
    BY <1>15, RemoveInboundFacts DEF Live
  <2>2. g # <<a, inbounds[a]>>
    BY <1>15, <2>1, InMapLive, RemoveInboundFacts
  <2> QED BY <1>15, <2>1, <2>2, RemoveInboundFacts
      DEF ReloadSteps, ReloadRuns, AddedHandlers, PlanKept
<1>16. CASE RegisterAdded
  <2>1. Live(g) /\ rpc' = "outbound" /\ job.added = Added
    BY <1>16, RegisterAddedFacts DEF Live, JobInv
  <2>2. CASE g[1] \in Added
    <3>1. inbounds[g[1]] = 0
      BY <1>16, <2>2, RegisterAddedFacts, MapHasConfig, PlanParts
         DEF ConfigInv, Mid, JobInv, Added
    <3> QED BY <1>16, <2>1, <2>2, <3>1, RegisterAddedFacts, <1>a
        DEF ReloadSteps, ReloadRuns, AddedHandlers
  <2>3. CASE g[1] \notin Added
    BY <1>16, <2>1, <2>3, RegisterAddedFacts DEF ReloadSteps, ReloadRuns, AddedHandlers
  <2> QED BY <2>2, <2>3
<1>17. CASE ReloadDone
  BY <1>17, ReloadDoneFacts, <1>a
     DEF ReloadSteps, ReloadRuns, Live, AddedHandlers, ConfigInv, Applied
<1>18. CASE MainSteps
  <2>1. Started
    BY <1>18, MainPlace
  <2>2. Live(g) /\ g \in FirstHandlers
    BY <2>1, StartedFacts DEF Live, LiveInv
  <2> QED BY <2>1, <2>2, StartedFacts DEF FirstHandlers, Configured
<1>19. ASSUME NEW h \in Handlers, HandlerActs(h)
      PROVE  Held(g)'
  <2>1. Live(g)
    BY <1>19, HandlerFacts DEF Live
  <2> QED BY <1>19, <2>1, HandlerFacts DEF AddedHandlers, New
<1> QED BY <1>1, <1>2, <1>3, <1>4, <1>5, <1>6, <1>7, <1>8, <1>9, <1>10, <1>11,
   <1>12, <1>13, <1>14, <1>15, <1>16, <1>17, <1>18, <1>19 DEF Next, MainSteps,
   ReloadRuns, Await

\* A new handler the reload took for failed has failed, unless Stop was called.
LEMMA FailedNext ==
    ASSUME TypeOK, MainInv, JobInv, GenInv, SeenInv, LiveInv, Next,
           mpc' = "up", rpc' = "relock", ~job'.bound
    PROVE  handler'[New(job.cur)'] = "failed"
<1>0. New(job.cur) \in Handlers
  BY NewFacts, Types
<1>1. CASE Await
  BY <1>1, AwaitFacts DEF MainInv, New
<1>2. CASE MainSteps
  BY <1>2, MainPlace, MainFrame, StartedFacts DEF MainInv, Early
<1>3. CASE ReloadSteps /\ ~Await
  BY <1>3, CallReloadFacts, ReloadRejectedFacts, ClassifyFacts,
     AddedReadyFacts, AddedFailFacts, LockUpdatesFacts, UpdateInboundFacts,
     UpdateSkippedFacts, UpdateEndsFacts, UpdatesDoneFacts, RollbackFacts,
     RollbackDoneFacts, LockApplyFacts, RemoveInboundFacts, RegisterAddedFacts,
     ReloadDoneFacts DEF ReloadSteps, ReloadRuns, Await
<1>4. ASSUME NEW h \in Handlers, HandlerActs(h)
      PROVE  handler'[New(job.cur)'] = "failed"
  BY <1>0, <1>4, HandlerFacts, Forward DEF LiveInv, New
<1> QED BY <1>1, <1>2, <1>3, <1>4 DEF Next, MainSteps, ReloadSteps

LEMMA LiveNext ==
    ASSUME TypeOK, MainInv, JobInv, GenInv, SeenInv, MapInv, ConfigInv, LiveInv, Next
    PROVE  LiveInv'
  BY EarlyLive, HeldNext, FailedNext DEF LiveInv

\* Nothing starts once Stop has returned.
LEMMA DoneNext ==
    ASSUME TypeOK, MainInv, DoneInv, Next
    PROVE  DoneInv'
<1> USE DEF DoneInv
<1>1. CASE MainSteps
  BY <1>1, MainPlace, StoppedFacts DEF NothingRuns, Counted
<1>2. CASE ReloadSteps
  <2>1. FromWatchLoop => mpc' # "done"
    BY <1>2, ReloadFrame DEF NothingRuns
  <2> QED BY <2>1
<1>3. ASSUME NEW h \in Handlers, HandlerActs(h)
      PROVE  DoneInv'
  BY <1>3, HandlerFacts DEF NothingRuns, Counted
<1> QED BY <1>1, <1>2, <1>3 DEF Next, MainSteps, ReloadSteps

----------------------------------------------------------------------------
(* What Stop leaves *)

\* Only on the cancelled context does Start leave its listener open.
LEMMA Leaves ==
    ASSUME TypeOK, Next, NEW g \in Handlers, handler'[g] = "left"
    PROVE  handler[g] = "left" \/ cancelled
<1>1. CASE MainSteps
  BY <1>1, StartFacts, MainHandlers
<1>2. CASE ReloadSteps
  BY <1>2, CallReloadFacts, ReloadRejectedFacts, ClassifyFacts, AddedReadyFacts,
     AddedFailFacts, LockUpdatesFacts, UpdateInboundFacts, UpdateSkippedFacts, AwaitFacts,
     UpdateEndsFacts, UpdatesDoneFacts, RollbackFacts, RollbackDoneFacts, LockApplyFacts,
     RemoveInboundFacts, RegisterAddedFacts, ReloadDoneFacts
     DEF ReloadSteps, ReloadRuns, Await
<1>3. ASSUME NEW h \in Handlers, HandlerActs(h)
      PROVE  handler[g] = "left" \/ cancelled
  BY <1>3, HandlerFacts
<1> QED BY <1>1, <1>2, <1>3 DEF Next, MainSteps, ReloadSteps

\* The context is cancelled once; whether a reload runs then is remembered.
LEMMA Cancels ==
    ASSUME TypeOK, MainInv, Next
    PROVE  /\ cancelled => cancelled'
           /\ cancelled /\ rpc = "idle" => rpc' = "idle"
           /\ cancelled => gen' = gen
           /\ \/ Stop
              \/ cancelled' = cancelled /\ metReload' = metReload
<1>1. CASE MainSteps
  BY <1>1, MainFrame, StartFacts, StartedFacts, StartFailsFacts, StartRollbackFacts,
     StartFailedFacts, StopFacts, StopLockFacts, StopInboundFacts, StopUnlockFacts,
     StoppedFacts DEF MainSteps, MainRuns, MainInv
<1>2. CASE ReloadSteps
  BY <1>2, ReloadFrame, PlanStays DEF MainInv, Next, ReloadSteps
<1>3. ASSUME NEW h \in Handlers, HandlerActs(h)
      PROVE  UNCHANGED <<cancelled, metReload, rpc, gen>>
  BY <1>3, HandlerFacts
<1> QED BY <1>1, <1>2, <1>3 DEF Next, MainSteps, ReloadSteps

\* A reload opens only handlers of its own.
LEMMA OpenStays ==
    ASSUME TypeOK, MainInv, JobInv, GenInv, ReloadSteps, rpc # "idle",
           NEW h \in Handlers, h[2] # gen, Open(h)'
    PROVE  Open(h)
<1> USE DEF Open, Live
<1>1. CASE Classify
  <2>1. h \notin job'.added \X {gen}
    OBVIOUS
  <2> QED BY <1>1, <2>1, ClassifyFacts
<1>2. ASSUME NEW a \in Addrs, UpdateInbound(a)
      PROVE  Open(h)
  <2>1. h # New(a)
    BY NewFacts
  <2> QED BY <1>2, <2>1, UpdateInboundFacts
<1>3. CASE ~Classify /\ \A a \in Addrs : ~UpdateInbound(a)
  BY <1>3, CallReloadFacts, ReloadRejectedFacts, AddedReadyFacts, AddedFailFacts,
     LockUpdatesFacts, UpdateSkippedFacts, AwaitFacts, UpdateEndsFacts, UpdatesDoneFacts,
     RollbackFacts, RollbackDoneFacts, LockApplyFacts, RemoveInboundFacts,
     RegisterAddedFacts, ReloadDoneFacts DEF ReloadSteps, ReloadRuns, Await
<1> QED BY <1>1, <1>2, <1>3

\* A handler that Stop has yet to visit stays in the map as long as it is open.
LEMMA MapKeeps ==
    ASSUME TypeOK, MainInv, JobInv, GenInv, MapInv, ConfigInv, ReloadSteps, Next,
           rpc # "idle", NEW h \in Handlers, h[2] # gen, Open(h)', inbounds[h[1]] = h[2]
    PROVE  inbounds'[h[1]] = h[2]
<1>0. /\ h = <<h[1], inbounds[h[1]]>> /\ h[1] \in Addrs /\ inbounds[h[1]] # 0
      /\ Ready(h) /\ Open(h)
  BY OpenStays DEF Handlers, Gens, MapInv
<1>1. CASE UpdateEnds
  <2>1. h[1] # job.cur
    BY <1>0, <1>1, UpdateEndsFacts DEF MapInv, Waiting, Open, Live, Ready
  <2> QED BY <1>0, <1>1, <2>1, UpdateEndsFacts
<1>2. ASSUME NEW a \in Addrs, RemoveInbound(a)
      PROVE  inbounds'[h[1]] = h[2]
  <2>1. h[1] # a
    BY <1>0, <1>2, RemoveInboundFacts DEF Open, Live, Ready
  <2> QED BY <1>0, <1>2, <2>1, RemoveInboundFacts
<1>3. CASE RegisterAdded
  <2>1. h[1] \notin job.added
    <3>1. ASSUME h[1] \in job.added
          PROVE  inbounds[h[1]] = 0
      BY <1>0, <1>3, <3>1, RegisterAddedFacts, PlanParts, MapHasConfig
         DEF ConfigInv, Mid, JobInv, Added
    <3> QED BY <1>0, <3>1
  <2> QED BY <1>0, <1>3, <2>1, RegisterAddedFacts
<1>4. CASE ~UpdateEnds /\ ~RegisterAdded /\ \A a \in Addrs : ~RemoveInbound(a)
  <2>1. ~Started
    BY StartedFacts DEF MainInv, Early
  <2> QED BY <1>4, <2>1, MapSame
<1> QED BY <1>1, <1>2, <1>3, <1>4

\* What is open after Stop was called.
LEMMA KeptNext ==
    ASSUME TypeOK, MainInv, JobInv, GenInv, MapInv, ConfigInv, LiveInv, StopInv, Next,
           cancelled', NEW h \in Handlers, Open(h)'
    PROVE  Kept(h)'
<1>0. /\ h = <<h[1], h[2]>> /\ h[1] \in Addrs /\ h[2] # 0
      /\ cancelled <=> mpc \in {"lock", "stopping", "wait", "done"}
      /\ cancelled /\ Open(h) => Kept(h)
  BY DEF Handlers, Gens, MainInv, StopInv
<1>1. CASE Stop
  <2>1. Live(h) /\ mpc = "up"
    BY <1>0, <1>1, StopFacts DEF Open, Live, StopInv
  <2>2. inbounds[h[1]] = h[2] \/ (rpc # "idle" /\ h[2] = gen)
    BY <1>0, <2>1 DEF LiveInv, Held, AddedHandlers, New, Waiting
  <2> QED BY <1>0, <1>1, <2>2, StopFacts DEF Kept, Met
<1>2. CASE MainSteps /\ ~Stop
  <2>1. cancelled /\ ~Start /\ ~Started /\ gen' = gen /\ metReload' = metReload
    BY <1>2, Cancels, StartFacts, StartedFacts, MainFrame DEF MainInv
  <2>2. Open(h) /\ Kept(h) /\ inbounds' = inbounds
    BY <1>0, <1>2, <2>1, MainHandlers DEF Open, Live
  <2>3. ASSUME NEW a \in Addrs, StopInbound(a)
        PROVE  Kept(h)'
    <3>1. ASSUME h = <<a, inbounds[a]>>
          PROVE  FALSE
      <4>1. inbounds[a] # 0 /\ Ready(h)
        BY <1>0, <3>1 DEF MapInv
      <4>2. handler'[h] = AfterStop(handler[h])
        BY <2>3, <3>1, StopInboundFacts
      <4> QED BY <4>1, <4>2 DEF Ready, Open, Live
    <3> QED BY <1>0, <2>1, <2>2, <2>3, <3>1, StopInboundFacts DEF Kept, Met
  <2>4. CASE StopLock
    BY <1>0, <2>1, <2>2, <2>4, StopLockFacts DEF Kept, Met
  <2>5. CASE StopUnlock
    BY <1>0, <2>1, <2>2, <2>5, StopUnlockFacts DEF Kept, Met
  <2>6. CASE Stopped
    BY <1>0, <2>1, <2>2, <2>6, StoppedFacts DEF Kept, Met
  <2> QED BY <1>0, <1>2, <2>1, <2>3, <2>4, <2>5, <2>6, StartFailsFacts, StartRollbackFacts,
             StartFailedFacts DEF MainSteps, MainRuns
<1>3. CASE ReloadSteps
  <2>1. /\ UNCHANGED <<mpc, stopping, metReload, cancelled>> /\ rpc # "idle"
        /\ gen' = gen /\ metReload
    BY <1>0, <1>3, ReloadFrame, PlanStays DEF StopInv
  <2>2. CASE h[2] = gen
    BY <2>1, <2>2 DEF Kept, Met
  <2>3. CASE h[2] # gen
    <3>1. Open(h) /\ Kept(h)
      BY <1>0, <1>3, <2>1, <2>3, OpenStays
    <3>2. inbounds[h[1]] = h[2]
      BY <2>3, <3>1 DEF Kept, Met
    <3>3. inbounds'[h[1]] = h[2]
      BY <1>3, <2>1, <2>3, <3>2, MapKeeps
    <3> QED BY <2>1, <2>3, <3>1, <3>3 DEF Kept, Met
  <2> QED BY <2>2, <2>3
<1>4. ASSUME NEW g \in Handlers, HandlerActs(g)
      PROVE  Kept(h)'
  <2>1. Open(h) /\ cancelled
    BY <1>4, HandlerFacts DEF Open, Live
  <2> QED BY <1>0, <1>4, <2>1, HandlerFacts DEF Kept, Met
<1> QED BY <1>1, <1>2, <1>3, <1>4 DEF Next, MainSteps, ReloadSteps

LEMMA StopNext ==
    ASSUME TypeOK, MainInv, JobInv, GenInv, MapInv, ConfigInv, LiveInv, StopInv, Next
    PROVE  StopInv'
<1>1. \A h \in Handlers : handler'[h] = "left" => cancelled'
  BY Leaves, Cancels DEF StopInv
<1>2. cancelled' /\ rpc' # "idle" => metReload'
  BY Cancels, StopFacts DEF StopInv
<1>3. cancelled' => \A h \in Handlers : Open(h)' => Kept(h)'
  BY KeptNext
<1> QED BY <1>1, <1>2, <1>3 DEF StopInv

----------------------------------------------------------------------------
(* What a failed reload leaves *)

\* Nobody in the map begins to listen, and nobody but who is stopped ceases to.
LEMMA ServingSame ==
    ASSUME TypeOK, MainInv, JobInv, GenInv, MapInv, Next, inbounds' = inbounds,
           \A a \in Addrs : inbounds[a] # 0 =>
              ~(/\ handler[<<a, inbounds[a]>>] = "listening"
                /\ handler'[<<a, inbounds[a]>>] \in {"closing", "left"})
    PROVE  Serving' = Serving
<1>1. ASSUME NEW a \in Addrs, inbounds[a] # 0
      PROVE  handler'[<<a, inbounds[a]>>] = "listening" <=> handler[<<a, inbounds[a]>>] = "listening"
  BY <1>1, InMapLive, Advance DEF MovesForward, MapInv, Ready
<1> QED BY <1>1 DEF Serving

\* Until the first update succeeds or fails, what runs is what the reload found.
LEMMA SameNext ==
    ASSUME TypeOK, MainInv, JobInv, GenInv, SeenInv, MapInv, SameInv, Next
    PROVE  SameInv'
<1> SUFFICES ASSUME mpc' = "up", ~env'.slowStops, Untouched'
             PROVE  Snapshot' = before'
  BY DEF SameInv
<1>0. ASSUME UNCHANGED <<env, mpc, inbounds, config, router, before>>, Untouched,
             Serving' = Serving
      PROVE  Snapshot' = before'
  BY <1>0 DEF SameInv, Snapshot
<1> USE DEF Untouched
<1>1. ASSUME NEW c \in Configs, CallReload(c)
      PROVE  Snapshot' = before'
  <2>1. Serving' = Serving
    BY <1>1, CallReloadFacts DEF Serving
  <2> QED BY <1>1, <2>1, CallReloadFacts DEF Snapshot
<1>2. CASE ReloadRejected
  BY <1>2, ReloadRejectedFacts
<1>3. CASE Classify
  <2>1. \A a \in Addrs : inbounds[a] # 0 => <<a, inbounds[a]>> \in Handlers
    BY Types
  <2>2. Serving' = Serving
    BY <1>3, <2>1, ServingSame, ClassifyFacts
  <2> QED BY <1>3, <1>0, <2>2, ClassifyFacts
<1>4. CASE AddedReady
  BY <1>4, AddedReadyFacts
<1>5. CASE AddedFail
  <2>1. Serving' = Serving
    BY <1>5, AddedFailFacts DEF Serving
  <2> QED BY <1>5, <1>0, <2>1, AddedFailFacts
<1>6. CASE LockUpdates
  BY <1>6, LockUpdatesFacts
<1>7. ASSUME NEW a \in Addrs, UpdateInbound(a)
      PROVE  Snapshot' = before'
  BY <1>7, UpdateInboundFacts
<1>8. ASSUME NEW a \in Addrs, UpdateSkipped(a)
      PROVE  Snapshot' = before'
  BY <1>8, UpdateSkippedFacts
<1>9. CASE Await
  BY <1>9, AwaitFacts
<1>10. CASE UpdateEnds
  BY <1>10, UpdateEndsFacts
<1>11. CASE UpdatesDone
  BY <1>11, UpdatesDoneFacts DEF JobInv, ResultKept
<1>12. ASSUME NEW a \in Addrs, NEW slow \in BOOLEAN, Rollback(a, slow)
      PROVE  Snapshot' = before'
  <2>1. \A b \in Addrs : inbounds[b] # 0 =>
            <<b, inbounds[b]>> \in Handlers /\ <<b, inbounds[b]>> # New(a)
    BY <1>12, RollbackFacts, NewFacts, Types DEF GenInv, Own
  <2>2. Serving' = Serving
    BY <1>12, <2>1, ServingSame, RollbackFacts
  <2> QED BY <1>12, <1>0, <2>2, RollbackFacts
<1>13. CASE RollbackDone
  <2>1. Serving' = Serving
    BY <1>13, RollbackDoneFacts DEF Serving
  <2> QED BY <1>13, <1>0, <2>1, RollbackDoneFacts DEF Failure
<1>14. CASE LockApply
  BY <1>14, LockApplyFacts
<1>15. ASSUME NEW a \in Addrs, RemoveInbound(a)
      PROVE  Snapshot' = before'
  BY <1>15, RemoveInboundFacts
<1>16. CASE RegisterAdded
  BY <1>16, RegisterAddedFacts
<1>17. CASE ReloadDone
  BY <1>17, ReloadDoneFacts
<1>18. CASE MainSteps
  BY <1>18, MainPlace, MainFrame, StartedFacts DEF MainInv, Early
<1>19. ASSUME NEW h \in Handlers, HandlerActs(h)
      PROVE  Snapshot' = before'
  <2>1. Serving' = Serving
    BY <1>19, ServingSame, HandlerFacts, Types DEF MainInv
  <2> QED BY <1>19, <1>0, <2>1, HandlerFacts
<1> QED BY <1>1, <1>2, <1>3, <1>4, <1>5, <1>6, <1>7, <1>8, <1>9, <1>10, <1>11,
   <1>12, <1>13, <1>14, <1>15, <1>16, <1>17, <1>18, <1>19 DEF Next, MainSteps,
   ReloadRuns, Await

----------------------------------------------------------------------------
(* When nothing interferes *)

\* Of the handlers of one address only one may be bound at a time.
LEMMA PortFree ==
    ASSUME TypeOK, MainInv, JobInv, GenInv, MapInv, ConfigInv, LiveInv, StopInv, Clean,
           NEW h \in Handlers, handler[h] = "starting"
    PROVE  ~PortTaken(h)
<1>l. \A g \in Handlers : handler[g] # "left"
  BY DEF StopInv, MainInv, Clean
<1> SUFFICES ASSUME NEW g \in Handlers, handler[g] \in {"unassigned", "listening"}, g[1] = h[1]
             PROVE  FALSE
  BY <1>l DEF PortTaken, Bound, Clean, OnePort, Handlers
<1>0. /\ h[1] \in Addrs /\ h = <<h[1], h[2]>> /\ g = <<g[1], g[2]>> /\ h[2] # 0 /\ g[2] # 0
      /\ Live(g) /\ Live(h) /\ g # h
  BY DEF Handlers, Gens, Live
<1>1. CASE mpc = "starting"
  BY <1>0, <1>1 DEF LiveInv, FirstHandlers
<1>2. CASE mpc = "up"
  <2>1. Held(g) /\ Held(h) /\ inbounds[h[1]] # h[2]
    BY <1>0, <1>2 DEF LiveInv, MapInv, Ready
  <2>2. h[2] = gen /\ rpc # "idle"
    BY <1>0, <2>1 DEF Held, AddedHandlers, New, Waiting
  <2>3. inbounds[h[1]] = g[2]
    BY <1>0, <2>1, <2>2 DEF Held, AddedHandlers, New
  <2>4. CASE h \in AddedHandlers
    <3>1. h[1] \in job.added /\ rpc # "prepared" /\ h[1] \in Added
      BY <2>2, <2>4 DEF AddedHandlers, JobInv
    <3>2. CASE rpc = "outbound"
      BY <1>0, <2>1, <2>2, <3>1, <3>2 DEF ConfigInv, Applied
    <3>3. CASE rpc # "outbound"
      <4>1. inbounds[h[1]] = 0
        BY <1>0, <2>2, <3>1, <3>3, PlanParts, MapHasConfig
           DEF ConfigInv, Mid, JobInv, Added
      <4> QED BY <1>0, <2>3, <4>1
    <3> QED BY <3>2, <3>3
  <2>5. CASE Waiting /\ h = New(job.cur)
    BY <1>0, <2>3, <2>5 DEF MapInv, Ready, New
  <2> QED BY <2>1, <2>4, <2>5 DEF Held
<1>3. CASE mpc = "new"
  BY <1>3 DEF MainInv
<1> QED BY <1>1, <1>2, <1>3 DEF Clean

\* No handler fails, so no reload does.
LEMMA CleanNext ==
    ASSUME TypeOK, MainInv, JobInv, GenInv, SeenInv, MapInv, ConfigInv, LiveInv, StopInv, CleanInv,
           Next
    PROVE  CleanInv'
<1> SUFFICES ASSUME Clean'
             PROVE  AllWell'
  BY DEF CleanInv
<1>0. ASSUME UNCHANGED <<env, mpc>>
      PROVE  Clean /\ AllWell
  BY <1>0 DEF CleanInv, Clean, OnePort
<1>r. ASSUME ReloadSteps
      PROVE  /\ UNCHANGED <<env, mpc>> /\ mpc = "up" /\ Clean /\ AllWell
             /\ \A a \in Addrs : inbounds[a] # 0 => <<a, inbounds[a]>> \in Handlers
             /\ AddedHandlers \subseteq Handlers
  BY <1>0, <1>r, ReloadFrame, Types, AddedSubset DEF Clean, Early
<1> USE NewFacts DEF Waiting, Live
<1>1. ASSUME NEW c \in Configs, CallReload(c)
      PROVE  AllWell'
  BY <1>1, <1>r, CallReloadFacts DEF ReloadSteps, AllWell
<1>2. CASE ReloadRejected
  BY <1>2, ReloadRejectedFacts, <1>r DEF ReloadSteps, ReloadRuns, AllWell,
     AddedHandlers, PlanKept, ResultKept
<1>3. CASE Classify
  <2>1. AddedHandlers' = job'.added \X {gen} /\ job'.added \subseteq Addrs
    BY <1>3, ClassifyFacts DEF AddedHandlers, JobType
  <2>2. AddedHandlers' \subseteq Handlers
    BY <2>1, Types DEF Handlers
  <2>3. \A a \in Addrs : inbounds[a] # 0 => <<a, inbounds[a]>> \notin job'.added \X {gen}
    BY <1>3, ClassifyFacts
  <2> QED BY <1>3, <1>r, <2>1, <2>2, <2>3, ClassifyFacts
      DEF ReloadSteps, ReloadRuns, AllWell, ResultKept
<1>4. CASE AddedReady
  BY <1>4, AddedReadyFacts, <1>r DEF ReloadSteps, ReloadRuns, AllWell,
     AddedHandlers, PlanKept, ResultKept
<1>5. CASE AddedFail
  <2>1. AllWell /\ AddedHandlers \subseteq Handlers
    BY <1>5, <1>r DEF ReloadSteps, ReloadRuns
  <2>2. \E h \in AddedHandlers : seen[h] = "error"
    BY <1>5, AddedFailFacts DEF SomeFailed
  <2> QED BY <2>1, <2>2 DEF AllWell, SeenInv
<1>6. CASE LockUpdates
  BY <1>6, LockUpdatesFacts, <1>r DEF ReloadSteps, ReloadRuns, AllWell,
     AddedHandlers, PlanKept, ResultKept
<1>7. ASSUME NEW a \in Addrs, UpdateInbound(a)
      PROVE  AllWell'
  <2>1. a \in Addrs /\ a \notin job.added /\ inbounds[a] # gen
    BY <1>7, UpdateInboundFacts, NewIsNone, PlanParts DEF JobInv
  <2>2. \A h \in AddedHandlers : h # New(a) /\ h # <<a, inbounds[a]>>
    BY <2>1 DEF AddedHandlers
  <2>3. \A b \in Addrs : b # a => <<b, inbounds[b]>> # New(a)
    BY <2>1
  <2>4. job'.gone = job.gone /\ AddedHandlers' = AddedHandlers
        /\ New(job.cur)' = New(a)
    BY <1>7, UpdateInboundFacts DEF AddedHandlers, PlanKept, ResultKept, New
  <2> QED BY <1>7, <1>r, <2>1, <2>2, <2>3, <2>4, UpdateInboundFacts
      DEF ReloadSteps, ReloadRuns, AllWell
<1>8. ASSUME NEW a \in Addrs, UpdateSkipped(a)
      PROVE  AllWell'
  BY <1>8, <1>r, UpdateSkippedFacts DEF ReloadSteps, ReloadRuns, Clean
<1>9. CASE Await
  BY <1>9, <1>r, AwaitFacts DEF ReloadSteps, ReloadRuns, Await, AllWell, AddedHandlers,
     PlanKept, ResultKept, New
<1>10. CASE UpdateEnds
  <2>1. /\ AllWell /\ mpc = "up" /\ New(job.cur) \in Handlers /\ job.cur \in Addrs
        /\ \A a \in Addrs : inbounds[a] # 0 => <<a, inbounds[a]>> \in Handlers
        /\ UNCHANGED <<env, mpc>>
    BY <1>10, <1>r, Types DEF ReloadSteps, ReloadRuns
  <2>2. job.bound
    BY <1>10, <2>1, UpdateEndsFacts DEF LiveInv, AllWell
  <2>3. handler[New(job.cur)] = "listening" /\ New(job.cur) = <<job.cur, gen>>
    BY <1>10, <2>1, <2>2, UpdateEndsFacts DEF MapInv, Ready, AllWell, New
  <2>4. \A h \in Handlers : handler'[h] = handler[h]
    BY <1>10, <2>2, UpdateEndsFacts
  <2>5. AddedHandlers' = AddedHandlers /\ AddedHandlers \subseteq Handlers
    BY <1>10, UpdateEndsFacts, AddedSubset DEF AddedHandlers, PlanKept
  <2> QED BY <1>10, <2>1, <2>2, <2>3, <2>4, <2>5, UpdateEndsFacts DEF AllWell
<1>11. CASE UpdatesDone
  <2>1. ~job.failed
    BY <1>11, <1>r, UpdatesDoneFacts DEF ReloadSteps, ReloadRuns, AllWell, JobInv, Clean
  <2> QED BY <1>11, <1>r, <2>1, UpdatesDoneFacts
      DEF ReloadSteps, ReloadRuns, AllWell, AddedHandlers, PlanKept, ResultKept
<1>12. ASSUME NEW a \in Addrs, NEW slow \in BOOLEAN, Rollback(a, slow)
      PROVE  AllWell'
  BY <1>12, <1>r, RollbackFacts DEF ReloadSteps, ReloadRuns, AllWell
<1>13. CASE RollbackDone
  BY <1>13, <1>r, RollbackDoneFacts DEF ReloadSteps, ReloadRuns, AllWell
<1>14. CASE LockApply
  BY <1>14, LockApplyFacts, <1>r DEF ReloadSteps, ReloadRuns, AllWell,
     AddedHandlers, PlanKept, ResultKept
<1>15. ASSUME NEW a \in Addrs, RemoveInbound(a)
      PROVE  AllWell'
  <2>1. a \notin job.added
    BY <1>15, RemoveInboundFacts, PlanParts DEF JobInv
  <2>2. \A h \in AddedHandlers : h # <<a, inbounds[a]>>
    BY <2>1 DEF AddedHandlers
  <2>3. AddedHandlers' = AddedHandlers
    BY <1>15, RemoveInboundFacts DEF AddedHandlers, PlanKept
  <2> QED BY <1>15, <1>r, <2>2, <2>3, RemoveInboundFacts
      DEF ReloadSteps, ReloadRuns, AllWell, ResultKept
<1>16. CASE RegisterAdded
  <2>1. \A a \in job.added : New(a) \in AddedHandlers /\ New(a) = <<a, gen>>
    BY DEF AddedHandlers, New
  <2>2. \A h \in AddedHandlers : h \in Handlers /\ handler[h] = "listening"
    BY <1>16, <1>r, RegisterAddedFacts DEF ReloadSteps, ReloadRuns, MapInv, Ready, AllWell
  <2> QED BY <1>16, <1>r, <2>1, <2>2, RegisterAddedFacts
      DEF ReloadSteps, ReloadRuns, AllWell, AddedHandlers
<1>17. CASE ReloadDone
  BY <1>17, ReloadDoneFacts, <1>r DEF ReloadSteps, ReloadRuns, AllWell,
     AddedHandlers, PlanKept, ResultKept
<1>18. CASE Start
  <2>1. rpc = "idle" /\ result = "none"
    BY <1>18, StartFacts DEF MainInv, Early
  <2>2. FirstHandlers' = FirstHandlers
    BY <1>18, StartFacts DEF FirstHandlers, Configured
  <2>3. FirstHandlers \subseteq Handlers
    BY AddedSubset
  <2> QED BY <1>18, <2>1, <2>2, <2>3, StartFacts DEF AllWell, MainInv
<1>19. CASE Started
  <2>1. Clean /\ AllWell /\ rpc = "idle"
    BY <1>19, StartedFacts DEF CleanInv, Clean, MainInv, Early
  <2>2. \A h \in FirstHandlers : handler[h] = "listening"
    BY <1>19, <2>1, StartedFacts, AllSeenReady DEF AllWell, Ready
  <2>3. \A a \in Addrs : inbounds'[a] # 0 => inbounds'[a] = 1 /\ <<a, 1>> \in FirstHandlers
    BY <1>19, StartedFacts DEF FirstHandlers, Configured
  <2> QED BY <1>19, <2>1, <2>2, <2>3, StartedFacts DEF AllWell
<1>20. CASE MainSteps /\ ~Start /\ ~Started
  BY <1>20, MainPlace DEF Clean
<1>21. ASSUME NEW h \in Handlers, HandlerActs(h)
      PROVE  AllWell'
  <2>1. Clean /\ AllWell
    BY <1>21, <1>0, HandlerFacts
  <2>2. /\ handler[h] = "starting" => handler'[h] # "failed"
        /\ handler'[h] = "left" => handler[h] = "left"
    BY <1>21, <2>1, PortFree, HandlerFacts DEF Clean, MainInv
  <2>3. \A g \in Handlers : /\ handler[g] # "failed" => handler'[g] # "failed"
                            /\ handler[g] = "listening" => handler'[g] = "listening"
                            /\ Live(g) => Live(g)'
    BY <1>21, <2>2, HandlerFacts
  <2>4. /\ FirstHandlers' = FirstHandlers /\ AddedHandlers' = AddedHandlers
        /\ New(job.cur)' = New(job.cur) /\ New(job.cur) \in Handlers
        /\ \A a \in Addrs : inbounds[a] # 0 => <<a, inbounds[a]>> \in Handlers
        /\ FirstHandlers \subseteq Handlers /\ AddedHandlers \subseteq Handlers
    BY <1>21, HandlerFacts, AddedSubset, Types
       DEF FirstHandlers, Configured, AddedHandlers, New
  <2>5. UNCHANGED <<rpc, result, mpc, inbounds, job>>
    BY <1>21, HandlerFacts
  <2> QED BY <2>1, <2>3, <2>4, <2>5 DEF AllWell
<1> QED BY <1>1, <1>2, <1>3, <1>4, <1>5, <1>6, <1>7, <1>8, <1>9, <1>10, <1>11,
   <1>12, <1>13, <1>14, <1>15, <1>16, <1>17, <1>18, <1>19, <1>20, <1>21 DEF
   Next, MainSteps, ReloadRuns, Await

----------------------------------------------------------------------------
(* Types *)

BeforeType == [inbounds : MapType, config : ConfigType, router : Versions \cup {0},
               serving : SUBSET Addrs]

\* The types, by the names the facts use.
Typed ==
    /\ env \in Envs
    /\ state \in {"stopped", "starting", "running", "stopping"}
    /\ {cancelled, metReload} \subseteq BOOLEAN
    /\ mpc \in {"new", "starting", "rollback", "failed", "up", "lock", "stopping",
                "wait", "done"}
    /\ stopping \subseteq Addrs
    /\ mu \in {"free", "stop", "reload"}
    /\ config \in ConfigType
    /\ inbounds \in MapType
    /\ router \in Versions \cup {0}
    /\ handler \in HandlerType
    /\ version \in VersionType
    /\ \A h \in Handlers : handler[h] # "none" => version[h] # 0
    /\ seen \in SeenType
    /\ rpc \in {"idle", "prepared", "phase1", "lock", "updating", "awaiting",
                "relock", "rollback", "apply", "removing", "outbound"}
    /\ gen \in Gens
    /\ job \in JobType
    /\ result \in {"none", "ok", "error", "partial", "rejected"}
    /\ before \in BeforeType

LEMMA TypeParts == (TypeOK <=> Typed) /\ (TypeOK' <=> Typed')
  BY DEF TypeOK, Typed, HandlerType, HandlerStates, SeenType, VersionType, MapType, JobType,
     BeforeType

LEMMA SnapshotType == ASSUME TypeOK PROVE Snapshot \in BeforeType
  BY TypeParts DEF Typed, Snapshot, Serving, BeforeType

\* A handler that runs has the version of a configured inbound.
LEMMA VersionNext ==
    ASSUME TypeOK, MainInv, JobInv, GenInv, ConfigInv, Next, NEW g \in Handlers,
           handler'[g] # "none"
    PROVE  version'[g] # 0
<1>0. /\ g[1] \in Addrs /\ g[2] \in Gens /\ g = <<g[1], g[2]>>
      /\ handler[g] # "none" => version[g] # 0
  BY DEF TypeOK, Handlers
<1>1. CASE Start
  BY <1>1, StartFacts DEF MainInv, FirstHandlers, Configured
<1>2. CASE MainSteps /\ ~Start
  BY <1>0, <1>2, MainHandlers
<1>3. ASSUME NEW c \in Configs, CallReload(c)
      PROVE  version'[g] # 0
  BY <1>0, <1>3, CallReloadFacts DEF UpdatedInbounds, Configured
<1>4. \A a \in Updated \cup Added : job.target.inbound[a] # 0
  BY DEF Updated, Added, UpdatedInbounds, Configured
<1>5. CASE Classify
  <2>1. g \in job'.added \X {gen} => g[1] \in Updated \cup Added /\ g = New(g[1])
    BY <1>0, <1>5, ClassifyFacts DEF JobInv, New
  <2> QED BY <1>0, <1>4, <1>5, <2>1, ClassifyFacts DEF ConfigInv, NewVersions
<1>6. ASSUME NEW a \in Addrs, UpdateInbound(a)
      PROVE  version'[g] # 0
  <2>1. a \in Updated
    BY <1>6, UpdateInboundFacts DEF JobInv
  <2>2. version[New(a)] # 0
    BY <1>4, <1>6, <2>1, UpdateInboundFacts DEF ConfigInv, NewVersions
  <2> QED BY <1>0, <1>6, <2>2, UpdateInboundFacts
<1>7. CASE /\ ReloadSteps /\ ~Classify /\ \A c \in Configs : ~CallReload(c)
           /\ \A a \in Addrs : ~UpdateInbound(a)
  <2>1. version' = version /\ (handler'[g] # "none" => handler[g] # "none")
    BY <1>7, ReloadRejectedFacts, AddedReadyFacts, AddedFailFacts,
       LockUpdatesFacts, UpdateSkippedFacts, AwaitFacts, UpdateEndsFacts,
       UpdatesDoneFacts, RollbackFacts, RollbackDoneFacts, LockApplyFacts,
       RemoveInboundFacts, RegisterAddedFacts, ReloadDoneFacts DEF ReloadSteps,
       ReloadRuns, Await
  <2> QED BY <1>0, <2>1
<1>8. ASSUME NEW h \in Handlers, HandlerActs(h)
      PROVE  version'[g] # 0
  BY <1>0, <1>8, HandlerFacts
<1> QED BY <1>1, <1>2, <1>3, <1>5, <1>6, <1>7, <1>8 DEF Next, MainSteps, ReloadSteps

\* Every variable keeps its type.
LEMMA TypeNext ==
    ASSUME TypeOK, MainInv, JobInv, GenInv, ConfigInv, Next
    PROVE  TypeOK'
<1> SUFFICES Typed'
  BY TypeParts
<1> USE TypeParts, VersionNext DEF Typed
<1>1. CASE Start
  BY <1>1, StartFacts, Types
<1>2. CASE Started
  BY <1>2, StartedFacts
<1>3. CASE StartFails
  BY <1>3, StartFailsFacts DEF Configured
<1>4. ASSUME NEW a \in Addrs, StartRollback(a)
      PROVE  Typed'
  BY <1>4, StartRollbackFacts
<1>5. CASE StartFailed
  BY <1>5, StartFailedFacts
<1>6. CASE Stop
  BY <1>6, StopFacts
<1>7. CASE StopLock
  BY <1>7, StopLockFacts
<1>8. ASSUME NEW a \in Addrs, StopInbound(a)
      PROVE  Typed'
  BY <1>8, StopInboundFacts
<1>9. CASE StopUnlock
  BY <1>9, StopUnlockFacts
<1>10. CASE Stopped
  BY <1>10, StoppedFacts
<1>11. ASSUME NEW c \in Configs, CallReload(c)
      PROVE  Typed'
  <2>1. gen' \in Gens
    BY <1>11, CallReloadFacts, Types DEF Gens
  <2> QED BY <1>11, <2>1, CallReloadFacts, SnapshotType
<1>12. CASE ReloadRejected
  <2>1. gen' \in Gens
    BY <1>12, ReloadRejectedFacts, Types DEF Gens
  <2> QED BY <1>12, <2>1, ReloadRejectedFacts, SnapshotType
<1>13. CASE Classify
  BY <1>13, ClassifyFacts
<1>14. CASE AddedReady
  BY <1>14, AddedReadyFacts
<1>15. CASE AddedFail
  BY <1>15, AddedFailFacts
<1>16. CASE LockUpdates
  BY <1>16, LockUpdatesFacts
<1>17. ASSUME NEW a \in Addrs, UpdateInbound(a)
      PROVE  Typed'
  BY <1>17, UpdateInboundFacts
<1>18. ASSUME NEW a \in Addrs, UpdateSkipped(a)
      PROVE  Typed'
  BY <1>18, UpdateSkippedFacts
<1>19. CASE Await
  BY <1>19, AwaitFacts
<1>20. CASE UpdateEnds
  BY <1>20, UpdateEndsFacts
<1>21. CASE UpdatesDone
  BY <1>21, UpdatesDoneFacts
<1>22. ASSUME NEW a \in Addrs, NEW slow \in BOOLEAN, Rollback(a, slow)
      PROVE  Typed'
  BY <1>22, RollbackFacts
<1>23. CASE RollbackDone
  BY <1>23, RollbackDoneFacts DEF Failure
<1>24. CASE LockApply
  BY <1>24, LockApplyFacts
<1>25. ASSUME NEW a \in Addrs, RemoveInbound(a)
      PROVE  Typed'
  BY <1>25, RemoveInboundFacts
<1>26. CASE RegisterAdded
  BY <1>26, RegisterAddedFacts, Types
<1>27. CASE ReloadDone
  BY <1>27, ReloadDoneFacts, Types
<1>28. ASSUME NEW h \in Handlers, HandlerActs(h)
      PROVE  Typed'
  BY <1>28, HandlerFacts
<1> QED BY <1>1, <1>2, <1>3, <1>4, <1>5, <1>6, <1>7, <1>8, <1>9, <1>10, <1>11,
   <1>12, <1>13, <1>14, <1>15, <1>16, <1>17, <1>18, <1>19, <1>20, <1>21, <1>22,
   <1>23, <1>24, <1>25, <1>26, <1>27, <1>28 DEF Next, MainRuns, ReloadRuns,
   Await

----------------------------------------------------------------------------
(* The inductive invariant *)

LEMMA InitType == ASSUME Init PROVE TypeOK
<1>1. NoJob \in JobType
  <2>1. (CHOOSE a \in Addrs : TRUE) \in Addrs
    BY ConfigAssumption
  <2>2. PICK no \in BOOLEAN : no = FALSE
    BY Zenon
  <2>3. NoJob = [target |-> FirstConfig, added |-> {}, updated |-> {}, removed |-> {},
                 todo |-> {}, cur |-> CHOOSE a \in Addrs : TRUE, bound |-> no,
                 done |-> {}, gone |-> {}, failed |-> no, leaked |-> no]
    BY <2>2, Zenon DEF NoJob
  <2> QED BY <2>1, <2>3, ConfigAssumption DEF JobType
<1>2. 1 \in Gens
  BY ConfigAssumption DEF Gens
<1>3. /\ inbounds \in MapType /\ handler \in HandlerType /\ version \in VersionType
      /\ seen \in SeenType
  BY DEF Init, MapType, HandlerType, HandlerStates, VersionType, SeenType
<1>4. before \in BeforeType
  BY <1>3, ConfigAssumption DEF Init, Snapshot, Serving, BeforeType
<1> QED BY <1>1, <1>2, <1>3, <1>4, TypeParts, ConfigAssumption DEF Init, Typed

LEMMA InitIInv == Init => IInv
<1> SUFFICES ASSUME Init PROVE IInv
  OBVIOUS
<1>0. TypeOK
  BY InitType
<1>1. MainInv /\ JobInv
  BY DEF Init, MainInv, JobInv, Early
<1>2. GenInv /\ SeenInv
  <2>1. \A a \in Addrs : inbounds[a] <= gen
    BY DEF Init
  <2> QED BY <2>1 DEF Init, GenInv, LaterInv, SeenInv
<1>3. MapInv /\ ConfigInv
  BY DEF Init, MapInv, ConfigInv, FirstVersions, NewVersions, OutboundInv, Early, Waiting
<1>4. LiveInv /\ DoneInv /\ StopInv /\ SameInv
  BY DEF Init, LiveInv, DoneInv, StopInv, SameInv
<1>5. CleanInv
  BY DEF Init, CleanInv, AllWell, Waiting
<1> QED BY <1>0, <1>1, <1>2, <1>3, <1>4, <1>5 DEF IInv

LEMMA StutterIInv == IInv /\ UNCHANGED vars => IInv'
<1> SUFFICES ASSUME IInv, UNCHANGED vars PROVE IInv'
  OBVIOUS
<1>0. UNCHANGED <<env, state, cancelled, mpc, stopping, metReload, mu, config, inbounds,
                  router, handler, version, seen, rpc, gen, job, result, before>>
  BY DEF vars
<1>1. (Updated' = Updated /\ Added' = Added /\ Removed' = Removed)
      /\ FirstHandlers' = FirstHandlers /\ AddedHandlers' = AddedHandlers
      /\ \A a : New(a)' = New(a)
  BY <1>0, PlanSame DEF FirstHandlers, AddedHandlers, New, Configured
<1>2. TypeOK'
  BY <1>0 DEF IInv, TypeOK
<1>3. MainInv' /\ JobInv'
  BY <1>0, <1>1 DEF IInv, MainInv, JobInv, Early, Waiting
<1>4. GenInv' /\ SeenInv' /\ MapInv'
  BY <1>0, <1>1 DEF IInv, GenInv, LaterInv, Own, SeenInv, MapInv, Ready, Waiting
<1>5. ConfigInv'
  BY <1>0, <1>1 DEF IInv, ConfigInv, FirstVersions, NewVersions, OutboundInv, Mid, Applied,
     InMap, Early, Configured
<1>6. LiveInv' /\ DoneInv'
  BY <1>0, <1>1 DEF IInv, LiveInv, Live, Held, Waiting, DoneInv, NothingRuns, Counted
<1>7. SameInv'
  BY <1>0 DEF IInv, SameInv, Untouched, Snapshot, Serving
<1>8. CleanInv'
  BY <1>0, <1>1 DEF IInv, CleanInv, Clean, OnePort, AllWell, Live, Waiting
<1>9. StopInv'
  BY <1>0, <1>1 DEF IInv, StopInv, Open, Live, Kept, Met
<1> QED BY <1>2, <1>3, <1>4, <1>5, <1>6, <1>7, <1>8, <1>9 DEF IInv

LEMMA NextIInv == IInv /\ [Next]_vars => IInv'
<1>1. ASSUME IInv, Next PROVE IInv'
  <2>1. TypeOK'
    BY <1>1, TypeNext DEF IInv
  <2> QED
    BY <1>1, <2>1, MainNext, JobNext, GenNext, SeenNext, MapNext, ConfigNext, LiveNext,
       DoneNext, StopNext, SameNext, CleanNext DEF IInv
<1> QED BY <1>1, StutterIInv

----------------------------------------------------------------------------
(* The theorems *)

\* The inductive invariant holds in every reachable state.
THEOREM Invariance == Spec => []IInv
  BY InitIInv, NextIInv, PTL DEF Spec

\* Every variable keeps its type, and a handler that runs was made for a
\* configured inbound.
THEOREM TypeCorrect == Spec => []TypeOK
<1>1. IInv => TypeOK
  BY DEF IInv
<1> QED BY <1>1, Invariance, PTL

\* Whatever a reload returned, storeReconciledConfig has left the configuration
\* that describes the handlers in the map and the outbound of the router.
THEOREM Reconciles == Spec => []ConfigIsRunning
<1>1. IInv => ConfigIsRunning
  BY DEF IInv, ConfigInv, OutboundInv, ConfigIsRunning, Early, InMap
<1> QED BY <1>1, Invariance, PTL

\* No rollback, replacement or removal leaves a listener behind that the agent
\* has forgotten.
THEOREM NoneForgotten == Spec => []NoStrayListener
<1>1. IInv => NoStrayListener
  <2> SUFFICES ASSUME IInv, Settled, NEW h \in Bound PROVE inbounds[h[1]] = h[2]
    BY DEF NoStrayListener
  <2>1. mpc = "up" /\ rpc = "idle" /\ h \in Handlers /\ Live(h)
    BY DEF IInv, MainInv, StopInv, Settled, Bound, Live
  <2> QED BY <2>1 DEF IInv, LiveInv, Held, Waiting
<1> QED BY <1>1, Invariance, PTL

\* If reloads come from the watch loop, which a.wg counts, Stop returns with every
\* listener closed, but for those a reload that it met has opened and whose Start
\* has ended with the context.
THEOREM Closed == ASSUME FromWatchLoop PROVE Spec => []StoppedIsClosed
<1>1. IInv => StoppedIsClosed
  BY DEF IInv, MainInv, DoneInv, NothingRuns, Counted, StopInv, Open, Kept, Met,
     StoppedIsClosed, Bound
<1> QED BY <1>1, Invariance, PTL

\* A plain error means that nothing has changed, so that the watch loop may
\* retry, unless a Stop timed out.
THEOREM FailureIsHarmless == Spec => []FailedReloadChangesNothing
<1>1. IInv => FailedReloadChangesNothing
  BY DEF IInv, MainInv, SameInv, Untouched, FailedReloadChangesNothing, Settled
<1> QED BY <1>1, Invariance, PTL

\* If every address has its own port, nobody else takes one and no Stop is slow,
\* every reload succeeds and what is configured serves.
THEOREM CleanSucceeds == ASSUME OnePort PROVE Spec => []CleanReloadsSucceed
<1>1. IInv => CleanReloadsSucceed
  <2> SUFFICES ASSUME IInv, Settled, env.busyPorts = {}, ~env.slowStops
               PROVE  result \notin {"error", "partial"} /\ Serving = Configured(config)
    BY DEF CleanReloadsSucceed
  <2>1. mpc = "up" /\ rpc = "idle" /\ AllWell
    BY DEF IInv, MainInv, Settled, CleanInv, Clean
  <2>2. \A a \in Addrs : config.inbound[a] = InMap(a)
    BY <2>1 DEF IInv, ConfigInv, Early
  <2>3. \A a \in Addrs : inbounds[a] = 0 <=> a \notin Configured(config)
    BY <2>2, MapHasConfig DEF IInv
  <2> QED BY <2>1, <2>3 DEF AllWell, Serving, Configured, Waiting
<1> QED BY <1>1, Invariance, PTL

\* An inbound that does not change is not touched by any step of a reload.
LEMMA ServingNext ==
    ASSUME IInv, NEW b \in Serving, ~cancelled',
           rpc = "idle" \/ config.inbound[b] = job.target.inbound[b], Next
    PROVE  b \in Serving'
<1>0. /\ b \in Addrs /\ inbounds[b] # 0 /\ <<b, inbounds[b]>> \in Handlers
      /\ handler[<<b, inbounds[b]>>] = "listening"
  BY Types DEF Serving, IInv
<1>a. rpc # "idle" => b \notin Updated \cup Added \cup Removed
  BY DEF Updated, Added, Removed, UpdatedInbounds, Configured
<1>b. ASSUME handler'[<<b, inbounds[b]>>] = "listening", inbounds'[b] = inbounds[b]
      PROVE  b \in Serving'
  BY <1>0, <1>b DEF Serving
<1> USE <1>0, <1>a, <1>b DEF IInv
<1>1. ASSUME NEW c \in Configs, CallReload(c)
      PROVE  b \in Serving'
  BY <1>1, CallReloadFacts
<1>2. CASE ReloadRejected
  BY <1>2, ReloadRejectedFacts
<1>3. CASE Classify
  <2>1. handler'[<<b, inbounds[b]>>] = "listening"
    BY <1>3, Advance, NewIsNone, ClassifyFacts DEF MovesForward
  <2> QED BY <1>3, <2>1, ClassifyFacts
<1>4. CASE AddedReady
  BY <1>4, AddedReadyFacts
<1>5. CASE AddedFail
  BY <1>5, AddedFailFacts
<1>6. CASE LockUpdates
  BY <1>6, LockUpdatesFacts
<1>7. ASSUME NEW a \in Addrs, UpdateInbound(a)
      PROVE  b \in Serving'
  <2>1. a # b /\ <<b, inbounds[b]>> # New(a)
    BY <1>7, UpdateInboundFacts, NewFacts DEF JobInv
  <2> QED BY <1>7, <2>1, UpdateInboundFacts
<1>8. ASSUME NEW a \in Addrs, UpdateSkipped(a)
      PROVE  b \in Serving'
  <2>1. a # b
    BY <1>8, UpdateSkippedFacts DEF JobInv
  <2> QED BY <1>8, <2>1, UpdateSkippedFacts
<1>9. CASE Await
  BY <1>9, AwaitFacts
<1>10. CASE UpdateEnds
  <2>1. job.cur # b /\ <<b, inbounds[b]>> # New(job.cur)
    BY <1>10, UpdateEndsFacts, NewFacts, Types DEF JobInv, Waiting
  <2> QED BY <1>10, <2>1, UpdateEndsFacts
<1>11. CASE UpdatesDone
  BY <1>11, UpdatesDoneFacts
<1>12. ASSUME NEW a \in Addrs, NEW slow \in BOOLEAN, Rollback(a, slow)
      PROVE  b \in Serving'
  <2>1. a # b /\ <<b, inbounds[b]>> # New(a)
    BY <1>12, RollbackFacts, NewFacts DEF JobInv
  <2> QED BY <1>12, <2>1, RollbackFacts
<1>13. CASE RollbackDone
  BY <1>13, RollbackDoneFacts
<1>14. CASE LockApply
  BY <1>14, LockApplyFacts
<1>15. ASSUME NEW a \in Addrs, RemoveInbound(a)
      PROVE  b \in Serving'
  <2>1. a # b
    BY <1>15, RemoveInboundFacts DEF JobInv
  <2> QED BY <1>15, <2>1, RemoveInboundFacts
<1>16. CASE RegisterAdded
  BY <1>16, RegisterAddedFacts DEF JobInv
<1>17. CASE ReloadDone
  BY <1>17, ReloadDoneFacts
<1>18. CASE MainSteps
  <2>1. ~Early
    BY DEF MainInv
  <2>2. ~Start /\ ~Started /\ \A a \in Addrs : ~StartRollback(a) /\ ~StopInbound(a)
    BY <1>18, <2>1, StartFacts, StartedFacts, StartRollbackFacts,
       StopInboundFacts DEF Early, MainInv
  <2>3. handler' = handler /\ inbounds' = inbounds
    BY <1>18, <2>2, StartFailsFacts, StartFailedFacts, StopFacts, StopLockFacts,
       StopUnlockFacts, StoppedFacts DEF MainSteps, MainRuns
  <2> QED BY <2>3
<1>19. ASSUME NEW h \in Handlers, HandlerActs(h)
      PROVE  b \in Serving'
  BY <1>19, HandlerFacts
<1> QED BY <1>1, <1>2, <1>3, <1>4, <1>5, <1>6, <1>7, <1>8, <1>9, <1>10, <1>11,
   <1>12, <1>13, <1>14, <1>15, <1>16, <1>17, <1>18, <1>19 DEF Next, MainSteps,
   ReloadRuns, Await

\* An inbound that the new configuration leaves alone serves all through the
\* reload, whether it succeeds or fails.
THEOREM KeepsServing == Spec => UnchangedKeepsServing
<1>1. IInv /\ [Next]_vars =>
         [\A a \in Serving :
             cancelled' \/ (rpc # "idle" /\ config.inbound[a] # job.target.inbound[a])
             \/ a \in Serving']_vars
  BY ServingNext
<1> QED BY <1>1, Invariance, PTL DEF Spec, UnchangedKeepsServing

----------------------------------------------------------------------------
(* The loop and the file *)

\* How a reload ends, seen by who called it.
LEMMA ReloadEnds ==
    ASSUME IInv, AgentStep
    PROVE  \/ rpc = "idle" /\ rpc' = "idle" /\ config' = config /\ result' = result
           \/ /\ rpc # "idle" /\ rpc' # "idle" /\ config' = config
              /\ job'.target = job.target
           \/ /\ rpc # "idle" /\ rpc' = "idle"
              /\ result' \in {"ok", "error", "partial"}
              /\ result' = "ok" => config' = job.target
<1> USE DEF IInv
<1>1. CASE MainSteps
  BY <1>1, MainFrame
<1>2. ASSUME NEW h \in Handlers, HandlerActs(h)
      PROVE  UNCHANGED <<config, rpc, job, result>>
  BY <1>2, HandlerFacts
<1>3. CASE RollbackDone
  BY <1>3, RollbackDoneFacts DEF Failure
<1>4. CASE ReloadDone
  BY <1>4, ReloadDoneFacts
<1>5. CASE ReloadRuns /\ ~RollbackDone /\ ~ReloadDone
  BY <1>5, ClassifyFacts, AddedReadyFacts, AddedFailFacts, LockUpdatesFacts,
     UpdateInboundFacts, UpdateSkippedFacts, AwaitFacts, UpdateEndsFacts,
     UpdatesDoneFacts, RollbackFacts, LockApplyFacts, RemoveInboundFacts,
     RegisterAddedFacts DEF ReloadRuns, Await, PlanKept, TargetKept
<1> QED BY <1>1, <1>2, <1>3, <1>4, <1>5 DEF AgentStep, AgentMain, MainSteps

\* What the loop knows of the file at each of its steps.  What it may load is one
\* of Configs: FirstConfig, if it is none of them, is there before every edit only.
FileInv ==
    /\ file \in [kind : {"good", "unusable", "missing"}, config : ConfigType]
    /\ {mtime, lastMod, polled} \subseteq Nat
    /\ lastMod <= mtime /\ polled <= mtime
    /\ loop \in {"changed", "loaded", "reloading"} => lastMod < polled
    /\ file.kind = "good" =>
          \/ file.config \in Configs
          \/ mtime = 1 /\ (loop \in {"off", "init"} \/ lastMod = 1)
    /\ loop = "loaded" => loaded \in Configs
    /\ loop \in {"loaded", "reloading"} /\ polled = mtime =>
          file.kind = "good" /\ file.config = loaded

LEMMA InitFileInv == ASSUME WatchInit PROVE FileInv
<1>1. FirstConfig \in ConfigType
  BY ConfigAssumption
<1> QED BY <1>1 DEF WatchInit, FileInv

LEMMA EditFileInv == ASSUME FileInv, Edits PROVE FileInv'
<1>1. UNCHANGED <<loop, lastMod, polled, loaded>> /\ mtime' = mtime + 1
  BY DEF Edits, Edit, loopVars
<1>2. /\ file' \in [kind : {"good", "unusable", "missing"}, config : ConfigType]
      /\ file'.kind = "good" => file'.config \in Configs
  <2>1. ASSUME NEW c \in Configs, file' = [kind |-> "good", config |-> c]
        PROVE  <1>2!1 /\ <1>2!2
    BY <2>1, ConfigAssumption
  <2>2. ASSUME NEW k \in {"unusable", "missing"}, file' = [file EXCEPT !.kind = k]
        PROVE  <1>2!1 /\ <1>2!2
    BY <2>2 DEF FileInv
  <2> QED BY <2>1, <2>2 DEF Edits, Edit
<1> QED BY <1>1, <1>2 DEF FileInv

LEMMA RunFileInv == ASSUME FileInv, LoopRuns \/ LoopExits PROVE FileInv'
<1>1. UNCHANGED <<file, mtime>>
  BY DEF LoopRuns, LoopExits, LoopGoto, fileVars, LaunchLoop, FirstTime, Poll,
     LoadFails, LoadConfig, NotRunning, NoChanges, Reload, Reloaded
<1> QED BY <1>1 DEF LoopRuns, LoopExits, LoopGoto, LaunchLoop, FirstTime, Poll,
   LoadFails, LoadConfig, NotRunning, NoChanges, Reload, Reloaded, ModTime, FileInv

LEMMA FileStep == ASSUME FileInv, [WatchNext]_allVars PROVE FileInv'
<1>1. ASSUME UNCHANGED watchVars PROVE FileInv'
  BY <1>1 DEF watchVars, FileInv
<1> QED BY <1>1, EditFileInv, RunFileInv DEF WatchNext, allVars

\* What the loop knows of the agent.
LoopInv ==
    /\ rpc # "idle" => loop = "reloading" /\ job.target = loaded
    /\ loop \in {"off", "init"} /\ ~editedEarly =>
          file.kind = "good" /\ config = file.config
    /\ loop = "reloading" /\ rpc = "idle" =>
          /\ result \in {"ok", "error", "partial"}
          /\ result = "ok" => config = loaded
    /\ NothingForgotten

LEMMA InitLoopInv == ASSUME WatchInit PROVE LoopInv
  BY DEF WatchInit, Init, LoopInv, NothingForgotten

\* A step of the agent.
LEMMA AgentLoopInv ==
    ASSUME IInv, FileInv, LoopInv, AgentStep, UNCHANGED watchVars PROVE LoopInv'
<1>1. UNCHANGED <<file, mtime, loop, lastMod, polled, loaded, editedEarly>>
  BY DEF watchVars
<1> QED BY <1>1, ReloadEnds DEF LoopInv, NothingForgotten

\* An edit makes the file newer than anything the loop remembers.
LEMMA EditLoopInv == ASSUME FileInv, LoopInv, Edits PROVE LoopInv'
<1>1. mtime' = mtime + 1 /\ UNCHANGED <<config, rpc, job, result, loopVars>>
  BY DEF Edits, Edit, vars, loopVars
<1>2. loop \in {"off", "init"} => editedEarly'
  BY Zenon DEF Edits, Edit
<1> QED BY <1>1, <1>2 DEF loopVars, FileInv, LoopInv, NothingForgotten

LEMMA RunLoopInv ==
    ASSUME IInv, FileInv, LoopInv, LoopRuns \/ LoopExits PROVE LoopInv'
<1>1. UNCHANGED <<file, mtime, editedEarly>>
  BY DEF LoopRuns, LoopExits, LoopGoto, fileVars, LaunchLoop, FirstTime, Poll,
     LoadFails, LoadConfig, NotRunning, NoChanges, Reload, Reloaded
<1> USE <1>1 DEF LoopGoto, FileInv, LoopInv, NothingForgotten, vars
<1>2. CASE LaunchLoop
  BY <1>2 DEF LaunchLoop
<1>3. CASE FirstTime
  BY <1>3 DEF FirstTime, ModTime
<1>4. CASE Poll
  BY <1>4 DEF Poll, ModTime
<1>5. CASE LoadFails
  BY <1>5 DEF LoadFails
<1>6. CASE LoadConfig
  BY <1>6 DEF LoadConfig
<1>7. CASE NotRunning
  BY <1>7 DEF NotRunning
<1>8. CASE NoChanges
  BY <1>8 DEF NoChanges
<1>9. CASE Reload
  BY <1>9, CallReloadFacts DEF Reload, IInv
<1>10. CASE Reloaded
  BY <1>10 DEF Reloaded, Advances
<1>11. CASE LoopExits
  BY <1>11 DEF LoopExits
<1> QED BY <1>2, <1>3, <1>4, <1>5, <1>6, <1>7, <1>8, <1>9, <1>10, <1>11
   DEF LoopRuns

LEMMA WatchLoopInv ==
    ASSUME IInv, FileInv, LoopInv, [WatchNext]_allVars PROVE LoopInv'
<1>1. CASE UNCHANGED allVars
  BY <1>1 DEF allVars, vars, watchVars, LoopInv, NothingForgotten
<1> QED BY <1>1, AgentLoopInv, EditLoopInv, RunLoopInv DEF WatchNext

LEMMA FileAlways == WatchSpec => []FileInv
  BY InitFileInv, FileStep, PTL DEF WatchSpec

\* The loop and the file do to the agent only what Agent.tla allows, so that all
\* that was proved about it holds under the watch loop.
THEOREM UnderTheLoop == WatchSpec => Spec
<1>1. WatchInit => Init
  BY DEF WatchInit
<1>2. FileInv /\ [WatchNext]_allVars => [Next]_vars
  <2>1. ASSUME FileInv, Reload PROVE Next
    BY <2>1 DEF Reload, FileInv, Next
  <2> QED BY <2>1 DEF WatchNext, allVars, AgentStep, AgentMain, Next, LoopRuns,
     LoopExits, LaunchLoop, FirstTime, Poll, LoadFails, LoadConfig, NotRunning,
     NoChanges, Reloaded, Edits, Edit
<1> QED BY <1>1, <1>2, FileAlways, PTL DEF WatchSpec, Spec

\* No change of the file is taken for done when it is not, wherever an edit comes
\* between the steps of the loop: the time it remembers is one it took before it
\* read the file.
THEOREM NothingIsForgotten == WatchSpec => []NothingForgotten
<1>1. WatchInit => LoopInv
  BY InitLoopInv
<1>2. IInv /\ FileInv /\ LoopInv /\ [WatchNext]_allVars => LoopInv'
  BY WatchLoopInv
<1>3. LoopInv => NothingForgotten
  BY DEF LoopInv
<1> QED BY <1>1, <1>2, <1>3, UnderTheLoop, FileAlways,
   Invariance, PTL DEF WatchSpec

=============================================================================
