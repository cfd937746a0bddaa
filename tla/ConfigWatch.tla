---------------------------- MODULE ConfigWatch ----------------------------
(***************************************************************************)
(* The Agent under its configWatchLoop (agent.go): a goroutine that a.wg   *)
(* counts polls the modification time of the configuration file, loads the *)
(* file when it is newer than the last one dealt with, and calls           *)
(* ReloadConfig.  The steps of Start, Stop, ReloadConfig and the handlers  *)
(* are those of Agent.tla.  The file is edited at any moment, also between *)
(* two steps of the loop; every edit gives it a later modification time.   *)
(* A file that cannot be used stands for everything that makes LoadConfig, *)
(* ValidateConfig or prepareDiff fail: they all leave the agent as it is.  *)
(***************************************************************************)
EXTENDS Agent

CONSTANT MaxEdits     \* bound: edits of the file

ASSUME EditsAssumption == MaxEdits \in Nat

VARIABLES
    file,        \* the file: "good", "unusable" or "missing", with its contents
    mtime,       \* its modification time
    loop,        \* where the loop is: "off", "init", "select", "changed",
                 \* "loaded", "reloading" or "gone"
    lastMod,     \* a.lastConfigModTime, 0 for the zero time
    polled,      \* the loop's modTime
    loaded,      \* the loop's newCfg
    editedEarly  \* an edit came before the loop took its first time (history)

fileVars == <<file, mtime, editedEarly>>
loopVars == <<loop, lastMod, polled, loaded>>
watchVars == <<file, mtime, loop, lastMod, polled, loaded, editedEarly>>
allVars == <<vars, watchVars>>

\* New was given what the file holds.
WatchInit ==
    /\ Init
    /\ file = [kind |-> "good", config |-> FirstConfig]
    /\ mtime = 1
    /\ loop = "off"
    /\ lastMod = 0
    /\ polled = 0
    /\ loaded = FirstConfig
    /\ editedEarly = FALSE

----------------------------------------------------------------------------
(* The file *)

\* getConfigModTime: zero if there is no file.
ModTime == IF file.kind = "missing" THEN 0 ELSE mtime

Edit(new) ==
    /\ mtime <= MaxEdits
    /\ new # file
    /\ file' = new
    /\ mtime' = mtime + 1
    /\ editedEarly' = (editedEarly \/ loop \in {"off", "init"})
    /\ UNCHANGED <<vars, loopVars>>

Edits ==
    \/ \E c \in Configs : Edit([kind |-> "good", config |-> c])
    \/ \E k \in {"unusable", "missing"} : Edit([file EXCEPT !.kind = k])

----------------------------------------------------------------------------
(* configWatchLoop *)

LoopGoto(where) ==
    /\ loop' = where
    /\ UNCHANGED fileVars

\* Start launches the loop; its first act is to take the file's time.
LaunchLoop ==
    /\ loop = "off"
    /\ mpc \notin {"new", "starting", "rollback", "failed"}
    /\ LoopGoto("init")
    /\ UNCHANGED <<vars, lastMod, polled, loaded>>

FirstTime ==
    /\ loop = "init"
    /\ lastMod' = ModTime
    /\ LoopGoto("select")
    /\ UNCHANGED <<vars, polled, loaded>>

\* A tick finds the file changed; one that does not changes nothing.
Poll ==
    /\ loop = "select"
    /\ ModTime > lastMod
    /\ polled' = ModTime
    /\ LoopGoto("changed")
    /\ UNCHANGED <<vars, lastMod, loaded>>

\* Wrong: a file that cannot be loaded ends the loop.
LoadFailsReturns ==
    /\ loop = "changed"
    /\ file.kind # "good"
    /\ LoopGoto("gone")
    /\ UNCHANGED <<vars, lastMod, polled, loaded>>

\* The time is not advanced: the next poll tries again.
LoadFails ==
    /\ loop = "changed"
    /\ file.kind # "good"
    /\ LoopGoto("select")
    /\ UNCHANGED <<vars, lastMod, polled, loaded>>

LoadConfig ==
    /\ loop = "changed"
    /\ file.kind = "good"
    /\ loaded' = file.config
    /\ LoopGoto("loaded")
    /\ UNCHANGED <<vars, lastMod, polled>>

\* ReloadConfig finds the agent stopping, or nothing changed.
NotRunning ==
    /\ loop = "loaded"
    /\ state # "running"
    /\ LoopGoto("select")
    /\ UNCHANGED <<vars, lastMod, polled, loaded>>

NoChanges ==
    /\ loop = "loaded"
    /\ state = "running"
    /\ loaded = config
    /\ lastMod' = polled
    /\ LoopGoto("select")
    /\ UNCHANGED <<vars, polled, loaded>>

Reload ==
    /\ loop = "loaded"
    /\ CallReload(loaded)
    /\ LoopGoto("reloading")
    /\ UNCHANGED <<lastMod, polled, loaded>>

\* Wrong: an error is not retried.
AlwaysAdvances == TRUE

\* A plain error leaves the time alone, so that the next poll tries again; a
\* PartialReloadError counts as dealt with.
Advances == result \in {"ok", "partial"}

Reloaded ==
    /\ loop = "reloading"
    /\ rpc = "idle"
    /\ lastMod' = IF Advances THEN polled ELSE lastMod
    /\ LoopGoto("select")
    /\ UNCHANGED <<vars, polled, loaded>>

LoopExits ==
    /\ loop = "select"
    /\ cancelled
    /\ LoopGoto("gone")
    /\ UNCHANGED <<vars, lastMod, polled, loaded>>

LoopRuns == LaunchLoop \/ FirstTime \/ Poll \/ LoadFails \/ LoadConfig \/ NotRunning
            \/ NoChanges \/ Reload \/ Reloaded

----------------------------------------------------------------------------
\* a.wg counts the loop: Stop waits for it.
AgentMain == MainRuns /\ (mpc' = "done" => loop = "gone")

AgentStep ==
    \/ Start \/ Stop \/ AgentMain \/ ReloadRuns
    \/ \E h \in Handlers : HandlerActs(h)

WatchNext ==
    \/ AgentStep /\ UNCHANGED watchVars
    \/ LoopRuns
    \/ LoopExits
    \/ Edits

\* Goroutines that can run do.  The select between the ticker and the context
\* takes either, and the ticker is mostly not ready: the loop exits at some time
\* if it can again and again.  Nobody has to start or stop the agent or to edit.
WatchFairness ==
    /\ WF_allVars(AgentMain /\ UNCHANGED watchVars)
    /\ WF_allVars(ReloadRuns /\ UNCHANGED watchVars)
    /\ \A h \in Handlers : WF_allVars(HandlerRuns(h) /\ UNCHANGED watchVars)
    /\ WF_allVars(LoopRuns)
    /\ SF_allVars(LoopExits)

WatchSpec == WatchInit /\ [][WatchNext]_allVars /\ WatchFairness

----------------------------------------------------------------------------
(* Properties *)

\* A change of the file is never taken for done when it is not: while the loop
\* waits and the file is not newer than the time it remembers, the agent has the
\* configuration of the file, unless a reload of it succeeded in part only.  An
\* edit between New and the loop's first look at the file is lost.
NothingForgotten ==
    loop = "select" /\ file.kind = "good" /\ mtime <= lastMod =>
        config = file.config \/ result = "partial" \/ editedEarly

\* A newer file is taken over in the end, or a later one in its place, if no
\* port is taken and no Stop times out, and until the agent is stopped.
FileIsFollowed ==
    env.busyPorts = {} /\ ~env.slowStops =>
        (loop \notin {"off", "init"} /\ file.kind = "good" /\ mtime > lastMod
            ~> file.kind # "good" \/ config = file.config \/ state # "running")
=============================================================================
