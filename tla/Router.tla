------------------------------- MODULE Router -------------------------------
(***************************************************************************)
(* internal/routing/router.go, as internal/agent uses it: sessions are     *)
(* routed by many goroutines under the read lock while the agent registers *)
(* outbounds, removes them and replaces the rules, each under the write    *)
(* lock, in the order of initOutbounds and of commitDiff.                  *)
(*                                                                         *)
(* An outbound is a record of its name, its group ("" for none) and the    *)
(* version of its configuration; a rule is the set of sessions its pattern *)
(* matches and where it sends them.                                        *)
(***************************************************************************)
EXTENDS Integers, FiniteSets, Sequences, SequencesExt

CONSTANTS
    Sessions,      \* kinds of sessions the rules tell apart
    Callers,       \* goroutines that route
    FirstConfig,   \* [outbounds |-> a set of outbounds, rules |-> a sequence]
    Configs,       \* configurations a reload may bring
    MaxRoutes,     \* bound: sessions routed
    MaxReloads,    \* bound: reloads
    MaxStarts      \* bound: times Agent.Start registers the outbounds

ASSUME BoundsAssumption == {MaxRoutes, MaxReloads, MaxStarts} \subseteq Nat
ASSUME CallersAssumption == "none" \notin Callers
ASSUME NamesAssumption ==
    \A c \in Configs \cup {FirstConfig} : \A o, p \in c.outbounds :
        o.name = p.name => o = p

Rule == [matches : SUBSET Sessions, outbound : STRING, group : STRING,
         strategy : STRING]

ASSUME RulesAssumption == \A c \in Configs \cup {FirstConfig} : c.rules \in Seq(Rule)

AllOutbounds == UNION {c.outbounds : c \in Configs \cup {FirstConfig}}
AllRules == {c.rules : c \in Configs \cup {FirstConfig}}

\* The groups that an outbound or a rule names.
Groups == ({o.group : o \in AllOutbounds}
            \cup UNION {{rs[i].group : i \in DOMAIN rs} : rs \in AllRules}) \ {""}

NoOutbound == [name |-> "none", group |-> "", version |-> 0]   \* an error

VARIABLES
    outbounds,   \* r.outbounds: the registered outbounds
    groups,      \* r.groups: the outbounds of each group, in order
    rules,       \* r.rules
    counterOf,   \* r.rrCounters: whose counter each group has, "none" at first
    counter,     \* the counters, by group and creator
    cpc,         \* where each caller of Route is
    call,        \* the caller's group and the outbound it was given
    routes,      \* calls of Route begun
    picks,       \* outbounds chosen in turn since the group last changed (history)
    config,      \* the configuration last applied
    target,      \* the one being applied
    apc,         \* where the agent is
    todo,        \* what its present step still has to remove or add
    reloads,
    starts

routerVars == <<outbounds, groups, rules>>
counterVars == <<counterOf, counter>>
callerVars == <<cpc, call, routes>>
agentVars == <<config, target, apc, todo, reloads, starts>>
vars == <<outbounds, groups, rules, counterOf, counter, cpc, call, routes, picks,
          config, target, apc, todo, reloads, starts>>

NoPicks == [o \in AllOutbounds |-> 0]

Init ==
    /\ outbounds = {}
    /\ groups = [g \in Groups |-> <<>>]
    /\ rules = <<>>
    /\ counterOf = [g \in Groups |-> "none"]
    /\ counter = [g \in Groups |-> [c \in Callers |-> 0]]
    /\ cpc = [c \in Callers |-> "idle"]
    /\ call = [c \in Callers |-> [group |-> "", given |-> NoOutbound,
                                  session |-> "none"]]
    /\ routes = 0
    /\ picks = NoPicks
    /\ config = FirstConfig
    /\ target = FirstConfig
    /\ apc = "stopped"
    /\ todo = {}
    /\ reloads = 0
    /\ starts = 0

----------------------------------------------------------------------------
(* Route *)

Named(name, outs) == {o \in outs : o.name = name}

\* A rule decides unless it does not match or names an outbound that is absent.
Decides(rule, s, outs) ==
    /\ s \in rule.matches
    /\ IF rule.outbound # ""
          THEN Named(rule.outbound, outs) # {}
          ELSE rule.group # ""

Deciding(rs, s, outs) == {i \in DOMAIN rs : Decides(rs[i], s, outs)}

FirstOf(S) == CHOOSE i \in S : \A j \in S : i <= j

Locked == \E c \in Callers : cpc[c] # "idle"

\* The choices that need no counter.
Candidates(rule, outs, members) ==
    IF rule.outbound # "" THEN Named(rule.outbound, outs)
    ELSE IF members[rule.group] = <<>> THEN {NoOutbound}
    ELSE IF rule.strategy \in {"random", "least-load"} THEN ToSet(members[rule.group])
    ELSE {members[rule.group][1]}

\* What a session may be given under a configuration.
Answers(c, s) ==
    LET deciding == Deciding(c.rules, s, c.outbounds)
        rule == c.rules[FirstOf(deciding)]
    IN  IF deciding = {} THEN {NoOutbound}
        ELSE IF rule.outbound # "" THEN Named(rule.outbound, c.outbounds)
        ELSE IF {o \in c.outbounds : o.group = rule.group} = {} THEN {NoOutbound}
        ELSE {o \in c.outbounds : o.group = rule.group}

BeginRoute(c, s) ==
    /\ cpc[c] = "idle"
    /\ routes < MaxRoutes
    /\ routes' = routes + 1

\* No rule decides, or one does that asks for no turns.
RouteAtOnce(c, s) ==
    LET deciding == Deciding(rules, s, outbounds)
        rule == rules[FirstOf(deciding)]
    IN  /\ BeginRoute(c, s)
        /\ deciding # {} /\ rule.outbound = "" /\ groups[rule.group] # <<>> =>
                rule.strategy # "round-robin"
        /\ \E o \in IF deciding = {} THEN {NoOutbound}
                    ELSE Candidates(rule, outbounds, groups) :
              call' = [call EXCEPT ![c] = [group |-> "", given |-> o, session |-> s]]
        /\ UNCHANGED <<routerVars, counterVars, cpc, picks, agentVars>>

\* selectRoundRobin looks the group's counter up, still under the read lock ...
RouteInTurn(c, s) ==
    LET deciding == Deciding(rules, s, outbounds)
        rule == rules[FirstOf(deciding)]
    IN  /\ BeginRoute(c, s)
        /\ deciding # {} /\ rule.outbound = "" /\ groups[rule.group] # <<>>
        /\ rule.strategy = "round-robin"
        /\ cpc' = [cpc EXCEPT ![c] = IF counterOf[rule.group] = "none"
                                     THEN "store" ELSE "add"]
        /\ call' = [call EXCEPT ![c] = [group |-> rule.group, given |-> NoOutbound,
                                        session |-> s]]
        /\ UNCHANGED <<routerVars, counterVars, picks, agentVars>>

\* ... creates one if there is none (the map is written without the write lock,
\* so two callers may each store theirs) ...
StoreCounter(c) ==
    /\ cpc[c] = "store"
    /\ counterOf' = [counterOf EXCEPT ![call[c].group] = c]
    /\ cpc' = [cpc EXCEPT ![c] = "addOwn"]
    /\ UNCHANGED <<routerVars, counter, call, routes, picks, agentVars>>

\* Wrong: reads the counter and does not advance it.
NextIndexStuck(g, owner) == counter[g][owner]

NextIndex(g, owner) == counter[g][owner] + 1

\* ... and takes the counter's next value modulo the size of the group.
TakeTurn(c) ==
    LET g == call[c].group
        owner == IF cpc[c] = "addOwn" THEN c ELSE counterOf[g]
        next == NextIndex(g, owner)
        chosen == groups[g][(next % Len(groups[g])) + 1]
    IN  /\ cpc[c] \in {"add", "addOwn"}
        /\ counter' = [counter EXCEPT ![g][owner] = next]
        /\ picks' = [picks EXCEPT ![chosen] = @ + 1]
        /\ call' = [call EXCEPT ![c].given = chosen]
        /\ cpc' = [cpc EXCEPT ![c] = "idle"]
        /\ UNCHANGED <<routerVars, counterOf, routes, agentVars>>

----------------------------------------------------------------------------
(* AddOutbound, RemoveOutbound and UpdateRules, under the write lock *)

AddOutbound(o) ==
    /\ ~Locked
    /\ outbounds' = (outbounds \ Named(o.name, outbounds)) \cup {o}
    /\ groups' = [g \in Groups |-> IF g = o.group THEN Append(groups[g], o)
                                   ELSE groups[g]]
    /\ picks' = NoPicks
    /\ UNCHANGED rules

\* Wrong: leaves the outbound in its group.
RemoveOutboundKeepsGroup(name) ==
    /\ ~Locked
    /\ outbounds' = outbounds \ Named(name, outbounds)
    /\ picks' = NoPicks
    /\ UNCHANGED <<rules, groups>>

\* The first entry of the outbound's group that has the name leaves it.
RemoveOutbound(name) ==
    /\ ~Locked
    /\ outbounds' = outbounds \ Named(name, outbounds)
    /\ groups' = [g \in Groups |->
          LET at == {i \in DOMAIN groups[g] : groups[g][i].name = name}
          IN  IF (\E o \in Named(name, outbounds) : o.group = g) /\ at # {}
                 THEN RemoveAt(groups[g], FirstOf(at))
                 ELSE groups[g]]
    /\ picks' = NoPicks
    /\ UNCHANGED rules

UpdateRules(new) ==
    /\ ~Locked
    /\ rules' = new
    /\ UNCHANGED <<outbounds, groups, picks>>

----------------------------------------------------------------------------
(* The agent *)

AgentIdle == apc \in {"stopped", "running"}

\* Start registers every outbound and then the rules.  A Start that fails to
\* bind a listener leaves the agent stopped, and it may be started again.
Start ==
    /\ apc = "stopped"
    /\ starts < MaxStarts
    /\ starts' = starts + 1
    /\ apc' = "init"
    /\ todo' = config.outbounds
    /\ UNCHANGED <<routerVars, counterVars, callerVars, picks, config, target, reloads>>

InitOutbound(o) ==
    /\ apc = "init"
    /\ o \in todo
    /\ todo' = todo \ {o}
    /\ AddOutbound(o)
    /\ UNCHANGED <<counterVars, callerVars, config, target, apc, reloads, starts>>

InitRules ==
    /\ apc = "init"
    /\ todo = {}
    /\ UpdateRules(config.rules)
    /\ apc' \in {"running", "stopped"}
    /\ UNCHANGED <<counterVars, callerVars, config, target, todo, reloads, starts>>

Names(outs) == {o.name : o \in outs}

\* Wrong: does not see an outbound that stays under its name as changed.
ReplacedForgotten(old, new) == {}

\* The names of the outbounds that stay but change.
Replaced(old, new) ==
    {n \in Names(old) \cap Names(new) : Named(n, old) # Named(n, new)}

\* commitDiff, once the inbounds are done: removed outbounds go first, then the
\* old forms of the changed ones ...
Reload(c) ==
    /\ apc = "running"
    /\ reloads < MaxReloads
    /\ c # config
    /\ reloads' = reloads + 1
    /\ target' = c
    /\ apc' = "removed"
    /\ todo' = Names(config.outbounds) \ Names(c.outbounds)
    /\ UNCHANGED <<routerVars, counterVars, callerVars, picks, config, starts>>

RemoveOne(n) ==
    /\ apc \in {"removed", "replaced"}
    /\ n \in todo
    /\ todo' = todo \ {n}
    /\ RemoveOutbound(n)
    /\ UNCHANGED <<counterVars, callerVars, config, target, apc, reloads, starts>>

RemovedDone ==
    /\ apc = "removed"
    /\ todo = {}
    /\ apc' = "replaced"
    /\ todo' = Replaced(config.outbounds, target.outbounds)
    /\ UNCHANGED <<routerVars, counterVars, callerVars, picks, config, target, reloads,
                   starts>>

\* ... then the new ones come ...
ReplacedDone ==
    /\ apc = "replaced"
    /\ todo = {}
    /\ apc' = "add"
    /\ todo' = {o \in target.outbounds :
                   \/ o.name \notin Names(config.outbounds)
                   \/ o.name \in Replaced(config.outbounds, target.outbounds)}
    /\ UNCHANGED <<routerVars, counterVars, callerVars, picks, config, target, reloads,
                   starts>>

AddOne(o) ==
    /\ apc = "add"
    /\ o \in todo
    /\ todo' = todo \ {o}
    /\ AddOutbound(o)
    /\ UNCHANGED <<counterVars, callerVars, config, target, apc, reloads, starts>>

\* ... and last the rules, if they changed.
ReloadRules ==
    /\ apc = "add"
    /\ todo = {}
    /\ IF target.rules # config.rules
          THEN UpdateRules(target.rules)
          ELSE UNCHANGED <<routerVars, picks>>
    /\ config' = target
    /\ apc' = "running"
    /\ UNCHANGED <<counterVars, callerVars, target, todo, reloads, starts>>

----------------------------------------------------------------------------
Next ==
    \/ \E c \in Callers : StoreCounter(c) \/ TakeTurn(c)
    \/ \E c \in Callers, s \in Sessions : RouteAtOnce(c, s) \/ RouteInTurn(c, s)
    \/ Start \/ InitRules \/ RemovedDone \/ ReplacedDone \/ ReloadRules
    \/ \E o \in AllOutbounds : InitOutbound(o) \/ AddOne(o)
    \/ \E n \in Names(AllOutbounds) : RemoveOne(n)
    \/ \E c \in Configs : Reload(c)

Spec == Init /\ [][Next]_vars

----------------------------------------------------------------------------
(* Properties *)

TypeOK ==
    /\ outbounds \subseteq AllOutbounds
    /\ \A o, p \in outbounds : o.name = p.name => o = p
    /\ \A g \in Groups : groups[g] \in Seq(AllOutbounds)
    /\ rules \in AllRules \cup {<<>>}
    /\ counterOf \in [Groups -> Callers \cup {"none"}]
    /\ counter \in [Groups -> [Callers -> 0..MaxRoutes]]
    /\ cpc \in [Callers -> {"idle", "store", "add", "addOwn"}]
    /\ call \in [Callers -> [group : Groups \cup {""},
                            given : AllOutbounds \cup {NoOutbound},
                            session : Sessions \cup {"none"}]]
    /\ routes \in 0..MaxRoutes
    /\ picks \in [AllOutbounds -> 0..MaxRoutes]
    /\ {config, target} \subseteq Configs \cup {FirstConfig}
    /\ apc \in {"stopped", "init", "running", "removed", "replaced", "add"}
    /\ reloads \in 0..MaxReloads
    /\ starts \in 0..MaxStarts

\* Each group lists the registered outbounds of that group, each of them once,
\* so a removed outbound is given to no session.  (With the types of the variables.)
GroupsMatch ==
    /\ TypeOK
    /\ \A g \in Groups :
          /\ ToSet(groups[g]) = {o \in outbounds : o.group = g}
          /\ IsInjective(groups[g])

\* Between two reloads the router has the outbounds and rules of the stored
\* configuration, and each of these outbounds can be chosen through its group.
RouterIsConfig ==
    apc = "running" =>
        /\ outbounds = config.outbounds
        /\ rules = config.rules
        /\ \A o \in config.outbounds : o.group # "" => o \in ToSet(groups[o.group])

\* Round robin gives the members of a group equal shares, up to one session,
\* unless two first callers each created a counter for the group.
RoundRobinFair ==
    ~Locked => \A g \in Groups :
        \/ Cardinality({c \in Callers : counter[g][c] > 0}) > 1
        \/ \A o, p \in ToSet(groups[g]) : picks[o] - picks[p] <= 1

\* A session is given what the old configuration or the new one says, also
\* while the one is being replaced by the other.
RouteIsOldOrNew ==
    [][\A c \in Callers :
          LET s == call'[c].session IN
          apc \notin {"stopped", "init"} /\ call'[c] # call[c] /\ cpc'[c] = "idle" =>
              call'[c].given \in Answers(config, s) \cup Answers(target, s)]_vars
=============================================================================
