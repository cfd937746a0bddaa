---------------------------- MODULE ControlPlane ----------------------------
(***************************************************************************)
(* internal/control: the server that keeps a record of every node, one     *)
(* Client per node that registers, sends heartbeats and fetches its        *)
(* configuration over HTTP, and administrators that set configurations.  A *)
(* client makes one call at a time and gives up after its timeout, whether *)
(* or not the server serves the request.  Both keep what they know in      *)
(* memory only, and either may be started again.                           *)
(***************************************************************************)
EXTENDS Naturals, FiniteSets

CONSTANTS
    Nodes,
    MaxCalls,       \* bound: calls of each client
    MaxRegisters,   \* bound: calls of Register of each client process
    MaxSets,        \* bound: requests to set a configuration
    MaxStarts,      \* bound: processes of each client
    MaxRestarts     \* bound: restarts of the server

ASSUME BoundsAssumption ==
    /\ {MaxCalls, MaxRegisters, MaxSets, MaxStarts, MaxRestarts} \subseteq Nat
    /\ MaxStarts > 0   \* the first process of each client counts

VARIABLES
    node,        \* s.nodes; a token of 0 stands for no record
    client,      \* c.token and c.configVersion, and the data last returned
    cpc,         \* the call a client waits for
    requests,    \* requests on their way
    responses,   \* responses on their way
    calls,       \* calls begun by each client
    starts,      \* processes of each client so far
    registers,   \* calls of Register begun by the present one
    abandoned,   \* a Register of the client was given up once (history)
    tokens,      \* tokens the server has drawn
    sets,        \* configurations sent; each is identified by its number
    restarts

clientVars == <<client, cpc, calls, starts, registers, abandoned>>
boundVars == <<tokens, sets, restarts>>
vars == <<node, client, cpc, requests, responses, calls, starts, registers, abandoned,
          tokens, sets, restarts>>

NoNode == [token |-> 0, version |-> 0, data |-> 0, status |-> FALSE]
NewClient == [token |-> 0, version |-> 0, data |-> 0]
Kinds == {"register", "heartbeat", "config", "stats"}

Init ==
    /\ node = [n \in Nodes |-> NoNode]
    /\ client = [n \in Nodes |-> NewClient]
    /\ cpc = [n \in Nodes |-> "idle"]
    /\ requests = {}
    /\ responses = {}
    /\ calls = [n \in Nodes |-> 0]
    /\ starts = [n \in Nodes |-> 1]
    /\ registers = [n \in Nodes |-> 0]
    /\ abandoned = [n \in Nodes |-> FALSE]
    /\ tokens = 0
    /\ sets = 0
    /\ restarts = 0

----------------------------------------------------------------------------
(* The client *)

Call(n, kind) ==
    /\ cpc[n] = "idle"
    /\ calls[n] < MaxCalls
    /\ IF kind = "register" THEN registers[n] < MaxRegisters ELSE client[n].token # 0
    /\ cpc' = [cpc EXCEPT ![n] = kind]
    /\ calls' = [calls EXCEPT ![n] = @ + 1]
    /\ registers' = [registers EXCEPT ![n] = IF kind = "register" THEN @ + 1 ELSE @]
    /\ requests' = requests \cup
          {[node |-> n, call |-> calls[n] + 1, kind |-> kind,
            token |-> client[n].token, version |-> client[n].version, data |-> 0]}
    /\ UNCHANGED <<node, client, responses, starts, abandoned, boundVars>>

\* Wrong: takes the version of every answer to GetConfig.
LearnsAnyVersion(c, r) ==
    CASE r.kind = "register" /\ r.ok   -> [c EXCEPT !.token = r.token]
      [] r.kind = "config" /\ r.ok     -> [c EXCEPT !.version = r.version,
                                                    !.data = IF r.updated THEN r.data ELSE @]
      [] OTHER                         -> c

\* What each call makes of its answer; an error leaves the client as it is.
Learned(c, r) ==
    CASE r.kind = "register" /\ r.ok     -> [c EXCEPT !.token = r.token]
      [] r.kind = "config" /\ r.updated  -> [c EXCEPT !.version = r.version, !.data = r.data]
      [] OTHER                           -> c

\* The answer to the present call arrives.
Receive(r) ==
    LET n == r.node IN
    /\ r \in responses
    /\ responses' = responses \ {r}
    /\ client' = [client EXCEPT ![n] = Learned(@, r)]
    /\ cpc' = [cpc EXCEPT ![n] = "idle"]
    /\ UNCHANGED <<node, requests, calls, starts, registers, abandoned, boundVars>>

\* Nobody waits for the present call any more; its request may yet be served.
CallLost(n) ==
    /\ cpc' = [cpc EXCEPT ![n] = "idle"]
    /\ abandoned' = [abandoned EXCEPT ![n] = @ \/ cpc[n] = "register"]
    /\ responses' = {r \in responses : r.node # n}
    /\ \/ UNCHANGED requests
       \/ requests' = {m \in requests : m.node # n \/ m.call # calls[n]}

\* The timeout, or a broken connection.
GiveUp(n) ==
    /\ cpc[n] # "idle"
    /\ CallLost(n)
    /\ UNCHANGED <<node, client, calls, starts, registers, boundVars>>

\* The process ends, at any moment, and a new one has neither token nor version.
ClientRestart(n) ==
    /\ starts[n] < MaxStarts
    /\ starts' = [starts EXCEPT ![n] = @ + 1]
    /\ client' = [client EXCEPT ![n] = NewClient]
    /\ registers' = [registers EXCEPT ![n] = 0]
    /\ CallLost(n)
    /\ UNCHANGED <<node, calls, boundVars>>

----------------------------------------------------------------------------
(* The administrator *)

\* Reads the node's token (ListNodes) and sends a configuration, without waiting
\* for the answer: several requests may be on their way.
SendConfig(n) ==
    /\ node[n].token # 0
    /\ sets < MaxSets
    /\ sets' = sets + 1
    /\ requests' = requests \cup
          {[node |-> n, call |-> 0, kind |-> "set", token |-> node[n].token,
            version |-> 0, data |-> sets + 1]}
    /\ UNCHANGED <<node, clientVars, responses, tokens, restarts>>

----------------------------------------------------------------------------
(* The server; every handler holds s.mu *)

\* The request is done with; its client hears of it if it still waits.
Answer(m, ok, token, version, data, updated) ==
    /\ m \in requests
    /\ requests' = requests \ {m}
    /\ responses' =
          IF cpc[m.node] = m.kind /\ calls[m.node] = m.call
             THEN responses \cup {[node |-> m.node, kind |-> m.kind, ok |-> ok,
                                   token |-> token, version |-> version,
                                   data |-> data, updated |-> updated]}
             ELSE responses
    /\ UNCHANGED clientVars

\* Wrong: leaves the record of a node that is already there.
RecordIfNew(n, new) == [node EXCEPT ![n] = IF @.token = 0 THEN new ELSE @]

\* A new record replaces whatever the node had, with a new token.
Record(n, new) == [node EXCEPT ![n] = new]

Register(m) ==
    /\ m.kind = "register"
    /\ tokens' = tokens + 1
    /\ node' = Record(m.node, [NoNode EXCEPT !.token = tokens + 1])
    /\ Answer(m, TRUE, tokens + 1, 0, 0, FALSE)
    /\ UNCHANGED <<sets, restarts>>

Authorized(m) == node[m.node].token # 0 /\ node[m.node].token = m.token

\* An unknown node or a wrong token.
Refuse(m) ==
    /\ m.kind \in {"heartbeat", "config", "set"}
    /\ ~Authorized(m)
    /\ Answer(m, FALSE, 0, 0, 0, FALSE)
    /\ UNCHANGED <<node, boundVars>>

Heartbeat(m) ==
    /\ m.kind = "heartbeat"
    /\ Authorized(m)
    /\ node' = [node EXCEPT ![m.node].status = TRUE]
    /\ Answer(m, TRUE, 0, 0, 0, FALSE)
    /\ UNCHANGED boundVars

\* Asks for no token.
ReportStats(m) ==
    /\ m.kind = "stats"
    /\ Answer(m, node[m.node].token # 0, 0, 0, 0, FALSE)
    /\ UNCHANGED <<node, boundVars>>

Newer(m) == node[m.node].version > m.version

GetConfig(m) ==
    LET n == m.node IN
    /\ m.kind = "config"
    /\ Authorized(m)
    /\ Answer(m, TRUE, 0, node[n].version, IF Newer(m) THEN node[n].data ELSE 0, Newer(m))
    /\ UNCHANGED <<node, boundVars>>

\* Wrong: marks the configuration as set and does not count.
SameVersion(v) == 1

NextVersion(v) == v + 1

SetNodeConfig(m) ==
    /\ m.kind = "set"
    /\ Authorized(m)
    /\ node' = [node EXCEPT ![m.node].version = NextVersion(@), ![m.node].data = m.data]
    /\ Answer(m, TRUE, 0, 0, 0, FALSE)
    /\ UNCHANGED boundVars

\* The process ends and a new one has no records.
Restart ==
    /\ restarts < MaxRestarts
    /\ restarts' = restarts + 1
    /\ node' = [n \in Nodes |-> NoNode]
    /\ requests' = {}
    /\ UNCHANGED <<clientVars, responses, tokens, sets>>

----------------------------------------------------------------------------
\* One request reaches its handler.
Serve(m) ==
    Register(m) \/ Refuse(m) \/ Heartbeat(m) \/ ReportStats(m) \/ GetConfig(m)
        \/ SetNodeConfig(m)

Next ==
    \/ \E n \in Nodes, k \in Kinds : Call(n, k)
    \/ \E n \in Nodes : GiveUp(n) \/ ClientRestart(n) \/ SendConfig(n)
    \/ \E r \in responses : Receive(r)
    \/ \E m \in requests : Serve(m)
    \/ Restart

Spec == Init /\ [][Next]_vars

----------------------------------------------------------------------------
(* Properties *)

TypeOK ==
    /\ node \in [Nodes -> [token : 0..tokens, version : 0..MaxSets, data : 0..sets,
                           status : BOOLEAN]]
    /\ client \in [Nodes -> [token : 0..tokens, version : 0..MaxSets, data : 0..sets]]
    /\ cpc \in [Nodes -> Kinds \cup {"idle"}]
    /\ requests \subseteq [node : Nodes, call : 0..MaxCalls, kind : Kinds \cup {"set"},
                           token : 0..tokens, version : 0..MaxSets, data : 0..sets]
    /\ responses \subseteq [node : Nodes, kind : Kinds, ok : BOOLEAN,
                            token : 0..tokens, version : 0..MaxSets, data : 0..sets,
                            updated : BOOLEAN]
    /\ \A q, r \in responses : q.node = r.node => q = r
    /\ calls \in [Nodes -> 0..MaxCalls]
    /\ starts \in [Nodes -> 1..MaxStarts]
    /\ registers \in [Nodes -> 0..MaxRegisters]
    /\ abandoned \in [Nodes -> BOOLEAN]
    /\ tokens \in Nat
    /\ sets \in 0..MaxSets
    /\ restarts \in 0..MaxRestarts

\* The version a client process holds never falls, however often the node
\* registers, whatever is lost and however late an answer comes.
VersionNeverFalls ==
    [][\A n \in Nodes :
          starts'[n] = starts[n] => client'[n].version >= client[n].version]_vars

\* The token a node was given last is the one the server knows, whatever other
\* calls are lost or served late.  The exception is a Register the client gave
\* up: served after a later one, it replaces the token the client has.  (With the
\* types of the variables.)
RegisteredIsAccepted ==
    /\ TypeOK
    /\ \A n \in Nodes :
          client[n].token # 0 /\ cpc[n] # "register" /\ ~abandoned[n] /\ node[n].token # 0
              => node[n].token = client[n].token

\* A client whose version is not below the server's has the data of the server,
\* so nothing is lost by telling it that there is no update, in whatever order
\* configurations arrive: as long as the client process and the server share one
\* record, that is, the process registers once, no Register of an earlier one is
\* still to come, and the server is not restarted.  With a second record the
\* versions count from zero again while the client keeps the old count.
UpToDate ==
    \A n \in Nodes :
        /\ registers[n] = 1
        /\ ~abandoned[n]
        /\ restarts = 0
        /\ 0 < node[n].version
        /\ node[n].version <= client[n].version
        => client[n].data = node[n].data
=============================================================================
