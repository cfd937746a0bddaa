------------------------- MODULE ControlPlaneProofs -------------------------
(***************************************************************************)
(* The inductive invariant of ControlPlane and what follows from it, for   *)
(* any set of nodes and any bounds.                                        *)
(***************************************************************************)
EXTENDS ControlPlane, FiniteSetTheorems, TLAPS

\* The set requests of n that are on their way.
PendingSets(n) == {m \in requests : m.node = n /\ m.kind = "set"}

\* A configuration raises the version once: what a record counts and what is
\* still on its way are together no more than what was sent.
SetsInv ==
    /\ IsFiniteSet(requests)
    /\ \A n \in Nodes : node[n].version + Cardinality(PendingSets(n)) <= sets

\* Every call has a number of its own, and 0 stands for an administrator's.
CallInv ==
    /\ \A m \in requests :
          /\ m.call <= calls[m.node]
          /\ m.call = 0 <=> m.kind = "set"
    /\ \A m, k \in requests :
          m.call # 0 /\ m.node = k.node /\ m.call = k.call => m = k

\* An answer on its way is the only one for its client, which waits for it, and
\* the request it answers is gone.
AnswerInv ==
    \A r \in responses :
        /\ cpc[r.node] = r.kind
        /\ calls[r.node] # 0
        /\ r.updated => r.kind = "config"
        /\ \A m \in requests : m.node = r.node => m.call # calls[r.node]

\* The version in the request a client waits for is the one it still has, and
\* an update that is on its way is newer than that.
VersionInv ==
    /\ \A m \in requests :
          m.call = calls[m.node] /\ m.kind = cpc[m.node] =>
              m.version = client[m.node].version
    /\ \A r \in responses : r.updated => r.version > client[r.node].version

\* Of a client that never gave a Register up, no Register is on its way but the
\* one it waits for, and the token it is told is that of the record.
TokenInv ==
    \A n \in Nodes : ~abandoned[n] =>
        /\ \A m \in requests :
              m.node = n /\ m.kind = "register" =>
                  cpc[n] = "register" /\ m.call = calls[n]
        /\ \A r \in responses :
              r.node = n /\ r.kind = "register" =>
                  r.ok /\ r.token # 0 /\ node[n].token \in {0, r.token}
        /\ client[n].token # 0 /\ cpc[n] # "register" /\ node[n].token # 0 =>
              node[n].token = client[n].token

\* A new process knows nothing until its first Register is answered.
NewClientInv ==
    \A n \in Nodes :
        /\ registers[n] = 0 => cpc[n] = "idle" /\ client[n] = NewClient
        /\ registers[n] = 1 /\ cpc[n] = "register" => client[n] = NewClient

\* A process and the server that share one record: registered once, with nothing
\* else that could replace it.
OneRecord(n) == registers[n] <= 1 /\ ~abandoned[n] /\ restarts = 0

\* Then neither the client nor an update on its way is ahead of the record, and
\* who has its version has its data.
DataInv ==
    \A n \in Nodes : OneRecord(n) =>
        /\ client[n].version <= node[n].version
        /\ 0 < client[n].version /\ client[n].version = node[n].version =>
              client[n].data = node[n].data
        /\ \A r \in responses : r.node = n /\ r.updated =>
              /\ r.version <= node[n].version
              /\ r.version = node[n].version => r.data = node[n].data

IInv == TypeOK /\ SetsInv /\ CallInv /\ AnswerInv /\ VersionInv /\ TokenInv
        /\ NewClientInv /\ DataInv
----------------------------------------------------------------------------
\* The records of the system, as far as tokens and configurations go.
NodeType(t, s) == [token : 0..t, version : 0..MaxSets, data : 0..s,
                   status : BOOLEAN]
ClientType(t, s) == [token : 0..t, version : 0..MaxSets, data : 0..s]
RequestType(t, s) ==
    [node : Nodes, call : 0..MaxCalls, kind : Kinds \cup {"set"},
     token : 0..t, version : 0..MaxSets, data : 0..s]
ResponseType(t, s) ==
    [node : Nodes, kind : Kinds, ok : BOOLEAN, token : 0..t,
     version : 0..MaxSets, data : 0..s, updated : BOOLEAN]

\* The bounds are numbers.
LEMMA Bounds ==
    /\ MaxCalls \in Nat /\ MaxRegisters \in Nat /\ MaxSets \in Nat
    /\ MaxStarts \in Nat \ {0} /\ MaxRestarts \in Nat
  BY BoundsAssumption

\* What the type invariant says of the records.
LEMMA TypeFacts ==
    ASSUME TypeOK
    PROVE  /\ node \in [Nodes -> NodeType(tokens, sets)]
           /\ client \in [Nodes -> ClientType(tokens, sets)]
           /\ cpc \in [Nodes -> Kinds \cup {"idle"}]
           /\ requests \subseteq RequestType(tokens, sets)
           /\ responses \subseteq ResponseType(tokens, sets)
           /\ \A q, r \in responses : q.node = r.node => q = r
           /\ calls \in [Nodes -> 0..MaxCalls]
           /\ starts \in [Nodes -> 1..MaxStarts]
           /\ registers \in [Nodes -> 0..MaxRegisters]
           /\ abandoned \in [Nodes -> BOOLEAN]
           /\ tokens \in Nat
           /\ sets \in 0..MaxSets
           /\ restarts \in 0..MaxRestarts
  BY DEF TypeOK, NodeType, ClientType, RequestType, ResponseType

\* More tokens and configurations only widen the types.
LEMMA TypesGrow ==
    ASSUME NEW t1 \in Nat, NEW t2 \in Nat, t1 <= t2,
           NEW s1 \in Nat, NEW s2 \in Nat, s1 <= s2
    PROVE  /\ NodeType(t1, s1) \subseteq NodeType(t2, s2)
           /\ ClientType(t1, s1) \subseteq ClientType(t2, s2)
           /\ RequestType(t1, s1) \subseteq RequestType(t2, s2)
           /\ ResponseType(t1, s1) \subseteq ResponseType(t2, s2)
<1>1. 0..t1 \subseteq 0..t2 /\ 0..s1 \subseteq 0..s2
  OBVIOUS
<1> QED BY <1>1 DEF NodeType, ClientType, RequestType, ResponseType

\* The answer to a request that is waited for is the only one for its client.
Reply(m, ok, token, version, data, updated) ==
    [node |-> m.node, kind |-> m.kind, ok |-> ok, token |-> token,
     version |-> version, data |-> data, updated |-> updated]

LEMMA AnswerFacts ==
    ASSUME TypeOK, CallInv, AnswerInv, NEW m, NEW ok, NEW token, NEW version,
           NEW data, NEW updated,
           Answer(m, ok, token, version, data, updated)
    PROVE  /\ m \in requests
           /\ requests' = requests \ {m}
           /\ UNCHANGED clientVars
           /\ \/ responses' = responses
              \/ /\ responses' = responses \cup
                        {Reply(m, ok, token, version, data, updated)}
                 /\ cpc[m.node] = m.kind /\ calls[m.node] = m.call
                 /\ m.kind \in Kinds
                 /\ \A r \in responses : r.node # m.node
                 /\ \A k \in requests \ {m} :
                       k.node = m.node => k.call # m.call
<1>1. m \in requests /\ m.node \in Nodes /\ m.kind \in Kinds \cup {"set"}
      /\ cpc[m.node] \in Kinds \cup {"idle"}
  BY TypeFacts DEF Answer, RequestType
<1>2. CASE cpc[m.node] = m.kind /\ calls[m.node] = m.call
  <2>1. m.kind # "set"
    BY <1>1, <1>2 DEF Kinds
  <2>2. m.call # 0
    BY <1>1, <2>1 DEF CallInv
  <2>3. \A r \in responses : r.node # m.node
    BY <1>1, <1>2 DEF AnswerInv
  <2> QED BY <1>1, <1>2, <2>1, <2>2, <2>3 DEF Answer, Reply, CallInv
<1>3. CASE ~(cpc[m.node] = m.kind /\ calls[m.node] = m.call)
  BY <1>1, <1>3 DEF Answer
<1> QED BY <1>2, <1>3

\* The types after an answer, whatever became of the records.
LEMMA AnswerTypes ==
    ASSUME TypeOK, CallInv, AnswerInv, NEW m, NEW ok \in BOOLEAN,
           NEW token \in 0..tokens', NEW version \in 0..MaxSets,
           NEW data \in 0..sets, NEW updated \in BOOLEAN,
           Answer(m, ok, token, version, data, updated),
           tokens' \in Nat, tokens <= tokens',
           node' \in [Nodes -> NodeType(tokens', sets)],
           UNCHANGED <<sets, restarts>>
    PROVE  TypeOK'
<1>1. /\ sets \in Nat /\ tokens \in Nat
      /\ NodeType(tokens, sets) \subseteq NodeType(tokens', sets')
      /\ ClientType(tokens, sets) \subseteq ClientType(tokens', sets')
      /\ RequestType(tokens, sets) \subseteq RequestType(tokens', sets')
      /\ ResponseType(tokens, sets) \subseteq ResponseType(tokens', sets')
  BY TypeFacts, TypesGrow, Bounds
<1>2. m \in requests /\ requests' \subseteq requests /\ UNCHANGED clientVars
  BY AnswerFacts
<1>3. m.node \in Nodes
  BY <1>2, TypeFacts DEF RequestType
<1>4. /\ responses' \subseteq ResponseType(tokens', sets')
      /\ \A q, r \in responses' : q.node = r.node => q = r
  <2>1. CASE responses' = responses
    BY <1>1, <2>1, TypeFacts
  <2>2. CASE /\ responses' = responses \cup
                    {Reply(m, ok, token, version, data, updated)}
             /\ m.kind \in Kinds
             /\ \A r \in responses : r.node # m.node
    <3>1. Reply(m, ok, token, version, data, updated)
             \in ResponseType(tokens', sets')
      BY <1>3, <2>2 DEF Reply, ResponseType
    <3> QED BY <1>1, <2>2, <3>1, TypeFacts DEF Reply
  <2> QED BY <2>1, <2>2, AnswerFacts
<1>5. client' \in [Nodes -> ClientType(tokens', sets')]
  BY <1>1, <1>2, TypeFacts DEF clientVars
<1>6. requests' \subseteq RequestType(tokens', sets')
  BY <1>1, <1>2, TypeFacts
<1> QED BY <1>2, <1>4, <1>5, <1>6, TypeFacts DEF TypeOK, NodeType, ClientType,
           RequestType, ResponseType, clientVars

\* What is known of the requests to set a configuration that are on their way.
LEMMA PendingFacts ==
    ASSUME TypeOK, SetsInv, NEW n \in Nodes
    PROVE  /\ IsFiniteSet(PendingSets(n))
           /\ Cardinality(PendingSets(n)) \in Nat
           /\ node[n].version \in Nat /\ sets \in Nat
           /\ node[n].version + Cardinality(PendingSets(n)) <= sets
           /\ \A m \in PendingSets(n) :
                 /\ IsFiniteSet(PendingSets(n) \ {m})
                 /\ Cardinality(PendingSets(n) \ {m}) \in Nat
                 /\ Cardinality(PendingSets(n)) =
                       Cardinality(PendingSets(n) \ {m}) + 1
<1>1. IsFiniteSet(PendingSets(n))
  BY FS_Subset DEF SetsInv, PendingSets
<1>2. Cardinality(PendingSets(n)) \in Nat
  BY <1>1, FS_CardinalityType
<1>3. ASSUME NEW m \in PendingSets(n)
      PROVE  /\ IsFiniteSet(PendingSets(n) \ {m})
             /\ Cardinality(PendingSets(n) \ {m}) \in Nat
             /\ Cardinality(PendingSets(n)) =
                   Cardinality(PendingSets(n) \ {m}) + 1
  <2>1. IsFiniteSet(PendingSets(n) \ {m})
    BY <1>1, FS_RemoveElement
  <2>2. Cardinality(PendingSets(n) \ {m}) \in Nat
    BY <2>1, FS_CardinalityType
  <2>3. Cardinality(PendingSets(n) \ {m}) = Cardinality(PendingSets(n)) - 1
    BY <1>1, <1>3, FS_RemoveElement
  <2> QED BY <1>2, <2>1, <2>2, <2>3
<1>4. node[n].version \in Nat /\ sets \in Nat
  BY TypeFacts, Bounds DEF NodeType
<1> QED BY <1>1, <1>2, <1>3, <1>4 DEF SetsInv

\* Fewer requests leave fewer configurations to come.
LEMMA PendingShrinks ==
    ASSUME TypeOK, SetsInv, requests' \subseteq requests, NEW n \in Nodes
    PROVE  /\ IsFiniteSet(requests')
           /\ Cardinality(PendingSets(n)') \in Nat
           /\ Cardinality(PendingSets(n)') <= Cardinality(PendingSets(n))
<1>1. PendingSets(n)' \subseteq PendingSets(n)
  BY DEF PendingSets
<1> QED BY <1>1, PendingFacts, FS_Subset, FS_CardinalityType DEF SetsInv

\* Giving a call up drops the answer and perhaps the request.
LEMMA CallLostFacts ==
    ASSUME TypeOK, NEW n \in Nodes, CallLost(n)
    PROVE  /\ cpc' = [cpc EXCEPT ![n] = "idle"]
           /\ abandoned' = [abandoned EXCEPT ![n] = @ \/ cpc[n] = "register"]
           /\ responses' \subseteq responses
           /\ \A r \in responses' : r.node # n
           /\ requests' \subseteq requests
  BY DEF CallLost

\* Every variable keeps its type.
LEMMA TypeStep ==
    ASSUME TypeOK, SetsInv, CallInv, AnswerInv, Next PROVE TypeOK'
<1>1. ASSUME NEW n \in Nodes, NEW k \in Kinds, Call(n, k) PROVE TypeOK'
  <2> DEFINE m == [node |-> n, call |-> calls[n] + 1, kind |-> k,
                   token |-> client[n].token, version |-> client[n].version,
                   data |-> 0]
  <2>1. /\ requests' = requests \cup {m}
        /\ calls[n] < MaxCalls
        /\ calls' = [calls EXCEPT ![n] = @ + 1]
        /\ cpc' = [cpc EXCEPT ![n] = k]
        /\ k = "register" => registers[n] < MaxRegisters
        /\ registers' = [registers EXCEPT ![n] = IF k = "register" THEN @ + 1 ELSE @]
        /\ UNCHANGED <<node, client, responses, starts, abandoned, boundVars>>
    BY <1>1 DEF Call
  <2>2. calls[n] \in 0..MaxCalls /\ registers[n] \in 0..MaxRegisters
        /\ client[n] \in ClientType(tokens, sets) /\ sets \in Nat
    BY TypeFacts
  <2>3. m \in RequestType(tokens, sets)
    BY <2>1, <2>2, Bounds DEF RequestType, ClientType
  <2> HIDE DEF m
  <2>4. requests' \subseteq RequestType(tokens, sets)
    BY <2>1, <2>3, TypeFacts
  <2>5. calls' \in [Nodes -> 0..MaxCalls]
        /\ registers' \in [Nodes -> 0..MaxRegisters]
        /\ cpc' \in [Nodes -> Kinds \cup {"idle"}]
    BY <2>1, <2>2, TypeFacts, Bounds
  <2> QED BY <2>1, <2>4, <2>5, TypeFacts DEF TypeOK, boundVars, NodeType,
             ClientType, RequestType, ResponseType
<1>2. ASSUME NEW n \in Nodes, GiveUp(n) \/ ClientRestart(n) PROVE TypeOK'
  <2>1. /\ cpc' \in [Nodes -> Kinds \cup {"idle"}]
        /\ abandoned' \in [Nodes -> BOOLEAN]
        /\ responses' \subseteq responses
        /\ requests' \subseteq requests
    BY <1>2, CallLostFacts, TypeFacts DEF GiveUp, ClientRestart
  <2>2. /\ client' \in [Nodes -> ClientType(tokens, sets)]
        /\ starts' \in [Nodes -> 1..MaxStarts]
        /\ registers' \in [Nodes -> 0..MaxRegisters]
        /\ UNCHANGED <<node, calls, boundVars>>
    <3>1. CASE GiveUp(n)
      BY <3>1, TypeFacts DEF GiveUp
    <3>2. CASE ClientRestart(n)
      <4>1. NewClient \in ClientType(tokens, sets)
        BY TypeFacts, Bounds DEF NewClient, ClientType
      <4>2. 0 \in 0..MaxRegisters /\ starts[n] + 1 \in 1..MaxStarts
        BY <3>2, TypeFacts, Bounds DEF ClientRestart
      <4> QED BY <3>2, <4>1, <4>2, TypeFacts DEF ClientRestart
    <3> QED BY <1>2, <3>1, <3>2
  <2> QED BY <2>1, <2>2, TypeFacts DEF TypeOK, boundVars, NodeType, ClientType,
             RequestType, ResponseType
<1>3. ASSUME NEW n \in Nodes, SendConfig(n) PROVE TypeOK'
  <2> DEFINE m == [node |-> n, call |-> 0, kind |-> "set",
                   token |-> node[n].token, version |-> 0, data |-> sets + 1]
  <2>1. /\ sets < MaxSets /\ sets' = sets + 1
        /\ requests' = requests \cup {m}
        /\ UNCHANGED <<node, clientVars, responses, tokens, restarts>>
    BY <1>3 DEF SendConfig
  <2>2. sets \in Nat /\ tokens \in Nat /\ node[n] \in NodeType(tokens, sets)
    BY TypeFacts
  <2>3. m \in RequestType(tokens, sets')
    BY <2>1, <2>2, Bounds DEF RequestType, NodeType
  <2> HIDE DEF m
  <2>4. /\ NodeType(tokens, sets) \subseteq NodeType(tokens, sets')
        /\ ClientType(tokens, sets) \subseteq ClientType(tokens, sets')
        /\ RequestType(tokens, sets) \subseteq RequestType(tokens, sets')
        /\ ResponseType(tokens, sets) \subseteq ResponseType(tokens, sets')
    BY <2>1, <2>2, TypesGrow
  <2>5. /\ node' \in [Nodes -> NodeType(tokens', sets')]
        /\ client' \in [Nodes -> ClientType(tokens', sets')]
    BY <2>1, <2>4, TypeFacts DEF clientVars
  <2>6. /\ requests' \subseteq RequestType(tokens', sets')
        /\ responses' \subseteq ResponseType(tokens', sets')
    BY <2>1, <2>3, <2>4, TypeFacts
  <2>7. sets' \in 0..MaxSets
    BY <2>1, <2>2, Bounds
  <2> QED BY <2>1, <2>5, <2>6, <2>7, TypeFacts DEF TypeOK, clientVars,
             NodeType, ClientType, RequestType, ResponseType
<1>4. ASSUME NEW r \in responses, Receive(r) PROVE TypeOK'
  <2>1. /\ responses' \subseteq responses
        /\ client' = [client EXCEPT ![r.node] = Learned(@, r)]
        /\ cpc' = [cpc EXCEPT ![r.node] = "idle"]
        /\ UNCHANGED <<node, requests, calls, starts, registers, abandoned,
                       boundVars>>
    BY <1>4 DEF Receive
  <2>2. r \in ResponseType(tokens, sets)
    BY TypeFacts
  <2>3. r.node \in Nodes
    BY <2>2 DEF ResponseType
  <2>4. Learned(client[r.node], r) \in ClientType(tokens, sets)
    <3>1. client[r.node] \in ClientType(tokens, sets)
      BY <2>3, TypeFacts
    <3>2. r.token \in 0..tokens /\ r.version \in 0..MaxSets /\ r.data \in 0..sets
      BY <2>2 DEF ResponseType
    <3>3. /\ [client[r.node] EXCEPT !.token = r.token] \in ClientType(tokens, sets)
          /\ [client[r.node] EXCEPT !.version = r.version, !.data = r.data]
                \in ClientType(tokens, sets)
      BY <3>1, <3>2 DEF ClientType
    <3> QED BY <3>1, <3>3 DEF Learned
  <2>5. client' \in [Nodes -> ClientType(tokens, sets)]
        /\ cpc' \in [Nodes -> Kinds \cup {"idle"}]
    BY <2>1, <2>3, <2>4, TypeFacts
  <2> QED BY <2>1, <2>5, TypeFacts DEF TypeOK, boundVars, NodeType, ClientType,
             RequestType, ResponseType
<1>5. ASSUME NEW m \in requests, Serve(m) PROVE TypeOK'
  <2>1. m \in RequestType(tokens, sets) /\ tokens \in Nat /\ sets \in Nat
    BY TypeFacts
  <2>2. m.node \in Nodes /\ m.data \in 0..sets
    BY <2>1 DEF RequestType
  <2>3. node[m.node] \in NodeType(tokens, sets)
    BY <2>2, TypeFacts
  <2>4. 0 \in 0..tokens /\ 0 \in 0..sets /\ 0 \in 0..MaxSets
    BY <2>1, Bounds
  <2>5. CASE Register(m)
    <3>1. /\ tokens' = tokens + 1
          /\ node' = [node EXCEPT ![m.node] = [NoNode EXCEPT !.token = tokens + 1]]
          /\ Answer(m, TRUE, tokens + 1, 0, 0, FALSE)
          /\ UNCHANGED <<sets, restarts>>
      BY <2>5 DEF Register, Record
    <3>2. NodeType(tokens, sets) \subseteq NodeType(tokens', sets)
      BY <2>1, <3>1, TypesGrow
    <3>3. [NoNode EXCEPT !.token = tokens + 1] \in NodeType(tokens', sets)
      <4>1. NoNode \in [token : {0}, version : 0..MaxSets, data : 0..sets,
                        status : BOOLEAN]
        BY <2>4 DEF NoNode
      <4>2. tokens + 1 \in 0..tokens'
        BY <2>1, <3>1
      <4> QED BY <4>1, <4>2 DEF NodeType
    <3>4. node' \in [Nodes -> NodeType(tokens', sets)]
      BY <3>1, <3>2, <3>3, TypeFacts
    <3>5. tokens + 1 \in 0..tokens' /\ tokens' \in Nat /\ tokens <= tokens'
      BY <2>1, <3>1
    <3> QED BY <2>4, <3>1, <3>4, <3>5, AnswerTypes
  <2>6. CASE Refuse(m) \/ Heartbeat(m) \/ ReportStats(m) \/ GetConfig(m)
    <3>1. node' \in [Nodes -> NodeType(tokens', sets)]
          /\ UNCHANGED boundVars
      <4>1. CASE Heartbeat(m)
        <5>1. [node[m.node] EXCEPT !.status = TRUE] \in NodeType(tokens, sets)
          BY <2>3 DEF NodeType
        <5> QED BY <2>2, <4>1, <5>1, TypeFacts DEF Heartbeat, boundVars
      <4>2. CASE Refuse(m) \/ ReportStats(m) \/ GetConfig(m)
        BY <4>2, TypeFacts DEF Refuse, ReportStats, GetConfig, boundVars
      <4> QED BY <2>6, <4>1, <4>2
    <3>2. PICK ok \in BOOLEAN, version \in 0..MaxSets, data \in 0..sets,
               updated \in BOOLEAN :
               Answer(m, ok, 0, version, data, updated)
      <4>1. CASE Refuse(m) \/ Heartbeat(m) \/ ReportStats(m)
        BY <2>4, <4>1 DEF Refuse, Heartbeat, ReportStats
      <4>2. CASE GetConfig(m)
        <5>1. /\ node[m.node].version \in 0..MaxSets
              /\ node[m.node].data \in 0..sets
          BY <2>3 DEF NodeType
        <5>2. Newer(m) \in BOOLEAN
              /\ (IF Newer(m) THEN node[m.node].data ELSE 0) \in 0..sets
          BY <2>4, <5>1 DEF Newer
        <5>3. Answer(m, TRUE, 0, node[m.node].version,
                     IF Newer(m) THEN node[m.node].data ELSE 0, Newer(m))
          BY <4>2 DEF GetConfig
        <5> QED BY <5>1, <5>2, <5>3, Zenon
      <4> QED BY <2>6, <4>1, <4>2
    <3> QED BY <2>1, <2>4, <3>1, <3>2, AnswerTypes DEF boundVars
  <2>7. CASE SetNodeConfig(m)
    <3>1. /\ m.kind = "set"
          /\ node' = [node EXCEPT ![m.node].version = @ + 1,
                                  ![m.node].data = m.data]
          /\ Answer(m, TRUE, 0, 0, 0, FALSE)
          /\ UNCHANGED boundVars
      BY <2>7 DEF SetNodeConfig, NextVersion
    <3>2. m \in PendingSets(m.node)
      BY <3>1 DEF PendingSets
    <3>3. node[m.node].version + 1 \in 0..MaxSets
      <4> DEFINE p == Cardinality(PendingSets(m.node))
                 q == Cardinality(PendingSets(m.node) \ {m})
                 v == node[m.node].version
      <4>1. v \in Nat /\ v + p <= sets /\ p = q + 1 /\ q \in Nat
        BY <2>2, <3>2, PendingFacts
      <4>2. sets <= MaxSets /\ sets \in Nat /\ MaxSets \in Nat
        BY TypeFacts, Bounds
      <4> HIDE DEF p, q, v
      <4>3. v + 1 \in 0..MaxSets
        BY <4>1, <4>2
      <4> QED BY <4>3 DEF v
    <3>4. node' \in [Nodes -> NodeType(tokens', sets)]
      BY <2>2, <2>3, <3>1, <3>3, TypeFacts DEF NodeType, boundVars
    <3>5. /\ UNCHANGED <<tokens, sets, restarts>>
          /\ tokens' \in Nat /\ tokens <= tokens' /\ 0 \in 0..tokens'
      BY <2>1, <2>4, <3>1 DEF boundVars
    <3>6. Answer(m, TRUE, 0, 0, 0, FALSE)
      BY <3>1
    <3> QED BY <2>4, <3>4, <3>5, <3>6, AnswerTypes
  <2> QED BY <1>5, <2>5, <2>6, <2>7 DEF Serve
<1>6. CASE Restart
  <2>1. /\ restarts < MaxRestarts /\ restarts' = restarts + 1
        /\ node' = [n \in Nodes |-> NoNode] /\ requests' = {}
        /\ UNCHANGED <<clientVars, responses, tokens, sets>>
    BY <1>6 DEF Restart
  <2>2. NoNode \in NodeType(tokens, sets)
    BY TypeFacts, Bounds DEF NoNode, NodeType
  <2>3. restarts' \in 0..MaxRestarts
    BY <2>1, TypeFacts, Bounds
  <2> QED BY <2>1, <2>2, <2>3, TypeFacts DEF TypeOK, clientVars, NodeType,
             ClientType, RequestType, ResponseType
<1> QED BY <1>1, <1>2, <1>3, <1>4, <1>5, <1>6 DEF Next

\* What a handler does to the record it serves, in the terms of the invariant.
Handled(m) ==
    LET old == node[m.node]
        new == node'[m.node]
    IN  /\ \A n \in Nodes \ {m.node} : node'[n] = node[n]
        /\ IF m.kind = "register"
              THEN new.token = tokens + 1 /\ new.version = 0
              ELSE new.token = old.token
        /\ m.kind = "set" =>
              \/ new.version = old.version /\ new.data = old.data
              \/ new.version = old.version + 1
        /\ m.kind \notin {"set", "register"} =>
              new.version = old.version /\ new.data = old.data

\* What the client is told, if it still waits.
Told(m, r) ==
    /\ r.node = m.node /\ r.kind = m.kind
    /\ r.updated => /\ m.kind = "config"
                    /\ r.version = node[m.node].version
                    /\ r.data = node[m.node].data
                    /\ r.version > m.version
    /\ m.kind = "register" => r.ok /\ r.token = tokens + 1

\* The six handlers at once.
LEMMA ServeFacts ==
    ASSUME TypeOK, CallInv, AnswerInv, NEW m \in requests, Serve(m)
    PROVE  /\ m.node \in Nodes
           /\ requests' = requests \ {m}
           /\ UNCHANGED <<client, cpc, calls, starts, registers, abandoned,
                          sets, restarts>>
           /\ Handled(m)
           /\ \/ responses' = responses
              \/ \E r : /\ responses' = responses \cup {r}
                        /\ Told(m, r)
                        /\ cpc[m.node] = m.kind /\ calls[m.node] = m.call
                        /\ \A q \in responses : q.node # m.node
                        /\ \A k \in requests \ {m} :
                              k.node = m.node => k.call # m.call
<1>0. /\ m \in RequestType(tokens, sets)
      /\ node \in [Nodes -> NodeType(tokens, sets)]
  BY TypeFacts
<1>1. m.node \in Nodes /\ node[m.node] \in NodeType(tokens, sets)
  BY <1>0 DEF RequestType
<1>2. ASSUME NEW ok, NEW token, NEW version, NEW data, NEW updated,
             Answer(m, ok, token, version, data, updated),
             Told(m, Reply(m, ok, token, version, data, updated))
      PROVE  /\ requests' = requests \ {m}
             /\ UNCHANGED <<client, cpc, calls, starts, registers, abandoned>>
             /\ \/ responses' = responses
                \/ \E r : /\ responses' = responses \cup {r}
                          /\ Told(m, r)
                          /\ cpc[m.node] = m.kind /\ calls[m.node] = m.call
                          /\ \A q \in responses : q.node # m.node
                          /\ \A k \in requests \ {m} :
                                k.node = m.node => k.call # m.call
  BY <1>2, AnswerFacts DEF clientVars
<1>3. CASE Register(m)
  <2>1. Told(m, Reply(m, TRUE, tokens + 1, 0, 0, FALSE))
    BY DEF Told, Reply
  <2>2. NoNode \in [token : {0}, version : {0}, data : {0}, status : {FALSE}]
    BY DEF NoNode
  <2>3. [NoNode EXCEPT !.token = tokens + 1].token = tokens + 1
        /\ [NoNode EXCEPT !.token = tokens + 1].version = 0
    BY <2>2
  <2>4. node' = [node EXCEPT ![m.node] = [NoNode EXCEPT !.token = tokens + 1]]
        /\ m.kind = "register"
    BY <1>3 DEF Register, Record
  <2>5. Handled(m)
    BY <1>0, <1>1, <2>3, <2>4 DEF Handled
  <2> QED BY <1>1, <1>2, <1>3, <2>1, <2>5 DEF Register
<1>4. CASE Refuse(m)
  <2>1. Told(m, Reply(m, FALSE, 0, 0, 0, FALSE))
    BY <1>4 DEF Refuse, Told, Reply
  <2>2. Handled(m)
    BY <1>4 DEF Refuse, Handled
  <2> QED BY <1>1, <1>2, <1>4, <2>1, <2>2 DEF Refuse, boundVars
<1>5. CASE Heartbeat(m)
  <2>1. Told(m, Reply(m, TRUE, 0, 0, 0, FALSE))
    BY <1>5 DEF Heartbeat, Told, Reply
  <2>2. Handled(m)
    BY <1>0, <1>1, <1>5 DEF Heartbeat, Handled, NodeType
  <2> QED BY <1>1, <1>2, <1>5, <2>1, <2>2 DEF Heartbeat, boundVars
<1>6. CASE ReportStats(m)
  <2>1. Told(m, Reply(m, node[m.node].token # 0, 0, 0, 0, FALSE))
    BY <1>6 DEF ReportStats, Told, Reply
  <2>2. Handled(m)
    BY <1>6 DEF ReportStats, Handled
  <2> QED BY <1>1, <1>2, <1>6, <2>1, <2>2 DEF ReportStats, boundVars
<1>7. CASE GetConfig(m)
  <2> DEFINE d == IF Newer(m) THEN node[m.node].data ELSE 0
  <2>1. Told(m, Reply(m, TRUE, 0, node[m.node].version, d, Newer(m)))
    BY <1>7 DEF GetConfig, Told, Reply, Newer
  <2>2. Handled(m)
    BY <1>7 DEF GetConfig, Handled
  <2>3. Answer(m, TRUE, 0, node[m.node].version, d, Newer(m))
        /\ UNCHANGED boundVars
    BY <1>7 DEF GetConfig
  <2> QED BY <1>1, <1>2, <2>1, <2>2, <2>3 DEF boundVars
<1>8. CASE SetNodeConfig(m)
  <2>1. Told(m, Reply(m, TRUE, 0, 0, 0, FALSE))
    BY <1>8 DEF SetNodeConfig, Told, Reply
  <2>2. Handled(m)
    BY <1>0, <1>1, <1>8 DEF SetNodeConfig, NextVersion, Handled, NodeType
  <2> QED BY <1>1, <1>2, <1>8, <2>1, <2>2 DEF SetNodeConfig, boundVars
<1> QED BY <1>3, <1>4, <1>5, <1>6, <1>7, <1>8 DEF Serve

\* Serving a configuration takes one off what is to come and adds one at most
\* to the version.
LEMMA SetsStep ==
    ASSUME TypeOK, SetsInv, CallInv, AnswerInv, Next PROVE SetsInv'
<1>1. CASE /\ UNCHANGED <<node, sets>>
           /\ requests' \subseteq requests
  <2>1. ASSUME NEW n \in Nodes
        PROVE  node'[n].version + Cardinality(PendingSets(n)') <= sets'
    <3>1. /\ Cardinality(PendingSets(n)') \in Nat
          /\ Cardinality(PendingSets(n)') <= Cardinality(PendingSets(n))
      BY <1>1, PendingShrinks
    <3> DEFINE p == Cardinality(PendingSets(n))
               q == Cardinality(PendingSets(n)')
               v == node[n].version
    <3>2. p \in Nat /\ q \in Nat /\ q <= p /\ v \in Nat /\ sets \in Nat
          /\ v + p <= sets
      BY <3>1, PendingFacts
    <3> HIDE DEF p, q, v
    <3>3. v + q <= sets
      BY <3>2
    <3> QED BY <1>1, <3>3 DEF v, q
  <2>2. IsFiniteSet(requests')
    BY <1>1, FS_Subset DEF SetsInv
  <2> QED BY <2>1, <2>2 DEF SetsInv
<1>2. ASSUME NEW n \in Nodes, NEW k \in Kinds, Call(n, k) PROVE SetsInv'
  <2> DEFINE m == [node |-> n, call |-> calls[n] + 1, kind |-> k,
                   token |-> client[n].token, version |-> client[n].version,
                   data |-> 0]
  <2>1. requests' = requests \cup {m} /\ UNCHANGED <<node, sets>>
    BY <1>2 DEF Call, boundVars
  <2>2. m.kind # "set"
    BY DEF Kinds
  <2> HIDE DEF m
  <2>3. IsFiniteSet(requests')
    BY <2>1, FS_AddElement DEF SetsInv
  <2>4. \A c \in Nodes : PendingSets(c)' = PendingSets(c)
    BY <2>1, <2>2 DEF PendingSets
  <2> QED BY <2>1, <2>3, <2>4 DEF SetsInv
<1>3. ASSUME NEW n \in Nodes, SendConfig(n) PROVE SetsInv'
  <2> DEFINE m == [node |-> n, call |-> 0, kind |-> "set",
                   token |-> node[n].token, version |-> 0, data |-> sets + 1]
  <2>1. /\ requests' = requests \cup {m} /\ node' = node
        /\ sets' = sets + 1
    BY <1>3 DEF SendConfig
  <2> HIDE DEF m
  <2>2. IsFiniteSet(requests')
    BY <2>1, FS_AddElement DEF SetsInv
  <2>3. ASSUME NEW c \in Nodes
        PROVE  node'[c].version + Cardinality(PendingSets(c)') <= sets'
    <3> DEFINE p == Cardinality(PendingSets(c))
               q == Cardinality(PendingSets(c)')
               v == node[c].version
    <3>1. IsFiniteSet(PendingSets(c)) /\ p \in Nat /\ v \in Nat /\ sets \in Nat
          /\ v + p <= sets
      BY PendingFacts
    <3>2. PendingSets(c)' = PendingSets(c)
          \/ PendingSets(c)' = PendingSets(c) \cup {m}
      BY <2>1 DEF PendingSets
    <3>3. q = p \/ q = p + 1
      BY <3>1, <3>2, FS_AddElement
    <3> HIDE DEF p, q, v
    <3>4. v + q <= sets + 1
      BY <3>1, <3>3
    <3> QED BY <2>1, <3>4 DEF v, q
  <2> QED BY <2>2, <2>3 DEF SetsInv
<1>4. ASSUME NEW m \in requests, Serve(m) PROVE SetsInv'
  <2>1. /\ m.node \in Nodes
        /\ requests' = requests \ {m}
        /\ UNCHANGED sets
        /\ Handled(m)
    BY <1>4, ServeFacts
  <2>2. IsFiniteSet(requests')
    BY <2>1, PendingShrinks
  <2>3. ASSUME NEW c \in Nodes
        PROVE  node'[c].version + Cardinality(PendingSets(c)') <= sets'
    <3> DEFINE p == Cardinality(PendingSets(c))
               q == Cardinality(PendingSets(c)')
               v == node[c].version
               w == node'[c].version
    <3>1. p \in Nat /\ v \in Nat /\ sets \in Nat /\ v + p <= sets
          /\ q \in Nat /\ q <= p
      BY <2>1, PendingFacts, PendingShrinks
    <3>2. CASE m \in PendingSets(c)
      <4>1. PendingSets(c)' = PendingSets(c) \ {m}
        BY <2>1 DEF PendingSets
      <4>2. p = q + 1
        BY <3>2, <4>1, PendingFacts
      <4>3. w = v \/ w = v + 1
        BY <2>1, <3>2 DEF PendingSets, Handled
      <4> HIDE DEF p, q, v, w
      <4>4. w + q <= sets
        BY <3>1, <4>2, <4>3
      <4> QED BY <2>1, <4>4 DEF w, q
    <3>3. CASE m \notin PendingSets(c)
      <4>1. w = v \/ w = 0
        BY <2>1, <3>3 DEF PendingSets, Handled
      <4> HIDE DEF p, q, v, w
      <4>2. w + q <= sets
        BY <3>1, <4>1
      <4> QED BY <2>1, <4>2 DEF w, q
    <3> QED BY <3>2, <3>3
  <2> QED BY <2>2, <2>3 DEF SetsInv
<1>5. CASE Restart
  <2>1. requests' = {} /\ node' = [n \in Nodes |-> NoNode] /\ sets' = sets
    BY <1>5 DEF Restart
  <2>2. NoNode.version = 0 /\ sets \in Nat
    BY TypeFacts, Bounds DEF NoNode
  <2>3. ASSUME NEW c \in Nodes
        PROVE  node'[c].version + Cardinality(PendingSets(c)') <= sets'
    <3>1. PendingSets(c)' = {}
      BY <2>1 DEF PendingSets
    <3>2. Cardinality(PendingSets(c)') = 0
      BY <3>1, FS_EmptySet
    <3> QED BY <2>1, <2>2, <3>2
  <2> QED BY <2>1, <2>3, FS_EmptySet DEF SetsInv
<1>6. ASSUME NEW n \in Nodes, GiveUp(n) \/ ClientRestart(n)
      PROVE  UNCHANGED <<node, sets>> /\ requests' \subseteq requests
  BY <1>6, CallLostFacts DEF GiveUp, ClientRestart, boundVars
<1>7. ASSUME NEW r \in responses, Receive(r)
      PROVE  UNCHANGED <<node, sets>> /\ requests' \subseteq requests
  BY <1>7 DEF Receive, boundVars
<1> QED BY <1>1, <1>2, <1>3, <1>4, <1>5, <1>6, <1>7 DEF Next

\* A call takes the next number, and the numbers of a client never fall.
LEMMA CallStep == ASSUME TypeOK, CallInv, AnswerInv, Next PROVE CallInv'
<1>0. /\ requests \subseteq RequestType(tokens, sets)
      /\ calls \in [Nodes -> 0..MaxCalls]
  BY TypeFacts
<1>1. CASE calls' = calls /\ requests' \subseteq requests
  BY <1>1 DEF CallInv
<1>2. ASSUME NEW n \in Nodes, NEW k \in Kinds, Call(n, k) PROVE CallInv'
  <2> DEFINE m == [node |-> n, call |-> calls[n] + 1, kind |-> k,
                   token |-> client[n].token, version |-> client[n].version,
                   data |-> 0]
  <2>1. requests' = requests \cup {m} /\ calls' = [calls EXCEPT ![n] = @ + 1]
    BY <1>2 DEF Call
  <2>2. m.node = n /\ m.call = calls[n] + 1 /\ m.kind # "set"
    BY DEF Kinds
  <2> HIDE DEF m
  <2>3. \A q \in requests : q.node \in Nodes /\ q.call \in Nat
    BY <1>0 DEF RequestType
  <2>4. calls[n] \in Nat /\ calls'[n] = calls[n] + 1
        /\ \A c \in Nodes \ {n} : calls'[c] = calls[c]
    BY <1>0, <2>1
  <2>5. \A q \in requests : q.node = n => q.call < m.call
    BY <2>2, <2>3, <2>4 DEF CallInv
  <2>6. \A q \in requests' :
           /\ q.call <= calls'[q.node]
           /\ q.call = 0 <=> q.kind = "set"
    <3> SUFFICES ASSUME NEW q \in requests'
                 PROVE  /\ q.call <= calls'[q.node]
                        /\ q.call = 0 <=> q.kind = "set"
      OBVIOUS
    <3>1. CASE q = m
      BY <2>2, <2>4, <3>1
    <3>2. CASE q \in requests
      <4>1. q.call <= calls[q.node] /\ (q.call = 0 <=> q.kind = "set")
        BY <3>2 DEF CallInv
      <4>2. calls[q.node] \in Nat /\ calls[q.node] <= calls'[q.node]
            /\ calls'[q.node] \in Nat
        BY <1>0, <2>3, <2>4, <3>2
      <4> QED BY <2>3, <3>2, <4>1, <4>2
    <3> QED BY <2>1, <3>1, <3>2
  <2>7. \A q, p \in requests' :
           q.call # 0 /\ q.node = p.node /\ q.call = p.call => q = p
    BY <2>1, <2>2, <2>3, <2>5 DEF CallInv
  <2> QED BY <2>6, <2>7 DEF CallInv
<1>3. ASSUME NEW n \in Nodes, SendConfig(n) PROVE CallInv'
  <2> DEFINE m == [node |-> n, call |-> 0, kind |-> "set",
                   token |-> node[n].token, version |-> 0, data |-> sets + 1]
  <2>1. requests' = requests \cup {m} /\ calls' = calls
    BY <1>3 DEF SendConfig, clientVars
  <2>2. m.node = n /\ m.call = 0 /\ m.kind = "set"
    OBVIOUS
  <2> HIDE DEF m
  <2>3. calls[n] \in Nat
    BY <1>0
  <2> QED BY <2>1, <2>2, <2>3 DEF CallInv
<1>4. ASSUME NEW m \in requests, Serve(m)
      PROVE  calls' = calls /\ requests' \subseteq requests
  BY <1>4, ServeFacts
<1>5. ASSUME NEW n \in Nodes, GiveUp(n) \/ ClientRestart(n)
      PROVE  calls' = calls /\ requests' \subseteq requests
  BY <1>5, CallLostFacts DEF GiveUp, ClientRestart
<1>6. ASSUME NEW r \in responses, Receive(r)
      PROVE  calls' = calls /\ requests' \subseteq requests
  BY <1>6 DEF Receive
<1>7. CASE Restart
  BY <1>1, <1>7 DEF Restart, clientVars
<1> QED BY <1>1, <1>2, <1>3, <1>4, <1>5, <1>6, <1>7 DEF Next

\* A client waits for the one answer that is on its way.
LEMMA AnswerStep == ASSUME TypeOK, CallInv, AnswerInv, Next PROVE AnswerInv'
<1>0. /\ requests \subseteq RequestType(tokens, sets)
      /\ responses \subseteq ResponseType(tokens, sets)
      /\ calls \in [Nodes -> 0..MaxCalls]
      /\ cpc \in [Nodes -> Kinds \cup {"idle"}]
      /\ \A q, r \in responses : q.node = r.node => q = r
  BY TypeFacts
<1>r. \A r \in responses : r.node \in Nodes /\ r.kind \in Kinds
  BY <1>0 DEF ResponseType
<1>1. ASSUME NEW n \in Nodes, NEW k \in Kinds, Call(n, k) PROVE AnswerInv'
  <2>1. /\ cpc[n] = "idle" /\ responses' = responses
        /\ cpc' = [cpc EXCEPT ![n] = k] /\ calls' = [calls EXCEPT ![n] = @ + 1]
        /\ \A m \in requests' : m \in requests \/ m.node = n
    BY <1>1 DEF Call
  <2>2. \A r \in responses : r.node # n
    BY <1>r, <2>1 DEF AnswerInv, Kinds
  <2>3. \A c \in Nodes \ {n} : cpc'[c] = cpc[c] /\ calls'[c] = calls[c]
    BY <1>0, <2>1
  <2> QED BY <1>r, <2>1, <2>2, <2>3 DEF AnswerInv
<1>2. ASSUME NEW n \in Nodes, GiveUp(n) \/ ClientRestart(n) PROVE AnswerInv'
  <2>1. /\ cpc' = [cpc EXCEPT ![n] = "idle"] /\ calls' = calls
        /\ responses' \subseteq responses
        /\ \A r \in responses' : r.node # n
        /\ requests' \subseteq requests
    BY <1>2, CallLostFacts DEF GiveUp, ClientRestart
  <2>2. \A c \in Nodes \ {n} : cpc'[c] = cpc[c]
    BY <1>0, <2>1
  <2> QED BY <1>r, <2>1, <2>2 DEF AnswerInv
<1>3. ASSUME NEW n \in Nodes, SendConfig(n) PROVE AnswerInv'
  <2>1. /\ UNCHANGED <<cpc, calls, responses>>
        /\ \A m \in requests' : m \in requests \/ m.call = 0
    BY <1>3 DEF SendConfig, clientVars
  <2> QED BY <2>1 DEF AnswerInv
<1>4. ASSUME NEW q \in responses, Receive(q) PROVE AnswerInv'
  <2>1. /\ cpc' = [cpc EXCEPT ![q.node] = "idle"] /\ calls' = calls
        /\ requests' = requests /\ responses' = responses \ {q}
    BY <1>4 DEF Receive
  <2>2. \A r \in responses' : r.node # q.node
    BY <1>0, <1>4, <2>1
  <2>3. \A c \in Nodes \ {q.node} : cpc'[c] = cpc[c]
    BY <1>0, <2>1
  <2> QED BY <1>r, <2>1, <2>2, <2>3 DEF AnswerInv
<1>5. ASSUME NEW m \in requests, Serve(m) PROVE AnswerInv'
  <2>1. /\ requests' = requests \ {m} /\ UNCHANGED <<cpc, calls>>
    BY <1>5, ServeFacts
  <2>2. CASE responses' = responses
    BY <2>1, <2>2 DEF AnswerInv
  <2>3. ASSUME NEW r, responses' = responses \cup {r}, Told(m, r),
               cpc[m.node] = m.kind, calls[m.node] = m.call,
               \A k \in requests \ {m} : k.node = m.node => k.call # m.call
        PROVE  AnswerInv'
    <3>1. m.kind # "set"
      BY <1>0, <2>3, ServeFacts, <1>5 DEF Kinds
    <3>2. m.call # 0
      BY <3>1 DEF CallInv
    <3> QED BY <2>1, <2>3, <3>2 DEF AnswerInv, Told
  <2> QED BY <1>5, <2>2, <2>3, ServeFacts
<1>6. CASE Restart
  BY <1>6 DEF Restart, AnswerInv, clientVars
<1> QED BY <1>1, <1>2, <1>3, <1>4, <1>5, <1>6 DEF Next

\* A call changes its client's number and state, and adds its request.
LEMMA CallFacts ==
    ASSUME TypeOK, AnswerInv, NEW n \in Nodes, NEW k \in Kinds, Call(n, k)
    PROVE  /\ \A r \in responses : r.node # n
           /\ cpc[n] = "idle" /\ cpc'[n] = k
           /\ calls[n] \in Nat /\ calls'[n] = calls[n] + 1
           /\ registers'[n] = IF k = "register" THEN registers[n] + 1
                                                ELSE registers[n]
           /\ k # "register" => client[n].token # 0
           /\ \A m \in requests' :
                 \/ m \in requests
                 \/ /\ m.node = n /\ m.call = calls'[n] /\ m.kind = k
                    /\ m.version = client[n].version
           /\ \A c \in Nodes \ {n} :
                 UNCHANGED <<cpc[c], calls[c], registers[c]>>
           /\ UNCHANGED <<node, client, responses, abandoned, starts, restarts,
                          tokens>>
<1>0. /\ cpc \in [Nodes -> Kinds \cup {"idle"}]
      /\ calls \in [Nodes -> 0..MaxCalls]
      /\ registers \in [Nodes -> 0..MaxRegisters]
      /\ responses \subseteq ResponseType(tokens, sets)
  BY TypeFacts
<1>1. \A r \in responses : r.node \in Nodes /\ r.kind \in Kinds
  BY <1>0 DEF ResponseType
<1>2. \A r \in responses : r.node # n
  BY <1>1 DEF Call, AnswerInv, Kinds
<1>3. \A m \in requests' :
         \/ m \in requests
         \/ /\ m.node = n /\ m.call = calls'[n] /\ m.kind = k
            /\ m.version = client[n].version
  BY <1>0 DEF Call
<1> QED BY <1>0, <1>2, <1>3 DEF Call, boundVars

\* A call that is given up, or dies with its process, leaves no answer.
LEMMA LostFacts ==
    ASSUME TypeOK, NEW n \in Nodes, GiveUp(n) \/ ClientRestart(n)
    PROVE  /\ cpc'[n] = "idle"
           /\ abandoned'[n] = (abandoned[n] \/ cpc[n] = "register")
           /\ responses' \subseteq responses
           /\ \A r \in responses' : r.node # n
           /\ requests' \subseteq requests
           /\ \A c \in Nodes \ {n} :
                 UNCHANGED <<cpc[c], abandoned[c], client[c], registers[c],
                             starts[c]>>
           /\ UNCHANGED <<node, calls, restarts, tokens>>
           /\ \/ UNCHANGED <<client[n], registers[n], starts[n]>>
              \/ /\ client'[n] = NewClient /\ registers'[n] = 0
                 /\ starts'[n] # starts[n]
<1>0. /\ cpc \in [Nodes -> Kinds \cup {"idle"}]
      /\ client \in [Nodes -> ClientType(tokens, sets)]
      /\ registers \in [Nodes -> 0..MaxRegisters]
      /\ starts \in [Nodes -> 1..MaxStarts]
      /\ abandoned \in [Nodes -> BOOLEAN]
  BY TypeFacts
<1>1. CallLost(n) /\ UNCHANGED <<node, calls, restarts, tokens>>
  BY DEF GiveUp, ClientRestart, boundVars
<1>2. /\ cpc' = [cpc EXCEPT ![n] = "idle"]
      /\ abandoned' = [abandoned EXCEPT ![n] = @ \/ cpc[n] = "register"]
      /\ responses' \subseteq responses
      /\ \A r \in responses' : r.node # n
      /\ requests' \subseteq requests
  BY <1>1, CallLostFacts
<1>3. CASE UNCHANGED <<client, registers, starts>>
  BY <1>0, <1>1, <1>2, <1>3
<1>4. CASE /\ client' = [client EXCEPT ![n] = NewClient]
           /\ registers' = [registers EXCEPT ![n] = 0]
           /\ starts' = [starts EXCEPT ![n] = @ + 1]
  <2>1. starts[n] \in Nat /\ starts'[n] = starts[n] + 1
    BY <1>0, <1>4
  <2>2. starts'[n] # starts[n]
    BY <2>1
  <2> QED BY <1>0, <1>1, <1>2, <1>4, <2>2
<1> QED BY <1>3, <1>4 DEF GiveUp, ClientRestart

\* The answer a client waits for ends its call.
LEMMA ReceiveFacts ==
    ASSUME TypeOK, AnswerInv, NEW n \in Nodes, NEW q \in responses, Receive(q),
           q.node = n
    PROVE  /\ cpc'[n] = "idle" /\ cpc[n] = q.kind
           /\ client'[n] = Learned(client[n], q)
           /\ \A r \in responses' : r.node # n
           /\ responses' \subseteq responses
           /\ \A c \in Nodes \ {n} : UNCHANGED <<cpc[c], client[c]>>
           /\ UNCHANGED <<node, requests, calls, registers, abandoned, starts,
                          restarts, tokens>>
<1>0. /\ cpc \in [Nodes -> Kinds \cup {"idle"}]
      /\ client \in [Nodes -> ClientType(tokens, sets)]
      /\ \A p, r \in responses : p.node = r.node => p = r
  BY TypeFacts
<1>1. /\ responses' = responses \ {q}
      /\ client' = [client EXCEPT ![n] = Learned(@, q)]
      /\ cpc' = [cpc EXCEPT ![n] = "idle"]
      /\ UNCHANGED <<node, requests, calls, registers, abandoned, starts,
                     restarts, tokens>>
  BY DEF Receive, boundVars
<1>2. \A r \in responses' : r.node # n
  BY <1>0, <1>1
<1> QED BY <1>0, <1>1, <1>2 DEF AnswerInv

\* An administrator only adds a request.
LEMMA SendFacts ==
    ASSUME NEW n \in Nodes, SendConfig(n)
    PROVE  /\ \A m \in requests' :
                 m \in requests \/ (m.node = n /\ m.call = 0 /\ m.kind = "set")
           /\ UNCHANGED <<node, client, cpc, calls, responses, registers,
                          abandoned, starts, restarts, tokens>>
<1> DEFINE m == [node |-> n, call |-> 0, kind |-> "set",
                 token |-> node[n].token, version |-> 0, data |-> sets + 1]
<1>1. requests' = requests \cup {m}
  BY DEF SendConfig
<1>2. m.node = n /\ m.call = 0 /\ m.kind = "set"
  OBVIOUS
<1> HIDE DEF m
<1> QED BY <1>1, <1>2 DEF SendConfig, clientVars

\* The requests and answers on their way belong to nodes and have their kinds.
LEMMA MessageFacts ==
    ASSUME TypeOK
    PROVE  /\ \A m \in requests : /\ m.node \in Nodes /\ m.call \in Nat
                                  /\ m.kind \in Kinds \cup {"set"}
                                  /\ m.version \in Nat
           /\ \A r \in responses : /\ r.node \in Nodes /\ r.kind \in Kinds
                                   /\ r.version \in Nat
           /\ \A n \in Nodes : /\ cpc[n] \in Kinds \cup {"idle"}
                               /\ client[n].version \in Nat
                               /\ node[n].version \in Nat
                               /\ calls[n] \in Nat /\ registers[n] \in Nat
           /\ tokens \in Nat
<1>1. \A m \in requests : m \in RequestType(tokens, sets)
  BY TypeFacts
<1>2. \A r \in responses : r \in ResponseType(tokens, sets)
  BY TypeFacts
<1>3. \A n \in Nodes : client[n] \in ClientType(tokens, sets)
                       /\ node[n] \in NodeType(tokens, sets)
  BY TypeFacts
<1> QED BY <1>1, <1>2, <1>3, TypeFacts, Bounds DEF RequestType, ResponseType,
           ClientType, NodeType

\* The version a request carries is the client's until the call is over, so an
\* update is news when it arrives.
LEMMA VersionStep ==
    ASSUME TypeOK, CallInv, AnswerInv, VersionInv, Next PROVE VersionInv'
<1>0. \A c \in Nodes : cpc[c] # "set"
  BY MessageFacts DEF Kinds
<1>1. ASSUME NEW n \in Nodes, NEW k \in Kinds, Call(n, k) PROVE VersionInv'
  <2>1. ASSUME NEW m \in requests', m.call = calls'[m.node],
               m.kind = cpc'[m.node]
        PROVE  m.version = client'[m.node].version
    <3>1. CASE m \in requests
      <4>1. m.node # n
        BY <1>1, <2>1, <3>1, CallFacts, MessageFacts DEF CallInv
      <4> QED BY <1>1, <2>1, <3>1, <4>1, CallFacts, MessageFacts DEF VersionInv
    <3>2. CASE m \notin requests
      BY <1>1, <2>1, <3>2, CallFacts
    <3> QED BY <3>1, <3>2
  <2> QED BY <1>1, <2>1, CallFacts DEF VersionInv
<1>2. ASSUME NEW n \in Nodes, GiveUp(n) \/ ClientRestart(n) PROVE VersionInv'
  <2>1. ASSUME NEW m \in requests', m.call = calls'[m.node],
               m.kind = cpc'[m.node]
        PROVE  m.version = client'[m.node].version
    <3>1. m \in requests /\ m.node # n
      BY <1>2, <2>1, LostFacts, MessageFacts DEF Kinds
    <3> QED BY <1>2, <2>1, <3>1, LostFacts, MessageFacts DEF VersionInv
  <2>2. ASSUME NEW r \in responses', r.updated
        PROVE  r.version > client'[r.node].version
    BY <1>2, <2>2, LostFacts, MessageFacts DEF VersionInv
  <2> QED BY <2>1, <2>2 DEF VersionInv
<1>3. ASSUME NEW n \in Nodes, SendConfig(n) PROVE VersionInv'
  <2> QED BY <1>0, <1>3, SendFacts DEF VersionInv
<1>4. ASSUME NEW q \in responses, Receive(q) PROVE VersionInv'
  <2>0. q.node \in Nodes
    BY <1>4, MessageFacts
  <2>1. ASSUME NEW m \in requests', m.call = calls'[m.node],
               m.kind = cpc'[m.node]
        PROVE  m.version = client'[m.node].version
    <3>1. m \in requests /\ m.node # q.node
      BY <1>4, <2>0, <2>1, ReceiveFacts, MessageFacts DEF Kinds
    <3> QED BY <1>4, <2>0, <2>1, <3>1, ReceiveFacts, MessageFacts DEF VersionInv
  <2>2. ASSUME NEW r \in responses', r.updated
        PROVE  r.version > client'[r.node].version
    BY <1>4, <2>0, <2>2, ReceiveFacts, MessageFacts DEF VersionInv
  <2> QED BY <2>1, <2>2 DEF VersionInv
<1>5. ASSUME NEW m \in requests, Serve(m) PROVE VersionInv'
  <2>1. /\ requests' = requests \ {m} /\ UNCHANGED <<client, cpc, calls>>
    BY <1>5, ServeFacts
  <2>2. CASE responses' = responses
    BY <2>1, <2>2 DEF VersionInv
  <2>3. ASSUME NEW r, responses' = responses \cup {r}, Told(m, r),
               cpc[m.node] = m.kind, calls[m.node] = m.call
        PROVE  VersionInv'
    BY <1>5, <2>1, <2>3 DEF VersionInv, Told
  <2> QED BY <1>5, <2>2, <2>3, ServeFacts
<1>6. CASE Restart
  BY <1>6 DEF Restart, VersionInv, clientVars
<1> QED BY <1>1, <1>2, <1>3, <1>4, <1>5, <1>6 DEF Next

\* Only the Register a client waits for can change the token of a record, unless
\* one was given up.
LEMMA TokenStep ==
    ASSUME TypeOK, CallInv, AnswerInv, TokenInv, Next PROVE TokenInv'
<1>0. \A c \in Nodes : cpc[c] # "set" /\ "register" # "idle"
  BY MessageFacts DEF Kinds
<1> SUFFICES ASSUME NEW c \in Nodes, ~abandoned'[c]
             PROVE  /\ \A m \in requests' :
                          m.node = c /\ m.kind = "register" =>
                              cpc'[c] = "register" /\ m.call = calls'[c]
                    /\ \A r \in responses' :
                          r.node = c /\ r.kind = "register" =>
                              r.ok /\ r.token # 0 /\ node'[c].token \in {0, r.token}
                    /\ client'[c].token # 0 /\ cpc'[c] # "register"
                          /\ node'[c].token # 0 =>
                              node'[c].token = client'[c].token
  BY DEF TokenInv
<1> DEFINE Goal ==
              /\ \A m \in requests' :
                    m.node = c /\ m.kind = "register" =>
                        cpc'[c] = "register" /\ m.call = calls'[c]
              /\ \A r \in responses' :
                    r.node = c /\ r.kind = "register" =>
                        r.ok /\ r.token # 0 /\ node'[c].token \in {0, r.token}
              /\ client'[c].token # 0 /\ cpc'[c] # "register"
                    /\ node'[c].token # 0 =>
                        node'[c].token = client'[c].token
<1>i. ~abandoned[c] =>
        /\ \A m \in requests :
              m.node = c /\ m.kind = "register" =>
                  cpc[c] = "register" /\ m.call = calls[c]
        /\ \A r \in responses :
              r.node = c /\ r.kind = "register" =>
                  r.ok /\ r.token # 0 /\ node[c].token \in {0, r.token}
        /\ client[c].token # 0 /\ cpc[c] # "register" /\ node[c].token # 0 =>
              node[c].token = client[c].token
  BY DEF TokenInv
<1>1. ASSUME NEW n \in Nodes, NEW k \in Kinds, Call(n, k) PROVE Goal
  <2>1. CASE n = c
    BY <1>0, <1>i, <1>1, <2>1, CallFacts
  <2>2. CASE n # c
    BY <1>i, <1>1, <2>2, CallFacts
  <2> QED BY <2>1, <2>2
<1>2. ASSUME NEW n \in Nodes, GiveUp(n) \/ ClientRestart(n) PROVE Goal
  <2>1. CASE n = c
    <3>1. NewClient.token = 0
      BY DEF NewClient
    <3> QED BY <1>0, <1>i, <1>2, <2>1, <3>1, LostFacts
  <2>2. CASE n # c
    BY <1>i, <1>2, <2>2, LostFacts
  <2> QED BY <2>1, <2>2
<1>3. ASSUME NEW n \in Nodes, SendConfig(n) PROVE Goal
  BY <1>i, <1>3, SendFacts
<1>4. ASSUME NEW q \in responses, Receive(q) PROVE Goal
  <2>0. q.node \in Nodes
    BY <1>4, MessageFacts
  <2>1. CASE q.node = c
    <3>1. /\ cpc[c] = q.kind /\ cpc'[c] = "idle" /\ ~abandoned[c]
          /\ client'[c] = Learned(client[c], q)
          /\ \A r \in responses' : r.node # c
          /\ requests' = requests /\ calls' = calls /\ node' = node
      BY <1>4, <2>1, ReceiveFacts
    <3>2. \A m \in requests : m.node = c => m.kind # "register" \/ m.call = calls[c]
      BY <1>i, <3>1
    <3>3. \A m \in requests : ~(m.node = c /\ m.kind = "register")
      BY <1>4, <2>1, <3>2 DEF AnswerInv
    <3>4. client[c] \in ClientType(tokens, sets)
      BY TypeFacts
    <3>5. CASE q.kind = "register"
      <4>1. q.ok /\ node[c].token \in {0, q.token}
        BY <1>4, <1>i, <2>1, <3>1, <3>5
      <4>2. client'[c].token = q.token
        BY <3>1, <3>4, <3>5, <4>1 DEF Learned, ClientType
      <4> QED BY <3>1, <3>3, <4>1, <4>2
    <3>6. CASE q.kind # "register"
      <4>1. client'[c].token = client[c].token
        BY <3>1, <3>4, <3>6 DEF Learned, ClientType
      <4> QED BY <1>i, <3>1, <3>3, <3>6, <4>1
    <3> QED BY <3>5, <3>6
  <2>2. CASE q.node # c
    BY <1>i, <1>4, <2>0, <2>2, ReceiveFacts
  <2> QED BY <2>1, <2>2
<1>5. ASSUME NEW m \in requests, Serve(m) PROVE Goal
  <2>0. /\ requests' = requests \ {m}
        /\ UNCHANGED <<client, cpc, calls, abandoned>>
        /\ Handled(m) /\ m.node \in Nodes
    BY <1>5, ServeFacts
  <2>1. CASE m.node = c /\ m.kind = "register"
    <3>1. cpc[c] = "register" /\ m.call = calls[c] /\ ~abandoned[c]
      BY <1>5, <1>i, <2>0, <2>1
    <3>2. \A r \in responses : r.node # c
      BY <1>5, <2>1, <3>1 DEF AnswerInv
    <3>3. node'[c].token = tokens + 1 /\ tokens + 1 # 0
      BY <2>0, <2>1, MessageFacts DEF Handled
    <3>4. \A r \in responses' : r.node = c => r.ok /\ r.token = tokens + 1
      BY <1>5, <2>1, <3>2, ServeFacts DEF Told
    <3>5. \A k \in requests' :
             k.node = c /\ k.kind = "register" => k.call = calls[c]
      BY <1>i, <2>0
    <3> QED BY <2>0, <3>1, <3>3, <3>4, <3>5
  <2>2. CASE ~(m.node = c /\ m.kind = "register")
    <3>1. node'[c].token = node[c].token
      BY <2>0, <2>2 DEF Handled
    <3>2. \A r \in responses' :
             r.node = c /\ r.kind = "register" => r \in responses
      BY <1>5, <2>2, ServeFacts DEF Told
    <3> QED BY <1>i, <2>0, <3>1, <3>2
  <2> QED BY <2>1, <2>2
<1>6. CASE Restart
  <2>1. /\ requests' = {} /\ node'[c] = NoNode
        /\ UNCHANGED <<client, cpc, calls, abandoned, responses>>
    BY <1>6 DEF Restart, clientVars
  <2> QED BY <1>i, <2>1 DEF NoNode
<1> QED BY <1>1, <1>2, <1>3, <1>4, <1>5, <1>6 DEF Next

\* A process knows nothing until it has registered.
LEMMA NewClientStep ==
    ASSUME TypeOK, CallInv, AnswerInv, NewClientInv, Next PROVE NewClientInv'
<1>0. NewClient.token = 0 /\ "register" # "idle" /\ "register" # "stats"
  BY DEF NewClient
<1> SUFFICES ASSUME NEW c \in Nodes
             PROVE  /\ registers'[c] = 0 => cpc'[c] = "idle" /\ client'[c] = NewClient
                    /\ registers'[c] = 1 /\ cpc'[c] = "register" =>
                          client'[c] = NewClient
  BY DEF NewClientInv
<1> DEFINE Goal ==
              /\ registers'[c] = 0 => cpc'[c] = "idle" /\ client'[c] = NewClient
              /\ registers'[c] = 1 /\ cpc'[c] = "register" =>
                    client'[c] = NewClient
<1>i. /\ registers[c] = 0 => cpc[c] = "idle" /\ client[c] = NewClient
      /\ registers[c] = 1 /\ cpc[c] = "register" => client[c] = NewClient
      /\ registers[c] \in Nat
  BY MessageFacts DEF NewClientInv
<1>1. ASSUME NEW n \in Nodes, NEW k \in Kinds, Call(n, k) PROVE Goal
  <2>1. CASE n = c /\ k = "register"
    <3>1. registers'[c] = registers[c] + 1 /\ client' = client
      BY <1>1, <2>1, CallFacts
    <3> QED BY <1>i, <3>1
  <2>2. CASE n = c /\ k # "register"
    <3>1. registers'[c] = registers[c] /\ client' = client /\ cpc'[c] = k
          /\ client[c].token # 0
      BY <1>1, <2>2, CallFacts
    <3> QED BY <1>0, <1>i, <2>2, <3>1
  <2>3. CASE n # c
    BY <1>i, <1>1, <2>3, CallFacts
  <2> QED BY <2>1, <2>2, <2>3
<1>2. ASSUME NEW n \in Nodes, GiveUp(n) \/ ClientRestart(n) PROVE Goal
  BY <1>0, <1>i, <1>2, LostFacts
<1>3. ASSUME NEW n \in Nodes, SendConfig(n) PROVE Goal
  BY <1>i, <1>3, SendFacts
<1>4. ASSUME NEW q \in responses, Receive(q) PROVE Goal
  <2>0. q.node \in Nodes /\ q.kind \in Kinds
    BY <1>4, MessageFacts
  <2>1. CASE q.node = c
    <3>1. cpc[c] = q.kind /\ cpc'[c] = "idle" /\ registers' = registers
      BY <1>4, <2>1, ReceiveFacts
    <3> QED BY <1>0, <1>i, <2>0, <3>1 DEF Kinds
  <2>2. CASE q.node # c
    BY <1>i, <1>4, <2>0, <2>2, ReceiveFacts
  <2> QED BY <2>1, <2>2
<1>5. ASSUME NEW m \in requests, Serve(m) PROVE Goal
  BY <1>i, <1>5, ServeFacts
<1>6. CASE Restart
  BY <1>i, <1>6 DEF Restart, clientVars
<1> QED BY <1>1, <1>2, <1>3, <1>4, <1>5, <1>6 DEF Next

\* What is known, on both sides, of the configuration of c.
InStep(c) ==
    /\ client[c].version <= node[c].version
    /\ 0 < client[c].version /\ client[c].version = node[c].version =>
          client[c].data = node[c].data
    /\ \A r \in responses : r.node = c /\ r.updated =>
          /\ r.version <= node[c].version
          /\ r.version = node[c].version => r.data = node[c].data

\* An update gives the client what the record had when it was served, and each
\* configuration set after that has a higher version.
LEMMA DataStep ==
    ASSUME TypeOK, CallInv, AnswerInv, TokenInv, NewClientInv, DataInv, Next
    PROVE  DataInv'
<1> SUFFICES ASSUME NEW c \in Nodes, OneRecord(c)' PROVE InStep(c)'
  BY DEF DataInv, InStep
<1>i. OneRecord(c) => InStep(c)
  BY DEF DataInv, InStep
<1>t. /\ client[c].version \in Nat /\ node[c].version \in Nat
      /\ registers[c] \in Nat
      /\ \A r \in responses : r.version \in Nat
      /\ NewClient.version = 0
  BY MessageFacts DEF NewClient
<1>1. ASSUME NEW n \in Nodes, NEW k \in Kinds, Call(n, k) PROVE InStep(c)'
  <2>1. CASE n = c
    <3>1. OneRecord(c)
      BY <1>1, <1>t, <2>1, CallFacts DEF OneRecord
    <3> QED BY <1>1, <1>i, <2>1, <3>1, CallFacts DEF InStep
  <2>2. CASE n # c
    BY <1>1, <1>i, <2>2, CallFacts DEF InStep, OneRecord
  <2> QED BY <2>1, <2>2
<1>2. ASSUME NEW n \in Nodes, GiveUp(n) \/ ClientRestart(n) PROVE InStep(c)'
  <2>1. CASE n # c
    BY <1>2, <1>i, <2>1, LostFacts DEF InStep, OneRecord
  <2>2. CASE n = c /\ UNCHANGED <<client[c], registers[c]>>
    BY <1>2, <1>i, <2>2, LostFacts DEF InStep, OneRecord
  <2>3. CASE n = c /\ client'[c] = NewClient
    BY <1>2, <1>t, <2>3, LostFacts DEF InStep
  <2> QED BY <1>2, <2>1, <2>2, <2>3, LostFacts
<1>3. ASSUME NEW n \in Nodes, SendConfig(n) PROVE InStep(c)'
  BY <1>3, <1>i, SendFacts DEF InStep, OneRecord
<1>4. ASSUME NEW q \in responses, Receive(q) PROVE InStep(c)'
  <2>0. q.node \in Nodes /\ OneRecord(c)
    BY <1>4, MessageFacts, ReceiveFacts DEF OneRecord
  <2>1. CASE q.node # c
    BY <1>4, <1>i, <2>0, <2>1, ReceiveFacts DEF InStep
  <2>2. CASE q.node = c
    <3>1. /\ client'[c] = Learned(client[c], q)
          /\ \A r \in responses' : r.node # c
          /\ node' = node
          /\ client[c] \in ClientType(tokens, sets)
      BY <1>4, <2>2, ReceiveFacts, TypeFacts
    <3>2. CASE q.kind = "config" /\ q.updated
      <4>1. client'[c].version = q.version /\ client'[c].data = q.data
        BY <3>1, <3>2 DEF Learned, ClientType
      <4> QED BY <1>4, <1>i, <2>0, <2>2, <3>1, <3>2, <4>1 DEF InStep
    <3>3. CASE ~(q.kind = "config" /\ q.updated)
      <4>1. client'[c].version = client[c].version
            /\ client'[c].data = client[c].data
        BY <3>1, <3>3 DEF Learned, ClientType
      <4> QED BY <1>i, <2>0, <3>1, <4>1 DEF InStep
    <3> QED BY <3>2, <3>3
  <2> QED BY <2>1, <2>2
<1>5. ASSUME NEW m \in requests, Serve(m) PROVE InStep(c)'
  <2>0. /\ UNCHANGED <<client, cpc, calls, registers, abandoned, restarts>>
        /\ Handled(m) /\ m.node \in Nodes
        /\ \A r \in responses' : r \in responses \/ Told(m, r)
    BY <1>5, ServeFacts
  <2>1. InStep(c) /\ ~abandoned[c]
    BY <1>i, <2>0 DEF OneRecord
  <2>2. CASE m.node # c
    BY <2>0, <2>1, <2>2 DEF InStep, Handled, Told
  <2>3. CASE m.node = c /\ m.kind = "register"
    <3>1. cpc[c] = "register" /\ m.call = calls[c]
      BY <1>5, <2>1, <2>3 DEF TokenInv
    <3>2. registers[c] = 1
      BY <1>t, <2>0, <3>1 DEF NewClientInv, OneRecord
    <3>3. client[c].version = 0 /\ node'[c].version = 0
      BY <1>t, <2>0, <2>3, <3>1, <3>2 DEF NewClientInv, Handled
    <3>4. \A r \in responses : r.node # c
      BY <1>5, <2>3, <3>1 DEF AnswerInv
    <3> QED BY <2>0, <2>3, <3>3, <3>4 DEF InStep, Told
  <2>4. CASE m.node = c /\ m.kind = "set"
    <3>1. \A r \in responses' : r.node = c /\ r.updated => r \in responses
      BY <2>0, <2>4 DEF Told
    <3>2. \/ node'[c].version = node[c].version /\ node'[c].data = node[c].data
          \/ node'[c].version = node[c].version + 1
      BY <2>0, <2>4 DEF Handled
    <3> QED BY <1>t, <2>0, <2>1, <3>1, <3>2 DEF InStep
  <2>5. CASE m.node = c /\ m.kind \notin {"set", "register"}
    <3>1. node'[c].version = node[c].version /\ node'[c].data = node[c].data
      BY <2>0, <2>5 DEF Handled
    <3> QED BY <1>t, <2>0, <2>1, <2>5, <3>1 DEF InStep, Told
  <2> QED BY <2>2, <2>3, <2>4, <2>5
<1>6. CASE Restart
  <2>1. restarts \in Nat /\ restarts' = restarts + 1
    BY <1>6, TypeFacts DEF Restart
  <2> QED BY <2>1 DEF OneRecord
<1> QED BY <1>1, <1>2, <1>3, <1>4, <1>5, <1>6 DEF Next

----------------------------------------------------------------------------
\* Nothing has happened yet.
LEMMA InitIInv == Init => IInv
<1> SUFFICES ASSUME Init PROVE IInv
  OBVIOUS
<1>1. TypeOK
  <2>1. NoNode \in NodeType(0, 0) /\ NewClient \in ClientType(0, 0)
    BY Bounds DEF NoNode, NewClient, NodeType, ClientType
  <2>2. /\ node \in [Nodes -> NodeType(0, 0)]
        /\ client \in [Nodes -> ClientType(0, 0)]
        /\ tokens = 0 /\ sets = 0
    BY <2>1 DEF Init
  <2> QED BY <2>2, Bounds DEF Init, TypeOK, NodeType, ClientType
<1>2. SetsInv
  <2>1. NoNode.version = 0
    BY DEF NoNode
  <2>2. \A n \in Nodes : PendingSets(n) = {}
    BY DEF Init, PendingSets
  <2> QED BY <2>1, <2>2, FS_EmptySet DEF Init, SetsInv
<1>3. CallInv /\ AnswerInv /\ VersionInv
  BY DEF Init, CallInv, AnswerInv, VersionInv
<1>4. TokenInv /\ NewClientInv
  BY DEF Init, TokenInv, NewClientInv, NoNode, NewClient
<1>5. DataInv
  BY DEF Init, DataInv, NoNode, NewClient
<1> QED BY <1>1, <1>2, <1>3, <1>4, <1>5 DEF IInv

\* Every step keeps the invariant.
LEMMA NextIInv == IInv /\ [Next]_vars => IInv'
<1> SUFFICES ASSUME IInv, [Next]_vars PROVE IInv'
  OBVIOUS
<1>1. CASE Next
  BY <1>1, TypeStep, SetsStep, CallStep, AnswerStep, VersionStep, TokenStep,
     NewClientStep, DataStep DEF IInv
<1>2. CASE UNCHANGED vars
  <2>1. TypeOK'
    BY <1>2 DEF vars, IInv, TypeOK
  <2>2. SetsInv' /\ CallInv'
    BY <1>2 DEF vars, IInv, SetsInv, PendingSets, CallInv
  <2>3. AnswerInv' /\ VersionInv' /\ TokenInv'
    BY <1>2 DEF vars, IInv, AnswerInv, VersionInv, TokenInv
  <2>4. NewClientInv' /\ DataInv'
    BY <1>2 DEF vars, IInv, NewClientInv, DataInv, OneRecord
  <2> QED BY <2>1, <2>2, <2>3, <2>4 DEF IInv
<1> QED BY <1>1, <1>2

\* The inductive invariant holds in every reachable state.
THEOREM Invariance == Spec => []IInv
  BY InitIInv, NextIInv, PTL DEF Spec

\* The token a client was given last is the one the server knows, whatever is
\* lost or late, unless a Register was given up: then the record that a late
\* Register writes has a token nobody was told.
THEOREM Accepted == Spec => []RegisteredIsAccepted
<1>1. IInv => RegisteredIsAccepted
  BY DEF IInv, TokenInv, RegisteredIsAccepted
<1> QED BY <1>1, Invariance, PTL

\* A client that is told there is nothing newer has the server's data, as long
\* as both speak of the same record.
THEOREM NothingMissed == Spec => []UpToDate
<1>1. ASSUME IInv, NEW n \in Nodes, registers[n] = 1, ~abandoned[n],
             restarts = 0, 0 < node[n].version,
             node[n].version <= client[n].version
      PROVE  client[n].data = node[n].data
  <2>1. TypeOK /\ OneRecord(n)
    BY <1>1 DEF IInv, OneRecord
  <2>2. client[n].version <= node[n].version
    BY <1>1, <2>1 DEF IInv, DataInv
  <2>3. client[n].version = node[n].version /\ 0 < client[n].version
    BY <1>1, <2>1, <2>2, MessageFacts
  <2> QED BY <1>1, <2>1, <2>3 DEF IInv, DataInv
<1>2. IInv => UpToDate
  BY <1>1 DEF UpToDate
<1> QED BY <1>2, Invariance, PTL

\* The version a client process holds never falls: a late answer belongs to no
\* call any more, and an update is newer than the version its request named.
THEOREM Monotone == Spec => VersionNeverFalls
<1> DEFINE Keeps ==
        \A n \in Nodes :
            starts'[n] = starts[n] => client'[n].version >= client[n].version
<1>1. ASSUME IInv, Next PROVE Keeps
  <2> SUFFICES ASSUME NEW n \in Nodes, starts'[n] = starts[n]
               PROVE  client'[n].version >= client[n].version
    OBVIOUS
  <2>0. TypeOK /\ CallInv /\ AnswerInv /\ VersionInv
    BY <1>1 DEF IInv
  <2>1. client[n].version \in Nat
    BY <2>0, MessageFacts
  <2>2. CASE client'[n] = client[n]
    BY <2>1, <2>2
  <2>3. ASSUME NEW c \in Nodes, GiveUp(c) \/ ClientRestart(c)
        PROVE  client'[n] = client[n]
    BY <2>0, <2>3, LostFacts
  <2>4. ASSUME NEW q \in responses, Receive(q)
        PROVE  client'[n].version >= client[n].version
    <3>1. q.node \in Nodes /\ q.version \in Nat
      BY <2>0, <2>4, MessageFacts
    <3>2. CASE q.node # n
      BY <2>0, <2>2, <2>4, <3>1, <3>2, ReceiveFacts
    <3>3. CASE q.node = n
      <4>1. client'[n] = Learned(client[n], q)
            /\ client[n] \in ClientType(tokens, sets)
        BY <2>0, <2>4, <3>3, ReceiveFacts, TypeFacts
      <4>2. CASE q.kind = "config" /\ q.updated
        <5>1. client'[n].version = q.version
          BY <4>1, <4>2 DEF Learned, ClientType
        <5> QED BY <2>0, <2>1, <2>4, <3>1, <3>3, <4>2, <5>1 DEF VersionInv
      <4>3. CASE ~(q.kind = "config" /\ q.updated)
        <5>1. client'[n].version = client[n].version
          BY <4>1, <4>3 DEF Learned, ClientType
        <5> QED BY <2>1, <5>1
      <4> QED BY <4>2, <4>3
    <3> QED BY <3>2, <3>3
  <2>5. ASSUME NEW m \in requests, Serve(m) PROVE client'[n] = client[n]
    BY <2>0, <2>5, ServeFacts
  <2>6. ASSUME NEW c \in Nodes, NEW k \in Kinds, Call(c, k)
        PROVE  client'[n] = client[n]
    BY <2>6 DEF Call
  <2>7. ASSUME NEW c \in Nodes, SendConfig(c) PROVE client'[n] = client[n]
    BY <2>7, SendFacts
  <2>8. CASE Restart
    BY <2>2, <2>8 DEF Restart, clientVars
  <2> QED BY <1>1, <2>2, <2>3, <2>4, <2>5, <2>6, <2>7, <2>8 DEF Next
<1>2. IInv /\ [Next]_vars => [Keeps]_vars
  BY <1>1
<1> QED BY <1>2, Invariance, PTL DEF Spec, VersionNeverFalls
=============================================================================
