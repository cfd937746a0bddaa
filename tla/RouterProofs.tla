---------------------------- MODULE RouterProofs ----------------------------
(***************************************************************************)
(* The inductive invariant of Router and what follows from it, for any     *)
(* number of callers and sessions and any configurations.                  *)
(***************************************************************************)
EXTENDS Router, FiniteSetTheorems, SequenceTheorems, WellFoundedInduction, TLAPS

\* A caller that takes its turn has chosen a group with members, and that group
\* has a counter once the caller has looked for it.
TurnInv ==
    \A c \in Callers : cpc[c] # "idle" =>
        /\ call[c].group \in Groups
        /\ groups[call[c].group] # << >>
        /\ cpc[c] = "add" => counterOf[call[c].group] # "none"

Busy == {c \in Callers : cpc[c] # "idle"}

\* Every turn taken or being taken is one of the calls begun.
CountInv ==
    /\ IsFiniteSet(Busy)
    /\ Cardinality(Busy) <= routes
    /\ \A g \in Groups, c \in Callers : counter[g][c] + Cardinality(Busy) <= routes
    /\ \A o \in AllOutbounds : picks[o] + Cardinality(Busy) <= routes

Changed == Replaced(config.outbounds, target.outbounds)

\* What todo may hold and which outbounds are registered at each step.
TodoInv ==
    /\ apc = "init" => todo \subseteq config.outbounds
    /\ apc = "removed" => todo \subseteq Names(config.outbounds) \ Names(target.outbounds)
    /\ apc = "replaced" => todo \subseteq Changed
    /\ apc = "add" => todo \subseteq target.outbounds

RegisteredInv ==
    /\ apc \in {"stopped", "init"} => outbounds \subseteq config.outbounds
    /\ apc = "init" => config.outbounds \ todo \subseteq outbounds
    /\ apc = "running" => outbounds = config.outbounds
    /\ apc = "removed" => outbounds =
          {o \in config.outbounds : o.name \in Names(target.outbounds) \cup todo}
    /\ apc = "replaced" => outbounds =
          {o \in config.outbounds : /\ o.name \in Names(target.outbounds)
                                    /\ o.name \notin Changed \ todo}
    /\ apc = "add" => outbounds = target.outbounds \ todo

RulesInv ==
    apc \in {"running", "removed", "replaced", "add"} => rules = config.rules

\* The first Start finds an empty router and registers each outbound once.
FreshInv ==
    /\ apc = "init" => starts # 0
    /\ starts <= 1 =>
        /\ apc = "stopped" /\ starts = 0 => outbounds = {}
        /\ apc = "init" => outbounds = config.outbounds \ todo

Matched(g) == ToSet(groups[g]) = {o \in outbounds : o.group = g} /\ IsInjective(groups[g])

\* However often Start registered it, an outbound is in the list of its group.
ListedInv == \A g \in Groups : {o \in outbounds : o.group = g} \subseteq ToSet(groups[g])

MatchInv == starts <= 1 => \A g \in Groups : Matched(g)

\* The callers that ever advanced a counter of their own for the group.
Counters(g) == {c \in Callers : counter[g][c] > 0}

\* Whether the place j, counted from 0, comes after b and not after e, going round.
Within(j, b, e) == IF b <= e THEN b < j /\ j <= e ELSE b < j \/ j <= e

\* Whoever is at a place of s has been chosen q times, and once more if the turn
\* that began after b and is now at k's place has reached it.
Shares(s, k, chosen) ==
    \E q \in Nat, b \in 0..(Len(s) - 1) : \A j \in 0..(Len(s) - 1) :
        chosen[s[j + 1]] = q + (IF Within(j, b, k % Len(s)) THEN 1 ELSE 0)

\* While one counter alone counts for a group, its members take turns.
FairInv ==
    /\ \A g \in Groups : IsFiniteSet(Counters(g))
    /\ starts <= 1 => \A g \in Groups : groups[g] # << >> =>
          /\ \A w \in Callers : (\A c \in Callers \ {w} : counter[g][c] = 0) =>
                Shares(groups[g], counter[g][w], picks)
          /\ Callers = {} => \A o \in AllOutbounds : picks[o] = 0

IInv ==
    /\ TypeOK
    /\ TurnInv
    /\ CountInv
    /\ TodoInv
    /\ RegisteredInv
    /\ RulesInv
    /\ FreshInv
    /\ ListedInv
    /\ MatchInv
    /\ FairInv

----------------------------------------------------------------------------
(* Sequences, sets and numbers *)

\* Append puts one element at the end and keeps the others.
LEMMA AppendFacts ==
    ASSUME NEW S, NEW s \in Seq(S), NEW e \in S
    PROVE  /\ Append(s, e) \in Seq(S)
           /\ Append(s, e) # << >>
           /\ ToSet(Append(s, e)) = ToSet(s) \cup {e}
           /\ IsInjective(s) /\ e \notin ToSet(s) => IsInjective(Append(s, e))
<1> DEFINE t == Append(s, e)
<1>1. /\ t \in Seq(S)
      /\ t # << >>
      /\ Len(t) = Len(s) + 1
      /\ \A i \in 1..Len(s) : t[i] = s[i]
      /\ t[Len(s) + 1] = e
  BY AppendProperties
<1>2. /\ Len(s) \in Nat
      /\ DOMAIN s = 1..Len(s)
      /\ DOMAIN t = 1..(Len(s) + 1)
  BY <1>1
<1> HIDE DEF t
<1>3. ToSet(t) = ToSet(s) \cup {e}
  BY <1>1, <1>2 DEF ToSet
<1>4. IsInjective(s) /\ e \notin ToSet(s) => IsInjective(t)
  BY <1>1, <1>2 DEF IsInjective, ToSet
<1> QED BY <1>1, <1>3, <1>4 DEF t

\* RemoveAt takes the element at one place out and keeps the order of the rest.
LEMMA RemoveFacts ==
    ASSUME NEW S, NEW s \in Seq(S), NEW i \in DOMAIN s
    PROVE  /\ RemoveAt(s, i) \in Seq(S)
           /\ ToSet(s) \ {s[i]} \subseteq ToSet(RemoveAt(s, i))
           /\ IsInjective(s) => /\ ToSet(RemoveAt(s, i)) = ToSet(s) \ {s[i]}
                                /\ IsInjective(RemoveAt(s, i))
<1> DEFINE n == Len(s)
           a == SubSeq(s, 1, i - 1)
           b == SubSeq(s, i + 1, n)
           t == a \o b
<1>1. /\ n \in Nat
      /\ DOMAIN s = 1..n
      /\ i \in 1..n
      /\ \A j \in 1..n : s[j] \in S
  OBVIOUS
<1> HIDE DEF n
<1>2. /\ a \in Seq(S)
      /\ Len(a) = i - 1
      /\ \A j \in 1..(i - 1) : a[j] = s[j]
  <2>1. 1 \in Int /\ i - 1 \in Int /\ \A j \in 1..(i - 1) : s[j] \in S
    BY <1>1
  <2>2. /\ a \in Seq(S)
        /\ Len(a) = IF 1 <= i - 1 THEN i - 1 - 1 + 1 ELSE 0
        /\ \A j \in 1..(i - 1 - 1 + 1) : a[j] = s[1 + j - 1]
    BY <2>1, SubSeqProperties
  <2> HIDE DEF a
  <2> QED BY <1>1, <2>2
<1>3. /\ b \in Seq(S)
      /\ Len(b) = n - i
      /\ \A j \in 1..(n - i) : b[j] = s[i + j]
  <2>1. i + 1 \in Int /\ n \in Int /\ \A j \in (i + 1)..n : s[j] \in S
    BY <1>1
  <2>2. /\ b \in Seq(S)
        /\ Len(b) = IF i + 1 <= n THEN n - (i + 1) + 1 ELSE 0
        /\ \A j \in 1..(n - (i + 1) + 1) : b[j] = s[i + 1 + j - 1]
    BY <2>1, SubSeqProperties
  <2> HIDE DEF b
  <2>3. IF i + 1 <= n THEN n - (i + 1) + 1 = n - i ELSE 0 = n - i
    BY <1>1
  <2>4. n - (i + 1) + 1 = n - i
    BY <1>1
  <2>5. \A j \in 1..(n - i) : i + 1 + j - 1 = i + j
    BY <1>1
  <2> QED BY <2>2, <2>3, <2>4, <2>5
<1> HIDE DEF a, b
<1>4. /\ t \in Seq(S)
      /\ Len(t) = n - 1
      /\ \A j \in 1..(n - 1) : t[j] = IF j < i THEN s[j] ELSE s[j + 1]
  <2>1. /\ t \in Seq(S)
        /\ Len(t) = Len(a) + Len(b)
        /\ \A j \in 1..(Len(a) + Len(b)) :
              t[j] = IF j <= Len(a) THEN a[j] ELSE b[j - Len(a)]
    BY <1>2, <1>3, ConcatProperties
  <2> HIDE DEF t
  <2>2. SUFFICES ASSUME NEW j \in 1..(n - 1)
                 PROVE  t[j] = IF j < i THEN s[j] ELSE s[j + 1]
    BY <1>1, <1>2, <1>3, <2>1
  <2>3. CASE j < i
    BY <1>1, <1>2, <1>3, <2>1, <2>3
  <2>4. CASE ~ (j < i)
    <3>1. j - (i - 1) \in 1..(n - i) /\ i + (j - (i - 1)) = j + 1
      BY <1>1, <2>4
    <3>2. t[j] = b[j - (i - 1)]
      BY <1>1, <1>2, <1>3, <2>1, <2>4
    <3>3. b[j - (i - 1)] = s[i + (j - (i - 1))]
      BY <1>3, <3>1
    <3> QED BY <2>4, <3>1, <3>2, <3>3
  <2> QED BY <2>3, <2>4
<1> HIDE DEF t
<1>5. DOMAIN t = 1..(n - 1)
  BY <1>1, <1>4
<1>6. ToSet(s) \ {s[i]} \subseteq ToSet(t)
  <2> SUFFICES ASSUME NEW j \in 1..n, s[j] # s[i] PROVE s[j] \in ToSet(t)
    BY <1>1 DEF ToSet
  <2>1. CASE j < i
    BY <1>1, <1>4, <1>5, <2>1 DEF ToSet
  <2>2. CASE ~ (j < i)
    <3>1. j - 1 \in 1..(n - 1) /\ ~ (j - 1 < i) /\ (j - 1) + 1 = j
      BY <1>1, <2>2
    <3> QED BY <1>4, <1>5, <3>1 DEF ToSet
  <2> QED BY <2>1, <2>2
<1>7. ASSUME IsInjective(s)
      PROVE  ToSet(t) = ToSet(s) \ {s[i]} /\ IsInjective(t)
  <2>0. \A j, k \in 1..n : s[j] = s[k] => j = k
    BY <1>1, <1>7 DEF IsInjective
  <2>1. \A j \in 1..(n - 1) : t[j] \in ToSet(s) \ {s[i]}
    <3> SUFFICES ASSUME NEW j \in 1..(n - 1) PROVE t[j] \in ToSet(s) \ {s[i]}
      OBVIOUS
    <3>1. PICK k \in 1..n : t[j] = s[k] /\ k # i
      BY <1>1, <1>4
    <3> QED BY <1>1, <2>0, <3>1 DEF ToSet
  <2>2. \A j, k \in 1..(n - 1) : t[j] = t[k] => j = k
    <3> SUFFICES ASSUME NEW j \in 1..(n - 1), NEW k \in 1..(n - 1), t[j] = t[k]
                 PROVE  j = k
      OBVIOUS
    <3> DEFINE At(l) == IF l < i THEN l ELSE l + 1
    <3>1. At(j) \in 1..n /\ At(k) \in 1..n
      BY <1>1
    <3>2. t[j] = s[At(j)] /\ t[k] = s[At(k)]
      BY <1>4
    <3>3. At(j) = At(k)
      BY <2>0, <3>1, <3>2
    <3> QED BY <1>1, <3>3
  <2>3. ToSet(t) \subseteq ToSet(s) \ {s[i]}
    BY <1>5, <2>1 DEF ToSet
  <2> QED BY <1>5, <1>6, <2>2, <2>3 DEF IsInjective
<1> QED BY <1>4, <1>6, <1>7 DEF t, a, b, n, RemoveAt

\* A set of numbers has a first one.
LEMMA FirstFacts ==
    ASSUME NEW S \in SUBSET Nat, S # {}
    PROVE  FirstOf(S) \in S
<1>1. \E i \in S : \A j \in S : ~ (<<j, i>> \in OpToRel(<, Nat))
  BY NatLessThanWellFounded, WFMin
<1>2. \A i, j \in Nat : ~ (<<j, i>> \in OpToRel(<, Nat)) => i <= j
  BY DEF OpToRel
<1>3. \E i \in S : \A j \in S : i <= j
  BY <1>1, <1>2
<1> QED BY <1>3 DEF FirstOf

\* The quotient and the remainder are unique ...
LEMMA Remainder ==
    ASSUME NEW k \in Nat, NEW n \in Nat, n > 0, NEW q \in Nat, NEW r \in 0..(n - 1),
           k = (n * q) + r
    PROVE  k % n = r
OBVIOUS

LEMMA Quotient ==
    ASSUME NEW k \in Nat, NEW n \in Nat, n > 0
    PROVE  \E q \in Nat : k = (n * q) + (k % n)
OBVIOUS

\* ... so the next number has the next remainder.
Turns(k, n) ==
    /\ (k % n) \in 0..(n - 1)
    /\ (k + 1) % n = IF (k % n) + 1 = n THEN 0 ELSE (k % n) + 1

LEMMA NextRemainder ==
    ASSUME NEW k \in Nat, NEW n \in Nat, n > 0
    PROVE  Turns(k, n)
<1> SUFFICES ASSUME NEW r, r = k % n
             PROVE  /\ r \in 0..(n - 1)
                    /\ (k + 1) % n = IF r + 1 = n THEN 0 ELSE r + 1
  BY DEF Turns
<1>1. r \in 0..(n - 1)
  OBVIOUS
<1>2. PICK q \in Nat : k = (n * q) + r
  BY Quotient
<1> DEFINE m == (k + 1) % n
<1>3. ASSUME NEW p \in Nat, NEW s \in 0..(n - 1), k + 1 = (n * p) + s
      PROVE  m = s
  <2>1. k + 1 \in Nat
    OBVIOUS
  <2> QED BY <1>3, <2>1, Remainder
<1> HIDE DEF m
<1>4. r + 1 = n => k + 1 = (n * (q + 1)) + 0
  BY <1>2
<1>5. k + 1 = (n * q) + (r + 1)
  BY <1>1, <1>2
<1>6. CASE r + 1 = n
  <2>1. 0 \in 0..(n - 1) /\ q + 1 \in Nat
    OBVIOUS
  <2>2. m = 0
    BY <1>3, <1>4, <1>6, <2>1
  <2> QED BY <1>1, <1>6, <2>2 DEF m
<1>7. CASE r + 1 # n
  <2>1. r + 1 \in 0..(n - 1)
    BY <1>1, <1>7
  <2>2. m = r + 1
    BY <1>3, <1>5, <2>1
  <2> QED BY <1>1, <1>7, <2>2 DEF m
<1> QED BY <1>6, <1>7

----------------------------------------------------------------------------
(* What the operations do *)

\* A rule that decides is a rule, and its group is a group.
LEMMA RuleFacts ==
    ASSUME TypeOK, NEW s, Deciding(rules, s, outbounds) # {}
    PROVE  LET rule == rules[FirstOf(Deciding(rules, s, outbounds))] IN
               /\ rule \in Rule
               /\ Decides(rule, s, outbounds)
               /\ rule.group # "" => rule.group \in Groups
<1> DEFINE D == Deciding(rules, s, outbounds)
           i == FirstOf(D)
<1>1. rules \in Seq(Rule)
  <2>1. << >> \in Seq(Rule)
    OBVIOUS
  <2>2. rules \in AllRules \/ rules = << >>
    BY DEF TypeOK
  <2>3. ASSUME rules \in AllRules PROVE rules \in Seq(Rule)
    <3>1. PICK c \in Configs \cup {FirstConfig} : rules = c.rules
      BY <2>3 DEF AllRules
    <3> QED BY <3>1, RulesAssumption
  <2> QED BY <2>1, <2>2, <2>3
<1>2. D \subseteq Nat
  BY <1>1 DEF Deciding
<1>3. i \in D
  BY <1>2, FirstFacts
<1> HIDE DEF i
<1>4. i \in DOMAIN rules /\ Decides(rules[i], s, outbounds)
  BY <1>3 DEF Deciding
<1>5. rules \in AllRules
  <2>1. rules # << >>
    BY <1>4
  <2> QED BY <2>1 DEF TypeOK
<1>6. rules[i].group # "" => rules[i].group \in Groups
  <2> DEFINE T == {rules[j].group : j \in DOMAIN rules}
  <2>1. rules[i].group \in T
    BY <1>4
  <2>2. T \in {{rs[j].group : j \in DOMAIN rs} : rs \in AllRules}
    BY <1>5
  <2> HIDE DEF T
  <2> QED BY <2>1, <2>2 DEF Groups
<1>7. rules[i] \in Rule
  BY <1>1, <1>4
<1> QED BY <1>4, <1>6, <1>7 DEF i

\* What a caller may be given without a turn is an outbound or none.
LEMMA CandidateFacts ==
    ASSUME TypeOK, NEW s, Deciding(rules, s, outbounds) # {}
    PROVE  LET rule == rules[FirstOf(Deciding(rules, s, outbounds))] IN
               Candidates(rule, outbounds, groups)
                   \subseteq AllOutbounds \cup {NoOutbound}
<1> DEFINE rule == rules[FirstOf(Deciding(rules, s, outbounds))]
<1>1. /\ Decides(rule, s, outbounds)
      /\ rule.group # "" => rule.group \in Groups
  BY RuleFacts
<1> HIDE DEF rule
<1>2. Named(rule.outbound, outbounds) \subseteq AllOutbounds
  BY DEF Named, TypeOK
<1>3. CASE rule.outbound # ""
  BY <1>2, <1>3 DEF Candidates, rule
<1>4. CASE rule.outbound = ""
  <2>1. rule.group \in Groups
    BY <1>1, <1>4 DEF Decides
  <2> DEFINE t == groups[rule.group]
  <2>2. t \in Seq(AllOutbounds)
    BY <2>1 DEF TypeOK
  <2>3. ToSet(t) \subseteq AllOutbounds
    BY <2>2 DEF ToSet
  <2>4. t # << >> => t[1] \in AllOutbounds
    BY <2>2
  <2> QED BY <1>4, <2>3, <2>4 DEF Candidates, rule
<1> QED BY <1>3, <1>4

\* Nobody routes while the tables change, and they keep their types.
LEMMA AddFacts ==
    ASSUME TypeOK, NEW o \in AllOutbounds, AddOutbound(o)
    PROVE  /\ \A c \in Callers : cpc[c] = "idle"
           /\ outbounds' \subseteq AllOutbounds
           /\ \A p, q \in outbounds' : p.name = q.name => p = q
           /\ \A g \in Groups : groups'[g] \in Seq(AllOutbounds)
           /\ rules' = rules
           /\ picks' = NoPicks
<1>1. outbounds' = (outbounds \ Named(o.name, outbounds)) \cup {o}
  BY DEF AddOutbound
<1>2. outbounds' \subseteq AllOutbounds
  BY <1>1 DEF TypeOK
<1>3. \A p, q \in outbounds' : p.name = q.name => p = q
  BY <1>1 DEF TypeOK, Named
<1>4. ASSUME NEW g \in Groups
      PROVE  groups'[g] \in Seq(AllOutbounds)
  <2>1. groups[g] \in Seq(AllOutbounds)
    BY DEF TypeOK
  <2>2. Append(groups[g], o) \in Seq(AllOutbounds)
    BY <2>1, AppendFacts
  <2> QED BY <2>1, <2>2 DEF AddOutbound
<1>5. rules' = rules /\ picks' = NoPicks /\ \A c \in Callers : cpc[c] = "idle"
  BY DEF AddOutbound, Locked
<1> QED BY <1>2, <1>3, <1>4, <1>5

\* The places in a group that have a name.
At(g, name) == {i \in DOMAIN groups[g] : groups[g][i].name = name}

LEMMA DropFacts ==
    ASSUME TypeOK, NEW name, RemoveOutbound(name)
    PROVE  /\ \A c \in Callers : cpc[c] = "idle"
           /\ outbounds' = outbounds \ Named(name, outbounds)
           /\ outbounds' \subseteq AllOutbounds
           /\ \A p, q \in outbounds' : p.name = q.name => p = q
           /\ \A g \in Groups :
                 /\ groups'[g] =
                       IF (\E o \in Named(name, outbounds) : o.group = g) /\ At(g, name) # {}
                          THEN RemoveAt(groups[g], FirstOf(At(g, name)))
                          ELSE groups[g]
                 /\ At(g, name) # {} => FirstOf(At(g, name)) \in At(g, name)
                 /\ groups'[g] \in Seq(AllOutbounds)
           /\ rules' = rules
           /\ picks' = NoPicks
<1>1. outbounds' = outbounds \ Named(name, outbounds)
  BY DEF RemoveOutbound
<1>2. /\ outbounds' \subseteq AllOutbounds
      /\ \A p, q \in outbounds' : p.name = q.name => p = q
  BY <1>1 DEF TypeOK
<1>3. ASSUME NEW g \in Groups
      PROVE  /\ groups'[g] =
                   IF (\E o \in Named(name, outbounds) : o.group = g) /\ At(g, name) # {}
                      THEN RemoveAt(groups[g], FirstOf(At(g, name)))
                      ELSE groups[g]
             /\ At(g, name) # {} => FirstOf(At(g, name)) \in At(g, name)
             /\ groups'[g] \in Seq(AllOutbounds)
  <2>1. groups[g] \in Seq(AllOutbounds)
    BY DEF TypeOK
  <2>2. At(g, name) \subseteq Nat /\ At(g, name) \subseteq DOMAIN groups[g]
    BY <2>1 DEF At
  <2>3. At(g, name) # {} => FirstOf(At(g, name)) \in At(g, name)
    BY <2>2, FirstFacts
  <2>4. At(g, name) # {} => RemoveAt(groups[g], FirstOf(At(g, name))) \in Seq(AllOutbounds)
    BY <2>1, <2>2, <2>3, RemoveFacts
  <2>5. groups'[g] =
           IF (\E o \in Named(name, outbounds) : o.group = g) /\ At(g, name) # {}
              THEN RemoveAt(groups[g], FirstOf(At(g, name)))
              ELSE groups[g]
    BY DEF RemoveOutbound, At
  <2> QED BY <2>1, <2>3, <2>4, <2>5
<1>4. rules' = rules /\ picks' = NoPicks /\ \A c \in Callers : cpc[c] = "idle"
  BY DEF RemoveOutbound, Locked
<1> QED BY <1>1, <1>2, <1>3, <1>4

\* Whose counter the caller advances, and whom it is given.
Owner(c) == IF cpc[c] = "addOwn" THEN c ELSE counterOf[call[c].group]

Place(c) == ((counter[call[c].group][Owner(c)] + 1) % Len(groups[call[c].group])) + 1

Chosen(c) == groups[call[c].group][Place(c)]

LEMMA TurnFacts ==
    ASSUME TypeOK, TurnInv, NEW c \in Callers, TakeTurn(c)
    PROVE  LET g == call[c].group
               k == counter[g][Owner(c)]
           IN  /\ cpc[c] # "idle"
               /\ g \in Groups
               /\ Owner(c) \in Callers
               /\ k \in Nat
               /\ Len(groups[g]) \in Nat \ {0}
               /\ Place(c) \in DOMAIN groups[g]
               /\ Chosen(c) \in AllOutbounds
               /\ counter' = [counter EXCEPT ![g][Owner(c)] = k + 1]
               /\ picks' = [picks EXCEPT ![Chosen(c)] = @ + 1]
               /\ call' = [call EXCEPT ![c].given = Chosen(c)]
               /\ cpc' = [cpc EXCEPT ![c] = "idle"]
               /\ UNCHANGED <<routerVars, counterOf, routes, agentVars>>
<1> DEFINE g == call[c].group
           k == counter[g][Owner(c)]
<1>1. cpc[c] \in {"add", "addOwn"}
  BY DEF TakeTurn
<1>2. g \in Groups /\ groups[g] # << >>
  BY <1>1 DEF TurnInv
<1>3. Owner(c) \in Callers
  BY <1>1, <1>2 DEF TurnInv, TypeOK, Owner
<1>4. k \in Nat
  <2>1. MaxRoutes \in Nat
    BY BoundsAssumption
  <2>2. counter \in [Groups -> [Callers -> 0..MaxRoutes]]
    BY DEF TypeOK
  <2>3. k \in 0..MaxRoutes
    BY <1>2, <1>3, <2>2
  <2> QED BY <2>1, <2>3
<1> DEFINE s == groups[g]
<1>5. s \in Seq(AllOutbounds) /\ s # << >>
  BY <1>2 DEF TypeOK
<1> DEFINE n == Len(s)
<1>6. n \in Nat /\ n > 0 /\ DOMAIN s = 1..n /\ \A i \in 1..n : s[i] \in AllOutbounds
  BY <1>5, EmptySeq
<1> DEFINE r == k % n
<1> HIDE DEF k, n
<1>7. k + 1 \in Nat
  BY <1>4
<1>8. (k + 1) % n \in 0..(n - 1)
  BY <1>6, <1>7
<1>9. Place(c) = ((k + 1) % n) + 1
  BY DEF Place, k, n
<1>10. Place(c) \in 1..n
  BY <1>6, <1>8, <1>9
<1>11. Chosen(c) \in AllOutbounds
  BY <1>6, <1>10 DEF Chosen
<1>12. /\ counter' = [counter EXCEPT ![g][Owner(c)] = k + 1]
       /\ picks' = [picks EXCEPT ![Chosen(c)] = @ + 1]
       /\ call' = [call EXCEPT ![c].given = Chosen(c)]
       /\ cpc' = [cpc EXCEPT ![c] = "idle"]
       /\ UNCHANGED <<routerVars, counterOf, routes, agentVars>>
  BY DEF TakeTurn, Owner, Place, Chosen, NextIndex, k
<1> QED BY <1>1, <1>2, <1>3, <1>4, <1>6, <1>10, <1>11, <1>12 DEF k, n

----------------------------------------------------------------------------
(* The callers *)

AgentNext ==
    \/ Start \/ InitRules \/ RemovedDone \/ ReplacedDone \/ ReloadRules
    \/ \E o \in AllOutbounds : InitOutbound(o) \/ AddOne(o)
    \/ \E n \in Names(AllOutbounds) : RemoveOne(n)
    \/ \E c \in Configs : Reload(c)

\* A step of the agent runs one operation of the router, or none, and leaves
\* the callers alone.
TableStep ==
    /\ UNCHANGED <<counterVars, callerVars>>
    /\ \/ \E o \in AllOutbounds : AddOutbound(o)
       \/ \E n \in Names(AllOutbounds) : RemoveOutbound(n)
       \/ UNCHANGED <<outbounds, groups, picks>>

LEMMA AgentSteps ==
    ASSUME AgentNext \/ UNCHANGED vars
    PROVE  TableStep
<1>1. CASE Start \/ RemovedDone \/ ReplacedDone \/ UNCHANGED vars
  BY <1>1 DEF Start, RemovedDone, ReplacedDone, vars, TableStep, routerVars, counterVars,
              callerVars
<1>2. CASE InitRules \/ ReloadRules
  BY <1>2 DEF InitRules, ReloadRules, UpdateRules, TableStep, routerVars, counterVars,
              callerVars
<1>3. ASSUME NEW o \in AllOutbounds, InitOutbound(o) \/ AddOne(o)
      PROVE  TableStep
  BY <1>3 DEF InitOutbound, AddOne, TableStep, counterVars, callerVars
<1>4. ASSUME NEW n \in Names(AllOutbounds), RemoveOne(n)
      PROVE  TableStep
  BY <1>4 DEF RemoveOne, TableStep, counterVars, callerVars
<1>5. ASSUME NEW c \in Configs, Reload(c)
      PROVE  TableStep
  BY <1>5 DEF Reload, TableStep, routerVars, counterVars, callerVars
<1> QED BY <1>1, <1>2, <1>3, <1>4, <1>5 DEF AgentNext

\* The steps, by the one who takes them.
LEMMA Steps ==
    ASSUME [Next]_vars
    PROVE  \/ \E c \in Callers : StoreCounter(c)
           \/ \E c \in Callers : TakeTurn(c)
           \/ \E c \in Callers, s \in Sessions : RouteAtOnce(c, s)
           \/ \E c \in Callers, s \in Sessions : RouteInTurn(c, s)
           \/ AgentNext \/ UNCHANGED vars
BY DEF Next, AgentNext

\* What the first half of a turn does.
LEMMA LookFacts ==
    ASSUME TypeOK, NEW c \in Callers, NEW s \in Sessions, RouteInTurn(c, s)
    PROVE  /\ cpc[c] = "idle"
           /\ routes < MaxRoutes /\ routes' = routes + 1
           /\ \E g \in Groups :
                 /\ groups[g] # << >>
                 /\ cpc' = [cpc EXCEPT ![c] = IF counterOf[g] = "none"
                                              THEN "store" ELSE "add"]
                 /\ call' = [call EXCEPT ![c] = [group |-> g, given |-> NoOutbound,
                                                 session |-> s]]
           /\ UNCHANGED <<routerVars, counterVars, picks, agentVars>>
<1> DEFINE rule == rules[FirstOf(Deciding(rules, s, outbounds))]
<1>1. /\ Deciding(rules, s, outbounds) # {} /\ rule.outbound = ""
      /\ groups[rule.group] # << >>
      /\ cpc' = [cpc EXCEPT ![c] = IF counterOf[rule.group] = "none"
                                   THEN "store" ELSE "add"]
      /\ call' = [call EXCEPT ![c] = [group |-> rule.group, given |-> NoOutbound,
                                      session |-> s]]
  BY DEF RouteInTurn
<1>2. rule.group \in Groups
  BY <1>1, RuleFacts DEF Decides
<1> HIDE DEF rule
<1>3. /\ cpc[c] = "idle" /\ routes < MaxRoutes /\ routes' = routes + 1
      /\ UNCHANGED <<routerVars, counterVars, picks, agentVars>>
  BY DEF RouteInTurn, BeginRoute
<1> QED BY <1>1, <1>2, <1>3

\* What a session routed without a turn does.
LEMMA AtOnceFacts ==
    ASSUME TypeOK, NEW c \in Callers, NEW s \in Sessions, RouteAtOnce(c, s)
    PROVE  /\ cpc[c] = "idle"
           /\ routes < MaxRoutes /\ routes' = routes + 1
           /\ \E o \in AllOutbounds \cup {NoOutbound} :
                 call' = [call EXCEPT ![c] = [group |-> "", given |-> o, session |-> s]]
           /\ UNCHANGED <<routerVars, counterVars, cpc, picks, agentVars>>
<1> DEFINE rule == rules[FirstOf(Deciding(rules, s, outbounds))]
           can == IF Deciding(rules, s, outbounds) = {} THEN {NoOutbound}
                  ELSE Candidates(rule, outbounds, groups)
<1>1. can \subseteq AllOutbounds \cup {NoOutbound}
  BY CandidateFacts
<1>2. \E o \in can :
         call' = [call EXCEPT ![c] = [group |-> "", given |-> o, session |-> s]]
  BY DEF RouteAtOnce
<1> HIDE DEF can
<1>3. /\ cpc[c] = "idle" /\ routes < MaxRoutes /\ routes' = routes + 1
      /\ UNCHANGED <<routerVars, counterVars, cpc, picks, agentVars>>
  BY DEF RouteAtOnce, BeginRoute
<1> QED BY <1>1, <1>2, <1>3

\* A group keeps its members and its counter while a caller takes its turn.
LEMMA TurnNext ==
    ASSUME TypeOK, TurnInv, [Next]_vars
    PROVE  TurnInv'
<1>1. ASSUME NEW c \in Callers, StoreCounter(c)
      PROVE  TurnInv'
  <2>1. /\ cpc[c] = "store" /\ cpc' = [cpc EXCEPT ![c] = "addOwn"]
        /\ counterOf' = [counterOf EXCEPT ![call[c].group] = c]
        /\ UNCHANGED <<groups, call>>
    BY <1>1 DEF StoreCounter, routerVars
  <2>2. \A d \in Callers : counterOf[call[d].group] # "none" =>
                            counterOf'[call[d].group] # "none"
    <3>1. call[c].group \in Groups
      BY <2>1 DEF TurnInv
    <3>2. counterOf \in [Groups -> Callers \cup {"none"}]
      BY DEF TypeOK
    <3> QED BY <2>1, <3>1, <3>2, CallersAssumption
  <2>3. \A d \in Callers : /\ cpc'[d] # "idle" => cpc[d] # "idle"
                           /\ cpc'[d] = "add" => cpc[d] = "add"
    BY <2>1 DEF TypeOK
  <2> QED BY <2>1, <2>2, <2>3 DEF TurnInv
<1>2. ASSUME NEW c \in Callers, TakeTurn(c)
      PROVE  TurnInv'
  <2>1. /\ cpc' = [cpc EXCEPT ![c] = "idle"]
        /\ call' = [call EXCEPT ![c].given = Chosen(c)]
        /\ groups' = groups /\ counterOf' = counterOf
    BY <1>2, TurnFacts DEF routerVars
  <2>2. \A d \in Callers : call'[d].group = call[d].group
    BY <2>1 DEF TypeOK
  <2>3. \A d \in Callers : cpc'[d] # "idle" => cpc'[d] = cpc[d]
    BY <2>1 DEF TypeOK
  <2> QED BY <2>1, <2>2, <2>3 DEF TurnInv
<1>3. ASSUME NEW c \in Callers, NEW s \in Sessions, RouteAtOnce(c, s)
      PROVE  TurnInv'
  <2>1. PICK o : call' = [call EXCEPT ![c] = [group |-> "", given |-> o, session |-> s]]
    BY <1>3, AtOnceFacts
  <2>2. /\ cpc[c] = "idle" /\ cpc' = cpc
        /\ groups' = groups /\ counterOf' = counterOf
    BY <1>3, AtOnceFacts DEF routerVars, counterVars
  <2>3. \A d \in Callers : d # c => call'[d] = call[d]
    BY <2>1 DEF TypeOK
  <2> QED BY <2>2, <2>3 DEF TurnInv
<1>4. ASSUME NEW c \in Callers, NEW s \in Sessions, RouteInTurn(c, s)
      PROVE  TurnInv'
  <2>1. PICK g \in Groups :
          /\ groups[g] # << >>
          /\ cpc' = [cpc EXCEPT ![c] = IF counterOf[g] = "none" THEN "store" ELSE "add"]
          /\ call' = [call EXCEPT ![c] = [group |-> g, given |-> NoOutbound,
                                          session |-> s]]
    BY <1>4, LookFacts
  <2>2. groups' = groups /\ counterOf' = counterOf
    BY <1>4, LookFacts DEF routerVars, counterVars
  <2>3. \A d \in Callers : d # c => call'[d] = call[d] /\ cpc'[d] = cpc[d]
    BY <2>1 DEF TypeOK
  <2>4. /\ call'[c].group = g
        /\ cpc'[c] = "add" => counterOf[g] # "none"
    BY <2>1 DEF TypeOK
  <2> QED BY <2>1, <2>2, <2>3, <2>4 DEF TurnInv
<1>5. CASE AgentNext \/ UNCHANGED vars
  <2>1. TableStep
    BY <1>5, AgentSteps
  <2>2. UNCHANGED <<counterOf, cpc, call>>
    BY <2>1 DEF TableStep, counterVars, callerVars
  <2>3. CASE groups' = groups
    BY <2>2, <2>3 DEF TurnInv
  <2>4. CASE \A c \in Callers : cpc[c] = "idle"
    BY <2>2, <2>4 DEF TurnInv
  <2> QED BY <2>1, <2>3, <2>4, AddFacts, DropFacts DEF TableStep
<1> QED BY <1>1, <1>2, <1>3, <1>4, <1>5, Steps

\* Who is busy changes by one caller at a time.
LEMMA BusyFacts ==
    ASSUME TypeOK, NEW c \in Callers, NEW p \in {"idle", "store", "add", "addOwn"},
           cpc' = [cpc EXCEPT ![c] = p], IsFiniteSet(Busy)
    PROVE  /\ IsFiniteSet(Busy')
           /\ Cardinality(Busy) \in Nat
           /\ ((cpc[c] # "idle") <=> (p # "idle")) => Cardinality(Busy') = Cardinality(Busy)
           /\ cpc[c] = "idle" /\ p # "idle" => Cardinality(Busy') = Cardinality(Busy) + 1
           /\ cpc[c] # "idle" /\ p = "idle" =>
                 Cardinality(Busy') = Cardinality(Busy) - 1 /\ Cardinality(Busy) >= 1
<1>1. Cardinality(Busy) \in Nat
  BY FS_CardinalityType
<1>2. c \in Busy <=> cpc[c] # "idle"
  BY DEF Busy
<1>3. CASE p # "idle"
  <2>1. Busy' = Busy \cup {c}
    BY <1>3 DEF Busy, TypeOK
  <2> QED BY <1>1, <1>2, <1>3, <2>1, FS_AddElement
<1>4. CASE p = "idle"
  <2>1. Busy' = Busy \ {c}
    BY <1>4 DEF Busy, TypeOK
  <2>2. /\ IsFiniteSet(Busy')
        /\ Cardinality(Busy') = IF c \in Busy THEN Cardinality(Busy) - 1 ELSE Cardinality(Busy)
    BY <2>1, FS_RemoveElement
  <2>3. Cardinality(Busy') \in Nat
    BY <2>2, FS_CardinalityType
  <2> QED BY <1>1, <1>2, <1>4, <2>2, <2>3
<1> QED BY <1>3, <1>4

\* The numbers that count.
LEMMA Numbers ==
    ASSUME TypeOK
    PROVE  /\ MaxRoutes \in Nat
           /\ routes \in 0..MaxRoutes
           /\ \A g \in Groups, c \in Callers : counter[g][c] \in 0..MaxRoutes
           /\ \A o \in AllOutbounds : picks[o] \in 0..MaxRoutes
<1>1. MaxRoutes \in Nat
  BY BoundsAssumption
<1>2. /\ routes \in 0..MaxRoutes
      /\ counter \in [Groups -> [Callers -> 0..MaxRoutes]]
      /\ picks \in [AllOutbounds -> 0..MaxRoutes]
  BY DEF TypeOK
<1> QED BY <1>1, <1>2

\* Every turn is one of the calls begun, and a call is one turn.
LEMMA CountNext ==
    ASSUME TypeOK, TurnInv, CountInv, [Next]_vars
    PROVE  CountInv'
<1> DEFINE n == Cardinality(Busy)
<1>1. /\ IsFiniteSet(Busy) /\ n \in Nat /\ n <= routes /\ routes \in Nat
      /\ \A g \in Groups, c \in Callers : counter[g][c] + n <= routes
      /\ \A o \in AllOutbounds : picks[o] + n <= routes
  BY FS_CardinalityType, Numbers DEF CountInv
<1>2. /\ \A g \in Groups, c \in Callers : counter[g][c] \in Nat
      /\ \A o \in AllOutbounds : picks[o] \in Nat
  BY Numbers
<1> HIDE DEF n
<1>3. ASSUME NEW c \in Callers, StoreCounter(c)
      PROVE  CountInv'
  <2>1. /\ cpc[c] = "store" /\ cpc' = [cpc EXCEPT ![c] = "addOwn"]
        /\ UNCHANGED <<counter, picks, routes>>
    BY <1>3 DEF StoreCounter
  <2>2. IsFiniteSet(Busy') /\ Cardinality(Busy') = n
    BY <1>1, <2>1, BusyFacts DEF n
  <2> QED BY <1>1, <2>1, <2>2 DEF CountInv
<1>4. ASSUME NEW c \in Callers, TakeTurn(c)
      PROVE  CountInv'
  <2> DEFINE g == call[c].group
             k == counter[g][Owner(c)]
  <2>1. /\ cpc[c] # "idle" /\ cpc' = [cpc EXCEPT ![c] = "idle"]
        /\ counter' = [counter EXCEPT ![g][Owner(c)] = k + 1]
        /\ picks' = [picks EXCEPT ![Chosen(c)] = @ + 1]
        /\ g \in Groups /\ Owner(c) \in Callers
        /\ Chosen(c) \in AllOutbounds
        /\ routes' = routes
    BY <1>4, TurnFacts
  <2>2. IsFiniteSet(Busy') /\ Cardinality(Busy') = n - 1 /\ n >= 1
    BY <1>1, <2>1, BusyFacts DEF n
  <2> HIDE DEF g
  <2>3. ASSUME NEW h \in Groups, NEW d \in Callers
        PROVE  counter'[h][d] + (n - 1) <= routes
    <3>1. counter'[h][d] = counter[h][d] \/ counter'[h][d] = counter[h][d] + 1
      BY <2>1 DEF TypeOK
    <3> QED BY <1>1, <1>2, <3>1
  <2>4. ASSUME NEW o \in AllOutbounds
        PROVE  picks'[o] + (n - 1) <= routes
    <3>1. picks'[o] = picks[o] \/ picks'[o] = picks[o] + 1
      BY <2>1 DEF TypeOK
    <3> QED BY <1>1, <1>2, <3>1
  <2> QED BY <1>1, <2>1, <2>2, <2>3, <2>4 DEF CountInv
<1>5. ASSUME NEW c \in Callers, NEW s \in Sessions, RouteAtOnce(c, s)
      PROVE  CountInv'
  <2>1. routes' = routes + 1 /\ UNCHANGED <<counter, cpc, picks>>
    BY <1>5, AtOnceFacts DEF counterVars
  <2>2. Busy' = Busy
    BY <2>1 DEF Busy
  <2> QED BY <1>1, <1>2, <2>1, <2>2 DEF CountInv, n
<1>6. ASSUME NEW c \in Callers, NEW s \in Sessions, RouteInTurn(c, s)
      PROVE  CountInv'
  <2>1. PICK p \in {"store", "add"} : cpc' = [cpc EXCEPT ![c] = p]
    BY <1>6, LookFacts
  <2>2. /\ cpc[c] = "idle" /\ routes' = routes + 1
        /\ UNCHANGED <<counter, picks>>
    BY <1>6, LookFacts DEF counterVars
  <2>3. IsFiniteSet(Busy') /\ Cardinality(Busy') = n + 1
    BY <1>1, <2>1, <2>2, BusyFacts DEF n
  <2> QED BY <1>1, <1>2, <2>2, <2>3 DEF CountInv
<1>7. CASE AgentNext \/ UNCHANGED vars
  <2>1. TableStep
    BY <1>7, AgentSteps
  <2>2. UNCHANGED <<counter, cpc, routes>>
    BY <2>1 DEF TableStep, counterVars, callerVars
  <2>3. Busy' = Busy
    BY <2>2 DEF Busy
  <2>4. picks' = picks \/ picks' = NoPicks
    BY <2>1, AddFacts, DropFacts DEF TableStep
  <2>5. \A o \in AllOutbounds : picks'[o] + n <= routes
    BY <1>1, <2>4 DEF NoPicks
  <2> QED BY <1>1, <2>2, <2>3, <2>5 DEF CountInv, n
<1> QED BY <1>3, <1>4, <1>5, <1>6, <1>7, Steps

----------------------------------------------------------------------------
(* Types *)

\* What the agent's steps do to its own variables.
LEMMA AgentTypes ==
    ASSUME TypeOK, TodoInv, AgentNext
    PROVE  /\ rules' \in AllRules \cup {<<>>}
           /\ {config', target'} \subseteq Configs \cup {FirstConfig}
           /\ apc' \in {"stopped", "init", "running", "removed", "replaced", "add"}
           /\ reloads' \in 0..MaxReloads
           /\ starts' \in 0..MaxStarts
<1>1. /\ {config, target} \subseteq Configs \cup {FirstConfig}
      /\ reloads \in 0..MaxReloads /\ starts \in 0..MaxStarts
      /\ rules \in AllRules \cup {<<>>}
      /\ {MaxReloads, MaxStarts} \subseteq Nat
      /\ {config.rules, target.rules} \subseteq AllRules
  BY BoundsAssumption DEF TypeOK, AllRules
<1>2. CASE Start
  BY <1>1, <1>2 DEF Start, routerVars
<1>3. CASE InitRules \/ ReloadRules
  BY <1>1, <1>3 DEF InitRules, ReloadRules, UpdateRules, routerVars
<1>4. CASE RemovedDone \/ ReplacedDone
  BY <1>1, <1>4 DEF RemovedDone, ReplacedDone, routerVars
<1>5. ASSUME NEW o \in AllOutbounds, InitOutbound(o) \/ AddOne(o)
      PROVE  /\ apc' = apc /\ apc \in {"init", "add"} /\ rules' = rules
             /\ UNCHANGED <<config, target, reloads, starts>>
  BY <1>5 DEF InitOutbound, AddOne, AddOutbound
<1>6. ASSUME NEW n \in Names(AllOutbounds), RemoveOne(n)
      PROVE  /\ apc' = apc /\ apc \in {"removed", "replaced"} /\ rules' = rules
             /\ UNCHANGED <<config, target, reloads, starts>>
  BY <1>6 DEF RemoveOne, RemoveOutbound
<1>7. ASSUME NEW c \in Configs, Reload(c)
      PROVE  /\ apc' = "removed" /\ target' = c /\ reloads' \in 0..MaxReloads
             /\ UNCHANGED <<config, rules, starts>>
  BY <1>1, <1>7 DEF Reload, routerVars
<1> QED BY <1>1, <1>2, <1>3, <1>4, <1>5, <1>6, <1>7 DEF AgentNext

LEMMA TypeNext ==
    ASSUME TypeOK, TurnInv, CountInv, CountInv', TodoInv, [Next]_vars
    PROVE  TypeOK'
<1>1. /\ counter \in [Groups -> [Callers -> 0..MaxRoutes]]
      /\ picks \in [AllOutbounds -> 0..MaxRoutes]
      /\ cpc \in [Callers -> {"idle", "store", "add", "addOwn"}]
      /\ call \in [Callers -> [group : Groups \cup {""},
                              given : AllOutbounds \cup {NoOutbound},
                              session : Sessions \cup {"none"}]]
      /\ counterOf \in [Groups -> Callers \cup {"none"}]
  BY DEF TypeOK
<1>0. routes \in 0..MaxRoutes /\ MaxRoutes \in Nat
  BY Numbers
<1>2. ASSUME NEW c \in Callers, StoreCounter(c)
      PROVE  TypeOK'
  <2>1. /\ cpc' = [cpc EXCEPT ![c] = "addOwn"]
        /\ counterOf' = [counterOf EXCEPT ![call[c].group] = c]
        /\ UNCHANGED <<routerVars, counter, call, routes, picks, agentVars>>
    BY <1>2 DEF StoreCounter
  <2>2. cpc' \in [Callers -> {"idle", "store", "add", "addOwn"}]
    BY <1>1, <2>1
  <2>3. counterOf' \in [Groups -> Callers \cup {"none"}]
    BY <1>1, <2>1
  <2> QED BY <2>1, <2>2, <2>3 DEF TypeOK, routerVars, agentVars
<1>3. ASSUME NEW c \in Callers, TakeTurn(c)
      PROVE  TypeOK'
  <2> DEFINE g == call[c].group
             k == counter[g][Owner(c)]
             n == Cardinality(Busy)
  <2>1. /\ cpc[c] # "idle" /\ cpc' = [cpc EXCEPT ![c] = "idle"]
        /\ counter' = [counter EXCEPT ![g][Owner(c)] = k + 1]
        /\ picks' = [picks EXCEPT ![Chosen(c)] = @ + 1]
        /\ call' = [call EXCEPT ![c].given = Chosen(c)]
        /\ g \in Groups /\ Owner(c) \in Callers
        /\ Chosen(c) \in AllOutbounds
        /\ UNCHANGED <<routerVars, counterOf, routes, agentVars>>
    BY <1>3, TurnFacts
  <2>2. n \in Nat /\ n >= 1
    BY <2>1, BusyFacts DEF CountInv
  <2>3. k + n <= routes /\ picks[Chosen(c)] + n <= routes
    BY <2>1 DEF CountInv
  <2> HIDE DEF g, k, n
  <2>4. k \in 0..MaxRoutes /\ picks[Chosen(c)] \in 0..MaxRoutes
    BY <2>1, Numbers DEF k
  <2>5. k + 1 \in 0..MaxRoutes /\ picks[Chosen(c)] + 1 \in 0..MaxRoutes
    BY <1>0, <2>2, <2>3, <2>4
  <2>6. counter' \in [Groups -> [Callers -> 0..MaxRoutes]]
    BY <1>1, <2>1, <2>5
  <2>7. picks' \in [AllOutbounds -> 0..MaxRoutes]
    BY <1>1, <2>1, <2>5
  <2>8. cpc' \in [Callers -> {"idle", "store", "add", "addOwn"}]
    BY <1>1, <2>1
  <2>9. call' \in [Callers -> [group : Groups \cup {""},
                              given : AllOutbounds \cup {NoOutbound},
                              session : Sessions \cup {"none"}]]
    BY <1>1, <2>1
  <2> QED BY <2>1, <2>6, <2>7, <2>8, <2>9 DEF TypeOK, routerVars, agentVars
<1>4. ASSUME NEW c \in Callers, NEW s \in Sessions, RouteAtOnce(c, s)
      PROVE  TypeOK'
  <2>1. PICK o \in AllOutbounds \cup {NoOutbound} :
           call' = [call EXCEPT ![c] = [group |-> "", given |-> o, session |-> s]]
    BY <1>4, AtOnceFacts
  <2>2. /\ routes < MaxRoutes /\ routes' = routes + 1
        /\ UNCHANGED <<routerVars, counterVars, cpc, picks, agentVars>>
    BY <1>4, AtOnceFacts
  <2>3. call' \in [Callers -> [group : Groups \cup {""},
                              given : AllOutbounds \cup {NoOutbound},
                              session : Sessions \cup {"none"}]]
    BY <1>1, <2>1
  <2>4. routes' \in 0..MaxRoutes
    BY <1>0, <2>2
  <2> QED BY <2>2, <2>3, <2>4 DEF TypeOK, routerVars, counterVars, agentVars
<1>5. ASSUME NEW c \in Callers, NEW s \in Sessions, RouteInTurn(c, s)
      PROVE  TypeOK'
  <2>1. PICK g \in Groups :
          /\ cpc' = [cpc EXCEPT ![c] = IF counterOf[g] = "none" THEN "store" ELSE "add"]
          /\ call' = [call EXCEPT ![c] = [group |-> g, given |-> NoOutbound,
                                          session |-> s]]
    BY <1>5, LookFacts
  <2>2. /\ routes < MaxRoutes /\ routes' = routes + 1
        /\ UNCHANGED <<routerVars, counterVars, picks, agentVars>>
    BY <1>5, LookFacts
  <2>3. call' \in [Callers -> [group : Groups \cup {""},
                              given : AllOutbounds \cup {NoOutbound},
                              session : Sessions \cup {"none"}]]
    BY <1>1, <2>1
  <2>4. cpc' \in [Callers -> {"idle", "store", "add", "addOwn"}]
    BY <1>1, <2>1
  <2>5. routes' \in 0..MaxRoutes
    BY <1>0, <2>2
  <2> QED BY <2>2, <2>3, <2>4, <2>5 DEF TypeOK, routerVars, counterVars, agentVars
<1>6. CASE AgentNext
  <2>1. TableStep
    BY <1>6, AgentSteps
  <2>2. UNCHANGED <<counterOf, counter, cpc, call, routes>>
    BY <2>1 DEF TableStep, counterVars, callerVars
  <2>3. /\ outbounds' \subseteq AllOutbounds
        /\ \A p, q \in outbounds' : p.name = q.name => p = q
        /\ \A g \in Groups : groups'[g] \in Seq(AllOutbounds)
        /\ picks' \in [AllOutbounds -> 0..MaxRoutes]
    <3>1. CASE UNCHANGED <<outbounds, groups, picks>>
      BY <3>1 DEF TypeOK
    <3>2. NoPicks \in [AllOutbounds -> 0..MaxRoutes]
      BY <1>0 DEF NoPicks
    <3>3. ASSUME NEW o \in AllOutbounds, AddOutbound(o)
          PROVE  <2>3!:
      BY <3>2, <3>3, AddFacts
    <3>4. ASSUME NEW n, RemoveOutbound(n)
          PROVE  <2>3!:
      BY <3>2, <3>4, DropFacts
    <3> QED BY <2>1, <3>1, <3>3, <3>4 DEF TableStep
  <2>4. /\ rules' \in AllRules \cup {<<>>}
        /\ {config', target'} \subseteq Configs \cup {FirstConfig}
        /\ apc' \in {"stopped", "init", "running", "removed", "replaced", "add"}
        /\ reloads' \in 0..MaxReloads
        /\ starts' \in 0..MaxStarts
    BY <1>6, AgentTypes
  <2> QED BY <1>1, <2>2, <2>3, <2>4 DEF TypeOK
<1>7. CASE UNCHANGED vars
  BY <1>7 DEF TypeOK, vars
<1> QED BY <1>2, <1>3, <1>4, <1>5, <1>6, <1>7, Steps

----------------------------------------------------------------------------
(* What is registered *)

\* A name stands for one outbound in each configuration.
LEMMA ConfigFacts ==
    ASSUME TypeOK
    PROVE  /\ \A o, p \in config.outbounds : o.name = p.name => o = p
           /\ \A o, p \in target.outbounds : o.name = p.name => o = p
           /\ config.outbounds \subseteq AllOutbounds
           /\ target.outbounds \subseteq AllOutbounds
<1>1. {config, target} \subseteq Configs \cup {FirstConfig}
  BY DEF TypeOK
<1> QED BY <1>1, NamesAssumption DEF AllOutbounds

\* The callers leave what the agent does alone.
LEMMA CallerSteps ==
    ASSUME [Next]_vars, ~ AgentNext
    PROVE  UNCHANGED <<routerVars, agentVars>>
<1>1. ASSUME NEW c \in Callers, StoreCounter(c) \/ TakeTurn(c)
      PROVE  UNCHANGED <<routerVars, agentVars>>
  BY <1>1 DEF StoreCounter, TakeTurn
<1>2. ASSUME NEW c \in Callers, NEW s \in Sessions, RouteAtOnce(c, s) \/ RouteInTurn(c, s)
      PROVE  UNCHANGED <<routerVars, agentVars>>
  BY <1>2 DEF RouteAtOnce, RouteInTurn
<1>3. CASE UNCHANGED vars
  BY <1>3 DEF vars, routerVars, agentVars
<1> QED BY <1>1, <1>2, <1>3, Steps

LEMMA TodoNext ==
    ASSUME TypeOK, TodoInv, [Next]_vars
    PROVE  TodoInv'
<1>1. CASE ~ AgentNext
  BY <1>1, CallerSteps DEF TodoInv, Changed, agentVars
<1>2. CASE Start
  BY <1>2 DEF Start, TodoInv
<1>3. CASE InitRules \/ ReloadRules
  BY <1>3 DEF InitRules, ReloadRules, TodoInv
<1>4. CASE RemovedDone
  BY <1>4 DEF RemovedDone, TodoInv, Changed
<1>5. CASE ReplacedDone
  BY <1>5 DEF ReplacedDone, TodoInv
<1>6. ASSUME NEW o, InitOutbound(o) \/ AddOne(o)
      PROVE  TodoInv'
  BY <1>6 DEF InitOutbound, AddOne, TodoInv
<1>7. ASSUME NEW n, RemoveOne(n)
      PROVE  TodoInv'
  BY <1>7 DEF RemoveOne, TodoInv, Changed
<1>8. ASSUME NEW c, Reload(c)
      PROVE  TodoInv'
  BY <1>8 DEF Reload, TodoInv
<1> QED BY <1>1, <1>2, <1>3, <1>4, <1>5, <1>6, <1>7, <1>8 DEF AgentNext

\* Removals and additions lead from the outbounds of one configuration to those
\* of the other.
LEMMA RegisteredNext ==
    ASSUME TypeOK, TodoInv, RegisteredInv, [Next]_vars
    PROVE  RegisteredInv'
<1> USE DEF Names, Named
<1>1. CASE ~ AgentNext
  BY <1>1, CallerSteps DEF RegisteredInv, Changed, agentVars, routerVars
<1>2. CASE Start
  BY <1>2 DEF Start, RegisteredInv, routerVars
<1>3. CASE InitRules
  BY <1>3 DEF InitRules, UpdateRules, RegisteredInv
<1>4. CASE ReloadRules
  BY <1>4 DEF ReloadRules, UpdateRules, RegisteredInv, routerVars
<1>5. CASE RemovedDone
  BY <1>5 DEF RemovedDone, RegisteredInv, Changed, routerVars
<1>6. CASE ReplacedDone
  <2> DEFINE old == config.outbounds
             new == target.outbounds
             fresh == {o \in new : \/ o.name \notin Names(old)
                                   \/ o.name \in Changed}
  <2>1. /\ apc = "replaced" /\ todo = {} /\ apc' = "add" /\ todo' = fresh
        /\ outbounds' = outbounds /\ target' = target
    BY <1>6 DEF ReplacedDone, Changed, routerVars
  <2>2. outbounds = {o \in old : o.name \in Names(new) /\ o.name \notin Changed}
    BY <2>1 DEF RegisteredInv
  <2>3. ASSUME NEW n \in Names(old) \cap Names(new), n \notin Changed
        PROVE  Named(n, old) = Named(n, new)
    BY <2>3 DEF Changed, Replaced
  <2>4. {o \in old : o.name \in Names(new) /\ o.name \notin Changed}
          = {o \in new : o.name \in Names(old) /\ o.name \notin Changed}
    BY <2>3
  <2>5. outbounds' = new \ fresh
    BY <2>1, <2>2, <2>4
  <2> QED BY <2>1, <2>5 DEF RegisteredInv
<1>7. ASSUME NEW o \in AllOutbounds, InitOutbound(o)
      PROVE  RegisteredInv'
  <2>1. /\ apc = "init" /\ apc' = "init" /\ o \in todo /\ todo' = todo \ {o}
        /\ outbounds' = (outbounds \ Named(o.name, outbounds)) \cup {o}
        /\ config' = config
    BY <1>7 DEF InitOutbound, AddOutbound
  <2>2. o \in config.outbounds /\ outbounds \subseteq config.outbounds
    BY <2>1 DEF TodoInv, RegisteredInv
  <2>3. config.outbounds \ todo' \subseteq outbounds'
    BY <2>1, <2>2, ConfigFacts DEF RegisteredInv
  <2> QED BY <2>1, <2>2, <2>3 DEF RegisteredInv
<1>8. ASSUME NEW o \in AllOutbounds, AddOne(o)
      PROVE  RegisteredInv'
  <2>1. /\ apc = "add" /\ apc' = "add" /\ o \in todo /\ todo' = todo \ {o}
        /\ outbounds' = (outbounds \ Named(o.name, outbounds)) \cup {o}
        /\ target' = target
    BY <1>8 DEF AddOne, AddOutbound
  <2>2. o \in target.outbounds /\ outbounds = target.outbounds \ todo
    BY <2>1 DEF TodoInv, RegisteredInv
  <2>3. Named(o.name, outbounds) = {}
    BY <2>1, <2>2, ConfigFacts
  <2>4. outbounds' = target'.outbounds \ todo'
    BY <2>1, <2>2, <2>3
  <2> QED BY <2>1, <2>4 DEF RegisteredInv
<1>9. ASSUME NEW n, RemoveOne(n)
      PROVE  RegisteredInv'
  <2>1. /\ apc \in {"removed", "replaced"} /\ apc' = apc
        /\ n \in todo /\ todo' = todo \ {n}
        /\ outbounds' = outbounds \ Named(n, outbounds)
        /\ UNCHANGED <<config, target>>
    BY <1>9 DEF RemoveOne, RemoveOutbound
  <2>2. CASE apc = "removed"
    BY <2>1, <2>2 DEF RegisteredInv, TodoInv
  <2>3. CASE apc = "replaced"
    <3>1. Changed' = Changed
      BY <2>1 DEF Changed
    <3> QED BY <2>1, <2>3, <3>1 DEF RegisteredInv, TodoInv
  <2> QED BY <2>1, <2>2, <2>3
<1>10. ASSUME NEW c, Reload(c)
       PROVE  RegisteredInv'
  <2>1. /\ apc = "running" /\ apc' = "removed" /\ target' = c /\ config' = config
        /\ todo' = Names(config.outbounds) \ Names(c.outbounds)
        /\ outbounds' = outbounds
    BY <1>10 DEF Reload, routerVars
  <2> QED BY <2>1 DEF RegisteredInv
<1> QED BY <1>1, <1>2, <1>3, <1>4, <1>5, <1>6, <1>7, <1>8, <1>9, <1>10 DEF AgentNext

\* The rules stay those of the configuration until the last step of a reload.
LEMMA RulesNext ==
    ASSUME TypeOK, RulesInv, [Next]_vars
    PROVE  RulesInv'
<1>1. CASE ~ AgentNext
  BY <1>1, CallerSteps DEF RulesInv, agentVars, routerVars
<1>2. CASE Start \/ RemovedDone \/ ReplacedDone
  BY <1>2 DEF Start, RemovedDone, ReplacedDone, RulesInv, routerVars
<1>3. CASE InitRules \/ ReloadRules
  BY <1>3 DEF InitRules, ReloadRules, UpdateRules, RulesInv, routerVars
<1>4. ASSUME NEW o, InitOutbound(o) \/ AddOne(o)
      PROVE  RulesInv'
  BY <1>4 DEF InitOutbound, AddOne, AddOutbound, RulesInv
<1>5. ASSUME NEW n, RemoveOne(n)
      PROVE  RulesInv'
  BY <1>5 DEF RemoveOne, RemoveOutbound, RulesInv
<1>6. ASSUME NEW c, Reload(c)
      PROVE  RulesInv'
  BY <1>6 DEF Reload, RulesInv, routerVars
<1> QED BY <1>1, <1>2, <1>3, <1>4, <1>5, <1>6 DEF AgentNext

\* Only the first Start registers outbounds in an empty router.
LEMMA FreshNext ==
    ASSUME TypeOK, TodoInv, FreshInv, [Next]_vars
    PROVE  FreshInv'
<1> USE DEF Named
<1>0. starts \in Nat
  <2>1. MaxStarts \in Nat /\ starts \in 0..MaxStarts
    BY BoundsAssumption DEF TypeOK
  <2> QED BY <2>1
<1>1. CASE ~ AgentNext
  BY <1>1, CallerSteps DEF FreshInv, agentVars, routerVars
<1>2. CASE Start
  BY <1>0, <1>2 DEF Start, FreshInv, routerVars
<1>3. CASE InitRules
  <2>1. starts' = starts /\ apc = "init" /\ apc' \in {"running", "stopped"}
    BY <1>3 DEF InitRules
  <2> QED BY <2>1 DEF FreshInv
<1>4. CASE RemovedDone \/ ReplacedDone \/ ReloadRules
  BY <1>4 DEF RemovedDone, ReplacedDone, ReloadRules, FreshInv
<1>5. ASSUME NEW o \in AllOutbounds, InitOutbound(o) \/ AddOne(o)
      PROVE  FreshInv'
  <2>1. CASE AddOne(o)
    BY <2>1 DEF AddOne, FreshInv
  <2>2. CASE InitOutbound(o)
    <3>1. /\ apc = "init" /\ apc' = "init" /\ o \in todo /\ todo' = todo \ {o}
          /\ outbounds' = (outbounds \ Named(o.name, outbounds)) \cup {o}
          /\ config' = config /\ starts' = starts
      BY <2>2 DEF InitOutbound, AddOutbound
    <3>2. o \in config.outbounds
      BY <3>1 DEF TodoInv
    <3>3. starts <= 1 => Named(o.name, outbounds) = {}
      BY <3>1, <3>2, ConfigFacts DEF FreshInv
    <3> QED BY <3>1, <3>2, <3>3 DEF FreshInv
  <2> QED BY <1>5, <2>1, <2>2
<1>6. ASSUME NEW n, RemoveOne(n)
      PROVE  FreshInv'
  BY <1>6 DEF RemoveOne, FreshInv
<1>7. ASSUME NEW c, Reload(c)
      PROVE  FreshInv'
  BY <1>7 DEF Reload, FreshInv
<1> QED BY <1>1, <1>2, <1>3, <1>4, <1>5, <1>6, <1>7 DEF AgentNext

----------------------------------------------------------------------------
(* The groups *)

\* Added to its group, and removed from it by name, an outbound is listed there as
\* long as it is registered.
LEMMA ListedNext ==
    ASSUME TypeOK, ListedInv, [Next]_vars
    PROVE  ListedInv'
<1>1. CASE UNCHANGED <<outbounds, groups>>
  BY <1>1 DEF ListedInv
<1>2. ASSUME NEW o \in AllOutbounds, AddOutbound(o)
      PROVE  ListedInv'
  <2> SUFFICES ASSUME NEW g \in Groups, NEW p \in outbounds', p.group = g
               PROVE  p \in ToSet(groups'[g])
    BY DEF ListedInv
  <2>1. /\ groups'[g] = IF g = o.group THEN Append(groups[g], o) ELSE groups[g]
        /\ p \in outbounds \/ p = o
    BY <1>2 DEF AddOutbound
  <2>2. groups[g] \in Seq(AllOutbounds)
    BY DEF TypeOK
  <2>3. ToSet(Append(groups[g], o)) = ToSet(groups[g]) \cup {o}
    BY <2>2, AppendFacts
  <2> QED BY <2>1, <2>3 DEF ListedInv
<1>3. ASSUME NEW n, RemoveOutbound(n)
      PROVE  ListedInv'
  <2> SUFFICES ASSUME NEW g \in Groups, NEW p \in outbounds', p.group = g
               PROVE  p \in ToSet(groups'[g])
    BY DEF ListedInv
  <2> DEFINE s == groups[g]
             i == FirstOf(At(g, n))
  <2>1. /\ p \in outbounds /\ p.name # n
        /\ groups'[g] = s \/ (At(g, n) # {} /\ groups'[g] = RemoveAt(s, i))
        /\ At(g, n) # {} => i \in At(g, n)
    BY <1>3, DropFacts DEF Named
  <2>2. p \in ToSet(s) /\ s \in Seq(AllOutbounds)
    BY <2>1 DEF ListedInv, TypeOK
  <2>3. CASE groups'[g] = s
    BY <2>2, <2>3
  <2>4. CASE At(g, n) # {} /\ groups'[g] = RemoveAt(s, i)
    <3>1. i \in DOMAIN s /\ s[i].name = n
      BY <2>1, <2>4 DEF At
    <3> HIDE DEF i, s
    <3>2. ToSet(s) \ {s[i]} \subseteq ToSet(RemoveAt(s, i))
      BY <2>2, <3>1, RemoveFacts
    <3> QED BY <2>1, <2>2, <2>4, <3>1, <3>2
  <2> QED BY <2>1, <2>3, <2>4
<1>4. CASE ~ AgentNext
  BY <1>1, <1>4, CallerSteps DEF routerVars
<1>5. CASE AgentNext
  BY <1>1, <1>2, <1>3, <1>5, AgentSteps DEF TableStep
<1> QED BY <1>4, <1>5

\* An outbound whose name is new joins the one group that is its own.
LEMMA AddMatches ==
    ASSUME TypeOK, NEW o \in AllOutbounds, AddOutbound(o),
           \A p \in outbounds : p.name # o.name,
           NEW g \in Groups, Matched(g)
    PROVE  Matched(g)'
<1>1. outbounds' = outbounds \cup {o} /\ o \notin outbounds
  BY DEF AddOutbound, Named
<1>2. groups[g] \in Seq(AllOutbounds)
  BY DEF TypeOK
<1>3. ToSet(groups[g]) = {p \in outbounds : p.group = g} /\ IsInjective(groups[g])
  BY DEF Matched
<1>4. groups'[g] = IF g = o.group THEN Append(groups[g], o) ELSE groups[g]
  BY DEF AddOutbound
<1>5. CASE g = o.group
  <2>1. o \notin ToSet(groups[g])
    BY <1>1, <1>3
  <2>2. /\ ToSet(groups'[g]) = ToSet(groups[g]) \cup {o}
        /\ IsInjective(groups'[g])
    BY <1>2, <1>3, <1>4, <1>5, <2>1, AppendFacts
  <2> QED BY <1>1, <1>3, <1>5, <2>2 DEF Matched
<1>6. CASE g # o.group
  BY <1>1, <1>3, <1>4, <1>6 DEF Matched
<1> QED BY <1>5, <1>6

\* The outbound that leaves is the one its group lists under the name.
LEMMA DropMatches ==
    ASSUME TypeOK, NEW name, RemoveOutbound(name), NEW g \in Groups, Matched(g)
    PROVE  Matched(g)'
<1> DEFINE s == groups[g]
           at == At(g, name)
<1>1. s \in Seq(AllOutbounds)
  BY DEF TypeOK
<1>2. ToSet(s) = {p \in outbounds : p.group = g} /\ IsInjective(s)
  BY DEF Matched
<1>3. /\ outbounds' = outbounds \ Named(name, outbounds)
      /\ groups'[g] = IF (\E o \in Named(name, outbounds) : o.group = g) /\ at # {}
                         THEN RemoveAt(s, FirstOf(at)) ELSE s
      /\ at # {} => FirstOf(at) \in at
  BY DropFacts
<1>4. \A p, q \in outbounds : p.name = q.name => p = q
  BY DEF TypeOK
<1> HIDE DEF s
<1>5. CASE \E o \in Named(name, outbounds) : o.group = g
  <2>1. PICK o \in Named(name, outbounds) : o.group = g
    BY <1>5
  <2>2. o \in ToSet(s) /\ o.name = name /\ o \in outbounds
    BY <1>2, <2>1 DEF Named
  <2>3. PICK i \in DOMAIN s : s[i] = o
    BY <2>2 DEF ToSet
  <2>4. at # {}
    BY <2>2, <2>3 DEF At, s
  <2> DEFINE j == FirstOf(at)
  <2>5. j \in DOMAIN s /\ s[j].name = name
    BY <1>3, <2>4 DEF At, s
  <2> HIDE DEF j
  <2>6. s[j] \in outbounds
    BY <1>2, <2>5 DEF ToSet
  <2>7. s[j] = o
    BY <1>4, <2>2, <2>5, <2>6
  <2>8. groups'[g] = RemoveAt(s, j)
    BY <1>3, <1>5, <2>4 DEF j
  <2>9. ToSet(groups'[g]) = ToSet(s) \ {o} /\ IsInjective(groups'[g])
    BY <1>1, <1>2, <2>5, <2>7, <2>8, RemoveFacts
  <2>10. outbounds' = outbounds \ {o}
    BY <1>3, <1>4, <2>2 DEF Named
  <2> QED BY <1>2, <2>9, <2>10 DEF Matched
<1>6. CASE ~ \E o \in Named(name, outbounds) : o.group = g
  <2>1. groups'[g] = s
    BY <1>3, <1>6
  <2>2. {p \in outbounds' : p.group = g} = {p \in outbounds : p.group = g}
    BY <1>3, <1>6
  <2> QED BY <1>2, <2>1, <2>2 DEF Matched
<1> QED BY <1>5, <1>6

LEMMA MatchNext ==
    ASSUME TypeOK, TodoInv, RegisteredInv, FreshInv, MatchInv, [Next]_vars
    PROVE  MatchInv'
<1>0. starts \in Nat
  <2>1. MaxStarts \in Nat /\ starts \in 0..MaxStarts
    BY BoundsAssumption DEF TypeOK
  <2> QED BY <2>1
<1>1. CASE UNCHANGED <<outbounds, groups, starts>>
  BY <1>1 DEF MatchInv, Matched
<1>2. CASE ~ AgentNext
  BY <1>1, <1>2, CallerSteps DEF agentVars, routerVars
<1>3. CASE Start
  BY <1>0, <1>3 DEF Start, MatchInv, Matched, routerVars
<1>4. CASE InitRules \/ RemovedDone \/ ReplacedDone \/ ReloadRules
  BY <1>1, <1>4 DEF InitRules, RemovedDone, ReplacedDone, ReloadRules, UpdateRules, routerVars
<1>5. ASSUME NEW o \in AllOutbounds, InitOutbound(o) \/ AddOne(o)
      PROVE  MatchInv'
  <2>1. AddOutbound(o) /\ starts' = starts /\ o \in todo /\ apc \in {"init", "add"}
    BY <1>5 DEF InitOutbound, AddOne
  <2>2. ASSUME starts <= 1
        PROVE  \A p \in outbounds : p.name # o.name
    <3>1. CASE apc = "init"
      <4>1. o \in config.outbounds /\ outbounds = config.outbounds \ todo
        BY <2>1, <2>2, <3>1 DEF TodoInv, FreshInv
      <4> QED BY <2>1, <4>1, ConfigFacts
    <3>2. CASE apc = "add"
      <4>1. o \in target.outbounds /\ outbounds = target.outbounds \ todo
        BY <2>1, <3>2 DEF TodoInv, RegisteredInv
      <4> QED BY <2>1, <4>1, ConfigFacts
    <3> QED BY <2>1, <3>1, <3>2
  <2>3. ASSUME starts <= 1, NEW g \in Groups
        PROVE  Matched(g)'
    <3>1. Matched(g)
      BY <2>3 DEF MatchInv
    <3> QED BY <2>1, <2>2, <2>3, <3>1, AddMatches
  <2> QED BY <2>1, <2>3 DEF MatchInv
<1>6. ASSUME NEW n, RemoveOne(n)
      PROVE  MatchInv'
  <2>1. RemoveOutbound(n) /\ starts' = starts
    BY <1>6 DEF RemoveOne
  <2>2. ASSUME starts <= 1, NEW g \in Groups
        PROVE  Matched(g)'
    <3>1. Matched(g)
      BY <2>2 DEF MatchInv
    <3> QED BY <2>1, <3>1, DropMatches
  <2> QED BY <2>1, <2>2 DEF MatchInv
<1>7. ASSUME NEW c, Reload(c)
      PROVE  MatchInv'
  BY <1>1, <1>7 DEF Reload, routerVars
<1> QED BY <1>2, <1>3, <1>4, <1>5, <1>6, <1>7 DEF AgentNext

----------------------------------------------------------------------------
(* Turns *)

\* A group that has just changed begins with equal shares.
LEMMA SharesBegin ==
    ASSUME NEW S, NEW s \in Seq(S), s # << >>, NEW k \in Nat, NEW p,
           \A x \in S : p[x] = 0
    PROVE  Shares(s, k, p)
<1> DEFINE n == Len(s)
           e == k % n
<1>1. n \in Nat /\ n > 0 /\ \A i \in 1..n : s[i] \in S
  BY EmptySeq
<1> HIDE DEF n
<1>2. e \in 0..(n - 1)
  <2>1. Turns(k, n)
    BY <1>1, NextRemainder
  <2> QED BY <2>1 DEF Turns
<1> HIDE DEF e
<1>3. ASSUME NEW j \in 0..(n - 1)
      PROVE  p[s[j + 1]] = 0 + (IF Within(j, e, e) THEN 1 ELSE 0)
  <2>1. p[s[j + 1]] = 0
    BY <1>1
  <2>2. ~ Within(j, e, e)
    BY <1>2 DEF Within
  <2> QED BY <2>1, <2>2
<1>4. 0 \in Nat
  OBVIOUS
<1> QED BY <1>2, <1>3, <1>4 DEF Shares, e, n

\* The next turn goes to the place after the last one: the round grows by one
\* place, or ends and is counted for everybody.
LEMMA SharesStep ==
    ASSUME NEW S, NEW s \in Seq(S), s # << >>, IsInjective(s), NEW k \in Nat,
           NEW p, NEW r, Shares(s, k, p),
           NEW i, i = ((k + 1) % Len(s)) + 1, i \in DOMAIN s,
           r[s[i]] = p[s[i]] + 1,
           \A x \in S : x # s[i] => r[x] = p[x]
    PROVE  Shares(s, k + 1, r)
<1> DEFINE n == Len(s)
           e == k % n
           f == (k + 1) % n
<1>1. n \in Nat /\ n > 0 /\ DOMAIN s = 1..n /\ \A j \in 1..n : s[j] \in S
  BY EmptySeq
<1>2. PICK q \in Nat, b \in 0..(n - 1) : \A j \in 0..(n - 1) :
         p[s[j + 1]] = q + (IF Within(j, b, e) THEN 1 ELSE 0)
  BY DEF Shares
<1> HIDE DEF n
<1>4. i = f + 1
  BY DEF n
<1>0. e = k % n /\ f = (k + 1) % n
  OBVIOUS
<1> HIDE DEF e, f
<1>3. e \in 0..(n - 1) /\ f = IF e + 1 = n THEN 0 ELSE e + 1
  <2>1. Turns(k, n)
    BY <1>1, NextRemainder
  <2> QED BY <1>0, <2>1 DEF Turns
<1>5. f \in 0..(n - 1)
  BY <1>1, <1>3
<1>6. ASSUME NEW j \in 0..(n - 1)
      PROVE  r[s[j + 1]] = IF j = f THEN p[s[j + 1]] + 1 ELSE p[s[j + 1]]
  <2>1. j + 1 \in 1..n /\ s[j + 1] \in S /\ (j = f <=> j + 1 = i)
    BY <1>1, <1>4, <1>5
  <2>2. j + 1 # i => s[j + 1] # s[i]
    BY <1>1, <2>1 DEF IsInjective
  <2> QED BY <2>1, <2>2
<1>7. CASE f = b
  <2>1. ASSUME NEW j \in 0..(n - 1)
        PROVE  r[s[j + 1]] = (q + 1) + (IF Within(j, f, f) THEN 1 ELSE 0)
    <3>1. Within(j, b, e) <=> j # f
      BY <1>3, <1>5, <1>7 DEF Within
    <3>2. ~ Within(j, f, f)
      BY <1>5 DEF Within
    <3>3. p[s[j + 1]] = q + (IF j # f THEN 1 ELSE 0)
      BY <1>2, <3>1
    <3> QED BY <1>6, <3>2, <3>3
  <2>2. q + 1 \in Nat
    OBVIOUS
  <2> QED BY <1>5, <2>1, <2>2 DEF Shares, f, n
<1>8. CASE f # b
  <2>1. ASSUME NEW j \in 0..(n - 1)
        PROVE  r[s[j + 1]] = q + (IF Within(j, b, f) THEN 1 ELSE 0)
    <3>1. /\ Within(j, b, f) <=> Within(j, b, e) \/ j = f
          /\ ~ Within(f, b, e)
      BY <1>3, <1>5, <1>8 DEF Within
    <3>2. p[s[j + 1]] = q + (IF Within(j, b, e) THEN 1 ELSE 0)
      BY <1>2
    <3>3. CASE j = f
      BY <1>6, <3>1, <3>2, <3>3
    <3>4. CASE j # f
      BY <1>6, <3>1, <3>2, <3>4
    <3> QED BY <3>3, <3>4
  <2> QED BY <2>1 DEF Shares, f, n
<1> QED BY <1>7, <1>8

\* Only the members of s matter.
LEMMA SharesSame ==
    ASSUME NEW S, NEW s \in Seq(S), s # << >>, NEW k, NEW p, NEW r, Shares(s, k, p),
           \A x \in ToSet(s) : r[x] = p[x]
    PROVE  Shares(s, k, r)
<1>1. PICK q \in Nat, b \in 0..(Len(s) - 1) : \A j \in 0..(Len(s) - 1) :
         p[s[j + 1]] = q + (IF Within(j, b, k % Len(s)) THEN 1 ELSE 0)
  BY DEF Shares
<1>2. ASSUME NEW j \in 0..(Len(s) - 1) PROVE r[s[j + 1]] = p[s[j + 1]]
  <2>1. j + 1 \in DOMAIN s
    OBVIOUS
  <2> QED BY <2>1 DEF ToSet
<1>3. \A j \in 0..(Len(s) - 1) :
         r[s[j + 1]] = q + (IF Within(j, b, k % Len(s)) THEN 1 ELSE 0)
  BY <1>1, <1>2
<1> QED BY <1>3 DEF Shares

\* Shares of at most one turn more or less differ by at most one.
LEMMA SharesEqual ==
    ASSUME NEW S, NEW s \in Seq(S), NEW k, NEW p, Shares(s, k, p),
           NEW x \in ToSet(s), NEW y \in ToSet(s)
    PROVE  p[x] - p[y] <= 1
<1>1. PICK q \in Nat, b \in 0..(Len(s) - 1) : \A j \in 0..(Len(s) - 1) :
         p[s[j + 1]] = q + (IF Within(j, b, k % Len(s)) THEN 1 ELSE 0)
  BY DEF Shares
<1>2. ASSUME NEW z \in ToSet(s) PROVE p[z] = q \/ p[z] = q + 1
  <2>1. PICK i \in 1..Len(s) : z = s[i]
    BY DEF ToSet
  <2>2. i - 1 \in 0..(Len(s) - 1) /\ (i - 1) + 1 = i
    BY <2>1
  <2>3. p[s[(i - 1) + 1]] = q + (IF Within(i - 1, b, k % Len(s)) THEN 1 ELSE 0)
    BY <1>1, <2>2
  <2>4. p[z] = q + (IF Within(i - 1, b, k % Len(s)) THEN 1 ELSE 0)
    BY <2>1, <2>2, <2>3
  <2> QED BY <2>4
<1> QED BY <1>2

\* Starts are counted upwards.
LEMMA StartsGrow ==
    ASSUME TypeOK, [Next]_vars
    PROVE  starts' <= 1 => starts <= 1
<1>1. starts \in Nat
  <2>1. MaxStarts \in Nat /\ starts \in 0..MaxStarts
    BY BoundsAssumption DEF TypeOK
  <2> QED BY <2>1
<1>2. CASE ~ AgentNext
  BY <1>2, CallerSteps DEF agentVars
<1>3. CASE Start
  BY <1>1, <1>3 DEF Start
<1>4. CASE InitRules \/ RemovedDone \/ ReplacedDone \/ ReloadRules
  BY <1>4 DEF InitRules, RemovedDone, ReplacedDone, ReloadRules
<1>5. ASSUME NEW o, InitOutbound(o) \/ AddOne(o) PROVE starts' = starts
  BY <1>5 DEF InitOutbound, AddOne
<1>6. ASSUME NEW n, RemoveOne(n) PROVE starts' = starts
  BY <1>6 DEF RemoveOne
<1>7. ASSUME NEW c, Reload(c) PROVE starts' = starts
  BY <1>7 DEF Reload
<1> QED BY <1>2, <1>3, <1>4, <1>5, <1>6, <1>7 DEF AgentNext

\* A turn advances one counter and gives one session to one member.
LEMMA FairTurn ==
    ASSUME TypeOK, TurnInv, MatchInv, FairInv, NEW c \in Callers, TakeTurn(c)
    PROVE  FairInv'
<1> DEFINE g == call[c].group
           o == Owner(c)
           k == counter[g][o]
           x == Chosen(c)
<1>1. /\ g \in Groups /\ o \in Callers /\ k \in Nat
      /\ Place(c) \in DOMAIN groups[g]
      /\ x \in AllOutbounds /\ x = groups[g][Place(c)]
      /\ Place(c) = ((k + 1) % Len(groups[g])) + 1
      /\ counter' = [counter EXCEPT ![g][o] = k + 1]
      /\ picks' = [picks EXCEPT ![x] = @ + 1]
      /\ groups' = groups /\ starts' = starts
  BY TurnFacts DEF routerVars, agentVars, Chosen, Place
<1> HIDE DEF g, o, k, x
<1>2. /\ counter \in [Groups -> [Callers -> 0..MaxRoutes]]
      /\ picks \in [AllOutbounds -> 0..MaxRoutes]
      /\ \A h \in Groups : groups[h] \in Seq(AllOutbounds)
  BY DEF TypeOK
<1>3. /\ counter'[g][o] = k + 1
      /\ \A h \in Groups, d \in Callers : h # g \/ d # o => counter'[h][d] = counter[h][d]
  BY <1>1, <1>2
<1>4. /\ picks'[x] = picks[x] + 1
      /\ \A y \in AllOutbounds : y # x => picks'[y] = picks[y]
  BY <1>1, <1>2
<1>5. ASSUME NEW h \in Groups
      PROVE  IsFiniteSet(Counters(h)')
  <2>1. Counters(h)' \subseteq Counters(h) \cup {o}
    BY <1>3 DEF Counters
  <2>2. IsFiniteSet(Counters(h) \cup {o})
    BY FS_AddElement DEF FairInv
  <2> QED BY <2>1, <2>2, FS_Subset
<1>6. ASSUME starts <= 1, NEW h \in Groups, groups[h] # << >>,
             NEW w \in Callers, \A d \in Callers \ {w} : counter'[h][d] = 0
      PROVE  Shares(groups[h], counter'[h][w], picks')
  <2>1. Matched(h) /\ Matched(g)
    BY <1>1, <1>6 DEF MatchInv
  <2>2. CASE h = g
    <3>1. w = o
      <4>1. k + 1 # 0
        BY <1>1
      <4> QED BY <1>1, <1>3, <1>6, <2>2, <4>1
    <3>2. \A d \in Callers \ {w} : counter[h][d] = 0
      BY <1>3, <1>6, <3>1
    <3>3. Shares(groups[h], counter[h][w], picks)
      BY <1>6, <3>2 DEF FairInv
    <3>4. counter[h][w] = k /\ counter'[h][w] = k + 1
      BY <1>3, <2>2, <3>1 DEF k
    <3>5. IsInjective(groups[h])
      BY <2>1 DEF Matched
    <3>6. groups[h] \in Seq(AllOutbounds)
      BY <1>2
    <3> DEFINE s == groups[h]
               i == Place(c)
    <3>7. /\ i = ((k + 1) % Len(s)) + 1 /\ i \in DOMAIN s /\ x = s[i]
          /\ s # << >> /\ s \in Seq(AllOutbounds) /\ IsInjective(s)
          /\ Shares(s, k, picks)
      BY <1>1, <1>6, <2>2, <3>3, <3>4, <3>5, <3>6
    <3> HIDE DEF s, i
    <3>8. /\ picks'[s[i]] = picks[s[i]] + 1
          /\ \A y \in AllOutbounds : y # s[i] => picks'[y] = picks[y]
      BY <1>4, <3>7
    <3>9. Shares(s, k + 1, picks')
      <4> DEFINE r == picks'
                 p == picks
      <4>1. /\ s \in Seq(AllOutbounds) /\ s # << >> /\ IsInjective(s) /\ k \in Nat
            /\ Shares(s, k, p)
            /\ i = ((k + 1) % Len(s)) + 1 /\ i \in DOMAIN s
            /\ r[s[i]] = p[s[i]] + 1
            /\ \A y \in AllOutbounds : y # s[i] => r[y] = p[y]
        BY <1>1, <3>7, <3>8
      <4> HIDE DEF r, p
      <4>2. Shares(s, k + 1, r)
        BY <4>1, SharesStep
      <4> QED BY <4>2 DEF r
    <3> QED BY <3>4, <3>9 DEF s
  <2>3. CASE h # g
    <3>1. \A d \in Callers : counter'[h][d] = counter[h][d]
      BY <1>3, <2>3
    <3>2. Shares(groups[h], counter[h][w], picks)
      BY <1>6, <3>1 DEF FairInv
    <3>3. x.group = g
      <4>1. x \in ToSet(groups[g])
        BY <1>1 DEF ToSet
      <4> QED BY <2>1, <4>1 DEF Matched
    <3>4. \A y \in ToSet(groups[h]) : y # x /\ y \in AllOutbounds
      BY <2>1, <2>3, <3>3 DEF Matched, TypeOK
    <3>5. \A y \in ToSet(groups[h]) : picks'[y] = picks[y]
      BY <1>4, <3>4
    <3>6. groups[h] \in Seq(AllOutbounds)
      BY <1>2
    <3>7. Shares(groups[h], counter[h][w], picks')
      BY <1>6, <3>2, <3>5, <3>6, SharesSame
    <3> QED BY <3>1, <3>7
  <2> QED BY <2>2, <2>3
<1>7. Callers # {}
  OBVIOUS
<1> QED BY <1>1, <1>5, <1>6, <1>7 DEF FairInv

LEMMA FairNext ==
    ASSUME TypeOK, TurnInv, MatchInv, FairInv, TypeOK', [Next]_vars
    PROVE  FairInv'
<1>1. ASSUME UNCHANGED <<groups, counter, picks>>
      PROVE  FairInv'
  <2>1. \A g \in Groups : Counters(g)' = Counters(g)
    BY <1>1 DEF Counters
  <2> QED BY <1>1, <2>1, StartsGrow DEF FairInv
<1>2. ASSUME NEW c \in Callers, StoreCounter(c)
      PROVE  FairInv'
  BY <1>1, <1>2 DEF StoreCounter, routerVars
<1>3. ASSUME NEW c \in Callers, TakeTurn(c)
      PROVE  FairInv'
  BY <1>3, FairTurn
<1>4. ASSUME NEW c \in Callers, NEW s \in Sessions, RouteAtOnce(c, s) \/ RouteInTurn(c, s)
      PROVE  FairInv'
  BY <1>1, <1>4 DEF RouteAtOnce, RouteInTurn, routerVars, counterVars
<1>5. CASE AgentNext \/ UNCHANGED vars
  <2>1. TableStep
    BY <1>5, AgentSteps
  <2>2. counter' = counter
    BY <2>1 DEF TableStep, counterVars
  <2>3. CASE UNCHANGED <<outbounds, groups, picks>>
    BY <1>1, <2>2, <2>3
  <2>4. CASE picks' = NoPicks
    <3>1. \A g \in Groups : Counters(g)' = Counters(g)
      BY <2>2 DEF Counters
    <3>2. \A o \in AllOutbounds : picks'[o] = 0
      BY <2>4 DEF NoPicks
    <3>3. ASSUME NEW g \in Groups, groups'[g] # << >>, NEW w \in Callers
          PROVE  Shares(groups'[g], counter'[g][w], picks')
      <4>1. groups'[g] \in Seq(AllOutbounds)
        BY DEF TypeOK
      <4>2. counter'[g][w] \in Nat
        BY <2>2, Numbers
      <4> QED BY <3>2, <3>3, <4>1, <4>2, SharesBegin
    <3> QED BY <3>1, <3>2, <3>3 DEF FairInv
  <2> QED BY <2>1, <2>3, <2>4, AddFacts, DropFacts DEF TableStep
<1> QED BY <1>2, <1>3, <1>4, <1>5, Steps

----------------------------------------------------------------------------
(* The theorems *)

\* A bound of one start is one for every state.
LEMMA OneStart ==
    ASSUME MaxStarts <= 1, TypeOK
    PROVE  starts <= 1
<1>1. MaxStarts \in Nat
  BY BoundsAssumption
<1>2. starts \in 0..MaxStarts
  BY DEF TypeOK
<1> QED BY <1>1, <1>2

LEMMA InitInv == Init => IInv
<1> SUFFICES ASSUME Init PROVE IInv
  OBVIOUS
<1>1. 0 \in 0..MaxRoutes /\ 0 \in 0..MaxReloads /\ 0 \in 0..MaxStarts
  <2>1. MaxRoutes \in Nat /\ MaxReloads \in Nat /\ MaxStarts \in Nat
    BY BoundsAssumption
  <2> QED BY <2>1
<1>2. << >> \in Seq(AllOutbounds) /\ DOMAIN << >> = {}
  BY EmptySeq
<1>0. /\ \A g \in Groups, c \in Callers : counter[g][c] = 0
      /\ \A o \in AllOutbounds : picks[o] = 0
      /\ routes = 0
  BY DEF Init, NoPicks
<1>3. Busy = {} /\ IsFiniteSet(Busy) /\ Cardinality(Busy) = 0
  <2>1. Busy = {}
    BY DEF Init, Busy
  <2> QED BY <2>1, FS_EmptySet
<1>4. TypeOK
  BY <1>1, <1>2 DEF TypeOK, NoPicks, Init
<1>5. TurnInv
  BY DEF TurnInv, Init
<1>6. CountInv
  BY <1>0, <1>3 DEF CountInv
<1>7. TodoInv /\ RegisteredInv /\ RulesInv /\ FreshInv
  BY DEF Init, TodoInv, RegisteredInv, RulesInv, FreshInv
<1>8. MatchInv
  <2>1. ToSet(<< >>) = {} /\ IsInjective(<< >>)
    BY <1>2 DEF ToSet, IsInjective
  <2> QED BY <2>1 DEF MatchInv, Matched, Init
<1>10. ListedInv
  BY DEF Init, ListedInv
<1>9. FairInv
  <2>1. \A g \in Groups : Counters(g) = {}
    BY <1>0 DEF Counters
  <2> QED BY <2>1, FS_EmptySet DEF FairInv, Init
<1> QED BY <1>4, <1>5, <1>6, <1>7, <1>8, <1>9, <1>10 DEF IInv

LEMMA NextInv == IInv /\ [Next]_vars => IInv'
<1> SUFFICES ASSUME IInv, [Next]_vars PROVE IInv'
  OBVIOUS
<1> USE DEF IInv
<1>1. TurnInv'
  BY TurnNext
<1>2. CountInv'
  BY CountNext
<1>3. TypeOK'
  BY <1>2, TypeNext
<1>4. TodoInv' /\ RegisteredInv' /\ RulesInv' /\ FreshInv'
  BY TodoNext, RegisteredNext, RulesNext, FreshNext
<1>5. ListedInv' /\ MatchInv'
  BY ListedNext, MatchNext
<1>6. FairInv'
  BY <1>3, FairNext
<1> QED BY <1>1, <1>2, <1>3, <1>4, <1>5, <1>6

\* The inductive invariant holds in every reachable state.
THEOREM Invariance == Spec => []IInv
BY InitInv, NextInv, PTL DEF Spec

\* Once Start or ReloadConfig has returned, the router holds the outbounds and the
\* rules of the stored configuration, and lists each of those outbounds in its
\* group, whatever the configurations, however often the agent was started, and
\* wherever callers were between two removals or additions.  (What else a group may
\* list after several Starts is not said here; see Grouped.)
THEOREM Configured == Spec => []RouterIsConfig
<1>1. IInv => RouterIsConfig
  <2> SUFFICES ASSUME IInv, apc = "running", NEW o \in config.outbounds, o.group # ""
               PROVE  o \in ToSet(groups[o.group])
    BY DEF IInv, RegisteredInv, RulesInv, RouterIsConfig
  <2>1. o \in outbounds /\ o \in AllOutbounds
    BY ConfigFacts DEF IInv, RegisteredInv
  <2>2. o.group \in Groups
    BY <2>1 DEF Groups
  <2> QED BY <2>1, <2>2 DEF IInv, ListedInv
<1> QED BY <1>1, Invariance, PTL

\* When the agent is started once, as main does, AddOutbound and RemoveOutbound
\* keep each group the list of its registered outbounds, without repetition.  (A
\* second Start after a failed one would append every outbound once more.)
THEOREM Grouped ==
    ASSUME MaxStarts <= 1
    PROVE  Spec => []GroupsMatch
<1>1. IInv => GroupsMatch
  <2>1. ASSUME IInv PROVE starts <= 1
    BY <2>1, OneStart DEF IInv
  <2> QED BY <2>1 DEF IInv, MatchInv, Matched, GroupsMatch
<1> QED BY <1>1, Invariance, PTL

\* The round robin is fair for any number of callers that take turns between one
\* another's two halves of selectRoundRobin, as long as one counter serves the
\* group: every member is chosen as often as every other, up to one.
THEOREM Fair ==
    ASSUME MaxStarts <= 1
    PROVE  Spec => []RoundRobinFair
<1>1. IInv => RoundRobinFair
  <2> SUFFICES ASSUME IInv, NEW g \in Groups, ~ (Cardinality(Counters(g)) > 1),
                      NEW x \in ToSet(groups[g]), NEW y \in ToSet(groups[g])
               PROVE  picks[x] - picks[y] <= 1
    BY DEF RoundRobinFair, Counters
  <2>1. starts <= 1
    BY OneStart DEF IInv
  <2>2. groups[g] \in Seq(AllOutbounds) /\ groups[g] # << >>
    <3>1. groups[g] \in Seq(AllOutbounds)
      BY DEF IInv, TypeOK
    <3>2. DOMAIN << >> = {}
      BY EmptySeq
    <3> QED BY <3>1, <3>2 DEF ToSet
  <2>3. IsFiniteSet(Counters(g)) /\ Cardinality(Counters(g)) \in {0, 1}
    <3>1. IsFiniteSet(Counters(g))
      BY DEF IInv, FairInv
    <3> QED BY <3>1, FS_CardinalityType
  <2>4. Counters(g) = {} \/ \E w : Counters(g) = {w}
    BY <2>3, FS_EmptySet, FS_Singleton
  <2>5. \A c \in Callers : counter[g][c] \in Nat /\ (c \notin Counters(g) => counter[g][c] = 0)
    BY Numbers DEF IInv, Counters
  <2>6. CASE Callers = {}
    <3>1. x \in AllOutbounds /\ y \in AllOutbounds
      BY <2>2 DEF ToSet
    <3>2. picks[x] = 0 /\ picks[y] = 0
      BY <2>1, <2>2, <2>6, <3>1 DEF IInv, FairInv
    <3> QED BY <3>2
  <2>7. CASE Callers # {}
    <3>1. PICK w \in Callers : \A c \in Callers \ {w} : counter[g][c] = 0
      BY <2>4, <2>5, <2>7 DEF Counters
    <3>2. Shares(groups[g], counter[g][w], picks)
      BY <2>1, <2>2, <3>1 DEF IInv, FairInv
    <3> QED BY <2>2, <3>2, SharesEqual
  <2> QED BY <2>6, <2>7
<1> QED BY <1>1, Invariance, PTL
=============================================================================
