--------------------------- MODULE ConnPoolProofs ---------------------------
(***************************************************************************)
(* The inductive invariant of ConnPool and what follows from it, for any   *)
(* number of users, any limit of the pool and any number of dials.         *)
(***************************************************************************)
EXTENDS ConnPool, SequenceTheorems, WellFoundedInduction, TLAPS

\* A user has a connection exactly while it probes, pools or uses it.  Only TCP
\* probes, and only QUIC pools before the use.
HandsInv ==
    \A u \in Users :
        /\ uconn[u] # 0 <=> upc[u] \in {"probe", "keep", "using"}
        /\ upc[u] = "probe" => kind = "tcp"
        /\ upc[u] = "keep" => kind = "quic"

\* Whether u alone may use its connection: TCP's always, and QUIC's until Keep
\* has pooled it.
Owns(u) == (kind = "tcp" /\ uconn[u] # 0) \/ upc[u] = "keep"

\* Such a connection is open, not pooled, and no other user's.
OwnInv ==
    /\ kind = "tcp" => IsInjective(conns)
    /\ \A u \in Users : Owns(u) =>
          /\ uconn[u] \in open \ ToSet(conns)
          /\ \A v \in Users : uconn[v] = uconn[u] => v = u

\* What is pooled is open on this side, and a closed pool is empty.
PooledInv ==
    /\ ToSet(conns) \subseteq open
    /\ closed => conns = << >>

\* Every open connection of TCP is pooled or in somebody's hands.  One of QUIC
\* can be dead, dialled too late, or not pooled yet, but not merely in use: its
\* users come and go.
Placed(c) ==
    \/ c \in ToSet(conns)
    \/ kind = "quic" /\ c \in unpooled \cup dead
    \/ \E u \in Users : uconn[u] = c /\ Owns(u)

PlaceInv == \A c \in open : Placed(c)

IInv == TypeOK /\ HandsInv /\ OwnInv /\ PooledInv /\ PlaceInv
----------------------------------------------------------------------------
(* Sequences *)

\* Append puts one element at the end and keeps the others.
LEMMA AppendFacts ==
    ASSUME NEW S, NEW s \in Seq(S), NEW e \in S
    PROVE  /\ Append(s, e) \in Seq(S)
           /\ Len(Append(s, e)) = Len(s) + 1
           /\ ToSet(Append(s, e)) = ToSet(s) \cup {e}
           /\ IsInjective(s) /\ e \notin ToSet(s) => IsInjective(Append(s, e))
<1>1. /\ Append(s, e) \in Seq(S)
      /\ Len(Append(s, e)) = Len(s) + 1
      /\ \A i \in 1..Len(s) : Append(s, e)[i] = s[i]
      /\ Append(s, e)[Len(s) + 1] = e
  BY AppendProperties
<1>2. /\ Len(s) \in Nat
      /\ DOMAIN s = 1..Len(s)
      /\ DOMAIN Append(s, e) = 1..(Len(s) + 1)
  BY <1>1
<1> DEFINE t == Append(s, e)
<1> HIDE DEF t
<1>3. ToSet(t) = ToSet(s) \cup {e}
  BY <1>1, <1>2 DEF ToSet, t
<1>4. IsInjective(s) /\ e \notin ToSet(s) => IsInjective(t)
  BY <1>1, <1>2 DEF IsInjective, ToSet, t
<1> QED BY <1>1, <1>3, <1>4 DEF t

\* What Front leaves and Last takes are together the sequence.
LEMMA FrontFacts ==
    ASSUME NEW S, NEW s \in Seq(S), s # << >>
    PROVE  /\ Front(s) \in Seq(S)
           /\ Len(Front(s)) <= Len(s)
           /\ Last(s) \in S
           /\ ToSet(s) = ToSet(Front(s)) \cup {Last(s)}
           /\ IsInjective(s) =>
                 IsInjective(Front(s)) /\ Last(s) \notin ToSet(Front(s))
<1>1. /\ Len(s) \in Nat \ {0}
      /\ DOMAIN s = 1..Len(s)
      /\ \A i \in 1..Len(s) : s[i] \in S
  BY EmptySeq
<1> DEFINE t == Front(s)
<1>2. /\ t \in Seq(S)
      /\ Len(t) = Len(s) - 1
      /\ \A i \in 1..(Len(s) - 1) : t[i] = s[i]
  <2>1. \A i \in 1..(Len(s) - 1) : s[i] \in S
    BY <1>1
  <2>2. /\ SubSeq(s, 1, Len(s) - 1) \in Seq(S)
        /\ Len(SubSeq(s, 1, Len(s) - 1))
             = IF 1 <= Len(s) - 1 THEN Len(s) - 1 - 1 + 1 ELSE 0
        /\ \A i \in 1..(Len(s) - 1 - 1 + 1) :
              SubSeq(s, 1, Len(s) - 1)[i] = s[1 + i - 1]
    BY <1>1, <2>1, SubSeqProperties, Len(s) - 1 \in Int, 1 \in Int
  <2> QED BY <1>1, <2>2 DEF Front
<1>3. DOMAIN t = 1..(Len(s) - 1)
  BY <1>2
<1> HIDE DEF t
<1>4. ToSet(s) = ToSet(t) \cup {s[Len(s)]}
  BY <1>1, <1>2, <1>3 DEF ToSet
<1>5. IsInjective(s) => IsInjective(t) /\ s[Len(s)] \notin ToSet(t)
  BY <1>1, <1>2, <1>3 DEF IsInjective, ToSet
<1> QED BY <1>1, <1>2, <1>4, <1>5 DEF t, Last

\* The rest of a sequence from one of its places on.
LEMMA SuffixFacts ==
    ASSUME NEW S, NEW s \in Seq(S), NEW i \in DOMAIN s
    PROVE  /\ SubSeq(s, i, Len(s)) \in Seq(S)
           /\ Len(SubSeq(s, i, Len(s))) <= Len(s)
           /\ ToSet(SubSeq(s, i, Len(s))) \subseteq ToSet(s)
           /\ \A j \in DOMAIN s : j >= i => s[j] \in ToSet(SubSeq(s, i, Len(s)))
<1>1. /\ Len(s) \in Nat
      /\ DOMAIN s = 1..Len(s)
      /\ i \in 1..Len(s)
      /\ \A j \in 1..Len(s) : s[j] \in S
  OBVIOUS
<1> DEFINE t == SubSeq(s, i, Len(s))
           n == Len(s)
<1>2. /\ t \in Seq(S)
      /\ Len(t) = n - i + 1
      /\ \A j \in 1..(n - i + 1) : t[j] = s[i + j - 1]
  <2>1. i \in Int /\ n \in Int /\ \A j \in i..n : s[j] \in S
    BY <1>1
  <2>2. /\ t \in Seq(S)
        /\ Len(t) = IF i <= n THEN n - i + 1 ELSE 0
        /\ \A j \in 1..(n - i + 1) : t[j] = s[i + j - 1]
    BY <2>1, SubSeqProperties
  <2> QED BY <1>1, <2>2
<1>3. DOMAIN t = 1..(n - i + 1)
  BY <1>2
<1> HIDE DEF t
<1>4. ToSet(t) \subseteq ToSet(s)
  <2>1. \A j \in 1..(n - i + 1) : t[j] \in ToSet(s)
    <3> SUFFICES ASSUME NEW j \in 1..(n - i + 1) PROVE t[j] \in ToSet(s)
      OBVIOUS
    <3>1. i + j - 1 \in DOMAIN s /\ t[j] = s[i + j - 1]
      BY <1>1, <1>2
    <3> QED BY <3>1 DEF ToSet
  <2> QED BY <1>3, <2>1 DEF ToSet
<1>5. \A j \in DOMAIN s : j >= i => s[j] \in ToSet(t)
  <2> SUFFICES ASSUME NEW j \in DOMAIN s, j >= i PROVE s[j] \in ToSet(t)
    OBVIOUS
  <2>1. j - i + 1 \in DOMAIN t /\ t[j - i + 1] = s[i + (j - i + 1) - 1]
    BY <1>1, <1>2, <1>3
  <2>2. i + (j - i + 1) - 1 = j
    BY <1>1
  <2> QED BY <2>1, <2>2 DEF ToSet
<1> QED BY <1>1, <1>2, <1>4, <1>5 DEF t

\* There is a first healthy connection when there is a healthy one.
LEMMA FirstIsHealthy ==
    ASSUME conns \in Seq(AllConns), Healthy # {}
    PROVE  FirstHealthy \in Healthy /\ \A j \in Healthy : FirstHealthy <= j
<1>1. Healthy \subseteq Nat
  BY DEF Healthy
<1>2. \E i \in Healthy : \A j \in Healthy : ~ (<<j, i>> \in OpToRel(<, Nat))
  BY <1>1, NatLessThanWellFounded, WFMin
<1>3. \A i, j \in Nat : ~ (<<j, i>> \in OpToRel(<, Nat)) => i <= j
  BY DEF OpToRel
<1>4. \E i \in Healthy : \A j \in Healthy : i <= j
  BY <1>1, <1>2, <1>3
<1> QED BY <1>4 DEF FirstHealthy

----------------------------------------------------------------------------
(* Where the connections are *)

\* What the steps do to the pool as a set.
LEMMA PutFacts ==
    ASSUME TypeOK, HasRoom, NEW c \in 1..dialled, conns' = Append(conns, c)
    PROVE  /\ conns' \in Seq(AllConns)
           /\ Len(conns') <= MaxPooled
           /\ ToSet(conns') = ToSet(conns) \cup {c}
           /\ IsInjective(conns) /\ c \notin ToSet(conns) => IsInjective(conns')
<1>1. /\ conns \in Seq(AllConns) /\ c \in AllConns
      /\ Len(conns) < MaxPooled /\ Len(conns) \in Nat /\ MaxPooled \in Nat
  BY PoolBoundsAssumption DEF TypeOK, AllConns, HasRoom
<1> QED BY <1>1, AppendFacts

LEMMA TakeFacts ==
    ASSUME TypeOK, conns # << >>, conns' = LastTaken
    PROVE  /\ conns' \in Seq(AllConns)
           /\ Len(conns') <= MaxPooled
           /\ ToSet(conns) = ToSet(conns') \cup {Last(conns)}
           /\ Last(conns) # 0
           /\ IsInjective(conns) =>
                 IsInjective(conns') /\ Last(conns) \notin ToSet(conns')
<1>1. /\ conns \in Seq(AllConns)
      /\ Len(conns) <= MaxPooled /\ Len(conns) \in Nat /\ MaxPooled \in Nat
  BY PoolBoundsAssumption DEF TypeOK
<1>2. /\ Front(conns) \in Seq(AllConns)
      /\ Len(Front(conns)) <= Len(conns)
      /\ Last(conns) \in AllConns
      /\ ToSet(conns) = ToSet(Front(conns)) \cup {Last(conns)}
      /\ IsInjective(conns) => IsInjective(Front(conns))
                               /\ Last(conns) \notin ToSet(Front(conns))
  BY <1>1, FrontFacts
<1>3. Len(Front(conns)) \in Nat
  BY <1>2
<1> QED BY <1>1, <1>2, <1>3 DEF LastTaken, AllConns

LEMMA ShareFacts ==
    ASSUME TypeOK, Healthy # {},
           conns' = SubSeq(conns, FirstHealthy, Len(conns))
    PROVE  /\ conns' \in Seq(AllConns)
           /\ Len(conns') <= MaxPooled
           /\ ToSet(conns') \subseteq ToSet(conns)
           /\ ToSet(conns) \subseteq ToSet(conns') \cup dead
           /\ conns[FirstHealthy] \in ToSet(conns)
           /\ conns[FirstHealthy] # 0
<1> DEFINE f == FirstHealthy
<1>1. /\ conns \in Seq(AllConns)
      /\ Len(conns) <= MaxPooled /\ Len(conns) \in Nat /\ MaxPooled \in Nat
  BY PoolBoundsAssumption DEF TypeOK
<1>2. /\ f \in DOMAIN conns
      /\ \A j \in DOMAIN conns : conns[j] \notin dead => f <= j
  BY <1>1, FirstIsHealthy DEF Healthy
<1> HIDE DEF f
<1>3. /\ SubSeq(conns, f, Len(conns)) \in Seq(AllConns)
      /\ Len(SubSeq(conns, f, Len(conns))) <= Len(conns)
      /\ ToSet(SubSeq(conns, f, Len(conns))) \subseteq ToSet(conns)
      /\ \A j \in DOMAIN conns :
            j >= f => conns[j] \in ToSet(SubSeq(conns, f, Len(conns)))
  BY <1>1, <1>2, SuffixFacts
<1>4. conns' = SubSeq(conns, f, Len(conns))
  BY DEF f
<1>5. Len(conns') \in Nat
  BY <1>3, <1>4
<1>6. ToSet(conns) \subseteq ToSet(conns') \cup dead
  <2> SUFFICES ASSUME NEW j \in DOMAIN conns, conns[j] \notin dead
               PROVE  conns[j] \in ToSet(conns')
    BY DEF ToSet
  <2>1. j >= f
    BY <1>1, <1>2
  <2> QED BY <1>3, <1>4, <2>1
<1>7. conns[f] \in ToSet(conns)
  BY <1>2 DEF ToSet
<1>8. conns[f] # 0
  <2>1. conns[f] \in AllConns
    BY <1>1, <1>2
  <2> QED BY <2>1 DEF AllConns
<1> QED BY <1>1, <1>3, <1>4, <1>5, <1>6, <1>7, <1>8 DEF f

\* The pool after its connections are gone.
LEMMA EmptyFacts ==
    /\ << >> \in Seq(AllConns)
    /\ Len(<< >>) = 0
    /\ ToSet(<< >>) = {}
    /\ IsInjective(<< >>)
BY EmptySeq DEF ToSet, IsInjective

\* Where a move puts a user, and what it gives it.
LEMMA MoveFacts ==
    ASSUME TypeOK, NEW u \in Users, NEW w, NEW c, Moves(u, w, c)
    PROVE  /\ upc'[u] = w /\ uconn'[u] = c
           /\ \A v \in Users \ {u} : upc'[v] = upc[v] /\ uconn'[v] = uconn[v]
           /\ DOMAIN upc' = Users /\ DOMAIN uconn' = Users
           /\ upc' = [v \in Users |-> upc'[v]]
           /\ uconn' = [v \in Users |-> uconn'[v]]
BY DEF TypeOK, Moves

LEMMA PooledFacts ==
    ASSUME TypeOK, PooledInv
    PROVE  /\ ToSet(conns) \subseteq 1..dialled
           /\ dialled \in Nat /\ MaxDials \in Nat /\ dialled <= MaxDials
           /\ \A u \in Users : uconn[u] \in 0..dialled
<1>1. dialled \in Nat /\ MaxDials \in Nat /\ dialled <= MaxDials
  BY PoolBoundsAssumption DEF TypeOK
<1>2. ToSet(conns) \subseteq 1..dialled
  BY DEF TypeOK, PooledInv
<1>3. \A u \in Users : uconn[u] \in 0..dialled
  BY DEF TypeOK
<1> QED BY <1>1, <1>2, <1>3

----------------------------------------------------------------------------
(* Every step keeps the invariant *)

LEMMA TypeStep ==
    ASSUME TypeOK, HandsInv, PooledInv, Next PROVE TypeOK'
<1>t. /\ ToSet(conns) \subseteq 1..dialled
      /\ dialled \in Nat /\ MaxDials \in Nat /\ dialled <= MaxDials
      /\ \A u \in Users : uconn[u] \in 0..dialled
  BY PooledFacts
<1> DEFINE Places == {"out", "get", "probe", "dial", "keep", "using"}
           Moved == /\ upc' \in [Users -> Places]
                    /\ uconn' \in [Users -> 0..dialled']
           Pooled == conns' \in Seq(AllConns) /\ Len(conns') <= MaxPooled
<1>m. ASSUME NEW u \in Users, NEW w \in Places, NEW c \in 0..dialled',
             Moves(u, w, c), dialled' \in Nat, dialled <= dialled'
      PROVE  Moved
  <2>1. /\ upc \in [Users -> Places]
        /\ \A v \in Users : uconn[v] \in 0..dialled'
    BY <1>t, <1>m DEF TypeOK
  <2>2. upc' \in [Users -> Places]
    BY <1>m, <2>1 DEF Moves
  <2>3. \A v \in Users : uconn'[v] \in 0..dialled'
    BY <1>m, <2>1, MoveFacts
  <2>4. uconn' \in [Users -> 0..dialled']
    BY <1>m, <2>3, MoveFacts
  <2> QED BY <2>2, <2>4
<1>s. UNCHANGED conns => Pooled
  BY DEF TypeOK
<1>e. conns' = << >> => Pooled
  BY EmptyFacts, PoolBoundsAssumption
<1> HIDE DEF Moved, Pooled
<1>q. ASSUME Moved, Pooled, dialled' = dialled, open' \subseteq open,
             UNCHANGED <<kind, closed, dead>>, unpooled' \subseteq 1..dialled
      PROVE  TypeOK'
  BY <1>q DEF TypeOK, Moved, Pooled
<1>1. ASSUME NEW u \in Users, CallGet(u) PROVE TypeOK'
  BY <1>1, <1>m, <1>s, <1>q, <1>t DEF CallGet, connVars, TypeOK
<1>2. ASSUME NEW u \in Users, GetClosed(u) PROVE TypeOK'
  BY <1>2, <1>m, <1>s, <1>q, <1>t DEF GetClosed, connVars, TypeOK
<1>3. ASSUME NEW u \in Users, TakeIdle(u) PROVE TypeOK'
  <2>1. Last(conns) \in 0..dialled /\ Pooled
    BY <1>3, <1>t, TakeFacts DEF TakeIdle, Pooled
  <2> QED BY <1>3, <1>m, <1>q, <1>t, <2>1 DEF TakeIdle, connVars, TypeOK
<1>4. ASSUME NEW u \in Users, ProbeGood(u) PROVE TypeOK'
  BY <1>4, <1>m, <1>s, <1>q, <1>t DEF ProbeGood, connVars, TypeOK
<1>5. ASSUME NEW u \in Users, ProbeBad(u) PROVE TypeOK'
  BY <1>5, <1>m, <1>s, <1>q, <1>t DEF ProbeBad, TypeOK
<1>6. ASSUME NEW u \in Users, Share(u) PROVE TypeOK'
  <2>1. conns[FirstHealthy] \in 0..dialled /\ Pooled
    BY <1>6, <1>t, ShareFacts DEF Share, Pooled
  <2> QED BY <1>6, <1>m, <1>q, <1>t, <2>1 DEF Share, connVars, TypeOK
<1>7. ASSUME NEW u \in Users, NoneLeft(u) PROVE TypeOK'
  BY <1>7, <1>m, <1>e, <1>q, <1>t DEF NoneLeft, connVars, TypeOK
<1>8. ASSUME NEW u \in Users, DialFails(u) PROVE TypeOK'
  BY <1>8, <1>m, <1>s, <1>q, <1>t DEF DialFails, connVars, TypeOK
<1>9. ASSUME NEW u \in Users, Dialled(u) PROVE TypeOK'
  <2>1. dialled' = dialled + 1 /\ dialled' \in 0..MaxDials
    BY <1>9, <1>t DEF Dialled
  <2>2. Moved
    <3>1. CASE kind = "tcp"
      BY <1>9, <1>m, <1>t, <2>1, <3>1 DEF Dialled
    <3>2. CASE kind # "tcp"
      BY <1>9, <1>m, <1>t, <2>1, <3>2 DEF Dialled
    <3> QED BY <3>1, <3>2
  <2>3. open' \subseteq 1..dialled' /\ dead \subseteq 1..dialled'
        /\ unpooled \subseteq 1..dialled'
    BY <1>9, <1>t, <2>1 DEF Dialled, TypeOK
  <2>4. Pooled
    BY <1>9, <1>s DEF Dialled
  <2> QED BY <1>9, <2>1, <2>2, <2>3, <2>4 DEF Dialled, TypeOK, Moved, Pooled
<1>10. ASSUME NEW u \in Users, Keep(u) PROVE TypeOK'
  <2>1. uconn[u] \in 1..dialled
    BY <1>10, <1>t DEF Keep, HandsInv
  <2>2. Pooled /\ unpooled' \subseteq 1..dialled
    <3>1. CASE HasRoom
      BY <1>10, <2>1, <3>1, PutFacts DEF Keep, TypeOK, Pooled
    <3>2. CASE ~HasRoom
      BY <1>10, <1>s, <2>1, <3>2 DEF Keep, TypeOK
    <3> QED BY <3>1, <3>2
  <2> QED BY <1>10, <1>m, <1>q, <1>t, <2>1, <2>2 DEF Keep, connVars
<1>11. ASSUME NEW u \in Users, Put(u) PROVE TypeOK'
  <2>1. uconn[u] \in 1..dialled
    BY <1>11, <1>t DEF Put, HandsInv
  <2>2. Pooled /\ open' \subseteq open
    <3>1. CASE HasRoom
      BY <1>11, <2>1, <3>1, PutFacts DEF Put, Pooled
    <3>2. CASE ~HasRoom
      BY <1>11, <1>s, <3>2 DEF Put
    <3> QED BY <3>1, <3>2
  <2> QED BY <1>11, <1>m, <1>q, <1>t, <2>2 DEF Put, TypeOK
<1>12. ASSUME NEW u \in Users, Finish(u) PROVE TypeOK'
  BY <1>12, <1>m, <1>s, <1>q, <1>t DEF Finish, TypeOK
<1>13. CASE Close
  BY <1>13, <1>e DEF Close, TypeOK, Pooled
<1>14. ASSUME NEW c \in AllConns, Dies(c) PROVE TypeOK'
  BY <1>14, <1>s DEF Dies, TypeOK, Pooled
<1> QED BY <1>1, <1>2, <1>3, <1>4, <1>5, <1>6, <1>7, <1>8, <1>9, <1>10, <1>11,
           <1>12, <1>13, <1>14 DEF Next, GetRuns

LEMMA HandsStep ==
    ASSUME TypeOK, HandsInv, PooledInv, Next PROVE HandsInv'
<1>t. /\ ToSet(conns) \subseteq 1..dialled
      /\ dialled \in Nat /\ MaxDials \in Nat /\ dialled <= MaxDials
      /\ \A u \in Users : uconn[u] \in 0..dialled
      /\ open \subseteq 1..dialled
  BY PooledFacts DEF TypeOK
<1>k. kind \in {"tcp", "quic"}
  BY KindsAssumption DEF TypeOK
<1>1. ASSUME NEW u \in Users, CallGet(u) PROVE HandsInv'
  BY <1>1, <1>t, MoveFacts DEF CallGet, connVars, HandsInv
<1>2. ASSUME NEW u \in Users, GetClosed(u) PROVE HandsInv'
  BY <1>2, <1>t, MoveFacts DEF GetClosed, connVars, HandsInv
<1>3. ASSUME NEW u \in Users, TakeIdle(u) PROVE HandsInv'
  BY <1>3, TakeFacts, MoveFacts DEF TakeIdle, HandsInv
<1>4. ASSUME NEW u \in Users, ProbeGood(u) PROVE HandsInv'
  BY <1>4, <1>t, MoveFacts DEF ProbeGood, connVars, HandsInv
<1>5. ASSUME NEW u \in Users, ProbeBad(u) PROVE HandsInv'
  BY <1>5, <1>t, MoveFacts DEF ProbeBad, connVars, HandsInv
<1>6. ASSUME NEW u \in Users, Share(u) PROVE HandsInv'
  BY <1>6, ShareFacts, MoveFacts DEF Share, HandsInv
<1>7. ASSUME NEW u \in Users, NoneLeft(u) PROVE HandsInv'
  BY <1>7, <1>t, MoveFacts DEF NoneLeft, connVars, HandsInv
<1>8. ASSUME NEW u \in Users, DialFails(u) PROVE HandsInv'
  BY <1>8, <1>t, MoveFacts DEF DialFails, connVars, HandsInv
<1>9. ASSUME NEW u \in Users, Dialled(u) PROVE HandsInv'
  BY <1>9, <1>k, <1>t, MoveFacts DEF Dialled, HandsInv
<1>10. ASSUME NEW u \in Users, Keep(u) PROVE HandsInv'
  BY <1>10, <1>t, MoveFacts DEF Keep, connVars, HandsInv
<1>11. ASSUME NEW u \in Users, Put(u) PROVE HandsInv'
  BY <1>11, <1>t, MoveFacts DEF Put, connVars, HandsInv
<1>12. ASSUME NEW u \in Users, Finish(u) PROVE HandsInv'
  BY <1>12, <1>t, MoveFacts DEF Finish, connVars, HandsInv
<1>13. CASE Close
  BY <1>13, <1>t DEF Close, HandsInv
<1>14. ASSUME NEW c \in AllConns, Dies(c) PROVE HandsInv'
  BY <1>14, <1>t DEF Dies, HandsInv
<1> QED BY <1>1, <1>2, <1>3, <1>4, <1>5, <1>6, <1>7, <1>8, <1>9, <1>10, <1>11,
           <1>12, <1>13, <1>14 DEF Next, GetRuns

LEMMA PooledStep ==
    ASSUME TypeOK, HandsInv, OwnInv, PooledInv, Next PROVE PooledInv'
<1>t. /\ ToSet(conns) \subseteq 1..dialled
      /\ dialled \in Nat /\ MaxDials \in Nat /\ dialled <= MaxDials
      /\ \A u \in Users : uconn[u] \in 0..dialled
      /\ open \subseteq 1..dialled
  BY PooledFacts DEF TypeOK
<1>h. \A u \in Users :
        /\ uconn[u] # 0 <=> upc[u] \in {"probe", "keep", "using"}
        /\ upc[u] = "probe" => kind = "tcp"
        /\ upc[u] = "keep" => kind = "quic"
  BY DEF HandsInv
<1>1. ASSUME NEW u \in Users, CallGet(u) PROVE PooledInv'
  BY <1>1, <1>t, MoveFacts DEF CallGet, connVars, PooledInv
<1>2. ASSUME NEW u \in Users, GetClosed(u) PROVE PooledInv'
  BY <1>2, <1>t, MoveFacts DEF GetClosed, connVars, PooledInv
<1>3. ASSUME NEW u \in Users, TakeIdle(u) PROVE PooledInv'
  BY <1>3, TakeFacts DEF TakeIdle, PooledInv, connVars
<1>4. ASSUME NEW u \in Users, ProbeGood(u) PROVE PooledInv'
  BY <1>4, <1>t, MoveFacts DEF ProbeGood, connVars, PooledInv
<1>5. ASSUME NEW u \in Users, ProbeBad(u) PROVE PooledInv'
  <2>0. Owns(u)
    BY <1>5, <1>h DEF ProbeBad, Owns
  <2>1. /\ uconn[u] \in open \ ToSet(conns)
        /\ uconn[u] \in 1..dialled
        /\ \A v \in Users : uconn[v] = uconn[u] => v = u
    BY <1>t, <2>0 DEF OwnInv
  <2> QED BY <1>5, <2>1 DEF ProbeBad, PooledInv
<1>6. ASSUME NEW u \in Users, Share(u) PROVE PooledInv'
  BY <1>6, ShareFacts DEF Share, PooledInv, connVars
<1>7. ASSUME NEW u \in Users, NoneLeft(u) PROVE PooledInv'
  BY <1>7, EmptyFacts DEF NoneLeft, PooledInv, connVars
<1>8. ASSUME NEW u \in Users, DialFails(u) PROVE PooledInv'
  BY <1>8, <1>t, MoveFacts DEF DialFails, connVars, PooledInv
<1>9. ASSUME NEW u \in Users, Dialled(u) PROVE PooledInv'
  BY <1>9, <1>t, MoveFacts DEF Dialled, connVars, PooledInv
<1>10. ASSUME NEW u \in Users, Keep(u) PROVE PooledInv'
  <2>0. Owns(u)
    BY <1>10, <1>h DEF Keep, Owns
  <2>1. /\ uconn[u] \in open \ ToSet(conns)
        /\ uconn[u] \in 1..dialled
        /\ \A v \in Users : uconn[v] = uconn[u] => v = u
    BY <1>t, <2>0 DEF OwnInv
  <2>2. CASE HasRoom
    <3>1. ToSet(conns') = ToSet(conns) \cup {uconn[u]}
      BY <1>10, <2>1, <2>2, PutFacts DEF Keep
    <3> QED BY <1>10, <2>1, <2>2, <3>1 DEF Keep, PooledInv, HasRoom, connVars
  <2>3. CASE ~HasRoom
    BY <1>10, <2>1, <2>3 DEF Keep, PooledInv, connVars
  <2> QED BY <2>2, <2>3
<1>11. ASSUME NEW u \in Users, Put(u) PROVE PooledInv'
  <2>0. Owns(u)
    BY <1>11, <1>h DEF Put, Owns
  <2>1. /\ uconn[u] \in open \ ToSet(conns)
        /\ uconn[u] \in 1..dialled
        /\ \A v \in Users : uconn[v] = uconn[u] => v = u
    BY <1>t, <2>0 DEF OwnInv
  <2>2. CASE HasRoom
    <3>1. ToSet(conns') = ToSet(conns) \cup {uconn[u]}
      BY <1>11, <2>1, <2>2, PutFacts DEF Put
    <3> QED BY <1>11, <2>1, <2>2, <3>1 DEF Put, PooledInv, HasRoom, connVars
  <2>3. CASE ~HasRoom
    BY <1>11, <2>1, <2>3 DEF Put, PooledInv, connVars
  <2> QED BY <2>2, <2>3
<1>12. ASSUME NEW u \in Users, Finish(u) PROVE PooledInv'
  <2>1. CASE kind = "tcp"
    <3>1. Owns(u)
      BY <1>12, <1>h, <2>1 DEF Finish, Owns
    <3>2. uconn[u] \notin ToSet(conns)
      BY <3>1 DEF OwnInv
    <3> QED BY <1>12, <2>1, <3>2 DEF Finish, PooledInv
  <2>2. CASE kind # "tcp"
    BY <1>12, <2>2 DEF Finish, PooledInv
  <2> QED BY <2>1, <2>2
<1>13. CASE Close
  BY <1>13, EmptyFacts DEF Close, PooledInv
<1>14. ASSUME NEW c \in AllConns, Dies(c) PROVE PooledInv'
  BY <1>14, <1>t DEF Dies, PooledInv
<1> QED BY <1>1, <1>2, <1>3, <1>4, <1>5, <1>6, <1>7, <1>8, <1>9, <1>10, <1>11,
           <1>12, <1>13, <1>14 DEF Next, GetRuns

LEMMA OwnStep ==
    ASSUME TypeOK, HandsInv, OwnInv, PooledInv, Next PROVE OwnInv'
<1>t. /\ ToSet(conns) \subseteq 1..dialled
      /\ dialled \in Nat /\ MaxDials \in Nat /\ dialled <= MaxDials
      /\ \A u \in Users : uconn[u] \in 0..dialled
      /\ open \subseteq 1..dialled
  BY PooledFacts DEF TypeOK
<1>h. \A u \in Users :
        /\ uconn[u] # 0 <=> upc[u] \in {"probe", "keep", "using"}
        /\ upc[u] = "probe" => kind = "tcp"
        /\ upc[u] = "keep" => kind = "quic"
  BY DEF HandsInv
<1>k. kind \in {"tcp", "quic"}
  BY KindsAssumption DEF TypeOK
<1>1. ASSUME NEW u \in Users, CallGet(u) PROVE OwnInv'
  BY <1>1, <1>t, MoveFacts DEF CallGet, connVars, OwnInv, Owns
<1>2. ASSUME NEW u \in Users, GetClosed(u) PROVE OwnInv'
  BY <1>2, <1>t, MoveFacts DEF GetClosed, connVars, OwnInv, Owns
<1>3. ASSUME NEW u \in Users, TakeIdle(u) PROVE OwnInv'
  <2>0. /\ kind = "tcp" /\ conns # << >> /\ conns' = LastTaken
        /\ UNCHANGED <<kind, open>>
    BY <1>3 DEF TakeIdle, connVars
  <2>1. /\ kind' = "tcp" => IsInjective(conns')
        /\ ToSet(conns) = ToSet(conns') \cup {Last(conns)}
        /\ Last(conns) \notin ToSet(conns')
    BY <2>0, TakeFacts DEF OwnInv
  <2>p. \A w \in Users : uconn[w] # Last(conns)
    BY <2>0, <2>1, TakeFacts DEF OwnInv, Owns
  <2>2. ASSUME NEW v \in Users, Owns(v)'
        PROVE  /\ uconn'[v] \in open' \ ToSet(conns')
               /\ \A w \in Users : uconn'[w] = uconn'[v] => w = v
    <3>1. CASE v = u
      BY <2>0, <2>1, <2>p, <3>1, <1>3, MoveFacts DEF TakeIdle, PooledInv
    <3>2. CASE v # u
      <4>1. Owns(v) /\ uconn'[v] = uconn[v]
        BY <1>3, <1>h, <2>2, <3>2, MoveFacts DEF TakeIdle, Owns
      <4>2. /\ uconn[v] \in open \ ToSet(conns)
            /\ \A w \in Users : uconn[w] = uconn[v] => w = v
        BY <4>1 DEF OwnInv
      <4> QED BY <2>0, <2>1, <2>p, <3>2, <4>1, <4>2, <1>3, MoveFacts DEF TakeIdle
    <3> QED BY <3>1, <3>2
  <2> QED BY <1>3, <2>1, <2>2 DEF OwnInv
<1>4. ASSUME NEW u \in Users, ProbeGood(u) PROVE OwnInv'
  BY <1>4, <1>t, MoveFacts DEF ProbeGood, connVars, OwnInv, Owns
<1>5. ASSUME NEW u \in Users, ProbeBad(u) PROVE OwnInv'
  BY <1>5, <1>t, MoveFacts DEF ProbeBad, connVars, OwnInv, Owns
<1>6. ASSUME NEW u \in Users, Share(u) PROVE OwnInv'
  <2>1. /\ kind' = "tcp" => IsInjective(conns')
        /\ ToSet(conns') \subseteq ToSet(conns)
        /\ conns[FirstHealthy] \in ToSet(conns)
        /\ UNCHANGED <<kind, open>> /\ kind = "quic"
    BY <1>6, ShareFacts DEF Share, connVars
  <2>2. ASSUME NEW v \in Users, Owns(v)'
        PROVE  /\ uconn'[v] \in open' \ ToSet(conns')
               /\ \A w \in Users : uconn'[w] = uconn'[v] => w = v
    <3>1. CASE v = u
      BY <1>6, <2>1, <2>2, <3>1, MoveFacts DEF Share, Owns
    <3>2. CASE v # u
      <4>1. Owns(v) /\ uconn'[v] = uconn[v]
        BY <1>6, <1>h, <2>2, <3>2, MoveFacts DEF Share, Owns
      <4>2. /\ uconn[v] \in open \ ToSet(conns)
            /\ \A w \in Users : uconn[w] = uconn[v] => w = v
        BY <4>1 DEF OwnInv
      <4> QED BY <2>1, <3>2, <4>1, <4>2, <1>6, MoveFacts DEF Share
    <3> QED BY <3>1, <3>2
  <2> QED BY <1>6, <2>1, <2>2 DEF OwnInv
<1>7. ASSUME NEW u \in Users, NoneLeft(u) PROVE OwnInv'
  <2>1. /\ kind' = "tcp" => IsInjective(conns')
        /\ ToSet(conns') = {}
        /\ UNCHANGED <<kind, open>>
    BY <1>7, EmptyFacts DEF NoneLeft, connVars
  <2>2. ASSUME NEW v \in Users, Owns(v)'
        PROVE  /\ uconn'[v] \in open' \ ToSet(conns')
               /\ \A w \in Users : uconn'[w] = uconn'[v] => w = v
    <3>1. CASE v = u
      BY <1>7, <2>2, <3>1, MoveFacts DEF NoneLeft, Owns
    <3>2. CASE v # u
      <4>1. Owns(v) /\ uconn'[v] = uconn[v]
        BY <1>7, <1>h, <2>2, <3>2, MoveFacts DEF NoneLeft, Owns
      <4>2. /\ uconn[v] \in open \ ToSet(conns)
            /\ \A w \in Users : uconn[w] = uconn[v] => w = v
        BY <4>1 DEF OwnInv
      <4> QED BY <1>t, <2>1, <3>2, <4>1, <4>2, <1>7, MoveFacts DEF NoneLeft
    <3> QED BY <3>1, <3>2
  <2> QED BY <1>7, <2>1, <2>2 DEF OwnInv
<1>8. ASSUME NEW u \in Users, DialFails(u) PROVE OwnInv'
  BY <1>8, <1>t, MoveFacts DEF DialFails, connVars, OwnInv, Owns
<1>9. ASSUME NEW u \in Users, Dialled(u) PROVE OwnInv'
  BY <1>9, <1>t, MoveFacts DEF Dialled, connVars, OwnInv, Owns
<1>10. ASSUME NEW u \in Users, Keep(u) PROVE OwnInv'
  <2>0. Owns(u)
    BY <1>10, <1>h DEF Keep, Owns
  <2>o. /\ uconn[u] \in open \ ToSet(conns)
        /\ uconn[u] \in 1..dialled
        /\ \A v \in Users : uconn[v] = uconn[u] => v = u
    BY <1>t, <2>0 DEF OwnInv
  <2>1. /\ kind' = "tcp" => IsInjective(conns')
        /\ ToSet(conns') \subseteq ToSet(conns) \cup {uconn[u]}
        /\ UNCHANGED <<kind, open>> /\ kind = "quic"
        /\ uconn'[u] = uconn[u] /\ upc'[u] = "using"
    <3>0. kind = "quic" /\ kind' = kind /\ open' = open /\ uconn'[u] = uconn[u]
          /\ upc'[u] = "using"
      BY <1>10, <1>h, MoveFacts DEF Keep, connVars
    <3>1. CASE HasRoom
      BY <1>10, <2>o, <3>0, <3>1, PutFacts DEF Keep
    <3>2. CASE ~HasRoom
      BY <1>10, <3>0, <3>2 DEF Keep
    <3> QED BY <3>1, <3>2
  <2>2. ASSUME NEW v \in Users, Owns(v)'
        PROVE  /\ uconn'[v] \in open' \ ToSet(conns')
               /\ \A w \in Users : uconn'[w] = uconn'[v] => w = v
    <3>1. CASE v = u
      BY <1>10, <2>1, <2>2, <3>1, MoveFacts DEF Keep, Owns
    <3>2. CASE v # u
      <4>1. Owns(v) /\ uconn'[v] = uconn[v]
        BY <1>10, <1>h, <2>2, <3>2, MoveFacts DEF Keep, Owns
      <4>2. /\ uconn[v] \in open \ ToSet(conns)
            /\ \A w \in Users : uconn[w] = uconn[v] => w = v
        BY <4>1 DEF OwnInv
      <4> QED BY <2>o, <2>1, <3>2, <4>1, <4>2, <1>10, MoveFacts DEF Keep
    <3> QED BY <3>1, <3>2
  <2> QED BY <1>10, <2>1, <2>2 DEF OwnInv
<1>11. ASSUME NEW u \in Users, Put(u) PROVE OwnInv'
  <2>0. Owns(u)
    BY <1>11, <1>h DEF Put, Owns
  <2>o. /\ uconn[u] \in open \ ToSet(conns)
        /\ uconn[u] \in 1..dialled
        /\ \A v \in Users : uconn[v] = uconn[u] => v = u
    BY <1>t, <2>0 DEF OwnInv
  <2>1. /\ kind' = "tcp" => IsInjective(conns')
        /\ ToSet(conns') \subseteq ToSet(conns) \cup {uconn[u]}
        /\ open \ {uconn[u]} \subseteq open' /\ UNCHANGED kind
        /\ uconn'[u] = 0 /\ upc'[u] = "out"
    <3>1. CASE HasRoom
      BY <1>11, <2>o, <3>1, MoveFacts, PutFacts DEF Put, OwnInv
    <3>2. CASE ~HasRoom
      BY <1>11, <2>o, <3>2, MoveFacts DEF Put, OwnInv
    <3> QED BY <3>1, <3>2
  <2>2. ASSUME NEW v \in Users, Owns(v)'
        PROVE  /\ uconn'[v] \in open' \ ToSet(conns')
               /\ \A w \in Users : uconn'[w] = uconn'[v] => w = v
    <3>1. CASE v = u
      BY <1>11, <2>1, <2>2, <3>1, MoveFacts DEF Put, Owns
    <3>2. CASE v # u
      <4>1. Owns(v) /\ uconn'[v] = uconn[v]
        BY <1>11, <1>h, <2>2, <3>2, MoveFacts DEF Put, Owns
      <4>2. /\ uconn[v] \in open \ ToSet(conns)
            /\ \A w \in Users : uconn[w] = uconn[v] => w = v
        BY <4>1 DEF OwnInv
      <4> QED BY <1>t, <2>o, <2>1, <3>2, <4>1, <4>2, <1>11, MoveFacts DEF Put
    <3> QED BY <3>1, <3>2
  <2> QED BY <1>11, <2>1, <2>2 DEF OwnInv
<1>12. ASSUME NEW u \in Users, Finish(u) PROVE OwnInv'
  BY <1>12, <1>t, MoveFacts DEF Finish, connVars, OwnInv, Owns
<1>13. CASE Close
  <2>1. \A v \in Users : Owns(v)' => Owns(v)
    BY <1>13 DEF Close, Owns
  <2> QED BY <1>13, <2>1, EmptyFacts DEF Close, OwnInv
<1>14. ASSUME NEW c \in AllConns, Dies(c) PROVE OwnInv'
  BY <1>14, <1>t DEF Dies, OwnInv, Owns
<1> QED BY <1>1, <1>2, <1>3, <1>4, <1>5, <1>6, <1>7, <1>8, <1>9, <1>10, <1>11,
           <1>12, <1>13, <1>14 DEF Next, GetRuns

LEMMA PlaceStep ==
    ASSUME TypeOK, HandsInv, OwnInv, PooledInv, PlaceInv, Next PROVE PlaceInv'
<1>t. /\ ToSet(conns) \subseteq 1..dialled
      /\ dialled \in Nat /\ MaxDials \in Nat /\ dialled <= MaxDials
      /\ \A u \in Users : uconn[u] \in 0..dialled
      /\ open \subseteq 1..dialled
  BY PooledFacts DEF TypeOK
<1>h. \A u \in Users :
        /\ uconn[u] # 0 <=> upc[u] \in {"probe", "keep", "using"}
        /\ upc[u] = "probe" => kind = "tcp"
        /\ upc[u] = "keep" => kind = "quic"
  BY DEF HandsInv
<1>k. kind \in {"tcp", "quic"}
  BY KindsAssumption DEF TypeOK
<1>g. ASSUME NEW u \in Users, NEW w, NEW d, Moves(u, w, d), kind' = kind,
             dead' = dead, unpooled \subseteq unpooled',
             NEW c \in open, c \notin ToSet(conns), c # uconn[u]
      PROVE  Placed(c)'
  <2>1. CASE kind = "quic" /\ c \in unpooled \cup dead
    BY <1>g, <2>1 DEF Placed
  <2>2. ASSUME NEW v \in Users, uconn[v] = c, Owns(v) PROVE Placed(c)'
    <3>1. uconn'[v] = c /\ upc'[v] = upc[v] /\ kind' = kind
      BY <1>g, <2>2, MoveFacts
    <3> QED BY <2>2, <3>1 DEF Placed, Owns
  <2> QED BY <1>g, <2>1, <2>2 DEF PlaceInv, Placed
<1>z. \A u \in Users : upc[u] \in {"out", "get", "dial"} => uconn[u] = 0
  BY <1>h
<1>o. 0 \notin open
  BY <1>t
<1>1. ASSUME NEW u \in Users, CallGet(u) PROVE PlaceInv'
  <2>1. ASSUME NEW c \in open', c \in open PROVE Placed(c)'
    <3>1. CASE c \in ToSet(conns)
      BY <1>1, <3>1 DEF CallGet, Placed, connVars
    <3>2. CASE c \notin ToSet(conns) /\ c = uconn[u]
      BY <1>1, <1>o, <1>z, <2>1, <3>2 DEF CallGet
    <3>3. CASE c \notin ToSet(conns) /\ c # uconn[u]
      BY <1>1, <1>g, <3>3 DEF CallGet, connVars
    <3> QED BY <3>1, <3>2, <3>3
  <2> QED BY <1>1, <2>1 DEF PlaceInv, CallGet, connVars
<1>2. ASSUME NEW u \in Users, GetClosed(u) PROVE PlaceInv'
  <2>1. ASSUME NEW c \in open', c \in open PROVE Placed(c)'
    <3>1. CASE c \in ToSet(conns)
      BY <1>2, <3>1 DEF GetClosed, Placed, connVars
    <3>2. CASE c \notin ToSet(conns) /\ c = uconn[u]
      BY <1>2, <1>o, <1>z, <2>1, <3>2 DEF GetClosed
    <3>3. CASE c \notin ToSet(conns) /\ c # uconn[u]
      BY <1>2, <1>g, <3>3 DEF GetClosed, connVars
    <3> QED BY <3>1, <3>2, <3>3
  <2> QED BY <1>2, <2>1 DEF PlaceInv, GetClosed, connVars
<1>3. ASSUME NEW u \in Users, TakeIdle(u) PROVE PlaceInv'
  <2>1. ASSUME NEW c \in open', c \in open PROVE Placed(c)'
    <3>1. CASE c \in ToSet(conns)
      BY <1>3, <3>1, TakeFacts, MoveFacts DEF TakeIdle, Placed, Owns, connVars
    <3>2. CASE c \notin ToSet(conns) /\ c = uconn[u]
      BY <1>3, <1>o, <1>z, <2>1, <3>2 DEF TakeIdle
    <3>3. CASE c \notin ToSet(conns) /\ c # uconn[u]
      BY <1>3, <1>g, <3>3 DEF TakeIdle, connVars
    <3> QED BY <3>1, <3>2, <3>3
  <2> QED BY <1>3, <2>1 DEF PlaceInv, TakeIdle, connVars
<1>4. ASSUME NEW u \in Users, ProbeGood(u) PROVE PlaceInv'
  <2>1. ASSUME NEW c \in open', c \in open PROVE Placed(c)'
    <3>1. CASE c \in ToSet(conns)
      BY <1>4, <3>1 DEF ProbeGood, Placed, connVars
    <3>2. CASE c \notin ToSet(conns) /\ c = uconn[u]
      BY <1>4, <1>h, <3>2, <1>o, MoveFacts DEF ProbeGood, Placed, Owns
    <3>3. CASE c \notin ToSet(conns) /\ c # uconn[u]
      BY <1>4, <1>g, <3>3 DEF ProbeGood, connVars
    <3> QED BY <3>1, <3>2, <3>3
  <2> QED BY <1>4, <2>1 DEF PlaceInv, ProbeGood, connVars
<1>5. ASSUME NEW u \in Users, ProbeBad(u) PROVE PlaceInv'
  <2>1. ASSUME NEW c \in open', c \in open PROVE Placed(c)'
    <3>1. CASE c \in ToSet(conns)
      BY <1>5, <3>1 DEF ProbeBad, Placed
    <3>2. CASE c \notin ToSet(conns) /\ c = uconn[u]
      BY <1>5, <2>1, <3>2 DEF ProbeBad
    <3>3. CASE c \notin ToSet(conns) /\ c # uconn[u]
      BY <1>5, <1>g, <3>3 DEF ProbeBad, connVars
    <3> QED BY <3>1, <3>2, <3>3
  <2> QED BY <1>5, <2>1 DEF PlaceInv, ProbeBad, connVars
<1>6. ASSUME NEW u \in Users, Share(u) PROVE PlaceInv'
  <2>1. ASSUME NEW c \in open', c \in open PROVE Placed(c)'
    <3>1. CASE c \in ToSet(conns)
      BY <1>6, <3>1, ShareFacts DEF Share, Placed, connVars
    <3>2. CASE c \notin ToSet(conns) /\ c = uconn[u]
      BY <1>6, <1>o, <1>z, <2>1, <3>2 DEF Share
    <3>3. CASE c \notin ToSet(conns) /\ c # uconn[u]
      BY <1>6, <1>g, <3>3 DEF Share, connVars
    <3> QED BY <3>1, <3>2, <3>3
  <2> QED BY <1>6, <2>1 DEF PlaceInv, Share, connVars
<1>7. ASSUME NEW u \in Users, NoneLeft(u) PROVE PlaceInv'
  <2>0. ToSet(conns) # {} => kind = "quic" /\ ToSet(conns) \subseteq dead
    BY <1>7, <1>k, EmptyFacts DEF NoneLeft, Healthy, ToSet
  <2>1. ASSUME NEW c \in open', c \in open PROVE Placed(c)'
    <3>1. CASE c \in ToSet(conns)
      BY <1>7, <2>0, <3>1 DEF NoneLeft, Placed, connVars
    <3>2. CASE c \notin ToSet(conns) /\ c = uconn[u]
      BY <1>7, <1>o, <1>z, <2>1, <3>2 DEF NoneLeft
    <3>3. CASE c \notin ToSet(conns) /\ c # uconn[u]
      BY <1>7, <1>g, <3>3 DEF NoneLeft, connVars
    <3> QED BY <3>1, <3>2, <3>3
  <2> QED BY <1>7, <2>1 DEF PlaceInv, NoneLeft, connVars
<1>8. ASSUME NEW u \in Users, DialFails(u) PROVE PlaceInv'
  <2>1. ASSUME NEW c \in open', c \in open PROVE Placed(c)'
    <3>1. CASE c \in ToSet(conns)
      BY <1>8, <3>1 DEF DialFails, Placed, connVars
    <3>2. CASE c \notin ToSet(conns) /\ c = uconn[u]
      BY <1>8, <1>o, <1>z, <2>1, <3>2 DEF DialFails
    <3>3. CASE c \notin ToSet(conns) /\ c # uconn[u]
      BY <1>8, <1>g, <3>3 DEF DialFails, connVars
    <3> QED BY <3>1, <3>2, <3>3
  <2> QED BY <1>8, <2>1 DEF PlaceInv, DialFails, connVars
<1>9. ASSUME NEW u \in Users, Dialled(u) PROVE PlaceInv'
  <2> DEFINE w == IF kind = "tcp" THEN "using" ELSE "keep"
  <2>0. Moves(u, w, dialled + 1)
        /\ kind' = kind /\ dead' = dead /\ unpooled' = unpooled
    BY <1>9 DEF Dialled
  <2> HIDE DEF w
  <2>1. ASSUME NEW c \in open', c \in open PROVE Placed(c)'
    <3>1. CASE c \in ToSet(conns)
      BY <1>9, <3>1 DEF Dialled, Placed
    <3>2. CASE c \notin ToSet(conns) /\ c = uconn[u]
      BY <1>9, <1>o, <1>z, <2>1, <3>2 DEF Dialled
    <3>3. CASE c \notin ToSet(conns) /\ c # uconn[u]
      BY <1>g, <2>0, <2>1, <3>3
    <3> QED BY <3>1, <3>2, <3>3
  <2>2. ASSUME NEW c \in open', c = dialled + 1 PROVE Placed(c)'
    <3>1. uconn'[u] = c /\ c # 0 /\ kind' = kind /\ upc'[u] = w
      BY <1>t, <2>0, <2>2, MoveFacts
    <3>2. CASE kind = "tcp"
      BY <3>1, <3>2 DEF Placed, Owns
    <3>3. CASE kind # "tcp"
      BY <3>1, <3>3 DEF Placed, Owns, w
    <3> QED BY <3>2, <3>3
  <2>3. open' = open \cup {dialled + 1}
    BY <1>9 DEF Dialled
  <2> QED BY <2>1, <2>2, <2>3 DEF PlaceInv
<1>10. ASSUME NEW u \in Users, Keep(u) PROVE PlaceInv'
  <2>0. Owns(u)
    BY <1>10, <1>h DEF Keep, Owns
  <2>o. /\ uconn[u] \in open \ ToSet(conns)
        /\ uconn[u] \in 1..dialled
        /\ \A v \in Users : uconn[v] = uconn[u] => v = u
    BY <1>t, <2>0 DEF OwnInv
  <2>p. /\ ToSet(conns) \subseteq ToSet(conns')
        /\ uconn[u] \in ToSet(conns') \cup unpooled'
        /\ kind' = "quic"
    <3>1. CASE HasRoom
      BY <1>10, <1>h, <2>o, <3>1, PutFacts DEF Keep
    <3>2. CASE ~HasRoom
      BY <1>10, <1>h, <3>2 DEF Keep
    <3> QED BY <3>1, <3>2
  <2>u. unpooled \subseteq unpooled'
    BY <1>10 DEF Keep
  <2>1. ASSUME NEW c \in open', c \in open PROVE Placed(c)'
    <3>1. CASE c \in ToSet(conns)
      BY <1>10, <2>p, <3>1 DEF Placed
    <3>2. CASE c \notin ToSet(conns) /\ c = uconn[u]
      BY <1>10, <2>p, <3>2 DEF Placed
    <3>3. CASE c \notin ToSet(conns) /\ c # uconn[u]
      BY <1>10, <1>g, <2>u, <3>3 DEF Keep, connVars
    <3> QED BY <3>1, <3>2, <3>3
  <2> QED BY <1>10, <2>1 DEF PlaceInv, Keep, connVars
<1>11. ASSUME NEW u \in Users, Put(u) PROVE PlaceInv'
  <2>0. Owns(u)
    BY <1>11, <1>h DEF Put, Owns
  <2>o. /\ uconn[u] \in open \ ToSet(conns)
        /\ uconn[u] \in 1..dialled
        /\ \A v \in Users : uconn[v] = uconn[u] => v = u
    BY <1>t, <2>0 DEF OwnInv
  <2>p. /\ ToSet(conns) \subseteq ToSet(conns')
        /\ uconn[u] \in open' => uconn[u] \in ToSet(conns')
    <3>1. CASE HasRoom
      BY <1>11, <2>o, <3>1, PutFacts DEF Put
    <3>2. CASE ~HasRoom
      BY <1>11, <3>2 DEF Put
    <3> QED BY <3>1, <3>2
  <2>s. open' \subseteq open
    BY <1>11 DEF Put
  <2>1. ASSUME NEW c \in open', c \in open PROVE Placed(c)'
    <3>1. CASE c \in ToSet(conns)
      BY <1>11, <2>p, <3>1 DEF Placed
    <3>2. CASE c \notin ToSet(conns) /\ c = uconn[u]
      BY <1>11, <2>1, <2>p, <3>2 DEF Placed
    <3>3. CASE c \notin ToSet(conns) /\ c # uconn[u]
      BY <1>11, <1>g, <3>3 DEF Put, connVars
    <3> QED BY <3>1, <3>2, <3>3
  <2> QED BY <2>1, <2>s DEF PlaceInv, Put, connVars
<1>12. ASSUME NEW u \in Users, Finish(u) PROVE PlaceInv'
  <2>1. ASSUME NEW c \in open', c \in open PROVE Placed(c)'
    <3>1. CASE c \in ToSet(conns)
      BY <1>12, <3>1 DEF Finish, Placed
    <3>2. CASE c \notin ToSet(conns) /\ c = uconn[u]
      <4>1. kind # "tcp" /\ kind' = kind /\ upc[u] = "using"
        BY <1>12, <2>1, <3>2 DEF Finish
      <4>2. kind = "quic" /\ unpooled' = unpooled /\ dead' = dead
        BY <1>12, <1>k, <4>1 DEF Finish
      <4>3. ~ \E v \in Users : uconn[v] = c /\ Owns(v)
        BY <3>2, <4>1 DEF OwnInv, Owns
      <4>4. c \in unpooled \cup dead
        BY <2>1, <3>2, <4>3 DEF PlaceInv, Placed
      <4> QED BY <4>1, <4>2, <4>4 DEF Placed
    <3>3. CASE c \notin ToSet(conns) /\ c # uconn[u]
      BY <1>12, <1>g, <2>1, <3>3 DEF Finish
    <3> QED BY <3>1, <3>2, <3>3
  <2>2. open' \subseteq open
    BY <1>12 DEF Finish
  <2> QED BY <2>1, <2>2 DEF PlaceInv
<1>13. CASE Close
  BY <1>13 DEF Close, PlaceInv, Placed, Owns
<1>14. ASSUME NEW c \in AllConns, Dies(c) PROVE PlaceInv'
  BY <1>14 DEF Dies, PlaceInv, Placed, Owns
<1> QED BY <1>1, <1>2, <1>3, <1>4, <1>5, <1>6, <1>7, <1>8, <1>9, <1>10, <1>11,
           <1>12, <1>13, <1>14 DEF Next, GetRuns

----------------------------------------------------------------------------
(* The theorems *)

LEMMA InitInv == Init => IInv
<1> SUFFICES ASSUME Init PROVE IInv
  OBVIOUS
<1>1. TypeOK
  <2>1. conns \in Seq(AllConns) /\ Len(conns) <= MaxPooled
    BY EmptyFacts, PoolBoundsAssumption DEF Init
  <2>2. dialled \in 0..MaxDials /\ uconn \in [Users -> 0..dialled]
    BY PoolBoundsAssumption DEF Init
  <2> QED BY <2>1, <2>2 DEF Init, TypeOK
<1>2. HandsInv /\ OwnInv /\ PooledInv /\ PlaceInv
  BY EmptyFacts DEF Init, HandsInv, OwnInv, Owns, PooledInv, PlaceInv
<1> QED BY <1>1, <1>2 DEF IInv

LEMMA InvStep == IInv /\ [Next]_vars => IInv'
<1> SUFFICES ASSUME IInv, [Next]_vars PROVE IInv'
  OBVIOUS
<1>1. CASE Next
  BY <1>1, TypeStep, HandsStep, OwnStep, PooledStep, PlaceStep DEF IInv
<1>2. CASE UNCHANGED vars
  BY <1>2 DEF IInv, vars, TypeOK, HandsInv, OwnInv, Owns, PooledInv, PlaceInv,
              Placed
<1> QED BY <1>1, <1>2

\* The inductive invariant holds in every state of the pool.
THEOREM Invariance == Spec => []IInv
BY InitInv, InvStep, PTL DEF Spec

\* A TCP connection is in the pool, once, or with one user, whoever gets, probes,
\* dials, puts back and closes in between.
THEOREM Exclusive == Spec => []OneUser
<1>1. IInv => OneUser
  <2> SUFFICES ASSUME IInv, kind = "tcp"
               PROVE  /\ IsInjective(conns)
                      /\ \A u, v \in Users :
                            uconn[u] # 0 /\ uconn[u] = uconn[v] => u = v
                      /\ \A u \in Users : /\ uconn[u] \notin ToSet(conns)
                                          /\ uconn[u] # 0 => uconn[u] \in open
    BY DEF OneUser
  <2>1. \A u \in Users : uconn[u] # 0 => Owns(u)
    BY DEF Owns
  <2>2. 0 \notin ToSet(conns)
    BY PooledFacts DEF IInv
  <2> QED BY <2>1, <2>2 DEF IInv, OwnInv
<1> QED BY <1>1, Invariance, PTL

\* No open connection is forgotten, except those of QUIC that were dialled while
\* the pool was full or closed; a closed pool is empty, and a pool keeps to its
\* limit.
THEOREM Kept == Spec => []NothingLost
<1>1. IInv => NothingLost
  BY DEF IInv, PlaceInv, Placed, PooledInv, NothingLost
<1> QED BY <1>1, Invariance, PTL
=============================================================================
