------------------------------ MODULE ConnPool ------------------------------
(***************************************************************************)
(* internal/transport/tcp.go and quic.go: a pool of connections to one     *)
(* address.  A TCP connection belongs to the caller of Get until it is put *)
(* back; a QUIC connection stays in the pool and is shared by its callers, *)
(* who open streams.  Both pools release their lock for what takes time:   *)
(* TCP to probe an idle connection, both to dial.  Connections are known   *)
(* by the order in which they were dialled.                                *)
(***************************************************************************)
EXTENDS Naturals, Sequences, FiniteSets, SequencesExt

CONSTANTS
    Users,      \* goroutines that call Get and Put
    Kinds,      \* of the pool: "tcp", "quic"
    MaxPooled,  \* connections a pool keeps: maxIdle or maxConns, 10 in the code
    MaxDials    \* bound: connections that are dialled

ASSUME KindsAssumption == Kinds \subseteq {"tcp", "quic"}
ASSUME PoolBoundsAssumption == MaxPooled \in Nat /\ MaxDials \in Nat

VARIABLES
    kind,       \* of the pool; does not change
    conns,      \* p.conns
    closed,     \* p.closed
    dialled,    \* connections dialled so far
    open,       \* those this side has not closed
    dead,       \* those the peer has closed, or that have timed out
    upc,        \* where each user is: "out", "get", "probe", "dial", "keep"
                \* (QUIC's dial before it takes the lock), "using"
    uconn,      \* the connection it has, 0 for none
    unpooled    \* QUIC connections dialled while the pool was full or closed

connVars == <<dialled, open, dead>>
vars == <<kind, conns, closed, dialled, open, dead, upc, uconn, unpooled>>

AllConns == 1..MaxDials

Init ==
    /\ kind \in Kinds
    /\ conns = << >>
    /\ closed = FALSE
    /\ dialled = 0
    /\ open = {}
    /\ dead = {}
    /\ upc = [u \in Users |-> "out"]
    /\ uconn = [u \in Users |-> 0]
    /\ unpooled = {}

Moves(u, where, c) ==
    /\ upc' = [upc EXCEPT ![u] = where]
    /\ uconn' = [uconn EXCEPT ![u] = c]

----------------------------------------------------------------------------
(* Get *)

CallGet(u) ==
    /\ upc[u] = "out"
    /\ Moves(u, "get", 0)
    /\ UNCHANGED <<kind, conns, closed, connVars, unpooled>>

GetClosed(u) ==
    /\ upc[u] = "get"
    /\ closed
    /\ Moves(u, "out", 0)
    /\ UNCHANGED <<kind, conns, closed, connVars, unpooled>>

\* Wrong: the connection stays in the pool while it is used.
LeftInPool == conns

\* TCP takes the last idle connection out.
LastTaken == Front(conns)

TakeIdle(u) ==
    /\ kind = "tcp"
    /\ upc[u] = "get"
    /\ ~closed
    /\ conns # << >>
    /\ conns' = LastTaken
    /\ Moves(u, "probe", Last(conns))
    /\ UNCHANGED <<kind, closed, connVars, unpooled>>

\* checkConn, without the lock: only a read that times out is a good sign.
ProbeGood(u) ==
    /\ upc[u] = "probe"
    /\ uconn[u] \notin dead
    /\ Moves(u, "using", uconn[u])
    /\ UNCHANGED <<kind, conns, closed, connVars, unpooled>>

\* The peer has closed it, or sent something: it is closed and the next one
\* tried, under the lock again.
ProbeBad(u) ==
    /\ upc[u] = "probe"
    /\ open' = open \ {uconn[u]}
    /\ Moves(u, "get", 0)
    /\ UNCHANGED <<kind, conns, closed, dialled, dead, unpooled>>

\* QUIC drops the dead connections before the first healthy one and shares
\* that one.
Healthy == {i \in DOMAIN conns : conns[i] \notin dead}
FirstHealthy == CHOOSE i \in Healthy : \A j \in Healthy : i <= j

Share(u) ==
    /\ kind = "quic"
    /\ upc[u] = "get"
    /\ ~closed
    /\ Healthy # {}
    /\ conns' = SubSeq(conns, FirstHealthy, Len(conns))
    /\ Moves(u, "using", conns[FirstHealthy])
    /\ UNCHANGED <<kind, closed, connVars, unpooled>>

\* There is none: unlock and dial.
NoneLeft(u) ==
    /\ upc[u] = "get"
    /\ ~closed
    /\ IF kind = "tcp" THEN conns = << >> ELSE Healthy = {}
    /\ conns' = << >>
    /\ Moves(u, "dial", 0)
    /\ UNCHANGED <<kind, closed, connVars, unpooled>>

DialFails(u) ==
    /\ upc[u] = "dial"
    /\ Moves(u, "out", 0)
    /\ UNCHANGED <<kind, conns, closed, connVars, unpooled>>

Dialled(u) ==
    /\ upc[u] = "dial"
    /\ dialled < MaxDials
    /\ dialled' = dialled + 1
    /\ open' = open \cup {dialled + 1}
    /\ Moves(u, IF kind = "tcp" THEN "using" ELSE "keep", dialled + 1)
    /\ UNCHANGED <<kind, conns, closed, dead, unpooled>>

\* Wrong: looks at the length only.
HasRoomOnly == Len(conns) < MaxPooled

\* Both Put and QUIC's dial look again whether the pool was closed meanwhile.
HasRoom == ~closed /\ Len(conns) < MaxPooled

\* QUIC's dial pools the connection if it can and returns it in any case.
Keep(u) ==
    /\ upc[u] = "keep"
    /\ IF HasRoom
          THEN /\ conns' = Append(conns, uconn[u])
               /\ UNCHANGED unpooled
          ELSE /\ unpooled' = unpooled \cup {uconn[u]}
               /\ UNCHANGED conns
    /\ Moves(u, "using", uconn[u])
    /\ UNCHANGED <<kind, closed, connVars>>

----------------------------------------------------------------------------
(* The end of a use, and of the pool *)

Put(u) ==
    /\ kind = "tcp"
    /\ upc[u] = "using"
    /\ IF HasRoom
          THEN /\ conns' = Append(conns, uconn[u])
               /\ UNCHANGED open
          ELSE /\ open' = open \ {uconn[u]}
               /\ UNCHANGED conns
    /\ Moves(u, "out", 0)
    /\ UNCHANGED <<kind, closed, dialled, dead, unpooled>>

\* A user of a TCP connection may close it instead; one of QUIC closes its stream.
Finish(u) ==
    /\ upc[u] = "using"
    /\ open' = IF kind = "tcp" THEN open \ {uconn[u]} ELSE open
    /\ Moves(u, "out", 0)
    /\ UNCHANGED <<kind, conns, closed, dialled, dead, unpooled>>

Close ==
    /\ closed' = TRUE
    /\ open' = open \ ToSet(conns)
    /\ conns' = << >>
    /\ UNCHANGED <<kind, dialled, dead, upc, uconn, unpooled>>

\* The peer closes a connection, or it times out.
Dies(c) ==
    /\ c \in open \ dead
    /\ dead' = dead \cup {c}
    /\ UNCHANGED <<kind, conns, closed, dialled, open, upc, uconn, unpooled>>

----------------------------------------------------------------------------
GetRuns(u) == GetClosed(u) \/ TakeIdle(u) \/ ProbeGood(u) \/ ProbeBad(u) \/ Share(u)
              \/ NoneLeft(u) \/ DialFails(u) \/ Dialled(u) \/ Keep(u)

Next ==
    \/ \E u \in Users : CallGet(u) \/ GetRuns(u) \/ Put(u) \/ Finish(u)
    \/ ~closed /\ Close
    \/ \E c \in AllConns : Dies(c)

\* A probe and a dial end.  Nobody has to call Get or Put.
Spec == Init /\ [][Next]_vars /\ \A u \in Users : WF_vars(GetRuns(u))

----------------------------------------------------------------------------
(* Properties *)

TypeOK ==
    /\ kind \in Kinds
    /\ conns \in Seq(AllConns)
    /\ Len(conns) <= MaxPooled
    /\ closed \in BOOLEAN
    /\ dialled \in 0..MaxDials
    /\ open \subseteq 1..dialled
    /\ dead \subseteq 1..dialled
    /\ upc \in [Users -> {"out", "get", "probe", "dial", "keep", "using"}]
    /\ uconn \in [Users -> 0..dialled]
    /\ unpooled \subseteq 1..dialled

\* A TCP connection is in one place at a time, in the pool, once, or with one
\* user: no two sessions write to the same stream, and neither another user nor
\* Close of the pool closes a connection under its user.
OneUser ==
    kind = "tcp" =>
        /\ IsInjective(conns)
        /\ \A u, v \in Users : uconn[u] # 0 /\ uconn[u] = uconn[v] => u = v
        /\ \A u \in Users : /\ uconn[u] \notin ToSet(conns)
                             /\ uconn[u] # 0 => uconn[u] \in open

\* No connection is lost: each that is open is pooled or in somebody's hands,
\* and a closed pool holds none, though Get probed or dialled while the pool was
\* closed.  A QUIC connection that was dialled while the pool was full or closed
\* is the exception: nobody closes it.  (With the types of the variables, which hold
\* the pool to its limit.)
NothingLost ==
    /\ TypeOK
    /\ \A c \in open : \/ c \in ToSet(conns) \cup unpooled
                       \/ \E u \in Users : uconn[u] = c
                       \/ kind = "quic" /\ c \in dead
    /\ closed => conns = << >>

\* Get returns, however many of the idle connections turn out to be dead.
GetReturns == \A u \in Users : upc[u] = "get" ~> upc[u] \in {"out", "using"}
=============================================================================
