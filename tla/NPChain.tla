------------------------------ MODULE NPChain ------------------------------
(***************************************************************************)
(* One session through a path of nodes: the client sends node 1 a frame    *)
(* with a chain of hops, every node decodes the frame, routes the session, *)
(* dials the next node (np-chain outbound) or, the last one, the target    *)
(* (direct outbound), and then relays between its two connections until    *)
(* both directions have ended (handleNPChainStream and biRelay of          *)
(* inbound/tcp.go, outbound/npchain.go, outbound/direct.go).  Routing is   *)
(* Router.tla and the accepting side is Inbound.tla: here a node has the   *)
(* one outbound its role calls for.  The frames are those of NPCodec.tla.  *)
(*                                                                         *)
(* Connection c joins node c, or the client if c = 0, on its left to node  *)
(* c + 1, or the target if c = Egress, on its right.  Up is to the right.  *)
(***************************************************************************)
EXTENDS NPCodec, SequencesExt

CONSTANTS
    Egress,      \* number of nodes; the last one is the egress
    Chains,      \* hop chains the client may send
    Transports,  \* of the first node's inbound: "tcp", or "wrapped" (tls, ws)
    MaxSent,     \* bound: bytes each end sends
    Capacity     \* bound: bytes in flight in one direction of a connection

Nodes == 1..Egress
Conns == 0..Egress

ASSUME PathAssumption == Egress \in Nat \ {0}
ASSUME ChainsAssumption == \A chain \in Chains : CanEncode(chain)
ASSUME BoundsAssumption == {MaxSent, Capacity} \subseteq Nat \ {0}
ASSUME TransportAssumption == Transports \subseteq {"tcp", "wrapped"}

VARIABLES
    sentChain,   \* what the client put into its frame
    transport,   \* of the first node's inbound; does not change
    phase,       \* where each node's handler is
    frame,       \* the frame each connection carried first
    hops,        \* the hops each node decoded: the target and the rest
    dialled,     \* what the direct outbound dialled, <<>> before
    up, down,    \* the two directions of each connection
    copying,     \* the directions each node is copying
    left, right, \* the client and the target
    disturbed    \* an end or a node broke the session off (history)

sessionVars == <<sentChain, transport, frame, hops, dialled>>
nodeVars == <<phase, copying>>
endVars == <<left, right>>
vars == <<sentChain, transport, phase, frame, hops, dialled, up, down, copying, left,
          right, disturbed>>

\* The writer has closed its side (fin); the reader has closed its own (shut).
Quiet == [bytes |-> <<>>, fin |-> FALSE, shut |-> FALSE]

Silent == [sent |-> 0, got |-> <<>>, ended |-> FALSE, sawEnd |-> FALSE, closed |-> FALSE]

Init ==
    /\ sentChain \in Chains
    /\ transport \in Transports
    /\ phase = [n \in Nodes |-> IF n = 1 THEN "reading" ELSE "idle"]
    /\ frame = [c \in Conns |-> Encode(IF c = 0 THEN sentChain ELSE <<>>)]
    /\ hops = [n \in Nodes |-> <<>>]
    /\ dialled = <<>>
    /\ up = [c \in Conns |-> Quiet]
    /\ down = [c \in Conns |-> Quiet]
    /\ copying = [n \in Nodes |-> {}]
    /\ left = Silent
    /\ right = Silent
    /\ disturbed = FALSE

----------------------------------------------------------------------------
(* Establishing *)

\* Closing a connection ends what its owner writes and refuses what it has not
\* read.
LeftCloses(c) ==
    /\ up' = [up EXCEPT ![c].fin = TRUE]
    /\ down' = [down EXCEPT ![c].shut = TRUE, ![c].bytes = <<>>]

RightCloses(c) ==
    /\ up' = [up EXCEPT ![c].shut = TRUE, ![c].bytes = <<>>]
    /\ down' = [down EXCEPT ![c].fin = TRUE]

\* Both connections of a node, of which the right one may not exist yet.
NodeCloses(n) ==
    /\ up' = [up EXCEPT ![n - 1].shut = TRUE, ![n - 1].bytes = <<>>, ![n].fin = TRUE]
    /\ down' = [down EXCEPT ![n - 1].fin = TRUE, ![n].shut = TRUE, ![n].bytes = <<>>]

ReadFrame(n) ==
    /\ phase[n] = "reading"
    /\ CanDecode(frame[n - 1])
    /\ hops' = [hops EXCEPT ![n] = Decode(frame[n - 1])]
    /\ phase' = [phase EXCEPT ![n] = "dialing"]
    /\ UNCHANGED <<sentChain, transport, frame, dialled, up, down, copying, endVars,
                   disturbed>>

\* The first hop is the session's target, the others its chain.
Target(n) == IF hops[n] = <<>> THEN NoHop ELSE Head(hops[n])
HopChain(n) == IF hops[n] = <<>> THEN <<>> ELSE Tail(hops[n])

\* Wrong: sends on what is left of the chain without the target.
RestOnly(n) == HopChain(n)

\* The np-chain outbound puts the target back at the head of the chain.
Forwarded(n) == <<Target(n)>> \o HopChain(n)

\* Neither can a frame with an empty target be made, nor such a target be
\* dialled.
MustFail(n) == ~CanEncode(Forwarded(n))

Relaying(n) ==
    /\ phase[n] = "dialing"
    /\ ~MustFail(n)
    /\ copying' = [copying EXCEPT ![n] = {"up", "down"}]
    /\ UNCHANGED <<sentChain, transport, hops, up, down, endVars, disturbed>>

DialNext(n) ==
    /\ n # Egress
    /\ Relaying(n)
    /\ frame' = [frame EXCEPT ![n] = Encode(Forwarded(n))]
    /\ phase' = [phase EXCEPT ![n] = "relay", ![n + 1] = "reading"]
    /\ UNCHANGED dialled

DialTarget ==
    /\ Relaying(Egress)
    /\ dialled' = <<Target(Egress)>>
    /\ phase' = [phase EXCEPT ![Egress] = "relay"]
    /\ UNCHANGED frame

\* No frame, no route, no answer at the address: the deferred Close.
Fails(n) ==
    /\ phase[n] \in {"reading", "dialing"}
    /\ phase' = [phase EXCEPT ![n] = "closed"]
    /\ RightCloses(n - 1)
    /\ disturbed' = TRUE
    /\ UNCHANGED <<sessionVars, copying, endVars>>

----------------------------------------------------------------------------
(* biRelay: one io.Copy for each direction *)

\* Wrong: gives up what is still to be read when the writer has ended.
EndsEarly(from) == from.fin

\* io.Copy reads to the end.
EndReached(from) == from.bytes = <<>> /\ from.fin

Pass(from, to, i, j) ==
    /\ from[i].bytes # <<>>
    /\ ~to[j].shut
    /\ Len(to[j].bytes) < Capacity

CopyUp(n) ==
    /\ "up" \in copying[n]
    /\ Pass(up, up, n - 1, n)
    /\ up' = [up EXCEPT ![n - 1].bytes = Tail(@),
                        ![n].bytes = Append(@, Head(up[n - 1].bytes))]
    /\ UNCHANGED <<sessionVars, nodeVars, down, endVars, disturbed>>

CopyDown(n) ==
    /\ "down" \in copying[n]
    /\ Pass(down, down, n, n - 1)
    /\ down' = [down EXCEPT ![n].bytes = Tail(@),
                            ![n - 1].bytes = Append(@, Head(down[n].bytes))]
    /\ UNCHANGED <<sessionVars, nodeVars, up, endVars, disturbed>>

\* Wrong: goes on although the reader has gone.
NeverFails(from, to) == FALSE

\* A write fails as the reader has gone: the copy ends, what it held is lost.
WriteFails(from, to) == from.bytes # <<>> /\ to.shut

\* After its copy each goroutine closes the write side of the connection it
\* wrote to.  The outbound's is a *net.TCPConn, so the next node or the target
\* sees the end ...
UpEnds(n) ==
    /\ "up" \in copying[n]
    /\ EndReached(up[n - 1]) \/ WriteFails(up[n - 1], up[n])
    /\ copying' = [copying EXCEPT ![n] = @ \ {"up"}]
    /\ up' = [up EXCEPT ![n].fin = TRUE]
    /\ disturbed' = (disturbed \/ WriteFails(up[n - 1], up[n]))
    /\ UNCHANGED <<sessionVars, phase, down, endVars>>

\* Wrong: no goroutine closes the write side towards the client.
NeverHalfCloses(n) == FALSE

\* ... but a TLS or WebSocket connection has no CloseWrite the code would call.
HalfCloses(n) == n # 1 \/ transport = "tcp"

DownEnds(n) ==
    /\ "down" \in copying[n]
    /\ EndReached(down[n]) \/ WriteFails(down[n], down[n - 1])
    /\ copying' = [copying EXCEPT ![n] = @ \ {"down"}]
    /\ down' = [down EXCEPT ![n - 1].fin = @ \/ HalfCloses(n)]
    /\ disturbed' = (disturbed \/ WriteFails(down[n], down[n - 1]))
    /\ UNCHANGED <<sessionVars, phase, up, endVars>>

\* wg.Wait.
BothEnded(n) == copying[n] = {}

RelayEnds(n) ==
    /\ phase[n] = "relay"
    /\ BothEnded(n)
    /\ phase' = [phase EXCEPT ![n] = "closed"]
    /\ NodeCloses(n)
    /\ UNCHANGED <<sessionVars, copying, endVars, disturbed>>

\* The inbound is stopped: CloseAll closes both connections of the handler.
Stopped(n) ==
    /\ phase[n] = "relay"
    /\ phase' = [phase EXCEPT ![n] = "closed"]
    /\ copying' = [copying EXCEPT ![n] = {}]
    /\ NodeCloses(n)
    /\ disturbed' = TRUE
    /\ UNCHANGED <<sessionVars, endVars>>

----------------------------------------------------------------------------
(* The client and the target *)

Send(e, dir, c) == /\ ~e.ended
                   /\ e.sent < MaxSent
                   /\ ~dir[c].shut
                   /\ Len(dir[c].bytes) < Capacity

Connected == dialled # <<>>

EndsUnchanged == UNCHANGED <<sessionVars, nodeVars, disturbed>>

ClientSends ==
    /\ Send(left, up, 0)
    /\ left' = [left EXCEPT !.sent = @ + 1]
    /\ up' = [up EXCEPT ![0].bytes = Append(@, left.sent + 1)]
    /\ EndsUnchanged /\ UNCHANGED <<down, right>>

TargetSends ==
    /\ Connected
    /\ Send(right, down, Egress)
    /\ right' = [right EXCEPT !.sent = @ + 1]
    /\ down' = [down EXCEPT ![Egress].bytes = Append(@, right.sent + 1)]
    /\ EndsUnchanged /\ UNCHANGED <<up, left>>

ClientReads ==
    /\ ~left.closed
    /\ down[0].bytes # <<>>
    /\ left' = [left EXCEPT !.got = Append(@, Head(down[0].bytes))]
    /\ down' = [down EXCEPT ![0].bytes = Tail(@)]
    /\ EndsUnchanged /\ UNCHANGED <<up, right>>

TargetReads ==
    /\ ~right.closed
    /\ up[Egress].bytes # <<>>
    /\ right' = [right EXCEPT !.got = Append(@, Head(up[Egress].bytes))]
    /\ up' = [up EXCEPT ![Egress].bytes = Tail(@)]
    /\ EndsUnchanged /\ UNCHANGED <<down, left>>

ClientSeesEnd ==
    /\ ~left.closed /\ ~left.sawEnd
    /\ EndReached(down[0])
    /\ left' = [left EXCEPT !.sawEnd = TRUE]
    /\ EndsUnchanged /\ UNCHANGED <<up, down, right>>

TargetSeesEnd ==
    /\ Connected
    /\ ~right.closed /\ ~right.sawEnd
    /\ EndReached(up[Egress])
    /\ right' = [right EXCEPT !.sawEnd = TRUE]
    /\ EndsUnchanged /\ UNCHANGED <<up, down, left>>

\* Either end may end what it sends and go on reading ...
ClientEnds ==
    /\ ~left.ended
    /\ left' = [left EXCEPT !.ended = TRUE]
    /\ up' = [up EXCEPT ![0].fin = TRUE]
    /\ EndsUnchanged /\ UNCHANGED <<down, right>>

TargetEnds ==
    /\ Connected
    /\ ~right.ended
    /\ right' = [right EXCEPT !.ended = TRUE]
    /\ down' = [down EXCEPT ![Egress].fin = TRUE]
    /\ EndsUnchanged /\ UNCHANGED <<up, left>>

\* ... and close its connection, properly after the end of what it reads.
ClientCloses ==
    /\ ~left.closed
    /\ left' = [left EXCEPT !.closed = TRUE, !.ended = TRUE]
    /\ LeftCloses(0)
    /\ disturbed' = (disturbed \/ ~left.sawEnd)
    /\ UNCHANGED <<sessionVars, nodeVars, right>>

TargetCloses ==
    /\ Connected
    /\ ~right.closed
    /\ right' = [right EXCEPT !.closed = TRUE, !.ended = TRUE]
    /\ RightCloses(Egress)
    /\ disturbed' = (disturbed \/ ~right.sawEnd)
    /\ UNCHANGED <<sessionVars, nodeVars, left>>

----------------------------------------------------------------------------
NodeRuns(n) == ReadFrame(n) \/ DialNext(n) \/ CopyUp(n) \/ CopyDown(n) \/ UpEnds(n)
               \/ DownEnds(n) \/ RelayEnds(n)

\* A dial ends one way or the other.
NodeProceeds(n) == NodeRuns(n) \/ (n = Egress /\ DialTarget) \/ (MustFail(n) /\ Fails(n))

Reads == ClientReads \/ TargetReads \/ ClientSeesEnd \/ TargetSeesEnd

Next ==
    \/ \E n \in Nodes : NodeRuns(n) \/ Fails(n) \/ Stopped(n)
    \/ DialTarget
    \/ Reads
    \/ ClientSends \/ TargetSends
    \/ ClientEnds \/ TargetEnds
    \/ ClientCloses \/ TargetCloses

Spec == Init /\ [][Next]_vars

\* The nodes run and both ends read; they need not send, end or close.
FairSpec ==
    /\ Spec
    /\ \A n \in Nodes : WF_vars(NodeProceeds(n))
    /\ WF_vars(ClientReads \/ ClientSeesEnd)
    /\ WF_vars(TargetReads \/ TargetSeesEnd)

----------------------------------------------------------------------------
(* Properties *)

DirectionType == [bytes : Seq(1..MaxSent), fin : BOOLEAN, shut : BOOLEAN]

EndType == [sent : 0..MaxSent, got : Seq(1..MaxSent), ended : BOOLEAN,
            sawEnd : BOOLEAN, closed : BOOLEAN]

TypeOK ==
    /\ sentChain \in Chains
    /\ transport \in Transports
    /\ phase \in [Nodes -> {"idle", "reading", "dialing", "relay", "closed"}]
    /\ up \in [Conns -> DirectionType]
    /\ down \in [Conns -> DirectionType]
    /\ \A c \in Conns : Len(up[c].bytes) <= Capacity /\ Len(down[c].bytes) <= Capacity
    /\ copying \in [Nodes -> SUBSET {"up", "down"}]
    /\ \A n \in Nodes : copying[n] # {} => phase[n] = "relay"
    /\ {left, right} \subseteq EndType
    /\ disturbed \in BOOLEAN

Bytes(k) == [i \in 1..k |-> i]

\* An end that sees the stream end has received all that the other end sent, if
\* nothing broke the session off; what it has received is a prefix in any case.
\* (With the types of the variables.)
EndMeansAll ==
    /\ TypeOK
    /\ IsPrefix(left.got, Bytes(right.sent))
    /\ IsPrefix(right.got, Bytes(left.sent))
    /\ ~disturbed /\ left.sawEnd => left.got = Bytes(right.sent)
    /\ ~disturbed /\ right.sawEnd => right.got = Bytes(left.sent)

\* Every node decodes the same chain, however long the path is and whatever the
\* first frame lost; and if that chain has few enough hops, with ports of 16
\* bits, it is the one the client sent and the last node dials its first hop.
EveryNodeSeesTheChain ==
    /\ \A n \in Nodes : hops[n] \in {<<>>, hops[1]}
    /\ Carried(sentChain) => /\ hops[1] \in {<<>>, sentChain}
                            /\ IsPrefix(dialled, sentChain)

\* The documented use of the chain: each node takes its own next hop off it, so
\* that the last one dials the last address.
EgressDialsTarget == dialled # <<>> => dialled = <<sentChain[Len(sentChain)]>>

\* The end of what the client sends reaches the target, and the end of the
\* answer the client, whether or not the other direction goes on; over TLS and
\* WebSocket the latter needs the client to have ended its own direction.
EndsArrive ==
    /\ left.ended /\ Connected ~> right.sawEnd \/ disturbed
    /\ right.ended /\ (transport = "tcp" \/ left.ended) ~> left.sawEnd \/ disturbed

\* When both ends have closed, and one of them not before it saw the other's
\* end, the handler of every node comes to its end, though nodes were stopped
\* meanwhile.  If both break off while bytes flow both ways, two nodes may wait
\* for each other to read: a copy that cannot write leaves its source open.
NothingLingers ==
    left.closed /\ right.closed /\ (left.sawEnd \/ right.sawEnd)
        ~> \A n \in Nodes : phase[n] = "closed"
=============================================================================
