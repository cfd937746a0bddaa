--------------------------- MODULE NPChainProofs ----------------------------
(***************************************************************************)
(* What Encode and Decode of NPCodec make of a chain, for any widths and   *)
(* addresses, and what NPChain keeps on a path of any length, for chains   *)
(* of any length over any set Hosts of hosts.                              *)
(***************************************************************************)
EXTENDS NPChain, SequenceTheorems, TLAPS

----------------------------------------------------------------------------
(* The codec *)

Forms == {"ipv4", "mapped", "ipv6", "domain", "invalid"}

Hops(Hosts) == [form : Forms, host : Hosts, len : Nat, port : Int]

\* Everything encodeHop accepts can be decoded again.
LEMMA EntryDecodes ==
    ASSUME NEW hop, hop.form \in Forms, Encodable(hop)
    PROVE  DecodableHop(EncodeHop(hop))
BY DEF Forms, Encodable, DecodableHop, EncodeHop, AddrType, AddrLen

\* decodeHop undoes encodeHop on a hop that an entry has room for.
LEMMA HopRoundTrip ==
    ASSUME NEW Hosts, NEW hop \in Hops(Hosts), Exact(hop)
    PROVE  DecodeHop(EncodeHop(hop)) = hop
<1>1. hop.port % PortMod = hop.port
  <2>1. hop.port \in Int /\ 0 <= hop.port /\ hop.port < PortMod
    BY WidthAssumption DEF Exact
  <2> QED
    BY <2>1, WidthAssumption
<1>2. AddrType(hop) = hop.form
  BY DEF Exact, AddrType
<1>3. AddrLen(hop) = hop.len
  BY DEF Exact
<1> QED
  BY <1>1, <1>2, <1>3 DEF Hops, DecodeHop, EncodeHop

\* What encodeHop and decodeHop make of any hop they accept has room in an entry.
LEMMA HopNormalised ==
    ASSUME NEW Hosts, NEW hop \in Hops(Hosts), Encodable(hop)
    PROVE  /\ DecodeHop(EncodeHop(hop)) \in Hops(Hosts)
           /\ Exact(DecodeHop(EncodeHop(hop)))
<1> DEFINE got == DecodeHop(EncodeHop(hop))
<1>1. got = [form |-> AddrType(hop), host |-> hop.host, len |-> AddrLen(hop),
             port |-> hop.port % PortMod]
  BY DEF DecodeHop, EncodeHop
<1>2. hop.form \in Forms /\ hop.len \in Nat /\ hop.port \in Int /\ hop.host \in Hosts
  BY DEF Hops
<1>3. hop.port % PortMod \in 0..(PortMod - 1)
  BY <1>2, WidthAssumption
<1>4. AddrType(hop) \in {"ipv4", "ipv6", "domain"}
  BY <1>2 DEF Forms, Encodable, AddrType
<1>5. AddrLen(hop) \in 0..MaxAddr
  BY <1>2, <1>4, AddressAssumption DEF Encodable, AddrLen
<1>6. AddrLen(got) = AddrLen(hop)
  BY <1>1, <1>4 DEF AddrLen, AddrType
<1>7. AddrLen(hop) \in Nat /\ hop.port % PortMod \in Int
  BY <1>3, <1>5, WidthAssumption, AddressAssumption
<1>8. got \in Hops(Hosts)
  BY <1>1, <1>2, <1>4, <1>7 DEF Hops, Forms
<1>9. Exact(got)
  BY <1>1, <1>3, <1>4, <1>5, <1>6 DEF Exact
<1> QED
  BY <1>8, <1>9

\* A chain short enough for the count, with ports of 16 bits, arrives exactly
\* as it was encoded (Encode and Decode of codec.go).
THEOREM RoundTrip ==
    ASSUME NEW Hosts, NEW chain \in Seq(Hops(Hosts)), Carried(chain)
    PROVE  /\ CanEncode(chain)
           /\ CanDecode(Encode(chain))
           /\ Decode(Encode(chain)) = chain
<1> DEFINE coded == Encode(chain)
<1>1. /\ Len(chain) \in Nat
      /\ DOMAIN chain = 1..Len(chain)
      /\ chain = [i \in 1..Len(chain) |-> chain[i]]
      /\ \A i \in 1..Len(chain) : chain[i] \in Hops(Hosts)
  OBVIOUS
<1>2. \A i \in 1..Len(chain) : Exact(chain[i])
  BY <1>1 DEF Carried
<1>3. coded.count = Len(chain)
  <2>1. Len(chain) < CountMod
    BY DEF Carried
  <2>2. Len(chain) % CountMod = Len(chain)
    BY <1>1, <2>1, WidthAssumption
  <2> QED
    BY <2>2 DEF Encode
<1>4. coded.entries = [i \in 1..Len(chain) |-> EncodeHop(chain[i])]
  BY <1>1 DEF Encode
<1>5. Len(coded.entries) = Len(chain)
  BY <1>1, <1>4
<1>6. \A i \in 1..Len(chain) : Encodable(chain[i])
  BY <1>2, AddressAssumption DEF Exact, Encodable
<1>7. CanEncode(chain)
  BY <1>1, <1>6 DEF CanEncode
<1>8. CanDecode(coded)
  <2> HIDE DEF coded
  <2> SUFFICES ASSUME NEW i \in 1..Len(chain)
               PROVE  DecodableHop(coded.entries[i])
    BY <1>1, <1>3, <1>5 DEF CanDecode
  <2>1. chain[i].form \in Forms
    BY <1>1 DEF Hops
  <2> QED
    BY <1>4, <1>6, <2>1, EntryDecodes
<1>9. Decode(coded) = chain
  <2> HIDE DEF coded
  <2>1. Decode(coded) = [i \in 1..Len(chain) |-> DecodeHop(coded.entries[i])]
    BY <1>3 DEF Decode
  <2>2. \A i \in 1..Len(chain) : DecodeHop(coded.entries[i]) = chain[i]
    BY <1>1, <1>2, <1>4, HopRoundTrip
  <2> QED
    BY <1>1, <2>1, <2>2
<1> QED
  BY <1>7, <1>8, <1>9

\* What a node has decoded, the next one decodes again: a port that wrapped, an
\* address that changed its spelling or hops that did not fit the count are lost
\* at the first node and nothing more is lost behind it.
THEOREM ForwardedUnchanged ==
    ASSUME NEW Hosts, NEW chain \in Seq(Hops(Hosts)), CanEncode(chain)
    PROVE  LET got == Decode(Encode(chain))
           IN  /\ got \in Seq(Hops(Hosts))
               /\ Carried(got)
               /\ Decode(Encode(got)) = got
<1> DEFINE coded == Encode(chain)
           got == Decode(coded)
<1>1. /\ Len(chain) \in Nat
      /\ DOMAIN chain = 1..Len(chain)
      /\ \A i \in 1..Len(chain) : chain[i] \in Hops(Hosts) /\ Encodable(chain[i])
  BY DEF CanEncode
<1>2. /\ coded.count \in Nat
      /\ coded.count < CountMod
      /\ coded.count <= Len(chain)
  <2>1. coded.count = Len(chain) % CountMod
    BY DEF Encode
  <2> QED
    BY <1>1, <2>1, WidthAssumption
<1>3. \A i \in 1..Len(chain) : coded.entries[i] = EncodeHop(chain[i])
  BY <1>1 DEF Encode
<1> HIDE DEF coded
<1>4. got = [i \in 1..coded.count |-> DecodeHop(coded.entries[i])]
  BY DEF Decode
<1>5. \A i \in 1..coded.count : got[i] \in Hops(Hosts) /\ Exact(got[i])
  <2> SUFFICES ASSUME NEW i \in 1..coded.count
               PROVE  got[i] \in Hops(Hosts) /\ Exact(got[i])
    OBVIOUS
  <2>1. i \in 1..Len(chain)
    BY <1>1, <1>2
  <2>2. got[i] = DecodeHop(EncodeHop(chain[i]))
    BY <1>3, <1>4, <2>1
  <2> HIDE DEF got
  <2> QED
    BY <1>1, <2>1, <2>2, HopNormalised
<1> HIDE DEF got
<1>6. got \in Seq(Hops(Hosts)) /\ Len(got) = coded.count /\ DOMAIN got = 1..coded.count
  <2> DEFINE n == coded.count
  <2>1. n \in Nat
    BY <1>2
  <2>2. got = [i \in 1..n |-> DecodeHop(coded.entries[i])]
    BY <1>4
  <2>3. \A i \in 1..n : got[i] \in Hops(Hosts)
    BY <1>5
  <2> HIDE DEF n
  <2>4. DOMAIN got = 1..n /\ got \in [1..n -> Hops(Hosts)]
    BY <2>2, <2>3
  <2>5. got \in Seq(Hops(Hosts)) /\ Len(got) = n
    BY <2>1, <2>4
  <2> QED
    BY <2>4, <2>5 DEF n
<1>7. Carried(got)
  BY <1>2, <1>5, <1>6 DEF Carried
<1>8. Decode(Encode(got)) = got
  BY <1>6, <1>7, RoundTrip
<1> QED
  BY <1>6, <1>7, <1>8 DEF got, coded

----------------------------------------------------------------------------
(* The session *)

Phases == {"idle", "reading", "dialing", "relay", "closed"}

\* What the first node makes of the client's frame.
Seen == Decode(Encode(sentChain))

\* What reaches a node behind the first one is what the first one has seen, and
\* a node that dials has decoded just that.
ChainInv ==
    /\ sentChain \in Chains
    /\ phase \in [Nodes -> Phases]
    /\ DOMAIN hops = Nodes /\ DOMAIN frame = Conns
    /\ \A n \in Nodes :
          /\ hops[n] \in {<<>>, Seen}
          /\ phase[n] \in {"dialing", "relay"} => hops[n] = Seen
          /\ n # 1 /\ phase[n] # "idle" =>
                hops[1] = Seen /\ frame[n - 1] = Encode(Seen)
          /\ phase[n] = "idle" => hops[n] = <<>>
    /\ frame[0] = Encode(sentChain)
    /\ dialled # <<>> => Seen # <<>> /\ dialled = <<Head(Seen)>>

\* A node has not been reached before the one to its left relays.
IdleInv ==
    \A n \in Nodes : n # Egress /\ phase[n] \in {"idle", "reading", "dialing"} =>
        phase[n + 1] = "idle"

\* The numbers above lo up to hi.
Seg(lo, hi) == [i \in 1..(hi - lo) |-> lo + i]

\* How many bytes have come as far as each place on the way: the client is place
\* 0, node n place n, the target the last place.
Places == 0..(Egress + 1)
Positions == [Places -> 0..MaxSent]

\* Each direction goes from its first place to its last, and over each
\* connection from the place where it goes in to the place where it comes out.
UpWay == [first |-> 0, last |-> Egress + 1,
          in |-> [c \in Conns |-> c], out |-> [c \in Conns |-> c + 1]]
DownWay == [first |-> Egress + 1, last |-> 0,
            in |-> [c \in Conns |-> c + 1], out |-> [c \in Conns |-> c]]

\* What s sends to r lies on the connections w of the way in one piece, cut only
\* where a reader has closed.  If nothing was broken off there is no cut, and the
\* end comes after all that was sent, on the connections, at the nodes that are
\* done and at the reader.
Flow(way, w, s, r, broken, done, p) ==
    /\ p[way.first] = s.sent
    /\ r.got = Seg(0, p[way.last])
    /\ \A c \in Conns :
          /\ p[way.out[c]] <= p[way.in[c]] /\ p[way.in[c]] <= s.sent
          /\ \/ w[c].bytes = Seg(p[way.out[c]], p[way.in[c]])
             \/ w[c].shut /\ w[c].bytes = <<>>
    /\ ~broken =>
          /\ \A c \in Conns :
                /\ w[c].bytes = Seg(p[way.out[c]], p[way.in[c]])
                /\ w[c].fin => s.ended /\ p[way.in[c]] = s.sent
          /\ \A n \in done : s.ended /\ p[n] = s.sent
          /\ r.sawEnd => s.ended /\ p[way.last] = s.sent

\* The nodes whose copy in one direction has ended.
Done(name) == {n \in Nodes : phase[n] = "relay" /\ name \notin copying[n]}

UpFlow(p) == Flow(UpWay, up, left, right, disturbed, Done("up"), p)
DownFlow(p) == Flow(DownWay, down, right, left, disturbed, Done("down"), p)

Ups == \E p \in Positions : UpFlow(p)
Downs == \E p \in Positions : DownFlow(p)

FlowInv == TypeOK /\ IdleInv /\ Ups /\ Downs

----------------------------------------------------------------------------
(* Chains *)

\* A prefix, element by element.
LEMMA PrefixByElements ==
    ASSUME NEW S, NEW s \in Seq(S), NEW t \in Seq(S), Len(s) <= Len(t),
           \A i \in 1..Len(s) : s[i] = t[i]
    PROVE  IsPrefix(s, t)
<1> DEFINE n == Len(s)
           p == SubSeq(t, 1, n)
<1>1. n \in Nat /\ Len(t) \in Nat /\ n <= Len(t)
  OBVIOUS
<1>2. \A i \in 1..n : t[i] \in S
  BY <1>1
<1>3. /\ p \in Seq(S)
      /\ Len(p) = IF 1 <= n THEN n - 1 + 1 ELSE 0
      /\ \A i \in 1..(n - 1 + 1) : p[i] = t[1 + i - 1]
  BY <1>1, <1>2, SubSeqProperties, 1 \in Int, n \in Int
<1>4. Len(p) = n /\ \A i \in 1..n : p[i] = t[i]
  <2> HIDE DEF n, p
  <2> QED BY <1>1, <1>3
<1>5. p = s
  <2> HIDE DEF p
  <2> QED BY <1>3, <1>4, SeqEqual
<1>6. SubSeq(s, 1, n) = s
  BY SubSeqFull
<1> QED BY <1>1, <1>5, <1>6 DEF IsPrefix

\* The first node sees a chain that travels unchanged from there on; it is the
\* one that was sent if a frame can carry that.
LEMMA SeenFacts ==
    ASSUME NEW Hosts, Chains \subseteq Seq(Hops(Hosts)), sentChain \in Chains
    PROVE  /\ Seen \in Seq(Hops(Hosts))
           /\ Decode(Encode(Seen)) = Seen
           /\ Carried(sentChain) => Seen = sentChain
<1>1. sentChain \in Seq(Hops(Hosts)) /\ CanEncode(sentChain)
  BY ChainsAssumption
<1>2. Seen \in Seq(Hops(Hosts)) /\ Decode(Encode(Seen)) = Seen
  BY <1>1, ForwardedUnchanged DEF Seen
<1>3. Carried(sentChain) => Seen = sentChain
  BY <1>1, RoundTrip DEF Seen
<1> QED BY <1>2, <1>3

\* The target and the rest are the chain again; a node without hops goes no
\* further.
LEMMA ForwardFacts ==
    ASSUME NEW Hosts, NEW n \in Nodes, hops[n] \in Seq(Hops(Hosts)), ~MustFail(n)
    PROVE  /\ hops[n] # <<>>
           /\ Forwarded(n) = hops[n]
           /\ Target(n) = Head(hops[n])
<1>1. hops[n] # <<>>
  <2> SUFFICES ASSUME hops[n] = <<>> PROVE MustFail(n)
    OBVIOUS
  <2>1. Forwarded(n) = <<NoHop>>
    BY DEF Forwarded, Target, HopChain
  <2>2. ~Encodable(NoHop)
    BY DEF Encodable, NoHop
  <2>3. 1 \in DOMAIN <<NoHop>> /\ <<NoHop>>[1] = NoHop
    OBVIOUS
  <2> QED BY <2>1, <2>2, <2>3 DEF MustFail, CanEncode
<1>2. <<Head(hops[n])>> \o Tail(hops[n]) = hops[n]
  BY <1>1, HeadTailProperties
<1> QED BY <1>1, <1>2 DEF Forwarded, Target, HopChain

----------------------------------------------------------------------------
(* Every step keeps the chain *)

LEMMA ChainInit == Init => ChainInv
<1> SUFFICES ASSUME Init PROVE ChainInv
  OBVIOUS
<1>1. phase \in [Nodes -> Phases]
  BY DEF Init, Phases
<1>2. 1 \in Nodes /\ 0 \in Conns
  BY PathAssumption DEF Nodes, Conns
<1> QED BY <1>1, <1>2 DEF Init, ChainInv

LEMMA ChainStep ==
    ASSUME NEW Hosts, Chains \subseteq Seq(Hops(Hosts)), ChainInv, [Next]_vars
    PROVE  ChainInv'
<1>s. /\ Seen \in Seq(Hops(Hosts))
      /\ Decode(Encode(Seen)) = Seen
      /\ sentChain \in Chains
  BY SeenFacts DEF ChainInv
<1>n. /\ Egress \in Nat /\ 1 \in Nodes
      /\ \A n \in Nodes : n \in Nat /\ n > 0 /\ n \in Conns /\ n - 1 \in Conns
                          /\ (n # Egress => n + 1 \in Nodes) /\ n + 1 # 1
  BY PathAssumption DEF Nodes, Conns
<1>e. UNCHANGED sentChain => Seen' = Seen
  BY DEF Seen
<1>i. ASSUME UNCHANGED <<sessionVars, phase>> PROVE ChainInv'
  BY <1>e, <1>i DEF ChainInv, sessionVars
<1>c. ASSUME NEW n \in Nodes, UNCHANGED sessionVars, phase[n] # "idle",
             phase' = [phase EXCEPT ![n] = "closed"]
      PROVE  ChainInv'
  BY <1>c, <1>e DEF ChainInv, sessionVars, Phases
<1>1. ASSUME NEW n \in Nodes, ReadFrame(n) PROVE ChainInv'
  <2>1. /\ UNCHANGED <<sentChain, frame, dialled>> /\ phase[n] = "reading"
        /\ hops' = [hops EXCEPT ![n] = Decode(frame[n - 1])]
        /\ phase' = [phase EXCEPT ![n] = "dialing"]
    BY <1>1 DEF ReadFrame
  <2>2. Decode(frame[n - 1]) = Seen
    <3>1. CASE n = 1
      BY <1>n, <3>1 DEF ChainInv, Seen
    <3>2. CASE n # 1
      BY <1>s, <2>1, <3>2 DEF ChainInv
    <3> QED BY <3>1, <3>2
  <2>3. phase' \in [Nodes -> Phases] /\ DOMAIN hops' = Nodes
    BY <2>1 DEF ChainInv, Phases
  <2>4. ASSUME NEW k \in Nodes
        PROVE  /\ hops'[k] \in {<<>>, Seen}
               /\ phase'[k] \in {"dialing", "relay"} => hops'[k] = Seen
               /\ k # 1 /\ phase'[k] # "idle" =>
                     hops'[1] = Seen /\ frame[k - 1] = Encode(Seen)
               /\ phase'[k] = "idle" => hops'[k] = <<>>
    <3>1. hops'[1] = hops[1] \/ hops'[1] = Seen
      BY <1>n, <2>1, <2>2 DEF ChainInv
    <3>2. CASE k = n
      BY <2>1, <2>2, <3>1, <3>2 DEF ChainInv
    <3>3. CASE k # n
      BY <2>1, <3>1, <3>3 DEF ChainInv
    <3> QED BY <3>2, <3>3
  <2> QED BY <1>e, <2>1, <2>3, <2>4 DEF ChainInv
<1>2. ASSUME NEW n \in Nodes, DialNext(n) PROVE ChainInv'
  <2>1. /\ UNCHANGED <<sentChain, hops, dialled>> /\ n # Egress
        /\ phase[n] = "dialing" /\ ~MustFail(n)
        /\ frame' = [frame EXCEPT ![n] = Encode(Forwarded(n))]
        /\ phase' = [phase EXCEPT ![n] = "relay", ![n + 1] = "reading"]
    BY <1>2 DEF DialNext, Relaying
  <2>2. hops[n] = Seen /\ Forwarded(n) = Seen
    BY <1>s, <2>1, ForwardFacts DEF ChainInv
  <2>3. hops[1] = Seen
    BY <1>n, <2>1, <2>2 DEF ChainInv
  <2>4. phase' \in [Nodes -> Phases] /\ DOMAIN frame' = Conns
    BY <2>1 DEF ChainInv, Phases
  <2>5. frame'[0] = frame[0] /\ frame'[n] = Encode(Seen)
        /\ \A c \in Conns \ {n} : frame'[c] = frame[c]
    BY <1>n, <2>1, <2>2 DEF ChainInv, Conns
  <2>6. ASSUME NEW k \in Nodes
        PROVE  /\ phase'[k] \in {"dialing", "relay"} => hops[k] = Seen
               /\ k # 1 /\ phase'[k] # "idle" => frame'[k - 1] = Encode(Seen)
               /\ phase'[k] = "idle" => hops[k] = <<>>
    <3>1. CASE k = n + 1
      <4>1. phase'[k] = "reading" /\ k - 1 = n
        BY <1>n, <2>1, <3>1 DEF ChainInv
      <4> QED BY <2>5, <4>1
    <3>2. CASE k = n
      <4>1. phase'[k] = "relay" /\ k - 1 # n /\ k - 1 \in Conns
        BY <1>n, <2>1, <3>2 DEF ChainInv
      <4> QED BY <2>1, <2>2, <2>5, <3>2, <4>1 DEF ChainInv
    <3>3. CASE k # n /\ k # n + 1
      <4>1. phase'[k] = phase[k] /\ k - 1 # n /\ k - 1 \in Conns
        BY <1>n, <2>1, <3>3 DEF ChainInv
      <4> QED BY <2>5, <4>1 DEF ChainInv
    <3> QED BY <3>1, <3>2, <3>3
  <2> QED BY <1>e, <2>1, <2>3, <2>4, <2>5, <2>6 DEF ChainInv
<1>3. CASE DialTarget
  <2>1. /\ UNCHANGED <<sentChain, hops, frame>>
        /\ phase[Egress] = "dialing" /\ ~MustFail(Egress)
        /\ dialled' = <<Target(Egress)>>
        /\ phase' = [phase EXCEPT ![Egress] = "relay"]
    BY <1>3 DEF DialTarget, Relaying
  <2>2. Egress \in Nodes
    BY PathAssumption DEF Nodes
  <2>3. hops[Egress] = Seen
    BY <2>1, <2>2 DEF ChainInv
  <2>4. Seen # <<>> /\ dialled' = <<Head(Seen)>>
    BY <1>s, <2>1, <2>2, <2>3, ForwardFacts
  <2>5. phase' \in [Nodes -> Phases]
    BY <2>1 DEF ChainInv, Phases
  <2>6. ASSUME NEW k \in Nodes
        PROVE  /\ phase'[k] \in {"dialing", "relay"} => hops[k] = Seen
               /\ phase'[k] = "idle" <=> phase[k] = "idle"
    <3>1. CASE k = Egress
      BY <2>1, <2>2, <2>3, <3>1 DEF ChainInv
    <3>2. CASE k # Egress
      BY <2>1, <3>2 DEF ChainInv
    <3> QED BY <3>1, <3>2
  <2> QED BY <1>e, <2>1, <2>4, <2>5, <2>6 DEF ChainInv
<1>4. ASSUME NEW n \in Nodes, Fails(n) \/ RelayEnds(n) \/ Stopped(n)
      PROVE  ChainInv'
  BY <1>4, <1>c DEF Fails, RelayEnds, Stopped
<1>5. ASSUME NEW n \in Nodes,
             CopyUp(n) \/ CopyDown(n) \/ UpEnds(n) \/ DownEnds(n)
      PROVE  ChainInv'
  BY <1>5, <1>i DEF CopyUp, CopyDown, UpEnds, DownEnds, nodeVars
<1>6. ASSUME Reads \/ ClientSends \/ TargetSends \/ ClientEnds \/ TargetEnds
             \/ ClientCloses \/ TargetCloses
      PROVE  ChainInv'
  BY <1>6, <1>i DEF Reads, ClientReads, TargetReads, ClientSeesEnd,
         TargetSeesEnd, ClientSends, TargetSends, ClientEnds, TargetEnds,
         ClientCloses, TargetCloses, EndsUnchanged, nodeVars
<1>7. CASE UNCHANGED vars
  BY <1>7, <1>i DEF vars, sessionVars
<1> QED BY <1>1, <1>2, <1>3, <1>4, <1>5, <1>6, <1>7 DEF Next, NodeRuns

\* Every node on the path decodes the same chain, for a path of any length and
\* chains over any hosts; if a frame can carry the client's chain it is that one,
\* and its first hop is what the last node dials.
THEOREM ChainKept ==
    ASSUME NEW Hosts, Chains \subseteq Seq(Hops(Hosts))
    PROVE  Spec => []EveryNodeSeesTheChain
<1>1. Init => ChainInv
  BY ChainInit
<1>2. ChainInv /\ [Next]_vars => ChainInv'
  BY ChainStep
<1>3. ChainInv => EveryNodeSeesTheChain
  <2> SUFFICES ASSUME ChainInv PROVE EveryNodeSeesTheChain
    OBVIOUS
  <2>1. /\ Seen \in Seq(Hops(Hosts))
        /\ Carried(sentChain) => Seen = sentChain
    BY SeenFacts DEF ChainInv
  <2>2. 1 \in Nodes
    BY PathAssumption DEF Nodes
  <2>3. \A n \in Nodes : hops[n] # <<>> => hops[n] = hops[1]
    BY <2>2 DEF ChainInv
  <2>4. Carried(sentChain) => hops[1] \in {<<>>, sentChain}
    BY <2>1, <2>2 DEF ChainInv
  <2>5. IsPrefix(dialled, Seen)
    <3> DEFINE S == Hops(Hosts)
    <3>0. Seen \in Seq(S)
      BY <2>1
    <3> HIDE DEF S
    <3>1. CASE dialled = <<>>
      <4>1. dialled \in Seq(S) /\ Len(dialled) = 0 /\ Len(Seen) \in Nat
        BY <3>0, <3>1
      <4>2. Len(dialled) <= Len(Seen) /\ \A i \in 1..Len(dialled) : FALSE
        BY <4>1
      <4>3. \A i \in 1..Len(dialled) : dialled[i] = Seen[i]
        BY <4>2
      <4> QED BY <3>0, <4>1, <4>2, <4>3, PrefixByElements
    <3>2. CASE dialled # <<>>
      <4>1. dialled = <<Head(Seen)>> /\ Seen # <<>>
        BY <3>2 DEF ChainInv
      <4>2. /\ Len(Seen) \in Nat /\ 1 <= Len(Seen)
            /\ Head(Seen) = Seen[1] /\ Seen[1] \in S
        BY <3>0, <4>1
      <4>3. dialled \in Seq(S) /\ Len(dialled) = 1 /\ dialled[1] = Seen[1]
        BY <4>1, <4>2
      <4> QED BY <3>0, <4>2, <4>3, PrefixByElements
    <3> QED BY <3>1, <3>2
  <2> QED BY <2>1, <2>3, <2>4, <2>5 DEF EveryNodeSeesTheChain
<1> QED BY <1>1, <1>2, <1>3, PTL DEF Spec
----------------------------------------------------------------------------
(* Pieces of a stream *)

LEMMA SegFacts ==
    ASSUME NEW lo \in Nat, NEW hi \in Nat, lo <= hi
    PROVE  /\ \A m \in Nat : hi <= m => Seg(lo, hi) \in Seq(1..m)
           /\ Len(Seg(lo, hi)) = hi - lo
           /\ DOMAIN Seg(lo, hi) = 1..(hi - lo)
           /\ \A i \in 1..(hi - lo) : Seg(lo, hi)[i] = lo + i
           /\ Seg(lo, hi) = <<>> <=> lo = hi
<1>1. hi - lo \in Nat
  OBVIOUS
<1>2. ASSUME NEW m \in Nat, hi <= m
      PROVE  Seg(lo, hi) \in Seq(1..m) /\ Len(Seg(lo, hi)) = hi - lo
  <2>1. \A i \in 1..(hi - lo) : lo + i \in 1..m
    BY <1>2
  <2>2. Seg(lo, hi) \in [1..(hi - lo) -> 1..m]
    BY <2>1 DEF Seg
  <2> QED BY <1>1, <2>2
<1>3. Seg(lo, hi) \in Seq(1..hi) /\ Len(Seg(lo, hi)) = hi - lo
  BY <1>2
<1>4. Seg(lo, hi) = <<>> <=> Len(Seg(lo, hi)) = 0
  BY <1>3, EmptySeq
<1>5. Seg(lo, hi) = <<>> <=> lo = hi
  BY <1>3, <1>4
<1> QED BY <1>2, <1>3, <1>5 DEF Seg

\* The reader takes the first byte ...
LEMMA SegTake ==
    ASSUME NEW lo \in Nat, NEW hi \in Nat, lo < hi
    PROVE  Head(Seg(lo, hi)) = lo + 1 /\ Tail(Seg(lo, hi)) = Seg(lo + 1, hi)
<1> DEFINE s == Seg(lo, hi)
           t == Seg(lo + 1, hi)
<1>1. /\ s \in Seq(1..hi) /\ s # <<>> /\ Len(s) = hi - lo
      /\ \A i \in 1..(hi - lo) : s[i] = lo + i
  BY SegFacts
<1>2. /\ t \in Seq(1..hi) /\ Len(t) = hi - lo - 1
      /\ \A i \in 1..(hi - lo - 1) : t[i] = lo + 1 + i
  BY SegFacts
<1> HIDE DEF s, t
<1>3. /\ Head(s) = s[1] /\ Tail(s) \in Seq(1..hi) /\ Len(Tail(s)) = Len(s) - 1
      /\ \A i \in 1..Len(Tail(s)) : Tail(s)[i] = s[i + 1]
  BY <1>1, HeadTailProperties
<1>4. Len(Tail(s)) = Len(t) /\ \A i \in 1..Len(Tail(s)) : Tail(s)[i] = t[i]
  BY <1>1, <1>2, <1>3
<1>5. Tail(s) = t
  BY <1>2, <1>3, <1>4, SeqEqual
<1>6. Head(s) = lo + 1
  BY <1>1, <1>3
<1> QED BY <1>5, <1>6 DEF s, t

\* ... and the writer puts one more behind the last.
LEMMA SegPut ==
    ASSUME NEW lo \in Nat, NEW hi \in Nat, lo <= hi
    PROVE  Append(Seg(lo, hi), hi + 1) = Seg(lo, hi + 1)
<1> DEFINE s == Seg(lo, hi)
           t == Seg(lo, hi + 1)
           S == 1..(hi + 1)
<1>1. /\ s \in Seq(S) /\ Len(s) = hi - lo
      /\ \A i \in 1..(hi - lo) : s[i] = lo + i
  <2>1. hi - lo \in Nat /\ \A i \in 1..(hi - lo) : lo + i \in S
    OBVIOUS
  <2>2. s \in [1..(hi - lo) -> S]
    BY <2>1 DEF Seg
  <2>3. s \in Seq(S) /\ Len(s) = hi - lo
    BY <2>1, <2>2
  <2> QED BY <2>3, SegFacts
<1>2. /\ t \in Seq(S) /\ Len(t) = hi - lo + 1
      /\ \A i \in 1..(hi - lo + 1) : t[i] = lo + i
  BY SegFacts
<1>3. hi + 1 \in S
  OBVIOUS
<1> HIDE DEF s, t, S
<1>4. /\ Append(s, hi + 1) \in Seq(S)
      /\ Len(Append(s, hi + 1)) = Len(s) + 1
      /\ \A i \in 1..Len(s) : Append(s, hi + 1)[i] = s[i]
      /\ Append(s, hi + 1)[Len(s) + 1] = hi + 1
  BY <1>1, <1>3, AppendProperties
<1>5. \A i \in 1..Len(Append(s, hi + 1)) : Append(s, hi + 1)[i] = t[i]
  BY <1>1, <1>2, <1>4
<1>6. Append(s, hi + 1) = t
  BY <1>1, <1>2, <1>4, <1>5, SeqEqual
<1> QED BY <1>6 DEF s, t

----------------------------------------------------------------------------
(* What the steps do to a connection *)

\* The places and the connections.
LEMMA PathFacts ==
    /\ Egress \in Nat /\ Egress >= 1 /\ 0 \in Conns /\ Egress \in Conns
    /\ \A n \in Nodes : n \in Nat /\ n >= 1 /\ n \in Conns /\ n - 1 \in Conns
    /\ \A c \in Conns : c \in Nat /\ c \in 0..(Egress + 1) /\ c + 1 \in 0..(Egress + 1)
BY PathAssumption DEF Nodes, Conns

\* The empty stream, by name.
Nothing == <<>>

\* A direction whose fields are right is one.
LEMMA DirectionFields ==
    ASSUME NEW d, d \in DirectionType
    PROVE  /\ d.bytes \in Seq(1..MaxSent) /\ d.fin \in BOOLEAN /\ d.shut \in BOOLEAN
           /\ d = [bytes |-> d.bytes, fin |-> d.fin, shut |-> d.shut]
BY DEF DirectionType

\* The writer of one connection closes its side ...
Finning(f, c, b) == [f EXCEPT ![c].fin = b]

LEMMA FinTo ==
    ASSUME NEW f \in [Conns -> DirectionType], NEW c \in Conns, NEW b \in BOOLEAN,
           NEW g, g = Finning(f, c, b)
    PROVE  /\ g \in [Conns -> DirectionType]
           /\ g[c].bytes = f[c].bytes /\ g[c].fin = b /\ g[c].shut = f[c].shut
           /\ \A k \in Conns \ {c} : g[k] = f[k]
<1>1. /\ f[c].bytes \in Seq(1..MaxSent) /\ f[c].fin \in BOOLEAN
      /\ f[c].shut \in BOOLEAN
      /\ f[c] = [bytes |-> f[c].bytes, fin |-> f[c].fin, shut |-> f[c].shut]
  BY DirectionFields
<1>2. [f[c] EXCEPT !.fin = b] = [bytes |-> f[c].bytes, fin |-> b, shut |-> f[c].shut]
  BY <1>1
<1>3. g = [f EXCEPT ![c] = [f[c] EXCEPT !.fin = b]]
  BY DEF Finning
<1>4. [f[c] EXCEPT !.fin = b] \in DirectionType
  BY <1>1, <1>2 DEF DirectionType
<1> QED BY <1>2, <1>3, <1>4

\* ... its reader refuses what it has not read ...
Shutting(f, c, b) == [f EXCEPT ![c].shut = b, ![c].bytes = <<>>]

LEMMA ShutTo ==
    ASSUME NEW f \in [Conns -> DirectionType], NEW c \in Conns, NEW b \in BOOLEAN,
           NEW g, g = Shutting(f, c, b)
    PROVE  /\ g \in [Conns -> DirectionType]
           /\ g[c].bytes = <<>> /\ g[c].fin = f[c].fin /\ g[c].shut = b
           /\ \A k \in Conns \ {c} : g[k] = f[k]
<1>1. /\ f[c].bytes \in Seq(1..MaxSent) /\ f[c].fin \in BOOLEAN
      /\ f[c].shut \in BOOLEAN
      /\ f[c] = [bytes |-> f[c].bytes, fin |-> f[c].fin, shut |-> f[c].shut]
  BY DirectionFields
<1> DEFINE e == [f[c] EXCEPT !.shut = b]
           d == [e EXCEPT !.bytes = <<>>]
<1>2. e = [bytes |-> f[c].bytes, fin |-> f[c].fin, shut |-> b]
  BY <1>1
<1>3. g = [f EXCEPT ![c] = d]
  BY DEF Shutting
<1> HIDE DEF e
<1>4. d = [bytes |-> <<>>, fin |-> f[c].fin, shut |-> b]
  BY <1>2
<1>5. <<>> \in Seq(1..MaxSent)
  OBVIOUS
<1> HIDE DEF d
<1>6. d \in DirectionType
  BY <1>1, <1>4, <1>5 DEF DirectionType
<1> QED BY <1>3, <1>4, <1>6

\* ... or bytes are put on it or taken off it.
Holding(f, c, s) == [f EXCEPT ![c].bytes = s]

LEMMA BytesFacts ==
    ASSUME NEW f \in [Conns -> DirectionType], NEW c \in Conns,
           NEW s \in Seq(1..MaxSent)
    PROVE  /\ Holding(f, c, s) \in [Conns -> DirectionType]
           /\ Holding(f, c, s)[c].bytes = s /\ Holding(f, c, s)[c].fin = f[c].fin
           /\ Holding(f, c, s)[c].shut = f[c].shut
           /\ \A k \in Conns \ {c} : Holding(f, c, s)[k] = f[k]
<1>1. /\ f[c].bytes \in Seq(1..MaxSent) /\ f[c].fin \in BOOLEAN
      /\ f[c].shut \in BOOLEAN
      /\ f[c] = [bytes |-> f[c].bytes, fin |-> f[c].fin, shut |-> f[c].shut]
  BY DirectionFields
<1>2. [f[c] EXCEPT !.bytes = s] = [bytes |-> s, fin |-> f[c].fin, shut |-> f[c].shut]
  BY <1>1
<1>3. Holding(f, c, s) = [f EXCEPT ![c] = [f[c] EXCEPT !.bytes = s]]
  BY DEF Holding
<1>4. [f[c] EXCEPT !.bytes = s] \in DirectionType
  BY <1>1, <1>2 DEF DirectionType
<1> QED BY <1>2, <1>3, <1>4

\* Both, as the code does them.
Ended(f, c) == [f EXCEPT ![c].fin = TRUE]
Refused(f, c) == [f EXCEPT ![c].shut = TRUE, ![c].bytes = <<>>]

LEMMA EndedFacts ==
    ASSUME NEW f \in [Conns -> DirectionType], NEW c \in Conns
    PROVE  /\ Ended(f, c) \in [Conns -> DirectionType]
           /\ Ended(f, c)[c].bytes = f[c].bytes /\ Ended(f, c)[c].fin
           /\ Ended(f, c)[c].shut = f[c].shut
           /\ \A k \in Conns \ {c} : Ended(f, c)[k] = f[k]
           /\ \A k \in Conns : /\ Ended(f, c)[k].bytes = f[k].bytes
                               /\ Ended(f, c)[k].shut = f[k].shut
                               /\ Ended(f, c)[k].fin => f[k].fin \/ k = c
<1>1. PICK b \in BOOLEAN : b = TRUE
  OBVIOUS
<1>2. Ended(f, c) = Finning(f, c, b)
  BY <1>1, Zenon DEF Ended, Finning
<1>3. PICK g : g = Ended(f, c)
  OBVIOUS
<1>4. /\ g \in [Conns -> DirectionType]
      /\ g[c].bytes = f[c].bytes /\ g[c].fin = b /\ g[c].shut = f[c].shut
      /\ \A k \in Conns \ {c} : g[k] = f[k]
  BY <1>2, <1>3, FinTo
<1>5. g[c].fin
  BY <1>1, <1>4, Zenon
<1>6. ASSUME NEW k \in Conns
      PROVE  /\ g[k].bytes = f[k].bytes /\ g[k].shut = f[k].shut
             /\ g[k].fin => f[k].fin \/ k = c
  BY <1>4
<1> QED BY <1>3, <1>4, <1>5, <1>6

LEMMA RefusedFacts ==
    ASSUME NEW f \in [Conns -> DirectionType], NEW c \in Conns
    PROVE  /\ Refused(f, c) \in [Conns -> DirectionType]
           /\ Refused(f, c)[c].bytes = <<>> /\ Refused(f, c)[c].fin = f[c].fin
           /\ Refused(f, c)[c].shut
           /\ \A k \in Conns \ {c} : Refused(f, c)[k] = f[k]
<1>1. PICK b \in BOOLEAN : b = TRUE
  OBVIOUS
<1>2. Refused(f, c) = Shutting(f, c, b)
  BY <1>1, Zenon DEF Refused, Shutting
<1>3. PICK g : g = Refused(f, c)
  OBVIOUS
<1>4. /\ g \in [Conns -> DirectionType]
      /\ g[c].bytes = <<>> /\ g[c].fin = f[c].fin /\ g[c].shut = b
      /\ \A k \in Conns \ {c} : g[k] = f[k]
  BY <1>2, <1>3, ShutTo
<1>5. g[c].shut
  BY <1>1, <1>4, Zenon
<1> QED BY <1>3, <1>4, <1>5

\* A node closes the right end of one connection and the left end of the next.
LEMMA NodeClosesFacts ==
    ASSUME TypeOK, NEW n \in Nodes, NodeCloses(n)
    PROVE  /\ up' \in [Conns -> DirectionType] /\ down' \in [Conns -> DirectionType]
           /\ up'[n - 1].bytes = Nothing /\ up'[n - 1].fin = up[n - 1].fin
           /\ up'[n - 1].shut
           /\ up'[n].bytes = up[n].bytes /\ up'[n].fin /\ up'[n].shut = up[n].shut
           /\ down'[n].bytes = Nothing /\ down'[n].fin = down[n].fin /\ down'[n].shut
           /\ down'[n - 1].bytes = down[n - 1].bytes /\ down'[n - 1].fin
           /\ down'[n - 1].shut = down[n - 1].shut
           /\ \A k \in Conns \ {n - 1, n} : up'[k] = up[k] /\ down'[k] = down[k]
<1> DEFINE c == n - 1
           u == Refused(up, c)
           d == Ended(down, c)
<1>1. c \in Conns /\ n \in Conns /\ c # n
  BY PathFacts
<1>2. up \in [Conns -> DirectionType] /\ down \in [Conns -> DirectionType]
  BY DEF TypeOK
<1>3. up' = Ended(u, n) /\ down' = Refused(d, n)
  BY DEF NodeCloses, Ended, Refused
<1> HIDE DEF c
<1>4. /\ u \in [Conns -> DirectionType]
      /\ u[c].bytes = <<>> /\ u[c].fin = up[c].fin /\ u[c].shut
      /\ \A k \in Conns \ {c} : u[k] = up[k]
  BY <1>1, <1>2, RefusedFacts
<1>5. /\ d \in [Conns -> DirectionType]
      /\ d[c].bytes = down[c].bytes /\ d[c].fin /\ d[c].shut = down[c].shut
      /\ \A k \in Conns \ {c} : d[k] = down[k]
  BY <1>1, <1>2, EndedFacts
<1> HIDE DEF u, d
<1>6. /\ up' \in [Conns -> DirectionType]
      /\ up'[n].bytes = u[n].bytes /\ up'[n].fin /\ up'[n].shut = u[n].shut
      /\ \A k \in Conns \ {n} : up'[k] = u[k]
  BY <1>1, <1>3, <1>4, EndedFacts
<1>7. /\ down' \in [Conns -> DirectionType]
      /\ down'[n].bytes = <<>> /\ down'[n].fin = d[n].fin /\ down'[n].shut
      /\ \A k \in Conns \ {n} : down'[k] = d[k]
  BY <1>1, <1>3, <1>5, RefusedFacts
<1>8. /\ up'[c] = u[c] /\ up'[n].bytes = up[n].bytes /\ up'[n].shut = up[n].shut
      /\ down'[c] = d[c] /\ down'[n].fin = down[n].fin
      /\ \A k \in Conns \ {c, n} : up'[k] = up[k] /\ down'[k] = down[k]
  BY <1>1, <1>4, <1>5, <1>6, <1>7
<1> QED BY <1>4, <1>5, <1>6, <1>7, <1>8 DEF c, Nothing

LEMMA LeftClosesFacts ==
    ASSUME TypeOK, NEW c \in Conns, LeftCloses(c)
    PROVE  /\ up' \in [Conns -> DirectionType] /\ down' \in [Conns -> DirectionType]
           /\ up'[c].bytes = up[c].bytes /\ up'[c].fin /\ up'[c].shut = up[c].shut
           /\ down'[c].bytes = <<>> /\ down'[c].fin = down[c].fin /\ down'[c].shut
           /\ \A k \in Conns \ {c} : up'[k] = up[k] /\ down'[k] = down[k]
<1>1. up \in [Conns -> DirectionType] /\ down \in [Conns -> DirectionType]
  BY DEF TypeOK
<1>2. up' = Ended(up, c) /\ down' = Refused(down, c)
  BY DEF LeftCloses, Ended, Refused
<1> QED BY <1>1, <1>2, EndedFacts, RefusedFacts

LEMMA RightClosesFacts ==
    ASSUME TypeOK, NEW c \in Conns, RightCloses(c)
    PROVE  /\ up' \in [Conns -> DirectionType] /\ down' \in [Conns -> DirectionType]
           /\ up'[c].bytes = <<>> /\ up'[c].fin = up[c].fin /\ up'[c].shut
           /\ down'[c].bytes = down[c].bytes /\ down'[c].fin
           /\ down'[c].shut = down[c].shut
           /\ \A k \in Conns \ {c} : up'[k] = up[k] /\ down'[k] = down[k]
<1>1. up \in [Conns -> DirectionType] /\ down \in [Conns -> DirectionType]
  BY DEF TypeOK
<1>2. up' = Refused(up, c) /\ down' = Ended(down, c)
  BY DEF RightCloses, Ended, Refused
<1> QED BY <1>1, <1>2, EndedFacts, RefusedFacts

----------------------------------------------------------------------------
(* What the steps do to a flow *)

\* A way visits each place once.
IsWay(way) ==
    /\ way.first \in Places /\ way.last \in Places /\ way.first # way.last
    /\ way.first \notin Nodes /\ way.last \notin Nodes
    /\ way.in \in [Conns -> Places] /\ way.out \in [Conns -> Places]
    /\ \A c, d \in Conns : c # d => /\ way.in[c] # way.in[d]
                                    /\ way.out[c] # way.out[d]
    /\ \A c \in Conns : /\ way.in[c] # way.out[c]
                        /\ way.in[c] # way.last /\ way.out[c] # way.first

LEMMA WaysAreWays == IsWay(UpWay) /\ IsWay(DownWay)
BY PathAssumption DEF IsWay, UpWay, DownWay, Places, Conns, Nodes

LEMMA PlaceFacts ==
    ASSUME NEW way, IsWay(way), NEW p \in Positions
    PROVE  /\ p[way.first] \in 0..MaxSent /\ p[way.last] \in 0..MaxSent
           /\ \A c \in Conns : p[way.in[c]] \in 0..MaxSent /\ p[way.out[c]] \in 0..MaxSent
BY DEF IsWay, Positions

\* A step that moves no byte keeps a flow, if it leaves each connection its bytes,
\* or takes them away as it closes the reading side, which drops nothing where
\* nothing is broken off, and if every new end is a true one.
LEMMA FlowKeeps ==
    ASSUME NEW way, IsWay(way), NEW p \in Positions, NEW w, NEW w2, NEW s, NEW s2,
           NEW r, NEW r2, NEW broken, NEW broken2,
           NEW done, NEW done2,
           Flow(way, w, s, r, broken, done, p),
           s2.sent = s.sent, s.ended => s2.ended, r2.got = r.got,
           broken => broken2,
           \A c \in Conns :
              \/ w2[c].bytes = w[c].bytes /\ (w[c].shut => w2[c].shut)
              \/ /\ w2[c].bytes = Nothing /\ w2[c].shut
                 /\ ~broken2 => w[c].bytes = Nothing,
           ~broken2 =>
              /\ \A c \in Conns : w2[c].fin =>
                    w[c].fin \/ (s2.ended /\ p[way.in[c]] = s.sent)
              /\ \A n \in done2 : n \in done \/ (s2.ended /\ p[n] = s.sent)
              /\ r2.sawEnd => r.sawEnd \/ (s2.ended /\ p[way.last] = s.sent)
    PROVE  Flow(way, w2, s2, r2, broken2, done2, p)
<1>1. \A c \in Conns :
         /\ p[way.out[c]] <= p[way.in[c]] /\ p[way.in[c]] <= s2.sent
         /\ \/ w2[c].bytes = Seg(p[way.out[c]], p[way.in[c]])
            \/ w2[c].shut /\ w2[c].bytes = <<>>
  BY DEF Flow, Nothing
<1>2. ASSUME ~broken2
      PROVE  /\ \A c \in Conns :
                   /\ w2[c].bytes = Seg(p[way.out[c]], p[way.in[c]])
                   /\ w2[c].fin => s2.ended /\ p[way.in[c]] = s2.sent
             /\ \A n \in done2 : s2.ended /\ p[n] = s2.sent
             /\ r2.sawEnd => s2.ended /\ p[way.last] = s2.sent
  BY <1>2 DEF Flow, Nothing
<1> QED BY <1>1, <1>2 DEF Flow, Nothing

\* The sender puts one more byte on the first connection.
LEMMA FlowSends ==
    ASSUME NEW way, IsWay(way), NEW p \in Positions, NEW w, NEW w2, NEW s, NEW s2,
           NEW r, NEW broken, NEW done, done \subseteq Nodes,
           Flow(way, w, s, r, broken, done, p),
           s.sent \in Nat, s.sent < MaxSent, ~s.ended, s2.sent = s.sent + 1,
           NEW j \in Conns, way.in[j] = way.first, ~w[j].shut,
           w2[j].bytes = Append(w[j].bytes, s.sent + 1),
           w2[j].fin = w[j].fin,
           \A c \in Conns \ {j} : w2[c] = w[c]
    PROVE  \E q \in Positions : Flow(way, w2, s2, r, broken, done, q)
<1> DEFINE q == [p EXCEPT ![way.first] = @ + 1]
<1>1. MaxSent \in Nat
  BY BoundsAssumption
<1>2. /\ q \in Positions /\ q[way.first] = s2.sent
      /\ \A k \in Places \ {way.first} : q[k] = p[k]
  BY <1>1 DEF IsWay, Positions, Flow
<1>3. /\ q[way.last] = p[way.last]
      /\ \A c \in Conns : q[way.out[c]] = p[way.out[c]]
      /\ \A c \in Conns \ {j} : q[way.in[c]] = p[way.in[c]]
      /\ q[way.in[j]] = s2.sent /\ p[way.in[j]] = s.sent
  BY <1>2 DEF IsWay, Flow
<1> HIDE DEF q
<1>4. /\ w[j].bytes = Seg(p[way.out[j]], s.sent)
      /\ p[way.out[j]] \in Nat /\ p[way.out[j]] <= s.sent
  BY <1>3, PlaceFacts DEF Flow
<1>5. w2[j].bytes = Seg(q[way.out[j]], s2.sent)
  BY <1>3, <1>4, SegPut
<1>6. \A c \in Conns :
         /\ q[way.out[c]] <= q[way.in[c]] /\ q[way.in[c]] <= s2.sent
         /\ \/ w2[c].bytes = Seg(q[way.out[c]], q[way.in[c]])
            \/ w2[c].shut /\ w2[c].bytes = <<>>
  <2> TAKE c \in Conns
  <2>1. CASE c = j
    BY <1>3, <1>4, <1>5, <2>1
  <2>2. CASE c # j
    BY <1>3, <2>2, PlaceFacts, <1>1 DEF Flow
  <2> QED BY <2>1, <2>2
<1>7. ASSUME ~broken
      PROVE  /\ \A c \in Conns :
                   /\ w2[c].bytes = Seg(q[way.out[c]], q[way.in[c]])
                   /\ ~w2[c].fin
             /\ done = {}
             /\ ~r.sawEnd
  BY <1>3, <1>5, <1>7 DEF Flow
<1>8. Flow(way, w2, s2, r, broken, done, q)
  BY <1>2, <1>3, <1>6, <1>7 DEF Flow
<1> QED BY <1>2, <1>8

\* The reader takes one byte off the last connection.
ReadsOne(way, w, w2, r, r2, i) ==
    /\ i \in Conns /\ way.out[i] = way.last /\ w[i].bytes # <<>>
    /\ r2.got = Append(r.got, Head(w[i].bytes))
    /\ r2.sawEnd => r.sawEnd
    /\ w2[i].bytes = Tail(w[i].bytes) /\ w2[i].fin = w[i].fin
    /\ \A c \in Conns \ {i} : w2[c] = w[c]

LEMMA FlowReads ==
    ASSUME NEW way, IsWay(way), NEW p \in Positions, NEW w, NEW w2, NEW s,
           NEW r, NEW r2, NEW broken, NEW done, done \subseteq Nodes,
           Flow(way, w, s, r, broken, done, p),
           s.sent \in Nat, NEW i, ReadsOne(way, w, w2, r, r2, i)
    PROVE  \E q \in Positions : Flow(way, w2, s, r2, broken, done, q)
<1>a. /\ i \in Conns /\ way.out[i] = way.last /\ w[i].bytes # <<>>
      /\ r2.got = Append(r.got, Head(w[i].bytes))
      /\ r2.sawEnd => r.sawEnd
      /\ w2[i].bytes = Tail(w[i].bytes) /\ w2[i].fin = w[i].fin
      /\ \A c \in Conns \ {i} : w2[c] = w[c]
  BY DEF ReadsOne
<1> DEFINE lo == p[way.last]
           hi == p[way.in[i]]
           q == [p EXCEPT ![way.last] = @ + 1]
<1>1. MaxSent \in Nat
  BY BoundsAssumption
<1>2. w[i].bytes = Seg(lo, hi) /\ lo \in Nat /\ hi \in 0..MaxSent /\ lo <= hi
      /\ hi <= s.sent /\ p[way.first] = s.sent
  BY <1>a, PlaceFacts DEF Flow
<1>3. lo < hi
  <2> HIDE DEF lo, hi
  <2>1. hi \in Nat
    BY <1>1, <1>2
  <2>2. Seg(lo, hi) = <<>> <=> lo = hi
    BY <1>2, <2>1, SegFacts
  <2> QED BY <1>a, <1>2, <2>1, <2>2
<1>4. Head(w[i].bytes) = lo + 1 /\ w2[i].bytes = Seg(lo + 1, hi)
  <2> HIDE DEF lo, hi
  <2>1. hi \in Nat
    BY <1>1, <1>2
  <2>2. Head(Seg(lo, hi)) = lo + 1 /\ Tail(Seg(lo, hi)) = Seg(lo + 1, hi)
    BY <1>2, <1>3, <2>1, SegTake
  <2> QED BY <1>a, <1>2, <2>2
<1>5. /\ q \in Positions /\ q[way.last] = lo + 1
      /\ \A k \in Places \ {way.last} : q[k] = p[k]
  BY <1>1, <1>2, <1>3 DEF IsWay, Positions
<1>6. /\ q[way.first] = s.sent
      /\ \A c \in Conns : q[way.in[c]] = p[way.in[c]]
      /\ \A c \in Conns \ {i} : q[way.out[c]] = p[way.out[c]]
      /\ \A n \in done : q[n] = p[n]
  <2>1. Nodes \subseteq Places
    BY PathAssumption DEF Nodes, Places
  <2> QED BY <1>a, <1>2, <1>5, <2>1 DEF IsWay
<1>7. r2.got = Seg(0, lo + 1)
  <2>1. r.got = Seg(0, lo)
    BY DEF Flow
  <2>2. 0 \in Nat /\ 0 <= lo
    BY <1>2
  <2>3. Append(Seg(0, lo), lo + 1) = Seg(0, lo + 1)
    <3> HIDE DEF lo
    <3> QED BY <1>2, <2>2, SegPut
  <2> QED BY <1>a, <1>4, <2>1, <2>3
<1> HIDE DEF q, lo, hi
<1>8. \A c \in Conns :
         /\ q[way.out[c]] <= q[way.in[c]] /\ q[way.in[c]] <= s.sent
         /\ \/ w2[c].bytes = Seg(q[way.out[c]], q[way.in[c]])
            \/ w2[c].shut /\ w2[c].bytes = <<>>
  <2> TAKE c \in Conns
  <2>1. CASE c = i
    BY <1>a, <1>2, <1>3, <1>4, <1>5, <1>6, <2>1 DEF hi
  <2>2. CASE c # i
    BY <1>a, <1>6, <2>2 DEF Flow
  <2> QED BY <2>1, <2>2
<1>9. ASSUME ~broken
      PROVE  /\ \A c \in Conns :
                   /\ w2[c].bytes = Seg(q[way.out[c]], q[way.in[c]])
                   /\ w2[c].fin => s.ended /\ q[way.in[c]] = s.sent
             /\ \A n \in done : s.ended /\ q[n] = s.sent
             /\ ~r2.sawEnd
  <2>1. ~r.sawEnd
    BY <1>a, <1>2, <1>3, <1>9 DEF Flow, lo
  <2>2. ASSUME NEW c \in Conns
        PROVE  /\ w2[c].bytes = Seg(q[way.out[c]], q[way.in[c]])
               /\ w2[c].fin => s.ended /\ q[way.in[c]] = s.sent
    <3>1. CASE c = i
      BY <1>a, <1>4, <1>5, <1>6, <1>9, <3>1 DEF Flow, hi
    <3>2. CASE c # i
      BY <1>a, <1>6, <1>9, <3>2 DEF Flow
    <3> QED BY <3>1, <3>2
  <2> QED BY <1>a, <1>6, <1>9, <2>1, <2>2 DEF Flow
<1>10. Flow(way, w2, s, r2, broken, done, q)
  BY <1>a, <1>5, <1>6, <1>7, <1>8, <1>9 DEF Flow
<1> QED BY <1>a, <1>5, <1>10

\* A node takes one byte off connection i and puts it on connection j.
LEMMA FlowCopies ==
    ASSUME NEW way, IsWay(way), NEW p \in Positions, NEW w, NEW w2, NEW s,
           NEW r, NEW broken, NEW done, done \subseteq Nodes,
           Flow(way, w, s, r, broken, done, p),
           s.sent \in Nat, NEW n \in Nodes, NEW i \in Conns, NEW j \in Conns,
           way.out[i] = n, way.in[j] = n, w[i].bytes # Nothing, ~w[j].shut,
           w2[i].bytes = Tail(w[i].bytes), w2[i].fin = w[i].fin,
           w2[j].bytes = Append(w[j].bytes, Head(w[i].bytes)), w2[j].fin = w[j].fin,
           \A c \in Conns \ {i, j} : w2[c] = w[c]
    PROVE  \E q \in Positions : Flow(way, w2, s, r, broken, done, q)
<1> DEFINE lo == p[n]
           hi == p[way.in[i]]
           q == [p EXCEPT ![n] = @ + 1]
<1>0. n \in Places /\ Nodes \subseteq Places /\ i # j
  BY PathAssumption DEF Nodes, Places, IsWay
<1>1. MaxSent \in Nat
  BY BoundsAssumption
<1>2. w[i].bytes = Seg(lo, hi) /\ lo \in Nat /\ hi \in 0..MaxSent /\ lo <= hi
      /\ hi <= s.sent
  BY PlaceFacts DEF Flow, Nothing
<1>3. lo < hi
  <2> HIDE DEF lo, hi
  <2>1. hi \in Nat
    BY <1>1, <1>2
  <2>2. Seg(lo, hi) = <<>> <=> lo = hi
    BY <1>2, <2>1, SegFacts
  <2> QED BY <1>2, <2>1, <2>2 DEF Nothing
<1>4. Head(w[i].bytes) = lo + 1 /\ w2[i].bytes = Seg(lo + 1, hi)
  BY <1>2, <1>3, SegTake
<1>5. /\ q \in Positions /\ q[n] = lo + 1
      /\ \A k \in Places \ {n} : q[k] = p[k]
  BY <1>0, <1>1, <1>2, <1>3 DEF Positions
<1>6. /\ q[way.first] = p[way.first] /\ q[way.last] = p[way.last]
      /\ \A c \in Conns \ {i} : q[way.out[c]] = p[way.out[c]]
      /\ \A c \in Conns \ {j} : q[way.in[c]] = p[way.in[c]]
      /\ q[way.out[i]] = lo + 1 /\ q[way.in[j]] = lo + 1
      /\ p[way.in[j]] = lo
  BY <1>0, <1>5 DEF IsWay
<1> DEFINE z == p[way.out[j]]
<1>7. w[j].bytes = Seg(z, lo) /\ z \in Nat /\ z <= lo
  BY <1>6, PlaceFacts DEF Flow
<1>8. w2[j].bytes = Seg(z, lo + 1)
  BY <1>2, <1>4, <1>7, SegPut
<1>9. q[way.in[i]] = hi /\ q[way.out[j]] = z
  BY <1>0, <1>6
<1> HIDE DEF q, lo, hi, z
<1>10. \A c \in Conns :
         /\ q[way.out[c]] <= q[way.in[c]] /\ q[way.in[c]] <= s.sent
         /\ \/ w2[c].bytes = Seg(q[way.out[c]], q[way.in[c]])
            \/ w2[c].shut /\ w2[c].bytes = <<>>
  <2> TAKE c \in Conns
  <2>1. CASE c = i
    BY <1>2, <1>3, <1>4, <1>6, <1>9, <2>1
  <2>2. CASE c = j
    BY <1>2, <1>3, <1>6, <1>7, <1>8, <1>9, <2>2
  <2>3. CASE c # i /\ c # j
    BY <1>6, <2>3 DEF Flow
  <2> QED BY <2>1, <2>2, <2>3
<1>11. ASSUME ~broken
       PROVE  /\ \A c \in Conns :
                    /\ w2[c].bytes = Seg(q[way.out[c]], q[way.in[c]])
                    /\ w2[c].fin => s.ended /\ q[way.in[c]] = s.sent
              /\ \A k \in done : s.ended /\ q[k] = s.sent
              /\ r.sawEnd => s.ended /\ q[way.last] = s.sent
  <2>1. n \notin done
    BY <1>2, <1>3, <1>11 DEF Flow, lo
  <2>2. \A k \in done : q[k] = p[k]
    BY <1>0, <1>5, <2>1
  <2>3. ~w[j].fin
    BY <1>2, <1>3, <1>6, <1>11 DEF Flow
  <2>4. ASSUME NEW c \in Conns
        PROVE  /\ w2[c].bytes = Seg(q[way.out[c]], q[way.in[c]])
               /\ w2[c].fin => s.ended /\ q[way.in[c]] = s.sent
    <3>1. CASE c = i
      BY <1>4, <1>6, <1>9, <1>11, <3>1 DEF Flow, hi
    <3>2. CASE c = j
      BY <1>6, <1>8, <1>9, <2>3, <3>2
    <3>3. CASE c # i /\ c # j
      BY <1>6, <1>11, <3>3 DEF Flow
    <3> QED BY <3>1, <3>2, <3>3
  <2> QED BY <1>6, <1>11, <2>2, <2>4 DEF Flow
<1>12. Flow(way, w2, s, r, broken, done, q)
  BY <1>6, <1>10, <1>11 DEF Flow
<1> QED BY <1>5, <1>12

\* Where nothing is broken off, who comes to the end of a connection has all that
\* was sent, and nothing is left on a connection that all has come through.
LEMMA FlowEnds ==
    ASSUME NEW way, IsWay(way), NEW p \in Positions, NEW w, NEW s, NEW r,
           NEW broken, ~broken, NEW done, Flow(way, w, s, r, broken, done, p),
           s.sent \in Nat, NEW c \in Conns
    PROVE  /\ w[c].bytes = Nothing /\ w[c].fin => s.ended /\ p[way.out[c]] = s.sent
           /\ p[way.out[c]] = s.sent => w[c].bytes = Nothing
<1>1. /\ w[c].bytes = Seg(p[way.out[c]], p[way.in[c]])
      /\ w[c].fin => s.ended /\ p[way.in[c]] = s.sent
      /\ p[way.out[c]] <= p[way.in[c]] /\ p[way.in[c]] <= s.sent
      /\ p[way.out[c]] \in Nat /\ p[way.in[c]] \in Nat
  BY PlaceFacts, BoundsAssumption DEF Flow
<1>2. w[c].bytes = <<>> <=> p[way.out[c]] = p[way.in[c]]
  <2> DEFINE lo == p[way.out[c]]
             hi == p[way.in[c]]
  <2>1. w[c].bytes = Seg(lo, hi) /\ lo \in Nat /\ hi \in Nat /\ lo <= hi
    BY <1>1
  <2> HIDE DEF lo, hi
  <2>2. Seg(lo, hi) = <<>> <=> lo = hi
    BY <2>1, SegFacts
  <2> QED BY <2>1, <2>2 DEF lo, hi
<1> QED BY <1>1, <1>2 DEF Nothing

\* What the reader has is a prefix of what was sent, and all of it at the end.
LEMMA FlowMeans ==
    ASSUME NEW way, IsWay(way), NEW p \in Positions, NEW w, NEW s, NEW r,
           NEW broken, NEW done, Flow(way, w, s, r, broken, done, p),
           s.sent \in Nat, p[way.last] <= s.sent
    PROVE  /\ IsPrefix(r.got, Bytes(s.sent))
           /\ ~broken /\ r.sawEnd => r.got = Bytes(s.sent)
<1> DEFINE k == p[way.last]
           h == s.sent
<1>1. \A m \in Nat : Bytes(m) = Seg(0, m)
  BY DEF Bytes, Seg
<1>2. r.got = Seg(0, k) /\ k \in Nat /\ k <= h /\ h \in Nat
  BY PlaceFacts DEF Flow
<1>3. ~broken /\ r.sawEnd => k = h
  BY DEF Flow
<1> HIDE DEF k, h
<1>4. /\ Seg(0, k) \in Seq(1..h) /\ Seg(0, h) \in Seq(1..h)
      /\ Len(Seg(0, k)) = k /\ Len(Seg(0, h)) = h
      /\ \A i \in 1..k : Seg(0, k)[i] = Seg(0, h)[i]
  <2>1. 0 \in Nat /\ 0 <= k /\ 0 <= h
    BY <1>2
  <2>2. /\ Seg(0, k) \in Seq(1..h) /\ Len(Seg(0, k)) = k - 0
        /\ \A i \in 1..(k - 0) : Seg(0, k)[i] = 0 + i
    BY <1>2, <2>1, SegFacts
  <2>3. /\ Seg(0, h) \in Seq(1..h) /\ Len(Seg(0, h)) = h - 0
        /\ \A i \in 1..(h - 0) : Seg(0, h)[i] = 0 + i
    <3>1. h \in Nat /\ h <= h
      BY <1>2
    <3> QED BY <2>1, <3>1, SegFacts
  <2> QED BY <1>2, <2>2, <2>3
<1>5. IsPrefix(Seg(0, k), Seg(0, h))
  BY <1>2, <1>4, PrefixByElements
<1> QED BY <1>1, <1>2, <1>3, <1>5 DEF h

----------------------------------------------------------------------------
(* Every step keeps the types *)

\* What a copy does to the bytes of two connections, what the ends do to those of
\* one.
Passed(f, i, j) == [f EXCEPT ![i].bytes = Tail(@),
                             ![j].bytes = Append(@, Head(f[i].bytes))]
Put(f, c, x) == [f EXCEPT ![c].bytes = Append(@, x)]
Taken(f, c) == [f EXCEPT ![c].bytes = Tail(@)]

LEMMA PassFacts ==
    ASSUME NEW f \in [Conns -> DirectionType], NEW i \in Conns, NEW j \in Conns, i # j,
           f[i].bytes # <<>>,
           \A c \in Conns : Len(f[c].bytes) <= Capacity, Len(f[j].bytes) < Capacity,
           NEW g, g = Passed(f, i, j)
    PROVE  /\ g \in [Conns -> DirectionType]
           /\ g[i].bytes = Tail(f[i].bytes) /\ g[i].fin = f[i].fin
           /\ g[j].bytes = Append(f[j].bytes, Head(f[i].bytes)) /\ g[j].fin = f[j].fin
           /\ \A c \in Conns \ {i, j} : g[c] = f[c]
           /\ \A c \in Conns : Len(g[c].bytes) <= Capacity
<1> DEFINE t == Tail(f[i].bytes)
           a == Append(f[j].bytes, Head(f[i].bytes))
           h == Holding(f, i, t)
<1>1. f[i].bytes \in Seq(1..MaxSent) /\ f[j].bytes \in Seq(1..MaxSent)
  BY DirectionFields
<1>2. /\ t \in Seq(1..MaxSent) /\ Len(t) = Len(f[i].bytes) - 1
      /\ Head(f[i].bytes) \in 1..MaxSent
  BY <1>1, HeadTailProperties
<1>3. a \in Seq(1..MaxSent) /\ Len(a) = Len(f[j].bytes) + 1
  BY <1>1, <1>2, AppendProperties
<1>4. /\ h \in [Conns -> DirectionType] /\ h[i].bytes = t /\ h[i].fin = f[i].fin
      /\ \A c \in Conns \ {i} : h[c] = f[c]
  <2> HIDE DEF t
  <2> QED BY <1>2, BytesFacts
<1>5. g = Holding(h, j, a)
  BY <1>4 DEF Holding, Passed
<1> HIDE DEF t, a, h
<1>6. /\ g \in [Conns -> DirectionType] /\ g[j].bytes = a /\ g[j].fin = h[j].fin
      /\ \A c \in Conns \ {j} : g[c] = h[c]
  <2> DEFINE e == Holding(h, j, a)
  <2>1. /\ e \in [Conns -> DirectionType] /\ e[j].bytes = a /\ e[j].fin = h[j].fin
        /\ \A c \in Conns \ {j} : e[c] = h[c]
    BY <1>3, <1>4, BytesFacts
  <2> QED BY <1>5, <2>1
<1>7. Capacity \in Nat /\ Len(f[i].bytes) \in Nat /\ Len(f[j].bytes) \in Nat
  BY <1>1, BoundsAssumption
<1>8. \A c \in Conns : Len(g[c].bytes) <= Capacity
  <2> TAKE c \in Conns
  <2>1. CASE c = i
    <3>1. g[c].bytes = t /\ Len(f[i].bytes) <= Capacity
      BY <1>4, <1>6, <2>1
    <3> QED BY <1>2, <1>7, <3>1
  <2>2. CASE c = j
    BY <1>3, <1>6, <1>7, <2>2
  <2>3. CASE c # i /\ c # j
    BY <1>4, <1>6, <2>3
  <2> QED BY <2>1, <2>2, <2>3
<1> QED BY <1>4, <1>6, <1>8 DEF t, a

LEMMA PutFacts ==
    ASSUME NEW f \in [Conns -> DirectionType], NEW c \in Conns, NEW x \in 1..MaxSent,
           NEW g, g = Put(f, c, x)
    PROVE  /\ g \in [Conns -> DirectionType]
           /\ g[c].bytes = Append(f[c].bytes, x) /\ g[c].fin = f[c].fin
           /\ \A k \in Conns \ {c} : g[k] = f[k]
           /\ (\A k \in Conns : Len(f[k].bytes) <= Capacity)
              /\ Len(f[c].bytes) < Capacity =>
                 \A k \in Conns : Len(g[k].bytes) <= Capacity
           /\ Len(g[c].bytes) = Len(f[c].bytes) + 1 /\ Len(f[c].bytes) \in Nat
<1> DEFINE a == Append(f[c].bytes, x)
<1>1. f[c].bytes \in Seq(1..MaxSent)
  BY DirectionFields
<1>2. a \in Seq(1..MaxSent) /\ Len(a) = Len(f[c].bytes) + 1
  BY <1>1, AppendProperties
<1>3. g = Holding(f, c, a)
  BY DEF Holding, Put
<1> HIDE DEF a
<1>4. /\ g \in [Conns -> DirectionType] /\ g[c].bytes = a /\ g[c].fin = f[c].fin
      /\ \A k \in Conns \ {c} : g[k] = f[k]
  <2> DEFINE h == Holding(f, c, a)
  <2>1. /\ h \in [Conns -> DirectionType] /\ h[c].bytes = a /\ h[c].fin = f[c].fin
        /\ \A k \in Conns \ {c} : h[k] = f[k]
    BY <1>2, BytesFacts
  <2> QED BY <1>3, <2>1
<1>5. ASSUME \A k \in Conns : Len(f[k].bytes) <= Capacity, NEW k \in Conns,
             k = c => Len(g[k].bytes) <= Capacity
      PROVE  Len(g[k].bytes) <= Capacity
  BY <1>4, <1>5
<1> QED BY <1>1, <1>2, <1>4, <1>5, BoundsAssumption DEF a

LEMMA TakeFacts ==
    ASSUME NEW f \in [Conns -> DirectionType], NEW c \in Conns, f[c].bytes # <<>>,
           NEW g, g = Taken(f, c)
    PROVE  /\ g \in [Conns -> DirectionType]
           /\ g[c].bytes = Tail(f[c].bytes) /\ g[c].fin = f[c].fin
           /\ \A k \in Conns \ {c} : g[k] = f[k]
           /\ (\A k \in Conns : Len(f[k].bytes) <= Capacity) =>
                 \A k \in Conns : Len(g[k].bytes) <= Capacity
           /\ Len(g[c].bytes) = Len(f[c].bytes) - 1 /\ Len(f[c].bytes) \in Nat
           /\ Head(f[c].bytes) \in 1..MaxSent
<1> DEFINE a == Tail(f[c].bytes)
<1>1. f[c].bytes \in Seq(1..MaxSent)
  BY DirectionFields
<1>2. /\ a \in Seq(1..MaxSent) /\ Len(a) = Len(f[c].bytes) - 1
      /\ Head(f[c].bytes) \in 1..MaxSent
  BY <1>1, HeadTailProperties
<1>3. g = Holding(f, c, a)
  BY DEF Holding, Taken
<1> HIDE DEF a
<1>4. /\ g \in [Conns -> DirectionType] /\ g[c].bytes = a /\ g[c].fin = f[c].fin
      /\ \A k \in Conns \ {c} : g[k] = f[k]
  <2> DEFINE h == Holding(f, c, a)
  <2>1. /\ h \in [Conns -> DirectionType] /\ h[c].bytes = a /\ h[c].fin = f[c].fin
        /\ \A k \in Conns \ {c} : h[k] = f[k]
    BY <1>2, BytesFacts
  <2> QED BY <1>3, <2>1
<1>5. ASSUME \A k \in Conns : Len(f[k].bytes) <= Capacity, NEW k \in Conns,
             k = c => Len(g[k].bytes) <= Capacity
      PROVE  Len(g[k].bytes) <= Capacity
  BY <1>4, <1>5
<1>6. ASSUME \A k \in Conns : Len(f[k].bytes) <= Capacity, NEW k \in Conns
      PROVE  Len(g[k].bytes) <= Capacity
  <2>1. Len(f[c].bytes) <= Capacity /\ Len(f[c].bytes) \in Nat /\ Capacity \in Nat
        /\ Len(g[c].bytes) = Len(f[c].bytes) - 1
    BY <1>1, <1>2, <1>4, <1>6, BoundsAssumption
  <2> QED BY <1>5, <1>6, <2>1
<1> QED BY <1>1, <1>2, <1>4, <1>6 DEF a

\* The types of the two ends, and of the two directions.
EndsType == {left, right} \subseteq EndType

WaysType ==
    /\ up \in [Conns -> DirectionType]
    /\ down \in [Conns -> DirectionType]
    /\ \A c \in Conns : Len(up[c].bytes) <= Capacity /\ Len(down[c].bytes) <= Capacity

NodesType ==
    /\ phase \in [Nodes -> Phases]
    /\ copying \in [Nodes -> SUBSET {"up", "down"}]
    /\ \A n \in Nodes : copying[n] # {} => phase[n] = "relay"

LEMMA TypeParts ==
    TypeOK <=> /\ sentChain \in Chains /\ transport \in Transports
               /\ disturbed \in BOOLEAN
               /\ EndsType /\ WaysType /\ NodesType
BY DEF TypeOK, EndsType, WaysType, NodesType, Phases

\* What the ends do to themselves.
Saw(e) == [e EXCEPT !.sawEnd = TRUE]
Over(e) == [e EXCEPT !.ended = TRUE]
Gone(e) == [e EXCEPT !.closed = TRUE, !.ended = TRUE]
Sent(e) == [e EXCEPT !.sent = @ + 1]
Got(e, x) == [e EXCEPT !.got = Append(@, x)]

LEMMA EndFields ==
    ASSUME NEW e \in EndType
    PROVE  /\ e.sent \in 0..MaxSent /\ e.got \in Seq(1..MaxSent) /\ e.ended \in BOOLEAN
           /\ e.sawEnd \in BOOLEAN /\ e.closed \in BOOLEAN
           /\ e = [sent |-> e.sent, got |-> e.got, ended |-> e.ended,
                   sawEnd |-> e.sawEnd, closed |-> e.closed]
BY DEF EndType

LEMMA SawFacts ==
    ASSUME NEW e \in EndType
    PROVE  /\ Saw(e) \in EndType /\ Saw(e).sent = e.sent /\ Saw(e).got = e.got
           /\ Saw(e).ended = e.ended /\ Saw(e).sawEnd
<1>1. PICK b \in BOOLEAN : b = TRUE
  OBVIOUS
<1>2. Saw(e) = [e EXCEPT !.sawEnd = b]
  BY <1>1, Zenon DEF Saw
<1>3. Saw(e) = [sent |-> e.sent, got |-> e.got, ended |-> e.ended,
                sawEnd |-> b, closed |-> e.closed]
  BY <1>2, EndFields
<1>4. Saw(e) \in EndType
  BY <1>3, EndFields DEF EndType
<1>5. Saw(e).sent = e.sent /\ Saw(e).got = e.got /\ Saw(e).ended = e.ended
      /\ Saw(e).sawEnd = b
  BY <1>3
<1>6. Saw(e).sawEnd
  BY <1>1, <1>5, Zenon
<1> QED BY <1>4, <1>5, <1>6

LEMMA OverFacts ==
    ASSUME NEW e \in EndType
    PROVE  /\ Over(e) \in EndType /\ Over(e).sent = e.sent /\ Over(e).got = e.got
           /\ Over(e).ended /\ Over(e).sawEnd = e.sawEnd
<1>1. PICK b \in BOOLEAN : b = TRUE
  OBVIOUS
<1>2. Over(e) = [e EXCEPT !.ended = b]
  BY <1>1, Zenon DEF Over
<1>3. Over(e) = [sent |-> e.sent, got |-> e.got, ended |-> b,
                 sawEnd |-> e.sawEnd, closed |-> e.closed]
  BY <1>2, EndFields
<1>4. Over(e) \in EndType
  BY <1>3, EndFields DEF EndType
<1>5. Over(e).sent = e.sent /\ Over(e).got = e.got /\ Over(e).sawEnd = e.sawEnd
      /\ Over(e).ended = b
  BY <1>3
<1>6. Over(e).ended
  BY <1>1, <1>5, Zenon
<1> QED BY <1>4, <1>5, <1>6

LEMMA GoneFacts ==
    ASSUME NEW e \in EndType
    PROVE  /\ Gone(e) \in EndType /\ Gone(e).sent = e.sent /\ Gone(e).got = e.got
           /\ Gone(e).ended /\ Gone(e).sawEnd = e.sawEnd
<1>1. PICK b \in BOOLEAN : b = TRUE
  OBVIOUS
<1> DEFINE d == [e EXCEPT !.closed = b]
<1>2. Gone(e) = [d EXCEPT !.ended = b]
  BY <1>1, Zenon DEF Gone
<1>3. d = [sent |-> e.sent, got |-> e.got, ended |-> e.ended,
           sawEnd |-> e.sawEnd, closed |-> b]
  BY EndFields
<1>4. Gone(e) = [sent |-> e.sent, got |-> e.got, ended |-> b,
                 sawEnd |-> e.sawEnd, closed |-> b]
  BY <1>2, <1>3
<1>5. Gone(e) \in EndType
  BY <1>4, EndFields DEF EndType
<1>6. Gone(e).sent = e.sent /\ Gone(e).got = e.got /\ Gone(e).sawEnd = e.sawEnd
      /\ Gone(e).ended = b
  BY <1>4
<1>7. Gone(e).ended
  BY <1>1, <1>6, Zenon
<1> QED BY <1>5, <1>6, <1>7

LEMMA SentFacts ==
    ASSUME NEW e \in EndType, e.sent < MaxSent
    PROVE  /\ Sent(e) \in EndType /\ Sent(e).sent = e.sent + 1 /\ Sent(e).got = e.got
           /\ Sent(e).ended = e.ended /\ Sent(e).sawEnd = e.sawEnd
<1>1. e.sent + 1 \in 0..MaxSent
  BY BoundsAssumption, EndFields
<1>2. Sent(e) = [sent |-> e.sent + 1, got |-> e.got, ended |-> e.ended,
                 sawEnd |-> e.sawEnd, closed |-> e.closed]
  BY EndFields DEF Sent
<1> QED BY <1>1, <1>2, EndFields DEF EndType

LEMMA GotFacts ==
    ASSUME NEW e \in EndType, NEW x \in 1..MaxSent
    PROVE  /\ Got(e, x) \in EndType /\ Got(e, x).sent = e.sent
           /\ Got(e, x).got = Append(e.got, x)
           /\ Got(e, x).ended = e.ended /\ Got(e, x).sawEnd = e.sawEnd
<1> DEFINE a == Append(e.got, x)
<1>1. a \in Seq(1..MaxSent)
  BY EndFields, AppendProperties
<1>0. Got(e, x) = [e EXCEPT !.got = a]
  BY DEF Got
<1> HIDE DEF a
<1>2. Got(e, x) = [sent |-> e.sent, got |-> a, ended |-> e.ended,
                   sawEnd |-> e.sawEnd, closed |-> e.closed]
  BY <1>0, EndFields
<1>3. Got(e, x) \in EndType /\ Got(e, x).got = a
  BY <1>1, <1>2, EndFields DEF EndType
<1> QED BY <1>2, <1>3 DEF a

\* What the end of a copy does to a direction it wrote to, if it can half-close.
LEMMA DownEndsFacts ==
    ASSUME WaysType, NEW n \in Nodes,
           down' = [down EXCEPT ![n - 1].fin = @ \/ HalfCloses(n)]
    PROVE  /\ down' \in [Conns -> DirectionType]
           /\ \A c \in Conns :
                 /\ down'[c].bytes = down[c].bytes /\ down'[c].shut = down[c].shut
                 /\ down'[c].fin => down[c].fin \/ c = n - 1
<1> DEFINE c == n - 1
<1>1. c \in Conns
  BY PathFacts
<1> HIDE DEF c
<1>2. PICK b \in BOOLEAN : b = (down[c].fin \/ HalfCloses(n))
  OBVIOUS
<1>3. down' = Finning(down, c, b)
  BY <1>2, Zenon DEF c, Finning
<1>4. PICK g : g = down'
  OBVIOUS
<1>5. /\ g \in [Conns -> DirectionType]
      /\ g[c].bytes = down[c].bytes /\ g[c].fin = b /\ g[c].shut = down[c].shut
      /\ \A k \in Conns \ {c} : g[k] = down[k]
  BY <1>1, <1>3, <1>4, FinTo DEF WaysType
<1>6. ASSUME NEW k \in Conns
      PROVE  /\ g[k].bytes = down[k].bytes /\ g[k].shut = down[k].shut
             /\ g[k].fin => down[k].fin \/ k = c
  BY <1>5
<1> QED BY <1>4, <1>5, <1>6 DEF c

\* A node that is done in one direction is one that was, but for the node whose
\* copy ends now.
LEMMA DoneShrinks ==
    ASSUME NodesType, NEW name \in {"up", "down"},
           \/ UNCHANGED nodeVars
           \/ \E n \in Nodes : ReadFrame(n) \/ DialNext(n) \/ Fails(n)
                               \/ RelayEnds(n) \/ Stopped(n)
           \/ DialTarget
    PROVE  Done(name)' \subseteq Done(name)
<1>1. CASE UNCHANGED nodeVars
  BY <1>1 DEF Done, nodeVars
<1>2. ASSUME NEW n \in Nodes,
             ReadFrame(n) \/ Fails(n) \/ RelayEnds(n) \/ Stopped(n)
      PROVE  Done(name)' \subseteq Done(name)
  <2>1. \A k \in Nodes : phase'[k] = "relay" => phase[k] = "relay" /\ k # n
    BY <1>2 DEF ReadFrame, Fails, RelayEnds, Stopped, NodesType
  <2>2. \A k \in Nodes \ {n} : copying'[k] = copying[k]
    BY <1>2 DEF ReadFrame, Fails, RelayEnds, Stopped, NodesType
  <2> QED BY <2>1, <2>2 DEF Done
<1>3. ASSUME NEW n \in Nodes, Relaying(n),
             \A k \in Nodes \ {n} : phase'[k] = "relay" => phase[k] = "relay"
      PROVE  Done(name)' \subseteq Done(name)
  <2>1. /\ copying'[n] = {"up", "down"}
        /\ \A k \in Nodes \ {n} : copying'[k] = copying[k]
    BY <1>3 DEF Relaying, NodesType
  <2> QED BY <1>3, <2>1 DEF Done
<1>4. ASSUME NEW n \in Nodes, DialNext(n)
      PROVE  Relaying(n)
             /\ \A k \in Nodes \ {n} : phase'[k] = "relay" => phase[k] = "relay"
  BY <1>4 DEF DialNext, NodesType
<1>5. CASE DialTarget
  <2>1. Egress \in Nodes
    BY PathAssumption DEF Nodes
  <2>2. Relaying(Egress)
        /\ \A k \in Nodes \ {Egress} : phase'[k] = "relay" => phase[k] = "relay"
    BY <1>5 DEF DialTarget, NodesType
  <2> QED BY <1>3, <2>1, <2>2
<1> QED BY <1>1, <1>2, <1>3, <1>4, <1>5

LEMMA DoneGrows ==
    ASSUME NodesType, NEW n \in Nodes, NEW name \in {"up", "down"}, UNCHANGED phase,
           copying' = [copying EXCEPT ![n] = @ \ {name}]
    PROVE  Done(name)' \subseteq Done(name) \cup {n}
<1>1. /\ copying'[n] = copying[n] \ {name}
      /\ \A k \in Nodes \ {n} : copying'[k] = copying[k]
  BY DEF NodesType
<1> QED BY <1>1 DEF Done

----------------------------------------------------------------------------
(* Types and the order in which the nodes are reached *)

LEMMA NodesStep ==
    ASSUME NodesType, IdleInv, [Next]_vars
    PROVE  NodesType' /\ IdleInv'
<1>n. \A n \in Nodes : n \in Nat /\ (n # Egress => n + 1 \in Nodes) /\ n + 1 # n
  BY PathAssumption DEF Nodes
<1>i. ASSUME UNCHANGED nodeVars PROVE NodesType' /\ IdleInv'
  BY <1>i DEF nodeVars, NodesType, IdleInv
<1>c. ASSUME NEW n \in Nodes, NEW new \in SUBSET {"up", "down"},
             phase' = [phase EXCEPT ![n] = "closed"],
             copying' = [copying EXCEPT ![n] = new], new = {},
             phase[n] = "relay" \/ phase[n] \in {"reading", "dialing"}
      PROVE  NodesType' /\ IdleInv'
  <2>1. NodesType'
    BY <1>c DEF NodesType, Phases
  <2>2. \A k \in Nodes : /\ phase'[k] = "idle" <=> phase[k] = "idle"
                         /\ phase'[k] \in {"reading", "dialing"} =>
                               phase[k] \in {"reading", "dialing"}
    BY <1>c DEF NodesType
  <2> QED BY <1>n, <2>1, <2>2 DEF IdleInv, NodesType, Phases
<1>1. ASSUME NEW n \in Nodes, ReadFrame(n) PROVE NodesType' /\ IdleInv'
  <2>1. /\ phase[n] = "reading" /\ UNCHANGED copying
        /\ phase' = [phase EXCEPT ![n] = "dialing"]
    BY <1>1 DEF ReadFrame
  <2>2. \A k \in Nodes : k # n => phase'[k] = phase[k]
    BY <2>1 DEF NodesType
  <2>3. phase'[n] = "dialing" /\ phase' \in [Nodes -> Phases]
    BY <2>1 DEF NodesType, Phases
  <2> QED BY <1>n, <2>1, <2>2, <2>3 DEF IdleInv, NodesType
<1>2. ASSUME NEW n \in Nodes, DialNext(n) PROVE NodesType' /\ IdleInv'
  <2>1. /\ n # Egress /\ phase[n] = "dialing"
        /\ phase' = [phase EXCEPT ![n] = "relay", ![n + 1] = "reading"]
        /\ copying' = [copying EXCEPT ![n] = {"up", "down"}]
    BY <1>2 DEF DialNext, Relaying
  <2>2. /\ phase' \in [Nodes -> Phases] /\ copying' \in [Nodes -> SUBSET {"up", "down"}]
        /\ phase'[n] = "relay" /\ phase'[n + 1] = "reading"
        /\ \A k \in Nodes \ {n, n + 1} : phase'[k] = phase[k]
        /\ \A k \in Nodes \ {n} : copying'[k] = copying[k]
    BY <1>n, <2>1 DEF NodesType, Phases
  <2>3. phase[n + 1] = "idle" /\ copying[n + 1] = {}
    BY <1>n, <2>1 DEF IdleInv, NodesType
  <2>4. NodesType'
    BY <2>2, <2>3 DEF NodesType
  <2>5. n + 1 # Egress => phase[n + 2] = "idle" /\ n + 2 \in Nodes
                          /\ n + 2 # n /\ n + 2 # n + 1
    BY <1>n, <2>1, <2>3, n + 1 + 1 = n + 2 DEF IdleInv
  <2>6. ASSUME NEW k \in Nodes, k # Egress,
               phase'[k] \in {"idle", "reading", "dialing"}
        PROVE  phase'[k + 1] = "idle"
    <3>1. CASE k = n + 1
      BY <1>n, <2>2, <2>5, <2>6, <3>1
    <3>2. CASE k # n + 1
      <4>1. k # n /\ phase'[k] = phase[k]
        BY <2>2, <2>6, <3>2
      <4>2. phase[k + 1] = "idle" /\ k + 1 \in Nodes
        BY <1>n, <2>6, <4>1 DEF IdleInv
      <4>3. k + 1 # n /\ k + 1 # n + 1
        BY <1>n, <2>1, <4>1, <4>2
      <4> QED BY <2>2, <4>2, <4>3
    <3> QED BY <3>1, <3>2
  <2> QED BY <2>4, <2>6 DEF IdleInv
<1>3. CASE DialTarget
  <2>1. Egress \in Nodes
    BY PathAssumption DEF Nodes
  <2>2. /\ phase[Egress] = "dialing" /\ phase' = [phase EXCEPT ![Egress] = "relay"]
        /\ copying' = [copying EXCEPT ![Egress] = {"up", "down"}]
    BY <1>3 DEF DialTarget, Relaying
  <2>3. NodesType'
    BY <2>1, <2>2 DEF NodesType, Phases
  <2>4. /\ \A k \in Nodes \ {Egress} : phase'[k] = phase[k]
        /\ \A k \in Nodes : phase[k] = "idle" => phase'[k] = "idle"
    BY <2>1, <2>2 DEF NodesType
  <2> QED BY <1>n, <2>3, <2>4 DEF IdleInv
<1>4. ASSUME NEW n \in Nodes, Fails(n) \/ RelayEnds(n) \/ Stopped(n)
      PROVE  NodesType' /\ IdleInv'
  <2>1. /\ phase' = [phase EXCEPT ![n] = "closed"]
        /\ phase[n] = "relay" \/ phase[n] \in {"reading", "dialing"}
    BY <1>4 DEF Fails, RelayEnds, Stopped
  <2>2. copying' = [copying EXCEPT ![n] = {}]
    <3>1. CASE Stopped(n)
      BY <3>1 DEF Stopped
    <3>2. CASE Fails(n) \/ RelayEnds(n)
      <4>1. copying[n] = {} /\ UNCHANGED copying
        BY <3>2 DEF Fails, RelayEnds, BothEnded, NodesType
      <4> QED BY <4>1 DEF NodesType
    <3> QED BY <1>4, <3>1, <3>2
  <2>3. {} \in SUBSET {"up", "down"}
    OBVIOUS
  <2> QED BY <1>c, <2>1, <2>2, <2>3
<1>5. ASSUME NEW n \in Nodes, UpEnds(n) \/ DownEnds(n) PROVE NodesType' /\ IdleInv'
  <2>1. /\ UNCHANGED phase
        /\ \E name \in {"up", "down"} : copying' = [copying EXCEPT ![n] = @ \ {name}]
    BY <1>5 DEF UpEnds, DownEnds
  <2> QED BY <2>1 DEF NodesType, IdleInv
<1>6. ASSUME NEW n \in Nodes, CopyUp(n) \/ CopyDown(n) PROVE NodesType' /\ IdleInv'
  BY <1>6, <1>i DEF CopyUp, CopyDown
<1>7. ASSUME Reads \/ ClientSends \/ TargetSends \/ ClientEnds \/ TargetEnds
             \/ ClientCloses \/ TargetCloses
      PROVE  NodesType' /\ IdleInv'
  BY <1>7, <1>i DEF Reads, ClientReads, TargetReads, ClientSeesEnd,
         TargetSeesEnd, ClientSends, TargetSends, ClientEnds, TargetEnds,
         ClientCloses, TargetCloses, EndsUnchanged
<1>8. CASE UNCHANGED vars
  BY <1>8, <1>i DEF vars, nodeVars
<1> QED BY <1>1, <1>2, <1>3, <1>4, <1>5, <1>6, <1>7, <1>8 DEF Next, NodeRuns

LEMMA EndsStep ==
    ASSUME TypeOK, [Next]_vars
    PROVE  EndsType'
<1>0. left \in EndType /\ right \in EndType
  BY DEF TypeOK
<1>i. ASSUME UNCHANGED endVars PROVE EndsType'
  BY <1>0, <1>i DEF endVars, EndsType
<1>1. ASSUME NEW n \in Nodes, NodeRuns(n) \/ Fails(n) \/ Stopped(n) PROVE EndsType'
  BY <1>1, <1>i DEF NodeRuns, ReadFrame, DialNext, Relaying, CopyUp, CopyDown, UpEnds,
         DownEnds, RelayEnds, Fails, Stopped
<1>2. CASE DialTarget
  BY <1>2, <1>i DEF DialTarget, Relaying
<1>3. CASE ClientReads
  <2>1. /\ left' = Got(left, Head(down[0].bytes)) /\ UNCHANGED right
        /\ down[0].bytes # <<>> /\ down' = Taken(down, 0)
    BY <1>3 DEF ClientReads, Got, Taken
  <2>2. Head(down[0].bytes) \in 1..MaxSent
    BY <2>1, PathFacts, TakeFacts DEF TypeOK
  <2> QED BY <1>0, <2>1, <2>2, GotFacts DEF EndsType
<1>4. CASE TargetReads
  <2>1. /\ right' = Got(right, Head(up[Egress].bytes)) /\ UNCHANGED left
        /\ up[Egress].bytes # <<>> /\ up' = Taken(up, Egress)
    BY <1>4 DEF TargetReads, Got, Taken
  <2>2. Head(up[Egress].bytes) \in 1..MaxSent
    BY <2>1, PathFacts, TakeFacts DEF TypeOK
  <2> QED BY <1>0, <2>1, <2>2, GotFacts DEF EndsType
<1>5. CASE ClientSends \/ TargetSends
  <2>1. \/ left' = Sent(left) /\ left.sent < MaxSent /\ UNCHANGED right
        \/ right' = Sent(right) /\ right.sent < MaxSent /\ UNCHANGED left
    BY <1>5 DEF ClientSends, TargetSends, Send, Sent
  <2> QED BY <1>0, <2>1, SentFacts DEF EndsType
<1>6. CASE ClientSeesEnd \/ TargetSeesEnd
  <2>1. \/ left' = Saw(left) /\ UNCHANGED right
        \/ right' = Saw(right) /\ UNCHANGED left
    BY <1>6 DEF ClientSeesEnd, TargetSeesEnd, Saw
  <2> QED BY <1>0, <2>1, SawFacts DEF EndsType
<1>7. CASE ClientEnds \/ TargetEnds
  <2>1. \/ left' = Over(left) /\ UNCHANGED right
        \/ right' = Over(right) /\ UNCHANGED left
    BY <1>7 DEF ClientEnds, TargetEnds, Over
  <2> QED BY <1>0, <2>1, OverFacts DEF EndsType
<1>8. CASE ClientCloses \/ TargetCloses
  <2>1. \/ left' = Gone(left) /\ UNCHANGED right
        \/ right' = Gone(right) /\ UNCHANGED left
    BY <1>8 DEF ClientCloses, TargetCloses, Gone
  <2> QED BY <1>0, <2>1, GoneFacts DEF EndsType
<1>9. CASE UNCHANGED vars
  BY <1>9, <1>i DEF vars, endVars
<1> QED BY <1>1, <1>2, <1>3, <1>4, <1>5, <1>6, <1>7, <1>8, <1>9 DEF Next, Reads

\* A connection that holds no more than it did.
LEMMA HoldsLess ==
    ASSUME WaysType, up' \in [Conns -> DirectionType], down' \in [Conns -> DirectionType],
           \A c \in Conns : /\ up'[c].bytes \in {up[c].bytes, <<>>}
                            /\ down'[c].bytes \in {down[c].bytes, <<>>}
    PROVE  WaysType'
<1>1. Len(<<>>) <= Capacity
  BY BoundsAssumption
<1> QED BY <1>1 DEF WaysType

LEMMA WaysStep ==
    ASSUME TypeOK, [Next]_vars
    PROVE  WaysType'
<1>0. WaysType
  BY TypeParts
<1>p. /\ 0 \in Conns /\ Egress \in Conns /\ Capacity \in Nat
      /\ \A n \in Nodes : n - 1 \in Conns /\ n \in Conns /\ n - 1 # n
  BY PathFacts, BoundsAssumption
<1>i. ASSUME UNCHANGED <<up, down>> PROVE WaysType'
  BY <1>0, <1>i DEF WaysType
<1>1. ASSUME NEW n \in Nodes, ReadFrame(n) \/ DialNext(n) PROVE WaysType'
  BY <1>1, <1>i DEF ReadFrame, DialNext, Relaying
<1>2. CASE DialTarget \/ ClientSeesEnd \/ TargetSeesEnd
  BY <1>2, <1>i DEF DialTarget, Relaying, ClientSeesEnd, TargetSeesEnd
<1>3. ASSUME NEW n \in Nodes, CopyUp(n) PROVE WaysType'
  <2>1. /\ up[n - 1].bytes # <<>> /\ Len(up[n].bytes) < Capacity /\ UNCHANGED down
        /\ up' = Passed(up, n - 1, n)
    BY <1>3 DEF CopyUp, Pass, Passed
  <2>2. up' \in [Conns -> DirectionType] /\ \A c \in Conns : Len(up'[c].bytes) <= Capacity
    BY <1>0, <1>p, <2>1, PassFacts DEF WaysType
  <2> QED BY <1>0, <2>1, <2>2 DEF WaysType
<1>4. ASSUME NEW n \in Nodes, CopyDown(n) PROVE WaysType'
  <2>1. /\ down[n].bytes # <<>> /\ Len(down[n - 1].bytes) < Capacity /\ UNCHANGED up
        /\ down' = Passed(down, n, n - 1)
    BY <1>4 DEF CopyDown, Pass, Passed
  <2>2. /\ down' \in [Conns -> DirectionType]
        /\ \A c \in Conns : Len(down'[c].bytes) <= Capacity
    BY <1>0, <1>p, <2>1, PassFacts DEF WaysType
  <2> QED BY <1>0, <2>1, <2>2 DEF WaysType
<1>5. ASSUME NEW n \in Nodes, UpEnds(n) PROVE WaysType'
  <2>1. up' = Ended(up, n) /\ UNCHANGED down
    BY <1>5 DEF UpEnds, Ended
  <2>2. up' \in [Conns -> DirectionType] /\ \A c \in Conns : up'[c].bytes = up[c].bytes
    BY <1>0, <1>p, <2>1, EndedFacts DEF WaysType
  <2> QED BY <1>0, <2>1, <2>2, HoldsLess DEF WaysType
<1>6. ASSUME NEW n \in Nodes, DownEnds(n) PROVE WaysType'
  <2>1. down' = [down EXCEPT ![n - 1].fin = @ \/ HalfCloses(n)] /\ UNCHANGED up
    BY <1>6 DEF DownEnds
  <2> QED BY <1>0, <2>1, DownEndsFacts, HoldsLess DEF WaysType
<1>7. ASSUME NEW n \in Nodes, RelayEnds(n) \/ Stopped(n) PROVE WaysType'
  <2>1. NodeCloses(n)
    BY <1>7 DEF RelayEnds, Stopped
  <2>2. \A c \in Conns : /\ up'[c].bytes \in {up[c].bytes, <<>>}
                         /\ down'[c].bytes \in {down[c].bytes, <<>>}
    BY <2>1, NodeClosesFacts DEF Nothing
  <2> QED BY <1>0, <2>1, <2>2, NodeClosesFacts, HoldsLess
<1>8. ASSUME NEW n \in Nodes, Fails(n) PROVE WaysType'
  <2>1. RightCloses(n - 1)
    BY <1>8 DEF Fails
  <2> QED BY <1>0, <1>p, <2>1, RightClosesFacts, HoldsLess
<1>9. CASE ClientCloses
  BY <1>0, <1>p, <1>9, LeftClosesFacts, HoldsLess DEF ClientCloses
<1>10. CASE TargetCloses
  BY <1>0, <1>p, <1>10, RightClosesFacts, HoldsLess DEF TargetCloses
<1>11. CASE ClientSends
  <2>1. /\ up' = Put(up, 0, left.sent + 1) /\ UNCHANGED down
        /\ left.sent < MaxSent /\ Len(up[0].bytes) < Capacity
    BY <1>11 DEF ClientSends, Send, Put
  <2>2. left.sent + 1 \in 1..MaxSent
    BY <2>1, BoundsAssumption, EndFields DEF TypeOK
  <2>3. up' \in [Conns -> DirectionType] /\ \A c \in Conns : Len(up'[c].bytes) <= Capacity
    BY <1>0, <1>p, <2>1, <2>2, PutFacts DEF WaysType
  <2> QED BY <1>0, <2>1, <2>3 DEF WaysType
<1>12. CASE TargetSends
  <2>1. /\ down' = Put(down, Egress, right.sent + 1)
        /\ UNCHANGED up /\ right.sent < MaxSent /\ Len(down[Egress].bytes) < Capacity
    BY <1>12 DEF TargetSends, Send, Put
  <2>2. right.sent + 1 \in 1..MaxSent
    BY <2>1, BoundsAssumption, EndFields DEF TypeOK
  <2>3. /\ down' \in [Conns -> DirectionType]
        /\ \A c \in Conns : Len(down'[c].bytes) <= Capacity
    <3>1. /\ down \in [Conns -> DirectionType]
          /\ \A c \in Conns : Len(down[c].bytes) <= Capacity
      BY <1>0 DEF WaysType
    <3> QED BY <1>p, <2>1, <2>2, <3>1, PutFacts
  <2> QED BY <1>0, <2>1, <2>3 DEF WaysType
<1>13. CASE ClientReads
  <2>1. /\ down' = Taken(down, 0) /\ UNCHANGED up
        /\ down[0].bytes # <<>>
    BY <1>13 DEF ClientReads, Taken
  <2>2. /\ down' \in [Conns -> DirectionType]
        /\ \A c \in Conns : Len(down'[c].bytes) <= Capacity
    BY <1>0, <1>p, <2>1, TakeFacts DEF WaysType
  <2> QED BY <1>0, <2>1, <2>2 DEF WaysType
<1>14. CASE TargetReads
  <2>1. /\ up' = Taken(up, Egress) /\ UNCHANGED down
        /\ up[Egress].bytes # <<>>
    BY <1>14 DEF TargetReads, Taken
  <2>2. up' \in [Conns -> DirectionType] /\ \A c \in Conns : Len(up'[c].bytes) <= Capacity
    BY <1>0, <1>p, <2>1, TakeFacts DEF WaysType
  <2> QED BY <1>0, <2>1, <2>2 DEF WaysType
<1>15. CASE ClientEnds
  <2>1. up' = Ended(up, 0) /\ UNCHANGED down
    BY <1>15 DEF ClientEnds, Ended
  <2>2. up' \in [Conns -> DirectionType] /\ \A c \in Conns : up'[c].bytes = up[c].bytes
    BY <1>0, <1>p, <2>1, EndedFacts DEF WaysType
  <2> QED BY <1>0, <2>1, <2>2, HoldsLess DEF WaysType
<1>16. CASE TargetEnds
  <2>1. down' = Ended(down, Egress) /\ UNCHANGED up
    BY <1>16 DEF TargetEnds, Ended
  <2>2. /\ down' \in [Conns -> DirectionType]
        /\ \A c \in Conns : down'[c].bytes = down[c].bytes
    BY <1>0, <1>p, <2>1, EndedFacts DEF WaysType
  <2> QED BY <1>0, <2>1, <2>2, HoldsLess DEF WaysType
<1>17. CASE UNCHANGED vars
  BY <1>17, <1>i DEF vars
<1> QED BY <1>1, <1>2, <1>3, <1>4, <1>5, <1>6, <1>7, <1>8, <1>9, <1>10, <1>11, <1>12,
           <1>13, <1>14, <1>15, <1>16, <1>17 DEF Next, NodeRuns, Reads

LEMMA TypeStep ==
    ASSUME TypeOK, IdleInv, [Next]_vars
    PROVE  TypeOK' /\ IdleInv'
<1>1. EndsType' /\ WaysType' /\ NodesType' /\ IdleInv'
  BY EndsStep, WaysStep, NodesStep, TypeParts
<1>2. sentChain' \in Chains /\ transport' \in Transports
  BY DEF TypeOK, Next, NodeRuns, ReadFrame, DialNext, Relaying, DialTarget, CopyUp,
         CopyDown, UpEnds, DownEnds, RelayEnds, Fails, Stopped, Reads, ClientReads,
         TargetReads, ClientSeesEnd, TargetSeesEnd, ClientSends, TargetSends, ClientEnds,
         TargetEnds, ClientCloses, TargetCloses, EndsUnchanged, sessionVars, vars
<1>3. disturbed' \in BOOLEAN
  BY DEF TypeOK, Next, NodeRuns, ReadFrame, DialNext, Relaying, DialTarget, CopyUp,
         CopyDown, UpEnds, DownEnds, RelayEnds, Fails, Stopped, Reads, ClientReads,
         TargetReads, ClientSeesEnd, TargetSeesEnd, ClientSends, TargetSends, ClientEnds,
         TargetEnds, ClientCloses, TargetCloses, EndsUnchanged, vars
<1>4. (sentChain \in Chains /\ transport \in Transports /\ disturbed \in BOOLEAN
       /\ EndsType /\ WaysType /\ NodesType)'
  BY <1>1, <1>2, <1>3
<1>5. TypeOK'
  BY <1>4 DEF TypeOK, EndsType, WaysType, NodesType, Phases
<1> QED BY <1>1, <1>5

----------------------------------------------------------------------------
(* Every step keeps the two flows *)

LEMMA UpKeeps ==
    ASSUME TypeOK, TypeOK', NEW p \in Positions, UpFlow(p),
           left'.sent = left.sent, left.ended => left'.ended, right'.got = right.got,
           disturbed => disturbed',
           \A c \in Conns :
              \/ up'[c].bytes = up[c].bytes /\ (up[c].shut => up'[c].shut)
              \/ /\ up'[c].bytes = <<>> /\ up'[c].shut
                 /\ ~disturbed' => up[c].bytes = <<>>,
           ~disturbed' =>
              /\ \A c \in Conns : up'[c].fin =>
                    up[c].fin \/ (left'.ended /\ p[c] = left.sent)
              /\ \A n \in Done("up")' :
                    n \in Done("up") \/ (left'.ended /\ p[n] = left.sent)
              /\ right'.sawEnd => right.sawEnd
                                  \/ (left'.ended /\ p[Egress + 1] = left.sent)
    PROVE  Ups'
<1>1. disturbed \in BOOLEAN /\ disturbed' \in BOOLEAN
  BY DEF TypeOK
<1>2. /\ IsWay(UpWay) /\ UpWay.last = Egress + 1
      /\ \A c \in Conns : UpWay.in[c] = c
  BY WaysAreWays DEF UpWay
<1>3. Flow(UpWay, up, left, right, disturbed, Done("up"), p)
  BY DEF UpFlow
<1> DEFINE new(w, s, r, done) ==
              /\ \A c \in Conns : w[c].fin =>
                    up[c].fin \/ (s.ended /\ p[UpWay.in[c]] = left.sent)
              /\ \A n \in done :
                    n \in Done("up") \/ (s.ended /\ p[n] = left.sent)
              /\ r.sawEnd => right.sawEnd \/ (s.ended /\ p[UpWay.last] = left.sent)
<1>4. ~disturbed' => new(up', left', right', Done("up")')
  BY <1>2
<1>5. IsWay(UpWay)
      /\ \A c \in Conns :
            \/ up'[c].bytes = up[c].bytes /\ (up[c].shut => up'[c].shut)
            \/ /\ up'[c].bytes = Nothing /\ up'[c].shut
               /\ ~disturbed' => up[c].bytes = Nothing
  BY <1>2 DEF Nothing
<1>6. Flow(UpWay, up', left', right', disturbed', Done("up")', p)
  BY <1>1, <1>3, <1>4, <1>5, FlowKeeps
<1> QED BY <1>6 DEF Ups, UpFlow

LEMMA DownKeeps ==
    ASSUME TypeOK, TypeOK', NEW p \in Positions, DownFlow(p),
           right'.sent = right.sent, right.ended => right'.ended, left'.got = left.got,
           disturbed => disturbed',
           \A c \in Conns :
              \/ down'[c].bytes = down[c].bytes /\ (down[c].shut => down'[c].shut)
              \/ /\ down'[c].bytes = <<>> /\ down'[c].shut
                 /\ ~disturbed' => down[c].bytes = <<>>,
           ~disturbed' =>
              /\ \A c \in Conns : down'[c].fin =>
                    down[c].fin \/ (right'.ended /\ p[c + 1] = right.sent)
              /\ \A n \in Done("down")' :
                    n \in Done("down") \/ (right'.ended /\ p[n] = right.sent)
              /\ left'.sawEnd => left.sawEnd \/ (right'.ended /\ p[0] = right.sent)
    PROVE  Downs'
<1>1. disturbed \in BOOLEAN /\ disturbed' \in BOOLEAN
  BY DEF TypeOK
<1>2. /\ IsWay(DownWay) /\ DownWay.last = 0
      /\ \A c \in Conns : DownWay.in[c] = c + 1
  BY WaysAreWays DEF DownWay
<1>3. Flow(DownWay, down, right, left, disturbed, Done("down"), p)
  BY DEF DownFlow
<1> DEFINE new(w, s, r, done) ==
              /\ \A c \in Conns : w[c].fin =>
                    down[c].fin \/ (s.ended /\ p[DownWay.in[c]] = right.sent)
              /\ \A n \in done :
                    n \in Done("down") \/ (s.ended /\ p[n] = right.sent)
              /\ r.sawEnd => left.sawEnd \/ (s.ended /\ p[DownWay.last] = right.sent)
<1>4. ~disturbed' => new(down', right', left', Done("down")')
  BY <1>2
<1>5. IsWay(DownWay)
      /\ \A c \in Conns :
            \/ down'[c].bytes = down[c].bytes /\ (down[c].shut => down'[c].shut)
            \/ /\ down'[c].bytes = Nothing /\ down'[c].shut
               /\ ~disturbed' => down[c].bytes = Nothing
  BY <1>2 DEF Nothing
<1>6. Flow(DownWay, down', right', left', disturbed', Done("down")', p)
  BY <1>1, <1>3, <1>4, <1>5, FlowKeeps
<1> QED BY <1>6 DEF Downs, DownFlow

\* A node that is done in a direction left undisturbed has passed on all of it.
LEMMA UpDoneFacts ==
    ASSUME TypeOK, NEW p \in Positions, UpFlow(p), ~disturbed
    PROVE  /\ \A c \in Conns :
                 /\ EndReached(up[c]) => left.ended /\ p[c + 1] = left.sent
                 /\ up[c].fin => left.ended /\ p[c] = left.sent
                 /\ p[c + 1] = left.sent => up[c].bytes = <<>>
           /\ \A n \in Done("up") : left.ended /\ p[n] = left.sent
           /\ right.sawEnd => left.ended /\ p[Egress + 1] = left.sent
<1>1. /\ IsWay(UpWay) /\ UpWay.last = Egress + 1
      /\ \A c \in Conns : UpWay.in[c] = c /\ UpWay.out[c] = c + 1
  BY WaysAreWays DEF UpWay
<1>2. left.sent \in Nat
  BY EndFields DEF TypeOK
<1>3. Flow(UpWay, up, left, right, disturbed, Done("up"), p)
  BY DEF UpFlow
<1>4. ASSUME NEW c \in Conns
      PROVE  /\ EndReached(up[c]) => left.ended /\ p[c + 1] = left.sent
             /\ p[c + 1] = left.sent => up[c].bytes = <<>>
  <2>1. IsWay(UpWay)
    BY <1>1
  <2>2. up[c].bytes = Nothing /\ up[c].fin =>
            left.ended /\ p[UpWay.out[c]] = left.sent
    BY <1>2, <1>3, <2>1, FlowEnds
  <2>3. p[UpWay.out[c]] = left.sent => up[c].bytes = Nothing
    BY <1>2, <1>3, <2>1, FlowEnds
  <2> QED BY <1>1, <2>2, <2>3 DEF EndReached, Nothing
<1> QED BY <1>1, <1>3, <1>4 DEF Flow

LEMMA DownDoneFacts ==
    ASSUME TypeOK, NEW p \in Positions, DownFlow(p), ~disturbed
    PROVE  /\ \A c \in Conns :
                 /\ EndReached(down[c]) => right.ended /\ p[c] = right.sent
                 /\ down[c].fin => right.ended /\ p[c + 1] = right.sent
                 /\ p[c] = right.sent => down[c].bytes = <<>>
           /\ \A n \in Done("down") : right.ended /\ p[n] = right.sent
           /\ left.sawEnd => right.ended /\ p[0] = right.sent
<1>1. /\ IsWay(DownWay) /\ DownWay.last = 0
      /\ \A c \in Conns : DownWay.in[c] = c + 1 /\ DownWay.out[c] = c
  BY WaysAreWays DEF DownWay
<1>2. right.sent \in Nat
  BY EndFields DEF TypeOK
<1>3. Flow(DownWay, down, right, left, disturbed, Done("down"), p)
  BY DEF DownFlow
<1>4. ASSUME NEW c \in Conns
      PROVE  /\ EndReached(down[c]) => right.ended /\ p[c] = right.sent
             /\ p[c] = right.sent => down[c].bytes = <<>>
  <2>1. IsWay(DownWay)
    BY <1>1
  <2>2. down[c].bytes = Nothing /\ down[c].fin =>
            right.ended /\ p[DownWay.out[c]] = right.sent
    BY <1>2, <1>3, <2>1, FlowEnds
  <2>3. p[DownWay.out[c]] = right.sent => down[c].bytes = Nothing
    BY <1>2, <1>3, <2>1, FlowEnds
  <2> QED BY <1>1, <2>2, <2>3 DEF EndReached, Nothing
<1> QED BY <1>1, <1>3, <1>4 DEF Flow

LEMMA UpStep ==
    ASSUME TypeOK, TypeOK', Ups, [Next]_vars
    PROVE  Ups'
<1>p. PICK p \in Positions : UpFlow(p)
  BY DEF Ups
<1>t. /\ WaysType /\ NodesType /\ 0 \in Conns /\ Egress \in Conns
      /\ \A n \in Nodes : n - 1 \in Conns /\ n \in Conns /\ n - 1 # n /\ n - 1 + 1 = n
      /\ left \in EndType /\ right \in EndType
      /\ up \in [Conns -> DirectionType]
      /\ \A c \in Conns : Len(up[c].bytes) <= Capacity
  BY TypeParts, PathFacts DEF TypeOK
<1>w. /\ IsWay(UpWay) /\ UpWay.first = 0 /\ UpWay.last = Egress + 1
      /\ \A c \in Conns : UpWay.in[c] = c /\ UpWay.out[c] = c + 1
      /\ left.sent \in Nat
  BY <1>t, WaysAreWays, EndFields DEF UpWay
<1>f. /\ Flow(UpWay, up, left, right, disturbed, Done("up"), p)
      /\ Done("up") \subseteq Nodes
  BY <1>p DEF UpFlow, Done
\* Neither bytes nor ends move.
<1>i. ASSUME UNCHANGED <<up, left, right, disturbed>>, Done("up")' \subseteq Done("up")
      PROVE  Ups'
  BY <1>p, <1>i, UpKeeps
<1>1. ASSUME NEW n \in Nodes, ReadFrame(n) \/ DialNext(n) PROVE Ups'
  BY <1>1, <1>i, <1>t, DoneShrinks DEF ReadFrame, DialNext, Relaying, endVars
<1>2. CASE DialTarget
  BY <1>2, <1>i, <1>t, DoneShrinks DEF DialTarget, Relaying, endVars
<1>3. ASSUME NEW n \in Nodes, CopyUp(n) PROVE Ups'
  <2>1. /\ up[n - 1].bytes # <<>> /\ ~up[n].shut /\ Len(up[n].bytes) < Capacity
        /\ up' = Passed(up, n - 1, n)
        /\ UNCHANGED <<nodeVars, left, right, disturbed>>
    BY <1>3 DEF CopyUp, Pass, Passed, endVars
  <2>2. /\ up'[n - 1].bytes = Tail(up[n - 1].bytes) /\ up'[n - 1].fin = up[n - 1].fin
        /\ up'[n].bytes = Append(up[n].bytes, Head(up[n - 1].bytes))
        /\ up'[n].fin = up[n].fin
        /\ \A c \in Conns \ {n - 1, n} : up'[c] = up[c]
    BY <1>t, <2>1, PassFacts
  <2>3. /\ UpWay.out[n - 1] = n /\ UpWay.in[n] = n /\ n - 1 \in Conns /\ n \in Conns
        /\ up[n - 1].bytes # Nothing
    BY <1>t, <1>w, <2>1 DEF Nothing
  <2>4. \E q \in Positions : Flow(UpWay, up', left, right, disturbed, Done("up"), q)
    <3> DEFINE done == Done("up")
               w == up'
    <3>1. /\ IsWay(UpWay) /\ Flow(UpWay, up, left, right, disturbed, done, p)
          /\ done \subseteq Nodes /\ left.sent \in Nat /\ ~up[n].shut
          /\ w[n - 1].bytes = Tail(up[n - 1].bytes) /\ w[n - 1].fin = up[n - 1].fin
          /\ w[n].bytes = Append(up[n].bytes, Head(up[n - 1].bytes))
          /\ w[n].fin = up[n].fin
          /\ \A c \in Conns \ {n - 1, n} : w[c] = up[c]
      BY <1>f, <1>w, <2>1, <2>2
    <3> HIDE DEF done, w
    <3>2. \E q \in Positions : Flow(UpWay, w, left, right, disturbed, done, q)
      BY <2>3, <3>1, FlowCopies
    <3> QED BY <3>2 DEF done, w
  <2>5. Done("up")' = Done("up")
    BY <2>1 DEF Done, nodeVars
  <2> QED BY <2>1, <2>4, <2>5 DEF Ups, UpFlow
<1>4. ASSUME NEW n \in Nodes, CopyDown(n) PROVE Ups'
  BY <1>4, <1>i, <1>t, DoneShrinks DEF CopyDown, endVars
<1>5. ASSUME NEW n \in Nodes, UpEnds(n) PROVE Ups'
  <2>1. /\ up' = Ended(up, n) /\ UNCHANGED <<phase, left, right>>
        /\ EndReached(up[n - 1]) \/ WriteFails(up[n - 1], up[n])
        /\ disturbed' = (disturbed \/ WriteFails(up[n - 1], up[n]))
        /\ copying' = [copying EXCEPT ![n] = @ \ {"up"}]
    BY <1>5 DEF UpEnds, Ended, endVars
  <2>2. \A c \in Conns : /\ up'[c].bytes = up[c].bytes /\ up'[c].shut = up[c].shut
                         /\ up'[c].fin => up[c].fin \/ c = n
    BY <1>t, <2>1, EndedFacts
  <2>3. Done("up")' \subseteq Done("up") \cup {n}
    BY <1>t, <2>1, DoneGrows
  <2>4. ~disturbed' => left.ended /\ p[n] = left.sent
    <3>1. ~disturbed' => ~disturbed /\ EndReached(up[n - 1])
      BY <2>1
    <3>2. ~disturbed => \A c \in Conns : EndReached(up[c]) =>
                                         left.ended /\ p[c + 1] = left.sent
      BY <1>p, UpDoneFacts
    <3> QED BY <1>t, <3>1, <3>2
  <2> QED BY <1>p, <2>1, <2>2, <2>3, <2>4, UpKeeps
<1>6. ASSUME NEW n \in Nodes, DownEnds(n) PROVE Ups'
  <2>1. /\ UNCHANGED <<phase, up, left, right>> /\ (disturbed => disturbed')
        /\ copying' = [copying EXCEPT ![n] = @ \ {"down"}]
    BY <1>6 DEF DownEnds, endVars
  <2>2. Done("up")' = Done("up")
    <3>1. \A k \in Nodes : "up" \in copying'[k] <=> "up" \in copying[k]
      BY <1>t, <2>1 DEF NodesType
    <3> QED BY <2>1, <3>1 DEF Done
  <2> QED BY <1>p, <2>1, <2>2, UpKeeps
<1>7. ASSUME NEW n \in Nodes, RelayEnds(n) \/ Stopped(n) PROVE Ups'
  <2>1. /\ NodeCloses(n) /\ UNCHANGED <<left, right>> /\ (disturbed => disturbed')
    BY <1>7 DEF RelayEnds, Stopped, endVars
  <2>2. Done("up")' \subseteq Done("up")
    BY <1>t, <1>7, DoneShrinks
  <2>3. ~disturbed' => left.ended /\ p[n] = left.sent /\ up[n - 1].bytes = <<>>
    <3>1. ~disturbed' => ~disturbed /\ n \in Done("up")
      BY <1>7 DEF RelayEnds, Stopped, BothEnded, Done
    <3> QED BY <1>p, <1>t, <3>1, UpDoneFacts
  <2>4. /\ up'[n - 1].bytes = <<>> /\ up'[n - 1].fin = up[n - 1].fin /\ up'[n - 1].shut
        /\ up'[n].bytes = up[n].bytes /\ up'[n].shut = up[n].shut
        /\ \A c \in Conns \ {n - 1, n} : up'[c] = up[c]
    BY <2>1, NodeClosesFacts DEF Nothing
  <2>5. \A c \in Conns :
           \/ up'[c].bytes = up[c].bytes /\ (up[c].shut => up'[c].shut)
           \/ /\ up'[c].bytes = <<>> /\ up'[c].shut
              /\ ~disturbed' => up[c].bytes = <<>>
    BY <2>3, <2>4
  <2>6. \A c \in Conns : up'[c].fin => up[c].fin \/ c = n
    BY <2>4
  <2> QED BY <1>p, <2>1, <2>2, <2>3, <2>5, <2>6, UpKeeps
<1>8. ASSUME NEW n \in Nodes, Fails(n) PROVE Ups'
  <2>1. RightCloses(n - 1) /\ UNCHANGED <<left, right>> /\ disturbed'
    BY <1>8 DEF Fails, endVars
  <2>2. Done("up")' \subseteq Done("up")
    BY <1>t, <1>8, DoneShrinks
  <2>3. /\ up'[n - 1].bytes = <<>> /\ up'[n - 1].shut
        /\ \A c \in Conns \ {n - 1} : up'[c] = up[c]
    BY <1>t, <2>1, RightClosesFacts
  <2>4. \A c \in Conns :
           \/ up'[c].bytes = up[c].bytes /\ (up[c].shut => up'[c].shut)
           \/ up'[c].bytes = <<>> /\ up'[c].shut
    BY <2>3
  <2> QED BY <1>p, <2>1, <2>2, <2>4, UpKeeps
<1>9. CASE ClientSends
  <2>1. /\ ~left.ended /\ left.sent < MaxSent /\ ~up[0].shut
        /\ left' = Sent(left) /\ up' = Put(up, 0, left.sent + 1)
        /\ UNCHANGED <<nodeVars, right, disturbed>>
    BY <1>9 DEF ClientSends, Send, Sent, Put, EndsUnchanged
  <2>2. left.sent + 1 \in 1..MaxSent
    BY <1>w, <2>1, BoundsAssumption
  <2>3. /\ up'[0].bytes = Append(up[0].bytes, left.sent + 1) /\ up'[0].fin = up[0].fin
        /\ \A c \in Conns \ {0} : up'[c] = up[c]
    BY <1>t, <2>1, <2>2, PutFacts
  <2>4. left'.sent = left.sent + 1
    BY <1>t, <2>1, SentFacts
  <2>5. \E q \in Positions : Flow(UpWay, up', left', right, disturbed, Done("up"), q)
    <3> DEFINE done == Done("up")
               w == up'
               s == left'
    <3>1. /\ IsWay(UpWay) /\ Flow(UpWay, up, left, right, disturbed, done, p)
          /\ done \subseteq Nodes /\ left.sent \in Nat /\ left.sent < MaxSent
          /\ ~left.ended /\ s.sent = left.sent + 1 /\ ~up[0].shut
          /\ w[0].bytes = Append(up[0].bytes, left.sent + 1) /\ w[0].fin = up[0].fin
          /\ \A c \in Conns \ {0} : w[c] = up[c]
          /\ 0 \in Conns /\ UpWay.in[0] = UpWay.first
      BY <1>t, <1>f, <1>w, <2>1, <2>3, <2>4
    <3> HIDE DEF done, w, s
    <3>2. \E q \in Positions : Flow(UpWay, w, s, right, disturbed, done, q)
      BY <3>1, FlowSends
    <3> QED BY <3>2 DEF done, w, s
  <2>6. Done("up")' = Done("up")
    BY <2>1 DEF Done, nodeVars
  <2> QED BY <2>1, <2>5, <2>6 DEF Ups, UpFlow
<1>10. CASE TargetReads
  <2>1. /\ up[Egress].bytes # <<>>
        /\ right' = Got(right, Head(up[Egress].bytes)) /\ up' = Taken(up, Egress)
        /\ UNCHANGED <<nodeVars, left, disturbed>>
    BY <1>10 DEF TargetReads, Got, Taken, EndsUnchanged
  <2>2. /\ Head(up[Egress].bytes) \in 1..MaxSent
        /\ up'[Egress].bytes = Tail(up[Egress].bytes)
        /\ up'[Egress].fin = up[Egress].fin
        /\ \A c \in Conns \ {Egress} : up'[c] = up[c]
    BY <1>t, <2>1, TakeFacts
  <2>3. /\ right'.got = Append(right.got, Head(up[Egress].bytes))
        /\ right'.sawEnd = right.sawEnd
    BY <1>t, <2>1, <2>2, GotFacts
  <2>4. \E q \in Positions : Flow(UpWay, up', left, right', disturbed, Done("up"), q)
    <3> DEFINE done == Done("up")
               w == up'
               r == right'
    <3>1. /\ IsWay(UpWay) /\ Flow(UpWay, up, left, right, disturbed, done, p)
          /\ done \subseteq Nodes /\ left.sent \in Nat
          /\ ReadsOne(UpWay, up, w, right, r, Egress)
      BY <1>t, <1>f, <1>w, <2>1, <2>2, <2>3 DEF ReadsOne
    <3> HIDE DEF done, w, r
    <3>2. \E q \in Positions : Flow(UpWay, w, left, r, disturbed, done, q)
      BY <3>1, FlowReads
    <3> QED BY <3>2 DEF done, w, r
  <2>5. Done("up")' = Done("up")
    BY <2>1 DEF Done, nodeVars
  <2> QED BY <2>1, <2>4, <2>5 DEF Ups, UpFlow
\* The ends do something else.
<1>e. ASSUME UNCHANGED <<nodeVars, up, disturbed>>, left'.sent = left.sent,
             left'.ended = left.ended, right'.got = right.got,
             ~disturbed /\ right'.sawEnd => right.sawEnd \/ EndReached(up[Egress])
      PROVE  Ups'
  <2>1. Done("up")' = Done("up")
    BY <1>e DEF Done, nodeVars
  <2>2. ~disturbed => \A c \in Conns : EndReached(up[c]) =>
                                         left.ended /\ p[c + 1] = left.sent
    BY <1>p, UpDoneFacts
  <2>3. ~disturbed' => (right'.sawEnd => right.sawEnd
                           \/ (left'.ended /\ p[Egress + 1] = left.sent))
    BY <1>e, <1>t, <2>2
  <2> QED BY <1>p, <1>e, <2>1, <2>3, UpKeeps
<1>11. CASE ClientReads
  <2>1. /\ left' = Got(left, Head(down[0].bytes)) /\ down[0].bytes # <<>>
        /\ down' = Taken(down, 0) /\ UNCHANGED <<nodeVars, up, right, disturbed>>
    BY <1>11 DEF ClientReads, Got, Taken, EndsUnchanged
  <2>2. Head(down[0].bytes) \in 1..MaxSent
    BY <1>t, <2>1, TakeFacts DEF WaysType
  <2>3. left'.sent = left.sent /\ left'.ended = left.ended
    BY <1>t, <2>1, <2>2, GotFacts
  <2> QED BY <1>e, <2>1, <2>3
<1>12. CASE TargetSends
  <2>1. /\ right' = Sent(right) /\ right.sent < MaxSent
        /\ UNCHANGED <<nodeVars, up, left, disturbed>>
    BY <1>12 DEF TargetSends, Send, Sent, EndsUnchanged
  <2>2. right'.got = right.got /\ right'.sawEnd = right.sawEnd
    BY <1>t, <2>1, SentFacts
  <2> QED BY <1>e, <2>1, <2>2
<1>13. CASE ClientSeesEnd
  <2>1. left' = Saw(left) /\ UNCHANGED <<nodeVars, up, right, disturbed>>
    BY <1>13 DEF ClientSeesEnd, Saw, EndsUnchanged
  <2>2. left'.sent = left.sent /\ left'.ended = left.ended
    BY <1>t, <2>1, SawFacts
  <2> QED BY <1>e, <2>1, <2>2
<1>14. CASE TargetSeesEnd
  <2>1. /\ right' = Saw(right) /\ UNCHANGED <<nodeVars, up, left, disturbed>>
        /\ EndReached(up[Egress])
    BY <1>14 DEF TargetSeesEnd, Saw, EndsUnchanged
  <2>2. right'.got = right.got
    BY <1>t, <2>1, SawFacts
  <2> QED BY <1>e, <2>1, <2>2
<1>15. CASE ClientEnds
  <2>1. /\ left' = Over(left) /\ up' = Ended(up, 0)
        /\ UNCHANGED <<nodeVars, right, disturbed>>
    BY <1>15 DEF ClientEnds, Over, Ended, EndsUnchanged
  <2>2. \A c \in Conns : /\ up'[c].bytes = up[c].bytes /\ up'[c].shut = up[c].shut
                         /\ up'[c].fin => up[c].fin \/ c = 0
    BY <1>t, <2>1, EndedFacts
  <2>3. left'.sent = left.sent /\ left'.ended /\ p[0] = left.sent
    BY <1>t, <1>f, <1>w, <2>1, OverFacts DEF Flow
  <2>4. Done("up")' = Done("up")
    BY <2>1 DEF Done, nodeVars
  <2> QED BY <1>p, <2>1, <2>2, <2>3, <2>4, UpKeeps
<1>16. CASE TargetEnds
  <2>1. right' = Over(right) /\ UNCHANGED <<nodeVars, up, left, disturbed>>
    BY <1>16 DEF TargetEnds, Over, EndsUnchanged
  <2>2. right'.got = right.got /\ right'.sawEnd = right.sawEnd
    BY <1>t, <2>1, OverFacts
  <2> QED BY <1>e, <2>1, <2>2
<1>17. CASE ClientCloses
  <2>1. /\ left' = Gone(left) /\ LeftCloses(0) /\ (disturbed => disturbed')
        /\ UNCHANGED <<nodeVars, right>>
    BY <1>17 DEF ClientCloses, Gone
  <2>2. /\ up'[0].bytes = up[0].bytes /\ up'[0].shut = up[0].shut
        /\ \A c \in Conns \ {0} : up'[c] = up[c]
    BY <1>t, <2>1, LeftClosesFacts
  <2>3. \A c \in Conns : /\ up'[c].bytes = up[c].bytes /\ up'[c].shut = up[c].shut
                         /\ up'[c].fin => up[c].fin \/ c = 0
    BY <2>2
  <2>4. left'.sent = left.sent /\ left'.ended /\ p[0] = left.sent
    BY <1>t, <1>f, <1>w, <2>1, GoneFacts DEF Flow
  <2>5. Done("up")' = Done("up")
    BY <2>1 DEF Done, nodeVars
  <2> QED BY <1>p, <2>1, <2>3, <2>4, <2>5, UpKeeps
<1>18. CASE TargetCloses
  <2>1. /\ right' = Gone(right) /\ RightCloses(Egress)
        /\ disturbed' = (disturbed \/ ~right.sawEnd) /\ UNCHANGED <<nodeVars, left>>
    BY <1>18 DEF TargetCloses, Gone
  <2>2. /\ up'[Egress].bytes = <<>> /\ up'[Egress].shut
        /\ up'[Egress].fin = up[Egress].fin
        /\ \A c \in Conns \ {Egress} : up'[c] = up[c]
    BY <1>t, <2>1, RightClosesFacts
  <2>3. ~disturbed' => up[Egress].bytes = <<>>
    BY <1>p, <1>t, <2>1, UpDoneFacts
  <2>4. \A c \in Conns :
           /\ \/ up'[c].bytes = up[c].bytes /\ (up[c].shut => up'[c].shut)
              \/ /\ up'[c].bytes = <<>> /\ up'[c].shut
                 /\ ~disturbed' => up[c].bytes = <<>>
           /\ up'[c].fin => up[c].fin
    BY <2>2, <2>3
  <2>5. right'.got = right.got /\ right'.sawEnd = right.sawEnd
    BY <1>t, <2>1, GoneFacts
  <2>6. Done("up")' = Done("up")
    BY <2>1 DEF Done, nodeVars
  <2> QED BY <1>p, <2>1, <2>4, <2>5, <2>6, UpKeeps
<1>19. CASE UNCHANGED vars
  BY <1>19, <1>e DEF vars, nodeVars
<1> QED BY <1>1, <1>2, <1>3, <1>4, <1>5, <1>6, <1>7, <1>8, <1>9, <1>10, <1>11, <1>12,
           <1>13, <1>14, <1>15, <1>16, <1>17, <1>18, <1>19 DEF Next, NodeRuns, Reads

LEMMA DownStep ==
    ASSUME TypeOK, TypeOK', Downs, [Next]_vars
    PROVE  Downs'
<1>p. PICK p \in Positions : DownFlow(p)
  BY DEF Downs
<1>t. /\ WaysType /\ NodesType /\ 0 \in Conns /\ Egress \in Conns
      /\ \A n \in Nodes : n - 1 \in Conns /\ n \in Conns /\ n - 1 # n /\ n - 1 + 1 = n
      /\ right \in EndType /\ left \in EndType
      /\ down \in [Conns -> DirectionType]
      /\ \A c \in Conns : Len(down[c].bytes) <= Capacity
  BY TypeParts, PathFacts DEF TypeOK
<1>w. /\ IsWay(DownWay) /\ DownWay.first = Egress + 1 /\ DownWay.last = 0
      /\ \A c \in Conns : DownWay.in[c] = c + 1 /\ DownWay.out[c] = c
      /\ right.sent \in Nat
  BY <1>t, WaysAreWays, EndFields DEF DownWay
<1>f. /\ Flow(DownWay, down, right, left, disturbed, Done("down"), p)
      /\ Done("down") \subseteq Nodes
  BY <1>p DEF DownFlow, Done
\* Neither bytes nor ends move.
<1>i. ASSUME UNCHANGED <<down, right, left, disturbed>>,
             Done("down")' \subseteq Done("down")
      PROVE  Downs'
  BY <1>p, <1>i, DownKeeps
<1>1. ASSUME NEW n \in Nodes, ReadFrame(n) \/ DialNext(n) PROVE Downs'
  BY <1>1, <1>i, <1>t, DoneShrinks DEF ReadFrame, DialNext, Relaying, endVars
<1>2. CASE DialTarget
  BY <1>2, <1>i, <1>t, DoneShrinks DEF DialTarget, Relaying, endVars
<1>3. ASSUME NEW n \in Nodes, CopyDown(n) PROVE Downs'
  <2>1. /\ down[n].bytes # <<>> /\ ~down[n - 1].shut /\ Len(down[n - 1].bytes) < Capacity
        /\ down' = Passed(down, n, n - 1)
        /\ UNCHANGED <<nodeVars, right, left, disturbed>>
    BY <1>3 DEF CopyDown, Pass, Passed, endVars
  <2>2. /\ down'[n].bytes = Tail(down[n].bytes) /\ down'[n].fin = down[n].fin
        /\ down'[n - 1].bytes = Append(down[n - 1].bytes, Head(down[n].bytes))
        /\ down'[n - 1].fin = down[n - 1].fin
        /\ \A c \in Conns \ {n - 1, n} : down'[c] = down[c]
    BY <1>t, <2>1, PassFacts
  <2>3. /\ DownWay.out[n] = n /\ DownWay.in[n - 1] = n /\ n - 1 \in Conns /\ n \in Conns
        /\ down[n].bytes # Nothing
    BY <1>t, <1>w, <2>1 DEF Nothing
  <2>4. \E q \in Positions : Flow(DownWay, down', right, left, disturbed, Done("down"), q)
    <3> DEFINE done == Done("down")
               w == down'
    <3>1. /\ IsWay(DownWay) /\ Flow(DownWay, down, right, left, disturbed, done, p)
          /\ done \subseteq Nodes /\ right.sent \in Nat /\ ~down[n - 1].shut
          /\ w[n].bytes = Tail(down[n].bytes) /\ w[n].fin = down[n].fin
          /\ w[n - 1].bytes = Append(down[n - 1].bytes, Head(down[n].bytes))
          /\ w[n - 1].fin = down[n - 1].fin
          /\ \A c \in Conns \ {n, n - 1} : w[c] = down[c]
      BY <1>f, <1>w, <2>1, <2>2
    <3> HIDE DEF done, w
    <3>2. \E q \in Positions : Flow(DownWay, w, right, left, disturbed, done, q)
      BY <2>3, <3>1, FlowCopies
    <3> QED BY <3>2 DEF done, w
  <2>5. Done("down")' = Done("down")
    BY <2>1 DEF Done, nodeVars
  <2> QED BY <2>1, <2>4, <2>5 DEF Downs, DownFlow
<1>4. ASSUME NEW n \in Nodes, CopyUp(n) PROVE Downs'
  BY <1>4, <1>i, <1>t, DoneShrinks DEF CopyUp, endVars
<1>5. ASSUME NEW n \in Nodes, DownEnds(n) PROVE Downs'
  <2>1. /\ down' = [down EXCEPT ![n - 1].fin = @ \/ HalfCloses(n)]
        /\ UNCHANGED <<phase, right, left>>
        /\ EndReached(down[n]) \/ WriteFails(down[n], down[n - 1])
        /\ disturbed' = (disturbed \/ WriteFails(down[n], down[n - 1]))
        /\ copying' = [copying EXCEPT ![n] = @ \ {"down"}]
    BY <1>5 DEF DownEnds, endVars
  <2>2. \A c \in Conns : /\ down'[c].bytes = down[c].bytes /\ down'[c].shut = down[c].shut
                         /\ down'[c].fin => down[c].fin \/ c = n - 1
    BY <1>t, <2>1, DownEndsFacts
  <2>3. Done("down")' \subseteq Done("down") \cup {n}
    BY <1>t, <2>1, DoneGrows
  <2>4. ~disturbed' => right.ended /\ p[n] = right.sent
    <3>1. ~disturbed' => ~disturbed /\ EndReached(down[n])
      BY <2>1
    <3>2. ~disturbed => \A c \in Conns : EndReached(down[c]) =>
                                         right.ended /\ p[c] = right.sent
      BY <1>p, DownDoneFacts
    <3> QED BY <1>t, <3>1, <3>2
  <2>5. \A c \in Conns : c = n - 1 => c + 1 = n
    BY <1>t
  <2>6. ~disturbed' => \A c \in Conns : down'[c].fin =>
            down[c].fin \/ (right'.ended /\ p[c + 1] = right.sent)
    BY <2>1, <2>2, <2>4, <2>5
  <2> QED BY <1>p, <2>1, <2>2, <2>3, <2>4, <2>6, DownKeeps
<1>6. ASSUME NEW n \in Nodes, UpEnds(n) PROVE Downs'
  <2>1. /\ UNCHANGED <<phase, down, right, left>> /\ (disturbed => disturbed')
        /\ copying' = [copying EXCEPT ![n] = @ \ {"up"}]
    BY <1>6 DEF UpEnds, endVars
  <2>2. Done("down")' = Done("down")
    <3>1. \A k \in Nodes : "down" \in copying'[k] <=> "down" \in copying[k]
      BY <1>t, <2>1 DEF NodesType
    <3> QED BY <2>1, <3>1 DEF Done
  <2> QED BY <1>p, <2>1, <2>2, DownKeeps
<1>7. ASSUME NEW n \in Nodes, RelayEnds(n) \/ Stopped(n) PROVE Downs'
  <2>1. /\ NodeCloses(n) /\ UNCHANGED <<right, left>> /\ (disturbed => disturbed')
    BY <1>7 DEF RelayEnds, Stopped, endVars
  <2>2. Done("down")' \subseteq Done("down")
    BY <1>t, <1>7, DoneShrinks
  <2>3. ~disturbed' => right.ended /\ p[n] = right.sent /\ down[n].bytes = <<>>
    <3>1. ~disturbed' => ~disturbed /\ n \in Done("down")
      BY <1>7 DEF RelayEnds, Stopped, BothEnded, Done
    <3> QED BY <1>p, <1>t, <3>1, DownDoneFacts
  <2>4. /\ down'[n].bytes = <<>> /\ down'[n].fin = down[n].fin /\ down'[n].shut
        /\ down'[n - 1].bytes = down[n - 1].bytes /\ down'[n - 1].shut = down[n - 1].shut
        /\ \A c \in Conns \ {n - 1, n} : down'[c] = down[c]
    BY <2>1, NodeClosesFacts DEF Nothing
  <2>5. \A c \in Conns :
           \/ down'[c].bytes = down[c].bytes /\ (down[c].shut => down'[c].shut)
           \/ /\ down'[c].bytes = <<>> /\ down'[c].shut
              /\ ~disturbed' => down[c].bytes = <<>>
    BY <2>3, <2>4
  <2>6. \A c \in Conns : down'[c].fin => down[c].fin \/ c = n - 1
    BY <2>4
  <2>7. \A c \in Conns : c = n - 1 => c + 1 = n
    BY <1>t
  <2>8. ~disturbed' => \A c \in Conns : down'[c].fin =>
            down[c].fin \/ (right'.ended /\ p[c + 1] = right.sent)
    BY <2>1, <2>3, <2>6, <2>7
  <2> QED BY <1>p, <2>1, <2>2, <2>5, <2>8, DownKeeps
<1>8. ASSUME NEW n \in Nodes, Fails(n) PROVE Downs'
  <2>1. RightCloses(n - 1) /\ UNCHANGED <<right, left>> /\ disturbed'
    BY <1>8 DEF Fails, endVars
  <2>2. Done("down")' \subseteq Done("down")
    BY <1>t, <1>8, DoneShrinks
  <2>3. /\ down'[n - 1].bytes = down[n - 1].bytes /\ down'[n - 1].shut = down[n - 1].shut
        /\ \A c \in Conns \ {n - 1} : down'[c] = down[c]
    BY <1>t, <2>1, RightClosesFacts
  <2>4. \A c \in Conns : down'[c].bytes = down[c].bytes /\ down'[c].shut = down[c].shut
    BY <2>3
  <2> QED BY <1>p, <2>1, <2>2, <2>4, DownKeeps
<1>9. CASE TargetSends
  <2>1. /\ ~right.ended /\ right.sent < MaxSent /\ ~down[Egress].shut
        /\ right' = Sent(right) /\ down' = Put(down, Egress, right.sent + 1)
        /\ UNCHANGED <<nodeVars, left, disturbed>>
    BY <1>9 DEF TargetSends, Send, Sent, Put, EndsUnchanged
  <2>2. right.sent + 1 \in 1..MaxSent
    BY <1>w, <2>1, BoundsAssumption
  <2>3. /\ down'[Egress].bytes = Append(down[Egress].bytes, right.sent + 1)
        /\ down'[Egress].fin = down[Egress].fin
        /\ \A c \in Conns \ {Egress} : down'[c] = down[c]
    BY <1>t, <2>1, <2>2, PutFacts
  <2>4. right'.sent = right.sent + 1
    BY <1>t, <2>1, SentFacts
  <2>5. \E q \in Positions : Flow(DownWay, down', right', left, disturbed, Done("down"), q)
    <3> DEFINE done == Done("down")
               w == down'
               s == right'
    <3>1. /\ IsWay(DownWay) /\ Flow(DownWay, down, right, left, disturbed, done, p)
          /\ done \subseteq Nodes /\ right.sent \in Nat /\ right.sent < MaxSent
          /\ ~right.ended /\ s.sent = right.sent + 1 /\ ~down[Egress].shut
          /\ w[Egress].bytes = Append(down[Egress].bytes, right.sent + 1)
          /\ w[Egress].fin = down[Egress].fin
          /\ \A c \in Conns \ {Egress} : w[c] = down[c]
          /\ Egress \in Conns /\ DownWay.in[Egress] = DownWay.first
      BY <1>t, <1>f, <1>w, <2>1, <2>3, <2>4
    <3> HIDE DEF done, w, s
    <3>2. \E q \in Positions : Flow(DownWay, w, s, left, disturbed, done, q)
      BY <3>1, FlowSends
    <3> QED BY <3>2 DEF done, w, s
  <2>6. Done("down")' = Done("down")
    BY <2>1 DEF Done, nodeVars
  <2> QED BY <2>1, <2>5, <2>6 DEF Downs, DownFlow
<1>10. CASE ClientReads
  <2>1. /\ down[0].bytes # <<>>
        /\ left' = Got(left, Head(down[0].bytes)) /\ down' = Taken(down, 0)
        /\ UNCHANGED <<nodeVars, right, disturbed>>
    BY <1>10 DEF ClientReads, Got, Taken, EndsUnchanged
  <2>2. /\ Head(down[0].bytes) \in 1..MaxSent
        /\ down'[0].bytes = Tail(down[0].bytes)
        /\ down'[0].fin = down[0].fin
        /\ \A c \in Conns \ {0} : down'[c] = down[c]
    BY <1>t, <2>1, TakeFacts
  <2>3. /\ left'.got = Append(left.got, Head(down[0].bytes))
        /\ left'.sawEnd = left.sawEnd
    BY <1>t, <2>1, <2>2, GotFacts
  <2>4. \E q \in Positions : Flow(DownWay, down', right, left', disturbed, Done("down"), q)
    <3> DEFINE done == Done("down")
               w == down'
               r == left'
    <3>1. /\ IsWay(DownWay) /\ Flow(DownWay, down, right, left, disturbed, done, p)
          /\ done \subseteq Nodes /\ right.sent \in Nat
          /\ ReadsOne(DownWay, down, w, left, r, 0)
      BY <1>t, <1>f, <1>w, <2>1, <2>2, <2>3 DEF ReadsOne
    <3> HIDE DEF done, w, r
    <3>2. \E q \in Positions : Flow(DownWay, w, right, r, disturbed, done, q)
      BY <3>1, FlowReads
    <3> QED BY <3>2 DEF done, w, r
  <2>5. Done("down")' = Done("down")
    BY <2>1 DEF Done, nodeVars
  <2> QED BY <2>1, <2>4, <2>5 DEF Downs, DownFlow
\* The ends do something else.
<1>e. ASSUME UNCHANGED <<nodeVars, down, disturbed>>, right'.sent = right.sent,
             right'.ended = right.ended, left'.got = left.got,
             ~disturbed /\ left'.sawEnd => left.sawEnd \/ EndReached(down[0])
      PROVE  Downs'
  <2>1. Done("down")' = Done("down")
    BY <1>e DEF Done, nodeVars
  <2>2. ~disturbed => \A c \in Conns : EndReached(down[c]) =>
                                         right.ended /\ p[c] = right.sent
    BY <1>p, DownDoneFacts
  <2>3. ~disturbed' => (left'.sawEnd => left.sawEnd
                           \/ (right'.ended /\ p[0] = right.sent))
    BY <1>e, <1>t, <2>2
  <2> QED BY <1>p, <1>e, <2>1, <2>3, DownKeeps
<1>11. CASE TargetReads
  <2>1. /\ right' = Got(right, Head(up[Egress].bytes)) /\ up[Egress].bytes # <<>>
        /\ up' = Taken(up, Egress) /\ UNCHANGED <<nodeVars, down, left, disturbed>>
    BY <1>11 DEF TargetReads, Got, Taken, EndsUnchanged
  <2>2. Head(up[Egress].bytes) \in 1..MaxSent
    BY <1>t, <2>1, TakeFacts DEF WaysType
  <2>3. right'.sent = right.sent /\ right'.ended = right.ended
    BY <1>t, <2>1, <2>2, GotFacts
  <2> QED BY <1>e, <2>1, <2>3
<1>12. CASE ClientSends
  <2>1. /\ left' = Sent(left) /\ left.sent < MaxSent
        /\ UNCHANGED <<nodeVars, down, right, disturbed>>
    BY <1>12 DEF ClientSends, Send, Sent, EndsUnchanged
  <2>2. left'.got = left.got /\ left'.sawEnd = left.sawEnd
    BY <1>t, <2>1, SentFacts
  <2> QED BY <1>e, <2>1, <2>2
<1>13. CASE TargetSeesEnd
  <2>1. right' = Saw(right) /\ UNCHANGED <<nodeVars, down, left, disturbed>>
    BY <1>13 DEF TargetSeesEnd, Saw, EndsUnchanged
  <2>2. right'.sent = right.sent /\ right'.ended = right.ended
    BY <1>t, <2>1, SawFacts
  <2> QED BY <1>e, <2>1, <2>2
<1>14. CASE ClientSeesEnd
  <2>1. /\ left' = Saw(left) /\ UNCHANGED <<nodeVars, down, right, disturbed>>
        /\ EndReached(down[0])
    BY <1>14 DEF ClientSeesEnd, Saw, EndsUnchanged
  <2>2. left'.got = left.got
    BY <1>t, <2>1, SawFacts
  <2> QED BY <1>e, <2>1, <2>2
<1>15. CASE TargetEnds
  <2>1. /\ right' = Over(right) /\ down' = Ended(down, Egress)
        /\ UNCHANGED <<nodeVars, left, disturbed>>
    BY <1>15 DEF TargetEnds, Over, Ended, EndsUnchanged
  <2>2. \A c \in Conns : /\ down'[c].bytes = down[c].bytes /\ down'[c].shut = down[c].shut
                         /\ down'[c].fin => down[c].fin \/ c = Egress
    BY <1>t, <2>1, EndedFacts
  <2>3. right'.sent = right.sent /\ right'.ended /\ p[Egress + 1] = right.sent
    BY <1>t, <1>f, <1>w, <2>1, OverFacts DEF Flow
  <2>4. Done("down")' = Done("down")
    BY <2>1 DEF Done, nodeVars
  <2> QED BY <1>p, <2>1, <2>2, <2>3, <2>4, DownKeeps
<1>16. CASE ClientEnds
  <2>1. left' = Over(left) /\ UNCHANGED <<nodeVars, down, right, disturbed>>
    BY <1>16 DEF ClientEnds, Over, EndsUnchanged
  <2>2. left'.got = left.got /\ left'.sawEnd = left.sawEnd
    BY <1>t, <2>1, OverFacts
  <2> QED BY <1>e, <2>1, <2>2
<1>17. CASE TargetCloses
  <2>1. /\ right' = Gone(right) /\ RightCloses(Egress) /\ (disturbed => disturbed')
        /\ UNCHANGED <<nodeVars, left>>
    BY <1>17 DEF TargetCloses, Gone
  <2>2. /\ down'[Egress].bytes = down[Egress].bytes
        /\ down'[Egress].shut = down[Egress].shut
        /\ \A c \in Conns \ {Egress} : down'[c] = down[c]
    BY <1>t, <2>1, RightClosesFacts
  <2>3. \A c \in Conns : /\ down'[c].bytes = down[c].bytes /\ down'[c].shut = down[c].shut
                         /\ down'[c].fin => down[c].fin \/ c = Egress
    BY <2>2
  <2>4. right'.sent = right.sent /\ right'.ended /\ p[Egress + 1] = right.sent
    BY <1>t, <1>f, <1>w, <2>1, GoneFacts DEF Flow
  <2>5. Done("down")' = Done("down")
    BY <2>1 DEF Done, nodeVars
  <2> QED BY <1>p, <2>1, <2>3, <2>4, <2>5, DownKeeps
<1>18. CASE ClientCloses
  <2>1. /\ left' = Gone(left) /\ LeftCloses(0)
        /\ disturbed' = (disturbed \/ ~left.sawEnd) /\ UNCHANGED <<nodeVars, right>>
    BY <1>18 DEF ClientCloses, Gone
  <2>2. /\ down'[0].bytes = <<>> /\ down'[0].shut
        /\ down'[0].fin = down[0].fin
        /\ \A c \in Conns \ {0} : down'[c] = down[c]
    BY <1>t, <2>1, LeftClosesFacts
  <2>3. ~disturbed' => down[0].bytes = <<>>
    BY <1>p, <1>t, <2>1, DownDoneFacts
  <2>4. \A c \in Conns :
           /\ \/ down'[c].bytes = down[c].bytes /\ (down[c].shut => down'[c].shut)
              \/ /\ down'[c].bytes = <<>> /\ down'[c].shut
                 /\ ~disturbed' => down[c].bytes = <<>>
           /\ down'[c].fin => down[c].fin
    BY <2>2, <2>3
  <2>5. left'.got = left.got /\ left'.sawEnd = left.sawEnd
    BY <1>t, <2>1, GoneFacts
  <2>6. Done("down")' = Done("down")
    BY <2>1 DEF Done, nodeVars
  <2> QED BY <1>p, <2>1, <2>4, <2>5, <2>6, DownKeeps
<1>19. CASE UNCHANGED vars
  BY <1>19, <1>e DEF vars, nodeVars
<1> QED BY <1>1, <1>2, <1>3, <1>4, <1>5, <1>6, <1>7, <1>8, <1>9, <1>10, <1>11, <1>12,
           <1>13, <1>14, <1>15, <1>16, <1>17, <1>18, <1>19 DEF Next, NodeRuns, Reads

----------------------------------------------------------------------------
(* The whole *)

LEMMA FlowInit == Init => FlowInv
<1> SUFFICES ASSUME Init PROVE FlowInv
  OBVIOUS
<1> DEFINE p == [k \in Places |-> 0]
<1>0. MaxSent \in Nat /\ Capacity \in Nat /\ MaxSent > 0
  BY BoundsAssumption
<1>1. /\ p \in Positions
      /\ \A k \in Places : p[k] = 0
  BY <1>0 DEF Positions
<1>2. Seg(0, 0) = <<>>
  BY SegFacts
<1>3. /\ <<>> \in Seq(1..MaxSent) /\ Len(<<>>) = 0
  OBVIOUS
<1>4. Quiet \in DirectionType /\ Silent \in EndType
  BY <1>0, <1>3 DEF Quiet, Silent, DirectionType, EndType
<1>5. phase \in [Nodes -> Phases] /\ copying \in [Nodes -> SUBSET {"up", "down"}]
      /\ \A n \in Nodes : copying[n] = {} /\ phase[n] # "relay"
  BY DEF Init, Phases
<1>6. TypeOK
  <2>1. Len(Quiet.bytes) <= Capacity
    BY <1>0, <1>3 DEF Quiet
  <2> QED BY <1>4, <1>5, <2>1 DEF Init, TypeOK, Phases
<1>7. IdleInv
  BY PathAssumption DEF Init, IdleInv, Nodes
<1>8. Done("up") = {} /\ Done("down") = {}
  BY <1>5 DEF Done
<1> HIDE DEF p
<1>9. ASSUME NEW way, IsWay(way), NEW w, \A c \in Conns : w[c] = Quiet
      PROVE  Flow(way, w, Silent, Silent, FALSE, {}, p)
  <2>1. /\ p[way.first] = 0 /\ p[way.last] = 0
        /\ \A c \in Conns : p[way.in[c]] = 0 /\ p[way.out[c]] = 0
    BY <1>1, <1>9 DEF IsWay
  <2>2. /\ Quiet.bytes = <<>> /\ ~Quiet.fin
        /\ Silent.sent = 0 /\ Silent.got = <<>> /\ ~Silent.sawEnd
    BY DEF Quiet, Silent
  <2> QED BY <1>2, <1>9, <2>1, <2>2 DEF Flow
<1>10. /\ \A c \in Conns : up[c] = Quiet /\ down[c] = Quiet
       /\ left = Silent /\ right = Silent /\ disturbed = FALSE
  BY DEF Init
<1>11. UpFlow(p) /\ DownFlow(p)
  BY <1>8, <1>9, <1>10, WaysAreWays DEF UpFlow, DownFlow
<1> QED BY <1>1, <1>6, <1>7, <1>11 DEF FlowInv, Ups, Downs

LEMMA FlowStep == FlowInv /\ [Next]_vars => FlowInv'
BY TypeStep, UpStep, DownStep DEF FlowInv

\* An end that sees the stream end has all that the other end sent, if nothing
\* broke the session off, and a prefix of it in any case: on a path of any length,
\* whatever the ends send and the connections hold.
THEOREM Whole == Spec => []EndMeansAll
<1>1. FlowInv => EndMeansAll
  <2> SUFFICES ASSUME FlowInv PROVE EndMeansAll
    OBVIOUS
  <2>1. PICK p \in Positions : UpFlow(p)
    BY DEF FlowInv, Ups
  <2>2. PICK q \in Positions : DownFlow(q)
    BY DEF FlowInv, Downs
  <2>3. TypeOK /\ left.sent \in Nat /\ right.sent \in Nat
    BY EndFields DEF FlowInv, TypeOK
  <2>4. Egress \in Conns /\ 0 \in Conns
    BY PathFacts
  <2>5. /\ UpWay.last = Egress + 1 /\ UpWay.out[Egress] = Egress + 1
        /\ DownWay.last = 0 /\ DownWay.out[0] = 0
        /\ IsWay(UpWay) /\ IsWay(DownWay)
    BY <2>4, WaysAreWays DEF UpWay, DownWay
  <2>6. /\ p[UpWay.out[Egress]] <= p[UpWay.in[Egress]]
        /\ p[UpWay.in[Egress]] <= left.sent
        /\ q[DownWay.out[0]] <= q[DownWay.in[0]] /\ q[DownWay.in[0]] <= right.sent
    BY <2>1, <2>2, <2>4 DEF UpFlow, DownFlow, Flow
  <2>7. p[UpWay.last] <= left.sent /\ q[DownWay.last] <= right.sent
    BY <2>1, <2>2, <2>3, <2>4, <2>5, <2>6, PlaceFacts, BoundsAssumption
  <2>8. /\ IsPrefix(right.got, Bytes(left.sent))
        /\ ~disturbed /\ right.sawEnd => right.got = Bytes(left.sent)
    BY <2>1, <2>3, <2>5, <2>7, FlowMeans DEF UpFlow
  <2>9. /\ IsPrefix(left.got, Bytes(right.sent))
        /\ ~disturbed /\ left.sawEnd => left.got = Bytes(right.sent)
    BY <2>2, <2>3, <2>5, <2>7, FlowMeans DEF DownFlow
  <2> QED BY <2>3, <2>8, <2>9 DEF EndMeansAll
<1> QED BY <1>1, FlowInit, FlowStep, PTL DEF Spec
=============================================================================
