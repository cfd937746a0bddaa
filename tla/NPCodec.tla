------------------------------ MODULE NPCodec ------------------------------
(***************************************************************************)
(* internal/protocol/npchain/codec.go: the frame that carries a session    *)
(* and its chain of hops to the next node.  A hop is a record of what      *)
(* net.SplitHostPort, strconv.Atoi and net.ParseIP see in its string: form *)
(* is the kind of host ("mapped" is an IPv6 spelling of an IPv4 address,   *)
(* "invalid" a string that does not split or whose port is no number),     *)
(* host the address or name it denotes, len the bytes of a domain name.    *)
(* Magic, version and session ID travel unchanged and are left out.        *)
(***************************************************************************)
EXTENDS Integers, Sequences

CONSTANTS
    CountMod,   \* the hop count of a frame is a byte: 256 in the code
    PortMod,    \* a port is 16 bits wide: 65536 in the code
    MaxAddr     \* longest address an entry can hold: 30 in the code

ASSUME WidthAssumption == CountMod \in Nat \ {0} /\ PortMod \in Nat \ {0}
ASSUME AddressAssumption == MaxAddr \in Nat /\ MaxAddr >= 16

\* The empty target of a session without hops: "" has no port.
NoHop == [form |-> "invalid", host |-> "", len |-> 0, port |-> 0]

----------------------------------------------------------------------------
(* Encoding *)

\* net.IP.To4 takes a mapped address for the IPv4 address it is.
AddrType(hop) == IF hop.form = "mapped" THEN "ipv4" ELSE hop.form

AddrLen(hop) ==
    CASE AddrType(hop) = "ipv4" -> 4
      [] AddrType(hop) = "ipv6" -> 16
      [] OTHER                  -> hop.len

Encodable(hop) == hop.form # "invalid" /\ AddrLen(hop) <= MaxAddr

\* The port is converted, not checked: one that is negative or too large wraps.
EncodeHop(hop) == [type |-> AddrType(hop), port |-> hop.port % PortMod,
                   len |-> AddrLen(hop), addr |-> hop.host]

CanEncode(chain) == \A i \in DOMAIN chain : Encodable(chain[i])

\* All hops are written, their number only modulo the width of the count.
Encode(chain) == [count |-> Len(chain) % CountMod,
                  entries |-> [i \in DOMAIN chain |-> EncodeHop(chain[i])]]

----------------------------------------------------------------------------
(* Decoding *)

DecodableHop(entry) ==
    /\ entry.type \in {"ipv4", "ipv6", "domain"}
    /\ entry.type = "ipv4" => entry.len = 4
    /\ entry.type = "ipv6" => entry.len = 16

CanDecode(frame) ==
    /\ frame.count <= Len(frame.entries)
    /\ \A i \in 1..frame.count : DecodableHop(frame.entries[i])

DecodeHop(entry) == [form |-> entry.type, host |-> entry.addr, len |-> entry.len,
                     port |-> entry.port]

\* As many hops as the count says; what follows is taken for payload.
Decode(frame) == [i \in 1..frame.count |-> DecodeHop(frame.entries[i])]

----------------------------------------------------------------------------
\* A hop the frame has room for, spelled the way decodeHop spells it.
Exact(hop) ==
    /\ hop.form \in {"ipv4", "ipv6", "domain"}
    /\ hop.len = AddrLen(hop) /\ hop.len \in 0..MaxAddr
    /\ hop.port \in 0..(PortMod - 1)

\* A chain that ought to arrive as it was sent.
Carried(chain) == Len(chain) < CountMod /\ \A i \in DOMAIN chain : Exact(chain[i])
=============================================================================
