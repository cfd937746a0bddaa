----------------------------- MODULE MCNPChain -----------------------------
(* Model-checking instances of NPChain. *)
EXTENDS NPChain

CONSTANTS relay, egress, target

Hop(form, host, port) == [form |-> form, host |-> host, port |-> port,
                          len |-> IF form = "ipv4" THEN 4 ELSE 16]

\* A chain for an ingress and an egress node, an empty one, one whose target is
\* an IPv4 address in IPv6 with a port that is too large, and one whose length
\* does not fit the count.
MCChains == {<<Hop("ipv4", egress, 1), Hop("domain", target, 2)>>,
             <<>>,
             <<Hop("mapped", egress, 5)>>,
             <<Hop("ipv6", relay, 1), Hop("ipv4", egress, 1), Hop("domain", target, 2)>>}

\* The documented chain, for an ingress, a relay and an egress node.
DocChains == {<<Hop("ipv4", relay, 1), Hop("ipv4", egress, 1), Hop("domain", target, 2)>>}
=============================================================================
