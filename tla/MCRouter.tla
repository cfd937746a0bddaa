------------------------------ MODULE MCRouter ------------------------------
(* Model-checking instances of Router. *)
EXTENDS Router, TLC

Out(name, group, version) == [name |-> name, group |-> group, version |-> version]
ToOutbound(who, name) ==
    [matches |-> who, outbound |-> name, group |-> "", strategy |-> ""]
ToGroup(who, group, strategy) ==
    [matches |-> who, outbound |-> "", group |-> group, strategy |-> strategy]
Config(outs, rs) == [outbounds |-> outs, rules |-> rs]

\* The session "pinned" has an outbound of its own; the rest share a group.
PinnedFirst ==
    Config({Out("p", "", 1), Out("a", "g", 1), Out("b", "g", 1)},
           <<ToOutbound({"pinned"}, "p"), ToGroup({"pinned", "other"}, "g", "round-robin")>>)

PinnedConfigs ==
    {PinnedFirst,
     \* p and a change, b goes
     Config({Out("p", "", 2), Out("a", "g", 2)},
            <<ToOutbound({"pinned"}, "p"), ToGroup({"pinned", "other"}, "g", "random")>>),
     \* a changes its group, b stays, p goes with its rule
     Config({Out("a", "h", 1), Out("b", "g", 1)},
            <<ToGroup({"pinned"}, "h", "first"), ToGroup({"other"}, "g", "least-load")>>)}
=============================================================================
