------------------------------ MODULE MCAgent ------------------------------
(* Model-checking instances of Agent. *)
EXTENDS Agent, TLC

CONSTANTS a1, a2

Cfg(v1, v2, o) == [inbound |-> a1 :> v1 @@ a2 :> v2, outbound |-> o]

\* From two inbounds: one updated, added, removed, or all at once.
MCFirst == Cfg(1, 1, 1)
MCConfigs == {Cfg(2, 2, 2), Cfg(2, 1, 1), Cfg(1, 0, 1), Cfg(2, 0, 2), Cfg(0, 2, 0),
              Cfg(1, 1, 1)}

TwoPorts == a1 :> 1 @@ a2 :> 2

\* The second inbound is QUIC in its second version, and TCP in the first.
MCQuic == {<<a2, 2>>}

Env(busy, slow, meets) ==
    [busyPorts |-> busy, slowStops |-> slow, stopMeetsReload |-> meets]

\* Everything may go wrong, only ports may be taken, nothing goes wrong.
MCEnvs == {Env({1, 2}, TRUE, TRUE), Env({1, 2}, FALSE, TRUE), Env({}, FALSE, TRUE)}

\* Only that Stop comes during a reload.
RaceEnvs == {Env({}, FALSE, TRUE)}
=============================================================================
