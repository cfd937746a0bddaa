--------------------------- MODULE MCConfigWatch ---------------------------
(* Model-checking instance of ConfigWatch. *)
EXTENDS ConfigWatch, TLC

CONSTANTS a1, a2

Cfg(v1, v2, o) == [inbound |-> a1 :> v1 @@ a2 :> v2, outbound |-> o]

\* From two inbounds: one updated and the other removed, with another outbound,
\* and back, where one is added.
MCFirst == Cfg(1, 1, 1)
MCConfigs == {Cfg(2, 0, 2), Cfg(1, 1, 1)}

TwoPorts == a1 :> 1 @@ a2 :> 2

\* The first inbound is QUIC in its second version; what else there is, is TCP.
MCQuic == {<<a1, 2>>}

Env(busy, slow, meets) ==
    [busyPorts |-> busy, slowStops |-> slow, stopMeetsReload |-> meets]

\* A port may be taken and stops may time out, with a Stop during a reload and
\* without; or nothing goes wrong.
MCEnvs == {Env({1}, TRUE, TRUE), Env({1}, TRUE, FALSE), Env({}, FALSE, FALSE)}
=============================================================================
