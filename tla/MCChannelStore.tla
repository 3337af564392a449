---------------------------- MODULE MCChannelStore ----------------------------
(* Instances of ChannelStore for TLC. *)
EXTENDS ChannelStore, TLC

CONSTANTS c1, c2, g1, g2, none, py, broker

TwoConns   == {c1, c2}
OneGroup   == {g1}
TwoGroups  == {g1, g2}

(* One connection comes by a route with a default group, one without.       *)
MixedDefaults == (c1 :> none) @@ (c2 :> g1)
AllInG1       == [c \in Conns |-> g1]

GilOnly     == {py}
GilAndBroker == {py, broker}

OneList  == {<<g1>>}
BothLists == {<<g1>>, <<g2, g1>>}

Worker == {"worker"}
AllThreads == {"worker", "loop"}
Nobody == {}
OnlyC1 == {c1}

Broadcasting == {"broadcast"}
Membership   == {"join", "leave", "broadcast"}
=============================================================================
