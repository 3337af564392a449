---------------------------- MODULE MCHandleClient ----------------------------
(* Instances of HandleClient for TLC. *)
EXTENDS HandleClient, TLC

CONSTANTS c1, c2, g1, none, py, broker

OneConn    == {c1}
OneGroup   == {g1}
AllInG1    == [c \in Conns |-> g1]
GilOnly    == {py}
OneList    == {<<g1>>}
Nobody     == {}
AllThreads == {"worker", "loop"}

Sending    == {"send", "broadcast"}

R(after, receive, disconnect) ==
  ("after" :> after) @@ ("receive" :> receive) @@ ("disconnect" :> disconnect)

MixedRoutes == {R("sync", "async", "sync"), R("async", "sync", "async")}
=============================================================================
