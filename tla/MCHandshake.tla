----------------------------- MODULE MCHandshake -----------------------------
(* Instances of Handshake for TLC: routes with two, one and no              *)
(* authenticators and each kind of connect("before") callback.              *)
EXTENDS Handshake

CONSTANTS r1, r2, graphql

TwoRequests == {r1, r2}
OneProtocol == {graphql}

Kind(auth, before) == [auth |-> auth, before |-> before]

SomeKinds == {Kind(2, "sync"), Kind(1, "async"), Kind(0, "none")}
=============================================================================
