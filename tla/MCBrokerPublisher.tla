-------------------------- MODULE MCBrokerPublisher --------------------------
(* Instances of BrokerPublisher for TLC.                                    *)
EXTENDS BrokerPublisher

CONSTANTS s1, c1, c2

OneServer  == {s1}
OneThread == {c1}
OneTask   == {c2}
BothKinds == {"redis", "amqp"}
=============================================================================
