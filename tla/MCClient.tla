------------------------------- MODULE MCClient -------------------------------
(* Instances of Client for TLC.  A pong, which is read and raises, is left  *)
(* to the proofs.                                                           *)
EXTENDS Client

SomeFrames == {"data", "ping", "close", "large"}
=============================================================================
