-------------------------- MODULE MCServerLifecycle --------------------------
(* Instances of ServerLifecycle for TLC: a server that is started twice.    *)
EXTENDS ServerLifecycle

CONSTANTS s1, s2

TwoRuns  == {s1, s2}
FirstIs == {1}
=============================================================================
