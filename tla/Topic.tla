-------------------------------- MODULE Topic --------------------------------
(***************************************************************************)
(* What broadcasting through a broker promises to each server: messages in *)
(* the order the broker took them, each at most once, possibly with gaps.  *)
(***************************************************************************)
EXTENDS Naturals, Sequences

CONSTANT Listeners

VARIABLES
  length,   \* number of messages the broker has taken
  heard     \* what each listener has handed to its server

tvars == <<length, heard>>

TInit ==
  /\ length = 0
  /\ heard = [l \in Listeners |-> << >>]

Take ==
  /\ length' = length + 1
  /\ UNCHANGED heard

Hear(l, n) ==
  /\ n \in 1 .. length
  /\ \A i \in DOMAIN heard[l] : heard[l][i] < n
  /\ heard' = [heard EXCEPT ![l] = Append(@, n)]
  /\ UNCHANGED length

TNext == Take \/ \E l \in Listeners : \E n \in 1 .. length : Hear(l, n)

TSpec == TInit /\ [][TNext]_tvars
=============================================================================
