------------------------------ MODULE Admission ------------------------------
(***************************************************************************)
(* What the handshake promises, whatever its steps: a request is accepted  *)
(* before it is admitted, and a verdict is final.  A client may leave      *)
(* before there is one.                                                    *)
(***************************************************************************)
CONSTANT Requests

VARIABLES accepted, verdict

avars == <<accepted, verdict>>

AInit ==
  /\ accepted = {}
  /\ verdict = [r \in Requests |-> "pending"]

Accept(r) ==
  /\ verdict[r] \in {"pending", "left"}
  /\ accepted' = accepted \cup {r}
  /\ UNCHANGED verdict

Decide(r, to) ==
  /\ verdict[r] = "pending"
  /\ verdict' = [verdict EXCEPT ![r] = to]
  /\ UNCHANGED accepted

ANext ==
  \E r \in Requests :
    \/ Accept(r)
    \/ r \in accepted /\ Decide(r, "admitted")
    \/ Decide(r, "refused")
    \/ Decide(r, "left")

ASpec == AInit /\ [][ANext]_avars
=============================================================================
