--------------------------- MODULE ServerLifecycle ---------------------------
(***************************************************************************)
(* start and stop of one WebsocketServer (src/src/server.rs) and the       *)
(* listeners start spawns (BrokerListener).  A run is a call of start(),   *)
(* from whatever Python thread; its listener has the same name.  The       *)
(* runtime belongs to the server and outlives every run.                   *)
(***************************************************************************)
EXTENDS BrokerListener

VARIABLES
  run,          \* what each call of start() does next
  rseen,        \* the version runserver has marked as seen
  interrupted   \* history: runs ended by Ctrl-C

rvars == <<run, rseen, interrupted>>
vars  == <<bvars, rvars>>

Runs == Listeners

Init ==
  /\ BInit("none")
  /\ run = [r \in Runs |-> "idle"]
  /\ rseen = [r \in Runs |-> 0]
  /\ interrupted = {}

-----------------------------------------------------------------------------
Goes(r, from, to) ==
  /\ run[r] = from
  /\ run' = [run EXCEPT ![r] = to]
  /\ UNCHANGED interrupted

(* start(): runserver marks its receiver (a stop() until here is forgotten) *)
(* and spawns the listener; the order of a stop() and the spawn does not    *)
(* matter, for the listener marks its own receiver when it is polled.       *)
Start(r) ==
  /\ Goes(r, "idle", "binding")
  /\ rseen' = [rseen EXCEPT ![r] = version]
  /\ Spawn(r)

(* The port is free unless a run of this server, or another process, has it.*)
Serving(r) == run[r] = "serving"

(* Mutant: the port can be shared.                                          *)
Bind_Reuse(r) ==
  /\ Goes(r, "binding", "serving")
  /\ UNCHANGED <<bvars, rseen>>

Bind(r) ==
  /\ \A q \in Runs : ~ Serving(q)
  /\ Goes(r, "binding", "serving")
  /\ UNCHANGED <<bvars, rseen>>

BindFails(r) ==
  /\ Goes(r, "binding", "failed")
  /\ UNCHANGED <<bvars, rseen>>

(* The two branches of with_graceful_shutdown; the socket is closed, and    *)
(* start() returns when the requests under way are answered.                *)
StopSeen(r) ==
  /\ rseen[r] # version
  /\ Goes(r, "serving", "draining")
  /\ UNCHANGED <<bvars, rseen>>

Interrupt(r) ==
  /\ run[r] = "serving"
  /\ run' = [run EXCEPT ![r] = "draining"]
  /\ interrupted' = interrupted \cup {r}
  /\ UNCHANGED <<bvars, rseen>>

Drained(r) ==
  /\ Goes(r, "draining", "returned")
  /\ UNCHANGED <<bvars, rseen>>

-----------------------------------------------------------------------------
RunStep(r) ==
  \/ Bind(r) \/ BindFails(r) \/ StopSeen(r) \/ Drained(r)

Next ==
  \/ \E r \in Runs : Start(r) \/ RunStep(r) \/ Interrupt(r)
  \/ /\ Stop \/ Publish \/ BrokerStep \/ \E l \in Listeners : ListenerStep(l)
     /\ UNCHANGED rvars

(* runserver is polled by block_on.                                         *)
Spec == Init /\ [][Next]_vars /\ ListenerFairness /\ \A r \in Runs : WF_vars(RunStep(r))

-----------------------------------------------------------------------------
(* Type invariant.                                                          *)
STypeOK ==
  /\ BTypeOK
  /\ run \in [Runs -> {"idle", "binding", "serving", "draining", "returned", "failed"}]
  /\ rseen \in [Runs -> 0 .. version]
  /\ interrupted \subseteq Runs

Listening(l) == listener[l] \in {"connecting", "sleeping", "subscribed"}

(* A run that stop() has ended leaves no listener behind that does not know *)
(* of a stop, whatever it was doing then: unless the listener task had not  *)
(* been polled yet when the stop came.                                      *)
StopReachesListener ==
  \A r \in Runs :
    run[r] \in {"draining", "returned"} /\ r \notin interrupted /\ Listening(r) =>
      seen[r] # version \/ first[r] > rseen[r]

(* A message is dispatched twice to the connections of a server only by a   *)
(* listener whose run could not bind or was interrupted, or whose run was   *)
(* stopped before the listener was polled, or that has a stop() to notice   *)
(* or has noticed it since.                                                 *)
Leftover(l) ==
  \/ run[l] \in {"binding", "failed"} \/ l \in interrupted
  \/ seen[l] # version \/ first[l] > rseen[l] \/ listener[l] = "ended"

TwinsAreLeftovers ==
  \A l, k \in Listeners : \A i \in DOMAIN dispatched[l], j \in DOMAIN dispatched[k] :
    l # k /\ dispatched[l][i] = dispatched[k][j] => Leftover(l) \/ Leftover(k)

(* A listener that has been told to end does so, also when it is told while *)
(* it connects or sleeps.                                                   *)
ListenersEnd ==
  \A l \in Listeners : Listening(l) /\ seen[l] # version ~> listener[l] = "ended"
=============================================================================
