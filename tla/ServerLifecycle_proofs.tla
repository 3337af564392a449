------------------------ MODULE ServerLifecycle_proofs ------------------------
(***************************************************************************)
(* Theorems about ServerLifecycle, for any number of runs, messages, stops *)
(* and failures.                                                           *)
(***************************************************************************)
EXTENDS ServerLifecycle, BrokerListener_proofs

LEMMA StepIsBStep == [Next]_vars => BStep \/ UNCHANGED bvars
  BY DEF Next, vars, BStep, Start, RunStep, Bind, BindFails, StopSeen, Drained, Interrupt, Runs

-----------------------------------------------------------------------------
(* Type correctness.                                                        *)
LEMMA TypeInit == Init => STypeOK
  <1> SUFFICES ASSUME Init PROVE STypeOK
    OBVIOUS
  <1>1. BTypeOK
    BY BTypeInit DEF Init
  <1>2. rseen \in [Runs -> 0 .. version]
    BY ListenerBounds DEF Init, BInit, Runs
  <1> QED BY <1>1, <1>2 DEF Init, STypeOK

LEMMA TypeStep == STypeOK /\ [Next]_vars => STypeOK'
  <1> SUFFICES ASSUME STypeOK, [Next]_vars PROVE STypeOK'
    OBVIOUS
  <1>1. BTypeOK'
    <2>1. CASE UNCHANGED bvars
      BY <2>1 DEF bvars, STypeOK, BTypeOK
    <2> QED BY <2>1, BTypeStep, StepIsBStep DEF STypeOK
  <1>2. 0 .. version \subseteq 0 .. version' /\ version \in Nat /\ version' \in Nat
    BY StepIsBStep, VersionGrows, ListenerBounds DEF STypeOK, BTypeOK
  <1>3. /\ run' \in [Runs -> {"idle", "binding", "serving", "draining", "returned", "failed"}]
        /\ interrupted' \subseteq Runs
    BY DEF STypeOK, Next, vars, rvars, Start, RunStep, Bind, BindFails, StopSeen, Drained,
         Interrupt, Goes, Runs
  <1>4. rseen' \in [Runs -> 0 .. version']
    <2>1. \/ UNCHANGED rseen
          \/ \E r \in Runs : rseen' = [rseen EXCEPT ![r] = version] /\ version' = version
      BY DEF Next, vars, rvars, Start, RunStep, Bind, BindFails, StopSeen, Drained, Interrupt, Spawn
    <2> QED BY <1>2, <2>1 DEF STypeOK
  <1> QED BY <1>1, <1>3, <1>4 DEF STypeOK

(* The variables keep their types.                                          *)
THEOREM STypes == Spec => []STypeOK
  <1> QED BY TypeInit, TypeStep, PTL DEF Spec

-----------------------------------------------------------------------------
(* Across reconnections, stops and restarts, a listener dispatches in the   *)
(* order of the broker and each message once.                               *)
LEMMA OrderInvariant == Spec => [](STypeOK /\ OrderInv)
  <1>1. STypeOK /\ OrderInv /\ [Next]_vars => (STypeOK /\ OrderInv)'
    <2>1. OrderInv /\ UNCHANGED bvars => OrderInv'
      BY DEF OrderInv, bvars
    <2> QED BY <2>1, TypeStep, OrderStep, StepIsBStep DEF STypeOK
  <1>2. Init => OrderInv
    BY OrderInit DEF Init
  <1> QED BY <1>1, <1>2, TypeInit, PTL DEF Spec

THEOREM ListenersHearTheTopic == Spec => DeliversAsTopic
  <1>1. STypeOK /\ OrderInv /\ [Next]_vars => [T!TNext]_(T!tvars)
    BY HearStep, StepIsBStep DEF STypeOK
  <1>2. Init => T!TInit
    BY HearInit DEF Init
  <1> QED BY <1>1, <1>2, OrderInvariant, PTL DEF Spec, DeliversAsTopic, T!TSpec

(* Nothing that reached a subscription is dropped: not behind a malformed   *)
(* message, not by a reconnection, not by the stop of another run.          *)
THEOREM NothingIsMissed == Spec => []SubscribersMissNothing
  <1>1. Init => DueInv
    BY DueInit DEF Init
  <1>2. STypeOK /\ DueInv /\ [Next]_vars => DueInv'
    <2>1. DueInv /\ UNCHANGED bvars => DueInv'
      BY DEF DueInv, bvars
    <2> QED BY <2>1, DueStep, StepIsBStep DEF STypeOK
  <1>3. STypeOK /\ DueInv => SubscribersMissNothing
    <2> SUFFICES ASSUME STypeOK, DueInv, NEW l \in Listeners, listener[l] # "ended",
                        NEW n \in due[l] \ Malformed
                 PROVE  \/ \E i \in DOMAIN dispatched[l] : dispatched[l][i] = n
                        \/ \E i \in DOMAIN stream[l] : stream[l][i] = n
      BY DEF SubscribersMissNothing
    <2>1. DOMAIN dispatched[l] = 1 .. Len(dispatched[l]) /\ DOMAIN stream[l] = 1 .. Len(stream[l])
      BY LenProperties DEF STypeOK, BTypeOK
    <2> QED BY <2>1 DEF DueInv, Holds
  <1> QED BY <1>1, <1>2, <1>3, STypes, PTL DEF Spec

-----------------------------------------------------------------------------
(* stop() and the listeners.  A listener that has been polled has seen the  *)
(* version of then; one that has not has dispatched nothing; a run past     *)
(* serving that was not interrupted has seen a later version than it        *)
(* marked; and the port is held by one run at a time.                       *)
StopInv ==
  /\ \A l \in Listeners :
       /\ seen[l] = first[l]
       /\ listener[l] \in {"none", "spawned"} => dispatched[l] = << >>
       /\ run[l] = "idle" => listener[l] = "none"
       /\ run[l] \in {"draining", "returned"} /\ l \notin interrupted => rseen[l] < version
  /\ \A q, r \in Runs : Serving(q) /\ Serving(r) => q = r

LEMMA StopInit == Init => StopInv
  BY DEF Init, BInit, StopInv, Serving, Runs

LEMMA StopStep == STypeOK /\ StopInv /\ StopReachesListener /\ [Next]_vars =>
                    StopInv' /\ StopReachesListener'
  <1> SUFFICES ASSUME STypeOK, StopInv, StopReachesListener, [Next]_vars
               PROVE  StopInv' /\ StopReachesListener'
    OBVIOUS
  <1> USE DEF STypeOK, BTypeOK, StopInv, StopReachesListener, Listening, Serving, Runs
  <1>1. version \in Nat /\ \A l \in Listeners : seen[l] \in 0 .. version /\ rseen[l] \in 0 .. version
    BY ListenerBounds
  <1>2. CASE Stop /\ UNCHANGED rvars
    BY <1>1, <1>2 DEF Stop, rvars
  <1>3. ASSUME NEW r \in Runs, Start(r) PROVE StopInv' /\ StopReachesListener'
    BY <1>1, <1>3 DEF Start, Goes, Spawn
  <1>4. ASSUME NEW r \in Runs, Bind(r) \/ BindFails(r) PROVE StopInv' /\ StopReachesListener'
    <2>1. UNCHANGED <<version, seen, first, listener, dispatched, rseen, interrupted>>
      BY <1>4 DEF Bind, BindFails, Goes, bvars
    <2>2. ASSUME NEW q \in Runs, run'[q] \in {"draining", "returned", "idle"} PROVE run[q] = run'[q]
      BY <1>4, <2>2 DEF Bind, BindFails, Goes
    <2>3. \A p, q \in Runs : (Serving(p) /\ Serving(q) => p = q)'
      BY <1>4 DEF Bind, BindFails, Goes
    <2> QED BY <2>1, <2>2, <2>3
  <1>5. ASSUME NEW r \in Runs, StopSeen(r) PROVE StopInv' /\ StopReachesListener'
    <2>1. rseen[r] < version
      BY <1>1, <1>5 DEF StopSeen
    <2> QED BY <1>1, <1>5, <2>1 DEF StopSeen, Goes, bvars
  <1>6. ASSUME NEW r \in Runs, Drained(r) \/ Interrupt(r) PROVE StopInv' /\ StopReachesListener'
    <2>1. UNCHANGED <<version, seen, first, listener, dispatched, rseen>>
      BY <1>6 DEF Drained, Interrupt, Goes, bvars
    <2>2. interrupted \subseteq interrupted' /\ run'[r] # "serving"
      BY <1>6 DEF Drained, Interrupt, Goes
    <2>3. \A q \in Runs : q # r => run'[q] = run[q]
      BY <1>6 DEF Drained, Interrupt, Goes
    <2>4. run[r] = "draining" \/ r \in interrupted'
      BY <1>6 DEF Drained, Interrupt, Goes
    <2>5. run'[r] \in {"draining", "returned"}
      BY <1>6 DEF Drained, Interrupt, Goes
    <2>6. \A q \in Runs : /\ run'[q] = "idle" => run[q] = "idle"
                          /\ run'[q] = "serving" => run[q] = "serving"
                          /\ run'[q] \in {"draining", "returned"} /\ q \notin interrupted' =>
                               run[q] \in {"draining", "returned"} /\ q \notin interrupted
      BY <2>2, <2>3, <2>4, <2>5
    <2>7. StopInv'
      BY <2>1, <2>6
    <2>8. StopReachesListener'
      BY <2>1, <2>6
    <2> QED BY <2>7, <2>8
  <1>7. ASSUME NEW l \in Listeners, Listen(l), UNCHANGED rvars
        PROVE  StopInv' /\ StopReachesListener'
    BY <1>1, <1>7 DEF Listen, rvars
  <1>8. ASSUME NEW l \in Listeners, Dispatch(l), UNCHANGED rvars
        PROVE  StopInv' /\ StopReachesListener'
    BY <1>8 DEF Dispatch, rvars
  <1>9. ASSUME NEW l \in Listeners, UNCHANGED rvars,
               ConnectFails(l) \/ Wakes(l) \/ Subscribe(l) \/ ShutdownSeen(l) \/ StreamEnds(l)
        PROVE  StopInv' /\ StopReachesListener'
    BY <1>9 DEF ConnectFails, Wakes, Subscribe, ShutdownSeen, StreamEnds, rvars
  <1>10. CASE UNCHANGED <<version, seen, first, listener, dispatched, rvars>>
    BY <1>10 DEF rvars
  <1> QED BY <1>2, <1>3, <1>4, <1>5, <1>6, <1>7, <1>8, <1>9, <1>10
          DEF Next, RunStep, BrokerStep, ListenerStep, Publish, LoseConnection, vars, bvars, rvars

LEMMA StopInvariant == Spec => [](STypeOK /\ StopInv /\ StopReachesListener)
  <1>1. Init => StopReachesListener
    BY DEF Init, BInit, StopReachesListener, Runs
  <1> QED BY <1>1, TypeInit, TypeStep, StopInit, StopStep, PTL DEF Spec

(* A run ended by stop() leaves no listener that will not hear of a stop,   *)
(* whatever the listener was doing, unless it had not been polled yet.      *)
THEOREM StopReaches == Spec => []StopReachesListener
  <1> QED BY StopInvariant, PTL

(* Two listeners of one server dispatch the same message only if one is     *)
(* left over from a run that could not bind, was interrupted or has been    *)
(* stopped.                                                                 *)
THEOREM TwinsLeftOver == Spec => []TwinsAreLeftovers
  <1>1. STypeOK /\ StopInv /\ StopReachesListener => TwinsAreLeftovers
    <2> SUFFICES ASSUME STypeOK, StopInv, StopReachesListener,
                        NEW l \in Listeners, NEW k \in Listeners, l # k,
                        NEW i \in DOMAIN dispatched[l], NEW j \in DOMAIN dispatched[k],
                        ~ Leftover(l), ~ Leftover(k)
                 PROVE  FALSE
      BY DEF TwinsAreLeftovers
    <2>1. ASSUME NEW m \in Listeners, dispatched[m] # << >>, ~ Leftover(m) PROVE Serving(m)
      <3>1. listener[m] \notin {"none", "spawned", "ended"} /\ m \notin interrupted
            /\ run[m] \notin {"idle", "binding", "failed"}
        BY <2>1 DEF StopInv, Leftover
      <3>2. Listening(m)
        BY <3>1 DEF Listening, STypeOK, BTypeOK
      <3>3. run[m] \notin {"draining", "returned"}
        BY <2>1, <3>1, <3>2 DEF StopReachesListener, Leftover, Runs
      <3> QED BY <3>1, <3>3 DEF Serving, STypeOK, Runs
    <2>2. dispatched[l] # << >> /\ dispatched[k] # << >>
      <3>1. DOMAIN << >> = {}
        OBVIOUS
      <3> QED BY <3>1
    <2> QED BY <2>1, <2>2 DEF StopInv, Runs
  <1> QED BY <1>1, StopInvariant, PTL
=============================================================================
