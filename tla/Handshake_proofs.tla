--------------------------- MODULE Handshake_proofs ---------------------------
(***************************************************************************)
(* Theorems about Handshake, for any set of requests, any routes with any  *)
(* number of authenticators, any subprotocols and any number of calls of   *)
(* create_route.                                                           *)
(***************************************************************************)
EXTENDS Handshake, TLAPS

Past == {"calling", "upgrading", "awaiting"}

NobodyKnown(r) == \A n \in 1 .. Len(asked[r]) : asked[r][n] # "user"

LastKnown(r) ==
  /\ Len(asked[r]) > 0 /\ asked[r][Len(asked[r])] = "user"
  /\ \A n \in 1 .. Len(asked[r]) : asked[r][n] = "user" => n = Len(asked[r])

(* What a request that got past authenticated() carries.                    *)
Passed(r) ==
  /\ handler[r] # 0
  /\ IF Route(r).auth = 0
       THEN asked[r] = << >> /\ incoming[r].user = 0
       ELSE /\ LastKnown(r) /\ Len(asked[r]) <= Route(r).auth
            /\ incoming[r].user = Len(asked[r])

(* The inductive invariant, for one request: what its phase and its answer  *)
(* tell of what was asked and called before.                                *)
EarlyInv(r) ==
  /\ phase[r] = "arriving" =>
       handler[r] = 0 /\ asked[r] = << >> /\ incoming[r].user = 0 /\ r \notin gone
  /\ phase[r] = "authenticating" =>
       /\ handler[r] # 0 /\ NobodyKnown(r) /\ incoming[r].user = 0
       /\ Len(asked[r]) <= Route(r).auth
  /\ phase[r] \in {"arriving", "authenticating", "calling"} => coro[r] = "none"
  /\ phase[r] # "done" => answer[r] = "none"

LateInv(r) ==
  /\ phase[r] \in Past \/ answer[r] = "switching" => Passed(r)
  /\ coro[r] # "none" => handler[r] # 0 /\ Route(r).before = "async"
  /\ phase[r] \in {"upgrading", "awaiting"} \/ answer[r] = "switching" =>
       (Route(r).before = "async" => coro[r] # "none")
  /\ phase[r] = "awaiting" \/ answer[r] = "switching" =>
       /\ \A c \in conn[r] : c.user = incoming[r].user
       /\ Route(r).before = "sync" => conn[r] = {incoming[r]}
  /\ answer[r] = "switching" => coro[r] \in {"none", "returned"}

RefusedInv(r) ==
  answer[r] = "unauthorized" =>
    /\ handler[r] # 0
    /\ \/ NobodyKnown(r) /\ Len(asked[r]) = Route(r).auth /\ coro[r] = "none"
       \/ coro[r] = "raised" /\ Route(r).before = "async"

IInv == ShakeTypeOK /\ \A r \in Requests : EarlyInv(r) /\ LateInv(r) /\ RefusedInv(r)

-----------------------------------------------------------------------------
(* Type correctness.                                                        *)
LEMMA TypeInit == Init => ShakeTypeOK
  <1> SUFFICES ASSUME Init PROVE ShakeTypeOK
    OBVIOUS
  <1>1. routes \in Seq(Kinds) /\ Len(routes) = 0
    BY DEF Init
  <1>5. /\ Len(routes) <= MaxRoutes
        /\ registry \in 0 .. Len(routes) /\ router \in 0 .. Len(routes)
    BY <1>1, RoutesAssumption DEF Init
  <1>6. inserting \subseteq 1 .. Len(routes) /\ aborted \in BOOLEAN /\ gone \subseteq Requests
    BY DEF Init
  <1>2. /\ handler \in [Requests -> 0 .. Len(routes)]
        /\ phase \in [Requests -> Phases] /\ answer \in [Requests -> Responses]
        /\ coro \in [Requests -> {"none", "running", "returned", "raised"}]
    BY <1>1 DEF Init, Phases, Responses
  <1>3. incoming \in [Requests -> Incoming] /\ conn \in [Requests -> SUBSET Incoming]
    BY DEF Init, Incoming, Chosen
  <1>4. asked \in [Requests -> Seq(Outcomes)]
    BY DEF Init
  <1> QED BY <1>1, <1>2, <1>3, <1>4, <1>5, <1>6 DEF ShakeTypeOK

LEMMA TypeStep == ShakeTypeOK /\ [Next]_vars => ShakeTypeOK'
  <1> SUFFICES ASSUME ShakeTypeOK, [Next]_vars PROVE ShakeTypeOK'
    OBVIOUS
  <1> USE DEF ShakeTypeOK
  <1>1. ASSUME NEW kind \in Kinds, PushRoute(kind) PROVE ShakeTypeOK'
    <2>1. Append(routes, kind) \in Seq(Kinds) /\ Len(Append(routes, kind)) = Len(routes) + 1
      OBVIOUS
    <2>2. Len(routes') <= MaxRoutes
      BY <1>1, <2>1, RoutesAssumption DEF PushRoute
    <2>5. Len(routes') = Len(routes) + 1 /\ Len(routes) \in Nat
      BY <1>1, <2>1 DEF PushRoute
    <2>6. inserting' \subseteq 1 .. Len(routes')
      <3>1. \A n \in inserting : n \in 1 .. Len(routes')
        BY <2>5
      <3>2. Len(routes) + 1 \in 1 .. Len(routes')
        BY <2>5
      <3>3. inserting' = inserting \cup {Len(routes) + 1}
        BY <1>1 DEF PushRoute
      <3> QED BY <3>1, <3>2, <3>3
    <2>7. registry' \in 0 .. Len(routes') /\ router' \in 0 .. Len(routes')
      BY <1>1, <2>5 DEF PushRoute
    <2>8. handler' \in [Requests -> 0 .. Len(routes')]
      <3>1. 0 .. Len(routes) \subseteq 0 .. Len(routes')
        BY <2>5
      <3> QED BY <1>1, <3>1 DEF PushRoute
    <2>4. routes' \in Seq(Kinds)
      BY <1>1, <2>1 DEF PushRoute
    <2> QED BY <1>1, <2>2, <2>4, <2>6, <2>7, <2>8 DEF PushRoute
  <1>2. ASSUME NEW n \in inserting, InsertRoute(n) PROVE ShakeTypeOK'
    BY <1>2 DEF InsertRoute
  <1>3. CASE BuildRouter
    <2>1. CASE Len(routes) = 1
      <3>1. router' = 1 /\ aborted' = aborted
        BY <1>3, <2>1 DEF BuildRouter
      <3> QED BY <1>3, <2>1, <3>1 DEF BuildRouter
    <2>2. CASE Len(routes) # 1
      <3>1. router' = router /\ aborted' = TRUE
        BY <1>3, <2>2 DEF BuildRouter
      <3> QED BY <1>3, <3>1 DEF BuildRouter
    <2> QED BY <2>1, <2>2
  <1>4. ASSUME NEW r \in Requests, ClientLeaves(r) PROVE ShakeTypeOK'
    BY <1>4 DEF ClientLeaves, server, Phases
  <1>5. ASSUME NEW r \in Requests, CoroutineStep(r) PROVE ShakeTypeOK'
    <2>1. PICK p \in Chosen, how \in {"returned", "raised"} : CoroutineEnds(r, p, how)
      BY <1>5 DEF CoroutineStep
    <2>2. incoming' \in [Requests -> Incoming]
      BY <2>1 DEF CoroutineEnds, Incoming
    <2>3. coro' \in [Requests -> {"none", "running", "returned", "raised"}]
      BY <2>1 DEF CoroutineEnds
    <2> QED BY <2>1, <2>2, <2>3 DEF CoroutineEnds, server
  <1>6. ASSUME NEW r \in Requests, HandshakeStep(r) PROVE ShakeTypeOK'
    <2> USE <1>6 DEF Go, server, Phases, Responses
    <2>1. CASE NotFound(r)
      BY <2>1 DEF NotFound, Respond
    <2>2. CASE Lookup(r)
      BY <2>2 DEF Lookup
    <2>3. CASE NoAuthenticators(r) \/ NoBefore(r)
      BY <2>3 DEF NoAuthenticators, NoBefore
    <2>4. ASSUME NEW outcome \in Outcomes, Asks(r, outcome)
          PROVE  asked' \in [Requests -> Seq(Outcomes)]
      BY <2>4 DEF Asks
    <2>5. CASE Accepts(r)
      <3>1. asked' \in [Requests -> Seq(Outcomes)]
        BY <2>4, <2>5 DEF Accepts, Outcomes
      <3>2. Len(asked[r]) + 1 \in Nat
        OBVIOUS
      <3>3. incoming' \in [Requests -> Incoming]
        BY <2>5, <3>2 DEF Accepts, Incoming
      <3> QED BY <2>5, <3>1, <3>3 DEF Accepts
    <2>6. ASSUME NEW outcome \in {"none", "raises"}, Passes(r, outcome) PROVE ShakeTypeOK'
      <3>1. asked' \in [Requests -> Seq(Outcomes)]
        BY <2>4, <2>6 DEF Passes, Outcomes
      <3> QED BY <2>6, <3>1 DEF Passes
    <2>7. CASE Unauthenticated(r) \/ SyncBeforeRaises(r) \/ Discarded(r)
      BY <2>7 DEF Unauthenticated, SyncBeforeRaises, Discarded, Fail, Respond, Abandon
    <2>8. CASE AsyncBefore(r)
      BY <2>8 DEF AsyncBefore
    <2>9. ASSUME NEW p \in Chosen, SyncBefore(r, p) PROVE ShakeTypeOK'
      BY <2>9 DEF SyncBefore, Incoming
    <2>10. CASE Upgrade(r)
      BY <2>10 DEF Upgrade
    <2>11. CASE BeforeRaised(r) \/ Switch(r) \/ UpgradeFails(r)
      BY <2>11 DEF BeforeRaised, Switch, UpgradeFails, Respond
    <2> QED BY <2>1, <2>2, <2>3, <2>5, <2>6, <2>7, <2>8, <2>9, <2>10, <2>11 DEF HandshakeStep
  <1>7. CASE UNCHANGED vars
    BY <1>7 DEF vars
  <1> QED BY <1>1, <1>2, <1>3, <1>4, <1>5, <1>6, <1>7 DEF Next

(* The variables keep their types.                                          *)
THEOREM ShakeTypes == Spec => []ShakeTypeOK
  <1> QED BY TypeInit, TypeStep, PTL DEF Spec

-----------------------------------------------------------------------------
(* The invariant.                                                           *)
LEMMA InvInit == Init => \A r \in Requests : EarlyInv(r) /\ LateInv(r) /\ RefusedInv(r)
  <1> SUFFICES ASSUME Init, NEW r \in Requests PROVE EarlyInv(r) /\ LateInv(r) /\ RefusedInv(r)
    OBVIOUS
  <1>1. /\ phase[r] = "arriving" /\ handler[r] = 0 /\ asked[r] = << >> /\ coro[r] = "none"
        /\ answer[r] = "none" /\ r \notin gone /\ incoming[r].user = 0
    BY DEF Init
  <1> QED BY <1>1 DEF EarlyInv, LateInv, RefusedInv, Past

(* A step that leaves what is known of a request alone keeps its part.      *)
LEMMA InvUnchanged ==
  ASSUME ShakeTypeOK, NEW r \in Requests, EarlyInv(r), LateInv(r), RefusedInv(r),
         phase'[r] = phase[r], handler'[r] = handler[r], asked'[r] = asked[r],
         incoming'[r] = incoming[r], coro'[r] = coro[r], conn'[r] = conn[r],
         answer'[r] = answer[r], r \in gone' => r \in gone,
         \A n \in 1 .. Len(routes) : routes'[n] = routes[n]
  PROVE  EarlyInv(r)' /\ LateInv(r)' /\ RefusedInv(r)'
  <1>1. handler[r] # 0 => routes'[handler'[r]] = routes[handler[r]]
    BY DEF ShakeTypeOK
  <1>2. EarlyInv(r)'
    BY <1>1 DEF EarlyInv, NobodyKnown, Route
  <1>3. LateInv(r)'
    BY <1>1 DEF LateInv, Passed, LastKnown, Route, Past
  <1>4. RefusedInv(r)'
    BY <1>1 DEF RefusedInv, NobodyKnown, Route
  <1> QED BY <1>2, <1>3, <1>4

(* What the next authenticator does comes last in asked.                    *)
LEMMA Asked ==
  ASSUME ShakeTypeOK, NEW r \in Requests, NEW outcome \in Outcomes, Asks(r, outcome),
         NobodyKnown(r), handler[r] # 0
  PROVE  /\ Len(asked'[r]) = Len(asked[r]) + 1
         /\ asked'[r][Len(asked'[r])] = outcome
         /\ \A n \in 1 .. Len(asked[r]) : asked'[r][n] # "user"
         /\ Len(asked'[r]) <= Route(r).auth
         /\ \A s \in Requests : s # r => asked'[s] = asked[s]
  <1>1. asked[r] \in Seq(Outcomes) /\ asked'[r] = Append(asked[r], outcome)
    BY DEF ShakeTypeOK, Asks
  <1>2. routes[handler[r]] \in [auth : Nat, before : {"none", "sync", "async"}]
    BY KindsAssumption DEF ShakeTypeOK
  <1>3. Len(asked[r]) < Route(r).auth /\ Route(r).auth \in Nat
    BY <1>2 DEF Asks, Route
  <1>4. Len(asked'[r]) = Len(asked[r]) + 1
    BY <1>1
  <1>5. asked'[r][Len(asked'[r])] = outcome
    BY <1>1
  <1>6. \A n \in 1 .. Len(asked[r]) : asked'[r][n] # "user"
    BY <1>1 DEF NobodyKnown
  <1>7. Len(asked'[r]) <= Route(r).auth
    BY <1>1, <1>3, <1>4
  <1>8. \A s \in Requests : s # r => asked'[s] = asked[s]
    BY DEF ShakeTypeOK, Asks
  <1> QED BY <1>4, <1>5, <1>6, <1>7, <1>8

LEMMA InvStep == IInv /\ [Next]_vars => \A r \in Requests : EarlyInv(r)' /\ LateInv(r)' /\ RefusedInv(r)'
  <1> SUFFICES ASSUME ShakeTypeOK, [Next]_vars, NEW r \in Requests,
                      EarlyInv(r), LateInv(r), RefusedInv(r)
               PROVE  EarlyInv(r)' /\ LateInv(r)' /\ RefusedInv(r)'
    BY DEF IInv
  <1> DEFINE Goal == EarlyInv(r)' /\ LateInv(r)' /\ RefusedInv(r)'
  <1>1. ASSUME NEW kind \in Kinds, PushRoute(kind) PROVE Goal
    <2>1. \A n \in 1 .. Len(routes) : routes'[n] = routes[n]
      BY <1>1 DEF PushRoute, ShakeTypeOK
    <2> QED BY <1>1, <2>1, InvUnchanged DEF PushRoute
  <1>2. ASSUME NEW n \in inserting, InsertRoute(n) PROVE Goal
    BY <1>2, InvUnchanged DEF InsertRoute
  <1>3. CASE BuildRouter
    BY <1>3, InvUnchanged DEF BuildRouter
  <1>4. ASSUME NEW s \in Requests, s # r, HandshakeStep(s) \/ CoroutineStep(s) \/ ClientLeaves(s)
        PROVE  Goal
    <2>1. UNCHANGED routes
      BY <1>4 DEF HandshakeStep, CoroutineStep, ClientLeaves, CoroutineEnds, NotFound, Lookup,
           NoAuthenticators, Accepts, Unauthenticated, Passes, NoBefore, SyncBeforeRaises,
           AsyncBefore, SyncBefore, Upgrade, BeforeRaised, Switch, UpgradeFails, Discarded,
           Fail, Respond, Abandon, Go, server
    <2>2. /\ phase'[r] = phase[r] /\ handler'[r] = handler[r] /\ asked'[r] = asked[r]
          /\ incoming'[r] = incoming[r] /\ coro'[r] = coro[r] /\ conn'[r] = conn[r]
          /\ answer'[r] = answer[r] /\ (r \in gone' => r \in gone)
      BY <1>4 DEF ShakeTypeOK, HandshakeStep, CoroutineStep, ClientLeaves, CoroutineEnds, NotFound,
           Lookup, NoAuthenticators, Accepts, Unauthenticated, Passes, Asks, NoBefore,
           SyncBeforeRaises, AsyncBefore, SyncBefore, Upgrade, BeforeRaised, Switch,
           UpgradeFails, Discarded, Fail, Respond, Abandon, Go
    <2> QED BY <2>1, <2>2, InvUnchanged
  <1>5. CASE ClientLeaves(r)
    <2>1. EarlyInv(r)'
      BY <1>5 DEF ClientLeaves, EarlyInv, server, ShakeTypeOK, NobodyKnown, Route
    <2>2. LateInv(r)'
      BY <1>5 DEF ClientLeaves, LateInv, server, ShakeTypeOK, Passed, LastKnown, Route, Past
    <2>3. RefusedInv(r)'
      BY <1>5 DEF ClientLeaves, RefusedInv, server, NobodyKnown, Route
    <2> QED BY <2>1, <2>2, <2>3
  <1>6. CASE CoroutineStep(r)
    <2> USE <1>6 DEF CoroutineStep, CoroutineEnds, server, ShakeTypeOK, Route, Incoming
    <2>1. EarlyInv(r)'
      BY DEF EarlyInv, NobodyKnown
    <2>2. LateInv(r)'
      BY DEF LateInv, Passed, LastKnown, Past
    <2>3. RefusedInv(r)'
      BY DEF RefusedInv, NobodyKnown
    <2> QED BY <2>1, <2>2, <2>3
  <1>7. CASE HandshakeStep(r)
    <2> USE DEF Go, server
    <2>1. CASE NotFound(r)
      BY <2>1 DEF NotFound, Respond, EarlyInv, LateInv, RefusedInv, ShakeTypeOK, Past
    <2>2. CASE Lookup(r)
      <3>1. handler'[r] # 0 /\ asked'[r] = << >> /\ phase'[r] = "authenticating"
        BY <2>2 DEF Lookup, EarlyInv, ShakeTypeOK
      <3>2. routes'[handler'[r]] \in [auth : Nat, before : {"none", "sync", "async"}]
        BY <2>2, KindsAssumption DEF Lookup, ShakeTypeOK
      <3>3. EarlyInv(r)'
        BY <2>2, <3>1, <3>2 DEF Lookup, EarlyInv, NobodyKnown, Route, ShakeTypeOK
      <3>4. coro'[r] = "none" /\ answer'[r] = "none"
        BY <2>2 DEF Lookup, EarlyInv
      <3> QED BY <3>1, <3>3, <3>4 DEF LateInv, RefusedInv, Past
    <2>3. CASE NoAuthenticators(r)
      <3>1. asked[r] = << >> /\ handler'[r] # 0 /\ Route(r).auth = 0 /\ UNCHANGED <<asked, incoming, handler, routes>>
        BY <2>3 DEF NoAuthenticators, EarlyInv, ShakeTypeOK
      <3>2. phase'[r] = "calling" /\ coro'[r] = "none" /\ answer'[r] = "none"
        BY <2>3 DEF NoAuthenticators, EarlyInv, ShakeTypeOK
      <3>3. Passed(r)'
        BY <2>3, <3>1 DEF NoAuthenticators, Passed, Route, EarlyInv
      <3> QED BY <3>2, <3>3 DEF EarlyInv, LateInv, RefusedInv
    <2>4. CASE Accepts(r)
      <3>1. NobodyKnown(r) /\ handler[r] # 0 /\ Asks(r, "user") /\ "user" \in Outcomes
        BY <2>4 DEF Accepts, EarlyInv, Outcomes
      <3>2. phase'[r] = "calling" /\ coro'[r] = "none" /\ answer'[r] = "none"
        BY <2>4 DEF Accepts, EarlyInv, ShakeTypeOK
      <3>3. /\ Len(asked'[r]) = Len(asked[r]) + 1 /\ asked'[r][Len(asked'[r])] = "user"
            /\ \A n \in 1 .. Len(asked[r]) : asked'[r][n] # "user"
            /\ Len(asked'[r]) <= Route(r).auth
        BY <3>1, Asked
      <3>4. Len(asked[r]) \in Nat /\ Route(r).auth # 0
        <4>1. Len(asked[r]) \in Nat
          BY DEF ShakeTypeOK
        <4> QED BY <3>3, <4>1
      <3>5. LastKnown(r)'
        BY <3>3, <3>4 DEF LastKnown
      <3>6. incoming'[r].user = Len(asked'[r])
        BY <2>4, <3>3 DEF Accepts, ShakeTypeOK, Incoming
      <3>7. Passed(r)'
        BY <2>4, <3>1, <3>3, <3>4, <3>5, <3>6 DEF Accepts, Passed, Route
      <3> QED BY <3>2, <3>7 DEF EarlyInv, LateInv, RefusedInv
    <2>5. ASSUME NEW outcome \in {"none", "raises"}, Passes(r, outcome) PROVE Goal
      <3>1. NobodyKnown(r) /\ handler[r] # 0 /\ Asks(r, outcome) /\ outcome \in Outcomes
        BY <2>5 DEF Passes, EarlyInv, Outcomes
      <3>2. /\ phase'[r] = "authenticating" /\ coro'[r] = "none" /\ answer'[r] = "none"
            /\ UNCHANGED <<routes, handler, incoming>> /\ incoming[r].user = 0
        BY <2>5 DEF Passes, EarlyInv, ShakeTypeOK
      <3>3. /\ Len(asked'[r]) = Len(asked[r]) + 1 /\ asked'[r][Len(asked'[r])] = outcome
            /\ \A n \in 1 .. Len(asked[r]) : asked'[r][n] # "user"
            /\ Len(asked'[r]) <= Route(r).auth
        BY <3>1, Asked
      <3>4. NobodyKnown(r)'
        <4>1. Len(asked[r]) \in Nat
          BY DEF ShakeTypeOK
        <4> QED BY <3>3, <4>1 DEF NobodyKnown
      <3>5. EarlyInv(r)'
        BY <3>1, <3>2, <3>3, <3>4 DEF EarlyInv, Route
      <3> QED BY <3>2, <3>5 DEF LateInv, RefusedInv, Past
    <2>6. CASE Unauthenticated(r)
      <3>1. /\ phase'[r] = "done" /\ coro'[r] = "none" /\ answer'[r] # "switching"
            /\ handler[r] # 0 /\ NobodyKnown(r) /\ UNCHANGED <<routes, handler, asked>>
        BY <2>6 DEF Unauthenticated, Fail, Respond, Abandon, EarlyInv, ShakeTypeOK
      <3>2. Len(asked[r]) = Route(r).auth
        <4>1. routes[handler[r]] \in [auth : Nat, before : {"none", "sync", "async"}]
          BY <3>1, KindsAssumption DEF ShakeTypeOK
        <4>2. Route(r).auth \in Nat /\ Len(asked[r]) \in Nat
          BY <4>1 DEF Route, ShakeTypeOK
        <4> QED BY <2>6, <4>2 DEF Unauthenticated, EarlyInv
      <3>3. EarlyInv(r)' /\ LateInv(r)'
        BY <3>1 DEF EarlyInv, LateInv, Past
      <3>4. RefusedInv(r)'
        BY <3>1, <3>2 DEF RefusedInv, NobodyKnown, Route
      <3> QED BY <3>3, <3>4
    <2>7. ASSUME phase[r] = "calling", phase'[r] = "upgrading", Passed(r),
                 UNCHANGED <<routes, handler, asked, conn, answer, gone>>,
                 incoming'[r].user = incoming[r].user,
                 coro'[r] # "none" <=> Route(r).before = "async"
          PROVE  Goal
      <3>1. handler[r] # 0 /\ answer[r] = "none" /\ Passed(r)'
        BY <2>7 DEF Passed, LastKnown, Route, EarlyInv
      <3> QED BY <2>7, <3>1 DEF EarlyInv, LateInv, RefusedInv, Route
    <2>8. CASE NoBefore(r)
      <3>1. coro'[r] # "none" <=> Route(r).before = "async"
        BY <2>8 DEF NoBefore, EarlyInv
      <3> QED BY <2>7, <2>8, <3>1 DEF NoBefore, LateInv, Past, ShakeTypeOK
    <2>9. ASSUME NEW p \in Chosen, SyncBefore(r, p) PROVE Goal
      <3>1. coro'[r] # "none" <=> Route(r).before = "async"
        BY <2>9 DEF SyncBefore, EarlyInv
      <3>2. incoming'[r].user = incoming[r].user
        BY <2>9 DEF SyncBefore, ShakeTypeOK, Incoming
      <3> QED BY <2>7, <2>9, <3>1, <3>2 DEF SyncBefore, LateInv, Past, ShakeTypeOK
    <2>10. CASE AsyncBefore(r)
      <3>1. coro'[r] # "none" <=> Route(r).before = "async"
        BY <2>10 DEF AsyncBefore, ShakeTypeOK
      <3> QED BY <2>7, <2>10, <3>1 DEF AsyncBefore, LateInv, Past, ShakeTypeOK
    <2>11. CASE SyncBeforeRaises(r)
      <3>1. /\ phase'[r] = "done" /\ coro'[r] = "none" /\ answer'[r] \in {"none", "connection_failed"}
        BY <2>11 DEF SyncBeforeRaises, Fail, Respond, Abandon, EarlyInv, ShakeTypeOK
      <3> QED BY <3>1 DEF EarlyInv, LateInv, RefusedInv, Past
    <2>12. CASE Upgrade(r)
      <3>1. /\ phase'[r] = "awaiting" /\ answer'[r] = "none" /\ conn'[r] = {incoming[r]}
            /\ UNCHANGED <<routes, handler, asked, incoming, coro, gone>>
        BY <2>12 DEF Upgrade, EarlyInv, ShakeTypeOK
      <3>2. Passed(r)'
        BY <2>12, <3>1 DEF Upgrade, LateInv, Past, Passed, LastKnown, Route
      <3>3. EarlyInv(r)' /\ RefusedInv(r)'
        BY <3>1 DEF EarlyInv, RefusedInv
      <3>4. LateInv(r)'
        BY <2>12, <3>1, <3>2 DEF Upgrade, LateInv, Route
      <3> QED BY <3>3, <3>4
    <2>13. ASSUME phase[r] = "awaiting", phase'[r] = "done",
                  UNCHANGED <<routes, handler, asked, incoming, coro, conn>>,
                  \/ answer'[r] \in {"none", "bad_request"}
                  \/ (answer'[r] = "unauthorized" /\ coro[r] = "raised")
                  \/ (answer'[r] = "switching" /\ BeforeReturned(r))
           PROVE  Goal
      <3>1. Passed(r) /\ Passed(r)'
        BY <2>13 DEF LateInv, Past, Passed, LastKnown, Route
      <3>2. EarlyInv(r)'
        BY <2>13 DEF EarlyInv
      <3>3. LateInv(r)'
        BY <2>13, <3>1 DEF LateInv, Route, BeforeReturned, Past
      <3>4. RefusedInv(r)'
        BY <2>13, <3>1 DEF RefusedInv, LateInv, Route, Passed
      <3> QED BY <3>2, <3>3, <3>4
    <2>14. CASE BeforeRaised(r)
      <3>1. answer'[r] = "unauthorized" /\ coro[r] = "raised"
        BY <2>14 DEF BeforeRaised, Respond, ShakeTypeOK
      <3>2. /\ phase[r] = "awaiting" /\ phase'[r] = "done"
            /\ UNCHANGED <<routes, handler, asked, incoming, coro, conn>>
        BY <2>14 DEF BeforeRaised, Respond, ShakeTypeOK
      <3> QED BY <2>13, <3>1, <3>2
    <2>15. CASE Switch(r)
      <3>1. answer'[r] = "switching" /\ BeforeReturned(r)
        BY <2>15 DEF Switch, Respond, ShakeTypeOK
      <3>2. /\ phase[r] = "awaiting" /\ phase'[r] = "done"
            /\ UNCHANGED <<routes, handler, asked, incoming, coro, conn>>
        BY <2>15 DEF Switch, Respond, ShakeTypeOK
      <3> QED BY <2>13, <3>1, <3>2
    <2>16. CASE UpgradeFails(r)
      <3>1. answer'[r] \in {"none", "bad_request"}
        BY <2>16 DEF UpgradeFails, Respond, ShakeTypeOK
      <3>2. /\ phase[r] = "awaiting" /\ phase'[r] = "done"
            /\ UNCHANGED <<routes, handler, asked, incoming, coro, conn>>
        BY <2>16 DEF UpgradeFails, Respond, ShakeTypeOK
      <3> QED BY <2>13, <3>1, <3>2
    <2>17. CASE Discarded(r)
      <3>1. answer'[r] \in {"none", "bad_request"}
        BY <2>17 DEF Discarded, Abandon, EarlyInv
      <3>2. /\ phase[r] = "awaiting" /\ phase'[r] = "done"
            /\ UNCHANGED <<routes, handler, asked, incoming, coro, conn>>
        BY <2>17 DEF Discarded, Abandon, ShakeTypeOK
      <3> QED BY <2>13, <3>1, <3>2
    <2> QED BY <1>7, <2>1, <2>2, <2>3, <2>4, <2>5, <2>6, <2>8, <2>9, <2>10, <2>11, <2>12, <2>14,
               <2>15, <2>16, <2>17 DEF HandshakeStep
  <1>8. CASE UNCHANGED vars
    BY <1>8, InvUnchanged DEF vars
  <1> QED BY <1>1, <1>2, <1>3, <1>4, <1>5, <1>6, <1>7, <1>8 DEF Next

LEMMA Invariant == Spec => []IInv
  <1>1. Init => IInv
    BY TypeInit, InvInit DEF IInv
  <1>2. IInv /\ [Next]_vars => IInv'
    BY TypeStep, InvStep DEF IInv
  <1> QED BY <1>1, <1>2, PTL DEF Spec

-----------------------------------------------------------------------------
(* An upgraded request carries the user its own route knows it as:          *)
(* handle_ws_upgrade reads the registry once, whatever create_route does to *)
(* it afterwards.                                                           *)
THEOREM AdmittedAsWhomKnown == Spec => []AdmittedAsKnown
  <1>1. IInv => AdmittedAsKnown
    <2> SUFFICES ASSUME IInv, NEW r \in Requests, answer[r] = "switching"
                 PROVE  LET user == Len(asked[r])
                        IN  /\ user <= routes[handler[r]].auth
                            /\ KnownAs(r) \subseteq {user}
                            /\ \A c \in conn[r] : c.user = IF KnownAs(r) = {} THEN 0 ELSE user
      BY DEF AdmittedAsKnown
    <2>1. Passed(r) /\ \A c \in conn[r] : c.user = incoming[r].user
      BY DEF IInv, LateInv
    <2>2. Len(asked[r]) \in Nat
      BY DEF IInv, ShakeTypeOK
    <2>3. CASE routes[handler[r]].auth = 0
      <3>1. asked[r] = << >> /\ incoming[r].user = 0
        BY <2>1, <2>3 DEF Passed, Route
      <3>2. KnownAs(r) = {} /\ Len(asked[r]) = 0
        BY <3>1 DEF KnownAs
      <3> QED BY <2>1, <2>3, <3>1, <3>2
    <2>4. CASE routes[handler[r]].auth # 0
      <3>1. /\ LastKnown(r) /\ Len(asked[r]) <= routes[handler[r]].auth
            /\ incoming[r].user = Len(asked[r])
        BY <2>1, <2>4 DEF Passed, Route
      <3>2. KnownAs(r) = {Len(asked[r])}
        BY <2>2, <3>1 DEF LastKnown, KnownAs
      <3> QED BY <2>1, <3>1, <3>2
    <2> QED BY <2>3, <2>4
  <1> QED BY Invariant, <1>1, PTL

(* A request is answered 401 only when all its authenticators were asked in *)
(* vain or when its async connect("before") raised.                         *)
THEOREM RefusalsWereTried == Spec => []RefusedWasTried
  <1>1. IInv => RefusedWasTried
    BY DEF IInv, RefusedInv, RefusedWasTried, KnownAs, NobodyKnown, Route
  <1> QED BY Invariant, <1>1, PTL

(* The response of an upgrade comes after connect("before"), of which a     *)
(* sync one also decides what the Connection shows.                         *)
THEOREM BeforeComesFirst == Spec => []BeforeDecides
  <1>1. IInv => BeforeDecides
    BY DEF IInv, LateInv, BeforeDecides, Route
  <1> QED BY Invariant, <1>1, PTL

-----------------------------------------------------------------------------
(* The refinement.                                                          *)
Admitted(r) == handler[r] # 0 /\ (routes[handler[r]].auth = 0 \/ KnownAs(r) # {})

(* A step that changes neither what Accepted nor what Verdict reads is a    *)
(* stutter of Admission.                                                    *)
LEMMA Stutters ==
  ASSUME ShakeTypeOK,
         \A s \in Requests : (Admitted(s)' <=> Admitted(s)) /\ Verdict(s)' = Verdict(s)
  PROVE  UNCHANGED <<Accepted, [r \in Requests |-> Verdict(r)]>>
  BY DEF Accepted, Admitted

(* What a step leaves alone of a request, its acceptance and its verdict    *)
(* follow.                                                                  *)
LEMMA SameAccepted ==
  ASSUME ShakeTypeOK, NEW s \in Requests,
         handler'[s] = handler[s], asked'[s] = asked[s],
         \A n \in 1 .. Len(routes) : routes'[n] = routes[n]
  PROVE  Admitted(s)' <=> Admitted(s)
  <1>1. handler[s] # 0 => routes'[handler'[s]] = routes[handler[s]]
    BY DEF ShakeTypeOK
  <1> QED BY <1>1 DEF Admitted, KnownAs

LEMMA SameVerdict ==
  ASSUME NEW s \in Requests, answer'[s] = answer[s], s \in gone' <=> s \in gone
  PROVE  Verdict(s)' = Verdict(s)
  BY DEF Verdict

LEMMA RefineInit == Init => A!AInit
  <1> SUFFICES ASSUME Init PROVE A!AInit
    OBVIOUS
  <1>1. Accepted = {}
    BY DEF Init, Accepted
  <1>2. \A r \in Requests : Verdict(r) = "pending"
    BY DEF Init, Verdict
  <1> QED BY <1>1, <1>2 DEF A!AInit

(* The steps of one request.                                                *)
LEMMA RefineRequest ==
  ASSUME IInv, NEW r \in Requests, HandshakeStep(r) \/ CoroutineStep(r) \/ ClientLeaves(r)
  PROVE  A!ANext \/ UNCHANGED A!avars
  <1> USE DEF Go, server
  <1>1. ShakeTypeOK /\ EarlyInv(r) /\ LateInv(r)
    BY DEF IInv
  <1>2. \A n \in 1 .. Len(routes) : routes'[n] = routes[n]
    BY DEF HandshakeStep, CoroutineStep, ClientLeaves, CoroutineEnds, NotFound, Lookup,
         NoAuthenticators, Accepts, Unauthenticated, Passes, NoBefore, SyncBeforeRaises,
         AsyncBefore, SyncBefore, Upgrade, BeforeRaised, Switch, UpgradeFails, Discarded,
         Fail, Respond, Abandon
  <1>3. \A s \in Requests : s # r => (Admitted(s)' <=> Admitted(s)) /\ Verdict(s)' = Verdict(s)
    <2> SUFFICES ASSUME NEW s \in Requests, s # r
                 PROVE  (Admitted(s)' <=> Admitted(s)) /\ Verdict(s)' = Verdict(s)
      OBVIOUS
    <2>1. handler'[s] = handler[s] /\ asked'[s] = asked[s] /\ answer'[s] = answer[s]
          /\ (s \in gone' <=> s \in gone)
      BY <1>1 DEF ShakeTypeOK, HandshakeStep, CoroutineStep, ClientLeaves, CoroutineEnds, NotFound,
           Lookup, NoAuthenticators, Accepts, Unauthenticated, Passes, Asks, NoBefore,
           SyncBeforeRaises, AsyncBefore, SyncBefore, Upgrade, BeforeRaised, Switch,
           UpgradeFails, Discarded, Fail, Respond, Abandon
    <2> QED BY <1>1, <1>2, <2>1, SameAccepted, SameVerdict
  <1>4. ASSUME Admitted(r)' <=> Admitted(r), Verdict(r)' = Verdict(r)
        PROVE  UNCHANGED A!avars
    BY <1>1, <1>3, <1>4, Stutters DEF A!avars
  <1>5. ASSUME Admitted(r)', Verdict(r)' = Verdict(r), Verdict(r) \in {"pending", "left"}
        PROVE  A!ANext
    <2>1. Accepted' = Accepted \cup {r}
      BY <1>3, <1>5 DEF Accepted, Admitted
    <2>2. [s \in Requests |-> Verdict(s)]' = [s \in Requests |-> Verdict(s)]
      BY <1>3, <1>5
    <2> QED BY <1>5, <2>1, <2>2 DEF A!ANext, A!Accept
  <1>6. ASSUME Admitted(r)' <=> Admitted(r), Verdict(r) = "pending",
               \/ Verdict(r)' \in {"refused", "left"}
               \/ (Verdict(r)' = "admitted" /\ Admitted(r))
        PROVE  A!ANext
    <2>1. Accepted' = Accepted
      BY <1>3, <1>6 DEF Accepted, Admitted
    <2>2. [s \in Requests |-> Verdict(s)]' = [[s \in Requests |-> Verdict(s)] EXCEPT ![r] = Verdict(r)']
      BY <1>3
    <2>3. Verdict(r)' = "admitted" => r \in Accepted
      BY <1>6 DEF Accepted, Admitted
    <2> QED BY <1>6, <2>1, <2>2, <2>3 DEF A!ANext, A!Decide
  <1>7. CASE ClientLeaves(r)
    <2>1. Admitted(r)' <=> Admitted(r)
      BY <1>1, <1>2, <1>7, SameAccepted DEF ClientLeaves
    <2>2. answer[r] = "none" /\ answer'[r] = "none" /\ r \in gone'
      BY <1>1, <1>7 DEF ClientLeaves, EarlyInv
    <2>3. Verdict(r)' = "left" /\ Verdict(r) \in {"pending", "left"}
      BY <2>2 DEF Verdict
    <2> QED BY <1>4, <1>6, <2>1, <2>3
  <1>8. CASE CoroutineStep(r)
    <2>1. UNCHANGED <<handler, asked, answer, gone>>
      BY <1>8 DEF CoroutineStep, CoroutineEnds
    <2> QED BY <1>1, <1>2, <1>4, <2>1, SameAccepted, SameVerdict
  <1>9. ASSUME UNCHANGED <<handler, asked, answer, gone>> PROVE UNCHANGED A!avars
    BY <1>1, <1>2, <1>4, <1>9, SameAccepted, SameVerdict
  <1>10. ASSUME UNCHANGED <<answer, gone>>, answer[r] = "none"
         PROVE  Verdict(r)' = Verdict(r) /\ Verdict(r) \in {"pending", "left"}
    BY <1>10 DEF Verdict
  <1>11. ASSUME UNCHANGED <<handler, asked, gone>>, r \notin gone, answer[r] = "none",
                answer'[r] \in Responses \ {"none", "switching"}
         PROVE  A!ANext
    <2>1. Verdict(r) = "pending" /\ Verdict(r)' = "refused"
      BY <1>11 DEF Verdict
    <2> QED BY <1>1, <1>2, <1>6, <1>11, <2>1, SameAccepted
  <1>12. CASE HandshakeStep(r)
    <2>1. CASE NotFound(r)
      BY <1>1, <1>11, <2>1 DEF NotFound, Respond, EarlyInv, ShakeTypeOK, Responses
    <2>2. CASE Lookup(r)
      <3>1. answer[r] = "none" /\ UNCHANGED <<answer, gone>> /\ ~ Admitted(r)
        BY <1>1, <2>2 DEF Lookup, EarlyInv, Admitted
      <3> QED BY <1>4, <1>5, <1>10, <3>1
    <2>3. CASE Accepts(r)
      <3>1. NobodyKnown(r) /\ handler[r] # 0 /\ Asks(r, "user") /\ "user" \in Outcomes
        BY <1>1, <2>3 DEF Accepts, EarlyInv, Outcomes
      <3>2. Len(asked'[r]) = Len(asked[r]) + 1 /\ asked'[r][Len(asked'[r])] = "user"
        BY <1>1, <3>1, Asked
      <3>3. Len(asked'[r]) \in 1 .. Len(asked'[r])
        BY <1>1, <3>2 DEF ShakeTypeOK
      <3>4. Admitted(r)'
        BY <2>3, <3>1, <3>2, <3>3 DEF Accepts, Admitted, KnownAs
      <3>5. answer[r] = "none" /\ UNCHANGED <<answer, gone>>
        BY <1>1, <2>3 DEF Accepts, EarlyInv
      <3> QED BY <1>5, <1>10, <3>4, <3>5
    <2>4. ASSUME NEW outcome \in {"none", "raises"}, Passes(r, outcome) PROVE UNCHANGED A!avars
      <3>1. NobodyKnown(r) /\ handler[r] # 0 /\ Asks(r, outcome) /\ outcome \in Outcomes
        BY <1>1, <2>4 DEF Passes, EarlyInv, Outcomes
      <3>2. /\ Len(asked'[r]) = Len(asked[r]) + 1 /\ asked'[r][Len(asked'[r])] = outcome
            /\ \A n \in 1 .. Len(asked[r]) : asked'[r][n] # "user"
        BY <1>1, <3>1, Asked
      <3>3. KnownAs(r) = {} /\ KnownAs(r)' = {}
        BY <1>1, <2>4, <3>1, <3>2 DEF KnownAs, NobodyKnown, ShakeTypeOK
      <3>4. Admitted(r)' <=> Admitted(r)
        BY <2>4, <3>3 DEF Admitted, Passes
      <3>5. Verdict(r)' = Verdict(r)
        BY <2>4, SameVerdict DEF Passes
      <3> QED BY <1>4, <3>4, <3>5
    <2>5. CASE Unauthenticated(r) \/ SyncBeforeRaises(r) \/ Discarded(r)
      <3>1. CASE r \in gone
        BY <1>9, <2>5, <3>1 DEF Unauthenticated, SyncBeforeRaises, Discarded, Fail, Respond, Abandon
      <3>2. CASE r \notin gone
        BY <1>1, <1>11, <2>5, <3>2
           DEF Unauthenticated, SyncBeforeRaises, Discarded, Fail, Respond, Abandon, EarlyInv,
               ShakeTypeOK, Responses
      <3> QED BY <3>1, <3>2
    <2>6. CASE NoAuthenticators(r) \/ NoBefore(r) \/ AsyncBefore(r) \/ Upgrade(r)
      BY <1>9, <2>6 DEF NoAuthenticators, NoBefore, AsyncBefore, Upgrade
    <2>7. ASSUME NEW p \in Chosen, SyncBefore(r, p) PROVE UNCHANGED A!avars
      BY <1>9, <2>7 DEF SyncBefore
    <2>8. CASE BeforeRaised(r) \/ UpgradeFails(r)
      BY <1>1, <1>11, <2>8 DEF BeforeRaised, UpgradeFails, Respond, EarlyInv, ShakeTypeOK, Responses
    <2>9. CASE Switch(r)
      <3>1. Passed(r) /\ answer[r] = "none" /\ answer'[r] = "switching" /\ r \notin gone
            /\ UNCHANGED <<handler, asked, gone>>
        BY <1>1, <2>9 DEF Switch, Respond, LateInv, EarlyInv, Past, ShakeTypeOK
      <3>2. Admitted(r)
        <4>1. CASE Route(r).auth = 0
          BY <3>1, <4>1 DEF Passed, Admitted, Route
        <4>2. CASE Route(r).auth # 0
          <5>1. Len(asked[r]) \in 1 .. Len(asked[r]) /\ asked[r][Len(asked[r])] = "user"
            BY <1>1, <3>1, <4>2 DEF Passed, LastKnown, ShakeTypeOK
          <5> QED BY <3>1, <5>1 DEF Passed, Admitted, KnownAs
        <4> QED BY <4>1, <4>2
      <3>3. Admitted(r)' <=> Admitted(r)
        BY <1>1, <1>2, <3>1, SameAccepted
      <3>4. Verdict(r) = "pending" /\ Verdict(r)' = "admitted"
        BY <3>1 DEF Verdict
      <3> QED BY <1>6, <3>2, <3>3, <3>4
    <2> QED BY <1>12, <2>1, <2>2, <2>3, <2>4, <2>5, <2>6, <2>7, <2>8, <2>9 DEF HandshakeStep
  <1> QED BY <1>7, <1>8, <1>12

LEMMA RefineStep == IInv /\ [Next]_vars => [A!ANext]_(A!avars)
  <1> SUFFICES ASSUME IInv, [Next]_vars PROVE A!ANext \/ UNCHANGED A!avars
    OBVIOUS
  <1>1. ASSUME UNCHANGED <<handler, asked, answer, gone>>,
               \A n \in 1 .. Len(routes) : routes'[n] = routes[n]
        PROVE  UNCHANGED A!avars
    BY <1>1, SameAccepted, SameVerdict, Stutters DEF IInv, A!avars
  <1>2. ASSUME NEW kind \in Kinds, PushRoute(kind) PROVE UNCHANGED A!avars
    <2>1. \A n \in 1 .. Len(routes) : routes'[n] = routes[n]
      BY <1>2 DEF PushRoute, IInv, ShakeTypeOK
    <2> QED BY <1>1, <1>2, <2>1 DEF PushRoute
  <1>3. ASSUME NEW n \in inserting, InsertRoute(n) PROVE UNCHANGED A!avars
    BY <1>1, <1>3 DEF InsertRoute
  <1>4. CASE BuildRouter
    BY <1>1, <1>4 DEF BuildRouter
  <1>5. CASE UNCHANGED vars
    BY <1>1, <1>5 DEF vars
  <1> QED BY <1>2, <1>3, <1>4, <1>5, RefineRequest DEF Next

(* The handshake implements Admission: each request gets one verdict, and   *)
(* is admitted only after it was accepted.                                  *)
THEOREM HandshakeAdmits == Spec => Admits
  <1> QED BY Invariant, RefineInit, RefineStep, PTL DEF Spec, Admits, A!ASpec
=============================================================================
