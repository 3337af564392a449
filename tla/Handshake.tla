------------------------------ MODULE Handshake ------------------------------
(***************************************************************************)
(* From a request to an established connection: create_route,              *)
(* handle_ws_upgrade and authenticate_and_connect of src/src/server.rs and *)
(* IncomingConnection::upgrade of src/src/connection.rs, for the routes of *)
(* one path.  A handshake calls Python in a blocking thread, so every call *)
(* of an authenticator or callback can be interleaved with everything else.*)
(***************************************************************************)
EXTENDS Naturals, Sequences

CONSTANTS
  Requests,
  Kinds,      \* routes: number of authenticators, connect("before") callback
  Protocols,  \* subprotocols a callback may choose
  NoProtocol,
  MaxRoutes   \* bound: calls of create_route

ASSUME KindsAssumption ==
  Kinds \subseteq [auth : Nat, before : {"none", "sync", "async"}]
ASSUME ProtocolAssumption == NoProtocol \notin Protocols
ASSUME RoutesAssumption == MaxRoutes \in Nat

VARIABLES
  routes,     \* context: the calls of create_route, numbered
  inserting,  \* calls that have not reached the registry yet
  registry,   \* the call whose route the registry holds, 0 before
  router,     \* the call whose default group start() has routed, 0 before
  aborted,    \* Router::route panicked
  phase,      \* what the task of a request does next
  handler,    \* the route looked up for it
  asked,      \* what its authenticators did, in turn
  incoming,   \* user and subprotocol of its IncomingConnection
  coro,       \* its async connect("before") callback
  conn,       \* what upgrade copied: {} before
  answer,     \* the response, "none" before
  gone        \* requests whose client left before the response

vars == <<routes, inserting, registry, router, aborted, phase, handler, asked,
          incoming, coro, conn, answer, gone>>
server == <<routes, inserting, registry, router, aborted>>

Chosen == Protocols \cup {NoProtocol}

Init ==
  /\ routes = << >> /\ inserting = {} /\ registry = 0 /\ router = 0
  /\ aborted = FALSE
  /\ phase = [r \in Requests |-> "arriving"]
  /\ handler = [r \in Requests |-> 0]
  /\ asked = [r \in Requests |-> << >>]
  /\ incoming = [r \in Requests |-> [user |-> 0, protocol |-> NoProtocol]]
  /\ coro = [r \in Requests |-> "none"]
  /\ conn = [r \in Requests |-> {}]
  /\ answer = [r \in Requests |-> "none"]
  /\ gone = {}

-----------------------------------------------------------------------------
(* create_route: the default group, then, without the GIL, the handler.     *)
PushRoute(kind) ==
  /\ ~ aborted
  /\ Len(routes) < MaxRoutes
  /\ routes' = Append(routes, kind)
  /\ inserting' = inserting \cup {Len(routes) + 1}
  /\ UNCHANGED <<registry, router, aborted, phase, handler, asked, incoming, coro,
                 conn, answer, gone>>

InsertRoute(n) ==
  /\ ~ aborted
  /\ n \in inserting
  /\ inserting' = inserting \ {n}
  /\ registry' = n
  /\ UNCHANGED <<routes, router, aborted, phase, handler, asked, incoming, coro,
                 conn, answer, gone>>

(* runserver builds the router from the context; a path that occurs twice   *)
(* is a panic of axum.                                                      *)
BuildRouter ==
  /\ ~ aborted
  /\ router = 0 /\ routes # << >>
  /\ IF Len(routes) = 1 THEN router' = 1 /\ UNCHANGED aborted
                        ELSE aborted' = TRUE /\ UNCHANGED router
  /\ UNCHANGED <<routes, inserting, registry, phase, handler, asked, incoming,
                 coro, conn, answer, gone>>

-----------------------------------------------------------------------------
Go(r, from, to) ==
  /\ ~ aborted
  /\ phase[r] = from
  /\ phase' = [phase EXCEPT ![r] = to]
  /\ UNCHANGED server

(* The task of a request whose client left has been dropped: what a blocking *)
(* thread or a coroutine still does for it is answered to nobody.           *)
Respond(r, from, response) ==
  /\ r \notin gone
  /\ Go(r, from, "done")
  /\ answer' = [answer EXCEPT ![r] = response]
  /\ UNCHANGED <<handler, asked, incoming, coro, conn, gone>>

Abandon(r, from) ==
  /\ r \in gone
  /\ Go(r, from, "done")
  /\ UNCHANGED <<handler, asked, incoming, coro, conn, answer, gone>>

Fail(r, from, response) == Respond(r, from, response) \/ Abandon(r, from)

NotFound(r) ==
  /\ router # 0 /\ registry = 0
  /\ Respond(r, "arriving", "not_found")

Lookup(r) ==
  /\ router # 0 /\ registry # 0
  /\ Go(r, "arriving", "authenticating")
  /\ handler' = [handler EXCEPT ![r] = registry]
  /\ UNCHANGED <<asked, incoming, coro, conn, answer, gone>>

(* Mutant: each step looks the route up again.                              *)
Route_Again(r) == routes[registry]

Route(r) == routes[handler[r]]

-----------------------------------------------------------------------------
(* authenticated: the classes in turn, until one returns a user; an error   *)
(* is dropped by ok() and counts as None.                                   *)
NoAuthenticators(r) ==
  /\ phase[r] = "authenticating" /\ Route(r).auth = 0
  /\ Go(r, "authenticating", "calling")
  /\ UNCHANGED <<handler, asked, incoming, coro, conn, answer, gone>>

Asks(r, outcome) ==
  /\ Len(asked[r]) < Route(r).auth
  /\ asked' = [asked EXCEPT ![r] = Append(@, outcome)]

Accepts(r) ==
  /\ phase[r] = "authenticating"
  /\ Asks(r, "user")
  /\ Go(r, "authenticating", "calling")
  /\ incoming' = [incoming EXCEPT ![r].user = Len(asked[r]) + 1]
  /\ UNCHANGED <<handler, coro, conn, answer, gone>>

Passes(r, outcome) ==
  /\ phase[r] = "authenticating"
  /\ Asks(r, outcome)
  /\ Go(r, "authenticating", "authenticating")
  /\ UNCHANGED <<handler, incoming, coro, conn, answer, gone>>

Unauthenticated(r) ==
  /\ phase[r] = "authenticating"
  /\ Route(r).auth > 0 /\ Len(asked[r]) >= Route(r).auth
  /\ Fail(r, "authenticating", "unauthorized")

-----------------------------------------------------------------------------
(* connect("before"): a sync callback has returned when the connection is   *)
(* copied; an async one has been scheduled on the asyncio thread.  Of what  *)
(* it may set, the subprotocol is modelled; it leaves the user alone.       *)
NoBefore(r) ==
  /\ phase[r] = "calling" /\ Route(r).before = "none"
  /\ Go(r, "calling", "upgrading")
  /\ UNCHANGED <<handler, asked, incoming, coro, conn, answer, gone>>

(* Mutant: a sync callback is scheduled like an async one.                  *)
SyncBefore_Detached(r, protocol) ==
  /\ phase[r] = "calling" /\ Route(r).before = "sync"
  /\ protocol = NoProtocol
  /\ Go(r, "calling", "upgrading")
  /\ coro' = [coro EXCEPT ![r] = "running"]
  /\ UNCHANGED <<handler, asked, incoming, conn, answer, gone>>

SyncBefore(r, protocol) ==
  /\ phase[r] = "calling" /\ Route(r).before = "sync"
  /\ Go(r, "calling", "upgrading")
  /\ incoming' = [incoming EXCEPT ![r].protocol = protocol]
  /\ UNCHANGED <<handler, asked, coro, conn, answer, gone>>

SyncBeforeRaises(r) ==
  /\ phase[r] = "calling" /\ Route(r).before = "sync"
  /\ Fail(r, "calling", "connection_failed")

AsyncBefore(r) ==
  /\ phase[r] = "calling" /\ Route(r).before = "async"
  /\ Go(r, "calling", "upgrading")
  /\ coro' = [coro EXCEPT ![r] = "running"]
  /\ UNCHANGED <<handler, asked, incoming, conn, answer, gone>>

CoroutineEnds(r, protocol, how) ==
  /\ ~ aborted
  /\ coro[r] = "running"
  /\ coro' = [coro EXCEPT ![r] = how]
  /\ incoming' = [incoming EXCEPT ![r].protocol = protocol]
  /\ UNCHANGED <<server, phase, handler, asked, conn, answer, gone>>

(* IncomingConnection::upgrade copies the user and the subprotocol.         *)
Upgrade(r) ==
  /\ Go(r, "upgrading", "awaiting")
  /\ conn' = [conn EXCEPT ![r] = {incoming[r]}]
  /\ UNCHANGED <<handler, asked, incoming, coro, answer, gone>>

(* The coroutine is awaited, then the response is made from the copy.       *)
BeforeRaised(r) ==
  /\ coro[r] = "raised"
  /\ Respond(r, "awaiting", "unauthorized")

(* Mutant: only a coroutine that has returned lets the response go.         *)
BeforeReturned_AsyncOnly(r) == coro[r] = "returned"

BeforeReturned(r) == coro[r] \in {"none", "returned"}

Switch(r) ==
  /\ BeforeReturned(r)
  /\ Respond(r, "awaiting", "switching")

UpgradeFails(r) ==
  /\ BeforeReturned(r)
  /\ Respond(r, "awaiting", "bad_request")

(* hyper drops the task of a request whose connection is lost.              *)
ClientLeaves(r) ==
  /\ ~ aborted
  /\ phase[r] \notin {"arriving", "done"}
  /\ gone' = gone \cup {r}
  /\ phase' = IF phase[r] = "awaiting" THEN [phase EXCEPT ![r] = "done"] ELSE phase
  /\ UNCHANGED <<server, handler, asked, incoming, coro, conn, answer>>

(* The blocking thread ends; nobody awaits what it returns.                 *)
Discarded(r) == Abandon(r, "awaiting")
-----------------------------------------------------------------------------
HandshakeStep(r) ==
  \/ NotFound(r) \/ Lookup(r)
  \/ NoAuthenticators(r) \/ Accepts(r) \/ Unauthenticated(r)
  \/ \E outcome \in {"none", "raises"} : Passes(r, outcome)
  \/ NoBefore(r) \/ SyncBeforeRaises(r) \/ AsyncBefore(r)
  \/ \E p \in Chosen : SyncBefore(r, p)
  \/ Upgrade(r) \/ BeforeRaised(r) \/ Switch(r) \/ UpgradeFails(r) \/ Discarded(r)

CoroutineStep(r) ==
  \E p \in Chosen, how \in {"returned", "raised"} : CoroutineEnds(r, p, how)

Next ==
  \/ \E kind \in Kinds : PushRoute(kind)
  \/ \E n \in inserting : InsertRoute(n)
  \/ BuildRouter
  \/ \E r \in Requests : HandshakeStep(r) \/ CoroutineStep(r) \/ ClientLeaves(r)

(* Callbacks and coroutines return; the rest is polled by tokio.            *)
Fairness ==
  \A r \in Requests : WF_vars(HandshakeStep(r)) /\ WF_vars(CoroutineStep(r))

Spec == Init /\ [][Next]_vars
FairSpec == Spec /\ Fairness
-----------------------------------------------------------------------------
(* Type invariant.                                                          *)
Outcomes  == {"user", "none", "raises"}
Incoming  == [user : Nat, protocol : Chosen]
Phases    == {"arriving", "authenticating", "calling", "upgrading", "awaiting", "done"}
Responses == {"none", "not_found", "unauthorized", "connection_failed", "bad_request", "switching"}

ShakeTypeOK ==
  /\ routes \in Seq(Kinds) /\ Len(routes) <= MaxRoutes
  /\ inserting \subseteq 1 .. Len(routes)
  /\ registry \in 0 .. Len(routes) /\ router \in 0 .. Len(routes)
  /\ aborted \in BOOLEAN
  /\ phase \in [Requests -> Phases]
  /\ handler \in [Requests -> 0 .. Len(routes)]
  /\ asked \in [Requests -> Seq(Outcomes)]
  /\ incoming \in [Requests -> Incoming]
  /\ coro \in [Requests -> {"none", "running", "returned", "raised"}]
  /\ conn \in [Requests -> SUBSET Incoming]
  /\ answer \in [Requests -> Responses]
  /\ gone \subseteq Requests

(* The authenticators that returned a user for the request.                 *)
KnownAs(r) ==
  {n \in 1 .. Len(asked[r]) : asked[r][n] = "user"}

(* The Connection of an upgraded request carries the user that the first    *)
(* authenticator to know the request returned: of the authenticators of the *)
(* route it was looked up in, whatever create_route replaces meanwhile, and *)
(* of those the one that was asked last.                                    *)
AdmittedAsKnown ==
  \A r \in Requests : answer[r] = "switching" =>
    LET user == Len(asked[r])
    IN  /\ user <= routes[handler[r]].auth
        /\ KnownAs(r) \subseteq {user}
        /\ \A c \in conn[r] : c.user = IF KnownAs(r) = {} THEN 0 ELSE user

(* guides/authentication.md: "If all return `None`, the connection proceeds *)
(* with `conn.user = None`".                                                *)
NoneProceeds ==
  \A r \in Requests : answer[r] = "unauthorized" =>
    coro[r] = "raised" \/ \E n \in 1 .. Len(asked[r]) : asked[r][n] = "raises"

(* What holds instead: a request is refused for want of a user when all     *)
(* authenticators of its route were asked in vain, or else because its      *)
(* async connect("before") raised.                                          *)
RefusedWasTried ==
  \A r \in Requests : answer[r] = "unauthorized" =>
    \/ KnownAs(r) = {} /\ Len(asked[r]) = routes[handler[r]].auth /\ coro[r] = "none"
    \/ coro[r] = "raised" /\ routes[handler[r]].before = "async"

(* The response waits for connect("before"): it has returned, and what a    *)
(* sync one chose is what is negotiated and what the Connection shows.      *)
BeforeDecides ==
  \A r \in Requests : answer[r] = "switching" =>
    LET before == routes[handler[r]].before
    IN  /\ before = "async" <=> coro[r] = "returned"
        /\ before = "sync" => conn[r] = {incoming[r]}

(* A request that was taken up is answered unless its client left.          *)
RequestsAreAnswered ==
  \A r \in Requests :
    phase[r] # "arriving" ~> answer[r] # "none" \/ r \in gone \/ aborted

(* The handshake implements Admission.                                      *)
Accepted ==
  {r \in Requests : handler[r] # 0 /\ (routes[handler[r]].auth = 0 \/ KnownAs(r) # {})}

Verdict(r) ==
  IF answer[r] = "switching" THEN "admitted"
  ELSE IF answer[r] # "none" THEN "refused"
  ELSE IF r \in gone THEN "left" ELSE "pending"

A == INSTANCE Admission WITH accepted <- Accepted, verdict <- [r \in Requests |-> Verdict(r)]

(* Every request gets one verdict, and is admitted only after it was        *)
(* accepted.                                                                *)
Admits == A!ASpec

(* guides/authentication.md: "If one raises `AuthenticationFailed`, the     *)
(* connection is rejected".                                                 *)
RaiseRejects ==
  \A r \in Requests : \A n \in 1 .. Len(asked[r]) :
    asked[r][n] = "raises" => answer[r] # "switching"
=============================================================================
