---------------------------- MODULE BrokerListener ----------------------------
(***************************************************************************)
(* The tasks that listen to the broker for a server: Broker::listen of     *)
(* src/src/broker/redis.rs and amqp.rs, whose loops are the same, and      *)
(* BrokerMessage::dispatch.  A listener is told to end through a watch     *)
(* channel, of which only the number of its sends matters.                 *)
(***************************************************************************)
EXTENDS Naturals, Sequences

CONSTANTS
  Listeners,
  Malformed,     \* messages that are not JSON of the expected form
  MaxPublished,  \* bound: messages taken by the broker
  EarlierStops,  \* calls of stop before the behaviour begins
  MaxStops,      \* bound: calls of stop in it
  MaxFailures    \* bound: failed attempts to subscribe and lost connections

ASSUME ListenerBounds ==
  MaxPublished \in Nat /\ EarlierStops \in Nat /\ MaxStops \in Nat /\ MaxFailures \in Nat

VARIABLES
  version,     \* sends on the watch channel
  seen,        \* the version a listener has seen
  first,       \* history: the version when it was first polled
  listener,    \* what a listener does next
  stream,      \* messages of its subscription, not handled yet
  cut,         \* subscriptions whose connection is lost
  failures,    \* number of failures so far, for the bound
  published,   \* number of messages the broker has taken, in their order
  dispatched,  \* history: what a listener has handed to its ChannelStore
  due          \* history: what was published to its subscription and not lost,
               \* while the listener has not ended

bvars == <<version, seen, first, listener, stream, cut, failures, published, dispatched, due>>

(* at is what the listeners do when the behaviour begins.                   *)
BInit(at) ==
  /\ version = EarlierStops
  /\ seen = [l \in Listeners |-> 0]
  /\ first = [l \in Listeners |-> 0]
  /\ listener = [l \in Listeners |-> at]
  /\ stream = [l \in Listeners |-> << >>]
  /\ cut = {}
  /\ failures = 0
  /\ published = 0
  /\ dispatched = [l \in Listeners |-> << >>]
  /\ due = [l \in Listeners |-> {}]

-----------------------------------------------------------------------------
(* stop(): the send succeeds, for the server keeps a receiver.              *)
Stop ==
  /\ version < EarlierStops + MaxStops
  /\ version' = version + 1
  /\ UNCHANGED <<seen, first, listener, stream, cut, failures, published, dispatched, due>>

(* The task is spawned with a clone of a receiver that has seen nothing,    *)
(* and marks the current value seen when it is first polled.                *)
Spawn(l) ==
  /\ listener[l] = "none"
  /\ listener' = [listener EXCEPT ![l] = "spawned"]
  /\ UNCHANGED <<version, seen, first, stream, cut, failures, published, dispatched, due>>

Listen(l) ==
  /\ listener[l] = "spawned"
  /\ listener' = [listener EXCEPT ![l] = "connecting"]
  /\ seen' = [seen EXCEPT ![l] = version]
  /\ first' = [first EXCEPT ![l] = version]
  /\ UNCHANGED <<version, stream, cut, failures, published, dispatched, due>>

(* Connecting fails at any of its awaits; the sleep does not watch the      *)
(* channel.                                                                 *)
ConnectFails(l) ==
  /\ failures < MaxFailures /\ failures' = failures + 1
  /\ listener[l] = "connecting"
  /\ listener' = [listener EXCEPT ![l] = "sleeping"]
  /\ UNCHANGED <<version, seen, first, stream, cut, published, dispatched, due>>

(* Mutant: the listener gives up.                                           *)
Wakes_Never(l) == listener[l] = "sleeping" /\ UNCHANGED bvars

Wakes(l) ==
  /\ listener[l] = "sleeping"
  /\ listener' = [listener EXCEPT ![l] = "connecting"]
  /\ UNCHANGED <<version, seen, first, stream, cut, failures, published, dispatched, due>>

(* Mutant: the value of the channel is marked seen for each subscription.   *)
Subscribe_Marks(l) ==
  /\ listener[l] = "connecting"
  /\ listener' = [listener EXCEPT ![l] = "subscribed"]
  /\ seen' = [seen EXCEPT ![l] = version]
  /\ UNCHANGED <<version, first, stream, cut, failures, published, dispatched, due>>

Subscribe(l) ==
  /\ listener[l] = "connecting"
  /\ listener' = [listener EXCEPT ![l] = "subscribed"]
  /\ UNCHANGED <<version, seen, first, stream, cut, failures, published, dispatched, due>>

(* The branches of select!, in the order the runtime likes.                 *)
ShutdownSeen(l) ==
  /\ listener[l] = "subscribed"
  /\ seen[l] # version
  /\ listener' = [listener EXCEPT ![l] = "ended"]
  /\ stream' = [stream EXCEPT ![l] = << >>]
  /\ cut' = cut \ {l}
  /\ due' = [due EXCEPT ![l] = {}]
  /\ UNCHANGED <<version, seen, first, failures, published, dispatched>>

(* Mutant: an error in one message drops what is queued behind it.          *)
Dispatch_ReconnectsOnError(l) ==
  /\ listener[l] = "subscribed"
  /\ stream[l] # << >>
  /\ IF Head(stream[l]) \in Malformed
       THEN stream' = [stream EXCEPT ![l] = << >>] /\ UNCHANGED dispatched
       ELSE /\ stream' = [stream EXCEPT ![l] = Tail(@)]
            /\ dispatched' = [dispatched EXCEPT ![l] = Append(@, Head(stream[l]))]
  /\ UNCHANGED <<version, seen, first, listener, cut, failures, published, due>>

(* Mutant: the message is taken off the stream when the next one is asked.  *)
Dispatch_Peeks(l) ==
  /\ listener[l] = "subscribed"
  /\ stream[l] # << >>
  /\ dispatched' = [dispatched EXCEPT ![l] = Append(@, Head(stream[l]))]
  /\ Len(dispatched[l]) < MaxPublished + 1
  /\ \/ stream' = [stream EXCEPT ![l] = Tail(@)]
     \/ UNCHANGED stream
  /\ UNCHANGED <<version, seen, first, listener, cut, failures, published, due>>

Dispatch(l) ==
  /\ listener[l] = "subscribed"
  /\ stream[l] # << >>
  /\ stream' = [stream EXCEPT ![l] = Tail(@)]
  /\ dispatched' = IF Head(stream[l]) \in Malformed THEN dispatched
                   ELSE [dispatched EXCEPT ![l] = Append(@, Head(stream[l]))]
  /\ UNCHANGED <<version, seen, first, listener, cut, failures, published, due>>

StreamEnds(l) ==
  /\ listener[l] = "subscribed"
  /\ l \in cut /\ stream[l] = << >>
  /\ listener' = [listener EXCEPT ![l] = "connecting"]
  /\ cut' = cut \ {l}
  /\ UNCHANGED <<version, seen, first, stream, failures, published, dispatched, due>>

-----------------------------------------------------------------------------
(* The broker: a message goes to those that are subscribed when it is taken *)
(* and to nobody else; with a connection goes what was still on its way.    *)
Subscribed == {l \in Listeners : listener[l] = "subscribed" /\ l \notin cut}

Publish ==
  /\ published < MaxPublished
  /\ published' = published + 1
  /\ stream' = [l \in Listeners |-> IF l \in Subscribed THEN Append(stream[l], published + 1)
                                                         ELSE stream[l]]
  /\ due' = [l \in Listeners |-> IF l \in Subscribed THEN due[l] \cup {published + 1}
                                                      ELSE due[l]]
  /\ UNCHANGED <<version, seen, first, listener, cut, failures, dispatched>>

LoseConnection(l, n) ==
  /\ failures < MaxFailures /\ failures' = failures + 1
  /\ l \in Subscribed
  /\ n \in 0 .. Len(stream[l])
  /\ cut' = cut \cup {l}
  /\ stream' = [stream EXCEPT ![l] = SubSeq(@, 1, n)]
  /\ due' = [due EXCEPT ![l] = @ \ {stream[l][i] : i \in n + 1 .. Len(stream[l])}]
  /\ UNCHANGED <<version, seen, first, listener, published, dispatched>>

-----------------------------------------------------------------------------
ListenerStep(l) ==
  \/ Listen(l) \/ Wakes(l) \/ Subscribe(l) \/ ShutdownSeen(l)
  \/ Dispatch(l) \/ StreamEnds(l)

BrokerStep ==
  \E l \in Listeners :
    ConnectFails(l) \/ \E n \in 0 .. MaxPublished : LoseConnection(l, n)

(* The tasks are polled.                                                    *)
ListenerFairness == \A l \in Listeners : WF_bvars(ListenerStep(l))

-----------------------------------------------------------------------------
(* Type invariant.                                                          *)
BTypeOK ==
  /\ version \in EarlierStops .. EarlierStops + MaxStops
  /\ seen \in [Listeners -> 0 .. version]
  /\ first \in [Listeners -> 0 .. version]
  /\ listener \in [Listeners -> {"none", "spawned", "connecting", "sleeping",
                                 "subscribed", "ended"}]
  /\ published \in 0 .. MaxPublished
  /\ stream \in [Listeners -> Seq(1 .. published)]
  /\ dispatched \in [Listeners -> Seq(1 .. published)]
  /\ due \in [Listeners -> SUBSET (1 .. published)]
  /\ cut \subseteq Listeners
  /\ failures \in 0 .. MaxFailures

(* What a server dispatches comes in the broker's order, each message once, *)
(* across reconnections: the listener implements Topic.                     *)
T == INSTANCE Topic WITH length <- published, heard <- dispatched
DeliversAsTopic == T!TSpec

(* A message published to a subscription and not lost with its connection   *)
(* is dispatched in the end: a malformed one before it, a reconnection or a *)
(* stop() still under way for another run takes nothing away.               *)
SubscribersMissNothing ==
  \A l \in Listeners : listener[l] # "ended" => \A n \in due[l] \ Malformed :
    \/ \E i \in DOMAIN dispatched[l] : dispatched[l][i] = n
    \/ \E i \in DOMAIN stream[l] : stream[l][i] = n
=============================================================================
