--------------------------- MODULE BrokerPublisher ---------------------------
(***************************************************************************)
(* broadcast and abroadcast through the process's Broadcaster              *)
(* (src/src/broker/broadcaster.rs), Broker::send of redis.rs and amqp.rs,  *)
(* the broker, and the listeners of other processes' servers               *)
(* (BrokerListener), which are not stopped here.                           *)
(***************************************************************************)
EXTENDS BrokerListener, SequencesExt

CONSTANTS
  Kinds,        \* the kinds of brokers configured: "redis", "amqp"
  Threads,      \* Python threads without a tokio runtime that call broadcast
  Workers,      \* sync callbacks, on threads of a runtime, that call broadcast
  Tasks,        \* asyncio tasks that call abroadcast
  MaxCalls,     \* bound: calls, numbered in the order they begin
  MaxSetups     \* bound: calls of setup_broadcast and reset_broadcast

ASSUME PublisherBounds ==
  /\ Kinds \subseteq {"redis", "amqp"}
  /\ MaxCalls \in Nat /\ MaxSetups \in Nat

VARIABLES
  kind,      \* the kind of broker
  current,   \* the Broadcaster of BROADCASTER, 0 for None
  setups,    \* number of the last Broadcaster, for the bound too
  holder,    \* call that holds a Broadcaster's lock across an await, or 0
  conn,      \* the connection a Broadcaster has cached, or 0
  owner,     \* sequence of the connections made: the Broadcaster of each
  live,      \* connections that work, as far as the client knows
  pipe,      \* calls whose message was written to a connection, not taken yet
  pc,        \* what a call does next, or how it ended
  by,        \* sequence of the calls begun: the caller of each
  gen,       \* the Broadcaster it cloned from BROADCASTER, or 0
  via,       \* the connection it publishes on, or 0
  taken,     \* the calls whose messages the broker took, in its order
  trouble,   \* history: calls during which a connection broke or failed
  aborted    \* the process has died

pvars == <<kind, current, setups, holder, conn, owner, live, pipe, pc, by, gen, via,
           taken, trouble, aborted>>
vars  == <<bvars, pvars>>

Callers      == Threads \cup Workers \cup Tasks
Calls        == 1 .. MaxCalls
Broadcasters == 1 .. MaxSetups + 1
Over         == {"ok", "raised", "cancelled"}
InFlight     == {i \in Calls : pc[i] \notin Over \cup {"unborn"}}

Init ==
  /\ BInit("connecting")
  /\ kind \in Kinds
  /\ current = 1 /\ setups = 1
  /\ holder = [g \in Broadcasters |-> 0]
  /\ conn = [g \in Broadcasters |-> 0]
  /\ owner = << >> /\ live = {}
  /\ pipe = [k \in Calls |-> << >>]
  /\ pc = [i \in Calls |-> "unborn"]
  /\ by = << >>
  /\ gen = [i \in Calls |-> 0]
  /\ via = [i \in Calls |-> 0]
  /\ taken = << >> /\ trouble = {} /\ aborted = FALSE

-----------------------------------------------------------------------------
(* The last Arc of a Broadcaster drops its Runtime, which panics where a    *)
(* runtime is running: the process aborts (Cargo.toml, panic).              *)
DroppedBy(i) == gen[i] \notin {0, current} /\ \A j \in InFlight \ {i} : gen[j] # gen[i]

End(i, how) ==
  /\ pc' = [pc EXCEPT ![i] = how]
  /\ aborted' = (by[i] \notin Threads /\ DroppedBy(i))

Step(i, at) == ~ aborted /\ pc[i] = at

(* broadcast, abroadcast: get_broadcaster.                                  *)
Begin(i, c) ==
  /\ Step(i, "unborn") /\ i = Len(by) + 1
  /\ \A j \in DOMAIN by : by[j] = c => pc[j] \in Over
  /\ pc' = [pc EXCEPT ![i] = IF current = 0 THEN "raised" ELSE "locking"]
  /\ gen' = [gen EXCEPT ![i] = current]
  /\ by' = Append(by, c)
  /\ UNCHANGED <<kind, current, setups, holder, conn, owner, live, pipe, via, taken,
                 trouble, aborted>>

(* Redis takes the cached connection as it is, AMQP looks at its status.    *)
(* Mutant: AMQP does not.                                                   *)
Usable_Cached(g) == conn[g] # 0

Usable(g) == conn[g] # 0 /\ (kind = "amqp" => conn[g] \in live)

(* The lock is kept only to connect.                                        *)
(* Mutant: it is given back before connecting.                              *)
Acquire_Unlocks(i) ==
  /\ Step(i, "locking")
  /\ holder[gen[i]] = 0
  /\ IF Usable(gen[i])
       THEN /\ pc' = [pc EXCEPT ![i] = "writing"]
            /\ via' = [via EXCEPT ![i] = conn[gen[i]]]
       ELSE /\ pc' = [pc EXCEPT ![i] = "connecting"]
            /\ UNCHANGED via
  /\ UNCHANGED <<kind, current, setups, holder, conn, owner, live, pipe, by, gen, taken,
                 trouble, aborted>>

Acquire(i) ==
  /\ Step(i, "locking")
  /\ holder[gen[i]] = 0
  /\ IF Usable(gen[i])
       THEN /\ pc' = [pc EXCEPT ![i] = "writing"]
            /\ via' = [via EXCEPT ![i] = conn[gen[i]]]
            /\ UNCHANGED holder
       ELSE /\ pc' = [pc EXCEPT ![i] = "connecting"]
            /\ holder' = [holder EXCEPT ![gen[i]] = i]
            /\ UNCHANGED via
  /\ UNCHANGED <<kind, current, setups, conn, owner, live, pipe, by, gen, taken, trouble, aborted>>

Connected(i) ==
  /\ Step(i, "connecting")
  /\ owner' = Append(owner, gen[i])
  /\ live' = live \cup {Len(owner')}
  /\ conn' = [conn EXCEPT ![gen[i]] = Len(owner')]
  /\ via' = [via EXCEPT ![i] = Len(owner')]
  /\ holder' = [holder EXCEPT ![gen[i]] = 0]
  /\ pc' = [pc EXCEPT ![i] = "writing"]
  /\ UNCHANGED <<kind, current, setups, pipe, by, gen, taken, trouble, aborted>>

(* Mutant: the lock is not given back.                                      *)
ConnectRaises_Keeps(i) ==
  /\ Step(i, "connecting")
  /\ failures < MaxFailures
  /\ trouble' = trouble \cup {i}
  /\ End(i, "raised")
  /\ UNCHANGED <<kind, current, setups, holder, conn, owner, live, pipe, by, gen, via, taken>>

ConnectRaises(i) ==
  /\ Step(i, "connecting")
  /\ failures < MaxFailures
  /\ trouble' = trouble \cup {i}
  /\ holder' = [holder EXCEPT ![gen[i]] = 0]
  /\ End(i, "raised")
  /\ UNCHANGED <<kind, current, setups, conn, owner, live, pipe, by, gen, via, taken>>

(* An AMQP channel without confirm_select confirms a publication when it is *)
(* written; Redis answers it.                                               *)
(* Mutant: the answer of Redis is not awaited.                              *)
Write_Forgets(i) ==
  /\ Step(i, "writing")
  /\ IF via[i] \in live
       THEN pipe' = [pipe EXCEPT ![via[i]] = Append(@, i)] /\ End(i, "ok")
       ELSE UNCHANGED pipe /\ End(i, "raised")
  /\ UNCHANGED <<kind, current, setups, holder, conn, owner, live, by, gen, via, taken, trouble>>

Write(i) ==
  /\ Step(i, "writing")
  /\ \/ /\ via[i] \in live
        /\ pipe' = [pipe EXCEPT ![via[i]] = Append(@, i)]
        /\ IF kind = "amqp" THEN End(i, "ok")
           ELSE pc' = [pc EXCEPT ![i] = "waiting"] /\ UNCHANGED aborted
     \/ /\ via[i] \notin live
        /\ End(i, "raised")
        /\ UNCHANGED pipe
  /\ UNCHANGED <<kind, current, setups, holder, conn, owner, live, by, gen, via, taken, trouble>>

(* Mutant: a lost answer makes the call publish again.                      *)
Reply_Retries(i) ==
  /\ Step(i, "waiting")
  /\ \/ via[i] \in live /\ Contains(taken, i) /\ End(i, "ok") /\ UNCHANGED conn
     \/ /\ via[i] \notin live
        /\ pc' = [pc EXCEPT ![i] = "locking"]
        /\ conn' = [conn EXCEPT ![gen[i]] = 0]
        /\ UNCHANGED aborted
  /\ UNCHANGED <<kind, current, setups, holder, owner, live, pipe, by, gen, via, taken, trouble>>

Reply(i) ==
  /\ Step(i, "waiting")
  /\ \/ via[i] \in live /\ Contains(taken, i) /\ End(i, "ok")
     \/ via[i] \notin live /\ End(i, "raised")
  /\ UNCHANGED <<kind, current, setups, holder, conn, owner, live, pipe, by, gen, via, taken,
                 trouble>>

(* The future of abroadcast is cancelled: it is dropped at its await.       *)
Cancel(i) ==
  /\ ~ aborted /\ i \in InFlight
  /\ by[i] \in Tasks
  /\ holder' = [g \in Broadcasters |-> IF holder[g] = i THEN 0 ELSE holder[g]]
  /\ End(i, "cancelled")
  /\ UNCHANGED <<kind, current, setups, conn, owner, live, pipe, by, gen, via, taken, trouble>>

(* setup_broadcast and reset_broadcast; in says whether the caller runs in a *)
(* runtime, where it drops the Broadcaster that was there if no call has it.*)
Replace(b, in) ==
  /\ ~ aborted /\ setups <= MaxSetups
  /\ setups' = setups + 1
  /\ current' = IF b THEN setups' ELSE 0
  /\ aborted' = (in /\ current # 0 /\ \A i \in InFlight : gen[i] # current)
  /\ UNCHANGED <<kind, holder, conn, owner, live, pipe, pc, by, gen, via, taken, trouble>>

-----------------------------------------------------------------------------
(* The broker takes what was written, also when the client has given the    *)
(* connection up; the tail of it may be lost.                               *)
Take(k) ==
  /\ pipe[k] # << >>
  /\ Publish
  /\ taken' = Append(taken, Head(pipe[k]))
  /\ pipe' = [pipe EXCEPT ![k] = Tail(@)]
  /\ UNCHANGED <<kind, current, setups, holder, conn, owner, live, pc, by, gen, via, trouble,
                 aborted>>

Break(k, n) ==
  /\ failures < MaxFailures
  /\ k \in live
  /\ n \in 0 .. Len(pipe[k])
  /\ live' = live \ {k}
  /\ pipe' = [pipe EXCEPT ![k] = SubSeq(@, 1, n)]
  /\ trouble' = trouble \cup InFlight
  /\ UNCHANGED <<kind, current, setups, holder, conn, owner, pc, by, gen, via, taken, aborted>>

Fails == failures' = failures + 1 /\ UNCHANGED <<version, seen, first, listener, stream, cut,
                                                 published, dispatched, due>>

CallStep(i) ==
  /\ Acquire(i) \/ Connected(i) \/ Write(i) \/ Reply(i)
  /\ UNCHANGED bvars

Next ==
  \/ \E i \in Calls :
       \/ CallStep(i)
       \/ Cancel(i) /\ UNCHANGED bvars
       \/ ConnectRaises(i) /\ Fails
       \/ \E c \in Callers : Begin(i, c) /\ UNCHANGED bvars
  \/ \E b, in \in BOOLEAN : Replace(b, in) /\ UNCHANGED bvars
  \/ \E k \in Calls : Take(k) \/ \E n \in 0 .. MaxCalls : Break(k, n) /\ Fails
  \/ /\ BrokerStep \/ \E l \in Listeners : ListenerStep(l)
     /\ UNCHANGED pvars

(* The calls are polled, connecting ends and the broker reads.              *)
Spec ==
  /\ Init /\ [][Next]_vars
  /\ \A i \in Calls : WF_vars(CallStep(i)) /\ WF_vars(Take(i))

-----------------------------------------------------------------------------
(* However many calls find no usable connection at once, a Broadcaster has  *)
(* one working connection, the one it has cached.                           *)
OneLiveLink == \A k \in live : conn[owner[k]] = k

(* No call's message is published twice, whatever became of the call.       *)
PublishedOnce == IsInjective(taken)

(* A call that returned without raising was published, and reaches every    *)
(* listener that was subscribed then and kept its connection; with AMQP it  *)
(* may still be on its way or be lost with the connection.                  *)
Reaches(i) ==
  \E n \in DOMAIN taken : taken[n] = i /\
    \A l \in Listeners : n \in due[l] \ Malformed => Contains(dispatched[l] \o stream[l], n)

OkIsHeard ==
  \A i \in Calls : pc[i] = "ok" =>
    \/ Reaches(i)
    \/ kind = "amqp" /\ (Contains(pipe[via[i]], i) \/ via[i] \notin live)

(* A call raises for what happened during it, or because broadcasting is    *)
(* not set up; with Redis also, until it is set up anew, because the cached *)
(* connection broke at any time before.                                     *)
RaisesForCause ==
  \A i \in Calls : pc[i] = "raised" =>
    gen[i] = 0 \/ i \in trouble \/ (kind = "redis" /\ via[i] \notin live)

(* Every call returns, whatever fails and whoever else connects, unless the *)
(* process dies (calls being bounded, there is a time without any).         *)
CallsReturn == []<>(InFlight = {} \/ aborted)
=============================================================================
