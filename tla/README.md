# webrockets in TLA+

webrockets is a websocket server with Python callbacks: a Rust core
(`src/src`, tokio + axum + fastwebsockets + PyO3) and a thin Python package
(`src/python/webrockets`).  This directory holds TLA+ modules translated from
that code, TLC configurations that check them on small instances, and theorems
with proofs checked by TLAPS.  `PROJECT.json` maps every definition to the lines
it stands for, lists the runs, the mutants that show that each property can
fail, the findings, the hazards and the theorems.

## 1. Inventory

| Component | State | Operations | Hard behaviour | What makes it correct |
|---|---|---|---|---|
| **Channel store** `channel_store.rs` | id counter, `senders` (id -> mailbox sender), `groups` (name -> ids), two DashMaps | register, register_with_group, join, leave, remove, broadcast, get_groups, group_size | every map operation interleaves with every other; broadcast iterates while members come and go; full mailboxes are served by spawned tasks | an id leads to one mailbox; a group lists live connections; a broadcast reaches all stable members, never the excluded or a removed one; nothing is lost or doubled |
| **Connection handle** `connection.rs` | sender, store, id (filled in by handle_client) | send, asend, close, aclose, broadcast, abroadcast, join, leave, groups, group_size | called from tokio workers and from the asyncio thread, and after the connection is gone; an asend that waits for a slot may be cancelled | order of the calls = order on the wire; no call panics |
| **Connection life cycle** `server.rs`, `callback.rs` | three tasks, mailbox receiver, socket halves | handle_client, send_listener, receive_listener, Callback::invoke | first-to-end aborts the other task; abort acts at the next await; sync callbacks block a task, async ones run detached | order of callbacks; nothing after a close frame; whatever ends a connection, it is removed and nobody stays waiting |
| **Receive handlers** `route.rs`, `receive_handler.rs`, `server.rs` | mutable handler map, its frozen clone (OnceLock), generic handler | receive decorators, frozen_handlers, matching | duplicates found half-way, decorators after the first connection, overlapping patterns | registration is all or nothing; all connections use one table; the earlier key wins |
| **Handshake** `server.rs`, `connection.rs`, `auth.py`, `django/auth.py` | context and registry of routes, IncomingConnection | create_route, lookup, authenticators in turn, connect("before"), upgrade | a route is replaced, or the client leaves, while Python runs in a blocking thread; sync and async callbacks fail differently; the copy is taken before the async callback ran | a request is upgraded as the user that knew it; one verdict for each request; everybody is answered |
| **Server life cycle** `server.rs`, `lib.rs` | watch channel, runtime, event loop | start, stop | stop before start, a bind that fails, Ctrl-C, a second run | a stop reaches the listener of the run; a message is not dispatched twice |
| **Broker listener** `broker/` | back-off, subscription | listen, dispatch | reconnection, lost messages, shutdown while sleeping | order, at most once, no gap without a lost connection; it ends when told |
| **Broker publisher** `broker/broadcaster.rs`, `redis.rs`, `amqp.rs` | global Broadcaster, cached connection behind a lock | setup, reset, broadcast, abroadcast | cached connection that broke; several calls that connect; reset or cancellation during a send | one working connection; at most one publication per call; a call that returns was published; calls return |
| **Client** `client/` | reader and writer behind locks | connect, send, recv, ping, pong, close | timeout or cancellation inside a frame; a frame that is too large; answers written by readers; a peer that stops reading | frames are whole; a message reaches one recv; control frames are answered |
| **Python package** | -- | Django set-up, command, test doubles | -- | glue |

How they interact: `handle_ws_upgrade` runs the handshake and spawns
`handle_client`, which registers the mailbox in the channel store, runs
connect("after") and spawns `send_listener` (mailbox -> socket) and
`receive_listener` (socket -> handlers).  Handlers call back into the store
through their `Connection`.  `start()` spawns a broker listener, which
broadcasts into the store without the GIL what any process has published
through its Broadcaster.  The only things shared are the store, the mailboxes,
the registry, the watch channel, the global Broadcaster and the GIL.

## 2. Modules

```
TokioMpsc              the mailbox: tokio::sync::mpsc as the code uses it (external)
  ChannelStore         the connection table and every operation on it
    ChannelStore_proofs
    HandleClient       composes the table with the tasks, callbacks and peer of a connection
      HandleClient_proofs
MatchRegistry          decorators, frozen table, choice of the handler
  MatchRegistry_proofs
Admission              abstract: accepted before admitted, a verdict is final
Handshake              create_route, authentication, connect("before"), upgrade
  Handshake_proofs
Topic                  abstract: each listener hears the topic in order, once, with gaps
BrokerListener         the listeners of a server and the broker
  BrokerListener_proofs  lemmas on them, cited by the two proofs below
  ServerLifecycle      start and stop, which spawn and end them
    ServerLifecycle_proofs
  BrokerPublisher      composes the listener of one process with the publisher of another
    BrokerPublisher_proofs
Client                 the locks, timeouts and frames of a client connection
  Client_proofs
MC*.tla, *.cfg         instances for TLC
```

### TokioMpsc (external)
A mailbox is a queue, a number of free slots, the tasks that wait in
`send().await`, those granted a slot, and whether the receiver lives.  A slot
released by `recv` goes to the head of the line, so `try_send` cannot overtake a
waiter, but it overtakes a spawned task that was not polled yet; two tasks with
granted slots push in the order the runtime polls them.  A send that is dropped
(Withdraw) leaves the line and passes a slot it was granted to the next in it.

### ChannelStore
One action is one operation on a DashMap, on the counter or on a mailbox.
`register` is RegisterFetch, RegisterInsert, JoinDefault; `remove` is
RemoveSender, SweepGroup for each group, RemoveReturns; `broadcast` is Begin,
OpenGroup (the read lock of the group's shard), then for each member PassMember,
HitMember or BlockedMember, CloseGroup, and Return (with the spawn of the task
for the blocked senders) or SpawnPanics; that task is LatePolled and
LateRedeemed.  The iteration order within a group and of `remove` over the groups
is open, as in DashMap.

* Locks.  `join` needs the write lock of a shard and therefore waits while a
  broadcast iterates the group (`Iterated`).  `leave` and `remove` wait only while the
  iteration is at the part of the inner set their id lies in; the model lets them go
  ahead, which adds behaviours and takes none away.
  A group that is absent and one that is empty are the same in the model: no
  operation tells them apart.
* GIL.  The methods of Connection never release it, so a Python caller is one
  broadcaster (`Python`), and its other calls wait for the broadcast (`GilFree`).
  Broker listeners are the other broadcasters.
* Threads.  A callback runs on a tokio worker ("worker") or on the asyncio thread
  ("loop").  Off the runtime `tokio::spawn` panics, and the release profile aborts
  on panic: SendPanics, SpawnPanics set `aborted`, after which nothing happens.
  asend and aclose hand the message to the runtime of pyo3_async_runtimes, which
  asks for a running event loop and raises on a worker.
* Cancellation.  What send and close spawn nobody can stop, but what asend and aclose
  return on a full mailbox is the waiting send itself (`future` = "awaited"): when
  the awaitable is cancelled it is dropped, its message with it, and a slot it was
  granted goes to the next waiter (CancelSend).  It is dropped only while it waits:
  at its first poll it is done, waits, or fails.
* History.  `hits`, `taken`, `due`, `lateJoins` are written only, for the properties.

### HandleClient
The state machine of `handle_client` (`handle`), of `send_listener`
(`sendTask`, `inHand`) and of `receive_listener` (`recvTask`), the running
callbacks (`cb`, `coros`) and the peer's side of the socket.  Each step that
touches the table is the action of ChannelStore of that name, so that every
step is one of the store or leaves it alone.  `tokio::select!` takes either task when
both have ended.  `abort()` is a request: a task that is inside a sync callback
goes on until it is back in its loop, and may even handle further frames.  An
async callback becomes a coroutine that outlives whatever it likes.

### MatchRegistry
The nested IndexMap is the sequence of its (key, value, handler) entries.  A
decorator call is RegisterMatch, RegisterGeneric or Rejected; Connect is what
`handle_client` copies for a connection; Receive is the choice made by
`receive_listener` for one frame.

### Handshake and Admission
`create_route` is PushRoute (the context, read once by `start()` in BuildRouter)
and InsertRoute (the registry, read by each request), with anything in between.
A request looks its route up once (Lookup, `handler`), and Route is that route
from then on.  Authenticators return a user, return None or raise, each in an
action of its own, for each is a call into Python; then connect("before"), the
copy (Upgrade), and the response.  An async callback is a coroutine (`coro`)
that ends whenever it likes, and the response waits for it.  When the client
leaves, hyper drops the task: the blocking thread goes on (Abandon, Discarded)
and answers nobody.  Admission is the promise, with two variables: who is
accepted, and the verdict; the refinement mapping derives both from what the
authenticators returned and from the response.

### BrokerListener, ServerLifecycle and Topic
The loops of `Redis::listen` and `Amqp::listen` are one module: connecting
(which fails at any await), sleeping, subscribed, ended; `select!` is the choice
between ShutdownSeen, Dispatch and StreamEnds.  The watch channel is the number
of its sends: a receiver has seen one of them, and `changed()` is ready when
that is not the last.  The broker gives a message to those subscribed when it
takes it; a lost connection loses a tail of what was on its way.
ServerLifecycle adds the calls of `start()`: marking, spawning, binding, serving,
draining.  EarlierStops is a stop() made before the first start().  Topic is what a
server may hear of the published messages: in order, each once, with gaps.

### BrokerPublisher
A call of `broadcast` or `abroadcast` clones the Broadcaster, waits for its lock,
takes the cached connection or connects while it keeps the lock, writes, and
with Redis waits for the reply.  It runs on a plain thread, on a worker of a
runtime (a sync callback) or as an asyncio task, which may be cancelled at any
await.  setup_broadcast and reset_broadcast replace the Broadcaster; whoever drops the
last reference to it on a thread of a runtime aborts the process, because it
owns a Runtime (`aborted`).  The broker and the listener of another process are those of BrokerListener.

### Client
A call joins the queue of the reader's or the writer's lock; a frame is read in
two steps and written in two, because a timeout or a cancellation may fall
between.  The recv that read a ping or a close answers it itself, under the
writer's lock, while it has the reader's.  A dropped part of a frame leaves
`desync` or `torn`, or not (when nothing of it had been read or written yet).  A
frame above `max_message_size` ("large") raises when its header has been read and
leaves its payload in the stream: `desync` without a timeout or a cancellation.
Out of step, a read finds no frame and raises; that the bytes of a payload may
by chance read as a frame is left out.

## 3. Runs

| Run | Instance | Shows |
|---|---|---|
| ChannelStore | 2 connections (one with a default group), mailboxes of 1 slot, 2 groups, a list with both, GIL and a broker listener, 1 message, join/leave/broadcast from one connection's callbacks | TypeOK, OwnEntry, MembersHaveSenders, DeadMembersJoinedLate, StableMembersAreHit, RemovedIsNotHit, NothingLostWhileOpen |
| StoreAsyncBroadcast | 2 connections, 1 slot, 2 broadcasts, of callbacks on either thread and of a listener, no send or close | refutes BroadcastNeverAborts |
| HandleClient | 1 connection, 2 routes that mix sync and async callbacks, 2 slots, 3 messages (send, asend, close, aclose, broadcast), from the peer 1 frame and a close frame | NothingAfterClose, FifoUnlessFull, CloseFlushes, CallbackOrder, ServedIsReachable, DisconnectSkipped, NothingLostWhileOpen, PeerLeavesRemoved, CloseEndsConnection, MailboxReleased, HitsArrive |
| HandleDisconnect | the same with 1 message | refutes DisconnectFollows |
| MatchRegistry | 7 decorator arguments, 3 calls, 6 documents, 2 connections | AllOrNothing, EarlierKeyWins, OneTable |
| MatchOrder | the same | refutes RegistrationOrder |
| Handshake | 2 requests, 2 calls of create_route out of 3 kinds (2 authenticators and a sync callback, 1 and an async one, none), 1 subprotocol | AdmittedAsKnown, BeforeDecides, RequestsAreAnswered, Admits |
| HandshakeRaise | the same | refutes RaiseRejects |
| HandshakeNone | the same with 1 call of create_route | refutes NoneProceeds |
| ServerLifecycle | 2 runs, a stop before and one during, 2 messages (the first malformed), 1 failure | StopReachesListener, TwinsAreLeftovers, SubscribersMissNothing, DeliversAsTopic, ListenersEnd |
| BrokerPublisher | both brokers, 3 calls by a thread and a task, 1 failure, 1 setup or reset, 1 listener | OneLiveLink, PublishedOnce, OkIsHeard, RaisesForCause, CallsReturn |
| Client | 3 calls of any kind, 2 frames (data, ping, close, too large) | WholeFrames, MessagesReachOne, ControlAnswered, TimedRecvReturns, WritesReturn |

Bounds.  CHANNEL_BUFFER_SIZE (10000 in the code) is 1 or 2, so that a mailbox
fills; one slot more than the waiting tasks already shows every order of
try_send, wait and grant.  MaxMsg bounds the messages: one is enough for a
broadcast to race joins, leaves and removals (and to find a mailbox of one slot
full, for a member of both of its groups is offered it twice), three fill a mailbox
of two and leave one to a task or to a call that is cancelled.  Two connections are enough for one to be the member
another one's operation meets; one is enough where the property is about one
connection's own tasks (HandleClient).  There a peer sends MaxFrames = 1 data or bad frame before a
close frame, which it may also send at once.  MaxReg = 3 is one handler of the first key, one of another and
one more of the first.  A pong, which is read and raises, is left out of the client's
instance and covered by the proofs.  MaxRoutes = 2 replaces a route once, which two requests
see before and after.  Two runs make one listener that is left over and one that
is not; one failure is a reconnection or a failed attempt, anywhere.  Three
calls of the publisher are one that connects, one that waits for it and one that
finds what they left.  Three calls of the client are one that reads, one that
waits for the reader and one that writes, or two writers and a recv that
answers.  The runs set CHECK_DEADLOCK FALSE because the systems stop when the
bounds are used up.

### Disagreements with the documentation
Five are runs that TLC refutes; each property is the sentence of the docs, and
where something else holds instead, a passing run says what.

* StoreAsyncBroadcast: `abroadcast` in an async callback ends the process when a
  mailbox is full (`channel_store.rs:106` spawns off the runtime;
  `reference/connection.md:189`).  The run makes no other call, so that the trace
  is that of a broadcast: a listener's message fills a mailbox, and the
  callback's finds it full.  `send` and `close` of an async callback panic in the
  same way (`connection.rs:168`, `:212`; SendPanics).
* HandshakeRaise: an authenticator that raises does not reject the connection
  (`guides/authentication.md:14`): `server.rs:140` drops the error and asks the
  next one.
* HandshakeNone: when all authenticators return None the request is answered 401
  (`server.rs:206`), while the next line of that guide has the connection proceed
  with `conn.user = None`.  What both agree on is AdmittedAsKnown: as whom a request
  is upgraded.  That the code refuses only such requests, and those whose async
  connect("before") raised, is the theorem RefusalsWereTried.
* HandleDisconnect: a client that leaves without a close frame is removed without
  the disconnect callback (`server.rs:405`; `guides/quick-start.md:104`: "Called
  when a client disconnects:").  DisconnectSkipped says when that happens: a failed
  read, or a send task that ended first.
* MatchOrder: handlers are tried by key, not in registration order
  (`server.rs:339`; `reference/match.md:177`, `guides/pattern-matching.md:178`,
  `reference/route.md:180`).  EarlierKeyWins says which order it is.

The others are smaller, and no run is about them alone.

* A callback that outlives its connection and joins a group stays counted by
  `group_size` (`reference/connection.md:300`): DeadMembersJoinedLate says to which
  joins that happens.
* A matched handler whose validation fails is not followed by the fallback
  (`reference/match.md:173`; DispatchMatch).
* The timeout of recv holds once the call has the reader; `reference/client.md:156`
  can be read as a promise for a call that waits for it too.  TimedRecvReturns is
  restricted to the former.

### Fairness
tokio polls every task that is ready, so each task's next step is weakly fair:
the spawned task of a broadcast, the tasks of a connection, `remove` and the loop
of `broadcast`, neither of which contains an await; a handshake, a listener, a
run, a call of the publisher or of the client.  Sync callbacks, authenticators and coroutines
return (an application's duty).  A write completes unless the peer is in
`Stalled`, or the client's link is stalled; nothing is assumed of what Python code or a
peer chooses to do, of CancelSend, nor of DropRx, which the code does only when a task
ends.  The liveness properties are of the form "again and again" (`[]<>`): whatever was
asked for is done, or the process has died, again and again, so that a task which stays
behind for good refutes them although others come and go.
HitsArrive is checked with a peer that keeps reading: with one stalled it fails for the
others, because the spawned task awaits the blocked senders one after the other
(`channel_store.rs:107`).  It and CloseEndsConnection leave out a message whose
asend or aclose was cancelled while it waited, and only that.  ListenersEnd relies on the broker accepting a
subscription in the end (failures are bounded): while it does not, a listener
that was told to end goes on trying, as the code does.  The client's timers
fire (WF of Timeout); a cancellation is never assumed.

## 4. Proofs

| Module | Theorem | Property |
|---|---|---|
| ChannelStore_proofs | TypeCorrect | TypeOK |
| | EntriesAreOwn | OwnEntry |
| | MembersAreServed | MembersHaveSenders |
| | OnlyLateJoinsRemain | DeadMembersJoinedLate |
| | SenderIsExcluded | ExcludedNeverHit |
| | RemovedConnectionsAreNotHit | RemovedIsNotHit |
| | StableMembersAreReached | StableMembersAreHit |
| | NothingIsLost | NothingLostWhileOpen |
| MatchRegistry_proofs | CallsAreAllOrNothing | AllOrNothing |
| | TableIsShared | OneTable |
| | EarlierKeysWin | EarlierKeyWins |
| Handshake_proofs | ShakeTypes | ShakeTypeOK |
| | AdmittedAsWhomKnown | AdmittedAsKnown |
| | RefusalsWereTried | RefusedWasTried (stated, not in a run) |
| | BeforeComesFirst | BeforeDecides |
| | HandshakeAdmits | Admits (the refinement) |
| ServerLifecycle_proofs | STypes | STypeOK |
| | ListenersHearTheTopic | DeliversAsTopic (the refinement) |
| | NothingIsMissed | SubscribersMissNothing |
| | StopReaches | StopReachesListener |
| | TwinsLeftOver | TwinsAreLeftovers |
| HandleClient_proofs | CompositionIsSound | StoreSafety (the steps of ChannelStore) |
| | TableStaysCorrect | TableInv and MsgInv, in the composition |
| | CallbacksAreInOrder | CallbackOrder |
| | ServedConnectionsAreReachable | ServedIsReachable |
| | DisconnectIsSkippedForCause | DisconnectSkipped |
| | CloseIsTheLastFrame | NothingAfterClose |
| | CallbackMessagesAreInOrder | FifoUnlessFull |
| | ClosePreservesEarlierMessages | CloseFlushes |
| | TableKeepsItsPromises | StableMembersAreHit and NothingLostWhileOpen, in the composition |
| | AcceptedIsWritten | WireHasAll (stated with its proof) |
| BrokerPublisher_proofs | LinksAreSingle | OneLiveLink |
| | PublishedAtMostOnce | PublishedOnce |
| | RaisedForCause | RaisesForCause |
| | ReturnedIsHeard | OkIsHeard |
| | ListenersHearOnce | HeardOnce (stated with its proof) |
| Client_proofs | MessagesAreNotLost | MessagesReachOne |
| | FramesStayWhole | WholeFrames |
| | ControlFramesAnswered | ControlAnswered |

They hold for all constants that satisfy the named assumptions of the modules:
any sets of connections, requests, listeners; any buffer size; any number of
authenticators, routes, stops, failures and messages.

**ChannelStore.**  The inductive invariant is TableInv: TypeOK, IdInv (ids are
given out once and lie below the counter, and OwnEntry), MemberInv (every id in
a group is that of a connection that has registered) and SweepInv (what a
removal has passed is clean but for late joins).  OwnEntry alone is not
inductive: that two connections never share an id needs the counter to be above
all ids in use.  For the messages MsgInv adds that running broadcasts carry
different messages, none above `sent`, and that messages not yet sent have hit
nobody: without it a send could be taken for a hit of a running broadcast.
StableMembersAreHit speaks only of the end of the loop; DueInv says what holds
on the way: whoever is due is still in the table and in the group, and either
still to be yielded (its group is in the rest of the list, or is being iterated
and has not yielded it), or excluded, or has been offered the message.  It is
kept because hits are never taken back, a closed mailbox stays closed, and a
member loses its entry or its group only by a step that ends its being due.
NothingLostWhileOpen finds the broadcast that owes a message with CHOOSE; the
proof needs that at most one carries it (MsgInv) and that a message with a
spawned task is owed by no running broadcast any more (OweInv), and then follows
each step through LossInv, its account for one message and one connection.  The
account has a fourth place and a loss: a message with a waiting asend or aclose is
owed, and once that call was cancelled it is nowhere.  FutureInv says what may be
cancelled: a message that is awaited is with one task, for one connection, is owed
by no broadcast and was accepted once; so CancelSend takes exactly one from the
account (CancelLoses), and no later step can (AccountKept).
How often a sequence holds a value is a cardinality of positions, so the lemmas
on Occurs (a message appended, the first one taken) are about finite sets of
positions and need no induction.

**MatchRegistry.**  RegistryInv adds to AllOrNothing that a pair belongs to a
decorator call that was made, so that the pairs of a new call are no older
call's.  That all pairs are there is arithmetic: PairsOf numbers them by
division.  ViewInv: the frozen table is one and every connection's.
For EarlierKeyWins, OrderInv: entries keep the order of the handlers in every
table, the live one and the frozen one; the entry selected is the least of the
matching ones in the order of keys (LeastMember), so a handler registered before
it that also matches has a later key.

**Handshake.**  IInv says of each request what its phase tells of its past:
EarlyInv (before the callback nobody was known and no coroutine exists), LateInv
(a request that got past `authenticated()` carries the user of the last
authenticator asked, and the copy made by upgrade is the one of a sync callback) and
RefusedInv.  AdmittedAsKnown is not inductive: nothing in it speaks of a request
that is not answered yet.  The refinement has a lemma for the steps that leave
what Accepted and Verdict read alone, and a step for each of the others.

**BrokerListener.**  Its lemmas are about its own steps (BStep), so that both
modules that run listeners cite them.  OrderInv: what a listener has dispatched
and what is still in its stream increase, and the former precedes the latter.
DueInv is SubscribersMissNothing in terms that steps preserve.  EndedInv:
nothing is due to a listener that has ended.

**ServerLifecycle.**  With OrderInv every Dispatch is a Hear of Topic.  StopInv:
a listener has seen what it saw first (it never marks the channel again), it has
dispatched nothing before it was polled, and two runs do not serve at once;
TwinsAreLeftovers follows from OrderInv's freshness and the exclusion of two
serving runs.

**HandleClient.**  HStepIsStep maps every step to a step or a stutter of the
table, so that TableInv and MsgInv hold here without a second proof.  On top of
them: LifeInv says which tasks exist in which phase of handle_client, which
callback runs on which of them, and that after a disconnect callback the receive
task is closing or has ended.  ControlInv ties the phase to the stage of the
connection in the table, and the send task to its mailbox: removal starts only
when one of the tasks has ended, which is why two running tasks imply an entry.
EndInv gives the reason why a receive task has ended.  NumberInv and ClosedInv
say that no message on its way carries a number not yet given out, so that a
close that a callback sends now is none of them.

The order on the socket is about one sequence, the line of a connection: its
wire, then the message in the send task's hand, then the mailbox.  LineInv: the
tracked messages (`fifo`) come in the order of their calls on the line, and
what was accepted before a message of the line lies before it.  It is
inductive only with FifoInv (a tracked message is with no spawned task, and the
broadcast that holds the GIL has the highest number of them), for otherwise a
task could put an old message at the end of the line.  FifoUnlessFull follows
because the wire is the front of the line.  It says `<=` and not `<`: a broadcast
to two groups of one connection sends its message to it twice.  CloseFlushes
is LineInv of a close on the wire.  Its second half needs AcceptInv: a tracked message that was
accepted is on the line, or the running broadcast is about to hand it to a task
(and then it is no longer tracked).  WireInv equates what the send task took with what it wrote and
holds; with NothingLostWhileOpen it gives WireHasAll, the account of each message from
the call to the socket, in which a cancelled asend or aclose is the one loss.
CancelSend touches neither queue nor line (Withdraws, CancelIsAside).

**BrokerPublisher.**  ConnectsAlone: a call that connects holds the lock of its
Broadcaster, and what is cached there does not work.  OnceInv: a message on its
way, or taken, is that of a call past its write; it is at one place of one
connection and has not been taken.  RaisesForCause: CauseInv says where a call
whose connection is broken stands, and that with AMQP it broke during the call,
which had looked at its status.  OkIsHeard: OkInv says that a call that returned is
among those taken (or, with AMQP, under way or its connection dead), that the
broker counts what it takes, and that no more connections were made than there
are numbers for (Linked: the calls that may have made one), without which the
connection of a new call would have no place in `live`; DueInv of the listeners does the rest.
HeardOnce combines OnceInv (a call is taken once) with OrderInv (a number is
dispatched once).

**Client.**  ReaderInv: unless the stream is out of step, a call between the two
halves of a frame is the one whose frame is partly read; only calls that read
ever have a frame.  LockInv: a call inside a read, or answering, is the head of
the reader's queue, and one inside a write the head of the writer's; so two are
never inside a frame of one direction.  WholeFrames needs besides that an oversized
frame is the next one for good: out of step, nothing is read any more, and the peer
only appends.  AnswerInv and CareInv: the frame that is
being answered is the last one read, every answer is to an earlier one, and
what became of each ping and close that was read.

Every safety property of the passing runs is stated by a theorem.  Only
model-checked are the liveness properties (HitsArrive, PeerLeavesRemoved,
CloseEndsConnection, MailboxReleased, RequestsAreAnswered, ListenersEnd,
CallsReturn, TimedRecvReturns, WritesReturn): fairness and ENABLED are out of the
prover's reach.  The five properties that TLC refutes have a counterexample each.

## 5. Not modelled

* The content of messages, logging, HTTP and TLS, the framing of fastwebsockets,
  `get_groups`, request data of BaseConnection, close codes and reasons.
* The user a connect("before") callback may assign itself (`conn.user` is
  settable); what an authenticator class does inside (`auth.py`, `django/auth.py`).
* Python's borrow checks on routes: a decorator run while a connect callback of
  the route runs panics (`route.rs:311`).  The panics of `blocking_write` on a
  runtime's thread (`server.rs:506`).
* Numbers of a JSON document beyond i64, or 1.0 for 1 (`route.rs:28`).
* `ws_connect` and its timeout, connecting a client object again, ClientConfig.
* An AMQP queue shared by name (`amqp.rs:53`), the length of the back-off, the
  runtime that drives a cached connection (`redis.rs:127`).
* The Python package: glue, whose calls are actions of the modules above.

## 6. Plan

Done: every component but the glue has its module.  What would add most next:

1. HandleClient against an abstract connection (registered, serving, removed;
   frames in the order of calls), whose steps LineInv and ControlInv already
   describe.
2. The composition publisher -> broker -> listener -> ChannelStore down to the
   mailbox: HeardOnce stated for connections, with a second listener of the same
   process as the way it fails (TwinsAreLeftovers).
