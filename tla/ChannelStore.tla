----------------------------- MODULE ChannelStore -----------------------------
(***************************************************************************)
(* The connection table of the server (src/src/channel_store.rs) and the   *)
(* operations on it.  One step here is one operation on a DashMap, on the  *)
(* id counter or on a mailbox: that is the grain at which the threads of   *)
(* the tokio runtime interleave.                                           *)
(*                                                                         *)
(* Who calls what:                                                         *)
(*   - the handle_client task of a connection registers it, joins the      *)
(*     route's default group, and removes it at the end (stage);           *)
(*   - Python callbacks join, leave, send and broadcast.  They hold the    *)
(*     GIL for the whole call, so that one such call runs at a time        *)
(*     (Python), but a callback may outlive the connection it was given;   *)
(*   - broker listeners broadcast without the GIL;                         *)
(*   - the send_listener of a connection takes messages from its mailbox.  *)
(***************************************************************************)
EXTENDS TokioMpsc, FiniteSets

CONSTANTS
  Conns,          \* accepted websocket upgrades, one handle_client task each
  Groups,         \* group names
  NoGroup,        \* "no default group", and "not iterating a group"
  DefaultGroup,   \* the default_group of the route each connection came by
  Broadcasters,   \* concurrent callers of broadcast: the GIL, broker listeners
  Python,         \* the broadcaster that is the holder of the GIL
  GroupLists,     \* the lists of groups callers broadcast to
  Callers,        \* connections whose callbacks call the methods of Api
  Api,            \* of {"join", "leave", "send", "broadcast"}
  Threads,        \* threads Python callbacks run on, of {"worker", "loop"}
  Stalled,        \* connections whose peer may stop reading
  MaxMsg          \* bound: number of messages sent

ASSUME StoreAssumption ==
  /\ NoGroup \notin Groups
  /\ DefaultGroup \in [Conns -> Groups \cup {NoGroup}]
  /\ Python \in Broadcasters
  /\ GroupLists \subseteq Seq(Groups)
  /\ Callers \subseteq Conns
  /\ Api \subseteq {"join", "leave", "send", "broadcast"}
  /\ Threads \subseteq {"worker", "loop"}
  /\ Stalled \subseteq Conns
  /\ MaxMsg \in Nat
  /\ IsFiniteSet(Groups)

Ids  == Nat \ {0}
Msgs == 1 .. MaxMsg

VARIABLES
  nextId,     \* ChannelStore.next_id
  senders,    \* ChannelStore.senders: id -> the connection whose mailbox it is
  groups,     \* ChannelStore.groups: the ids in each group, {} when absent
  stage,      \* how far the handle_client task of a connection is
  connId,     \* Connection.id, 0 before register returned
  sweep,      \* the groups `remove` has still to visit
  mailbox,    \* the mpsc channel of each connection
  bc,         \* the running broadcast of each broadcaster
  sent,       \* number of messages sent so far; messages are numbered
  late,       \* the task spawned for message m: connections still to be sent to
  future,     \* whether that task is what an asend or aclose awaits
  aborted,    \* the process panicked (panic = "abort" in Cargo.toml)
  taken,      \* history: what the send_listener of a connection received
  hits,       \* history: how often message m was accepted for a connection
  due,        \* history: members not removed since the broadcast began
  lateJoins   \* history: joins that came after `remove` had passed the group

store   == <<nextId, senders, groups>>
client  == <<stage, connId, sweep>>
sending == <<mailbox, sent, late, future, taken, hits>>
vars    == <<store, client, bc, sending, aborted, due, lateJoins>>

-----------------------------------------------------------------------------
Idle == [pc |-> "idle", list |-> << >>, cur |-> NoGroup, seen |-> {},
         exclude |-> 0, blocked |-> << >>, msg |-> 0, thread |-> "worker"]

Init ==
  /\ nextId = 1
  /\ senders = [i \in {} |-> NoGroup]
  /\ groups = [g \in Groups |-> {}]
  /\ stage = [c \in Conns |-> "accepted"]
  /\ connId = [c \in Conns |-> 0]
  /\ sweep = [c \in Conns |-> {}]
  /\ mailbox = [c \in Conns |-> NewMailbox]
  /\ bc = [b \in Broadcasters |-> Idle]
  /\ sent = 0
  /\ late = [m \in Msgs |-> << >>]
  /\ future = [m \in Msgs |-> "none"]
  /\ aborted = FALSE
  /\ taken = [c \in Conns |-> << >>]
  /\ hits = [m \in Msgs |-> [c \in Conns |-> 0]]
  /\ due = [b \in Broadcasters |-> {}]
  /\ lateJoins = {}

-----------------------------------------------------------------------------
(* Locks.  `join` needs the write lock of the group's shard, which a        *)
(* broadcast holds for reading while it iterates the group.  `leave` and    *)
(* `remove` share that lock; they wait only while the iteration is at the   *)
(* part of the inner set their id lies in, and go ahead here all the same,  *)
(* which adds behaviours and takes none away.                               *)
Iterated(g) == \E b \in Broadcasters : bc[b].pc = "visit" /\ bc[b].cur = g

GilFree == bc[Python].pc = "idle"

(* A connection Python code can hold: handle_client has filled in its id.   *)
Reachable(c) == stage[c] \in {"serving", "sweeping", "gone"}

Without(pairs, g, i) == [b \in Broadcasters |-> pairs[b] \ {<<g, i>>}]

-----------------------------------------------------------------------------
(* register, register_with_group                                            *)
(* Mutant: the id is read and not advanced.                                 *)
RegisterFetch_Load(c) ==
  /\ stage[c] = "accepted"
  /\ connId' = [connId EXCEPT ![c] = nextId]
  /\ stage' = [stage EXCEPT ![c] = "numbered"]
  /\ UNCHANGED <<store, sweep, bc, sending, aborted, due, lateJoins>>

RegisterFetch(c) ==
  /\ stage[c] = "accepted"
  /\ connId' = [connId EXCEPT ![c] = nextId]
  /\ nextId' = nextId + 1
  /\ stage' = [stage EXCEPT ![c] = "numbered"]
  /\ UNCHANGED <<senders, groups, sweep, bc, sending, aborted, due, lateJoins>>

(* Mutant: a connection with a default group joins it without an entry.     *)
RegisterInsert_JoinFirst(c) ==
  /\ stage[c] = "numbered"
  /\ senders' = IF DefaultGroup[c] = NoGroup
                  THEN [i \in DOMAIN senders \cup {connId[c]} |->
                          IF i = connId[c] THEN c ELSE senders[i]]
                  ELSE senders
  /\ stage' = [stage EXCEPT ![c] =
                 IF DefaultGroup[c] = NoGroup THEN "serving" ELSE "joining"]
  /\ UNCHANGED <<nextId, groups, connId, sweep, bc, sending, aborted, due, lateJoins>>

RegisterInsert(c) ==
  /\ stage[c] = "numbered"
  /\ senders' = [i \in DOMAIN senders \cup {connId[c]} |->
                   IF i = connId[c] THEN c ELSE senders[i]]
  /\ stage' = [stage EXCEPT ![c] =
                 IF DefaultGroup[c] = NoGroup THEN "serving" ELSE "joining"]
  /\ UNCHANGED <<nextId, groups, connId, sweep, bc, sending, aborted, due, lateJoins>>

JoinDefault(c) ==
  /\ stage[c] = "joining"
  /\ ~ Iterated(DefaultGroup[c])
  /\ groups' = [groups EXCEPT ![DefaultGroup[c]] = @ \cup {connId[c]}]
  /\ stage' = [stage EXCEPT ![c] = "serving"]
  /\ UNCHANGED <<nextId, senders, connId, sweep, bc, sending, aborted, due, lateJoins>>

(* remove: first the sender, then group by group                            *)
(* Mutant: remove starts with the groups, the sender stays behind.          *)
RemoveSender_GroupsFirst(c) ==
  /\ stage[c] = "serving"
  /\ sweep' = [sweep EXCEPT ![c] = Groups]
  /\ stage' = [stage EXCEPT ![c] = "sweeping"]
  /\ UNCHANGED <<store, connId, bc, sending, aborted, due, lateJoins>>

RemoveSender(c) ==
  /\ stage[c] = "serving"
  /\ senders' = [i \in DOMAIN senders \ {connId[c]} |-> senders[i]]
  /\ sweep' = [sweep EXCEPT ![c] = Groups]
  /\ stage' = [stage EXCEPT ![c] = "sweeping"]
  /\ due' = [b \in Broadcasters |-> {p \in due[b] : p[2] # connId[c]}]
  /\ UNCHANGED <<nextId, groups, connId, bc, sending, aborted, lateJoins>>

SweepGroup(c, g) ==
  /\ stage[c] = "sweeping"
  /\ g \in sweep[c]
  /\ groups' = [groups EXCEPT ![g] = @ \ {connId[c]}]
  /\ sweep' = [sweep EXCEPT ![c] = @ \ {g}]
  /\ UNCHANGED <<nextId, senders, stage, connId, bc, sending, aborted, due, lateJoins>>

(* Mutant: remove returns after the first group.                            *)
RemoveReturns_FirstGroup(c) ==
  /\ stage[c] = "sweeping"
  /\ sweep[c] # Groups
  /\ stage' = [stage EXCEPT ![c] = "gone"]
  /\ UNCHANGED <<store, connId, sweep, bc, sending, aborted, due, lateJoins>>

RemoveReturns(c) ==
  /\ stage[c] = "sweeping"
  /\ sweep[c] = {}
  /\ stage' = [stage EXCEPT ![c] = "gone"]
  /\ UNCHANGED <<store, connId, sweep, bc, sending, aborted, due, lateJoins>>

(* Connection.join and Connection.leave, called by a Python callback        *)
Join(c, g) ==
  /\ Reachable(c)
  /\ GilFree
  /\ ~ Iterated(g)
  /\ groups' = [groups EXCEPT ![g] = @ \cup {connId[c]}]
  /\ lateJoins' = IF stage[c] # "serving" /\ g \notin sweep[c]
                    THEN lateJoins \cup {<<c, g>>} ELSE lateJoins
  /\ UNCHANGED <<nextId, senders, client, bc, sending, aborted, due>>

Leave(c, g) ==
  /\ Reachable(c)
  /\ GilFree
  /\ groups' = [groups EXCEPT ![g] = @ \ {connId[c]}]
  /\ due' = Without(due, g, connId[c])
  /\ UNCHANGED <<nextId, senders, client, bc, sending, aborted, lateJoins>>

(* Connection.send, close, asend and aclose.  On a full mailbox the message *)
(* is left to a task.  send and close spawn it on the current runtime,      *)
(* which the asyncio thread does not have: tokio::spawn panics.  asend and  *)
(* aclose (viaFuture) give it to the runtime of pyo3_async_runtimes, which  *)
(* wants a running event loop: on a worker they raise.  What they return    *)
(* can be cancelled (CancelSend).                                           *)
SendStep(c) ==
  /\ Reachable(c)
  /\ GilFree
  /\ sent < MaxMsg
  /\ sent' = sent + 1
  /\ UNCHANGED <<store, client, bc, taken, due, lateJoins>>

(* Mutant: what a callback sends goes ahead of the queue.                   *)
SendAccepted_Urgent(c) ==
  /\ SendStep(c)
  /\ HasRoom(mailbox[c])
  /\ mailbox' = [mailbox EXCEPT ![c].queue = <<sent + 1>> \o @, ![c].free = @ - 1]
  /\ hits' = [hits EXCEPT ![sent + 1][c] = @ + 1]
  /\ UNCHANGED <<late, future, aborted>>

SendAccepted(c) ==
  /\ SendStep(c)
  /\ HasRoom(mailbox[c])
  /\ mailbox' = [mailbox EXCEPT ![c] = Push(@, sent + 1)]
  /\ hits' = [hits EXCEPT ![sent + 1][c] = @ + 1]
  /\ UNCHANGED <<late, future, aborted>>

SendBlocked(c, thread, viaFuture) ==
  /\ SendStep(c)
  /\ IsFull(mailbox[c])
  /\ viaFuture <=> thread = "loop"
  /\ late' = [late EXCEPT ![sent + 1] = <<c>>]
  /\ future' = IF viaFuture THEN [future EXCEPT ![sent + 1] = "awaited"] ELSE future
  /\ hits' = [hits EXCEPT ![sent + 1][c] = @ + 1]
  /\ UNCHANGED <<mailbox, aborted>>

SendPanics(c, thread, viaFuture) ==
  /\ SendStep(c)
  /\ IsFull(mailbox[c])
  /\ thread = "loop" /\ ~ viaFuture
  /\ aborted' = TRUE
  /\ UNCHANGED <<mailbox, late, future, hits>>

SendIgnored(c, thread, viaFuture) ==
  /\ SendStep(c)
  /\ IsClosed(mailbox[c]) \/ (IsFull(mailbox[c]) /\ viaFuture /\ thread = "worker")
  /\ UNCHANGED <<mailbox, late, future, hits, aborted>>

ConnSend(c, thread, viaFuture) ==
  \/ SendAccepted(c)
  \/ SendBlocked(c, thread, viaFuture)
  \/ SendPanics(c, thread, viaFuture)
  \/ SendIgnored(c, thread, viaFuture)

-----------------------------------------------------------------------------
(* ChannelStore::broadcast                                                  *)
Begin(b, list, exclude, thread) ==
  /\ bc[b].pc = "idle"
  /\ sent < MaxMsg
  /\ sent' = sent + 1
  /\ bc' = [bc EXCEPT ![b] = [pc |-> "next", list |-> list, cur |-> NoGroup,
                              seen |-> {}, exclude |-> exclude,
                              blocked |-> << >>, msg |-> sent + 1,
                              thread |-> thread]]
  /\ due' = [due EXCEPT ![b] =
               UNION {{<<list[k], i>> : i \in groups[list[k]] \cap DOMAIN senders} :
                        k \in 1 .. Len(list)}]
  /\ UNCHANGED <<store, client, mailbox, late, future, taken, hits, aborted, lateJoins>>

(* Connection.broadcast and Connection.abroadcast                           *)
ConnBroadcast(c, list, excludeSelf, thread) ==
  /\ Reachable(c)
  /\ Begin(Python, list, IF excludeSelf THEN connId[c] ELSE 0, thread)

(* BrokerMessage::dispatch                                                  *)
Dispatch(b, list) ==
  /\ b # Python
  /\ Begin(b, list, 0, "worker")

OpenGroup(b) ==
  /\ bc[b].pc = "next"
  /\ bc[b].list # << >>
  /\ bc' = [bc EXCEPT ![b].pc = "visit", ![b].cur = Head(bc[b].list),
                      ![b].list = Tail(@), ![b].seen = {}]
  /\ UNCHANGED <<store, client, sending, aborted, due, lateJoins>>

(* The next member of the group the iterator yields, in no fixed order.     *)
Yields(b, i) == bc[b].pc = "visit" /\ i \in groups[bc[b].cur] \ bc[b].seen

Seen(b, i) == bc' = [bc EXCEPT ![b].seen = @ \cup {i}]

Skips(b, i) == i = bc[b].exclude \/ i \notin DOMAIN senders

PassMember(b, i) ==
  /\ Yields(b, i)
  /\ ~ Skips(b, i) => IsClosed(mailbox[senders[i]])
  /\ Seen(b, i)
  /\ UNCHANGED <<store, client, sending, aborted, due, lateJoins>>

(* Mutant: a full mailbox takes the message all the same.                   *)
HitMember_Unbounded(b, i) ==
  /\ Yields(b, i)
  /\ ~ Skips(b, i)
  /\ ~ IsClosed(mailbox[senders[i]])
  /\ mailbox' = [mailbox EXCEPT ![senders[i]] = Push(@, bc[b].msg)]
  /\ hits' = [hits EXCEPT ![bc[b].msg][senders[i]] = @ + 1]
  /\ Seen(b, i)
  /\ UNCHANGED <<store, client, sent, late, future, taken, aborted, due, lateJoins>>

HitMember(b, i) ==
  /\ Yields(b, i)
  /\ ~ Skips(b, i)
  /\ HasRoom(mailbox[senders[i]])
  /\ mailbox' = [mailbox EXCEPT ![senders[i]] = Push(@, bc[b].msg)]
  /\ hits' = [hits EXCEPT ![bc[b].msg][senders[i]] = @ + 1]
  /\ Seen(b, i)
  /\ UNCHANGED <<store, client, sent, late, future, taken, aborted, due, lateJoins>>

BlockedMember(b, i) ==
  /\ Yields(b, i)
  /\ ~ Skips(b, i)
  /\ IsFull(mailbox[senders[i]])
  /\ bc' = [bc EXCEPT ![b].seen = @ \cup {i},
                      ![b].blocked = Append(@, senders[i])]
  /\ hits' = [hits EXCEPT ![bc[b].msg][senders[i]] = @ + 1]
  /\ UNCHANGED <<store, client, mailbox, sent, late, future, taken, aborted, due, lateJoins>>

(* Mutant: meeting the excluded id ends the group (break for continue).     *)
CloseGroup_AtExcluded(b) ==
  /\ bc[b].pc = "visit"
  /\ groups[bc[b].cur] \subseteq bc[b].seen \/ bc[b].exclude \in bc[b].seen
  /\ bc' = [bc EXCEPT ![b].pc = "next", ![b].cur = NoGroup]
  /\ UNCHANGED <<store, client, sending, aborted, due, lateJoins>>

CloseGroup(b) ==
  /\ bc[b].pc = "visit"
  /\ groups[bc[b].cur] \subseteq bc[b].seen
  /\ bc' = [bc EXCEPT ![b].pc = "next", ![b].cur = NoGroup]
  /\ UNCHANGED <<store, client, sending, aborted, due, lateJoins>>

(* All groups done: a task is spawned for the blocked senders.  A callback  *)
(* that runs on the asyncio thread is outside the tokio runtime, where      *)
(* tokio::spawn panics.                                                     *)
LoopDone(b) == bc[b].pc = "next" /\ bc[b].list = << >>

(* Mutant: no task is spawned for the blocked senders.                      *)
Return_Forgets(b) ==
  /\ LoopDone(b)
  /\ bc' = [bc EXCEPT ![b] = Idle]
  /\ due' = [due EXCEPT ![b] = {}]
  /\ UNCHANGED <<store, client, sending, aborted, lateJoins>>

Return(b) ==
  /\ LoopDone(b)
  /\ bc[b].blocked # << >> => bc[b].thread = "worker"
  /\ late' = [late EXCEPT ![bc[b].msg] = bc[b].blocked]
  /\ bc' = [bc EXCEPT ![b] = Idle]
  /\ due' = [due EXCEPT ![b] = {}]
  /\ UNCHANGED <<store, client, mailbox, sent, future, taken, hits, aborted, lateJoins>>

SpawnPanics(b) ==
  /\ LoopDone(b)
  /\ bc[b].blocked # << >>
  /\ bc[b].thread = "loop"
  /\ aborted' = TRUE
  /\ UNCHANGED <<store, client, bc, sending, due, lateJoins>>

-----------------------------------------------------------------------------
(* The spawned task: `for tx in blocked_senders { tx.send(msg).await }`     *)
(* Mutant: the task tries once and does not wait.                           *)
LatePolled_TrySend(m) ==
  LET c == Head(late[m])
  IN  /\ mailbox' = [mailbox EXCEPT ![c] = IF HasRoom(@) THEN Push(@, m) ELSE @]
      /\ late' = [late EXCEPT ![m] = Tail(@)]

LatePolled(m) ==
  LET c  == Head(late[m])
      mb == mailbox[c]
  IN  /\ ~ IsWaiting(mb, m)
      /\ m \notin mb.granted
      /\ mailbox' = [mailbox EXCEPT ![c] = CASE HasRoom(mb)  -> Push(@, m)
                                             [] IsFull(mb)   -> Wait(@, m)
                                             [] IsClosed(mb) -> @]
      /\ late' = [late EXCEPT ![m] = IF IsFull(mb) THEN @ ELSE Tail(@)]

LateRedeemed(m) ==
  LET c == Head(late[m])
  IN  /\ m \in mailbox[c].granted
      /\ mailbox' = [mailbox EXCEPT ![c] = Redeem(@, m, m)]
      /\ late' = [late EXCEPT ![m] = Tail(@)]

LateStep(m) ==
  /\ late[m] # << >>
  /\ LatePolled(m) \/ LateRedeemed(m)
  /\ UNCHANGED <<store, client, bc, sent, future, taken, hits, aborted, due, lateJoins>>

(* The awaitable of asend or aclose is cancelled: the send it waits in is   *)
(* dropped.  (A send that can be done at its first poll is done by then.)   *)
CancelSend(m) ==
  /\ late[m] # << >> /\ future[m] = "awaited"
  /\ LET c == Head(late[m])
     IN  /\ IsWaiting(mailbox[c], m) \/ m \in mailbox[c].granted
         /\ mailbox' = [mailbox EXCEPT ![c] = Withdraw(@, m)]
  /\ late' = [late EXCEPT ![m] = << >>]
  /\ future' = [future EXCEPT ![m] = "cancelled"]
  /\ UNCHANGED <<store, client, bc, sent, taken, hits, aborted, due, lateJoins>>

(* The send_listener of a registered connection receives the next message.  *)
Take(c) ==
  /\ Reachable(c)
  /\ mailbox[c].queue # << >>
  /\ taken' = [taken EXCEPT ![c] = Append(@, Head(mailbox[c].queue))]
  /\ mailbox' = [mailbox EXCEPT ![c] = Recv(@)]
  /\ UNCHANGED <<store, client, bc, sent, late, future, hits, aborted, due, lateJoins>>

(* The send_listener ended or was aborted.                                  *)
DropRx(c) ==
  /\ Reachable(c)
  /\ mailbox[c].open
  /\ mailbox' = [mailbox EXCEPT ![c] = DropReceiver(@)]
  /\ UNCHANGED <<store, client, bc, sent, late, future, taken, hits, aborted, due, lateJoins>>

-----------------------------------------------------------------------------
Register(c) == RegisterFetch(c) \/ RegisterInsert(c) \/ JoinDefault(c)

Remove(c) == RemoveSender(c) \/ (\E g \in Groups : SweepGroup(c, g)) \/ RemoveReturns(c)

(* What a callback of c that runs on the thread may do next.                *)
Call(c, thread) ==
  \/ "join" \in Api /\ \E g \in Groups : Join(c, g)
  \/ "leave" \in Api /\ \E g \in Groups : Leave(c, g)
  \/ "send" \in Api /\ \E viaFuture \in BOOLEAN : ConnSend(c, thread, viaFuture)
  \/ "broadcast" \in Api /\ \E list \in GroupLists, excludeSelf \in BOOLEAN :
       ConnBroadcast(c, list, excludeSelf, thread)

BroadcastStep(b) ==
  \/ OpenGroup(b)
  \/ \E i \in DOMAIN senders \cup UNION {groups[g] : g \in Groups} :
       PassMember(b, i) \/ HitMember(b, i) \/ BlockedMember(b, i)
  \/ CloseGroup(b)
  \/ Return(b)
  \/ SpawnPanics(b)

Next ==
  /\ ~ aborted
  /\ \/ \E c \in Conns : Register(c) \/ Remove(c) \/ Take(c) \/ DropRx(c)
     \/ \E c \in Callers, thread \in Threads : Call(c, thread)
     \/ \E b \in Broadcasters :
          BroadcastStep(b) \/ \E list \in GroupLists : Dispatch(b, list)
     \/ \E m \in Msgs : LateStep(m) \/ CancelSend(m)

(* The runtime polls every ready task, and the loops of broadcast and        *)
(* remove contain no await.  A peer that keeps reading keeps its             *)
(* send_listener going; a stalled peer promises nothing.                     *)
Fairness ==
  /\ \A c \in Conns : WF_vars(~ aborted /\ (\E g \in Groups : SweepGroup(c, g)))
  /\ \A c \in Conns : WF_vars(~ aborted /\ RemoveReturns(c))
  /\ \A b \in Broadcasters : WF_vars(~ aborted /\ BroadcastStep(b))
  /\ \A m \in Msgs : WF_vars(~ aborted /\ LateStep(m))
  /\ \A c \in Conns \ Stalled : WF_vars(~ aborted /\ Take(c))

Spec == Init /\ [][Next]_vars /\ Fairness
-----------------------------------------------------------------------------
(* Type invariant.                                                          *)
Broadcast ==
  [pc : {"idle", "next", "visit"}, list : Seq(Groups), cur : Groups \cup {NoGroup},
   seen : SUBSET Ids, exclude : Nat, blocked : Seq(Conns), msg : Nat,
   thread : {"worker", "loop"}]

TypeOK ==
  /\ nextId \in Ids
  /\ senders \in [DOMAIN senders -> Conns]
  /\ DOMAIN senders \subseteq Ids
  /\ groups \in [Groups -> SUBSET Ids]
  /\ stage \in [Conns -> {"accepted", "numbered", "joining", "serving", "sweeping", "gone"}]
  /\ connId \in [Conns -> Nat]
  /\ \A c \in Conns : stage[c] # "accepted" => connId[c] \in Ids
  /\ sweep \in [Conns -> SUBSET Groups]
  /\ mailbox \in [Conns -> Mailbox(Msgs, Msgs)]
  /\ bc \in [Broadcasters -> Broadcast]
  /\ \A b \in Broadcasters :
       /\ bc[b].pc # "idle" => bc[b].msg \in Msgs
       /\ bc[b].pc = "visit" => bc[b].cur \in Groups
  /\ sent \in 0 .. MaxMsg
  /\ late \in [Msgs -> Seq(Conns)]
  /\ future \in [Msgs -> {"none", "awaited", "cancelled"}]
  /\ aborted \in BOOLEAN
  /\ taken \in [Conns -> Seq(Msgs)]
  /\ hits \in [Msgs -> [Conns -> Nat]]
  /\ due \in [Broadcasters -> SUBSET (Groups \X Ids)]
  /\ lateJoins \subseteq Conns \X Groups

Numbered(c) == stage[c] # "accepted"
Listed(c)   == stage[c] \in {"joining", "serving"}

(* While a connection is listed, the table maps its id to its own mailbox   *)
(* and to no other connection's: concurrent `register` calls never hand out *)
(* one id twice, and `remove` of one connection never takes another's entry.*)
OwnEntry ==
  /\ \A c \in Conns : Listed(c) => /\ connId[c] \in DOMAIN senders
                                   /\ senders[connId[c]] = c
  /\ \A i \in DOMAIN senders : Listed(senders[i]) /\ connId[senders[i]] = i

(* A member of a group that has no entry in the table is a connection whose *)
(* removal has begun: a broadcast that meets a member during registration   *)
(* finds its mailbox (register inserts the sender before joining).          *)
MembersHaveSenders ==
  \A g \in Groups : \A i \in groups[g] :
    i \in DOMAIN senders \/ \E c \in Conns :
      connId[c] = i /\ stage[c] \in {"sweeping", "gone"}

(* After `remove`, a group still lists the connection only if a callback    *)
(* that outlived it joined the group after `remove` had passed it.          *)
DeadMembersJoinedLate ==
  \A c \in Conns, g \in Groups :
    stage[c] = "gone" /\ connId[c] \in groups[g] => <<c, g>> \in lateJoins

(* When the loop of a broadcast is done, every connection that was a member *)
(* of one of the groups from the call on and was neither removed nor made   *)
(* to leave meanwhile was offered the message, other members leaving, other *)
(* connections being removed and other broadcasts running all the while.    *)
StableMembersAreHit ==
  \A b \in Broadcasters : LoopDone(b) =>
    \A p \in due[b] :
      p[2] # bc[b].exclude =>
        /\ p[2] \in DOMAIN senders
        /\ LET c == senders[p[2]]
           IN  hits[bc[b].msg][c] > 0 \/ IsClosed(mailbox[c])

(* exclude_self holds for every group of the list, and the sender is not    *)
(* reached by the task that serves the blocked senders either.              *)
ExcludedNeverHit ==
  \A b \in Broadcasters, c \in Conns :
    bc[b].pc # "idle" /\ bc[b].exclude # 0 /\ connId[c] = bc[b].exclude
      => hits[bc[b].msg][c] = 0

Occurs(s, x) == Cardinality({k \in 1 .. Len(s) : s[k] = x})

Blocked(m, c) ==
  IF \E b \in Broadcasters : bc[b].pc # "idle" /\ bc[b].msg = m
    THEN LET b == CHOOSE b \in Broadcasters : bc[b].pc # "idle" /\ bc[b].msg = m
         IN  Occurs(bc[b].blocked, c)
    ELSE 0

(* While the receiver of a connection lives, every message accepted for it  *)
(* is in exactly one place: in its mailbox, taken by its send_listener, or  *)
(* still owed by a broadcast or its spawned task.  Nothing is lost or       *)
(* doubled on the way through a full mailbox, and a send that is cancelled  *)
(* while it waits is in none of them.                                       *)
NothingLostWhileOpen ==
  \A c \in Conns, m \in Msgs : mailbox[c].open =>
    (IF future[m] = "cancelled" THEN 0 ELSE hits[m][c])
      = Occurs(mailbox[c].queue, m) + Occurs(taken[c], m)
        + Occurs(late[m], c) + Blocked(m, c)

(* Once `remove` has taken the sender out of the table, no broadcast that   *)
(* is still iterating reaches the connection.                               *)
RemovedIsNotHit ==
  [][\A c \in Conns, b \in Broadcasters :
       stage[c] \in {"sweeping", "gone"} /\ bc[b].pc # "idle" =>
         hits'[bc[b].msg][c] = hits[bc[b].msg][c]]_vars

(* Whatever was accepted for a connection whose peer keeps reading reaches  *)
(* its send_listener, as often as it was accepted, unless the receiver is   *)
(* dropped first or the send is cancelled.                                  *)
HitsArrive ==
  []<>(aborted \/ \A m \in Msgs, c \in Conns \ Stalled :
         Reachable(c) => \/ Occurs(taken[c], m) = hits[m][c]
                         \/ IsClosed(mailbox[c])
                         \/ future[m] = "cancelled")

(* connection.md: abroadcast may be awaited in an async callback.  It never *)
(* ends the process, whatever mailbox it finds full.                        *)
BroadcastNeverAborts ==
  ~ \E b \in Broadcasters : aborted /\ LoopDone(b) /\ bc[b].thread = "loop"
=============================================================================
