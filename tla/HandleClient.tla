----------------------------- MODULE HandleClient -----------------------------
(***************************************************************************)
(* The life of a connection (handle_client, send_listener and              *)
(* receive_listener in src/src/server.rs, Callback::invoke in              *)
(* src/src/callback.rs) composed with the connection table it uses.  Every *)
(* step is a step of ChannelStore or leaves the table alone.               *)
(*                                                                         *)
(* Three tasks serve a connection: handle_client registers it, runs        *)
(* connect("after"), spawns the other two and waits for the first of them; *)
(* the send task writes what the mailbox yields; the receive task reads    *)
(* frames and calls back.  A sync callback runs on the task that calls it, *)
(* an async one becomes a coroutine on the asyncio thread, which nothing   *)
(* waits for.  abort() takes effect when the task next suspends: until     *)
(* then it may go on.                                                      *)
(***************************************************************************)
EXTENDS ChannelStore

CONSTANTS
  Routes,      \* the routes a connection may have come by
  MaxFrames    \* bound: frames a peer sends before a close frame

Kinds == {"after", "receive", "disconnect"}
Modes == {"none", "sync", "async"}

ASSUME RouteAssumption ==
  /\ Routes \subseteq [Kinds -> Modes]
  /\ MaxFrames \in Nat

VARIABLES
  route,      \* how each callback of the route is defined
  handle,     \* control of handle_client
  sendTask,   \* control of send_listener
  inHand,     \* the message send_listener writes
  recvTask,   \* control of receive_listener
  aborting,   \* the tasks abort() was called on
  cb,         \* the running sync callback, an index into started; 0 if none
  coros,      \* the running async callbacks, indices into started
  peer,       \* the peer's end of the socket
  inbox,      \* frames sent by the peer and not read
  frames,     \* number of frames the peer has sent
  closes,     \* messages that are Message::Close
  wire,       \* history: messages written to the socket
  started,    \* history: callbacks started, by kind
  fifo        \* history: messages of callbacks no mailbox was full for

tasks == <<handle, sendTask, inHand, recvTask, aborting>>
calls == <<cb, coros, started>>
net   == <<peer, inbox, frames, wire>>
life  == <<route, tasks, calls, net, closes, fifo>>
hvars == <<vars, life>>

HInit ==
  /\ Init
  /\ route \in [Conns -> Routes]
  /\ handle = [c \in Conns |-> "registering"]
  /\ sendTask = [c \in Conns |-> "none"]
  /\ inHand = [c \in Conns |-> 0]
  /\ recvTask = [c \in Conns |-> "none"]
  /\ aborting = [c \in Conns |-> {}]
  /\ cb = [c \in Conns |-> 0]
  /\ coros = [c \in Conns |-> {}]
  /\ peer = [c \in Conns |-> "open"]
  /\ inbox = [c \in Conns |-> << >>]
  /\ frames = [c \in Conns |-> 0]
  /\ closes = {}
  /\ wire = [c \in Conns |-> << >>]
  /\ started = [c \in Conns |-> << >>]
  /\ fifo = {}

-----------------------------------------------------------------------------
(* Callback::invoke.  Starting Python code takes the GIL, so it waits for   *)
(* the call that holds it.  An exception is logged and changes nothing.     *)
Invoke(c, kind) ==
  LET k == Len(started[c]) + 1
  IN  \/ route[c][kind] = "none" /\ UNCHANGED calls
      \/ /\ route[c][kind] # "none"
         /\ GilFree
         /\ started' = [started EXCEPT ![c] = Append(@, kind)]
         /\ \/ /\ route[c][kind] = "sync"
               /\ cb' = [cb EXCEPT ![c] = k]
               /\ UNCHANGED coros
            \/ /\ route[c][kind] = "async"
               /\ coros' = [coros EXCEPT ![c] = @ \cup {k}]
               /\ UNCHANGED cb

-----------------------------------------------------------------------------
(* handle_client                                                            *)
UpgradeFails(c) ==
  /\ handle[c] = "registering" /\ stage[c] = "accepted"
  /\ handle' = [handle EXCEPT ![c] = "failed"]
  /\ UNCHANGED <<vars, route, sendTask, inHand, recvTask, aborting, calls, net, closes, fifo>>

Registers(c) ==
  /\ handle[c] = "registering"
  /\ Register(c)
  /\ UNCHANGED life

Connected(c) ==
  /\ handle[c] = "registering" /\ stage[c] = "serving"
  /\ Invoke(c, "after")
  /\ handle' = [handle EXCEPT ![c] = "connectAfter"]
  /\ UNCHANGED <<vars, route, sendTask, inHand, recvTask, aborting, net, closes, fifo>>

(* Mutant: the tasks are spawned while connect("after") runs.               *)
SpawnTasks_Early(c) ==
  /\ handle[c] = "connectAfter"
  /\ handle' = [handle EXCEPT ![c] = "select"]
  /\ sendTask' = [sendTask EXCEPT ![c] = "idle"]
  /\ recvTask' = [recvTask EXCEPT ![c] = "reading"]
  /\ UNCHANGED <<vars, route, inHand, aborting, calls, net, closes, fifo>>

SpawnTasks(c) ==
  /\ handle[c] = "connectAfter" /\ cb[c] = 0
  /\ handle' = [handle EXCEPT ![c] = "select"]
  /\ sendTask' = [sendTask EXCEPT ![c] = "idle"]
  /\ recvTask' = [recvTask EXCEPT ![c] = "reading"]
  /\ UNCHANGED <<vars, route, inHand, aborting, calls, net, closes, fifo>>

(* tokio::select!: the first task to end has the other one aborted.         *)
SendEnds(c) == sendTask[c] = "ended"
RecvEnds(c) == recvTask[c] = "ended"

(* Mutant: the other task is not aborted.                                   *)
Select_NoAbort(c) ==
  /\ handle[c] = "select"
  /\ SendEnds(c) \/ RecvEnds(c)
  /\ handle' = [handle EXCEPT ![c] = "removing"]
  /\ UNCHANGED <<vars, route, sendTask, inHand, recvTask, aborting, calls, net, closes, fifo>>

Select(c) ==
  /\ handle[c] = "select"
  /\ \/ SendEnds(c) /\ aborting' = [aborting EXCEPT ![c] = {"recv"}]
     \/ RecvEnds(c) /\ aborting' = [aborting EXCEPT ![c] = {"send"}]
  /\ handle' = [handle EXCEPT ![c] = "removing"]
  /\ UNCHANGED <<vars, route, sendTask, inHand, recvTask, calls, net, closes, fifo>>

(* Mutant: handle_client does not wait for its tasks.                       *)
Removes_Unwaited(c) ==
  /\ handle[c] \in {"select", "removing"}
  /\ Remove(c)
  /\ handle' = [handle EXCEPT ![c] = IF stage'[c] = "gone" THEN "done" ELSE "removing"]
  /\ UNCHANGED <<route, sendTask, inHand, recvTask, aborting, calls, net, closes, fifo>>

Removes(c) ==
  /\ handle[c] = "removing"
  /\ Remove(c)
  /\ handle' = [handle EXCEPT ![c] = IF stage'[c] = "gone" THEN "done" ELSE @]
  /\ UNCHANGED <<route, sendTask, inHand, recvTask, aborting, calls, net, closes, fifo>>

HandleStep(c) ==
  \/ UpgradeFails(c) \/ Registers(c) \/ Connected(c)
  \/ SpawnTasks(c) \/ Select(c) \/ Removes(c)

-----------------------------------------------------------------------------
(* send_listener                                                            *)
SendTakes(c) ==
  /\ sendTask[c] = "idle"
  /\ Take(c)
  /\ inHand' = [inHand EXCEPT ![c] = Head(mailbox[c].queue)]
  /\ sendTask' = [sendTask EXCEPT ![c] = "writing"]
  /\ UNCHANGED <<route, handle, recvTask, aborting, calls, net, closes, fifo>>

Written(c) == wire' = [wire EXCEPT ![c] = Append(@, inHand[c])]

(* Mutant: an error of write_frame is ignored.                              *)
WriteFrame_IgnoresError(c) ==
  /\ sendTask[c] = "writing" /\ inHand[c] \notin closes
  /\ Written(c) \/ UNCHANGED wire
  /\ sendTask' = [sendTask EXCEPT ![c] = "idle"]
  /\ UNCHANGED <<vars, route, handle, inHand, recvTask, aborting, calls, peer, inbox,
                 frames, closes, fifo>>

WriteFrame(c) ==
  /\ sendTask[c] = "writing" /\ inHand[c] \notin closes
  /\ Written(c)
  /\ sendTask' = [sendTask EXCEPT ![c] = "idle"]
  /\ UNCHANGED <<vars, route, handle, inHand, recvTask, aborting, calls, peer, inbox,
                 frames, closes, fifo>>

(* Mutant: the loop goes on after a close frame.                            *)
WriteClose_GoesOn(c) ==
  /\ sendTask[c] = "writing" /\ inHand[c] \in closes
  /\ Written(c)
  /\ sendTask' = [sendTask EXCEPT ![c] = "idle"]
  /\ UNCHANGED <<vars, route, handle, inHand, recvTask, aborting, calls, peer, inbox,
                 frames, closes, fifo>>

WriteClose(c) ==
  /\ sendTask[c] = "writing" /\ inHand[c] \in closes
  /\ Written(c)
  /\ DropRx(c)
  /\ sendTask' = [sendTask EXCEPT ![c] = "ended"]
  /\ UNCHANGED <<route, handle, inHand, recvTask, aborting, calls, peer, inbox,
                 frames, closes, fifo>>

WriteFails(c) ==
  /\ sendTask[c] = "writing" /\ peer[c] = "left"
  /\ DropRx(c)
  /\ sendTask' = [sendTask EXCEPT ![c] = "ended"]
  /\ UNCHANGED <<route, handle, inHand, recvTask, aborting, calls, net, closes, fifo>>

SendCancelled(c) ==
  /\ "send" \in aborting[c] /\ sendTask[c] \in {"idle", "writing"}
  /\ DropRx(c)
  /\ sendTask' = [sendTask EXCEPT ![c] = "aborted"]
  /\ UNCHANGED <<route, handle, inHand, recvTask, aborting, calls, net, closes, fifo>>

SendTaskStep(c) ==
  SendTakes(c) \/ WriteFrame(c) \/ WriteClose(c) \/ WriteFails(c) \/ SendCancelled(c)

-----------------------------------------------------------------------------
(* receive_listener                                                         *)
ReadData(c) ==
  /\ recvTask[c] = "reading" /\ inbox[c] # << >> /\ Head(inbox[c]) = "data"
  /\ inbox' = [inbox EXCEPT ![c] = Tail(@)]
  /\ Invoke(c, "receive")
  /\ recvTask' = [recvTask EXCEPT ![c] =
                    IF route[c]["receive"] = "sync" THEN "callback" ELSE @]
  /\ UNCHANGED <<vars, route, handle, sendTask, inHand, aborting, peer, frames, wire,
                 closes, fifo>>

(* Mutant: a close frame that answers the server's own is only read.        *)
ReadClose_Answer(c) ==
  /\ recvTask[c] = "reading" /\ inbox[c] # << >> /\ Head(inbox[c]) = "close"
  /\ inbox' = [inbox EXCEPT ![c] = Tail(@)]
  /\ IF \E k \in DOMAIN wire[c] : wire[c][k] \in closes
       THEN UNCHANGED calls /\ recvTask' = [recvTask EXCEPT ![c] = "ended"]
       ELSE /\ Invoke(c, "disconnect")
            /\ recvTask' = [recvTask EXCEPT ![c] =
                              IF route[c]["disconnect"] = "sync" THEN "closing" ELSE "ended"]
  /\ UNCHANGED <<vars, route, handle, sendTask, inHand, aborting, peer, frames, wire,
                 closes, fifo>>

ReadClose(c) ==
  /\ recvTask[c] = "reading" /\ inbox[c] # << >> /\ Head(inbox[c]) = "close"
  /\ inbox' = [inbox EXCEPT ![c] = Tail(@)]
  /\ Invoke(c, "disconnect")
  /\ recvTask' = [recvTask EXCEPT ![c] =
                    IF route[c]["disconnect"] = "sync" THEN "closing" ELSE "ended"]
  /\ UNCHANGED <<vars, route, handle, sendTask, inHand, aborting, peer, frames, wire,
                 closes, fifo>>

(* Mutant: a read error is skipped like an unreadable frame.                *)
ReadFails_Continues(c) ==
  /\ recvTask[c] = "reading"
  /\ inbox[c] # << >> /\ Head(inbox[c]) = "bad"
  /\ inbox' = [inbox EXCEPT ![c] = Tail(@)]
  /\ UNCHANGED <<vars, route, tasks, calls, peer, frames, wire, closes, fifo>>

ReadFails(c) ==
  /\ recvTask[c] = "reading"
  /\ IF inbox[c] = << >> THEN peer[c] = "left" ELSE Head(inbox[c]) = "bad"
  /\ recvTask' = [recvTask EXCEPT ![c] = "ended"]
  /\ UNCHANGED <<vars, route, handle, sendTask, inHand, aborting, calls, net, closes, fifo>>

RecvCancelled(c) ==
  /\ "recv" \in aborting[c] /\ recvTask[c] = "reading"
  /\ recvTask' = [recvTask EXCEPT ![c] = "aborted"]
  /\ UNCHANGED <<vars, route, handle, sendTask, inHand, aborting, calls, net, closes, fifo>>

RecvTaskStep(c) == ReadData(c) \/ ReadClose(c) \/ ReadFails(c) \/ RecvCancelled(c)

-----------------------------------------------------------------------------
(* Python code                                                              *)
SyncReturns(c) ==
  /\ cb[c] # 0 /\ GilFree
  /\ cb' = [cb EXCEPT ![c] = 0]
  /\ recvTask' = [recvTask EXCEPT ![c] = IF @ = "callback" THEN "reading"
                                         ELSE IF @ = "closing" THEN "ended" ELSE @]
  /\ UNCHANGED <<vars, route, handle, sendTask, inHand, aborting, coros, started, net,
                 closes, fifo>>

CoroutineReturns(c) ==
  /\ GilFree
  /\ \E k \in coros[c] : coros' = [coros EXCEPT ![c] = @ \ {k}]
  /\ UNCHANGED <<vars, route, tasks, cb, started, net, closes, fifo>>

(* The messages a Python call numbered that no task has had to take over.   *)
Track == fifo' = {m \in fifo \cup (sent + 1 .. sent') : late'[m] = << >>}

Running(c, thread) ==
  \/ thread = "worker" /\ cb[c] # 0
  \/ thread = "loop" /\ coros[c] # {}

PythonCalls(c, thread) ==
  /\ Running(c, thread)
  /\ \/ Call(c, thread) /\ closes' = closes
     \/ /\ "send" \in Api
        /\ \E viaFuture \in BOOLEAN : ConnSend(c, thread, viaFuture)
        /\ closes' = closes \cup {sent + 1}
  /\ Track
  /\ UNCHANGED <<route, tasks, calls, net>>

Broadcasts(b) ==
  /\ BroadcastStep(b)
  /\ Track
  /\ UNCHANGED <<route, tasks, calls, net, closes>>

Elsewhere ==
  /\ \/ \E b \in Broadcasters, list \in GroupLists : Dispatch(b, list)
     \/ \E m \in Msgs : LateStep(m) \/ CancelSend(m)
  /\ UNCHANGED life

-----------------------------------------------------------------------------
(* The peer sends frames, at last a close frame, and leaves at any time; a  *)
(* reset takes the frames it had sent with it.  A bad frame is one the      *)
(* reader fails on.                                                         *)
PeerSends(c, frame) ==
  /\ peer[c] = "open"
  /\ frames[c] < MaxFrames \/ (frame = "close" /\ frames[c] = MaxFrames)
  /\ inbox' = [inbox EXCEPT ![c] = Append(@, frame)]
  /\ frames' = [frames EXCEPT ![c] = IF frame = "close" THEN MaxFrames + 1 ELSE @ + 1]
  /\ UNCHANGED <<vars, route, tasks, calls, peer, wire, closes, fifo>>

PeerLeaves(c) ==
  /\ peer[c] = "open"
  /\ peer' = [peer EXCEPT ![c] = "left"]
  /\ inbox' \in {inbox, [inbox EXCEPT ![c] = << >>]}
  /\ UNCHANGED <<vars, route, tasks, calls, frames, wire, closes, fifo>>

-----------------------------------------------------------------------------
ConnStep(c) ==
  \/ HandleStep(c) \/ SendTaskStep(c) \/ RecvTaskStep(c)
  \/ SyncReturns(c) \/ CoroutineReturns(c)
  \/ (\E frame \in {"data", "close", "bad"} : PeerSends(c, frame)) \/ PeerLeaves(c)

HNext ==
  /\ ~ aborted
  /\ \/ \E c \in Conns : ConnStep(c)
     \/ \E c \in Callers, thread \in Threads : PythonCalls(c, thread)
     \/ \E b \in Broadcasters : Broadcasts(b)
     \/ Elsewhere

(* tokio polls every task that is ready, callbacks return, and the asyncio  *)
(* thread runs its coroutines.  A write completes unless the peer stalls.   *)
HFairness ==
  /\ \A c \in Conns :
       /\ WF_hvars(~ aborted /\ (Registers(c) \/ Connected(c) \/ SpawnTasks(c)
                                 \/ Select(c) \/ Removes(c)))
       /\ WF_hvars(~ aborted /\ RecvTaskStep(c))
       /\ WF_hvars(~ aborted /\ SyncReturns(c))
       /\ WF_hvars(~ aborted /\ CoroutineReturns(c))
       /\ WF_hvars(~ aborted /\ (SendTakes(c) \/ WriteFails(c) \/ SendCancelled(c)))
  /\ \A c \in Conns \ Stalled : WF_hvars(~ aborted /\ (WriteFrame(c) \/ WriteClose(c)))
  /\ \A b \in Broadcasters : WF_hvars(~ aborted /\ Broadcasts(b))
  /\ \A m \in Msgs : WF_hvars(~ aborted /\ LateStep(m) /\ UNCHANGED life)

HSpec == HInit /\ [][HNext]_hvars /\ HFairness
-----------------------------------------------------------------------------
(* The composition runs the connection table only by its own operations.    *)
StoreSafety == Init /\ [][Next]_vars

(* The socket carries no frame after a close frame.                         *)
NothingAfterClose ==
  \A c \in Conns : \A k \in 1 .. Len(wire[c]) : wire[c][k] \in closes => k = Len(wire[c])

(* Messages of callbacks leave in the order of the calls, across callbacks, *)
(* threads, send and broadcast, as long as no mailbox was full for them (a  *)
(* broadcast to two groups of one connection sends it its message twice).   *)
FifoUnlessFull ==
  \A c \in Conns : \A i, j \in 1 .. Len(wire[c]) :
    i < j /\ wire[c][i] \in fifo /\ wire[c][j] \in fifo => wire[c][i] <= wire[c][j]

(* close() flushes: once its close frame is on the socket, so is every      *)
(* message accepted for the connection by an earlier call.                  *)
CloseFlushes ==
  \A c \in Conns : \A k \in 1 .. Len(wire[c]) :
    wire[c][k] \in closes \cap fifo =>
      \A m \in fifo : m < wire[c][k] /\ hits[m][c] > 0 =>
        \E i \in 1 .. k : wire[c][i] = m

(* A sync connect("after") callback has returned before any frame of the    *)
(* peer is handled; disconnect is the last callback started, and the only   *)
(* one of its kind.                                                         *)
CallbackOrder ==
  \A c \in Conns :
    /\ cb[c] # 0 /\ started[c][cb[c]] = "after" => Len(started[c]) = 1
    /\ \A k \in 1 .. Len(started[c]) : /\ started[c][k] = "after" => k = 1
                                       /\ started[c][k] = "disconnect" => k = Len(started[c])

(* A connection both of whose tasks run can be reached by a broadcast, and  *)
(* its mailbox is drained.                                                  *)
ServedIsReachable ==
  \A c \in Conns :
    /\ sendTask[c] \in {"idle", "writing"} /\ recvTask[c] \in {"reading", "callback", "closing"}
         => connId[c] \in DOMAIN senders /\ senders[connId[c]] = c
    /\ sendTask[c] \in {"none", "idle", "writing"} <=> mailbox[c].open

(* Liveness.  What the left-hand sides ask, a peer that left, a close that  *)
(* was accepted, a connection that is done, stays so.                       *)
(* When the peer leaves, the connection is removed: no entry leaks.         *)
PeerLeavesRemoved ==
  []<>(aborted \/ \A c \in Conns : peer[c] = "left" => handle[c] \in {"done", "failed"})

(* A close that was accepted ends the connection, unless it waits for room  *)
(* in an aclose that is cancelled.                                          *)
CloseEndsConnection ==
  []<>(aborted \/ \A c \in Conns \ Stalled, m \in closes :
         hits[m][c] > 0 /\ future[m] # "cancelled" => handle[c] = "done")

(* Once a connection is done its mailbox closes, and no task is left        *)
(* waiting for a slot of it.                                                *)
MailboxReleased ==
  []<>(aborted \/ \A c \in Conns :
         handle[c] = "done" => IsClosed(mailbox[c]) /\ \A m \in Msgs : late[m] = << >>)

(* guides/quick-start.md: disconnect is "Called when a client disconnects". *)
DisconnectFollows ==
  \A c \in Conns :
    handle[c] = "done" /\ peer[c] = "left" /\ route[c]["disconnect"] # "none" =>
      \E k \in DOMAIN started[c] : started[c][k] = "disconnect"

(* What holds of it instead: the disconnect callback is left out only when  *)
(* the read failed before a close frame was read, or when the send task     *)
(* ended first and the receive task was aborted.                            *)
DisconnectSkipped ==
  \A c \in Conns :
    /\ handle[c] = "done" /\ route[c]["disconnect"] # "none"
    /\ \A k \in DOMAIN started[c] : started[c][k] # "disconnect"
    => \/ recvTask[c] = "ended" /\ (peer[c] = "left" \/ \E k \in DOMAIN inbox[c] : inbox[c][k] = "bad")
       \/ "recv" \in aborting[c] /\ sendTask[c] = "ended"
=============================================================================
