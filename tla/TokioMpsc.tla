------------------------------ MODULE TokioMpsc ------------------------------
(***************************************************************************)
(* tokio::sync::mpsc::channel(CHANNEL_BUFFER_SIZE) as webrockets uses it:  *)
(* the mailbox of one websocket connection.  External code; only what the  *)
(* callers in src/src rely on is modelled.                                 *)
(*                                                                         *)
(* The bound is a semaphore.  A slot is either free, or taken by a queued  *)
(* message, or granted to a task that waits in `tx.send(..).await`.  A     *)
(* slot released by recv() goes to the waiter at the head of the line, so  *)
(* try_send cannot overtake a task that already waits; it can overtake a   *)
(* spawned task that has not been polled yet, and two tasks holding a      *)
(* granted slot push in the order in which the runtime polls them.         *)
(***************************************************************************)
EXTENDS Naturals, Sequences

CONSTANT CHANNEL_BUFFER_SIZE

ASSUME BufferAssumption == CHANNEL_BUFFER_SIZE \in Nat \ {0}

(* A mailbox whose messages are in Msg and whose waiting tasks are in Task. *)
Mailbox(Msg, Task) ==
  [queue   : Seq(Msg),
   free    : Nat,
   waiting : Seq(Task),
   granted : SUBSET Task,
   open    : BOOLEAN]

NewMailbox ==
  [queue |-> << >>, free |-> CHANNEL_BUFFER_SIZE,
   waiting |-> << >>, granted |-> {}, open |-> TRUE]

(* The three outcomes of try_send, and of the first poll of send().await. *)
HasRoom(mb)  == mb.open /\ mb.free > 0
IsFull(mb)   == mb.open /\ mb.free = 0
IsClosed(mb) == ~ mb.open

(* Outcome Ok: a free slot now holds m. *)
Push(mb, m) == [mb EXCEPT !.queue = Append(@, m), !.free = @ - 1]

(* send().await on a full mailbox: task t joins the line. *)
Wait(mb, t) == [mb EXCEPT !.waiting = Append(@, t)]

IsWaiting(mb, t) == \E k \in 1 .. Len(mb.waiting) : mb.waiting[k] = t

(* A waiting task that was granted a slot is polled and pushes its m. *)
Redeem(mb, t, m) == [mb EXCEPT !.queue = Append(@, m), !.granted = @ \ {t}]

(* recv(): the oldest message leaves; its slot goes to the head waiter. *)
ReleaseSlot(mb) ==
  IF mb.waiting = << >>
    THEN [mb EXCEPT !.free = @ + 1]
    ELSE [mb EXCEPT !.waiting = Tail(@), !.granted = @ \cup {Head(mb.waiting)}]

Recv(mb) == ReleaseSlot([mb EXCEPT !.queue = Tail(@)])

(* The pending send() of task t is dropped: t leaves the line, and a slot   *)
(* it was granted goes to the next in it.                                   *)
Withdraw(mb, t) ==
  IF t \in mb.granted
    THEN ReleaseSlot([mb EXCEPT !.granted = @ \ {t}])
    ELSE LET k == CHOOSE k \in 1 .. Len(mb.waiting) : mb.waiting[k] = t
         IN  [mb EXCEPT !.waiting = SubSeq(@, 1, k - 1) \o SubSeq(@, k + 1, Len(@))]

(* The receiver is dropped: queued messages are discarded, every later or  *)
(* pending send fails.                                                     *)
DropReceiver(mb) ==
  [queue |-> << >>, free |-> 0, waiting |-> << >>, granted |-> {}, open |-> FALSE]
=============================================================================
