------------------------- MODULE ChannelStore_proofs -------------------------
(***************************************************************************)
(* Theorems about ChannelStore, for any number of connections, groups,     *)
(* broadcasters and messages and any size of the mailboxes.                *)
(***************************************************************************)
EXTENDS ChannelStore, FiniteSetTheorems, FunctionTheorems, SequenceTheorems, TLAPS

(* A mailbox stays one under each operation the table performs on it.       *)
LEMMA MailboxOps ==
  ASSUME NEW mb \in Mailbox(Msgs, Msgs), NEW m \in Msgs
  PROVE  /\ NewMailbox \in Mailbox(Msgs, Msgs)
         /\ HasRoom(mb) => Push(mb, m) \in Mailbox(Msgs, Msgs)
         /\ Wait(mb, m) \in Mailbox(Msgs, Msgs)
         /\ Redeem(mb, m, m) \in Mailbox(Msgs, Msgs)
         /\ mb.queue # << >> => Recv(mb) \in Mailbox(Msgs, Msgs)
         /\ IsWaiting(mb, m) \/ m \in mb.granted => Withdraw(mb, m) \in Mailbox(Msgs, Msgs)
         /\ DropReceiver(mb) \in Mailbox(Msgs, Msgs)
  <1>1. NewMailbox \in Mailbox(Msgs, Msgs)
    BY BufferAssumption DEF NewMailbox, Mailbox
  <1>2. ASSUME HasRoom(mb) PROVE Push(mb, m) \in Mailbox(Msgs, Msgs)
    <2>1. Append(mb.queue, m) \in Seq(Msgs) /\ mb.free - 1 \in Nat
      BY <1>2 DEF HasRoom, Mailbox
    <2> QED BY <2>1 DEF Push, Mailbox
  <1>3. Wait(mb, m) \in Mailbox(Msgs, Msgs)
    <2>1. Append(mb.waiting, m) \in Seq(Msgs)
      BY DEF Mailbox
    <2> QED BY <2>1 DEF Wait, Mailbox
  <1>4. Redeem(mb, m, m) \in Mailbox(Msgs, Msgs)
    <2>1. Append(mb.queue, m) \in Seq(Msgs) /\ mb.granted \ {m} \in SUBSET Msgs
      BY DEF Mailbox
    <2> QED BY <2>1 DEF Redeem, Mailbox
  <1>5. ASSUME NEW box \in Mailbox(Msgs, Msgs) PROVE ReleaseSlot(box) \in Mailbox(Msgs, Msgs)
    <2>1. box.free + 1 \in Nat
      BY DEF Mailbox
    <2>2. CASE box.waiting = << >>
      BY <2>1, <2>2 DEF ReleaseSlot, Mailbox
    <2>3. CASE box.waiting # << >>
      <3>1. /\ Tail(box.waiting) \in Seq(Msgs)
            /\ box.granted \cup {Head(box.waiting)} \in SUBSET Msgs
        BY <2>3 DEF Mailbox
      <3> QED BY <2>3, <3>1 DEF ReleaseSlot, Mailbox
    <2> QED BY <2>2, <2>3
  <1>7. ASSUME mb.queue # << >> PROVE Recv(mb) \in Mailbox(Msgs, Msgs)
    <2> DEFINE popped == [mb EXCEPT !.queue = Tail(@)]
    <2>1. Tail(mb.queue) \in Seq(Msgs)
      BY <1>7 DEF Mailbox
    <2>2. popped \in Mailbox(Msgs, Msgs)
      BY <2>1 DEF Mailbox
    <2> HIDE DEF popped
    <2> QED BY <1>5, <2>2 DEF Recv, popped
  <1>8. ASSUME IsWaiting(mb, m) \/ m \in mb.granted PROVE Withdraw(mb, m) \in Mailbox(Msgs, Msgs)
    <2>1. CASE m \in mb.granted
      <3> DEFINE box == [mb EXCEPT !.granted = @ \ {m}]
      <3>1. box \in Mailbox(Msgs, Msgs)
        BY DEF Mailbox
      <3> HIDE DEF box
      <3> QED BY <1>5, <2>1, <3>1 DEF Withdraw, box
    <2>2. CASE m \notin mb.granted
      <3> DEFINE k == CHOOSE k \in 1 .. Len(mb.waiting) : mb.waiting[k] = m
                 line == SubSeq(mb.waiting, 1, k - 1) \o SubSeq(mb.waiting, k + 1, Len(mb.waiting))
      <3>1. mb.waiting \in Seq(Msgs) /\ Len(mb.waiting) \in Nat
        BY DEF Mailbox
      <3>2. k \in 1 .. Len(mb.waiting)
        BY <1>8, <2>2 DEF IsWaiting
      <3> HIDE DEF k
      <3>3. /\ SubSeq(mb.waiting, 1, k - 1) \in Seq(Msgs)
            /\ SubSeq(mb.waiting, k + 1, Len(mb.waiting)) \in Seq(Msgs)
        BY <3>1, <3>2, SubSeqProperties
      <3>4. line \in Seq(Msgs)
        BY <3>3, ConcatProperties
      <3>5. Withdraw(mb, m) = [mb EXCEPT !.waiting = line]
        BY <2>2 DEF Withdraw, k
      <3> HIDE DEF line
      <3> QED BY <3>4, <3>5 DEF Mailbox
    <2> QED BY <2>1, <2>2
  <1>6. DropReceiver(mb) \in Mailbox(Msgs, Msgs)
    BY DEF DropReceiver, Mailbox
  <1> QED BY <1>1, <1>2, <1>3, <1>4, <1>6, <1>7, <1>8

-----------------------------------------------------------------------------
(* Type correctness.                                                        *)
LEMMA TypeInit == Init => TypeOK
  <1> SUFFICES ASSUME Init PROVE TypeOK
    OBVIOUS
  <1>1. NewMailbox \in Mailbox(Msgs, Msgs)
    BY BufferAssumption DEF NewMailbox, Mailbox
  <1>2. Idle \in Broadcast
    BY StoreAssumption DEF Idle, Broadcast
  <1>3. Idle.pc = "idle"
    BY DEF Idle
  <1>4. senders \in [DOMAIN senders -> Conns] /\ DOMAIN senders \subseteq Ids
    BY DEF Init
  <1>5. mailbox \in [Conns -> Mailbox(Msgs, Msgs)] /\ bc \in [Broadcasters -> Broadcast]
    BY <1>1, <1>2 DEF Init
  <1>6. /\ nextId \in Ids /\ groups \in [Groups -> SUBSET Ids]
        /\ connId \in [Conns -> Nat] /\ sweep \in [Conns -> SUBSET Groups]
        /\ sent \in 0 .. MaxMsg
    BY StoreAssumption DEF Init, Ids
  <1>8. aborted \in BOOLEAN /\ lateJoins \subseteq Conns \X Groups
    BY DEF Init
  <1>9. due \in [Broadcasters -> SUBSET (Groups \X Ids)]
    BY DEF Init
  <1>7. /\ late \in [Msgs -> Seq(Conns)] /\ taken \in [Conns -> Seq(Msgs)]
        /\ hits \in [Msgs -> [Conns -> Nat]]
        /\ future \in [Msgs -> {"none", "awaited", "cancelled"}]
    BY DEF Init
  <1> QED BY <1>3, <1>4, <1>5, <1>6, <1>7, <1>8, <1>9 DEF Init, TypeOK

LEMMA TypeStep == TypeOK /\ [Next]_vars => TypeOK'
  <1> SUFFICES ASSUME TypeOK, [Next]_vars PROVE TypeOK'
    OBVIOUS
  <1> USE StoreAssumption
  <1>1. ASSUME NEW c \in Conns, RegisterFetch(c) PROVE TypeOK'
    <2>1. UNCHANGED <<senders, groups, sweep, bc, sending, aborted, due, lateJoins>>
      BY <1>1 DEF RegisterFetch
    <2>2. /\ nextId' \in Ids /\ connId' \in [Conns -> Nat]
          /\ stage' \in [Conns -> {"accepted", "numbered", "joining", "serving", "sweeping", "gone"}]
          /\ \A d \in Conns : stage'[d] # "accepted" => connId'[d] \in Ids
      BY <1>1 DEF TypeOK, RegisterFetch, Ids
    <2> QED BY <2>1, <2>2 DEF TypeOK, sending
  <1>2. ASSUME NEW c \in Conns, RegisterInsert(c) PROVE TypeOK'
    BY <1>2 DEF TypeOK, RegisterInsert, sending, Ids
  <1>3. ASSUME NEW c \in Conns, JoinDefault(c) PROVE TypeOK'
    BY <1>3 DEF TypeOK, JoinDefault, sending, Ids
  <1>4. ASSUME NEW c \in Conns, RemoveSender(c) PROVE TypeOK'
    BY <1>4 DEF TypeOK, RemoveSender, sending, Ids
  <1>5. ASSUME NEW c \in Conns, NEW g \in Groups, SweepGroup(c, g) PROVE TypeOK'
    BY <1>5 DEF TypeOK, SweepGroup, sending, Ids
  <1>6. ASSUME NEW c \in Conns, RemoveReturns(c) PROVE TypeOK'
    BY <1>6 DEF TypeOK, RemoveReturns, store, sending, Ids
  <1>7. ASSUME NEW c \in Conns, NEW g \in Groups, Join(c, g) PROVE TypeOK'
    BY <1>7 DEF TypeOK, Join, Reachable, client, sending, Ids
  <1>8. ASSUME NEW c \in Conns, NEW g \in Groups, Leave(c, g) PROVE TypeOK'
    BY <1>8 DEF TypeOK, Leave, Without, client, sending, Ids
  <1>9. ASSUME NEW c \in Conns, SendStep(c) PROVE sent + 1 \in Msgs /\ sent' \in 0 .. MaxMsg
    BY <1>9 DEF TypeOK, SendStep, Msgs
  <1>10. ASSUME NEW c \in Conns, SendAccepted(c) PROVE TypeOK'
    <2>1. sent + 1 \in Msgs /\ sent' \in 0 .. MaxMsg
      BY <1>9, <1>10 DEF SendAccepted
    <2>2. mailbox' \in [Conns -> Mailbox(Msgs, Msgs)]
      <3>1. Push(mailbox[c], sent + 1) \in Mailbox(Msgs, Msgs)
        BY <1>10, <2>1, MailboxOps DEF TypeOK, SendAccepted
      <3> QED BY <1>10, <3>1 DEF TypeOK, SendAccepted
    <2>3. hits' \in [Msgs -> [Conns -> Nat]]
      BY <1>10, <2>1 DEF TypeOK, SendAccepted
    <2> QED BY <1>10, <2>1, <2>2, <2>3 DEF TypeOK, SendAccepted, SendStep, store, client
  <1>11. ASSUME NEW c \in Conns, NEW t, NEW f, SendBlocked(c, t, f) PROVE TypeOK'
    <2>1. sent + 1 \in Msgs /\ sent' \in 0 .. MaxMsg
      BY <1>9, <1>11 DEF SendBlocked
    <2>2. /\ hits' \in [Msgs -> [Conns -> Nat]] /\ late' \in [Msgs -> Seq(Conns)]
          /\ future' \in [Msgs -> {"none", "awaited", "cancelled"}]
      BY <1>11, <2>1 DEF TypeOK, SendBlocked
    <2> QED BY <1>11, <2>1, <2>2 DEF TypeOK, SendBlocked, SendStep, store, client
  <1>12. ASSUME NEW c \in Conns, NEW t, NEW f, SendPanics(c, t, f) PROVE TypeOK'
    BY <1>9, <1>12 DEF TypeOK, SendPanics, SendStep, store, client
  <1>13. ASSUME NEW c \in Conns, NEW t, NEW f, SendIgnored(c, t, f) PROVE TypeOK'
    BY <1>9, <1>13 DEF TypeOK, SendIgnored, SendStep, store, client
  <1>14. ASSUME NEW b \in Broadcasters, NEW list \in GroupLists, NEW e \in Nat,
                NEW t \in {"worker", "loop"}, Begin(b, list, e, t)
         PROVE  TypeOK'
    <2>1. sent + 1 \in Msgs /\ sent' \in 0 .. MaxMsg
      BY <1>14 DEF TypeOK, Begin, Msgs
    <2>2. list \in Seq(Groups)
      OBVIOUS
    <2> DEFINE r == [pc |-> "next", list |-> list, cur |-> NoGroup, seen |-> {},
                     exclude |-> e, blocked |-> << >>, msg |-> sent + 1, thread |-> t]
    <2>3. r \in Broadcast
      BY <2>1, <2>2 DEF Broadcast, Msgs
    <2>4. bc' = [bc EXCEPT ![b] = r] /\ r.pc = "next" /\ r.msg = sent + 1
      BY <1>14 DEF Begin
    <2> HIDE DEF r
    <2>5. /\ bc' \in [Broadcasters -> Broadcast]
          /\ \A x \in Broadcasters : /\ bc'[x].pc # "idle" => bc'[x].msg \in Msgs
                                     /\ bc'[x].pc = "visit" => bc'[x].cur \in Groups
      BY <2>1, <2>3, <2>4 DEF TypeOK
    <2>6. due' \in [Broadcasters -> SUBSET (Groups \X Ids)]
      <3>1. UNION {{<<list[k], i>> : i \in groups[list[k]] \cap DOMAIN senders} :
                     k \in 1 .. Len(list)} \in SUBSET (Groups \X Ids)
        BY <2>2 DEF TypeOK
      <3> QED BY <1>14, <3>1 DEF TypeOK, Begin
    <2> QED BY <1>14, <2>1, <2>5, <2>6 DEF TypeOK, Begin, store, client
  <1>15. ASSUME NEW b \in Broadcasters, OpenGroup(b) PROVE TypeOK'
    <2>1. bc[b].list \in Seq(Groups) /\ bc[b].list # << >>
      BY <1>15 DEF TypeOK, OpenGroup, Broadcast
    <2>2. Head(bc[b].list) \in Groups /\ Tail(bc[b].list) \in Seq(Groups)
      BY <2>1
    <2> DEFINE r == [bc[b] EXCEPT !.pc = "visit", !.cur = Head(bc[b].list),
                                  !.list = Tail(bc[b].list), !.seen = {}]
    <2>3. r \in Broadcast /\ r.pc = "visit" /\ r.cur \in Groups /\ r.msg = bc[b].msg
      <3>1. bc[b] \in Broadcast
        BY DEF TypeOK
      <3> QED BY <2>2, <3>1 DEF Broadcast
    <2>4. bc' = [bc EXCEPT ![b] = r] /\ bc[b].pc = "next"
      BY <1>15 DEF OpenGroup, TypeOK
    <2> HIDE DEF r
    <2>5. /\ bc' \in [Broadcasters -> Broadcast]
          /\ \A x \in Broadcasters : /\ bc'[x].pc # "idle" => bc'[x].msg \in Msgs
                                     /\ bc'[x].pc = "visit" => bc'[x].cur \in Groups
      BY <2>3, <2>4 DEF TypeOK
    <2> QED BY <1>15, <2>5 DEF TypeOK, OpenGroup, store, client, sending
  <1>16. ASSUME NEW b \in Broadcasters, NEW i \in Ids, Seen(b, i)
         PROVE  /\ bc' \in [Broadcasters -> Broadcast]
                /\ \A x \in Broadcasters : /\ bc'[x].pc # "idle" => bc'[x].msg \in Msgs
                                           /\ bc'[x].pc = "visit" => bc'[x].cur \in Groups
    <2> DEFINE r == [bc[b] EXCEPT !.seen = @ \cup {i}]
    <2>1. r \in Broadcast /\ r.pc = bc[b].pc /\ r.cur = bc[b].cur /\ r.msg = bc[b].msg
      <3>1. bc[b] \in Broadcast
        BY DEF TypeOK
      <3>2. bc[b].seen \cup {i} \in SUBSET Ids
        BY <3>1 DEF Broadcast
      <3> QED BY <3>1, <3>2 DEF Broadcast
    <2>2. bc' = [bc EXCEPT ![b] = r]
      BY <1>16 DEF Seen, TypeOK
    <2> HIDE DEF r
    <2> QED BY <2>1, <2>2 DEF TypeOK
  <1>17. ASSUME NEW b \in Broadcasters, NEW i, Yields(b, i)
         PROVE  i \in Ids /\ bc[b].msg \in Msgs
    BY <1>17 DEF TypeOK, Yields
  <1>18. ASSUME NEW b \in Broadcasters, NEW i, PassMember(b, i) PROVE TypeOK'
    <2>1. i \in Ids
      BY <1>17, <1>18 DEF PassMember
    <2> QED BY <1>16, <1>18, <2>1 DEF TypeOK, PassMember, store, client, sending
  <1>19. ASSUME NEW b \in Broadcasters, NEW i, ~ Skips(b, i) PROVE senders[i] \in Conns
    BY <1>19 DEF TypeOK, Skips
  <1>20. ASSUME NEW b \in Broadcasters, NEW i, HitMember(b, i) PROVE TypeOK'
    <2>1. i \in Ids /\ bc[b].msg \in Msgs /\ senders[i] \in Conns
      BY <1>17, <1>19, <1>20 DEF HitMember
    <2>2. mailbox' \in [Conns -> Mailbox(Msgs, Msgs)]
      <3>1. Push(mailbox[senders[i]], bc[b].msg) \in Mailbox(Msgs, Msgs)
        BY <1>20, <2>1, MailboxOps DEF TypeOK, HitMember
      <3> QED BY <1>20, <3>1 DEF TypeOK, HitMember
    <2>3. hits' \in [Msgs -> [Conns -> Nat]]
      <3>1. hits' = [hits EXCEPT ![bc[b].msg][senders[i]] = @ + 1]
        BY <1>20 DEF HitMember
      <3>2. hits \in [Msgs -> [Conns -> Nat]]
        BY DEF TypeOK
      <3> QED BY <2>1, <3>1, <3>2
    <2>4. Seen(b, i)
      BY <1>20 DEF HitMember
    <2> QED BY <1>16, <1>20, <2>1, <2>2, <2>3, <2>4 DEF TypeOK, HitMember, store, client
  <1>21. ASSUME NEW b \in Broadcasters, NEW i, BlockedMember(b, i) PROVE TypeOK'
    <2>1. i \in Ids /\ bc[b].msg \in Msgs /\ senders[i] \in Conns
      BY <1>17, <1>19, <1>21 DEF BlockedMember
    <2> DEFINE r == [bc[b] EXCEPT !.seen = @ \cup {i}, !.blocked = Append(@, senders[i])]
    <2>2. Append(bc[b].blocked, senders[i]) \in Seq(Conns)
      BY <2>1 DEF TypeOK, Broadcast
    <2>3. r \in Broadcast /\ r.pc = bc[b].pc /\ r.cur = bc[b].cur /\ r.msg = bc[b].msg
      <3>1. bc[b] \in Broadcast
        BY DEF TypeOK
      <3>2. bc[b].seen \cup {i} \in SUBSET Ids
        BY <2>1, <3>1 DEF Broadcast
      <3> QED BY <2>2, <3>1, <3>2 DEF Broadcast
    <2>4. bc' = [bc EXCEPT ![b] = r]
      BY <1>21 DEF BlockedMember, TypeOK
    <2> HIDE DEF r
    <2>5. /\ bc' \in [Broadcasters -> Broadcast]
          /\ \A x \in Broadcasters : /\ bc'[x].pc # "idle" => bc'[x].msg \in Msgs
                                     /\ bc'[x].pc = "visit" => bc'[x].cur \in Groups
      BY <2>3, <2>4 DEF TypeOK
    <2>6. hits' \in [Msgs -> [Conns -> Nat]]
      <3>1. hits' = [hits EXCEPT ![bc[b].msg][senders[i]] = @ + 1]
        BY <1>21 DEF BlockedMember
      <3>2. hits \in [Msgs -> [Conns -> Nat]]
        BY DEF TypeOK
      <3> QED BY <2>1, <3>1, <3>2
    <2> QED BY <1>21, <2>5, <2>6 DEF TypeOK, BlockedMember, store, client
  <1>22. ASSUME NEW b \in Broadcasters, CloseGroup(b) PROVE TypeOK'
    <2> DEFINE r == [bc[b] EXCEPT !.pc = "next", !.cur = NoGroup]
    <2>1. r \in Broadcast /\ r.pc = "next" /\ r.msg = bc[b].msg /\ bc[b].pc # "idle"
      <3>1. bc[b] \in Broadcast
        BY DEF TypeOK
      <3> QED BY <1>22, <3>1 DEF Broadcast, CloseGroup
    <2>2. bc' = [bc EXCEPT ![b] = r]
      BY <1>22 DEF CloseGroup, TypeOK
    <2> HIDE DEF r
    <2>3. /\ bc' \in [Broadcasters -> Broadcast]
          /\ \A x \in Broadcasters : /\ bc'[x].pc # "idle" => bc'[x].msg \in Msgs
                                     /\ bc'[x].pc = "visit" => bc'[x].cur \in Groups
      BY <2>1, <2>2 DEF TypeOK
    <2> QED BY <1>22, <2>3 DEF TypeOK, CloseGroup, store, client, sending
  <1>23. ASSUME NEW b \in Broadcasters, Return(b) PROVE TypeOK'
    <2>1. Idle \in Broadcast /\ Idle.pc = "idle"
      BY DEF Idle, Broadcast
    <2>2. /\ bc' \in [Broadcasters -> Broadcast]
          /\ \A x \in Broadcasters : /\ bc'[x].pc # "idle" => bc'[x].msg \in Msgs
                                     /\ bc'[x].pc = "visit" => bc'[x].cur \in Groups
      BY <1>23, <2>1 DEF TypeOK, Return
    <2>3. late' \in [Msgs -> Seq(Conns)]
      BY <1>23 DEF TypeOK, Return, Broadcast
    <2>4. due' \in [Broadcasters -> SUBSET (Groups \X Ids)]
      BY <1>23 DEF TypeOK, Return
    <2> QED BY <1>23, <2>2, <2>3, <2>4 DEF TypeOK, Return, store, client
  <1>24. ASSUME NEW b \in Broadcasters, SpawnPanics(b) PROVE TypeOK'
    BY <1>24 DEF TypeOK, SpawnPanics, store, client, sending
  <1>25. ASSUME NEW m \in Msgs, LateStep(m) PROVE TypeOK'
    <2>1. Head(late[m]) \in Conns /\ Tail(late[m]) \in Seq(Conns)
      BY <1>25 DEF TypeOK, LateStep
    <2> DEFINE mb == mailbox[Head(late[m])]
    <2>2. mb \in Mailbox(Msgs, Msgs)
      BY <2>1 DEF TypeOK
    <2>3. mb.open \in BOOLEAN /\ mb.free \in Nat
      BY <2>2 DEF Mailbox
    <2>4. CASE LatePolled(m)
      <3>1. HasRoom(mb) \/ IsFull(mb) \/ IsClosed(mb)
        BY <2>3 DEF HasRoom, IsFull, IsClosed
      <3>2. mailbox' \in [Conns -> Mailbox(Msgs, Msgs)]
        BY <2>1, <2>2, <2>3, <2>4, <3>1, MailboxOps DEF TypeOK, LatePolled, HasRoom, IsFull, IsClosed
      <3>3. late' \in [Msgs -> Seq(Conns)]
        BY <2>1, <2>4 DEF TypeOK, LatePolled
      <3> QED BY <1>25, <3>2, <3>3 DEF TypeOK, LateStep, store, client
    <2>5. CASE LateRedeemed(m)
      <3>1. mailbox' \in [Conns -> Mailbox(Msgs, Msgs)]
        BY <2>1, <2>2, <2>5, MailboxOps DEF TypeOK, LateRedeemed
      <3>2. late' \in [Msgs -> Seq(Conns)]
        BY <2>1, <2>5 DEF TypeOK, LateRedeemed
      <3> QED BY <1>25, <3>1, <3>2 DEF TypeOK, LateStep, store, client
    <2> QED BY <1>25, <2>4, <2>5 DEF LateStep
  <1>26. ASSUME NEW c \in Conns, Take(c) PROVE TypeOK'
    <2>1. mailbox[c] \in Mailbox(Msgs, Msgs) /\ mailbox[c].queue # << >>
      BY <1>26 DEF TypeOK, Take
    <2>2. Head(mailbox[c].queue) \in Msgs
      BY <2>1 DEF Mailbox
    <2>3. Recv(mailbox[c]) \in Mailbox(Msgs, Msgs)
      BY <2>1, <2>2, MailboxOps
    <2>4. mailbox' \in [Conns -> Mailbox(Msgs, Msgs)]
      BY <1>26, <2>3 DEF TypeOK, Take
    <2>5. taken' \in [Conns -> Seq(Msgs)]
      BY <1>26, <2>2 DEF TypeOK, Take
    <2> QED BY <1>26, <2>4, <2>5 DEF TypeOK, Take, store, client
  <1>27. ASSUME NEW c \in Conns, DropRx(c) PROVE TypeOK'
    <2>1. DropReceiver(mailbox[c]) \in Mailbox(Msgs, Msgs)
      BY DEF DropReceiver, Mailbox
    <2>2. mailbox' \in [Conns -> Mailbox(Msgs, Msgs)]
      BY <1>27, <2>1 DEF TypeOK, DropRx
    <2> QED BY <1>27, <2>2 DEF TypeOK, DropRx, store, client
  <1>29. ASSUME NEW m \in Msgs, CancelSend(m) PROVE TypeOK'
    <2> DEFINE c == Head(late[m])
    <2>1. c \in Conns /\ mailbox[c] \in Mailbox(Msgs, Msgs)
      BY <1>29 DEF TypeOK, CancelSend
    <2>2. Withdraw(mailbox[c], m) \in Mailbox(Msgs, Msgs)
      BY <1>29, <2>1, MailboxOps DEF CancelSend
    <2>3. mailbox' \in [Conns -> Mailbox(Msgs, Msgs)]
      BY <1>29, <2>1, <2>2 DEF TypeOK, CancelSend
    <2>4. late' \in [Msgs -> Seq(Conns)] /\ future' \in [Msgs -> {"none", "awaited", "cancelled"}]
      BY <1>29 DEF TypeOK, CancelSend
    <2> QED BY <1>29, <2>3, <2>4 DEF TypeOK, CancelSend, store, client
  <1>28. ASSUME UNCHANGED vars PROVE TypeOK'
    BY <1>28 DEF TypeOK, vars, store, client, sending
  <1> QED
    <2>1. CASE UNCHANGED vars
      BY <1>28, <2>1
    <2>2. CASE Next
      <3>1. ASSUME NEW c \in Conns, Register(c) \/ Remove(c) \/ Take(c) \/ DropRx(c)
            PROVE  TypeOK'
        BY <3>1, <1>1, <1>2, <1>3, <1>4, <1>5, <1>6, <1>26, <1>27 DEF Register, Remove
      <3>2. ASSUME NEW c \in Conns, NEW t \in {"worker", "loop"}, Call(c, t) PROVE TypeOK'
        <4>1. ASSUME NEW f, ConnSend(c, t, f) PROVE TypeOK'
          BY <4>1, <1>10, <1>11, <1>12, <1>13 DEF ConnSend
        <4>2. ASSUME NEW list \in GroupLists, NEW x, ConnBroadcast(c, list, x, t)
              PROVE  TypeOK'
          <5>1. (IF x THEN connId[c] ELSE 0) \in Nat
            BY DEF TypeOK
          <5> QED BY <4>2, <5>1, <1>14 DEF ConnBroadcast
        <4> QED BY <3>2, <4>1, <4>2, <1>7, <1>8 DEF Call
      <3>3. ASSUME NEW b \in Broadcasters, BroadcastStep(b) PROVE TypeOK'
        BY <3>3, <1>15, <1>18, <1>20, <1>21, <1>22, <1>23, <1>24 DEF BroadcastStep
      <3>4. ASSUME NEW b \in Broadcasters, NEW list \in GroupLists, Dispatch(b, list)
            PROVE  TypeOK'
        BY <3>4, <1>14 DEF Dispatch
      <3> QED BY <2>2, <3>1, <3>2, <3>3, <3>4, <1>25, <1>29 DEF Next
    <2> QED BY <2>1, <2>2

(* Every state has its type, for every value of the constants.              *)
THEOREM TypeCorrect == Spec => []TypeOK
  <1>1. TypeOK /\ [Next]_vars => TypeOK'
    BY TypeStep
  <1> QED BY <1>1, TypeInit, PTL DEF Spec

-----------------------------------------------------------------------------
(* The id a connection was given is below the counter and no other          *)
(* connection's; with OwnEntry this is inductive.                           *)
IdInv ==
  /\ \A c \in Conns : Numbered(c) => connId[c] < nextId
  /\ \A c, d \in Conns : Numbered(c) /\ Numbered(d) /\ connId[c] = connId[d] => c = d
  /\ OwnEntry

(* Every member of a group is a connection that has been served.            *)
MemberInv ==
  \A g \in Groups : \A i \in groups[g] : \E c \in Conns : connId[c] = i /\ Reachable(c)

(* A group `remove` has passed lists the connection only after a late join. *)
SweepInv ==
  \A c \in Conns :
    /\ stage[c] = "gone" => sweep[c] = {}
    /\ \A g \in Groups :
         stage[c] \in {"sweeping", "gone"} /\ g \notin sweep[c] /\ connId[c] \in groups[g]
           => <<c, g>> \in lateJoins

TableInv == TypeOK /\ IdInv /\ MemberInv /\ SweepInv

(* The steps that do not touch the table, its ids or the control of a       *)
(* handle_client task.                                                      *)
Quiet == UNCHANGED <<store, client, lateJoins>>

LEMMA TableSteps ==
  ASSUME [Next]_vars
  PROVE  \/ Quiet
         \/ \E c \in Conns : Register(c) \/ Remove(c)
         \/ \E c \in Conns, g \in Groups : Join(c, g) \/ Leave(c, g)
  <1>1. CASE UNCHANGED vars
    BY <1>1 DEF Quiet, vars, store, client
  <1>2. ASSUME NEW c \in Conns, Take(c) \/ DropRx(c) PROVE Quiet
    BY <1>2 DEF Take, DropRx, Quiet, store, client
  <1>3. ASSUME NEW c \in Conns, NEW t, NEW f, ConnSend(c, t, f) PROVE Quiet
    BY <1>3 DEF ConnSend, SendAccepted, SendBlocked, SendPanics, SendIgnored, SendStep,
                Quiet, store, client
  <1>4. ASSUME NEW b, NEW list, NEW e, NEW t, Begin(b, list, e, t) PROVE Quiet
    BY <1>4 DEF Begin, Quiet, store, client
  <1>5. ASSUME NEW b \in Broadcasters, BroadcastStep(b) PROVE Quiet
    BY <1>5 DEF BroadcastStep, OpenGroup, PassMember, HitMember, BlockedMember, CloseGroup,
                Return, SpawnPanics, Quiet, store, client
  <1>6. ASSUME NEW m \in Msgs, LateStep(m) \/ CancelSend(m) PROVE Quiet
    BY <1>6 DEF LateStep, CancelSend, Quiet, store, client
  <1>7. ASSUME NEW c \in Callers, NEW t \in Threads, Call(c, t)
        PROVE  Quiet \/ \E g \in Groups : Join(c, g) \/ Leave(c, g)
    <2>1. c \in Conns
      BY StoreAssumption
    <2> QED BY <1>3, <1>4, <1>7, <2>1 DEF Call, ConnBroadcast
  <1> QED
    <2>1. Callers \subseteq Conns
      BY StoreAssumption
    <2> QED BY <1>1, <1>2, <1>4, <1>5, <1>6, <1>7, <2>1 DEF Next, Dispatch

LEMMA IdStep == TypeOK /\ IdInv /\ [Next]_vars => IdInv'
  <1> SUFFICES ASSUME TypeOK, IdInv, [Next]_vars PROVE IdInv'
    OBVIOUS
  <1> USE DEF IdInv, OwnEntry, Numbered, Listed
  <1>0. /\ nextId \in Ids /\ connId \in [Conns -> Nat]
        /\ stage \in [Conns -> {"accepted", "numbered", "joining", "serving", "sweeping", "gone"}]
        /\ senders \in [DOMAIN senders -> Conns]
    BY DEF TypeOK
  <1>1. ASSUME UNCHANGED <<nextId, senders, stage, connId>> PROVE IdInv'
    BY <1>1
  <1>2. ASSUME NEW c \in Conns, RegisterFetch(c) PROVE IdInv'
    <2>2. /\ stage[c] = "accepted" /\ nextId' = nextId + 1 /\ senders' = senders
          /\ connId' = [connId EXCEPT ![c] = nextId] /\ stage' = [stage EXCEPT ![c] = "numbered"]
      BY <1>2 DEF RegisterFetch
    <2>3. \A d \in Conns : d # c => stage'[d] = stage[d] /\ connId'[d] = connId[d]
      BY <1>0, <2>2
    <2>4. /\ stage'[c] = "numbered" /\ connId'[c] = nextId /\ nextId \in Nat
          /\ \A d \in Conns : connId[d] \in Nat
      BY <1>0, <2>2 DEF Ids
    <2>5. \A d \in Conns : Numbered(d)' => connId'[d] < nextId'
      BY <2>2, <2>3, <2>4
    <2>6. \A d, e \in Conns : Numbered(d)' /\ Numbered(e)' /\ connId'[d] = connId'[e] => d = e
      BY <2>2, <2>3, <2>4
    <2>7. OwnEntry'
      BY <2>2, <2>3, <2>4
    <2> QED BY ONLY <2>5, <2>6, <2>7 DEF IdInv
  <1>3. ASSUME NEW c \in Conns, RegisterInsert(c) PROVE IdInv'
    BY <1>0, <1>3 DEF RegisterInsert
  <1>4. ASSUME NEW c \in Conns, JoinDefault(c) PROVE IdInv'
    BY <1>0, <1>4 DEF JoinDefault
  <1>5. ASSUME NEW c \in Conns, RemoveSender(c) PROVE IdInv'
    BY <1>0, <1>5 DEF RemoveSender
  <1>6. ASSUME NEW c \in Conns, RemoveReturns(c) PROVE IdInv'
    BY <1>0, <1>6 DEF RemoveReturns, store
  <1>7. ASSUME NEW c \in Conns, NEW g \in Groups, SweepGroup(c, g) \/ Join(c, g) \/ Leave(c, g)
        PROVE  IdInv'
    BY <1>1, <1>7 DEF SweepGroup, Join, Leave, client
  <1> QED BY <1>1, <1>2, <1>3, <1>4, <1>5, <1>6, <1>7, TableSteps
          DEF Quiet, store, client, Register, Remove

LEMMA MemberStep == TypeOK /\ MemberInv /\ [Next]_vars => MemberInv'
  <1> SUFFICES ASSUME TypeOK, MemberInv, [Next]_vars PROVE MemberInv'
    OBVIOUS
  <1> DEFINE Stays == \A d \in Conns : Reachable(d) => Reachable(d)' /\ connId'[d] = connId[d]
  <1>1. ASSUME Stays, \A g \in Groups : groups'[g] \subseteq groups[g] PROVE MemberInv'
    BY <1>1 DEF MemberInv
  <1>2. ASSUME Stays, NEW c \in Conns, Reachable(c)',
               \A g \in Groups : groups'[g] \subseteq groups[g] \cup {connId'[c]}
        PROVE  MemberInv'
    <2> SUFFICES ASSUME NEW g \in Groups, NEW i \in groups'[g]
                 PROVE  \E d \in Conns : connId'[d] = i /\ Reachable(d)'
      BY DEF MemberInv
    <2>1. CASE i = connId'[c]
      BY <1>2, <2>1
    <2>2. CASE i \in groups[g]
      <3>1. PICK d \in Conns : connId[d] = i /\ Reachable(d)
        BY <2>2 DEF MemberInv
      <3> QED BY <1>2, <3>1
    <2> QED BY <1>2, <2>1, <2>2
  <1> HIDE DEF Stays
  <1>3. ASSUME Quiet PROVE MemberInv'
    BY <1>1, <1>3 DEF Quiet, store, client, Stays, Reachable
  <1>4. ASSUME NEW c \in Conns, RegisterFetch(c) \/ RegisterInsert(c) PROVE MemberInv'
    BY <1>1, <1>4 DEF TypeOK, RegisterFetch, RegisterInsert, Stays, Reachable
  <1>5. ASSUME NEW c \in Conns, JoinDefault(c) PROVE MemberInv'
    <2>1. Stays /\ Reachable(c)'
      BY <1>5 DEF TypeOK, JoinDefault, Stays, Reachable
    <2>2. \A g \in Groups : groups'[g] \subseteq groups[g] \cup {connId'[c]}
      BY <1>5 DEF TypeOK, JoinDefault
    <2> QED BY <1>2, <2>1, <2>2
  <1>6. ASSUME NEW c \in Conns, RemoveSender(c) \/ RemoveReturns(c) PROVE MemberInv'
    BY <1>1, <1>6 DEF TypeOK, RemoveSender, RemoveReturns, store, Stays, Reachable
  <1>7. ASSUME NEW c \in Conns, NEW h \in Groups, SweepGroup(c, h) \/ Leave(c, h)
        PROVE  MemberInv'
    <2>1. Stays
      BY <1>7 DEF SweepGroup, Leave, client, Stays, Reachable
    <2>2. \A g \in Groups : groups'[g] \subseteq groups[g]
      BY <1>7 DEF TypeOK, SweepGroup, Leave
    <2> QED BY <1>1, <2>1, <2>2
  <1>8. ASSUME NEW c \in Conns, NEW h \in Groups, Join(c, h) PROVE MemberInv'
    <2>1. Stays /\ Reachable(c)'
      BY <1>8 DEF Join, client, Stays, Reachable
    <2>2. \A g \in Groups : groups'[g] \subseteq groups[g] \cup {connId'[c]}
      BY <1>8 DEF TypeOK, Join, client
    <2> QED BY <1>2, <2>1, <2>2
  <1> QED BY <1>3, <1>4, <1>5, <1>6, <1>7, <1>8, TableSteps DEF Register, Remove

LEMMA SweepStep == TypeOK /\ IdInv /\ SweepInv /\ [Next]_vars => SweepInv'
  <1> SUFFICES ASSUME TypeOK, IdInv, SweepInv, [Next]_vars PROVE SweepInv'
    OBVIOUS
  <1> USE DEF SweepInv
  <1>1. ASSUME Quiet PROVE SweepInv'
    BY <1>1 DEF Quiet, store, client
  <1>2. ASSUME NEW c \in Conns, RegisterFetch(c) \/ RegisterInsert(c) PROVE SweepInv'
    BY <1>2 DEF TypeOK, RegisterFetch, RegisterInsert
  <1>3. ASSUME NEW c \in Conns, JoinDefault(c) PROVE SweepInv'
    BY <1>3 DEF TypeOK, IdInv, Numbered, JoinDefault
  <1>4. ASSUME NEW c \in Conns, RemoveSender(c) \/ RemoveReturns(c) PROVE SweepInv'
    BY <1>4 DEF TypeOK, RemoveSender, RemoveReturns, store
  <1>5. ASSUME NEW c \in Conns, NEW h \in Groups, SweepGroup(c, h) \/ Leave(c, h)
        PROVE  SweepInv'
    <2>1. CASE SweepGroup(c, h)
      <3>1. /\ \A d \in Conns : stage'[d] = "gone" => sweep'[d] = {}
            /\ \A d \in Conns : d # c => sweep'[d] = sweep[d]
            /\ sweep'[c] = sweep[c] \ {h}
            /\ \A g \in Groups : groups'[g] \subseteq groups[g]
            /\ connId[c] \notin groups'[h]
        BY <2>1 DEF TypeOK, SweepGroup
      <3> QED BY <2>1, <3>1 DEF SweepGroup
    <2>2. CASE Leave(c, h)
      BY <2>2 DEF TypeOK, Leave, client
    <2> QED BY <1>5, <2>1, <2>2
  <1>6. ASSUME NEW c \in Conns, NEW g \in Groups, Join(c, g) PROVE SweepInv'
    BY <1>6 DEF TypeOK, IdInv, Numbered, Join, Reachable, client
  <1> QED BY <1>1, <1>2, <1>3, <1>4, <1>5, <1>6, TableSteps DEF Register, Remove

LEMMA TableInvInit == Init => TableInv
  <1> SUFFICES ASSUME Init PROVE TableInv
    OBVIOUS
  <1>1. IdInv
    BY DEF Init, IdInv, OwnEntry, Numbered, Listed
  <1>2. MemberInv /\ SweepInv
    BY DEF Init, MemberInv, SweepInv
  <1> QED BY <1>1, <1>2, TypeInit DEF TableInv

THEOREM TableCorrect == Spec => []TableInv
  <1>1. TableInv /\ [Next]_vars => TableInv'
    BY TypeStep, IdStep, MemberStep, SweepStep DEF TableInv
  <1> QED BY <1>1, TableInvInit, PTL DEF Spec

(* Concurrent registrations and removals keep the table: while a connection *)
(* is listed its id leads to its own mailbox, and every entry belongs to    *)
(* a listed connection.                                                     *)
THEOREM EntriesAreOwn == Spec => []OwnEntry
  <1>1. TableInv => OwnEntry
    BY DEF TableInv, IdInv
  <1> QED BY <1>1, TableCorrect, PTL

(* A broadcast that meets a member without a sender has met a connection    *)
(* that is being or was removed, never one that is being registered.        *)
THEOREM MembersAreServed == Spec => []MembersHaveSenders
  <1>1. TableInv => MembersHaveSenders
    BY DEF TableInv, IdInv, OwnEntry, Listed, MemberInv, Reachable, MembersHaveSenders
  <1> QED BY <1>1, TableCorrect, PTL

(* `remove` leaves no member behind: a group that lists a removed           *)
(* connection was joined by a callback after `remove` had passed it.        *)
THEOREM OnlyLateJoinsRemain == Spec => []DeadMembersJoinedLate
  <1>1. TableInv => DeadMembersJoinedLate
    BY DEF TableInv, SweepInv, DeadMembersJoinedLate
  <1> QED BY <1>1, TableCorrect, PTL

-----------------------------------------------------------------------------
(* Running broadcasts carry different messages, none of them in the future, *)
(* and the id a broadcast excludes has been given out.                      *)
MsgInv ==
  /\ \A b \in Broadcasters : bc[b].exclude < nextId
  /\ \A b \in Broadcasters : bc[b].pc # "idle" => bc[b].msg <= sent
  /\ \A b, d \in Broadcasters :
       bc[b].pc # "idle" /\ bc[d].pc # "idle" /\ bc[b].msg = bc[d].msg => b = d
  /\ \A m \in Msgs, c \in Conns : m > sent => hits[m][c] = 0
  /\ ExcludedNeverHit

(* What a step may do to hits: one more hit, by a broadcast or by a send.   *)
Hit(m, c) == hits' = [hits EXCEPT ![m][c] = @ + 1]

LEMMA HitMemberIsAllowed ==
  ASSUME TypeOK, IdInv, NEW b \in Broadcasters, NEW i,
         HitMember(b, i) \/ BlockedMember(b, i)
  PROVE  /\ bc[b].pc # "idle" /\ i # bc[b].exclude /\ senders[i] \in Conns
         /\ connId[senders[i]] = i /\ stage[senders[i]] \in {"joining", "serving"}
         /\ Hit(bc[b].msg, senders[i])
  BY DEF HitMember, BlockedMember, Yields, Skips, Hit, TypeOK, IdInv, OwnEntry, Listed

LEMMA MsgStep == TypeOK /\ IdInv /\ MsgInv /\ [Next]_vars => MsgInv'
  <1> SUFFICES ASSUME TypeOK, IdInv, MsgInv, [Next]_vars PROVE MsgInv'
    OBVIOUS
  <1>1. ASSUME UNCHANGED <<bc, sent, hits, connId>>, nextId' = nextId PROVE MsgInv'
    BY <1>1 DEF MsgInv, ExcludedNeverHit
  <1>2. ASSUME NEW c \in Conns, RegisterFetch(c) PROVE MsgInv'
    BY <1>2 DEF MsgInv, ExcludedNeverHit, RegisterFetch, TypeOK, sending, Ids, Broadcast
  <1>3. ASSUME NEW c \in Conns, RegisterInsert(c) \/ JoinDefault(c) \/ Remove(c)
        PROVE  MsgInv'
    BY <1>1, <1>3 DEF RegisterInsert, JoinDefault, Remove, RemoveSender, SweepGroup,
                      RemoveReturns, store, sending
  <1>4. ASSUME NEW c \in Conns, NEW g \in Groups, Join(c, g) \/ Leave(c, g) PROVE MsgInv'
    BY <1>1, <1>4 DEF Join, Leave, client, sending
  <1>5. ASSUME NEW c \in Conns, NEW t, NEW f, ConnSend(c, t, f) PROVE MsgInv'
    <2>1. sent + 1 \in Msgs /\ sent' = sent + 1 /\ sent \in Nat
      BY <1>5, StoreAssumption DEF ConnSend, SendAccepted, SendBlocked, SendPanics, SendIgnored, SendStep,
                  TypeOK, Msgs
    <2>2. UNCHANGED <<bc, connId, nextId>>
      BY <1>5 DEF ConnSend, SendAccepted, SendBlocked, SendPanics, SendIgnored, SendStep,
                  store, client
    <2>3. hits' = hits \/ Hit(sent + 1, c)
      BY <1>5 DEF ConnSend, SendAccepted, SendBlocked, SendPanics, SendIgnored, Hit
    <2>4. \A m \in Msgs, d \in Conns : m # sent + 1 => hits'[m][d] = hits[m][d]
      BY <2>1, <2>3 DEF Hit, TypeOK
    <2>5. \A b \in Broadcasters : bc[b].pc # "idle" =>
            bc[b].msg \in Msgs /\ bc[b].msg <= sent /\ bc[b].msg # sent + 1
      BY <2>1 DEF MsgInv, TypeOK, Msgs
    <2>6. ExcludedNeverHit'
      BY <2>2, <2>4, <2>5 DEF MsgInv, ExcludedNeverHit
    <2>7. \A m \in Msgs, d \in Conns : m > sent' => hits'[m][d] = 0
      BY <2>1, <2>4 DEF MsgInv, Msgs
    <2>8. \A b \in Broadcasters : bc[b].pc # "idle" => bc[b].msg <= sent'
      BY <2>1, <2>5 DEF Msgs
    <2> QED BY <2>2, <2>6, <2>7, <2>8 DEF MsgInv
  <1>6. ASSUME NEW b \in Broadcasters, NEW list, NEW e \in Nat, e < nextId, NEW t,
               Begin(b, list, e, t)
        PROVE  MsgInv'
    <2>1. sent + 1 \in Msgs /\ sent' = sent + 1 /\ sent \in Nat
      BY <1>6, StoreAssumption DEF Begin, TypeOK, Msgs
    <2>2. /\ UNCHANGED <<hits, connId, nextId>>
          /\ bc[b].pc = "idle"
          /\ bc'[b].pc = "next" /\ bc'[b].msg = sent + 1 /\ bc'[b].exclude = e
          /\ \A d \in Broadcasters : d # b => bc'[d] = bc[d]
      BY <1>6 DEF Begin, TypeOK, store, client
    <2>3. \A d \in Broadcasters : bc[d].pc # "idle" =>
            bc[d].msg \in Msgs /\ bc[d].msg <= sent /\ bc[d].msg # sent + 1
      BY <2>1 DEF MsgInv, TypeOK, Msgs
    <2>4. ExcludedNeverHit'
      BY <2>1, <2>2 DEF MsgInv, ExcludedNeverHit
    <2>5. \A m \in Msgs, d \in Conns : m > sent' => hits'[m][d] = 0
      BY <2>1, <2>2 DEF MsgInv, Msgs
    <2>6. /\ \A d \in Broadcasters : bc'[d].pc # "idle" => bc'[d].msg <= sent'
          /\ \A d \in Broadcasters : bc'[d].exclude < nextId
      BY <1>6, <2>1, <2>2, <2>3 DEF MsgInv, Msgs
    <2>7. \A d, x \in Broadcasters :
            bc'[d].pc # "idle" /\ bc'[x].pc # "idle" /\ bc'[d].msg = bc'[x].msg => d = x
      BY <2>2, <2>3 DEF MsgInv
    <2> QED BY <2>2, <2>4, <2>5, <2>6, <2>7 DEF MsgInv
  <1>7. ASSUME NEW b \in Broadcasters, NEW i, HitMember(b, i) \/ BlockedMember(b, i)
        PROVE  MsgInv'
    <2> DEFINE c == senders[i]
    <2>1. /\ bc[b].pc # "idle" /\ i # bc[b].exclude /\ c \in Conns /\ connId[c] = i
          /\ Hit(bc[b].msg, c)
      BY <1>7, HitMemberIsAllowed
    <2>2. UNCHANGED <<connId, nextId, sent>>
      BY <1>7 DEF HitMember, BlockedMember, store, client
    <2>3. \A d \in Broadcasters : /\ bc'[d].pc = bc[d].pc /\ bc'[d].msg = bc[d].msg
                                  /\ bc'[d].exclude = bc[d].exclude
      <3>1. bc \in [Broadcasters -> Broadcast]
        BY DEF TypeOK
      <3>2. CASE HitMember(b, i)
        BY <3>1, <3>2 DEF HitMember, Seen, Broadcast
      <3>3. CASE BlockedMember(b, i)
        BY <3>1, <3>3 DEF BlockedMember, Broadcast
      <3> QED BY <1>7, <3>2, <3>3
    <2>4. \A m \in Msgs, d \in Conns : m # bc[b].msg \/ d # c => hits'[m][d] = hits[m][d]
      BY <2>1 DEF Hit, TypeOK
    <2>5. bc[b].msg \in Msgs /\ bc[b].msg <= sent /\ sent \in Nat
      BY <2>1 DEF MsgInv, TypeOK
    <2> HIDE DEF c
    <2>6. ExcludedNeverHit'
      <3> SUFFICES ASSUME NEW d \in Broadcasters, NEW x \in Conns, bc[d].pc # "idle",
                          bc[d].exclude # 0, connId[x] = bc[d].exclude
                   PROVE  hits'[bc[d].msg][x] = 0
        BY <2>2, <2>3 DEF ExcludedNeverHit
      <3>1. bc[d].msg \in Msgs /\ hits[bc[d].msg][x] = 0
        BY DEF MsgInv, ExcludedNeverHit, TypeOK
      <3>2. bc[d].msg # bc[b].msg \/ x # c
        BY <2>1 DEF MsgInv
      <3> QED BY <2>4, <3>1, <3>2
    <2>7. \A m \in Msgs, d \in Conns : m > sent => hits'[m][d] = 0
      BY <2>4, <2>5 DEF MsgInv, Msgs
    <2> QED BY <2>2, <2>3, <2>6, <2>7 DEF MsgInv
  <1>8. ASSUME NEW b \in Broadcasters, UNCHANGED <<sent, hits, connId, nextId>>,
               \A d \in Broadcasters :
                 /\ bc'[d].exclude = bc[d].exclude \/ bc'[d].exclude = 0
                 /\ bc'[d].pc # "idle" =>
                      /\ bc[d].pc # "idle" /\ bc'[d].msg = bc[d].msg
                      /\ bc'[d].exclude = bc[d].exclude
        PROVE  MsgInv'
    <2>1. 0 < nextId
      BY DEF TypeOK, Ids
    <2> QED BY <1>8, <2>1 DEF MsgInv, ExcludedNeverHit
  <1>9. ASSUME NEW b \in Broadcasters,
               OpenGroup(b) \/ (\E i : PassMember(b, i)) \/ CloseGroup(b) \/ Return(b)
        PROVE  MsgInv'
    <2>1. UNCHANGED <<sent, hits, connId, nextId>>
      BY <1>9 DEF OpenGroup, PassMember, CloseGroup, Return, store, client, sending
    <2> DEFINE Kept ==
          \A d \in Broadcasters :
            /\ bc'[d].exclude = bc[d].exclude \/ bc'[d].exclude = 0
            /\ bc'[d].pc # "idle" => /\ bc[d].pc # "idle" /\ bc'[d].msg = bc[d].msg
                                     /\ bc'[d].exclude = bc[d].exclude
    <2>2. bc \in [Broadcasters -> Broadcast]
      BY DEF TypeOK
    <2>3. ASSUME OpenGroup(b) PROVE Kept
      BY <2>2, <2>3 DEF OpenGroup, Broadcast
    <2>4. ASSUME NEW i, PassMember(b, i) PROVE Kept
      BY <2>2, <2>4 DEF PassMember, Yields, Seen, Broadcast
    <2>5. ASSUME CloseGroup(b) PROVE Kept
      BY <2>2, <2>5 DEF CloseGroup, Broadcast
    <2>6. ASSUME Return(b) PROVE Kept
      BY <2>2, <2>6 DEF Return, LoopDone, Idle, Broadcast
    <2>7. Kept
      BY <1>9, <2>3, <2>4, <2>5, <2>6
    <2> QED BY <1>8, <2>1, <2>7
  <1>10. ASSUME NEW b \in Broadcasters, SpawnPanics(b) PROVE MsgInv'
    BY <1>1, <1>10 DEF SpawnPanics, store, client, sending
  <1>11. ASSUME NEW m \in Msgs, LateStep(m) \/ CancelSend(m) PROVE MsgInv'
    BY <1>1, <1>11 DEF LateStep, CancelSend, store, client
  <1>12. ASSUME NEW c \in Conns, Take(c) \/ DropRx(c) PROVE MsgInv'
    BY <1>1, <1>12 DEF Take, DropRx, store, client
  <1>13. ASSUME NEW c \in Conns, NEW t, Call(c, t) PROVE MsgInv'
    <2>1. ASSUME NEW list, NEW x, ConnBroadcast(c, list, x, t) PROVE MsgInv'
      <3>1. connId[c] \in Nat /\ connId[c] < nextId /\ 0 < nextId
        BY <2>1 DEF ConnBroadcast, Reachable, TypeOK, IdInv, Numbered, Ids
      <3>2. (IF x THEN connId[c] ELSE 0) \in Nat /\ (IF x THEN connId[c] ELSE 0) < nextId
        BY <3>1
      <3> QED BY <2>1, <3>2, <1>6, StoreAssumption DEF ConnBroadcast
    <2> QED BY <1>4, <1>5, <1>13, <2>1 DEF Call
  <1>14. ASSUME NEW b \in Broadcasters, NEW list, Dispatch(b, list) PROVE MsgInv'
    <2>1. 0 < nextId
      BY DEF TypeOK, Ids
    <2> QED BY <1>6, <1>14, <2>1 DEF Dispatch
  <1>15. ASSUME UNCHANGED vars PROVE MsgInv'
    BY <1>1, <1>15 DEF vars, store, client, sending
  <1>16. ASSUME NEW b \in Broadcasters, BroadcastStep(b) PROVE MsgInv'
    BY <1>7, <1>9, <1>10, <1>16 DEF BroadcastStep
  <1>17. Callers \subseteq Conns
    BY StoreAssumption
  <1> QED BY <1>2, <1>3, <1>11, <1>12, <1>13, <1>14, <1>15, <1>16, <1>17 DEF Next, Register

LEMMA MsgInvInit == Init => MsgInv
  BY StoreAssumption DEF Init, MsgInv, ExcludedNeverHit, Idle

THEOREM MessagesCorrect == Spec => [](TableInv /\ MsgInv)
  <1>1. TableInv /\ MsgInv /\ [Next]_vars => (TableInv /\ MsgInv)'
    BY TypeStep, IdStep, MemberStep, SweepStep, MsgStep DEF TableInv
  <1> QED BY <1>1, TableInvInit, MsgInvInit, PTL DEF Spec

(* exclude_self: the sender of a broadcast is never sent its own message,   *)
(* whatever the groups and whoever else broadcasts.                         *)
THEOREM SenderIsExcluded == Spec => []ExcludedNeverHit
  <1>1. MsgInv => ExcludedNeverHit
    BY DEF MsgInv
  <1> QED BY <1>1, MessagesCorrect, PTL

(* No broadcast reaches a connection whose sender `remove` has taken.       *)
THEOREM RemovedConnectionsAreNotHit == Spec => RemovedIsNotHit
  <1> DEFINE Untouched ==
        \A c \in Conns, b \in Broadcasters :
          stage[c] \in {"sweeping", "gone"} /\ bc[b].pc # "idle" =>
            hits'[bc[b].msg][c] = hits[bc[b].msg][c]
  <1>1. ASSUME TableInv, MsgInv, [Next]_vars PROVE Untouched
    <2> USE <1>1 DEF TableInv
    <2>1. ASSUME hits' = hits PROVE Untouched
      BY <2>1
    <2>2. ASSUME NEW b \in Broadcasters, NEW i, HitMember(b, i) \/ BlockedMember(b, i)
          PROVE  Untouched
      <3>1. /\ stage[senders[i]] \in {"joining", "serving"} /\ bc[b].pc # "idle"
            /\ Hit(bc[b].msg, senders[i])
        BY <2>2, HitMemberIsAllowed
      <3>2. \A m \in Msgs, d \in Conns :
              stage[d] \in {"sweeping", "gone"} => hits'[m][d] = hits[m][d]
        BY <3>1 DEF Hit, TypeOK
      <3> QED BY <3>2 DEF TypeOK
    <2>3. ASSUME NEW c \in Conns, NEW t, NEW f, ConnSend(c, t, f) PROVE Untouched
      <3>1. hits' = hits \/ Hit(sent + 1, c)
        BY <2>3 DEF ConnSend, SendAccepted, SendBlocked, SendPanics, SendIgnored, Hit
      <3>2. \A b \in Broadcasters : bc[b].pc # "idle" =>
              bc[b].msg \in Msgs /\ bc[b].msg # sent + 1
        BY DEF MsgInv, TypeOK, Msgs
      <3> QED BY <3>1, <3>2 DEF Hit, TypeOK
    <2>4. ASSUME NEW b, NEW list, NEW e, NEW t, Begin(b, list, e, t) PROVE hits' = hits
      BY <2>4 DEF Begin
    <2>5. ASSUME NEW c, NEW t, Call(c, t), c \in Conns PROVE Untouched
      BY <2>1, <2>3, <2>4, <2>5 DEF Call, Join, Leave, ConnBroadcast, sending
    <2>6. ASSUME NEW b \in Broadcasters, BroadcastStep(b) PROVE Untouched
      BY <2>1, <2>2, <2>6 DEF BroadcastStep, OpenGroup, PassMember, CloseGroup, Return,
                              SpawnPanics, sending
    <2>7. ASSUME NEW c \in Conns, Register(c) \/ Remove(c) \/ Take(c) \/ DropRx(c)
          PROVE  hits' = hits
      BY <2>7 DEF Register, RegisterFetch, RegisterInsert, JoinDefault, Remove, RemoveSender,
                  SweepGroup, RemoveReturns, Take, DropRx, sending
    <2>8. ASSUME NEW m \in Msgs, LateStep(m) \/ CancelSend(m) PROVE hits' = hits
      BY <2>8 DEF LateStep, CancelSend
    <2>9. Callers \subseteq Conns
      BY StoreAssumption
    <2>10. CASE UNCHANGED vars
      BY <2>1, <2>10 DEF vars, sending
    <2> QED BY <2>1, <2>4, <2>5, <2>6, <2>7, <2>8, <2>9, <2>10 DEF Next, Dispatch
  <1>2. (TableInv /\ MsgInv) /\ [Next]_vars => [Untouched]_vars
    BY <1>1
  <1> QED BY <1>2, MessagesCorrect, PTL DEF Spec, RemovedIsNotHit

-----------------------------------------------------------------------------
LEMMA Popped ==
  ASSUME NEW S, NEW s \in Seq(S), s # << >>
  PROVE  /\ Tail(s) \in Seq(S) /\ Len(s) \in Nat \ {0} /\ Len(Tail(s)) = Len(s) - 1
         /\ Head(s) = s[1] /\ s[1] \in S
         /\ \A i \in 1 .. Len(s) - 1 : Tail(s)[i] = s[i + 1]
  BY HeadTailProperties, EmptySeq, ElementOfSeq

(* Only a drop of the receiver closes a mailbox.                            *)
LEMMA MailboxStaysOpen ==
  ASSUME TypeOK, NEW c \in Conns, NEW d \in Conns, NEW m \in Msgs,
         \/ mailbox' = [mailbox EXCEPT ![c] = Push(@, m)]
         \/ mailbox' = [mailbox EXCEPT ![c] = Wait(@, m)]
         \/ mailbox' = [mailbox EXCEPT ![c] = Redeem(@, m, m)]
         \/ mailbox' = [mailbox EXCEPT ![c] = Recv(@)]
         \/ mailbox' = mailbox
  PROVE  mailbox'[d].open = mailbox[d].open
  <1>1. mailbox[c] \in Mailbox(Msgs, Msgs) /\ mailbox \in [Conns -> Mailbox(Msgs, Msgs)]
    BY DEF TypeOK
  <1>2. /\ Push(mailbox[c], m).open = mailbox[c].open
        /\ Wait(mailbox[c], m).open = mailbox[c].open
        /\ Redeem(mailbox[c], m, m).open = mailbox[c].open
    BY <1>1 DEF Mailbox, Push, Wait, Redeem
  <1>3. Recv(mailbox[c]).open = mailbox[c].open
    BY <1>1 DEF Mailbox, Recv, ReleaseSlot
  <1> QED BY <1>1, <1>2, <1>3

(* A send that is dropped leaves the queue and the receiver alone.          *)
LEMMA Withdraws ==
  ASSUME TypeOK, NEW m \in Msgs, CancelSend(m)
  PROVE  \A c \in Conns : /\ mailbox'[c].queue = mailbox[c].queue
                         /\ mailbox'[c].open = mailbox[c].open
  <1> DEFINE d == Head(late[m])
  <1>1. late[m] \in Seq(Conns) /\ late[m] # << >>
    BY DEF CancelSend, TypeOK
  <1>2. d \in Conns
    BY <1>1, Popped
  <1>3. mailbox \in [Conns -> Mailbox(Msgs, Msgs)] /\ mailbox[d] \in Mailbox(Msgs, Msgs)
    BY <1>2 DEF TypeOK
  <1>4. mailbox' = [mailbox EXCEPT ![d] = Withdraw(@, m)]
    BY DEF CancelSend
  <1> HIDE DEF d
  <1>5. /\ Withdraw(mailbox[d], m).queue = mailbox[d].queue
        /\ Withdraw(mailbox[d], m).open = mailbox[d].open
    BY <1>3 DEF Withdraw, ReleaseSlot, Mailbox
  <1> QED BY <1>3, <1>4, <1>5

(* What the task of message m does to a mailbox.                            *)
LEMMA LateMoves ==
  ASSUME TypeOK, NEW m \in Msgs, LateStep(m)
  PROVE  \E d \in Conns : \/ mailbox' = [mailbox EXCEPT ![d] = Push(@, m)]
                          \/ mailbox' = [mailbox EXCEPT ![d] = Wait(@, m)]
                          \/ mailbox' = [mailbox EXCEPT ![d] = Redeem(@, m, m)]
                          \/ mailbox' = mailbox
  <1> DEFINE d == Head(late[m])
  <1>1. d \in Conns
    <2>1. late[m] \in Seq(Conns) /\ late[m] # << >>
      BY DEF LateStep, TypeOK
    <2> QED BY <2>1, Popped
  <1>2. HasRoom(mailbox[d]) \/ IsFull(mailbox[d]) \/ IsClosed(mailbox[d])
    BY <1>1 DEF TypeOK, Mailbox, HasRoom, IsFull, IsClosed
  <1>3. CASE LatePolled(m)
    <2>1. mailbox' = [mailbox EXCEPT ![d] = CASE HasRoom(mailbox[d])  -> Push(@, m)
                                              [] IsFull(mailbox[d])   -> Wait(@, m)
                                              [] IsClosed(mailbox[d]) -> @]
      BY <1>3 DEF LatePolled
    <2>2. CASE HasRoom(mailbox[d])
      <3>1. ~ IsFull(mailbox[d]) /\ ~ IsClosed(mailbox[d])
        BY <1>1, <2>2 DEF HasRoom, IsFull, IsClosed, TypeOK, Mailbox
      <3> QED BY <1>1, <2>1, <2>2, <3>1
    <2>3. CASE IsFull(mailbox[d])
      <3>1. ~ HasRoom(mailbox[d]) /\ ~ IsClosed(mailbox[d])
        BY <1>1, <2>3 DEF HasRoom, IsFull, IsClosed, TypeOK, Mailbox
      <3> QED BY <1>1, <2>1, <2>3, <3>1
    <2>4. CASE IsClosed(mailbox[d])
      <3>1. ~ HasRoom(mailbox[d]) /\ ~ IsFull(mailbox[d])
        BY <1>1, <2>4 DEF HasRoom, IsFull, IsClosed, TypeOK, Mailbox
      <3>2. mailbox' = [mailbox EXCEPT ![d] = @]
        BY <2>1, <2>4, <3>1
      <3>3. mailbox' = mailbox
        BY <3>2 DEF TypeOK
      <3> QED BY <1>1, <3>3
    <2> QED BY <1>2, <2>2, <2>3, <2>4
  <1>4. CASE LateRedeemed(m)
    BY <1>1, <1>4 DEF LateRedeemed
  <1> QED BY <1>3, <1>4 DEF LateStep

(* What the code between the begin of a broadcast and its end owes a stable  *)
(* member: its group is still to be visited, or it is still to be yielded,  *)
(* or it is the excluded one, or it was offered the message.                *)
Pending(b, g, i) ==
  \/ \E k \in 1 .. Len(bc[b].list) : bc[b].list[k] = g
  \/ bc[b].pc = "visit" /\ bc[b].cur = g /\ i \notin bc[b].seen

Offered(b, i) ==
  hits[bc[b].msg][senders[i]] > 0 \/ ~ mailbox[senders[i]].open

Stable(g, i) == i \in DOMAIN senders /\ i \in groups[g]

DueOf(b) ==
  bc[b].pc # "idle" => \A p \in due[b] :
    /\ Stable(p[1], p[2])
    /\ Pending(b, p[1], p[2]) \/ p[2] = bc[b].exclude \/ Offered(b, p[2])

DueInv == \A b \in Broadcasters : DueOf(b)

(* Hits are never taken back, and a closed mailbox stays closed.            *)
LEMMA OffersStay ==
  ASSUME TypeOK, IdInv, [Next]_vars
  PROVE  /\ \A m \in Msgs, c \in Conns : hits[m][c] > 0 => hits'[m][c] > 0
         /\ \A c \in Conns : ~ mailbox[c].open => ~ mailbox'[c].open
  <1> USE StoreAssumption
  <1> DEFINE HitsStay == \A m \in Msgs, c \in Conns : hits[m][c] > 0 => hits'[m][c] > 0
             ClosedStays == \A c \in Conns : ~ mailbox[c].open => ~ mailbox'[c].open
  <1>1. ASSUME NEW c \in Conns, NEW m \in Msgs, hits' = hits \/ Hit(m, c) PROVE HitsStay
    <2>1. CASE Hit(m, c)
      <3>1. hits'[m][c] = hits[m][c] + 1 /\ hits[m][c] \in Nat
        BY <2>1 DEF Hit, TypeOK
      <3>2. \A n \in Msgs, d \in Conns : n # m \/ d # c => hits'[n][d] = hits[n][d]
        BY <2>1 DEF Hit, TypeOK
      <3> QED BY <3>1, <3>2
    <2> QED BY <1>1, <2>1
  <1>2. ASSUME NEW c \in Conns, NEW m \in Msgs,
               \/ mailbox' = [mailbox EXCEPT ![c] = Push(@, m)]
               \/ mailbox' = [mailbox EXCEPT ![c] = Wait(@, m)]
               \/ mailbox' = [mailbox EXCEPT ![c] = Redeem(@, m, m)]
               \/ mailbox' = [mailbox EXCEPT ![c] = Recv(@)]
               \/ mailbox' = mailbox
        PROVE  ClosedStays
    BY <1>2, MailboxStaysOpen
  <1>3. ASSUME UNCHANGED <<hits, mailbox>> PROVE HitsStay /\ ClosedStays
    BY <1>3
  <1>4. ASSUME NEW c \in Conns, Register(c) \/ Remove(c) PROVE HitsStay /\ ClosedStays
    BY <1>3, <1>4 DEF Register, RegisterFetch, RegisterInsert, JoinDefault, Remove, RemoveSender,
                      SweepGroup, RemoveReturns, sending
  <1>5. ASSUME NEW c \in Conns, Take(c) PROVE HitsStay /\ ClosedStays
    <2>1. mailbox[c].queue \in Seq(Msgs) /\ mailbox[c].queue # << >>
      BY <1>5 DEF Take, TypeOK, Mailbox
    <2>2. Head(mailbox[c].queue) \in Msgs
      BY <2>1, Popped
    <2>3. mailbox' = [mailbox EXCEPT ![c] = Recv(@)] /\ hits' = hits
      BY <1>5 DEF Take
    <2> QED BY <1>2, <2>2, <2>3
  <1>6. ASSUME NEW c \in Conns, DropRx(c) PROVE HitsStay /\ ClosedStays
    BY <1>6 DEF DropRx, DropReceiver, TypeOK
  <1>7. ASSUME NEW c \in Conns, NEW t, NEW f, ConnSend(c, t, f) PROVE HitsStay /\ ClosedStays
    <2>1. sent + 1 \in Msgs
      BY <1>7 DEF ConnSend, SendAccepted, SendBlocked, SendPanics, SendIgnored, SendStep, TypeOK, Msgs
    <2>2. /\ hits' = hits \/ Hit(sent + 1, c)
          /\ mailbox' = [mailbox EXCEPT ![c] = Push(@, sent + 1)] \/ mailbox' = mailbox
      BY <1>7 DEF ConnSend, SendAccepted, SendBlocked, SendPanics, SendIgnored, Hit
    <2> QED BY <1>1, <1>2, <2>1, <2>2
  <1>8. ASSUME NEW b, NEW list, NEW e, NEW t, Begin(b, list, e, t) PROVE HitsStay /\ ClosedStays
    BY <1>3, <1>8 DEF Begin
  <1>9. ASSUME NEW c \in Callers, NEW t, Call(c, t) PROVE HitsStay /\ ClosedStays
    <2>1. ASSUME NEW g, Join(c, g) \/ Leave(c, g) PROVE HitsStay /\ ClosedStays
      BY <1>3, <2>1 DEF Join, Leave, sending
    <2> QED BY <1>7, <1>8, <1>9, <2>1 DEF Call, ConnBroadcast
  <1>10. ASSUME NEW b \in Broadcasters, BroadcastStep(b) PROVE HitsStay /\ ClosedStays
    <2>1. ASSUME NEW i, HitMember(b, i) \/ BlockedMember(b, i) PROVE HitsStay /\ ClosedStays
      <3>1. bc[b].msg \in Msgs /\ senders[i] \in Conns /\ Hit(bc[b].msg, senders[i])
        BY <2>1, HitMemberIsAllowed DEF TypeOK
      <3>2. \/ mailbox' = [mailbox EXCEPT ![senders[i]] = Push(@, bc[b].msg)]
            \/ mailbox' = mailbox
        BY <2>1 DEF HitMember, BlockedMember
      <3> QED BY <1>1, <1>2, <3>1, <3>2
    <2>2. ASSUME NEW i, PassMember(b, i) PROVE HitsStay /\ ClosedStays
      BY <1>3, <2>2 DEF PassMember, sending
    <2>3. CASE OpenGroup(b) \/ CloseGroup(b) \/ Return(b) \/ SpawnPanics(b)
      BY <1>3, <2>3 DEF OpenGroup, CloseGroup, Return, SpawnPanics, sending
    <2> QED BY <1>10, <2>1, <2>2, <2>3 DEF BroadcastStep
  <1>11. ASSUME NEW m \in Msgs, LateStep(m) PROVE HitsStay /\ ClosedStays
    <2>1. PICK d \in Conns : \/ mailbox' = [mailbox EXCEPT ![d] = Push(@, m)]
                            \/ mailbox' = [mailbox EXCEPT ![d] = Wait(@, m)]
                            \/ mailbox' = [mailbox EXCEPT ![d] = Redeem(@, m, m)]
                            \/ mailbox' = mailbox
      BY <1>11, LateMoves
    <2>2. hits' = hits
      BY <1>11 DEF LateStep
    <2> QED BY <1>2, <2>1, <2>2
  <1>13. ASSUME NEW m \in Msgs, CancelSend(m) PROVE HitsStay /\ ClosedStays
    BY <1>13, Withdraws DEF CancelSend
  <1>12. CASE UNCHANGED vars
    BY <1>3, <1>12 DEF vars, sending
  <1> QED BY <1>4, <1>5, <1>6, <1>8, <1>9, <1>10, <1>11, <1>12, <1>13 DEF Next, Dispatch

(* A due member stays one: who is removed or made to leave is due no more.  *)
LEMMA DueStaysStable ==
  ASSUME TypeOK, IdInv, [Next]_vars, NEW b \in Broadcasters, NEW p \in due[b], p \in due'[b],
         Stable(p[1], p[2])
  PROVE  Stable(p[1], p[2])' /\ senders'[p[2]] = senders[p[2]]
  <1> DEFINE g == p[1]
             i == p[2]
  <1>1. /\ g \in Groups /\ i \in Ids /\ p = <<g, i>> /\ i \in DOMAIN senders /\ i \in groups[g]
        /\ senders[i] \in Conns /\ Listed(senders[i]) /\ connId[senders[i]] = i
    BY DEF TypeOK, IdInv, OwnEntry, Stable
  <1> HIDE DEF g, i
  <1>2. \A c \in Conns : Numbered(c) /\ connId[c] = i => c = senders[i]
    BY <1>1 DEF IdInv, Numbered, Listed
  <1> DEFINE Goal == i \in DOMAIN senders' /\ i \in groups'[g] /\ senders'[i] = senders[i]
  <1>3. ASSUME UNCHANGED senders, \A h \in Groups : groups[h] \subseteq groups'[h] PROVE Goal
    BY <1>1, <1>3
  <1>4. ASSUME NEW c \in Conns, Register(c) PROVE Goal
    <2>1. CASE RegisterFetch(c) \/ JoinDefault(c)
      <3>1. UNCHANGED senders
        BY <2>1 DEF RegisterFetch, JoinDefault
      <3>2. groups' = groups \/ groups' = [groups EXCEPT ![DefaultGroup[c]] = @ \cup {connId[c]}]
        BY <2>1 DEF RegisterFetch, JoinDefault
      <3>3. \A h \in Groups : groups[h] \subseteq groups'[h]
        BY <3>2 DEF TypeOK
      <3> QED BY <1>3, <3>1, <3>3
    <2>2. CASE RegisterInsert(c)
      <3>1. connId[c] # i
        BY <1>1, <1>2, <2>2 DEF RegisterInsert, Numbered, Listed
      <3> QED BY <1>1, <2>2, <3>1 DEF RegisterInsert
    <2> QED BY <1>4, <2>1, <2>2 DEF Register
  <1>5. ASSUME NEW c \in Conns, Remove(c) PROVE Goal
    <2>1. CASE RemoveSender(c)
      <3>1. i # connId[c]
        BY <1>1, <2>1 DEF RemoveSender
      <3> QED BY <1>1, <2>1, <3>1 DEF RemoveSender
    <2>2. ASSUME NEW h \in Groups, SweepGroup(c, h) PROVE Goal
      <3>1. i # connId[c]
        BY <1>1, <1>2, <2>2 DEF SweepGroup, Numbered, Listed
      <3> QED BY <1>1, <2>2, <3>1 DEF SweepGroup, TypeOK
    <2>3. CASE RemoveReturns(c)
      BY <1>3, <2>3 DEF RemoveReturns, store
    <2> QED BY <1>5, <2>1, <2>2, <2>3 DEF Remove
  <1>6. ASSUME NEW c \in Conns, NEW h \in Groups, Join(c, h) PROVE Goal
    BY <1>3, <1>6 DEF Join, TypeOK
  <1>7. ASSUME NEW c \in Conns, NEW h \in Groups, Leave(c, h) PROVE Goal
    <2>1. p # <<h, connId[c]>>
      BY <1>7 DEF Leave, Without
    <2>2. g # h \/ i # connId[c]
      BY <1>1, <2>1
    <2>3. UNCHANGED senders /\ groups' = [groups EXCEPT ![h] = @ \ {connId[c]}]
      BY <1>7 DEF Leave
    <2>4. i \in groups'[g]
      BY <1>1, <2>2, <2>3 DEF TypeOK
    <2> QED BY <1>1, <2>3, <2>4
  <1>8. ASSUME Quiet PROVE Goal
    <2>1. UNCHANGED <<senders, groups>>
      BY <1>8 DEF Quiet, store
    <2> QED BY <1>1, <2>1
  <1> QED BY <1>4, <1>5, <1>6, <1>7, <1>8, TableSteps DEF Stable, g, i

(* What is due to a running broadcast is no more than what was, and nothing *)
(* that was pending is dropped without an offer: then DueOf is kept.        *)
LEMMA DueKept ==
  ASSUME TypeOK, IdInv, [Next]_vars, NEW b \in Broadcasters, DueOf(b),
         bc[b].pc # "idle", bc'[b].msg = bc[b].msg, bc'[b].exclude = bc[b].exclude,
         due'[b] \subseteq due[b],
         \A p \in due[b] : Stable(p[1], p[2]) /\ Pending(b, p[1], p[2]) =>
           Pending(b, p[1], p[2])' \/ p[2] = bc[b].exclude \/ Offered(b, p[2])'
  PROVE  DueOf(b)'
  <1> SUFFICES ASSUME NEW p \in due'[b]
               PROVE  /\ Stable(p[1], p[2])'
                      /\ Pending(b, p[1], p[2])' \/ p[2] = bc[b].exclude \/ Offered(b, p[2])'
    BY DEF DueOf
  <1>1. p \in due[b]
    OBVIOUS
  <1>2. /\ Stable(p[1], p[2])
        /\ Pending(b, p[1], p[2]) \/ p[2] = bc[b].exclude \/ Offered(b, p[2])
    BY <1>1 DEF DueOf
  <1>3. Stable(p[1], p[2])' /\ senders'[p[2]] = senders[p[2]]
    BY <1>1, <1>2, DueStaysStable
  <1>4. senders[p[2]] \in Conns /\ bc[b].msg \in Msgs
    BY <1>2 DEF Stable, TypeOK
  <1>5. Offered(b, p[2]) => Offered(b, p[2])'
    <2>1. hits[bc[b].msg][senders[p[2]]] > 0 => hits'[bc[b].msg][senders[p[2]]] > 0
      BY <1>4, OffersStay
    <2>2. ~ mailbox[senders[p[2]]].open => ~ mailbox'[senders[p[2]]].open
      BY <1>4, OffersStay
    <2> QED BY <1>3, <2>1, <2>2 DEF Offered
  <1> QED BY <1>1, <1>2, <1>3, <1>5

(* Who changes the state of a broadcast: the broadcast itself.              *)
LEMMA OthersLeaveBroadcasts ==
  ASSUME TypeOK, [Next]_vars, NEW b \in Broadcasters
  PROVE  \/ bc'[b] = bc[b] /\ due'[b] \subseteq due[b]
         \/ BroadcastStep(b)
         \/ \E list \in GroupLists : \E e, t : Begin(b, list, e, t)
  <1> DEFINE Same == bc'[b] = bc[b] /\ due'[b] \subseteq due[b]
             Own == BroadcastStep(b) \/ \E list \in GroupLists : \E e, t : Begin(b, list, e, t)
  <1>0. bc \in [Broadcasters -> Broadcast] /\ due \in [Broadcasters -> SUBSET (Groups \X Ids)]
    BY DEF TypeOK
  <1>1. CASE UNCHANGED vars
    BY <1>1 DEF vars
  <1>2. ASSUME NEW c \in Conns, Register(c) \/ Remove(c) \/ Take(c) \/ DropRx(c) PROVE Same
    BY <1>2, <1>0 DEF Register, RegisterFetch, RegisterInsert, JoinDefault, Remove, RemoveSender,
                      SweepGroup, RemoveReturns, Take, DropRx
  <1>3. ASSUME NEW c \in Conns, NEW t, NEW f, ConnSend(c, t, f) PROVE Same
    BY <1>3 DEF ConnSend, SendAccepted, SendBlocked, SendPanics, SendIgnored, SendStep
  <1>4. ASSUME NEW d \in Broadcasters, d # b, NEW list, NEW e, NEW t, Begin(d, list, e, t)
        PROVE  Same
    BY <1>4, <1>0 DEF Begin
  <1>5. ASSUME NEW c \in Callers, NEW t \in Threads, Call(c, t) PROVE Same \/ Own
    <2>1. c \in Conns /\ Python \in Broadcasters
      BY StoreAssumption
    <2>2. ASSUME NEW g \in Groups, Join(c, g) \/ Leave(c, g) PROVE Same
      BY <2>2, <1>0 DEF Join, Leave, Without
    <2>3. ASSUME NEW list \in GroupLists, NEW x \in BOOLEAN, ConnBroadcast(c, list, x, t)
          PROVE  Same \/ Own
      BY <1>4, <2>1, <2>3 DEF ConnBroadcast
    <2> QED BY <1>3, <1>5, <2>1, <2>2, <2>3 DEF Call
  <1>6. ASSUME NEW d \in Broadcasters, d # b, BroadcastStep(d) PROVE Same
    BY <1>6, <1>0 DEF BroadcastStep, OpenGroup, PassMember, Seen, HitMember, BlockedMember,
                      CloseGroup, Return, SpawnPanics
  <1>7. ASSUME NEW d \in Broadcasters, NEW list \in GroupLists, Dispatch(d, list)
        PROVE  Same \/ Own
    BY <1>4, <1>7 DEF Dispatch
  <1>8. ASSUME NEW m \in Msgs, LateStep(m) \/ CancelSend(m) PROVE Same
    BY <1>8 DEF LateStep, CancelSend
  <1> QED BY <1>1, <1>2, <1>5, <1>6, <1>7, <1>8 DEF Next

LEMMA DueStep == TypeOK /\ IdInv /\ DueInv /\ [Next]_vars => DueInv'
  <1> SUFFICES ASSUME TypeOK, IdInv, DueInv, [Next]_vars, NEW b \in Broadcasters
               PROVE  DueOf(b)'
    BY DEF DueInv
  <1> USE StoreAssumption
  <1>0. /\ bc \in [Broadcasters -> Broadcast] /\ bc[b] \in Broadcast
        /\ due \in [Broadcasters -> SUBSET (Groups \X Ids)]
        /\ DueOf(b)
    BY DEF TypeOK, DueInv
  <1>1. CASE bc'[b] = bc[b] /\ due'[b] \subseteq due[b]
    <2>1. CASE bc[b].pc = "idle"
      BY <1>1, <2>1 DEF DueOf
    <2>2. CASE bc[b].pc # "idle"
      <3>1. \A p \in due[b] : Pending(b, p[1], p[2]) => Pending(b, p[1], p[2])'
        BY <1>1 DEF Pending
      <3> QED BY <1>0, <1>1, <2>2, <3>1, DueKept
    <2> QED BY <2>1, <2>2
  <1>2. ASSUME NEW list \in GroupLists, NEW e, NEW t, Begin(b, list, e, t) PROVE DueOf(b)'
    <2>1. /\ bc'[b].list = list
          /\ senders' = senders /\ groups' = groups
          /\ due'[b] = UNION {{<<list[k], i>> : i \in groups[list[k]] \cap DOMAIN senders} :
                                k \in 1 .. Len(list)}
      BY <1>0, <1>2 DEF Begin, store
    <2>2. ASSUME NEW p \in due'[b] PROVE Stable(p[1], p[2])' /\ Pending(b, p[1], p[2])'
      <3>1. PICK k \in 1 .. Len(list) : \E i \in groups[list[k]] \cap DOMAIN senders :
                                          p = <<list[k], i>>
        BY <2>1, <2>2
      <3>2. Stable(p[1], p[2])'
        BY <2>1, <3>1 DEF Stable
      <3>3. Pending(b, p[1], p[2])'
        BY <2>1, <3>1 DEF Pending
      <3> QED BY <3>2, <3>3
    <2> QED BY <2>2 DEF DueOf
  <1>3. CASE OpenGroup(b)
    <2>1. /\ bc[b].pc = "next" /\ bc[b].list # << >> /\ bc[b].list \in Seq(Groups)
          /\ bc'[b].pc = "visit" /\ bc'[b].cur = Head(bc[b].list)
          /\ bc'[b].list = Tail(bc[b].list) /\ bc'[b].seen = {}
          /\ bc'[b].msg = bc[b].msg /\ bc'[b].exclude = bc[b].exclude
          /\ due' = due
      BY <1>0, <1>3 DEF OpenGroup, Broadcast
    <2>2. ASSUME NEW p \in due[b], Pending(b, p[1], p[2]) PROVE Pending(b, p[1], p[2])'
      <3>1. PICK k \in 1 .. Len(bc[b].list) : bc[b].list[k] = p[1]
        BY <2>1, <2>2 DEF Pending
      <3>2. CASE k = 1
        BY <2>1, <3>1, <3>2 DEF Pending
      <3>3. CASE k # 1
        <4>1. k - 1 \in 1 .. Len(bc'[b].list) /\ bc'[b].list[k - 1] = p[1]
          BY <2>1, <3>1, <3>3
        <4> QED BY <4>1 DEF Pending
      <3> QED BY <3>2, <3>3
    <2> QED BY <1>0, <2>1, <2>2, DueKept
  <1>4. ASSUME NEW j, PassMember(b, j) \/ HitMember(b, j) \/ BlockedMember(b, j)
        PROVE  DueOf(b)'
    <2>1. /\ bc[b].pc = "visit" /\ j \in groups[bc[b].cur] \ bc[b].seen /\ due' = due
          /\ bc'[b].pc = bc[b].pc /\ bc'[b].list = bc[b].list /\ bc'[b].cur = bc[b].cur
          /\ bc'[b].seen = bc[b].seen \cup {j}
          /\ bc'[b].msg = bc[b].msg /\ bc'[b].exclude = bc[b].exclude
          /\ senders' = senders
      <3>1. CASE PassMember(b, j)
        BY <1>0, <3>1 DEF PassMember, Yields, Seen, Broadcast, store
      <3>2. CASE HitMember(b, j)
        BY <1>0, <3>2 DEF HitMember, Yields, Seen, Broadcast, store
      <3>3. CASE BlockedMember(b, j)
        BY <1>0, <3>3 DEF BlockedMember, Yields, Broadcast, store
      <3> QED BY <1>4, <3>1, <3>2, <3>3
    <2>2. ASSUME j \in DOMAIN senders PROVE j = bc[b].exclude \/ Offered(b, j)'
      <3>0. senders[j] \in Conns /\ bc[b].msg \in Msgs
        BY <2>1, <2>2 DEF TypeOK
      <3>1. CASE PassMember(b, j)
        <4>1. j = bc[b].exclude \/ ~ mailbox[senders[j]].open
          BY <2>2, <3>1 DEF PassMember, Skips, IsClosed
        <4>2. mailbox' = mailbox
          BY <3>1 DEF PassMember, sending
        <4> QED BY <2>1, <4>1, <4>2 DEF Offered
      <3>2. CASE HitMember(b, j) \/ BlockedMember(b, j)
        <4>1. hits' = [hits EXCEPT ![bc[b].msg][senders[j]] = @ + 1]
          BY <3>2 DEF HitMember, BlockedMember
        <4>2. hits[bc[b].msg][senders[j]] \in Nat
          BY <3>0 DEF TypeOK
        <4>3. hits'[bc[b].msg][senders[j]] > 0
          BY <3>0, <4>1, <4>2 DEF TypeOK
        <4> QED BY <2>1, <4>3 DEF Offered
      <3> QED BY <1>4, <3>1, <3>2
    <2>3. ASSUME NEW p \in due[b], Stable(p[1], p[2]), Pending(b, p[1], p[2])
          PROVE  Pending(b, p[1], p[2])' \/ p[2] = bc[b].exclude \/ Offered(b, p[2])'
      <3>1. CASE p[2] = j
        BY <2>2, <2>3, <3>1 DEF Stable
      <3>2. CASE p[2] # j
        BY <2>1, <2>3, <3>2 DEF Pending
      <3> QED BY <3>1, <3>2
    <2> QED BY <1>0, <2>1, <2>3, DueKept
  <1>5. CASE CloseGroup(b)
    <2>1. /\ bc[b].pc = "visit" /\ groups[bc[b].cur] \subseteq bc[b].seen
          /\ bc'[b].pc = "next" /\ bc'[b].list = bc[b].list
          /\ bc'[b].msg = bc[b].msg /\ bc'[b].exclude = bc[b].exclude /\ due' = due
      BY <1>0, <1>5 DEF CloseGroup, Broadcast
    <2>2. ASSUME NEW p \in due[b], Stable(p[1], p[2]), Pending(b, p[1], p[2])
          PROVE  Pending(b, p[1], p[2])'
      BY <2>1, <2>2 DEF Pending, Stable
    <2> QED BY <1>0, <2>1, <2>2, DueKept
  <1>6. CASE Return(b)
    BY <1>0, <1>6 DEF Return, Idle, DueOf
  <1>7. CASE SpawnPanics(b)
    BY <1>1, <1>7 DEF SpawnPanics
  <1>8. CASE BroadcastStep(b)
    BY <1>3, <1>4, <1>5, <1>6, <1>7, <1>8 DEF BroadcastStep
  <1> QED BY <1>1, <1>2, <1>8, OthersLeaveBroadcasts

(* When the loop is done nothing is pending, so who is due was offered the  *)
(* message.                                                                 *)
LEMMA DueMeansHit == TypeOK /\ DueInv => StableMembersAreHit
  <1> SUFFICES ASSUME TypeOK, DueInv, NEW b \in Broadcasters, LoopDone(b),
                      NEW p \in due[b], p[2] # bc[b].exclude
               PROVE  p[2] \in DOMAIN senders /\ Offered(b, p[2])
    BY DEF StableMembersAreHit, Offered, IsClosed
  <1>1. bc[b].pc = "next" /\ bc[b].list = << >>
    BY DEF LoopDone
  <1>2. ~ Pending(b, p[1], p[2])
    BY <1>1 DEF Pending
  <1> QED BY <1>1, <1>2 DEF DueInv, DueOf, Stable

(* No stable member of a group is skipped by a broadcast, whoever joins,    *)
(* leaves, is removed or broadcasts while the group is iterated.            *)
THEOREM StableMembersAreReached == Spec => []StableMembersAreHit
  <1>1. Init => DueInv
    BY DEF Init, DueInv, DueOf, Idle
  <1>2. (TableInv /\ MsgInv) /\ DueInv /\ [Next]_vars => DueInv'
    BY DueStep DEF TableInv
  <1>3. (TableInv /\ MsgInv) /\ DueInv => StableMembersAreHit
    BY DueMeansHit DEF TableInv
  <1> QED BY <1>1, <1>2, <1>3, MessagesCorrect, PTL DEF Spec

-----------------------------------------------------------------------------
(* How often an element occurs in a sequence.                               *)
Places(s, x) == {k \in 1 .. Len(s) : s[k] = x}

LEMMA PlacesFinite ==
  ASSUME NEW S, NEW s \in Seq(S), NEW x
  PROVE  IsFiniteSet(Places(s, x)) /\ Occurs(s, x) \in Nat /\ Occurs(s, x) = Cardinality(Places(s, x))
  <1>1. Len(s) \in Nat
    BY LenProperties
  <1>2. IsFiniteSet(1 .. Len(s))
    BY <1>1, FS_Interval
  <1>3. Places(s, x) \in SUBSET (1 .. Len(s))
    BY DEF Places
  <1>4. IsFiniteSet(Places(s, x))
    BY <1>2, <1>3, FS_Subset
  <1>5. Occurs(s, x) = Cardinality(Places(s, x))
    BY DEF Occurs, Places
  <1> QED BY <1>4, <1>5, FS_CardinalityType

LEMMA OccursEmpty ==
  ASSUME NEW x
  PROVE  Occurs(<< >>, x) = 0
  <1>1. {k \in 1 .. Len(<< >>) : << >>[k] = x} = {}
    OBVIOUS
  <1> QED BY <1>1, FS_EmptySet DEF Occurs

LEMMA OccursAppend ==
  ASSUME NEW S, NEW s \in Seq(S), NEW e \in S, NEW x
  PROVE  Occurs(Append(s, e), x) = Occurs(s, x) + (IF e = x THEN 1 ELSE 0)
  <1> DEFINE t == Append(s, e)
             n == Len(s)
  <1>1. /\ t \in Seq(S) /\ n \in Nat /\ Len(t) = n + 1 /\ t[n + 1] = e
        /\ \A i \in 1 .. n : t[i] = s[i]
    BY AppendProperties, LenProperties
  <1>2. /\ IsFiniteSet(Places(s, x)) /\ Occurs(s, x) = Cardinality(Places(s, x))
        /\ Occurs(s, x) \in Nat
    BY PlacesFinite
  <1>3. Occurs(t, x) = Cardinality(Places(t, x))
    BY <1>1, PlacesFinite
  <1> HIDE DEF t
  <1>4. CASE e = x
    <2>1. Places(t, x) = Places(s, x) \cup {n + 1}
      BY <1>1, <1>4 DEF Places
    <2>2. n + 1 \notin Places(s, x)
      BY <1>1 DEF Places
    <2>3. Cardinality(Places(s, x) \cup {n + 1}) = Cardinality(Places(s, x)) + 1
      BY <1>2, <2>2, FS_AddElement
    <2>4. Occurs(t, x) = Occurs(s, x) + 1
      BY <1>2, <1>3, <2>1, <2>3
    <2> QED BY <1>4, <2>4 DEF t
  <1>5. CASE e # x
    <2>1. Places(t, x) = Places(s, x)
      BY <1>1, <1>5 DEF Places
    <2> QED BY <1>2, <1>3, <1>5, <2>1 DEF t
  <1> QED BY <1>4, <1>5

LEMMA OccursTail ==
  ASSUME NEW S, NEW s \in Seq(S), s # << >>, NEW x
  PROVE  Occurs(s, x) = Occurs(Tail(s), x) + (IF Head(s) = x THEN 1 ELSE 0)
  <1> DEFINE t == Tail(s)
             n == Len(s)
             P == Places(s, x)
             Q == Places(t, x)
  <1>1. /\ t \in Seq(S) /\ n \in Nat \ {0} /\ Len(t) = n - 1 /\ Head(s) = s[1]
        /\ \A i \in 1 .. n - 1 : t[i] = s[i + 1]
    BY Popped
  <1>2. /\ IsFiniteSet(P) /\ Occurs(s, x) = Cardinality(P) /\ Occurs(s, x) \in Nat
    BY PlacesFinite
  <1>3. IsFiniteSet(Q) /\ Occurs(t, x) = Cardinality(Q) /\ Occurs(t, x) \in Nat
    BY <1>1, PlacesFinite
  <1>4. \A k \in Q : k \in Nat \ {0} /\ k + 1 \in P \ {1}
    BY <1>1 DEF Places
  <1>5. \A k \in P \ {1} : k - 1 \in Q /\ k \in Nat
    BY <1>1 DEF Places
  <1>6. Cardinality(P \ {1}) = Cardinality(Q)
    <2> DEFINE f == [k \in Q |-> k + 1]
    <2>1. f \in [Q -> P \ {1}]
      BY <1>4
    <2>2. \A a, b \in Q : f[a] = f[b] => a = b
      BY <1>4
    <2>3. \A k \in P \ {1} : \E a \in Q : f[a] = k
      <3> SUFFICES ASSUME NEW k \in P \ {1} PROVE \E a \in Q : f[a] = k
        OBVIOUS
      <3>1. k - 1 \in Q /\ k \in Nat
        BY <1>5
      <3>2. f[k - 1] = k
        BY <3>1
      <3> QED BY <3>1, <3>2
    <2>4. f \in Bijection(Q, P \ {1})
      <3> HIDE DEF f, P, Q
      <3> QED BY <2>1, <2>2, <2>3 DEF Bijection, Injection, Surjection, IsInjective
    <2>5. ExistsBijection(Q, P \ {1})
      BY <2>4 DEF ExistsBijection
    <2> HIDE DEF P, Q
    <2> QED BY <1>3, <2>5, FS_Bijection
  <1>7. 1 \in P <=> Head(s) = x
    BY <1>1 DEF Places
  <1>8. Cardinality(P \ {1}) = IF 1 \in P THEN Cardinality(P) - 1 ELSE Cardinality(P)
    BY <1>2, FS_RemoveElement
  <1> HIDE DEF P, Q, t
  <1>9. CASE Head(s) = x
    BY <1>2, <1>3, <1>6, <1>7, <1>8, <1>9 DEF t
  <1>10. CASE Head(s) # x
    BY <1>2, <1>3, <1>6, <1>7, <1>8, <1>10 DEF t
  <1> QED BY <1>9, <1>10

LEMMA OccursSingle ==
  ASSUME NEW e, NEW x
  PROVE  Occurs(<<e>>, x) = IF e = x THEN 1 ELSE 0
  <1>1. Len(<<e>>) = 1 /\ <<e>>[1] = e
    OBVIOUS
  <1>2. CASE e = x
    <2>1. {k \in 1 .. Len(<<e>>) : <<e>>[k] = x} = {1}
      BY <1>1, <1>2
    <2> QED BY <1>2, <2>1, FS_Singleton DEF Occurs
  <1>3. CASE e # x
    <2>1. {k \in 1 .. Len(<<e>>) : <<e>>[k] = x} = {}
      BY <1>1, <1>3
    <2> QED BY <1>3, <2>1, FS_EmptySet DEF Occurs
  <1> QED BY <1>2, <1>3

-----------------------------------------------------------------------------
(* What the running broadcasts B hold back of message m for a connection.   *)
Holds(B, b, m) == B[b].pc # "idle" /\ B[b].msg = m

Unique(B) == \A b, d \in Broadcasters :
  B[b].pc # "idle" /\ B[d].pc # "idle" /\ B[b].msg = B[d].msg => b = d

BlockedIn(B, m, c) ==
  IF \E b \in Broadcasters : Holds(B, b, m)
    THEN LET b == CHOOSE b \in Broadcasters : Holds(B, b, m)
         IN  Occurs(B[b].blocked, c)
    ELSE 0

LEMMA BlockedBy ==
  ASSUME NEW B, Unique(B), NEW m, NEW c, NEW b \in Broadcasters, Holds(B, b, m)
  PROVE  BlockedIn(B, m, c) = Occurs(B[b].blocked, c)
  <1> DEFINE d == CHOOSE d \in Broadcasters : Holds(B, d, m)
  <1>1. d \in Broadcasters /\ Holds(B, d, m)
    OBVIOUS
  <1>2. d = b
    BY <1>1 DEF Unique, Holds
  <1> HIDE DEF d
  <1>3. BlockedIn(B, m, c) = Occurs(B[d].blocked, c)
    BY DEF BlockedIn, d
  <1> QED BY <1>2, <1>3

LEMMA BlockedByNone ==
  ASSUME NEW B, NEW m, NEW c, \A b \in Broadcasters : ~ Holds(B, b, m)
  PROVE  BlockedIn(B, m, c) = 0
  BY DEF BlockedIn

(* The same broadcasts hold back the same of message m in B and in D.       *)
SameHolders(B, D, m) == \A b \in Broadcasters :
  /\ Holds(B, b, m) <=> Holds(D, b, m)
  /\ Holds(B, b, m) => D[b].blocked = B[b].blocked

LEMMA BlockedSame ==
  ASSUME NEW B, NEW D, Unique(B), Unique(D), NEW m, NEW c, SameHolders(B, D, m)
  PROVE  BlockedIn(D, m, c) = BlockedIn(B, m, c)
  <1>1. ASSUME NEW b \in Broadcasters, Holds(B, b, m) PROVE BlockedIn(D, m, c) = BlockedIn(B, m, c)
    <2>0. Holds(D, b, m) /\ D[b].blocked = B[b].blocked
      BY <1>1 DEF SameHolders
    <2>1. BlockedIn(B, m, c) = Occurs(B[b].blocked, c)
      BY <1>1, BlockedBy
    <2>2. BlockedIn(D, m, c) = Occurs(D[b].blocked, c)
      BY <2>0, BlockedBy
    <2> QED BY <2>0, <2>1, <2>2
  <1>2. CASE \A b \in Broadcasters : ~ Holds(B, b, m)
    <2>1. \A b \in Broadcasters : ~ Holds(D, b, m)
      BY <1>2 DEF SameHolders
    <2> QED BY <1>2, <2>1, BlockedByNone
  <1> QED BY <1>1, <1>2

LEMMA BlockedIs ==
  ASSUME NEW m, NEW c
  PROVE  Blocked(m, c) = BlockedIn(bc, m, c)
  BY DEF Blocked, BlockedIn, Holds

-----------------------------------------------------------------------------
(* A spawned task is one of a message sent before, and only after the       *)
(* broadcast of the message has returned.                                   *)
OweInv ==
  /\ \A m \in Msgs : late[m] # << >> => m <= sent
  /\ \A b \in Broadcasters : bc[b].pc # "idle" => late[bc[b].msg] = << >>

LEMMA OweStep == TypeOK /\ IdInv /\ MsgInv /\ OweInv /\ [Next]_vars => OweInv'
  <1> SUFFICES ASSUME TypeOK, IdInv, MsgInv, OweInv, [Next]_vars PROVE OweInv'
    OBVIOUS
  <1> USE StoreAssumption
  <1>0. /\ sent \in Nat /\ Msgs \subseteq Nat /\ late \in [Msgs -> Seq(Conns)]
        /\ bc \in [Broadcasters -> Broadcast]
        /\ \A b \in Broadcasters : bc[b].pc # "idle" => bc[b].msg \in Msgs /\ bc[b].msg <= sent
    BY DEF TypeOK, MsgInv, Msgs
  <1>1. ASSUME sent' = sent \/ sent' = sent + 1, UNCHANGED <<bc, late>> PROVE OweInv'
    BY <1>0, <1>1 DEF OweInv
  <1>2. ASSUME sent' = sent, UNCHANGED late,
               \A b \in Broadcasters : /\ bc'[b].pc # "idle" => bc[b].pc # "idle"
                                       /\ bc'[b].msg = bc[b].msg
        PROVE  OweInv'
    BY <1>0, <1>2 DEF OweInv
  <1>3. ASSUME NEW c \in Conns, Register(c) \/ Remove(c) \/ Take(c) \/ DropRx(c) PROVE OweInv'
    BY <1>1, <1>3 DEF Register, RegisterFetch, RegisterInsert, JoinDefault, Remove, RemoveSender,
                      SweepGroup, RemoveReturns, Take, DropRx, sending
  <1>4. ASSUME NEW c \in Conns, NEW t, NEW f, ConnSend(c, t, f) PROVE OweInv'
    <2>1. CASE SendBlocked(c, t, f)
      <3>1. /\ sent' = sent + 1 /\ late' = [late EXCEPT ![sent + 1] = <<c>>] /\ UNCHANGED bc
        BY <2>1 DEF SendBlocked, SendStep
      <3>2. \A n \in Msgs : n # sent + 1 => late'[n] = late[n]
        BY <1>0, <3>1
      <3>3. \A n \in Msgs : late'[n] # << >> => n <= sent'
        BY <1>0, <3>1, <3>2 DEF OweInv
      <3>4. \A b \in Broadcasters : bc'[b].pc # "idle" => late'[bc'[b].msg] = << >>
        BY <1>0, <3>1, <3>2 DEF OweInv
      <3> QED BY <3>3, <3>4 DEF OweInv
    <2>2. CASE SendAccepted(c) \/ SendPanics(c, t, f) \/ SendIgnored(c, t, f)
      BY <1>1, <2>2 DEF SendAccepted, SendPanics, SendIgnored, SendStep
    <2> QED BY <1>4, <2>1, <2>2 DEF ConnSend
  <1>5. ASSUME NEW b \in Broadcasters, NEW list, NEW e, NEW t, Begin(b, list, e, t) PROVE OweInv'
    <2>1. /\ sent' = sent + 1 /\ UNCHANGED late /\ sent + 1 \in Msgs
          /\ bc'[b].msg = sent + 1 /\ \A d \in Broadcasters \ {b} : bc'[d] = bc[d]
      BY <1>0, <1>5 DEF Begin, Msgs
    <2>2. late[sent + 1] = << >>
      BY <1>0, <2>1 DEF OweInv
    <2> QED BY <1>0, <2>1, <2>2 DEF OweInv
  <1>6. ASSUME NEW c \in Conns, NEW t, Call(c, t) PROVE OweInv'
    <2>1. ASSUME NEW g, Join(c, g) \/ Leave(c, g) PROVE OweInv'
      BY <1>1, <2>1 DEF Join, Leave, sending
    <2> QED BY <1>4, <1>5, <1>6, <2>1 DEF Call, ConnBroadcast
  <1>7. ASSUME NEW b \in Broadcasters, BroadcastStep(b) PROVE OweInv'
    <2>1. ASSUME NEW i, HitMember(b, i) \/ PassMember(b, i) \/ BlockedMember(b, i) PROVE OweInv'
      <3>1. \/ bc' = [bc EXCEPT ![b].seen = @ \cup {i}]
            \/ bc' = [bc EXCEPT ![b].seen = @ \cup {i}, ![b].blocked = Append(@, senders[i])]
        BY <2>1 DEF HitMember, PassMember, BlockedMember, Seen
      <3>2. \A d \in Broadcasters : bc'[d].pc = bc[d].pc /\ bc'[d].msg = bc[d].msg
        <4>1. bc[b] \in Broadcast
          BY <1>0
        <4>2. bc'[b].pc = bc[b].pc /\ bc'[b].msg = bc[b].msg
          BY <1>0, <3>1, <4>1 DEF Broadcast
        <4>3. \A d \in Broadcasters : d # b => bc'[d] = bc[d]
          BY <1>0, <3>1
        <4> QED BY <4>2, <4>3
      <3> QED BY <1>2, <2>1, <3>2 DEF HitMember, PassMember, BlockedMember, sending
    <2>2. CASE OpenGroup(b) \/ CloseGroup(b)
      <3>1. \A d \in Broadcasters : /\ bc'[d].pc # "idle" => bc[d].pc # "idle"
                                    /\ bc'[d].msg = bc[d].msg
        <4>1. CASE OpenGroup(b)
          BY <1>0, <4>1 DEF OpenGroup, Broadcast
        <4>2. CASE CloseGroup(b)
          BY <1>0, <4>2 DEF CloseGroup, Broadcast
        <4> QED BY <2>2, <4>1, <4>2
      <3> QED BY <1>2, <2>2, <3>1 DEF OpenGroup, CloseGroup, sending
    <2>3. CASE Return(b)
      <3>1. /\ bc[b].pc # "idle" /\ UNCHANGED sent /\ bc'[b].pc = "idle"
            /\ late' = [late EXCEPT ![bc[b].msg] = bc[b].blocked]
            /\ \A d \in Broadcasters \ {b} : bc'[d] = bc[d]
        BY <1>0, <2>3 DEF Return, LoopDone, Idle
      <3>2. \A n \in Msgs : n # bc[b].msg => late'[n] = late[n]
        BY <1>0, <3>1
      <3>3. \A n \in Msgs : late'[n] # << >> => n <= sent'
        BY <1>0, <3>1, <3>2 DEF OweInv
      <3>4. ASSUME NEW d \in Broadcasters, bc'[d].pc # "idle" PROVE late'[bc'[d].msg] = << >>
        <4>1. d # b /\ bc'[d] = bc[d] /\ bc[d].msg # bc[b].msg
          BY <3>1, <3>4 DEF MsgInv
        <4> QED BY <1>0, <3>2, <3>4, <4>1 DEF OweInv
      <3> QED BY <3>3, <3>4 DEF OweInv
    <2>4. CASE SpawnPanics(b)
      BY <1>1, <2>4 DEF SpawnPanics, sending
    <2> QED BY <1>7, <2>1, <2>2, <2>3, <2>4 DEF BroadcastStep
  <1>8. ASSUME NEW n \in Msgs, LateStep(n) \/ CancelSend(n) PROVE OweInv'
    <2>1. late[n] # << >> /\ UNCHANGED <<bc, sent>> /\ \E s : late' = [late EXCEPT ![n] = s]
      BY <1>8 DEF LateStep, LatePolled, LateRedeemed, CancelSend
    <2>2. \A x \in Msgs : x # n => late'[x] = late[x]
      BY <1>0, <2>1
    <2>3. \A b \in Broadcasters : bc[b].pc # "idle" => bc[b].msg # n
      BY <2>1 DEF OweInv
    <2> QED BY <1>0, <2>1, <2>2, <2>3 DEF OweInv
  <1>9. CASE UNCHANGED vars
    BY <1>1, <1>9 DEF vars, sending
  <1> QED BY <1>3, <1>5, <1>6, <1>7, <1>8, <1>9 DEF Next, Dispatch

(* A send that a future awaits is of a message that no broadcast carries    *)
(* and that was accepted once, for one connection; once it is cancelled,    *)
(* no task sends the message.                                               *)
FutureOf(m) ==
  future[m] # "none" =>
    /\ m <= sent
    /\ \A b \in Broadcasters : ~ Holds(bc, b, m)
    /\ future[m] = "cancelled" => late[m] = << >>
    /\ late[m] # << >> => \E c \in Conns :
         late[m] = <<c>> /\ \A d \in Conns : hits[m][d] = IF d = c THEN 1 ELSE 0

FutureInv == \A m \in Msgs : FutureOf(m)

(* What a step may do to such a message.                                    *)
LEMMA FutureMoves ==
  ASSUME TypeOK, IdInv, MsgInv, FutureInv, [Next]_vars, NEW m \in Msgs, future[m] # "none"
  PROVE  /\ m <= sent' /\ \A b \in Broadcasters : ~ Holds(bc', b, m)
         /\ hits'[m] = hits[m]
         /\ \/ future'[m] = future[m] /\ late'[m] = late[m]
            \/ future'[m] = future[m] /\ late[m] # << >> /\ late'[m] = Tail(late[m])
            \/ CancelSend(m) /\ future'[m] = "cancelled" /\ late'[m] = << >>
  <1> USE StoreAssumption
  <1> DEFINE Goal ==
        /\ m <= sent' /\ \A b \in Broadcasters : ~ Holds(bc', b, m)
        /\ hits'[m] = hits[m]
        /\ \/ future'[m] = future[m] /\ late'[m] = late[m]
           \/ future'[m] = future[m] /\ late[m] # << >> /\ late'[m] = Tail(late[m])
           \/ CancelSend(m) /\ future'[m] = "cancelled" /\ late'[m] = << >>
  <1>0. /\ sent \in Nat /\ m \in Nat /\ m <= sent /\ \A b \in Broadcasters : ~ Holds(bc, b, m)
        /\ late \in [Msgs -> Seq(Conns)] /\ bc \in [Broadcasters -> Broadcast]
        /\ hits \in [Msgs -> [Conns -> Nat]]
        /\ future \in [Msgs -> {"none", "awaited", "cancelled"}]
    BY DEF TypeOK, FutureInv, FutureOf, Msgs
  <1>1. ASSUME sent' = sent \/ sent' = sent + 1, UNCHANGED bc, hits'[m] = hits[m],
               future'[m] = future[m], late'[m] = late[m]
        PROVE  Goal
    BY <1>0, <1>1 DEF Holds
  <1>2. ASSUME NEW c \in Conns, Register(c) \/ Remove(c) \/ Take(c) \/ DropRx(c) PROVE Goal
    BY <1>1, <1>2 DEF Register, RegisterFetch, RegisterInsert, JoinDefault, Remove, RemoveSender,
                      SweepGroup, RemoveReturns, Take, DropRx, sending
  <1>3. ASSUME NEW c \in Conns, NEW t, NEW f, ConnSend(c, t, f) PROVE Goal
    <2>1. /\ sent' = sent + 1 /\ UNCHANGED bc
          /\ hits' = hits \/ hits' = [hits EXCEPT ![sent + 1][c] = @ + 1]
          /\ late' = late \/ late' = [late EXCEPT ![sent + 1] = <<c>>]
          /\ future' = future \/ future' = [future EXCEPT ![sent + 1] = "awaited"]
      BY <1>3 DEF ConnSend, SendAccepted, SendBlocked, SendPanics, SendIgnored, SendStep
    <2>2. hits'[m] = hits[m] /\ late'[m] = late[m] /\ future'[m] = future[m]
      BY <1>0, <2>1
    <2> QED BY <1>1, <2>1, <2>2
  <1>4. ASSUME NEW b \in Broadcasters, NEW list, NEW e, NEW t, Begin(b, list, e, t) PROVE Goal
    <2>1. /\ sent' = sent + 1 /\ UNCHANGED <<hits, late, future>> /\ bc'[b].msg = sent + 1
          /\ \A d \in Broadcasters \ {b} : bc'[d] = bc[d]
      BY <1>0, <1>4 DEF Begin
    <2>2. \A d \in Broadcasters : ~ Holds(bc', d, m)
      BY <1>0, <2>1 DEF Holds
    <2> QED BY <1>0, <2>1, <2>2
  <1>5. ASSUME NEW c \in Conns, NEW t, Call(c, t) PROVE Goal
    <2>1. ASSUME NEW g, Join(c, g) \/ Leave(c, g) PROVE Goal
      BY <1>1, <2>1 DEF Join, Leave, sending
    <2> QED BY <1>3, <1>4, <1>5, <2>1 DEF Call, ConnBroadcast
  <1>6. ASSUME NEW b \in Broadcasters, bc[b].pc # "idle",
               bc'[b].pc = "idle" \/ bc'[b].msg = bc[b].msg,
               \A d \in Broadcasters \ {b} : bc'[d] = bc[d]
        PROVE  bc[b].msg # m /\ \A d \in Broadcasters : ~ Holds(bc', d, m)
    BY <1>0, <1>6 DEF Holds
  <1>7. ASSUME NEW b \in Broadcasters, BroadcastStep(b) PROVE Goal
    <2>1. CASE OpenGroup(b) \/ CloseGroup(b)
      <3>1. /\ bc[b].pc # "idle" /\ bc'[b].msg = bc[b].msg
            /\ \A d \in Broadcasters \ {b} : bc'[d] = bc[d]
        <4>1. CASE OpenGroup(b)
          BY <1>0, <4>1 DEF OpenGroup, Broadcast
        <4>2. CASE CloseGroup(b)
          BY <1>0, <4>2 DEF CloseGroup, Broadcast
        <4> QED BY <2>1, <4>1, <4>2
      <3>2. UNCHANGED <<sent, hits, late, future>>
        BY <2>1 DEF OpenGroup, CloseGroup, sending
      <3> QED BY <1>0, <1>6, <3>1, <3>2
    <2>2. ASSUME NEW i, PassMember(b, i) \/ HitMember(b, i) \/ BlockedMember(b, i) PROVE Goal
      <3>1. /\ bc[b].pc = "visit"
            /\ \/ bc' = [bc EXCEPT ![b].seen = @ \cup {i}]
               \/ bc' = [bc EXCEPT ![b].seen = @ \cup {i}, ![b].blocked = Append(@, senders[i])]
        BY <2>2 DEF PassMember, HitMember, BlockedMember, Seen, Yields
      <3>2. bc[b] \in Broadcast
        BY <1>0
      <3>3. bc'[b].msg = bc[b].msg /\ \A d \in Broadcasters \ {b} : bc'[d] = bc[d]
        BY <1>0, <3>1, <3>2 DEF Broadcast
      <3>4. bc[b].msg # m /\ \A d \in Broadcasters : ~ Holds(bc', d, m)
        BY <1>6, <3>1, <3>3
      <3>5. /\ UNCHANGED <<sent, late, future>>
            /\ hits' = hits \/ hits' = [hits EXCEPT ![bc[b].msg][senders[i]] = @ + 1]
        BY <2>2 DEF PassMember, HitMember, BlockedMember, sending
      <3>6. hits'[m] = hits[m]
        BY <1>0, <3>4, <3>5
      <3> QED BY <1>0, <3>4, <3>5, <3>6
    <2>3. CASE Return(b)
      <3>1. /\ bc[b].pc # "idle" /\ bc'[b].pc = "idle" /\ UNCHANGED <<sent, hits, future>>
            /\ late' = [late EXCEPT ![bc[b].msg] = bc[b].blocked]
            /\ \A d \in Broadcasters \ {b} : bc'[d] = bc[d]
        BY <1>0, <2>3 DEF Return, LoopDone, Idle
      <3>2. bc[b].msg # m /\ \A d \in Broadcasters : ~ Holds(bc', d, m)
        BY <1>6, <3>1
      <3>3. late'[m] = late[m]
        BY <1>0, <3>1, <3>2
      <3> QED BY <1>0, <3>1, <3>2, <3>3
    <2>4. CASE SpawnPanics(b)
      BY <1>1, <2>4 DEF SpawnPanics, sending
    <2> QED BY <1>7, <2>1, <2>2, <2>3, <2>4 DEF BroadcastStep
  <1>8. ASSUME NEW n \in Msgs, LateStep(n) PROVE Goal
    <2>1. /\ late[n] # << >> /\ UNCHANGED <<bc, sent, hits, future>>
          /\ \/ late' = [late EXCEPT ![n] = @]
             \/ late' = [late EXCEPT ![n] = Tail(@)]
      BY <1>8 DEF LateStep, LatePolled, LateRedeemed
    <2>2. late'[m] = late[m] \/ (late[m] # << >> /\ late'[m] = Tail(late[m]))
      BY <1>0, <2>1
    <2> QED BY <1>0, <2>1, <2>2
  <1>9. ASSUME NEW n \in Msgs, CancelSend(n) PROVE Goal
    <2>1. /\ UNCHANGED <<bc, sent, hits>> /\ late' = [late EXCEPT ![n] = << >>]
          /\ future' = [future EXCEPT ![n] = "cancelled"]
      BY <1>9 DEF CancelSend
    <2>2. CASE n = m
      BY <1>0, <1>9, <2>1, <2>2
    <2>3. CASE n # m
      BY <1>0, <2>1, <2>3
    <2> QED BY <2>2, <2>3
  <1>10. ASSUME UNCHANGED vars PROVE Goal
    BY <1>1, <1>10 DEF vars, sending
  <1>11. Goal
    <2> HIDE DEF Goal
    <2>1. ASSUME NEW c \in Callers, NEW t \in Threads, Call(c, t) PROVE Goal
      BY <1>5, <2>1
    <2>2. ASSUME NEW b \in Broadcasters, NEW list, Dispatch(b, list) PROVE Goal
      BY <1>4, <2>2 DEF Dispatch
    <2>3. ASSUME NEW b \in Broadcasters, BroadcastStep(b) \/ \E list \in GroupLists : Dispatch(b, list)
          PROVE  Goal
      BY <1>7, <2>2, <2>3
    <2>4. Next => Goal
      BY <1>2, <1>8, <1>9, <2>1, <2>3 DEF Next
    <2> QED BY <1>10, <2>4
  <1> QED BY <1>11

(* Only a blocked asend or aclose gives a message a future.                 *)
LEMMA FutureBegins ==
  ASSUME TypeOK, IdInv, [Next]_vars, NEW m \in Msgs, future[m] = "none", future'[m] # "none"
  PROVE  \E c \in Conns :
           /\ m = sent + 1 /\ sent' = sent + 1 /\ UNCHANGED bc
           /\ future'[m] = "awaited" /\ late'[m] = <<c>>
           /\ hits' = [hits EXCEPT ![m][c] = @ + 1]
  <1> DEFINE Goal == \E c \in Conns :
           /\ m = sent + 1 /\ sent' = sent + 1 /\ UNCHANGED bc
           /\ future'[m] = "awaited" /\ late'[m] = <<c>>
           /\ hits' = [hits EXCEPT ![m][c] = @ + 1]
  <1> USE StoreAssumption
  <1>0. /\ future \in [Msgs -> {"none", "awaited", "cancelled"}] /\ late \in [Msgs -> Seq(Conns)]
    BY DEF TypeOK
  <1>1. future' # future
    OBVIOUS
  <1>2. ASSUME NEW c \in Conns, NEW t, NEW f, ConnSend(c, t, f) PROVE Goal
    <2>1. SendBlocked(c, t, f)
      BY <1>1, <1>2 DEF ConnSend, SendAccepted, SendPanics, SendIgnored
    <2>2. /\ sent' = sent + 1 /\ UNCHANGED bc /\ late' = [late EXCEPT ![sent + 1] = <<c>>]
          /\ future' = [future EXCEPT ![sent + 1] = "awaited"]
          /\ hits' = [hits EXCEPT ![sent + 1][c] = @ + 1]
      BY <1>1, <2>1 DEF SendBlocked, SendStep
    <2>3. m = sent + 1
      BY <1>0, <2>2
    <2> QED BY <1>0, <2>2, <2>3
  <1>3. ASSUME NEW c \in Conns, NEW t, Call(c, t) PROVE Goal
    <2>1. ASSUME NEW g PROVE ~ Join(c, g) /\ ~ Leave(c, g)
      BY <1>1 DEF Join, Leave, sending
    <2>2. ASSUME NEW list, NEW x PROVE ~ ConnBroadcast(c, list, x, t)
      BY <1>1 DEF ConnBroadcast, Begin
    <2> QED BY <1>2, <1>3, <2>1, <2>2 DEF Call
  <1>4. ASSUME NEW n \in Msgs PROVE ~ LateStep(n) /\ ~ CancelSend(n)
    <2>1. ~ LateStep(n)
      BY <1>1 DEF LateStep
    <2>2. CancelSend(n) => future[n] = "awaited" /\ future' = [future EXCEPT ![n] = "cancelled"]
      BY DEF CancelSend
    <2>3. ~ CancelSend(n)
      BY <1>0, <2>2
    <2> QED BY <2>1, <2>3
  <1>5. ASSUME NEW c \in Conns PROVE ~ (Register(c) \/ Remove(c) \/ Take(c) \/ DropRx(c))
    BY <1>1 DEF Register, RegisterFetch, RegisterInsert, JoinDefault, Remove, RemoveSender,
                SweepGroup, RemoveReturns, Take, DropRx, sending
  <1>6. ASSUME NEW b \in Broadcasters PROVE ~ BroadcastStep(b) /\ \A list : ~ Dispatch(b, list)
    BY <1>1 DEF BroadcastStep, OpenGroup, PassMember, HitMember, BlockedMember, CloseGroup,
                Return, SpawnPanics, Dispatch, Begin, sending
  <1>7. ~ UNCHANGED vars
    BY <1>1 DEF vars, sending
  <1> HIDE DEF Goal
  <1>8. Goal
    BY <1>3, <1>4, <1>5, <1>6, <1>7 DEF Next
  <1> QED BY <1>8 DEF Goal

LEMMA FutureStep == TypeOK /\ IdInv /\ MsgInv /\ FutureInv /\ [Next]_vars => FutureInv'
  <1> SUFFICES ASSUME TypeOK, IdInv, MsgInv, FutureInv, [Next]_vars, NEW m \in Msgs,
                      future'[m] # "none"
               PROVE  FutureOf(m)'
    BY DEF FutureInv, FutureOf
  <1>0. /\ sent \in Nat /\ m \in Nat /\ hits \in [Msgs -> [Conns -> Nat]] /\ FutureOf(m)
    BY StoreAssumption DEF TypeOK, Msgs, FutureInv
  <1>1. CASE future[m] = "none"
    <2>1. PICK c \in Conns :
            /\ m = sent + 1 /\ sent' = sent + 1 /\ UNCHANGED bc
            /\ future'[m] = "awaited" /\ late'[m] = <<c>>
            /\ hits' = [hits EXCEPT ![m][c] = @ + 1]
      BY <1>1, FutureBegins
    <2>2. \A b \in Broadcasters : ~ Holds(bc', b, m)
      <3>1. \A b \in Broadcasters : bc[b].pc # "idle" => bc[b].msg \in Nat /\ bc[b].msg <= sent
        BY DEF MsgInv, TypeOK, Msgs
      <3> QED BY <1>0, <2>1, <3>1 DEF Holds
    <2>3. \A d \in Conns : hits[m][d] = 0
      BY <1>0, <2>1 DEF MsgInv
    <2>4. \A d \in Conns : hits'[m][d] = IF d = c THEN 1 ELSE 0
      BY <1>0, <2>1, <2>3
    <2> QED BY <1>0, <2>1, <2>2, <2>4 DEF FutureOf, Holds
  <1>2. CASE future[m] # "none"
    <2>1. /\ m <= sent' /\ \A b \in Broadcasters : ~ Holds(bc', b, m)
          /\ hits'[m] = hits[m]
          /\ \/ future'[m] = future[m] /\ late'[m] = late[m]
             \/ future'[m] = future[m] /\ late[m] # << >> /\ late'[m] = Tail(late[m])
             \/ future'[m] = "cancelled" /\ late'[m] = << >>
      BY <1>2, FutureMoves
    <2>2. late[m] # << >> => Tail(late[m]) = << >>
      <3>1. \A c \in Conns : Tail(<<c>>) = << >>
        OBVIOUS
      <3> QED BY <1>0, <1>2, <3>1 DEF FutureOf
    <2>3. late'[m] = << >> \/ (late'[m] = late[m] /\ future'[m] = future[m])
      BY <2>1, <2>2
    <2> QED BY <1>0, <1>2, <2>1, <2>3 DEF FutureOf, Holds
  <1> QED BY <1>1, <1>2

-----------------------------------------------------------------------------
(* The account of a message and a connection, of which `lost` sends were    *)
(* cancelled.                                                               *)
Balance(c, m, lost) ==
  hits[m][c] = Occurs(mailbox[c].queue, m) + Occurs(taken[c], m)
               + Occurs(late[m], c) + BlockedIn(bc, m, c) + lost

Lost(c, m) == IF future[m] = "cancelled" THEN hits[m][c] ELSE 0

LossInv == \A c \in Conns, m \in Msgs : mailbox[c].open => Balance(c, m, Lost(c, m))

LEMMA BalanceTypes ==
  ASSUME TypeOK, MsgInv, NEW c \in Conns, NEW m \in Msgs
  PROVE  /\ hits[m][c] \in Nat /\ Occurs(mailbox[c].queue, m) \in Nat
         /\ Occurs(taken[c], m) \in Nat /\ Occurs(late[m], c) \in Nat
         /\ BlockedIn(bc, m, c) \in Nat
  <1>1. /\ mailbox[c].queue \in Seq(Msgs) /\ taken[c] \in Seq(Msgs) /\ late[m] \in Seq(Conns)
        /\ hits[m][c] \in Nat /\ \A b \in Broadcasters : bc[b].blocked \in Seq(Conns)
    BY DEF TypeOK, Mailbox, Broadcast
  <1>2. Unique(bc)
    BY DEF MsgInv, Unique
  <1>3. BlockedIn(bc, m, c) \in Nat
    <2>1. ASSUME NEW b \in Broadcasters, Holds(bc, b, m) PROVE BlockedIn(bc, m, c) \in Nat
      <3>1. BlockedIn(bc, m, c) = Occurs(bc[b].blocked, c)
        BY <1>2, <2>1, BlockedBy
      <3> QED BY <1>1, <3>1, PlacesFinite
    <2>2. CASE \A b \in Broadcasters : ~ Holds(bc, b, m)
      BY <2>2, BlockedByNone
    <2> QED BY <2>1, <2>2
  <1> QED BY <1>1, <1>3, PlacesFinite

(* Every step other than the cancelling of m's own send keeps the account.  *)
LEMMA AccountKept ==
  ASSUME TypeOK, IdInv, MsgInv, OweInv, [Next]_vars,
         NEW c \in Conns, NEW m \in Msgs, mailbox'[c].open, ~ CancelSend(m),
         NEW lost \in Nat, Balance(c, m, lost)
  PROVE  hits'[m][c] = Occurs(mailbox'[c].queue, m) + Occurs(taken'[c], m)
                           + Occurs(late'[m], c) + BlockedIn(bc', m, c) + lost
  <1> USE StoreAssumption
  <1> DEFINE Goal == hits'[m][c] = Occurs(mailbox'[c].queue, m) + Occurs(taken'[c], m)
                                   + Occurs(late'[m], c) + BlockedIn(bc', m, c) + lost
             Q == mailbox[c].queue
  <1>0. /\ Balance(c, m, lost) /\ sent \in Nat /\ m \in Nat /\ Q \in Seq(Msgs) /\ taken[c] \in Seq(Msgs)
        /\ late[m] \in Seq(Conns) /\ Unique(bc) /\ Unique(bc') /\ Msgs \subseteq Nat
        /\ bc \in [Broadcasters -> Broadcast] /\ late \in [Msgs -> Seq(Conns)]
        /\ hits \in [Msgs -> [Conns -> Nat]] /\ taken \in [Conns -> Seq(Msgs)]
        /\ mailbox \in [Conns -> Mailbox(Msgs, Msgs)]
        /\ \A b \in Broadcasters : bc[b].pc # "idle" => bc[b].msg \in Msgs /\ bc[b].msg <= sent
        /\ \A b \in Broadcasters : bc[b].blocked \in Seq(Conns)
    <2>2. MsgInv'
      BY MsgStep
    <2>3. Unique(bc) /\ Unique(bc')
      BY <2>2 DEF MsgInv, Unique
    <2>4. Q \in Seq(Msgs)
      BY DEF TypeOK, Mailbox
    <2>5. \A b \in Broadcasters : bc[b].pc # "idle" => bc[b].msg \in Msgs /\ bc[b].msg <= sent
      BY DEF TypeOK, MsgInv
    <2>6. \A b \in Broadcasters : bc[b].blocked \in Seq(Conns)
      BY DEF TypeOK, Broadcast
    <2> HIDE DEF Q
    <2> QED BY <2>3, <2>4, <2>5, <2>6 DEF TypeOK, Msgs
  <1>T. /\ hits[m][c] \in Nat /\ Occurs(Q, m) \in Nat /\ Occurs(taken[c], m) \in Nat
        /\ Occurs(late[m], c) \in Nat /\ BlockedIn(bc, m, c) \in Nat
    BY BalanceTypes
  <1>1. ASSUME hits'[m][c] = hits[m][c], mailbox'[c].queue = Q, taken'[c] = taken[c],
               late'[m] = late[m], BlockedIn(bc', m, c) = BlockedIn(bc, m, c)
        PROVE  Goal
    BY <1>0, <1>1 DEF Balance
  <1>2. ASSUME UNCHANGED <<hits, mailbox, taken, late, bc>> PROVE Goal
    BY <1>1, <1>2
  <1>3. ASSUME NEW n \in Msgs, NEW d \in Conns, taken'[c] = taken[c], late'[m] = late[m],
               mailbox' = [mailbox EXCEPT ![d] = Push(@, n)],
               hits' = [hits EXCEPT ![n][d] = @ + 1],
               BlockedIn(bc', m, c) = BlockedIn(bc, m, c)
        PROVE  Goal
    <2>1. Push(mailbox[d], n).queue = Append(mailbox[d].queue, n)
      BY <1>0 DEF Push, Mailbox
    <2>2. CASE d = c
      <3>1. mailbox'[c].queue = Append(Q, n)
        BY <1>0, <1>3, <2>1, <2>2
      <3>2. Occurs(Append(Q, n), m) = Occurs(Q, m) + (IF n = m THEN 1 ELSE 0)
        BY <1>0, <1>3, OccursAppend
      <3>3. hits'[m][c] = hits[m][c] + (IF n = m THEN 1 ELSE 0)
        BY <1>0, <1>3, <1>T, <2>2
      <3>4. hits[m][c] = Occurs(Q, m) + Occurs(taken[c], m) + Occurs(late[m], c) + BlockedIn(bc, m, c) + lost
        BY <1>0 DEF Balance
      <3>5. Goal <=> hits'[m][c] = Occurs(Append(Q, n), m) + Occurs(taken[c], m) + Occurs(late[m], c)
                                   + BlockedIn(bc, m, c) + lost
        BY <1>3, <3>1 DEF Balance
      <3> HIDE DEF Q, Goal
      <3>6. CASE n = m
        BY <1>T, <3>2, <3>3, <3>4, <3>5, <3>6
      <3>7. CASE n # m
        BY <1>T, <3>2, <3>3, <3>4, <3>5, <3>7
      <3> QED BY <3>6, <3>7
    <2>3. CASE d # c
      <3>1. mailbox'[c].queue = Q /\ hits'[m][c] = hits[m][c]
        BY <1>0, <1>3, <2>3
      <3> QED BY <1>1, <1>3, <3>1
    <2> QED BY <2>2, <2>3
  <1>4. ASSUME NEW d \in Conns, Register(d) \/ Remove(d) PROVE Goal
    BY <1>2, <1>4 DEF Register, RegisterFetch, RegisterInsert, JoinDefault, Remove, RemoveSender,
                      SweepGroup, RemoveReturns, sending
  <1>5. ASSUME NEW d \in Conns, Take(d) PROVE Goal
    <2>1. /\ mailbox[d].queue # << >> /\ mailbox' = [mailbox EXCEPT ![d] = Recv(@)]
          /\ taken' = [taken EXCEPT ![d] = Append(@, Head(mailbox[d].queue))]
          /\ UNCHANGED <<hits, late, bc>>
      BY <1>5 DEF Take
    <2>2. CASE d = c
      <3>1. Recv(mailbox[c]).queue = Tail(Q)
        BY <1>0 DEF Recv, ReleaseSlot, Mailbox
      <3>2. mailbox'[c].queue = Tail(Q) /\ taken'[c] = Append(taken[c], Head(Q)) /\ Q # << >>
        BY <1>0, <2>1, <2>2, <3>1
      <3>3. Head(Q) \in Msgs /\ Tail(Q) \in Seq(Msgs)
        BY <1>0, <3>2, Popped
      <3>4. Occurs(Q, m) = Occurs(Tail(Q), m) + (IF Head(Q) = m THEN 1 ELSE 0)
        BY <1>0, <3>2, OccursTail
      <3>5. Occurs(taken'[c], m) = Occurs(taken[c], m) + (IF Head(Q) = m THEN 1 ELSE 0)
        BY <1>0, <3>2, <3>3, OccursAppend
      <3>6. Occurs(Tail(Q), m) \in Nat
        BY <3>3, PlacesFinite
      <3>7. Goal <=>
              hits[m][c] = Occurs(Tail(Q), m) + Occurs(taken'[c], m)
                           + Occurs(late[m], c) + BlockedIn(bc, m, c) + lost
        BY <2>1, <3>2 DEF Balance
      <3>8. hits[m][c] = Occurs(Q, m) + Occurs(taken[c], m) + Occurs(late[m], c) + BlockedIn(bc, m, c) + lost
        BY <1>0 DEF Balance
      <3> HIDE DEF Q
      <3>9. CASE Head(Q) = m
        BY <1>T, <3>4, <3>5, <3>6, <3>7, <3>8, <3>9
      <3>10. CASE Head(Q) # m
        BY <1>T, <3>4, <3>5, <3>6, <3>7, <3>8, <3>10
      <3> QED BY <3>9, <3>10
    <2>3. CASE d # c
      BY <1>0, <1>1, <2>1, <2>3
    <2> QED BY <2>2, <2>3
  <1>6. ASSUME NEW d \in Conns, DropRx(d) PROVE Goal
    <2>1. mailbox' = [mailbox EXCEPT ![d] = DropReceiver(@)] /\ UNCHANGED <<hits, taken, late, bc>>
      BY <1>6 DEF DropRx
    <2>2. d # c
      BY <1>0, <2>1 DEF DropReceiver
    <2> QED BY <1>0, <1>1, <2>1, <2>2
  <1>7. ASSUME NEW d \in Conns, NEW t, NEW f, ConnSend(d, t, f) PROVE Goal
    <2>0. sent + 1 \in Msgs
      BY <1>0, <1>7 DEF ConnSend, SendAccepted, SendBlocked, SendPanics, SendIgnored, SendStep, Msgs
    <2>1. CASE SendAccepted(d)
      <3>1. /\ mailbox' = [mailbox EXCEPT ![d] = Push(@, sent + 1)]
            /\ hits' = [hits EXCEPT ![sent + 1][d] = @ + 1] /\ UNCHANGED <<taken, late, bc>>
        BY <2>1 DEF SendAccepted, SendStep
      <3> QED BY <1>3, <2>0, <3>1
    <2>2. CASE SendBlocked(d, t, f)
      <3>1. /\ late' = [late EXCEPT ![sent + 1] = <<d>>] /\ UNCHANGED <<mailbox, taken, bc>>
            /\ hits' = [hits EXCEPT ![sent + 1][d] = @ + 1]
        BY <2>2 DEF SendBlocked, SendStep
      <3>2. CASE m = sent + 1
        <4>1. hits[m][c] = 0
          BY <1>0, <3>2 DEF MsgInv
        <4>2. /\ Occurs(Q, m) = 0 /\ Occurs(taken[c], m) = 0 /\ BlockedIn(bc, m, c) = 0
              /\ lost = 0
          <5> HIDE DEF Q
          <5> QED BY <1>0, <1>T, <4>1 DEF Balance, Q
        <4>3. late'[m] = <<d>> /\ Occurs(<<d>>, c) = IF d = c THEN 1 ELSE 0
          BY <1>0, <3>1, <3>2, OccursSingle
        <4>4. hits'[m][c] = IF d = c THEN 1 ELSE 0
          BY <1>0, <3>1, <3>2, <4>1
        <4> QED BY <3>1, <4>2, <4>3, <4>4 DEF Balance
      <3>3. CASE m # sent + 1
        <4>1. late'[m] = late[m] /\ hits'[m][c] = hits[m][c]
          BY <1>0, <3>1, <3>3
        <4> QED BY <1>1, <3>1, <4>1
      <3> QED BY <3>2, <3>3
    <2>3. CASE SendPanics(d, t, f) \/ SendIgnored(d, t, f)
      BY <1>2, <2>3 DEF SendPanics, SendIgnored, SendStep
    <2> QED BY <1>7, <2>1, <2>2, <2>3 DEF ConnSend
  <1>8. ASSUME NEW b \in Broadcasters, NEW list, NEW e, NEW t, Begin(b, list, e, t) PROVE Goal
    <2>1. /\ bc[b].pc = "idle" /\ bc'[b].pc = "next" /\ bc'[b].msg = sent + 1
          /\ bc'[b].blocked = << >> /\ UNCHANGED <<mailbox, late, taken, hits>>
          /\ \A d \in Broadcasters \ {b} : bc'[d] = bc[d]
      BY <1>0, <1>8 DEF Begin
    <2>2. BlockedIn(bc', m, c) = BlockedIn(bc, m, c)
      <3>1. CASE m = sent + 1
        <4>1. \A d \in Broadcasters : ~ Holds(bc, d, m)
          BY <1>0, <3>1 DEF Holds
        <4>2. BlockedIn(bc, m, c) = 0
          BY <4>1, BlockedByNone
        <4>3. Holds(bc', b, m)
          BY <2>1, <3>1 DEF Holds
        <4>4. BlockedIn(bc', m, c) = Occurs(bc'[b].blocked, c)
          BY <1>0, <4>3, BlockedBy
        <4> QED BY <2>1, <4>2, <4>4, OccursEmpty
      <3>2. CASE m # sent + 1
        <4>1. SameHolders(bc, bc', m)
          BY <1>0, <2>1, <3>2 DEF Holds, SameHolders
        <4> QED BY <1>0, <4>1, BlockedSame
      <3> QED BY <3>1, <3>2
    <2> QED BY <1>1, <2>1, <2>2
  <1>9. ASSUME NEW d \in Conns, NEW t, Call(d, t) PROVE Goal
    <2>1. ASSUME NEW g, Join(d, g) \/ Leave(d, g) PROVE Goal
      BY <1>2, <2>1 DEF Join, Leave, sending
    <2> QED BY <1>7, <1>8, <1>9, <2>1 DEF Call, ConnBroadcast
  <1>10. ASSUME NEW b \in Broadcasters, BroadcastStep(b) PROVE Goal
    <2>1. ASSUME bc[b].pc # "idle", bc'[b].pc # "idle", bc'[b].msg = bc[b].msg,
                 bc'[b].blocked = bc[b].blocked, \A d \in Broadcasters \ {b} : bc'[d] = bc[d]
          PROVE  BlockedIn(bc', m, c) = BlockedIn(bc, m, c)
      <3>1. SameHolders(bc, bc', m)
        BY <2>1 DEF Holds, SameHolders
      <3> QED BY <1>0, <3>1, BlockedSame
    <2>2. CASE OpenGroup(b) \/ CloseGroup(b)
      <3>1. /\ bc[b].pc # "idle" /\ bc'[b].pc # "idle" /\ bc'[b].msg = bc[b].msg
            /\ bc'[b].blocked = bc[b].blocked /\ \A d \in Broadcasters \ {b} : bc'[d] = bc[d]
        <4>1. CASE OpenGroup(b)
          BY <1>0, <4>1 DEF OpenGroup, Broadcast
        <4>2. CASE CloseGroup(b)
          BY <1>0, <4>2 DEF CloseGroup, Broadcast
        <4> QED BY <2>2, <4>1, <4>2
      <3>2. UNCHANGED <<hits, mailbox, taken, late>>
        BY <2>2 DEF OpenGroup, CloseGroup, sending
      <3> QED BY <1>1, <2>1, <3>1, <3>2
    <2>3. ASSUME NEW i, PassMember(b, i) \/ HitMember(b, i) PROVE Goal
      <3>1. /\ bc[b].pc # "idle" /\ bc'[b].pc # "idle" /\ bc'[b].msg = bc[b].msg
            /\ bc'[b].blocked = bc[b].blocked /\ \A d \in Broadcasters \ {b} : bc'[d] = bc[d]
        <4>1. bc' = [bc EXCEPT ![b].seen = @ \cup {i}] /\ bc[b].pc = "visit"
          BY <2>3 DEF PassMember, HitMember, Seen, Yields
        <4>2. bc[b] \in Broadcast
          BY <1>0
        <4>3. bc'[b] = [bc[b] EXCEPT !.seen = @ \cup {i}]
          BY <1>0, <4>1
        <4>4. bc'[b].pc = bc[b].pc /\ bc'[b].msg = bc[b].msg /\ bc'[b].blocked = bc[b].blocked
          BY <4>2, <4>3 DEF Broadcast
        <4>5. \A d \in Broadcasters \ {b} : bc'[d] = bc[d]
          BY <1>0, <4>1
        <4> QED BY <4>1, <4>4, <4>5
      <3>2. BlockedIn(bc', m, c) = BlockedIn(bc, m, c)
        BY <2>1, <3>1
      <3>3. CASE PassMember(b, i)
        BY <1>1, <3>2, <3>3 DEF PassMember, sending
      <3>4. CASE HitMember(b, i)
        <4>1. /\ mailbox' = [mailbox EXCEPT ![senders[i]] = Push(@, bc[b].msg)]
              /\ hits' = [hits EXCEPT ![bc[b].msg][senders[i]] = @ + 1]
              /\ UNCHANGED <<late, taken>> /\ senders[i] \in Conns
          BY <3>4 DEF HitMember, Yields, Skips, TypeOK
        <4> QED BY <1>0, <1>3, <3>1, <3>2, <4>1
      <3> QED BY <2>3, <3>3, <3>4
    <2>4. ASSUME NEW i, BlockedMember(b, i) PROVE Goal
      <3> DEFINE d == senders[i]
                 n == bc[b].msg
      <3>1. /\ bc[b].pc # "idle" /\ bc'[b].pc # "idle" /\ bc'[b].msg = n
            /\ bc'[b].blocked = Append(bc[b].blocked, d)
            /\ \A x \in Broadcasters \ {b} : bc'[x] = bc[x]
            /\ hits' = [hits EXCEPT ![n][d] = @ + 1]
            /\ UNCHANGED <<mailbox, late, taken>> /\ d \in Conns
        <4>1. bc' = [bc EXCEPT ![b].seen = @ \cup {i}, ![b].blocked = Append(@, senders[i])]
          BY <2>4 DEF BlockedMember
        <4>2. /\ bc'[b].pc = bc[b].pc /\ bc'[b].msg = n
              /\ bc'[b].blocked = Append(bc[b].blocked, d)
              /\ \A x \in Broadcasters \ {b} : bc'[x] = bc[x]
          <5>1. bc[b] \in Broadcast
            BY <1>0
          <5>2. bc'[b] = [bc[b] EXCEPT !.seen = @ \cup {i}, !.blocked = Append(@, senders[i])]
            BY <1>0, <4>1
          <5>3. /\ bc'[b].pc = bc[b].pc /\ bc'[b].msg = bc[b].msg
                /\ bc'[b].blocked = Append(bc[b].blocked, senders[i])
            BY <5>1, <5>2 DEF Broadcast
          <5>4. \A x \in Broadcasters \ {b} : bc'[x] = bc[x]
            BY <1>0, <4>1
          <5> QED BY <5>3, <5>4
        <4> QED BY <2>4, <4>2 DEF BlockedMember, Yields, Skips, TypeOK
      <3>2. n \in Msgs
        BY <1>0, <3>1
      <3> HIDE DEF d, n
      <3>3. CASE n = m
        <4>1. Holds(bc, b, m) /\ Holds(bc', b, m)
          BY <3>1, <3>3 DEF Holds, n
        <4>2. BlockedIn(bc, m, c) = Occurs(bc[b].blocked, c)
          BY <1>0, <4>1, BlockedBy
        <4>3. BlockedIn(bc', m, c) = Occurs(Append(bc[b].blocked, d), c)
          <5>1. BlockedIn(bc', m, c) = Occurs(bc'[b].blocked, c)
            BY <1>0, <4>1, BlockedBy
          <5> QED BY <3>1, <5>1
        <4>4. Occurs(Append(bc[b].blocked, d), c) = Occurs(bc[b].blocked, c) + (IF d = c THEN 1 ELSE 0)
          BY <1>0, <3>1, OccursAppend
        <4>5. hits'[m][c] = hits[m][c] + (IF d = c THEN 1 ELSE 0)
          BY <1>0, <1>T, <3>1, <3>3
        <4>6. hits[m][c] = Occurs(Q, m) + Occurs(taken[c], m) + Occurs(late[m], c) + BlockedIn(bc, m, c) + lost
          BY <1>0 DEF Balance
        <4>7. Goal <=> hits'[m][c] = Occurs(Q, m) + Occurs(taken[c], m) + Occurs(late[m], c)
                                     + BlockedIn(bc', m, c) + lost
          BY <3>1 DEF Balance
        <4> HIDE DEF Goal, Q
        <4>8. CASE d = c
          BY <1>T, <4>2, <4>3, <4>4, <4>5, <4>6, <4>7, <4>8
        <4>9. CASE d # c
          BY <1>T, <4>2, <4>3, <4>4, <4>5, <4>6, <4>7, <4>9
        <4> QED BY <4>8, <4>9
      <3>4. CASE n # m
        <4>1. hits'[m][c] = hits[m][c]
          BY <1>0, <3>1, <3>2, <3>4
        <4>2. SameHolders(bc, bc', m)
          BY <3>1, <3>4 DEF Holds, SameHolders, n
        <4>3. BlockedIn(bc', m, c) = BlockedIn(bc, m, c)
          BY <1>0, <4>2, BlockedSame
        <4> QED BY <1>1, <3>1, <4>1, <4>3
      <3> QED BY <3>3, <3>4
    <2>5. CASE Return(b)
      <3> DEFINE n == bc[b].msg
      <3>1. /\ bc[b].pc # "idle" /\ bc'[b].pc = "idle" /\ UNCHANGED <<mailbox, taken, hits>>
            /\ late' = [late EXCEPT ![n] = bc[b].blocked] /\ n \in Msgs
            /\ \A x \in Broadcasters \ {b} : bc'[x] = bc[x]
        BY <1>0, <2>5 DEF Return, LoopDone, Idle
      <3>2. late[n] = << >>
        BY <3>1 DEF OweInv
      <3>3. CASE n = m
        <4>1. Holds(bc, b, m)
          BY <3>1, <3>3 DEF Holds
        <4>2. BlockedIn(bc, m, c) = Occurs(bc[b].blocked, c)
          BY <1>0, <4>1, BlockedBy
        <4>3. \A x \in Broadcasters : ~ Holds(bc', x, m)
          <5>1. ~ Holds(bc', b, m)
            BY <3>1 DEF Holds
          <5>2. ASSUME NEW x \in Broadcasters, x # b PROVE ~ Holds(bc', x, m)
            <6>1. bc'[x] = bc[x]
              BY <3>1, <5>2
            <6>2. ~ Holds(bc, x, m)
              BY <1>0, <4>1, <5>2 DEF Unique, Holds
            <6> QED BY <6>1, <6>2 DEF Holds
          <5> QED BY <5>1, <5>2
        <4>4. BlockedIn(bc', m, c) = 0
          BY <4>3, BlockedByNone
        <4>5. late'[m] = bc[b].blocked /\ Occurs(late[m], c) = 0
          BY <1>0, <3>1, <3>2, <3>3, OccursEmpty
        <4>6. hits[m][c] = Occurs(Q, m) + Occurs(taken[c], m) + Occurs(late[m], c) + BlockedIn(bc, m, c) + lost
          BY <1>0 DEF Balance
        <4>7. Goal <=> hits[m][c] = Occurs(Q, m) + Occurs(taken[c], m) + Occurs(late'[m], c)
                                    + BlockedIn(bc', m, c) + lost
          BY <3>1 DEF Balance
        <4> HIDE DEF Goal, Q, n
        <4> QED BY <1>T, <4>2, <4>4, <4>5, <4>6, <4>7
      <3>4. CASE n # m
        <4>1. late'[m] = late[m]
          BY <1>0, <3>1, <3>4
        <4>2. SameHolders(bc, bc', m)
          BY <3>1, <3>4 DEF Holds, SameHolders
        <4>3. BlockedIn(bc', m, c) = BlockedIn(bc, m, c)
          BY <1>0, <4>2, BlockedSame
        <4> QED BY <1>1, <3>1, <4>1, <4>3
      <3> QED BY <3>3, <3>4
    <2>6. CASE SpawnPanics(b)
      BY <1>2, <2>6 DEF SpawnPanics, sending
    <2> QED BY <1>10, <2>2, <2>3, <2>4, <2>5, <2>6 DEF BroadcastStep
  <1>11. ASSUME NEW n \in Msgs, LateStep(n) PROVE Goal
    <2> DEFINE d == Head(late[n])
    <2>1. /\ late[n] # << >> /\ late[n] \in Seq(Conns) /\ d \in Conns /\ Tail(late[n]) \in Seq(Conns)
          /\ UNCHANGED <<bc, taken, hits>>
      <3>1. late[n] # << >> /\ late[n] \in Seq(Conns) /\ UNCHANGED <<bc, taken, hits>>
        BY <1>0, <1>11 DEF LateStep
      <3> QED BY <3>1, Popped
    <2>2. ASSUME late' = [late EXCEPT ![n] = Tail(@)],
                 \/ mailbox'[d].queue = Append(mailbox[d].queue, n)
                 \/ ~ mailbox'[d].open,
                 \A x \in Conns \ {d} : mailbox'[x].queue = mailbox[x].queue
          PROVE  Goal
      <3>1. CASE n # m /\ d # c
        <4>1. late'[m] = late[m] /\ mailbox'[c].queue = Q
          BY <1>0, <2>2, <3>1
        <4> QED BY <1>1, <2>1, <4>1
      <3>2. CASE n # m /\ d = c
        <4>1. late'[m] = late[m] /\ mailbox'[c].queue = Append(Q, n)
          BY <1>0, <2>2, <3>2
        <4>2. Occurs(Append(Q, n), m) = Occurs(Q, m) + (IF n = m THEN 1 ELSE 0)
          BY <1>0, <1>11, OccursAppend
        <4>3. Occurs(mailbox'[c].queue, m) = Occurs(Q, m)
          BY <1>T, <3>2, <4>1, <4>2
        <4> QED BY <1>0, <2>1, <4>1, <4>3 DEF Balance
      <3>3. ASSUME n = m PROVE Goal
        <4>1. late'[m] = Tail(late[m])
          BY <1>0, <2>2, <3>3
        <4>2. Occurs(late[m], c) = Occurs(Tail(late[m]), c) + (IF d = c THEN 1 ELSE 0)
          BY <1>0, <2>1, <3>3, OccursTail
        <4>3. Occurs(Tail(late[m]), c) \in Nat
          BY <2>1, <3>3, PlacesFinite
        <4>4. Occurs(mailbox'[c].queue, m) = Occurs(Q, m) + (IF d = c THEN 1 ELSE 0)
          <5>1. CASE d = c
            <6>1. mailbox'[c].queue = Append(Q, m)
              BY <2>2, <3>3, <5>1
            <6>2. Occurs(Append(Q, m), m) = Occurs(Q, m) + (IF m = m THEN 1 ELSE 0)
              BY <1>0, OccursAppend
            <6> QED BY <5>1, <6>1, <6>2
          <5>2. CASE d # c
            <6>1. mailbox'[c].queue = Q
              BY <2>2, <5>2
            <6> QED BY <1>T, <5>2, <6>1
          <5> QED BY <5>1, <5>2
        <4>5. hits[m][c] = Occurs(Q, m) + Occurs(taken[c], m) + Occurs(late[m], c) + BlockedIn(bc, m, c) + lost
          BY <1>0 DEF Balance
        <4>6. Goal <=> hits[m][c] = Occurs(mailbox'[c].queue, m) + Occurs(taken[c], m)
                                    + Occurs(Tail(late[m]), c) + BlockedIn(bc, m, c) + lost
          BY <2>1, <4>1 DEF Balance
        <4> HIDE DEF Goal, Q, d
        <4>7. CASE d = c
          BY <1>T, <4>2, <4>3, <4>4, <4>5, <4>6, <4>7
        <4>8. CASE d # c
          BY <1>T, <4>2, <4>3, <4>4, <4>5, <4>6, <4>8
        <4> QED BY <4>7, <4>8
      <3> QED BY <3>1, <3>2, <3>3
    <2>3. /\ mailbox[d] \in Mailbox(Msgs, Msgs) /\ mailbox[d].free \in Nat /\ mailbox[d].open \in BOOLEAN
          /\ HasRoom(mailbox[d]) \/ IsFull(mailbox[d]) \/ IsClosed(mailbox[d])
      <3>1. mailbox[d] \in Mailbox(Msgs, Msgs)
        BY <1>0, <2>1
      <3> HIDE DEF d
      <3>2. mailbox[d].free \in Nat /\ mailbox[d].open \in BOOLEAN
        BY <3>1 DEF Mailbox
      <3> QED BY <3>1, <3>2 DEF HasRoom, IsFull, IsClosed
    <2>4. CASE LatePolled(n)
      <3>1. /\ mailbox' = [mailbox EXCEPT ![d] = CASE HasRoom(mailbox[d])  -> Push(@, n)
                                                 [] IsFull(mailbox[d])   -> Wait(@, n)
                                                 [] IsClosed(mailbox[d]) -> @]
            /\ late' = [late EXCEPT ![n] = IF IsFull(mailbox[d]) THEN @ ELSE Tail(@)]
        BY <2>4 DEF LatePolled
      <3>2. CASE HasRoom(mailbox[d])
        <4>1. ~ IsFull(mailbox[d]) /\ ~ IsClosed(mailbox[d])
          BY <3>2 DEF HasRoom, IsFull, IsClosed
        <4>2. mailbox' = [mailbox EXCEPT ![d] = Push(@, n)] /\ late' = [late EXCEPT ![n] = Tail(@)]
          BY <3>1, <3>2, <4>1
        <4>3. Push(mailbox[d], n).queue = Append(mailbox[d].queue, n)
          BY <1>0, <2>1 DEF Push, Mailbox
        <4>4. mailbox'[d].queue = Append(mailbox[d].queue, n)
          BY <1>0, <2>1, <4>2, <4>3
        <4>5. \A x \in Conns \ {d} : mailbox'[x].queue = mailbox[x].queue
          BY <1>0, <4>2
        <4> QED BY <2>2, <4>2, <4>4, <4>5
      <3>3. CASE IsFull(mailbox[d])
        <4>1. ~ HasRoom(mailbox[d]) /\ ~ IsClosed(mailbox[d])
          BY <3>3 DEF HasRoom, IsFull, IsClosed
        <4>2. mailbox' = [mailbox EXCEPT ![d] = Wait(@, n)] /\ late' = [late EXCEPT ![n] = @]
          BY <3>1, <3>3, <4>1
        <4>3. Wait(mailbox[d], n).queue = mailbox[d].queue
          BY <1>0, <2>1 DEF Wait, Mailbox
        <4>4. mailbox'[c].queue = Q /\ late'[m] = late[m]
          BY <1>0, <2>1, <4>2, <4>3
        <4> QED BY <1>1, <2>1, <4>4
      <3>4. CASE IsClosed(mailbox[d])
        <4>1. ~ HasRoom(mailbox[d]) /\ ~ IsFull(mailbox[d])
          BY <3>4 DEF HasRoom, IsFull, IsClosed
        <4>2. mailbox' = [mailbox EXCEPT ![d] = @] /\ late' = [late EXCEPT ![n] = Tail(@)]
          BY <3>1, <3>4, <4>1
        <4>3. mailbox' = mailbox /\ ~ mailbox'[d].open
          BY <1>0, <2>1, <3>4, <4>2 DEF IsClosed
        <4> QED BY <2>2, <4>2, <4>3
      <3> QED BY <2>3, <3>2, <3>3, <3>4
    <2>5. CASE LateRedeemed(n)
      <3>1. mailbox' = [mailbox EXCEPT ![d] = Redeem(@, n, n)] /\ late' = [late EXCEPT ![n] = Tail(@)]
        BY <2>5 DEF LateRedeemed
      <3>2. Redeem(mailbox[d], n, n).queue = Append(mailbox[d].queue, n)
        BY <1>0, <2>1 DEF Redeem, Mailbox
      <3>3. mailbox'[d].queue = Append(mailbox[d].queue, n)
        BY <1>0, <2>1, <3>1, <3>2
      <3>4. \A x \in Conns \ {d} : mailbox'[x].queue = mailbox[x].queue
        BY <1>0, <3>1
      <3> QED BY <2>2, <3>1, <3>3, <3>4
    <2> QED BY <1>11, <2>4, <2>5 DEF LateStep
  <1>14. ASSUME NEW n \in Msgs, CancelSend(n) PROVE Goal
    <2>1. n # m
      BY <1>14
    <2>2. late' = [late EXCEPT ![n] = << >>] /\ UNCHANGED <<bc, taken, hits>>
      BY <1>14 DEF CancelSend
    <2>3. mailbox'[c].queue = Q
      BY <1>14, Withdraws
    <2> QED BY <1>0, <1>1, <2>1, <2>2, <2>3
  <1>12. ASSUME UNCHANGED vars PROVE Goal
    BY <1>2, <1>12 DEF vars, sending
  <1>13. Goal
    <2> HIDE DEF Goal, Q
    <2>1. ASSUME NEW d \in Conns, Register(d) \/ Remove(d) \/ Take(d) \/ DropRx(d) PROVE Goal
      BY <1>4, <1>5, <1>6, <2>1
    <2>2. ASSUME NEW d \in Callers, NEW t \in Threads, Call(d, t) PROVE Goal
      BY <1>9, <2>2
    <2>3. ASSUME NEW b \in Broadcasters, NEW list, Dispatch(b, list) PROVE Goal
      BY <1>8, <2>3 DEF Dispatch
    <2>4. ASSUME NEW b \in Broadcasters, BroadcastStep(b) \/ \E list \in GroupLists : Dispatch(b, list)
          PROVE  Goal
      BY <1>10, <2>3, <2>4
    <2>5. Next => Goal
      BY <1>11, <1>14, <2>1, <2>2, <2>4 DEF Next
    <2> QED BY <1>12, <2>5
  <1> QED BY <1>13

(* A cancelled send is in none of the places it could be: it was accepted   *)
(* once, and its own task held it.                                          *)
LEMMA CancelLoses ==
  ASSUME TypeOK, IdInv, MsgInv, FutureInv, [Next]_vars,
         NEW c \in Conns, NEW m \in Msgs, CancelSend(m), Balance(c, m, 0)
  PROVE  Balance(c, m, hits[m][c])'
  <1>1. /\ late[m] # << >> /\ future[m] = "awaited" /\ late' = [late EXCEPT ![m] = << >>]
        /\ UNCHANGED <<bc, taken, hits>> /\ late \in [Msgs -> Seq(Conns)]
    BY DEF CancelSend, TypeOK
  <1>2. mailbox'[c].queue = mailbox[c].queue
    BY Withdraws
  <1>3. PICK e \in Conns : late[m] = <<e>> /\ \A d \in Conns : hits[m][d] = IF d = e THEN 1 ELSE 0
    BY <1>1 DEF FutureInv, FutureOf
  <1>4. /\ Occurs(mailbox[c].queue, m) \in Nat /\ Occurs(taken[c], m) \in Nat
        /\ BlockedIn(bc, m, c) \in Nat
    BY BalanceTypes
  <1>5. Occurs(late[m], c) = IF e = c THEN 1 ELSE 0
    BY <1>3, OccursSingle
  <1>6. hits[m][c] = IF c = e THEN 1 ELSE 0
    BY <1>3
  <1>7. /\ Occurs(mailbox[c].queue, m) = 0 /\ Occurs(taken[c], m) = 0 /\ BlockedIn(bc, m, c) = 0
    <2>1. hits[m][c] = Occurs(mailbox[c].queue, m) + Occurs(taken[c], m)
                       + Occurs(late[m], c) + BlockedIn(bc, m, c) + 0
      BY DEF Balance
    <2>2. hits[m][c] = Occurs(late[m], c) /\ hits[m][c] \in Nat
      BY <1>5, <1>6
    <2> DEFINE q == Occurs(mailbox[c].queue, m)
               r == Occurs(taken[c], m)
               s == Occurs(late[m], c)
               b == BlockedIn(bc, m, c)
               h == hits[m][c]
    <2>3. /\ q \in Nat /\ r \in Nat /\ b \in Nat /\ h \in Nat /\ h = s
          /\ h = q + r + s + b + 0
      BY <1>4, <2>1, <2>2
    <2> HIDE DEF q, r, s, b, h
    <2>4. q = 0 /\ r = 0 /\ b = 0
      BY <2>3
    <2> QED BY <2>4 DEF q, r, b
  <1>8. Occurs(late'[m], c) = 0
    BY <1>1, OccursEmpty
  <1>9. hits'[m][c] \in Nat /\ hits'[m][c] = hits[m][c]
    BY <1>1 DEF TypeOK
  <1> QED BY <1>1, <1>2, <1>7, <1>8, <1>9 DEF Balance

LEMMA LossStep ==
  TypeOK /\ IdInv /\ MsgInv /\ OweInv /\ FutureInv /\ LossInv /\ [Next]_vars => LossInv'
  <1> SUFFICES ASSUME TypeOK, IdInv, MsgInv, OweInv, FutureInv, LossInv, [Next]_vars,
                      NEW c \in Conns, NEW m \in Msgs, mailbox'[c].open
               PROVE  Balance(c, m, Lost(c, m))'
    BY DEF LossInv
  <1>1. mailbox[c].open
    BY OffersStay
  <1>2. Balance(c, m, Lost(c, m)) /\ Lost(c, m) \in Nat /\ hits[m][c] \in Nat
    BY <1>1 DEF LossInv, Lost, TypeOK
  <1>3. CASE CancelSend(m)
    <2>1. /\ future[m] = "awaited" /\ future' = [future EXCEPT ![m] = "cancelled"] /\ hits' = hits
          /\ future \in [Msgs -> {"none", "awaited", "cancelled"}]
      BY <1>3 DEF CancelSend, TypeOK
    <2>2. Lost(c, m) = 0 /\ Lost(c, m)' = hits[m][c]
      BY <2>1 DEF Lost
    <2>3. Balance(c, m, hits[m][c])'
      BY <1>2, <1>3, <2>2, CancelLoses
    <2> QED BY <2>1, <2>2, <2>3 DEF Balance
  <1>4. CASE ~ CancelSend(m)
    <2>1. Lost(c, m)' = Lost(c, m)
      <3>1. CASE future[m] = "none"
        <4>1. future'[m] # "cancelled"
          BY <3>1, FutureBegins
        <4> QED BY <3>1, <4>1 DEF Lost
      <3>2. CASE future[m] # "none"
        <4>1. hits'[m] = hits[m] /\ future'[m] = future[m]
          BY <1>4, <3>2, FutureMoves
        <4> QED BY <4>1 DEF Lost
      <3> QED BY <3>1, <3>2
    <2>2. hits'[m][c] = Occurs(mailbox'[c].queue, m) + Occurs(taken'[c], m)
                        + Occurs(late'[m], c) + BlockedIn(bc', m, c) + Lost(c, m)
      BY <1>2, <1>4, AccountKept
    <2> QED BY <2>1, <2>2 DEF Balance
  <1> QED BY <1>3, <1>4

LEMMA LossInit == Init => OweInv /\ FutureInv /\ LossInv
  <1> SUFFICES ASSUME Init PROVE OweInv /\ FutureInv /\ LossInv
    OBVIOUS
  <1>1. OweInv /\ FutureInv
    BY DEF Init, OweInv, FutureInv, FutureOf, Idle
  <1>2. ASSUME NEW c \in Conns, NEW m \in Msgs PROVE Balance(c, m, Lost(c, m))
    <2>1. /\ mailbox[c].queue = << >> /\ taken[c] = << >> /\ late[m] = << >> /\ hits[m][c] = 0
          /\ future[m] = "none" /\ \A b \in Broadcasters : bc[b].pc = "idle"
      BY <1>2 DEF Init, NewMailbox, Idle
    <2>2. \A b \in Broadcasters : ~ Holds(bc, b, m)
      BY <2>1 DEF Holds
    <2>3. BlockedIn(bc, m, c) = 0
      BY <2>2, BlockedByNone
    <2> QED BY <2>1, <2>3, OccursEmpty DEF Balance, Lost
  <1> QED BY <1>1, <1>2 DEF LossInv

(* The account says what is promised of it.                                 *)
LEMMA AccountIsPromise == TypeOK /\ MsgInv /\ LossInv => NothingLostWhileOpen
  <1> SUFFICES ASSUME TypeOK, MsgInv, LossInv, NEW c \in Conns, NEW m \in Msgs, mailbox[c].open
               PROVE  (IF future[m] = "cancelled" THEN 0 ELSE hits[m][c])
                        = Occurs(mailbox[c].queue, m) + Occurs(taken[c], m)
                          + Occurs(late[m], c) + Blocked(m, c)
    BY DEF NothingLostWhileOpen
  <1>1. /\ hits[m][c] \in Nat /\ Occurs(mailbox[c].queue, m) \in Nat
        /\ Occurs(taken[c], m) \in Nat /\ Occurs(late[m], c) \in Nat
        /\ BlockedIn(bc, m, c) \in Nat
    BY BalanceTypes
  <1>2. hits[m][c] = Occurs(mailbox[c].queue, m) + Occurs(taken[c], m)
                     + Occurs(late[m], c) + BlockedIn(bc, m, c) + Lost(c, m)
    BY DEF LossInv, Balance
  <1>3. Blocked(m, c) = BlockedIn(bc, m, c)
    BY BlockedIs
  <1>4. CASE future[m] = "cancelled"
    BY <1>1, <1>2, <1>3, <1>4 DEF Lost
  <1>5. CASE future[m] # "cancelled"
    BY <1>1, <1>2, <1>3, <1>5 DEF Lost
  <1> QED BY <1>4, <1>5

(* While its receiver lives, a connection is owed, holds or has taken each  *)
(* message exactly as often as it was accepted for it; a send whose future  *)
(* was cancelled while it waited is nowhere.                                *)
THEOREM NothingIsLost == Spec => []NothingLostWhileOpen
  <1>1. TableInv => TypeOK /\ IdInv
    BY DEF TableInv
  <1>2. TypeOK /\ MsgInv /\ LossInv => NothingLostWhileOpen
    BY AccountIsPromise
  <1> QED BY <1>1, <1>2, MessagesCorrect, LossInit, OweStep, FutureStep, LossStep, PTL DEF Spec
=============================================================================
