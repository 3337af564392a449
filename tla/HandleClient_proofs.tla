-------------------------- MODULE HandleClient_proofs --------------------------
(***************************************************************************)
(* Theorems about HandleClient, for any number of connections, routes,     *)
(* groups, callers and messages.  What ChannelStore_proofs shows of the    *)
(* table holds of the composition too, for every step of it is one of the  *)
(* table's operations or leaves the table alone.                           *)
(***************************************************************************)
EXTENDS HandleClient, ChannelStore_proofs, SequenceTheorems

(* A step of one connection that leaves the table alone.                    *)
Apart(c) ==
  \/ UpgradeFails(c) \/ Connected(c) \/ SpawnTasks(c) \/ Select(c)
  \/ WriteFrame(c) \/ RecvTaskStep(c) \/ SyncReturns(c) \/ CoroutineReturns(c)
  \/ (\E frame \in {"data", "close", "bad"} : PeerSends(c, frame)) \/ PeerLeaves(c)

LEMMA ApartKeepsStore ==
  ASSUME NEW c \in Conns, Apart(c)
  PROVE  UNCHANGED vars
  BY DEF Apart, UpgradeFails, Connected, SpawnTasks, Select, WriteFrame, RecvTaskStep, ReadData,
         ReadClose, ReadFails, RecvCancelled, SyncReturns, CoroutineReturns, PeerSends, PeerLeaves

(* The steps of the composition that are operations of the table.           *)
StoreOps(c) == Registers(c) \/ Removes(c) \/ SendTakes(c) \/ WriteClose(c) \/ WriteFails(c)
               \/ SendCancelled(c)

LEMMA ConnSteps ==
  ASSUME NEW c \in Conns, ConnStep(c)
  PROVE  Apart(c) \/ StoreOps(c)
  BY DEF ConnStep, HandleStep, SendTaskStep, Apart, StoreOps

LEMMA HStepIsStep == [HNext]_hvars => [Next]_vars
  <1> SUFFICES ASSUME [HNext]_hvars PROVE [Next]_vars
    OBVIOUS
  <1>1. CASE UNCHANGED hvars
    BY <1>1 DEF hvars
  <1>2. ASSUME ~ aborted, NEW c \in Conns, Register(c) \/ Remove(c) \/ Take(c) \/ DropRx(c)
        PROVE  Next
    BY <1>2 DEF Next
  <1>3. ASSUME ~ aborted, NEW c \in Conns, ConnStep(c) PROVE [Next]_vars
    <2>1. CASE Apart(c)
      BY <2>1, ApartKeepsStore
    <2>2. CASE StoreOps(c)
      BY <1>2, <1>3, <2>2 DEF StoreOps, Registers, Removes, SendTakes, WriteClose, WriteFails,
                              SendCancelled
    <2> QED BY <1>3, <2>1, <2>2, ConnSteps
  <1>4. ASSUME ~ aborted, NEW c \in Callers, NEW t \in Threads, PythonCalls(c, t) PROVE Next
    <2>1. Call(c, t)
      BY <1>4 DEF PythonCalls, Call
    <2> QED BY <1>4, <2>1 DEF Next
  <1>5. ASSUME ~ aborted, NEW b \in Broadcasters, Broadcasts(b) PROVE Next
    BY <1>5 DEF Broadcasts, Next
  <1>6. ASSUME ~ aborted, Elsewhere PROVE Next
    BY <1>6 DEF Elsewhere, Next
  <1> QED BY <1>1, <1>3, <1>4, <1>5, <1>6 DEF HNext

(* The composition runs the connection table only by its own operations, in *)
(* the order ChannelStore allows.                                           *)
THEOREM CompositionIsSound == HSpec => StoreSafety
  <1>1. HInit => Init
    BY DEF HInit
  <1> QED BY <1>1, HStepIsStep, PTL DEF HSpec, StoreSafety

(* So the table's entries and messages are in the composition what they are *)
(* in the table alone.                                                      *)
THEOREM TableStaysCorrect == HSpec => [](TableInv /\ MsgInv)
  <1>1. TableInv /\ MsgInv /\ [Next]_vars => (TableInv /\ MsgInv)'
    BY TypeStep, IdStep, MemberStep, SweepStep, MsgStep DEF TableInv
  <1> QED BY <1>1, TableInvInit, MsgInvInit, CompositionIsSound, PTL DEF StoreSafety

-----------------------------------------------------------------------------
(* Type invariant, of what the theorems below rest on.                      *)
HTypeOK ==
  /\ route \in [Conns -> [Kinds -> Modes]]
  /\ handle \in [Conns -> {"registering", "failed", "connectAfter", "select", "removing", "done"}]
  /\ sendTask \in [Conns -> {"none", "idle", "writing", "ended", "aborted"}]
  /\ recvTask \in [Conns -> {"none", "reading", "callback", "closing", "ended", "aborted"}]
  /\ aborting \in [Conns -> SUBSET {"send", "recv"}]
  /\ cb \in [Conns -> Nat]
  /\ started \in [Conns -> Seq(Kinds)]
  /\ peer \in [Conns -> {"open", "left"}]
  /\ inbox \in [Conns -> Seq({"data", "close", "bad"})]
  /\ inHand \in [Conns -> Nat]
  /\ wire \in [Conns -> Seq(Nat)]

LEMMA Appended ==
  ASSUME NEW S, NEW s \in Seq(S), NEW e \in S
  PROVE  /\ Append(s, e) \in Seq(S) /\ Len(s) \in Nat /\ Len(Append(s, e)) = Len(s) + 1
         /\ Append(s, e)[Len(s) + 1] = e
         /\ \A i \in 1 .. Len(s) : Append(s, e)[i] = s[i]
  BY AppendProperties, LenProperties

LEMMA HTypeInit == HInit => HTypeOK
  <1> SUFFICES ASSUME HInit PROVE HTypeOK
    OBVIOUS
  <1>1. route \in [Conns -> [Kinds -> Modes]]
    BY RouteAssumption DEF HInit
  <1>2. << >> \in Seq(Kinds) /\ << >> \in Seq({"data", "close", "bad"}) /\ << >> \in Seq(Nat)
    OBVIOUS
  <1>3. started \in [Conns -> Seq(Kinds)] /\ wire \in [Conns -> Seq(Nat)]
    BY <1>2, Zenon DEF HInit
  <1>4. inbox \in [Conns -> Seq({"data", "close", "bad"})]
    BY <1>2, Zenon DEF HInit
  <1> QED BY <1>1, <1>3, <1>4 DEF HInit, HTypeOK

(* What Callback::invoke does to the calls of a connection.                 *)
LEMMA InvokeTypes ==
  ASSUME HTypeOK, NEW c \in Conns, NEW kind \in Kinds, Invoke(c, kind)
  PROVE  cb' \in [Conns -> Nat] /\ started' \in [Conns -> Seq(Kinds)]
  <1>1. started[c] \in Seq(Kinds) /\ Len(started[c]) + 1 \in Nat
    BY LenProperties DEF HTypeOK
  <1>2. Append(started[c], kind) \in Seq(Kinds)
    BY <1>1, Appended
  <1>3. cb' = cb \/ cb' = [cb EXCEPT ![c] = Len(started[c]) + 1]
    BY DEF Invoke, calls
  <1>4. started' = started \/ started' = [started EXCEPT ![c] = Append(started[c], kind)]
    BY DEF Invoke, calls
  <1>5. cb' \in [Conns -> Nat]
    BY <1>1, <1>3 DEF HTypeOK
  <1>6. started' \in [Conns -> Seq(Kinds)]
    BY <1>2, <1>4 DEF HTypeOK
  <1> QED BY <1>5, <1>6

LEMMA HTypeStep == TypeOK /\ HTypeOK /\ [HNext]_hvars => HTypeOK'
  <1> SUFFICES ASSUME TypeOK, HTypeOK, [HNext]_hvars PROVE HTypeOK'
    OBVIOUS
  <1>1. CASE UNCHANGED hvars
    BY <1>1 DEF HTypeOK, hvars, life, tasks, calls, net
  <1>2. ASSUME NEW c \in Conns, UpgradeFails(c) PROVE HTypeOK'
    BY <1>2 DEF HTypeOK, UpgradeFails, calls, net
  <1>3. ASSUME NEW c \in Conns, Registers(c) PROVE HTypeOK'
    BY <1>3 DEF HTypeOK, Registers, life, tasks, calls, net
  <1>4. ASSUME NEW c \in Conns, Connected(c) PROVE HTypeOK'
    <2>1. cb' \in [Conns -> Nat] /\ started' \in [Conns -> Seq(Kinds)]
      BY <1>4, InvokeTypes DEF Connected, Kinds
    <2> QED BY <1>4, <2>1 DEF HTypeOK, Connected, net
  <1>5. ASSUME NEW c \in Conns, SpawnTasks(c) PROVE HTypeOK'
    BY <1>5 DEF HTypeOK, SpawnTasks, calls, net
  <1>6. ASSUME NEW c \in Conns, Select(c) PROVE HTypeOK'
    <2>1. aborting' \in [Conns -> SUBSET {"send", "recv"}]
      <3>1. {"send"} \in SUBSET {"send", "recv"} /\ {"recv"} \in SUBSET {"send", "recv"}
        OBVIOUS
      <3>2. \E a \in {{"send"}, {"recv"}} : aborting' = [aborting EXCEPT ![c] = a]
        BY <1>6 DEF Select
      <3> QED BY <3>1, <3>2 DEF HTypeOK
    <2>2. handle' = [handle EXCEPT ![c] = "removing"]
          /\ UNCHANGED <<route, sendTask, inHand, recvTask, calls, net>>
      BY <1>6 DEF Select
    <2> QED BY <2>1, <2>2 DEF HTypeOK, calls, net
  <1>7. ASSUME NEW c \in Conns, Removes(c) PROVE HTypeOK'
    BY <1>7 DEF HTypeOK, Removes, calls, net
  <1>8. ASSUME NEW c \in Conns, SendTakes(c) PROVE HTypeOK'
    <2>1. mailbox[c].queue \in Seq(Msgs) /\ mailbox[c].queue # << >>
      BY <1>8 DEF SendTakes, Take, TypeOK, Mailbox
    <2>2. Head(mailbox[c].queue) \in Nat
      <3>1. Head(mailbox[c].queue) \in Msgs
        BY <2>1, Popped
      <3> QED BY <3>1 DEF Msgs
    <2> QED BY <1>8, <2>2 DEF HTypeOK, SendTakes, calls, net
  <1>9. ASSUME NEW c \in Conns, Written(c) PROVE wire' \in [Conns -> Seq(Nat)]
    <2>1. Append(wire[c], inHand[c]) \in Seq(Nat)
      BY Appended DEF HTypeOK
    <2> QED BY <1>9, <2>1 DEF HTypeOK, Written
  <1>10. ASSUME NEW c \in Conns, WriteFrame(c) PROVE HTypeOK'
    BY <1>9, <1>10 DEF HTypeOK, WriteFrame, calls
  <1>11. ASSUME NEW c \in Conns, WriteClose(c) PROVE HTypeOK'
    BY <1>9, <1>11 DEF HTypeOK, WriteClose, calls
  <1>12. ASSUME NEW c \in Conns, WriteFails(c) \/ SendCancelled(c) PROVE HTypeOK'
    BY <1>12 DEF HTypeOK, WriteFails, SendCancelled, calls, net
  <1>13. ASSUME NEW c \in Conns, inbox[c] # << >>, inbox' = [inbox EXCEPT ![c] = Tail(@)]
         PROVE  inbox' \in [Conns -> Seq({"data", "close", "bad"})]
    <2>1. Tail(inbox[c]) \in Seq({"data", "close", "bad"})
      BY <1>13, Popped DEF HTypeOK
    <2> QED BY <1>13, <2>1 DEF HTypeOK
  <1>14. ASSUME NEW c \in Conns, ReadData(c) \/ ReadClose(c) PROVE HTypeOK'
    <2>1. cb' \in [Conns -> Nat] /\ started' \in [Conns -> Seq(Kinds)]
      BY <1>14, InvokeTypes DEF ReadData, ReadClose, Kinds
    <2>2. inbox' \in [Conns -> Seq({"data", "close", "bad"})]
      BY <1>13, <1>14 DEF ReadData, ReadClose
    <2>3. \E s \in {"callback", "closing", "ended", recvTask[c]} :
            recvTask' = [recvTask EXCEPT ![c] = s]
      BY <1>14 DEF ReadData, ReadClose
    <2>4. recvTask' \in [Conns -> {"none", "reading", "callback", "closing", "ended", "aborted"}]
      BY <2>3 DEF HTypeOK
    <2> QED BY <1>14, <2>1, <2>2, <2>4 DEF HTypeOK, ReadData, ReadClose
  <1>15. ASSUME NEW c \in Conns, ReadFails(c) \/ RecvCancelled(c) PROVE HTypeOK'
    BY <1>15 DEF HTypeOK, ReadFails, RecvCancelled, calls, net
  <1>16. ASSUME NEW c \in Conns, SyncReturns(c) PROVE HTypeOK'
    BY <1>16 DEF HTypeOK, SyncReturns, net
  <1>17. ASSUME NEW c \in Conns, CoroutineReturns(c) PROVE HTypeOK'
    BY <1>17 DEF HTypeOK, CoroutineReturns, tasks, net
  <1>18. ASSUME NEW c \in Conns, NEW frame \in {"data", "close", "bad"}, PeerSends(c, frame)
         PROVE  HTypeOK'
    <2>1. Append(inbox[c], frame) \in Seq({"data", "close", "bad"})
      BY Appended DEF HTypeOK
    <2>2. inbox' \in [Conns -> Seq({"data", "close", "bad"})]
      BY <1>18, <2>1 DEF HTypeOK, PeerSends
    <2> QED BY <1>18, <2>2 DEF HTypeOK, PeerSends, tasks, calls
  <1>19. ASSUME NEW c \in Conns, PeerLeaves(c) PROVE HTypeOK'
    <2>1. << >> \in Seq({"data", "close", "bad"})
      OBVIOUS
    <2>2. inbox' \in [Conns -> Seq({"data", "close", "bad"})]
      BY <1>19, <2>1 DEF HTypeOK, PeerLeaves
    <2> QED BY <1>19, <2>2 DEF HTypeOK, PeerLeaves, tasks, calls
  <1>20. ASSUME UNCHANGED <<route, tasks, calls, net>> PROVE HTypeOK'
    BY <1>20 DEF HTypeOK, tasks, calls, net
  <1>21. ASSUME NEW c, NEW t, PythonCalls(c, t) PROVE HTypeOK'
    BY <1>20, <1>21 DEF PythonCalls
  <1>22. ASSUME NEW b, Broadcasts(b) PROVE HTypeOK'
    BY <1>20, <1>22 DEF Broadcasts
  <1>23. CASE Elsewhere
    BY <1>20, <1>23 DEF Elsewhere, life
  <1>24. ASSUME NEW c \in Conns, ConnStep(c) PROVE HTypeOK'
    BY <1>2, <1>3, <1>4, <1>5, <1>6, <1>7, <1>8, <1>10, <1>11, <1>12, <1>14, <1>15, <1>16,
       <1>17, <1>18, <1>19, <1>24
       DEF ConnStep, HandleStep, SendTaskStep, RecvTaskStep
  <1> QED BY <1>1, <1>21, <1>22, <1>23, <1>24 DEF HNext

-----------------------------------------------------------------------------
(* The tasks and the callbacks of a connection.  Its tasks exist from       *)
(* select on; only connect("after") and the receive task run a sync         *)
(* callback; and after the disconnect callback the task reads no more.      *)
Unserved == {"registering", "failed", "connectAfter"}

Orderly(h, r, s, b) ==
  /\ r = "none" <=> h \in Unserved
  /\ h \in {"registering", "failed"} => Len(s) = 0
  /\ h = "connectAfter" => Len(s) <= 1 /\ \A k \in 1 .. Len(s) : s[k] = "after"
  /\ b \in 0 .. Len(s)
  /\ r \in {"reading", "ended", "aborted"} => b = 0
  /\ r \in {"callback", "closing"} => b # 0 /\ s[b] # "after"
  /\ \A k \in 1 .. Len(s) :
       /\ s[k] = "after" => k = 1
       /\ s[k] = "disconnect" => k = Len(s) /\ r \in {"closing", "ended"}

LifeOf(c) == Orderly(handle[c], recvTask[c], started[c], cb[c])

LifeInv == \A c \in Conns : LifeOf(c)

LEMMA LifeInit == HInit => LifeInv
  <1> SUFFICES ASSUME HInit, NEW c \in Conns PROVE LifeOf(c)
    BY DEF LifeInv
  <1>1. /\ Len(started[c]) = 0 /\ cb[c] = 0 /\ recvTask[c] = "none"
        /\ handle[c] = "registering"
    BY DEF HInit
  <1> QED BY <1>1 DEF LifeOf, Orderly, Unserved

(* What Callback::invoke does to the calls of a connection.                 *)
LEMMA Invoked ==
  ASSUME HTypeOK, NEW c \in Conns, NEW kind \in Kinds, Invoke(c, kind)
  PROVE  /\ \A d \in Conns \ {c} : started'[d] = started[d] /\ cb'[d] = cb[d]
         /\ Len(started[c]) \in Nat
         /\ \/ started'[c] = started[c] /\ cb'[c] = cb[c] /\ route[c][kind] = "none"
            \/ /\ Len(started'[c]) = Len(started[c]) + 1
               /\ started'[c][Len(started[c]) + 1] = kind
               /\ \A k \in 1 .. Len(started[c]) : started'[c][k] = started[c][k]
               /\ \/ route[c][kind] = "sync" /\ cb'[c] = Len(started[c]) + 1
                  \/ route[c][kind] = "async" /\ cb'[c] = cb[c]
  <1>1. started[c] \in Seq(Kinds)
    BY DEF HTypeOK
  <1>2. CASE UNCHANGED calls /\ route[c][kind] = "none"
    BY <1>1, <1>2, LenProperties DEF calls
  <1>3. CASE /\ started' = [started EXCEPT ![c] = Append(started[c], kind)]
             /\ \/ route[c][kind] = "sync" /\ cb' = [cb EXCEPT ![c] = Len(started[c]) + 1]
                \/ route[c][kind] = "async" /\ cb' = cb
    <2>1. /\ started'[c] = Append(started[c], kind)
          /\ \A d \in Conns \ {c} : started'[d] = started[d] /\ cb'[d] = cb[d]
      BY <1>3 DEF HTypeOK
    <2>2. \/ route[c][kind] = "sync" /\ cb'[c] = Len(started[c]) + 1
          \/ route[c][kind] = "async" /\ cb'[c] = cb[c]
      BY <1>3 DEF HTypeOK
    <2> QED BY <1>1, <2>1, <2>2, Appended
  <1> QED BY <1>2, <1>3 DEF Invoke

(* The first call of a connection, if any, is connect("after").             *)
LEMMA FirstCall ==
  ASSUME NEW s, NEW b,
         \/ Len(s) = 0 /\ b = 0
         \/ Len(s) = 1 /\ s[1] = "after" /\ b \in 0 .. 1
  PROVE  Orderly("connectAfter", "none", s, b)
  <1>1. CASE Len(s) = 0 /\ b = 0
    BY <1>1 DEF Orderly, Unserved
  <1>2. CASE Len(s) = 1 /\ s[1] = "after" /\ b \in 0 .. 1
    <2>1. \A k \in 1 .. Len(s) : k = 1 /\ s[k] = "after"
      BY <1>2
    <2> QED BY <1>2, <2>1 DEF Orderly, Unserved
  <1> QED BY <1>1, <1>2

LEMMA LifePrimed ==
  ASSUME NEW c \in Conns
  PROVE  LifeOf(c)' <=> Orderly(handle'[c], recvTask'[c], started'[c], cb'[c])
  BY DEF LifeOf, Orderly

(* A call of the receive task follows those made before it.                 *)
LEMMA NextCall ==
  ASSUME NEW h, NEW s, NEW b, Orderly(h, "reading", s, b), Len(s) \in Nat,
         NEW kind \in {"receive", "disconnect"}, NEW t, NEW e, NEW r,
         Len(t) = Len(s) + 1, t[Len(s) + 1] = kind, \A k \in 1 .. Len(s) : t[k] = s[k],
         kind = "receive" => r \in {"reading", "callback"},
         kind = "disconnect" => r \in {"ended", "closing"},
         IF r \in {"callback", "closing"} THEN e = Len(s) + 1 ELSE e = b
  PROVE  Orderly(h, r, t, e)
  <1>1. b = 0 /\ h \notin Unserved /\ r # "none"
    BY DEF Orderly
  <1>2. h \notin {"registering", "failed", "connectAfter"}
    BY <1>1 DEF Unserved
  <1>3. ASSUME NEW k \in 1 .. Len(t)
        PROVE  /\ t[k] = "after" => k = 1
               /\ t[k] = "disconnect" => k = Len(t) /\ r \in {"closing", "ended"}
    <2>1. CASE k = Len(s) + 1
      BY <2>1
    <2>2. CASE k \in 1 .. Len(s)
      BY <2>2 DEF Orderly
    <2> QED BY <2>1, <2>2
  <1>4. e \in 0 .. Len(t) /\ (r \in {"callback", "closing"} => e # 0 /\ t[e] # "after")
    BY <1>1
  <1>5. r \in {"reading", "ended", "aborted"} => e = 0
    BY <1>1
  <1> QED BY <1>1, <1>2, <1>3, <1>4, <1>5 DEF Orderly

LEMMA LifeStep == TypeOK /\ HTypeOK /\ LifeInv /\ [HNext]_hvars => LifeInv'
  <1> SUFFICES ASSUME TypeOK, HTypeOK, LifeInv, [HNext]_hvars PROVE LifeInv'
    OBVIOUS
  <1>0. \A c \in Conns : LifeOf(c) /\ Len(started[c]) \in Nat
    BY LenProperties DEF LifeInv, HTypeOK
  <1>1. ASSUME UNCHANGED <<handle, recvTask, cb, started>> PROVE LifeInv'
    BY <1>1 DEF LifeInv, LifeOf
  <1>2. ASSUME NEW c \in Conns,
               \A d \in Conns \ {c} : /\ handle'[d] = handle[d] /\ recvTask'[d] = recvTask[d]
                                      /\ cb'[d] = cb[d] /\ started'[d] = started[d],
               LifeOf(c)'
        PROVE  LifeInv'
    <2> SUFFICES ASSUME NEW d \in Conns PROVE LifeOf(d)'
      BY DEF LifeInv
    <2>1. CASE d # c
      BY <1>0, <1>2, <2>1 DEF LifeOf
    <2> QED BY <1>2, <2>1
  <1>3. ASSUME NEW c \in Conns, UpgradeFails(c) PROVE LifeInv'
    <2>1. /\ handle[c] = "registering" /\ handle' = [handle EXCEPT ![c] = "failed"]
          /\ UNCHANGED <<recvTask, cb, started>>
      BY <1>3 DEF UpgradeFails, calls
    <2>2. handle'[c] = "failed" /\ \A d \in Conns \ {c} : handle'[d] = handle[d]
      BY <2>1 DEF HTypeOK
    <2>3. LifeOf(c)'
      BY <1>0, <2>1, <2>2 DEF LifeOf, Orderly, Unserved
    <2> QED BY <1>2, <2>1, <2>2, <2>3
  <1>4. ASSUME NEW c \in Conns, Connected(c) PROVE LifeInv'
    <2>1. /\ handle[c] = "registering" /\ UNCHANGED recvTask
          /\ handle'[c] = "connectAfter" /\ \A d \in Conns \ {c} : handle'[d] = handle[d]
      BY <1>4 DEF Connected, HTypeOK
    <2>2. Len(started[c]) = 0 /\ cb[c] = 0 /\ recvTask[c] = "none"
      BY <1>0, <2>1 DEF LifeOf, Orderly, Unserved
    <2>5. Invoke(c, "after") /\ "after" \in Kinds
      BY <1>4 DEF Connected, Kinds
    <2>6. /\ \A d \in Conns \ {c} : started'[d] = started[d] /\ cb'[d] = cb[d]
          /\ \/ started'[c] = started[c] /\ cb'[c] = cb[c]
             \/ /\ Len(started'[c]) = Len(started[c]) + 1
                /\ started'[c][Len(started[c]) + 1] = "after"
                /\ cb'[c] = Len(started[c]) + 1 \/ cb'[c] = cb[c]
      BY <2>5, Invoked
    <2>3. /\ \A d \in Conns \ {c} : started'[d] = started[d] /\ cb'[d] = cb[d]
          /\ \/ Len(started'[c]) = 0 /\ cb'[c] = 0
             \/ Len(started'[c]) = 1 /\ started'[c][1] = "after" /\ cb'[c] \in 0 .. 1
      BY <2>2, <2>6
    <2>4. LifeOf(c)'
      BY <2>1, <2>2, <2>3, FirstCall, LifePrimed
    <2> QED BY <1>2, <2>1, <2>3, <2>4
  <1>5. ASSUME NEW c \in Conns, SpawnTasks(c) PROVE LifeInv'
    <2>1. /\ handle[c] = "connectAfter" /\ cb[c] = 0 /\ UNCHANGED <<cb, started>>
          /\ handle'[c] = "select" /\ \A d \in Conns \ {c} : handle'[d] = handle[d]
          /\ recvTask'[c] = "reading" /\ \A d \in Conns \ {c} : recvTask'[d] = recvTask[d]
      BY <1>5 DEF SpawnTasks, calls, HTypeOK
    <2>2. LifeOf(c)'
      BY <1>0, <2>1 DEF LifeOf, Orderly, Unserved
    <2> QED BY <1>2, <2>1, <2>2
  <1>6. ASSUME NEW c \in Conns, Select(c) \/ Removes(c) PROVE LifeInv'
    <2>1. /\ handle[c] \in {"select", "removing"} /\ UNCHANGED <<recvTask, cb, started>>
          /\ handle'[c] \in {"removing", "done"} /\ \A d \in Conns \ {c} : handle'[d] = handle[d]
      BY <1>6 DEF Select, Removes, calls, HTypeOK
    <2>2. LifeOf(c)'
      BY <1>0, <2>1 DEF LifeOf, Orderly, Unserved
    <2> QED BY <1>2, <2>1, <2>2
  <1>7. ASSUME NEW c \in Conns,
               \/ Registers(c) \/ SendTakes(c) \/ WriteFrame(c) \/ WriteClose(c) \/ WriteFails(c)
               \/ SendCancelled(c) \/ CoroutineReturns(c) \/ PeerLeaves(c)
               \/ \E frame \in {"data", "close", "bad"} : PeerSends(c, frame)
        PROVE  LifeInv'
    BY <1>1, <1>7 DEF Registers, SendTakes, WriteFrame, WriteClose, WriteFails, SendCancelled,
                      CoroutineReturns, PeerLeaves, PeerSends, life, tasks, calls
  <1>8. ASSUME NEW c \in Conns, ReadData(c) PROVE LifeInv'
    <2>1. /\ recvTask[c] = "reading" /\ UNCHANGED handle
          /\ recvTask'[c] = IF route[c]["receive"] = "sync" THEN "callback" ELSE "reading"
          /\ \A d \in Conns \ {c} : recvTask'[d] = recvTask[d]
      BY <1>8 DEF ReadData, HTypeOK
    <2>2. Invoke(c, "receive") /\ "receive" \in Kinds
      BY <1>8 DEF ReadData, Kinds
    <2>3. Orderly(handle[c], "reading", started[c], cb[c]) /\ Len(started[c]) \in Nat
      BY <1>0, <2>1 DEF LifeOf
    <2>4. ASSUME started'[c] = started[c] /\ cb'[c] = cb[c] /\ route[c]["receive"] = "none"
          PROVE  LifeOf(c)'
      <3>1. recvTask'[c] = "reading" /\ handle'[c] = handle[c]
        BY <2>1, <2>4
      <3>2. Orderly(handle[c], "reading", started[c], cb[c])
        BY <2>3 DEF Orderly
      <3> QED BY <2>4, <3>1, <3>2, LifePrimed
    <2>5. ASSUME Len(started'[c]) = Len(started[c]) + 1,
                 started'[c][Len(started[c]) + 1] = "receive",
                 \A k \in 1 .. Len(started[c]) : started'[c][k] = started[c][k],
                 \/ route[c]["receive"] = "sync" /\ cb'[c] = Len(started[c]) + 1
                 \/ route[c]["receive"] = "async" /\ cb'[c] = cb[c]
          PROVE  LifeOf(c)'
      <3>1. recvTask'[c] \in {"reading", "callback"}
        BY <2>1
      <3>2. IF recvTask'[c] \in {"callback", "closing"} THEN cb'[c] = Len(started[c]) + 1
                                                      ELSE cb'[c] = cb[c]
        BY <2>1, <2>5
      <3>3. Orderly(handle[c], recvTask'[c], started'[c], cb'[c])
        BY <2>3, <2>5, <3>1, <3>2, NextCall
      <3> QED BY <2>1, <3>3, LifePrimed
    <2>6. /\ \A d \in Conns \ {c} : started'[d] = started[d] /\ cb'[d] = cb[d]
          /\ \/ started'[c] = started[c] /\ cb'[c] = cb[c] /\ route[c]["receive"] = "none"
             \/ /\ Len(started'[c]) = Len(started[c]) + 1
                /\ started'[c][Len(started[c]) + 1] = "receive"
                /\ \A k \in 1 .. Len(started[c]) : started'[c][k] = started[c][k]
                /\ \/ route[c]["receive"] = "sync" /\ cb'[c] = Len(started[c]) + 1
                   \/ route[c]["receive"] = "async" /\ cb'[c] = cb[c]
      BY <2>2, Invoked
    <2>7. LifeOf(c)'
      BY <2>4, <2>5, <2>6
    <2> QED BY <1>2, <2>1, <2>6, <2>7
  <1>9. ASSUME NEW c \in Conns, ReadClose(c) PROVE LifeInv'
    <2>1. /\ recvTask[c] = "reading" /\ UNCHANGED handle
          /\ recvTask'[c] = IF route[c]["disconnect"] = "sync" THEN "closing" ELSE "ended"
          /\ \A d \in Conns \ {c} : recvTask'[d] = recvTask[d]
      BY <1>9 DEF ReadClose, HTypeOK
    <2>2. Invoke(c, "disconnect") /\ "disconnect" \in Kinds
      BY <1>9 DEF ReadClose, Kinds
    <2>3. Orderly(handle[c], "reading", started[c], cb[c]) /\ Len(started[c]) \in Nat
      BY <1>0, <2>1 DEF LifeOf
    <2>4. ASSUME started'[c] = started[c] /\ cb'[c] = cb[c] /\ route[c]["disconnect"] = "none"
          PROVE  LifeOf(c)'
      <3>1. recvTask'[c] = "ended" /\ handle'[c] = handle[c]
        BY <2>1, <2>4
      <3>2. Orderly(handle[c], "ended", started[c], cb[c])
        BY <2>3 DEF Orderly
      <3> QED BY <2>4, <3>1, <3>2, LifePrimed
    <2>5. ASSUME Len(started'[c]) = Len(started[c]) + 1,
                 started'[c][Len(started[c]) + 1] = "disconnect",
                 \A k \in 1 .. Len(started[c]) : started'[c][k] = started[c][k],
                 \/ route[c]["disconnect"] = "sync" /\ cb'[c] = Len(started[c]) + 1
                 \/ route[c]["disconnect"] = "async" /\ cb'[c] = cb[c]
          PROVE  LifeOf(c)'
      <3>1. recvTask'[c] \in {"ended", "closing"}
        BY <2>1
      <3>2. IF recvTask'[c] \in {"callback", "closing"} THEN cb'[c] = Len(started[c]) + 1
                                                      ELSE cb'[c] = cb[c]
        BY <2>1, <2>5
      <3>3. Orderly(handle[c], recvTask'[c], started'[c], cb'[c])
        BY <2>3, <2>5, <3>1, <3>2, NextCall
      <3> QED BY <2>1, <3>3, LifePrimed
    <2>6. /\ \A d \in Conns \ {c} : started'[d] = started[d] /\ cb'[d] = cb[d]
          /\ \/ started'[c] = started[c] /\ cb'[c] = cb[c] /\ route[c]["disconnect"] = "none"
             \/ /\ Len(started'[c]) = Len(started[c]) + 1
                /\ started'[c][Len(started[c]) + 1] = "disconnect"
                /\ \A k \in 1 .. Len(started[c]) : started'[c][k] = started[c][k]
                /\ \/ route[c]["disconnect"] = "sync" /\ cb'[c] = Len(started[c]) + 1
                   \/ route[c]["disconnect"] = "async" /\ cb'[c] = cb[c]
      BY <2>2, Invoked
    <2>7. LifeOf(c)'
      BY <2>4, <2>5, <2>6
    <2> QED BY <1>2, <2>1, <2>6, <2>7
  <1>10. ASSUME NEW c \in Conns, ReadFails(c) \/ RecvCancelled(c) PROVE LifeInv'
    <2>1. /\ recvTask[c] = "reading" /\ UNCHANGED <<handle, cb, started>>
          /\ recvTask'[c] \in {"ended", "aborted"}
          /\ \A d \in Conns \ {c} : recvTask'[d] = recvTask[d]
      BY <1>10 DEF ReadFails, RecvCancelled, calls, HTypeOK
    <2>2. LifeOf(c)'
      BY <1>0, <2>1 DEF LifeOf, Orderly, Unserved
    <2> QED BY <1>2, <2>1, <2>2
  <1>11. ASSUME NEW c \in Conns, SyncReturns(c) PROVE LifeInv'
    <2>1. /\ cb[c] # 0 /\ UNCHANGED <<handle, started>>
          /\ cb'[c] = 0 /\ \A d \in Conns \ {c} : cb'[d] = cb[d] /\ recvTask'[d] = recvTask[d]
          /\ recvTask'[c] = IF recvTask[c] = "callback" THEN "reading"
                            ELSE IF recvTask[c] = "closing" THEN "ended" ELSE recvTask[c]
      BY <1>11 DEF SyncReturns, HTypeOK
    <2>2. LifeOf(c)'
      BY <1>0, <2>1 DEF LifeOf, Orderly, Unserved
    <2> QED BY <1>2, <2>1, <2>2
  <1>12. ASSUME NEW c \in Conns, ConnStep(c) PROVE LifeInv'
    BY <1>3, <1>4, <1>5, <1>6, <1>7, <1>8, <1>9, <1>10, <1>11, <1>12
       DEF ConnStep, HandleStep, SendTaskStep, RecvTaskStep
  <1>13. ASSUME UNCHANGED <<tasks, calls>> PROVE LifeInv'
    BY <1>1, <1>13 DEF tasks, calls
  <1>14. CASE UNCHANGED hvars
    BY <1>13, <1>14 DEF hvars, life
  <1>15. ASSUME NEW c, NEW t, PythonCalls(c, t) PROVE LifeInv'
    BY <1>13, <1>15 DEF PythonCalls
  <1>16. ASSUME NEW b, Broadcasts(b) PROVE LifeInv'
    BY <1>13, <1>16 DEF Broadcasts
  <1>17. CASE Elsewhere
    BY <1>13, <1>17 DEF Elsewhere, life
  <1> QED BY <1>12, <1>14, <1>15, <1>16, <1>17 DEF HNext

LEMMA LifeInvariant == HSpec => [](TypeOK /\ HTypeOK /\ LifeInv)
  <1>1. HInit => TypeOK
    BY TypeInit DEF HInit
  <1> QED BY <1>1, HTypeInit, LifeInit, HStepIsStep, TypeStep, HTypeStep, LifeStep, PTL DEF HSpec

(* connect("after"), if sync, has returned before a frame of the peer is    *)
(* handled, and disconnect is the last callback a connection starts.        *)
THEOREM CallbacksAreInOrder == HSpec => []CallbackOrder
  <1>1. HTypeOK /\ LifeInv => CallbackOrder
    <2> SUFFICES ASSUME HTypeOK, LifeInv, NEW c \in Conns
                 PROVE  /\ cb[c] # 0 /\ started[c][cb[c]] = "after" => Len(started[c]) = 1
                        /\ \A k \in 1 .. Len(started[c]) :
                             /\ started[c][k] = "after" => k = 1
                             /\ started[c][k] = "disconnect" => k = Len(started[c])
      BY DEF CallbackOrder
    <2>1. LifeOf(c) /\ Len(started[c]) \in Nat
      BY LenProperties DEF LifeInv, HTypeOK
    <2>2. ASSUME cb[c] # 0, started[c][cb[c]] = "after" PROVE Len(started[c]) = 1
      <3>1. recvTask[c] = "none"
        <4>1. recvTask[c] \notin {"reading", "ended", "aborted", "callback", "closing"}
          BY <2>1, <2>2 DEF LifeOf, Orderly
        <4> QED BY <4>1 DEF HTypeOK
      <3>2. Len(started[c]) # 0 /\ handle[c] \in Unserved
        <4>1. cb[c] \in 0 .. Len(started[c]) /\ handle[c] \in Unserved
          BY <2>1, <3>1 DEF LifeOf, Orderly
        <4> QED BY <2>1, <2>2, <4>1
      <3>3. handle[c] = "connectAfter"
        BY <2>1, <3>2 DEF LifeOf, Orderly, Unserved
      <3>4. Len(started[c]) <= 1
        BY <2>1, <3>3 DEF LifeOf, Orderly
      <3>5. Len(started[c]) \in Nat /\ Len(started[c]) # 0
        BY <2>1, <3>2
      <3>6. \A n \in Nat : n # 0 /\ n <= 1 => n = 1
        OBVIOUS
      <3> QED BY <3>4, <3>5, <3>6
    <2> QED BY <2>1, <2>2 DEF LifeOf, Orderly
  <1> QED BY <1>1, LifeInvariant, PTL

-----------------------------------------------------------------------------
(* A connection is served between its registration and its removal: the     *)
(* send task exists from select on, owns the receiver of the mailbox until  *)
(* it ends, and removal starts when one of the two tasks has ended.         *)
Controlled(h, st, s, r, a, open) ==
  /\ s = "none" <=> h \in Unserved
  /\ h \in {"connectAfter", "select"} => st = "serving"
  /\ s \in {"none", "idle", "writing"} <=> open = TRUE
  /\ h \in {"removing", "done"} => r = "ended" \/ ("recv" \in a /\ s = "ended")

ControlOf(c) ==
  Controlled(handle[c], stage[c], sendTask[c], recvTask[c], aborting[c], mailbox[c].open)

ControlInv == \A c \in Conns : ControlOf(c)

LEMMA ControlPrimed ==
  ASSUME NEW c \in Conns
  PROVE  ControlOf(c)' <=> Controlled(handle'[c], stage'[c], sendTask'[c], recvTask'[c],
                                      aborting'[c], mailbox'[c].open)
  BY DEF ControlOf, Controlled

LEMMA ControlInit == HInit => ControlInv
  <1> SUFFICES ASSUME HInit, NEW c \in Conns PROVE ControlOf(c)
    BY DEF ControlInv
  <1>1. handle[c] = "registering" /\ sendTask[c] = "none" /\ mailbox[c].open = TRUE
    BY DEF HInit, Init, NewMailbox
  <1> QED BY <1>1 DEF ControlOf, Controlled, Unserved

(* The operations of callbacks, of broadcasts and of spawned tasks neither  *)
(* close a mailbox nor move a handle_client task.                           *)
Aside == UNCHANGED client /\ \A d \in Conns : mailbox'[d].open = mailbox[d].open

LEMMA CallIsAside ==
  ASSUME TypeOK, NEW c \in Callers, NEW t \in Threads, Call(c, t)
  PROVE  Aside
  <1> USE StoreAssumption
  <1>1. ASSUME NEW g \in Groups, Join(c, g) \/ Leave(c, g) PROVE Aside
    BY <1>1 DEF Join, Leave, Aside, client, sending
  <1>2. ASSUME NEW f, ConnSend(c, t, f) PROVE Aside
    <2>1. CASE SendAccepted(c)
      <3>1. sent + 1 \in Msgs /\ c \in Conns
        BY <2>1 DEF SendAccepted, SendStep, TypeOK, Msgs
      <3> QED BY <2>1, <3>1, MailboxStaysOpen DEF SendAccepted, SendStep, Aside
    <2>2. CASE SendBlocked(c, t, f) \/ SendPanics(c, t, f) \/ SendIgnored(c, t, f)
      BY <2>2 DEF SendBlocked, SendPanics, SendIgnored, SendStep, Aside
    <2> QED BY <1>2, <2>1, <2>2 DEF ConnSend
  <1>3. ASSUME NEW list, NEW e, ConnBroadcast(c, list, e, t) PROVE Aside
    BY <1>3 DEF ConnBroadcast, Begin, Aside
  <1> QED BY <1>1, <1>2, <1>3 DEF Call

LEMMA BroadcastIsAside ==
  ASSUME TypeOK, NEW b \in Broadcasters, BroadcastStep(b)
  PROVE  Aside
  <1>1. ASSUME NEW i, HitMember(b, i) PROVE Aside
    <2>1. senders[i] \in Conns /\ bc[b].msg \in Msgs
      BY <1>1 DEF HitMember, Yields, Skips, TypeOK
    <2> QED BY <1>1, <2>1, MailboxStaysOpen DEF HitMember, Aside
  <1>2. ASSUME NEW i, PassMember(b, i) \/ BlockedMember(b, i) PROVE Aside
    BY <1>2 DEF PassMember, BlockedMember, Aside, sending
  <1>3. CASE OpenGroup(b) \/ CloseGroup(b) \/ Return(b) \/ SpawnPanics(b)
    BY <1>3 DEF OpenGroup, CloseGroup, Return, SpawnPanics, Aside, sending
  <1> QED BY <1>1, <1>2, <1>3 DEF BroadcastStep

LEMMA LateIsAside ==
  ASSUME TypeOK, NEW m \in Msgs, LateStep(m)
  PROVE  Aside
  BY LateMoves, MailboxStaysOpen DEF LateStep, Aside

LEMMA CancelIsAside ==
  ASSUME TypeOK, NEW m \in Msgs, CancelSend(m)
  PROVE  Aside
  BY Withdraws DEF CancelSend, Aside

LEMMA ControlStep == TypeOK /\ HTypeOK /\ LifeInv /\ ControlInv /\ [HNext]_hvars => ControlInv'
  <1> SUFFICES ASSUME TypeOK, HTypeOK, LifeInv, ControlInv, [HNext]_hvars PROVE ControlInv'
    OBVIOUS
  <1>0. \A c \in Conns : ControlOf(c)
    BY DEF ControlInv
  <1>1. ASSUME UNCHANGED <<handle, stage, sendTask, recvTask, aborting>>,
               \A d \in Conns : mailbox'[d].open = mailbox[d].open
        PROVE  ControlInv'
    BY <1>0, <1>1, ControlPrimed DEF ControlInv, ControlOf
  <1>2. ASSUME NEW c \in Conns,
               \A d \in Conns \ {c} :
                 /\ handle'[d] = handle[d] /\ stage'[d] = stage[d] /\ sendTask'[d] = sendTask[d]
                 /\ recvTask'[d] = recvTask[d] /\ aborting'[d] = aborting[d]
                 /\ mailbox'[d].open = mailbox[d].open,
               Controlled(handle'[c], stage'[c], sendTask'[c], recvTask'[c], aborting'[c],
                          mailbox'[c].open)
        PROVE  ControlInv'
    <2> SUFFICES ASSUME NEW d \in Conns PROVE ControlOf(d)'
      BY DEF ControlInv
    <2>1. CASE d # c
      BY <1>0, <1>2, <2>1, ControlPrimed DEF ControlOf
    <2> QED BY <1>2, <2>1, ControlPrimed
  <1>3. ASSUME NEW c \in Conns, UpgradeFails(c) \/ Connected(c) PROVE ControlInv'
    <2>1. /\ handle[c] = "registering" /\ UNCHANGED <<stage, sendTask, recvTask, aborting, mailbox>>
          /\ handle'[c] = "failed" \/ (handle'[c] = "connectAfter" /\ stage[c] = "serving")
          /\ \A d \in Conns \ {c} : handle'[d] = handle[d]
      BY <1>3 DEF UpgradeFails, Connected, HTypeOK, vars, client, sending
    <2> QED BY <1>0, <1>2, <2>1 DEF ControlOf, Controlled, Unserved
  <1>4. ASSUME NEW c \in Conns, SpawnTasks(c) PROVE ControlInv'
    <2>1. /\ handle[c] = "connectAfter" /\ UNCHANGED <<stage, aborting, mailbox>>
          /\ handle'[c] = "select" /\ sendTask'[c] = "idle"
          /\ \A d \in Conns \ {c} : /\ handle'[d] = handle[d] /\ sendTask'[d] = sendTask[d]
                                     /\ recvTask'[d] = recvTask[d]
      BY <1>4 DEF SpawnTasks, HTypeOK, vars, client, sending
    <2> QED BY <1>0, <1>2, <2>1 DEF ControlOf, Controlled, Unserved
  <1>5. ASSUME NEW c \in Conns, Select(c) PROVE ControlInv'
    <2>1. /\ handle[c] = "select" /\ UNCHANGED <<stage, sendTask, recvTask, mailbox>>
          /\ handle'[c] = "removing"
          /\ recvTask[c] = "ended" \/ (sendTask[c] = "ended" /\ aborting'[c] = {"recv"})
          /\ \A d \in Conns \ {c} : handle'[d] = handle[d] /\ aborting'[d] = aborting[d]
      BY <1>5 DEF Select, SendEnds, RecvEnds, HTypeOK, vars, client, sending
    <2> QED BY <1>0, <1>2, <2>1 DEF ControlOf, Controlled, Unserved
  <1>6. ASSUME NEW c \in Conns, Registers(c) PROVE ControlInv'
    <2>1. /\ handle[c] = "registering"
          /\ UNCHANGED <<handle, sendTask, recvTask, aborting, mailbox>>
          /\ \A d \in Conns \ {c} : stage'[d] = stage[d]
      BY <1>6 DEF Registers, Register, RegisterFetch, RegisterInsert, JoinDefault, life, tasks,
                  sending, TypeOK
    <2> QED BY <1>0, <1>2, <2>1 DEF ControlOf, Controlled, Unserved
  <1>7. ASSUME NEW c \in Conns, Removes(c) PROVE ControlInv'
    <2>1. /\ handle[c] = "removing" /\ handle'[c] \in {"removing", "done"}
          /\ UNCHANGED <<sendTask, recvTask, aborting, mailbox>>
          /\ \A d \in Conns \ {c} : stage'[d] = stage[d] /\ handle'[d] = handle[d]
      BY <1>7 DEF Removes, Remove, RemoveSender, SweepGroup, RemoveReturns, sending, TypeOK, HTypeOK
    <2> QED BY <1>0, <1>2, <2>1 DEF ControlOf, Controlled, Unserved
  <1>8. ASSUME NEW c \in Conns, SendTakes(c) PROVE ControlInv'
    <2>1. \A d \in Conns : mailbox'[d].open = mailbox[d].open
      <3>1. mailbox' = [mailbox EXCEPT ![c] = Recv(@)] /\ Head(mailbox[c].queue) \in Msgs
        BY <1>8, Popped DEF SendTakes, Take, TypeOK, Mailbox
      <3> QED BY <3>1, MailboxStaysOpen
    <2>2. /\ sendTask[c] = "idle" /\ UNCHANGED <<handle, stage, recvTask, aborting>>
          /\ sendTask'[c] = "writing" /\ \A d \in Conns \ {c} : sendTask'[d] = sendTask[d]
      BY <1>8 DEF SendTakes, Take, client, HTypeOK
    <2> QED BY <1>0, <1>2, <2>1, <2>2 DEF ControlOf, Controlled
  <1>9. ASSUME NEW c \in Conns, WriteFrame(c) PROVE ControlInv'
    <2>1. /\ sendTask[c] = "writing" /\ UNCHANGED <<handle, stage, recvTask, aborting, mailbox>>
          /\ sendTask'[c] = "idle" /\ \A d \in Conns \ {c} : sendTask'[d] = sendTask[d]
      BY <1>9 DEF WriteFrame, vars, client, sending, HTypeOK
    <2> QED BY <1>0, <1>2, <2>1 DEF ControlOf, Controlled
  <1>10. ASSUME NEW c \in Conns, WriteClose(c) \/ WriteFails(c) \/ SendCancelled(c)
         PROVE  ControlInv'
    <2>1. /\ sendTask[c] \in {"idle", "writing"} /\ UNCHANGED <<handle, stage, recvTask, aborting>>
          /\ sendTask'[c] \in {"ended", "aborted"}
          /\ \A d \in Conns \ {c} : sendTask'[d] = sendTask[d]
          /\ DropRx(c)
      BY <1>10 DEF WriteClose, WriteFails, SendCancelled, DropRx, client, HTypeOK
    <2>2. /\ mailbox'[c].open = FALSE
          /\ \A d \in Conns \ {c} : mailbox'[d].open = mailbox[d].open
      BY <2>1 DEF DropRx, DropReceiver, TypeOK
    <2> QED BY <1>0, <1>2, <2>1, <2>2 DEF ControlOf, Controlled
  <1>11. ASSUME NEW c \in Conns, RecvTaskStep(c) \/ SyncReturns(c) PROVE ControlInv'
    <2>1. /\ UNCHANGED <<handle, stage, sendTask, aborting, mailbox>>
          /\ recvTask[c] = "ended" => recvTask'[c] = "ended"
          /\ \A d \in Conns \ {c} : recvTask'[d] = recvTask[d]
      BY <1>11 DEF RecvTaskStep, ReadData, ReadClose, ReadFails, RecvCancelled, SyncReturns,
                   HTypeOK, vars, client, sending
    <2> QED BY <1>0, <1>2, <2>1 DEF ControlOf, Controlled
  <1>12. ASSUME NEW c \in Conns,
                \/ CoroutineReturns(c) \/ PeerLeaves(c)
                \/ \E frame \in {"data", "close", "bad"} : PeerSends(c, frame)
         PROVE  ControlInv'
    BY <1>1, <1>12 DEF CoroutineReturns, PeerLeaves, PeerSends, tasks, vars, client, sending
  <1>13. ASSUME NEW c \in Conns, ConnStep(c) PROVE ControlInv'
    BY <1>3, <1>4, <1>5, <1>6, <1>7, <1>8, <1>9, <1>10, <1>11, <1>12, <1>13
       DEF ConnStep, HandleStep, SendTaskStep
  <1>14. ASSUME Aside, UNCHANGED tasks PROVE ControlInv'
    BY <1>1, <1>14 DEF Aside, tasks, client
  <1>15. ASSUME NEW c \in Callers, NEW t \in Threads, PythonCalls(c, t) PROVE ControlInv'
    <2>1. Call(c, t)
      BY <1>15 DEF PythonCalls, Call
    <2> QED BY <1>14, <1>15, <2>1, CallIsAside DEF PythonCalls
  <1>16. ASSUME NEW b \in Broadcasters, Broadcasts(b) PROVE ControlInv'
    BY <1>14, <1>16, BroadcastIsAside DEF Broadcasts
  <1>17. CASE Elsewhere
    <2>1. ASSUME NEW b \in Broadcasters, NEW list \in GroupLists, Dispatch(b, list) PROVE Aside
      BY <2>1 DEF Dispatch, Begin, Aside
    <2> QED BY <1>14, <1>17, <2>1, LateIsAside, CancelIsAside DEF Elsewhere, life
  <1>18. CASE UNCHANGED hvars
    BY <1>1, <1>18 DEF hvars, vars, client, sending, life, tasks
  <1> QED BY <1>13, <1>15, <1>16, <1>17, <1>18 DEF HNext

LEMMA ControlInvariant == HSpec => [](TableInv /\ HTypeOK /\ LifeInv /\ ControlInv)
  <1>1. TableInv /\ MsgInv => TypeOK
    BY DEF TableInv
  <1> QED BY <1>1, TableStaysCorrect, LifeInvariant, ControlInit, ControlStep, PTL DEF HSpec

(* While both tasks of a connection run, its id leads every broadcast to    *)
(* its mailbox, and a mailbox is open exactly until its send task ends.     *)
THEOREM ServedConnectionsAreReachable == HSpec => []ServedIsReachable
  <1>1. TableInv /\ HTypeOK /\ LifeInv /\ ControlInv => ServedIsReachable
    <2> SUFFICES ASSUME TableInv, HTypeOK, LifeInv, ControlInv, NEW c \in Conns
                 PROVE  /\ /\ sendTask[c] \in {"idle", "writing"}
                           /\ recvTask[c] \in {"reading", "callback", "closing"}
                           => connId[c] \in DOMAIN senders /\ senders[connId[c]] = c
                        /\ sendTask[c] \in {"none", "idle", "writing"} <=> mailbox[c].open
      BY DEF ServedIsReachable
    <2>1. ControlOf(c) /\ mailbox[c].open \in BOOLEAN
      BY DEF ControlInv, TableInv, TypeOK, Mailbox
    <2>2. ASSUME sendTask[c] \in {"idle", "writing"},
                 recvTask[c] \in {"reading", "callback", "closing"}
          PROVE  Listed(c)
      <3>1. handle[c] \notin Unserved /\ handle[c] \notin {"removing", "done"}
        BY <2>1, <2>2 DEF ControlOf, Controlled
      <3>2. handle[c] = "select"
        BY <3>1 DEF Unserved, HTypeOK
      <3> QED BY <2>1, <3>2 DEF ControlOf, Controlled, Listed
    <2>3. sendTask[c] \in {"none", "idle", "writing"} <=> mailbox[c].open
      BY <2>1 DEF ControlOf, Controlled
    <2> QED BY <2>2, <2>3 DEF TableInv, IdInv, OwnEntry
  <1> QED BY <1>1, ControlInvariant, PTL

-----------------------------------------------------------------------------
(* A receive task that ended without disconnect had it not defined, or      *)
(* failed to read: a read error is final.                                   *)
Disconnects(c) == \E k \in 1 .. Len(started[c]) : started[c][k] = "disconnect"
ReadFailed(c)  == peer[c] = "left" \/ \E k \in 1 .. Len(inbox[c]) : inbox[c][k] = "bad"

EndOf(c) ==
  /\ recvTask[c] = "closing" => Disconnects(c)
  /\ recvTask[c] = "ended" => \/ route[c]["disconnect"] = "none"
                              \/ Disconnects(c) \/ ReadFailed(c)

EndInv == \A c \in Conns : EndOf(c)

LEMMA EndInit == HInit => EndInv
  BY DEF HInit, EndInv, EndOf

LEMMA EndStep == HTypeOK /\ LifeInv /\ EndInv /\ [HNext]_hvars => EndInv'
  <1> SUFFICES ASSUME HTypeOK, LifeInv, EndInv, [HNext]_hvars PROVE EndInv'
    OBVIOUS
  <1>0. \A c \in Conns : EndOf(c)
    BY DEF EndInv
  <1>1. ASSUME UNCHANGED <<route, recvTask, started, peer, inbox>> PROVE EndInv'
    BY <1>0, <1>1 DEF EndInv, EndOf, Disconnects, ReadFailed
  <1>2. ASSUME NEW c \in Conns, UNCHANGED route,
               \A d \in Conns \ {c} : /\ recvTask'[d] = recvTask[d] /\ started'[d] = started[d]
                                      /\ peer'[d] = peer[d] /\ inbox'[d] = inbox[d],
               recvTask'[c] \in {"closing", "ended"} => EndOf(c)'
        PROVE  EndInv'
    <2> SUFFICES ASSUME NEW d \in Conns PROVE EndOf(d)'
      BY DEF EndInv
    <2>1. CASE d # c
      BY <1>0, <1>2, <2>1 DEF EndOf, Disconnects, ReadFailed
    <2>2. CASE d = c
      BY <1>2, <2>2 DEF EndOf
    <2> QED BY <2>1, <2>2
  <1>3. ASSUME NEW c \in Conns, Connected(c) PROVE EndInv'
    <2>1. /\ handle[c] = "registering" /\ UNCHANGED <<route, recvTask, peer, inbox>>
          /\ Invoke(c, "after") /\ "after" \in Kinds
      BY <1>3 DEF Connected, net, Kinds
    <2>2. \A d \in Conns \ {c} : started'[d] = started[d]
      BY <2>1, Invoked
    <2>3. recvTask[c] = "none"
      BY <2>1 DEF LifeInv, LifeOf, Orderly, Unserved
    <2> QED BY <1>2, <2>1, <2>2, <2>3
  <1>4. ASSUME NEW c \in Conns, SpawnTasks(c) PROVE EndInv'
    <2>1. /\ UNCHANGED <<route, started, peer, inbox>> /\ recvTask'[c] = "reading"
          /\ \A d \in Conns \ {c} : recvTask'[d] = recvTask[d]
      BY <1>4 DEF SpawnTasks, calls, net, HTypeOK
    <2> QED BY <1>2, <2>1
  <1>5. ASSUME NEW c \in Conns, ReadData(c) PROVE EndInv'
    <2>1. /\ UNCHANGED <<route, peer>> /\ recvTask'[c] \in {"callback", "reading"}
          /\ \A d \in Conns \ {c} : recvTask'[d] = recvTask[d] /\ inbox'[d] = inbox[d]
          /\ Invoke(c, "receive") /\ "receive" \in Kinds
      BY <1>5 DEF ReadData, HTypeOK, Kinds
    <2>2. \A d \in Conns \ {c} : started'[d] = started[d]
      BY <2>1, Invoked
    <2> QED BY <1>2, <2>1, <2>2
  <1>6. ASSUME NEW c \in Conns, ReadClose(c) PROVE EndInv'
    <2>1. /\ UNCHANGED <<route, peer>>
          /\ recvTask'[c] = IF route[c]["disconnect"] = "sync" THEN "closing" ELSE "ended"
          /\ \A d \in Conns \ {c} : recvTask'[d] = recvTask[d] /\ inbox'[d] = inbox[d]
          /\ Invoke(c, "disconnect") /\ "disconnect" \in Kinds
      BY <1>6 DEF ReadClose, HTypeOK, Kinds
    <2>2. /\ \A d \in Conns \ {c} : started'[d] = started[d]
          /\ Len(started[c]) \in Nat
          /\ \/ route[c]["disconnect"] = "none"
             \/ /\ Len(started'[c]) = Len(started[c]) + 1
                /\ started'[c][Len(started[c]) + 1] = "disconnect"
      BY <2>1, Invoked
    <2>3. route[c]["disconnect"] = "none" \/ Disconnects(c)'
      BY <2>2 DEF Disconnects
    <2>4. EndOf(c)'
      BY <2>1, <2>3 DEF EndOf
    <2> QED BY <1>2, <2>1, <2>2, <2>4
  <1>7. ASSUME NEW c \in Conns, ReadFails(c) PROVE EndInv'
    <2>1. /\ UNCHANGED <<route, started, peer, inbox>> /\ recvTask'[c] = "ended"
          /\ \A d \in Conns \ {c} : recvTask'[d] = recvTask[d]
          /\ peer[c] = "left" \/ (inbox[c] # << >> /\ Head(inbox[c]) = "bad")
      BY <1>7 DEF ReadFails, calls, net, HTypeOK
    <2>2. ASSUME inbox[c] # << >> PROVE Len(inbox[c]) \in Nat \ {0} /\ Head(inbox[c]) = inbox[c][1]
      BY <2>2, Popped DEF HTypeOK
    <2>3. ReadFailed(c)
      BY <2>1, <2>2 DEF ReadFailed
    <2>4. EndOf(c)'
      BY <2>1, <2>3 DEF EndOf, ReadFailed
    <2> QED BY <1>2, <2>1, <2>4
  <1>8. ASSUME NEW c \in Conns, RecvCancelled(c) PROVE EndInv'
    <2>1. /\ UNCHANGED <<route, started, peer, inbox>> /\ recvTask'[c] = "aborted"
          /\ \A d \in Conns \ {c} : recvTask'[d] = recvTask[d]
      BY <1>8 DEF RecvCancelled, calls, net, HTypeOK
    <2> QED BY <1>2, <2>1
  <1>9. ASSUME NEW c \in Conns, SyncReturns(c) PROVE EndInv'
    <2>1. /\ UNCHANGED <<route, started, peer, inbox>>
          /\ \A d \in Conns \ {c} : recvTask'[d] = recvTask[d]
          /\ recvTask'[c] \in {"closing", "ended"} => recvTask[c] \in {"closing", "ended"}
          /\ recvTask[c] = "ended" => recvTask'[c] = "ended"
      BY <1>9 DEF SyncReturns, net, HTypeOK
    <2>2. recvTask'[c] \in {"closing", "ended"} => EndOf(c)'
      BY <1>0, <2>1 DEF EndOf, Disconnects, ReadFailed
    <2> QED BY <1>2, <2>1, <2>2
  <1>10. ASSUME NEW c \in Conns, NEW frame \in {"data", "close", "bad"}, PeerSends(c, frame)
         PROVE  EndInv'
    <2>1. /\ UNCHANGED <<route, recvTask, started, peer>>
          /\ inbox'[c] = Append(inbox[c], frame)
          /\ \A d \in Conns \ {c} : inbox'[d] = inbox[d]
      BY <1>10 DEF PeerSends, tasks, calls, HTypeOK
    <2>2. /\ Len(inbox[c]) \in Nat /\ Len(inbox'[c]) = Len(inbox[c]) + 1
          /\ \A k \in 1 .. Len(inbox[c]) : inbox'[c][k] = inbox[c][k]
      BY <2>1, Appended DEF HTypeOK
    <2>3. ReadFailed(c) => ReadFailed(c)'
      BY <2>1, <2>2 DEF ReadFailed
    <2>4. EndOf(c)'
      BY <1>0, <2>1, <2>3 DEF EndOf, Disconnects
    <2> QED BY <1>2, <2>1, <2>4
  <1>11. ASSUME NEW c \in Conns, PeerLeaves(c) PROVE EndInv'
    <2>1. /\ UNCHANGED <<route, recvTask, started>> /\ peer'[c] = "left"
          /\ \A d \in Conns \ {c} : peer'[d] = peer[d] /\ inbox'[d] = inbox[d]
      BY <1>11 DEF PeerLeaves, tasks, calls, HTypeOK
    <2>2. EndOf(c)'
      BY <1>0, <2>1 DEF EndOf, Disconnects, ReadFailed
    <2> QED BY <1>2, <2>1, <2>2
  <1>12. ASSUME NEW c \in Conns,
                \/ UpgradeFails(c) \/ Registers(c) \/ Select(c) \/ Removes(c)
                \/ SendTaskStep(c) \/ CoroutineReturns(c)
         PROVE  EndInv'
    BY <1>1, <1>12 DEF UpgradeFails, Registers, Select, Removes, SendTaskStep, SendTakes,
         WriteFrame, WriteClose, WriteFails, SendCancelled, CoroutineReturns, life, tasks, calls, net
  <1>13. ASSUME NEW c \in Conns, ConnStep(c) PROVE EndInv'
    BY <1>3, <1>4, <1>5, <1>6, <1>7, <1>8, <1>9, <1>10, <1>11, <1>12, <1>13
       DEF ConnStep, HandleStep, RecvTaskStep
  <1>14. ASSUME UNCHANGED <<route, tasks, calls, net>> PROVE EndInv'
    BY <1>1, <1>14 DEF tasks, calls, net
  <1>15. ASSUME NEW c, NEW t, PythonCalls(c, t) PROVE EndInv'
    BY <1>14, <1>15 DEF PythonCalls
  <1>16. ASSUME NEW b, Broadcasts(b) PROVE EndInv'
    BY <1>14, <1>16 DEF Broadcasts
  <1>17. CASE Elsewhere \/ UNCHANGED hvars
    BY <1>14, <1>17 DEF Elsewhere, hvars, life
  <1> QED BY <1>13, <1>15, <1>16, <1>17 DEF HNext

(* The disconnect callback of a connection that is done is missing only     *)
(* because its receive task failed to read, or was aborted after the send   *)
(* task had ended.                                                          *)
THEOREM DisconnectIsSkippedForCause == HSpec => []DisconnectSkipped
  <1>1. HTypeOK /\ ControlInv /\ EndInv => DisconnectSkipped
    <2> SUFFICES ASSUME HTypeOK, ControlInv, EndInv, NEW c \in Conns,
                        handle[c] = "done", route[c]["disconnect"] # "none",
                        \A k \in DOMAIN started[c] : started[c][k] # "disconnect",
                        ~ ("recv" \in aborting[c] /\ sendTask[c] = "ended")
                 PROVE  /\ recvTask[c] = "ended"
                        /\ peer[c] = "left" \/ \E k \in DOMAIN inbox[c] : inbox[c][k] = "bad"
      BY DEF DisconnectSkipped
    <2>1. recvTask[c] = "ended"
      BY DEF ControlInv, ControlOf, Controlled
    <2>2. DOMAIN started[c] = 1 .. Len(started[c]) /\ DOMAIN inbox[c] = 1 .. Len(inbox[c])
      BY LenProperties DEF HTypeOK
    <2>3. ReadFailed(c)
      BY <2>1, <2>2 DEF EndInv, EndOf, Disconnects
    <2> QED BY <2>1, <2>2, <2>3 DEF ReadFailed
  <1> QED BY <1>1, ControlInvariant, EndInit, EndStep, PTL DEF HSpec

-----------------------------------------------------------------------------
(* No queued or owed message is in the future: a close a callback sends now *)
(* is none of those that are on their way.                                  *)
UpTo(s, n) == \A k \in 1 .. Len(s) : s[k] <= n

NumberInv ==
  /\ \A c \in Conns : UpTo(mailbox[c].queue, sent)
  /\ \A m \in Msgs : late[m] # << >> => m <= sent

LEMMA UpToKept ==
  ASSUME NEW S, S \subseteq Nat, NEW s \in Seq(S), NEW n \in Nat, NEW p \in Nat,
         UpTo(s, n), n <= p, NEW q,
         \/ q = s \/ q = << >>
         \/ \E m \in S : m <= p /\ q = Append(s, m)
         \/ s # << >> /\ q = Tail(s)
  PROVE  UpTo(q, p)
  <1>1. Len(s) \in Nat /\ \A i \in 1 .. Len(s) : s[i] \in Nat /\ s[i] <= p
    <2>1. Len(s) \in Nat /\ \A i \in 1 .. Len(s) : s[i] \in S
      BY LenProperties, ElementOfSeq
    <2>2. \A i \in 1 .. Len(s) : s[i] <= n
      BY DEF UpTo
    <2>3. \A x \in Nat : x <= n => x <= p
      OBVIOUS
    <2> QED BY <2>1, <2>2, <2>3
  <1>2. ASSUME NEW m \in S, m <= p, q = Append(s, m) PROVE UpTo(q, p)
    <2>1. /\ Len(q) = Len(s) + 1 /\ q[Len(s) + 1] = m
          /\ \A i \in 1 .. Len(s) : q[i] = s[i]
      BY <1>2, Appended
    <2> QED BY <1>1, <1>2, <2>1 DEF UpTo
  <1>3. ASSUME s # << >>, q = Tail(s) PROVE UpTo(q, p)
    <2>1. Len(q) = Len(s) - 1 /\ \A i \in 1 .. Len(s) - 1 : q[i] = s[i + 1]
      BY <1>3, Popped
    <2> QED BY <1>1, <2>1 DEF UpTo
  <1>4. CASE q = s \/ q = << >>
    BY <1>1, <1>4 DEF UpTo
  <1> QED BY <1>2, <1>3, <1>4

LEMMA NumberStep == TypeOK /\ MsgInv /\ NumberInv /\ [Next]_vars
                      => NumberInv' /\ sent' \in Nat /\ sent <= sent'
  <1> SUFFICES ASSUME TypeOK, MsgInv, NumberInv, [Next]_vars
               PROVE  NumberInv' /\ sent' \in Nat /\ sent <= sent'
    OBVIOUS
  <1> USE StoreAssumption
  <1> DEFINE Goal == NumberInv' /\ sent' \in Nat /\ sent <= sent'
             LateKept == \A m \in Msgs : late'[m] # << >> => late[m] # << >> \/ m <= sent'
  <1>0. /\ sent \in Nat /\ Msgs \subseteq Nat
        /\ \A c \in Conns : mailbox[c].queue \in Seq(Msgs)
    BY DEF TypeOK, Mailbox, Msgs
  <1>1. ASSUME NEW c \in Conns, sent' = sent \/ sent' = sent + 1, LateKept,
               \A d \in Conns \ {c} : mailbox'[d].queue = mailbox[d].queue,
               \/ mailbox'[c].queue = mailbox[c].queue
               \/ mailbox'[c].queue = << >>
               \/ \E m \in Msgs : /\ m <= sent'
                                  /\ mailbox'[c].queue = Append(mailbox[c].queue, m)
               \/ /\ mailbox[c].queue # << >>
                  /\ mailbox'[c].queue = Tail(mailbox[c].queue)
        PROVE  Goal
    <2>1. sent' \in Nat /\ sent <= sent'
      BY <1>0, <1>1
    <2>2. ASSUME NEW d \in Conns PROVE UpTo(mailbox'[d].queue, sent')
      <3>1. UpTo(mailbox[d].queue, sent) /\ mailbox[d].queue \in Seq(Msgs)
        BY <1>0 DEF NumberInv
      <3>2. CASE d = c
        <4> DEFINE s == mailbox[c].queue
                   q == mailbox'[c].queue
        <4>1. s \in Seq(Msgs) /\ UpTo(s, sent)
          BY <3>1, <3>2
        <4>2. \/ q = s \/ q = << >>
              \/ \E m \in Msgs : m <= sent' /\ q = Append(s, m)
              \/ s # << >> /\ q = Tail(s)
          BY <1>1
        <4> HIDE DEF s, q
        <4>3. UpTo(q, sent')
          BY <1>0, <2>1, <4>1, <4>2, UpToKept
        <4> QED BY <3>2, <4>3 DEF q
      <3>3. CASE d # c
        BY <1>0, <1>1, <2>1, <3>1, <3>3, UpToKept
      <3> QED BY <3>2, <3>3
    <2>3. \A m \in Msgs : late'[m] # << >> => m <= sent'
      <3> SUFFICES ASSUME NEW m \in Msgs, late'[m] # << >> PROVE m <= sent'
        OBVIOUS
      <3>1. m \in Nat /\ (late[m] # << >> \/ m <= sent')
        BY <1>0, <1>1
      <3>2. late[m] # << >> => m <= sent
        BY DEF NumberInv
      <3> QED BY <1>0, <2>1, <3>1, <3>2
    <2> QED BY <2>1, <2>2, <2>3 DEF NumberInv, UpTo
  <1>2. ASSUME UNCHANGED mailbox, sent' = sent \/ sent' = sent + 1, LateKept PROVE Goal
    <2>1. CASE \E c \in Conns : TRUE
      BY <1>1, <1>2, <2>1
    <2>2. CASE \A c \in Conns : FALSE
      BY <1>0, <1>2, <2>2 DEF NumberInv
    <2> QED BY <2>1, <2>2
  <1>3. ASSUME NEW c \in Conns, Register(c) \/ Remove(c) PROVE Goal
    BY <1>2, <1>3 DEF Register, RegisterFetch, RegisterInsert, JoinDefault, Remove, RemoveSender,
                      SweepGroup, RemoveReturns, sending
  <1>4. ASSUME NEW c \in Conns, Take(c) PROVE Goal
    <2>1. /\ mailbox[c].queue # << >> /\ mailbox' = [mailbox EXCEPT ![c] = Recv(@)]
          /\ UNCHANGED <<late, sent>>
      BY <1>4 DEF Take
    <2>2. Recv(mailbox[c]).queue = Tail(mailbox[c].queue)
      BY DEF Recv, ReleaseSlot, TypeOK, Mailbox
    <2>3. /\ mailbox'[c].queue = Tail(mailbox[c].queue)
          /\ \A d \in Conns \ {c} : mailbox'[d].queue = mailbox[d].queue
      BY <2>1, <2>2 DEF TypeOK
    <2>4. LateKept
      BY <2>1
    <2> QED BY <1>1, <2>1, <2>3, <2>4
  <1>5. ASSUME NEW c \in Conns, DropRx(c) PROVE Goal
    <2>1. /\ mailbox'[c].queue = << >> /\ UNCHANGED <<late, sent>>
          /\ \A d \in Conns \ {c} : mailbox'[d].queue = mailbox[d].queue
      BY <1>5 DEF DropRx, DropReceiver, TypeOK
    <2>2. LateKept
      BY <2>1
    <2> QED BY <1>1, <2>1, <2>2
  <1>6. ASSUME NEW c \in Conns, NEW m \in Msgs, m <= sent', LateKept,
               sent' = sent \/ sent' = sent + 1,
               \/ mailbox' = [mailbox EXCEPT ![c] = Push(@, m)]
               \/ mailbox' = [mailbox EXCEPT ![c] = Wait(@, m)]
               \/ mailbox' = [mailbox EXCEPT ![c] = Redeem(@, m, m)]
               \/ mailbox' = mailbox
        PROVE  Goal
    <2>1. /\ Push(mailbox[c], m).queue = Append(mailbox[c].queue, m)
          /\ Wait(mailbox[c], m).queue = mailbox[c].queue
          /\ Redeem(mailbox[c], m, m).queue = Append(mailbox[c].queue, m)
      BY DEF Push, Wait, Redeem, TypeOK, Mailbox
    <2>2. /\ \/ mailbox'[c].queue = mailbox[c].queue
             \/ mailbox'[c].queue = Append(mailbox[c].queue, m)
          /\ \A d \in Conns \ {c} : mailbox'[d].queue = mailbox[d].queue
      BY <1>6, <2>1 DEF TypeOK
    <2> QED BY <1>1, <1>6, <2>2
  <1>7. ASSUME NEW c \in Conns, NEW t, NEW f, ConnSend(c, t, f) PROVE Goal
    <2>1. sent' = sent + 1 /\ sent + 1 \in Msgs
      BY <1>7, <1>0 DEF ConnSend, SendAccepted, SendBlocked, SendPanics, SendIgnored, SendStep,
                        Msgs
    <2>2. CASE SendAccepted(c)
      <3>1. mailbox' = [mailbox EXCEPT ![c] = Push(@, sent + 1)] /\ UNCHANGED late
        BY <2>2 DEF SendAccepted
      <3>2. LateKept /\ sent + 1 <= sent'
        BY <1>0, <2>1, <3>1
      <3> QED BY <1>6, <2>1, <3>1, <3>2
    <2>3. CASE SendBlocked(c, t, f)
      <3>1. UNCHANGED mailbox /\ late' = [late EXCEPT ![sent + 1] = <<c>>]
        BY <2>3 DEF SendBlocked
      <3>2. LateKept
        BY <1>0, <2>1, <3>1 DEF TypeOK
      <3> QED BY <1>2, <2>1, <3>1, <3>2
    <2>4. CASE SendPanics(c, t, f) \/ SendIgnored(c, t, f)
      BY <1>2, <2>1, <2>4 DEF SendPanics, SendIgnored
    <2> QED BY <1>7, <2>2, <2>3, <2>4 DEF ConnSend
  <1>8. ASSUME NEW b, NEW list, NEW e, NEW t, Begin(b, list, e, t) PROVE Goal
    BY <1>2, <1>8 DEF Begin
  <1>9. ASSUME NEW c \in Callers, NEW t, Call(c, t) PROVE Goal
    <2>1. ASSUME NEW g, Join(c, g) \/ Leave(c, g) PROVE Goal
      BY <1>2, <2>1 DEF Join, Leave, sending
    <2> QED BY <1>7, <1>8, <1>9, <2>1 DEF Call, ConnBroadcast
  <1>10. ASSUME NEW b \in Broadcasters, bc[b].pc # "idle" PROVE bc[b].msg \in Msgs /\ bc[b].msg <= sent
    BY <1>10 DEF TypeOK, MsgInv
  <1>11. ASSUME NEW b \in Broadcasters, BroadcastStep(b) PROVE Goal
    <2>1. ASSUME NEW i, HitMember(b, i) PROVE Goal
      <3>1. /\ bc[b].pc # "idle" /\ senders[i] \in Conns /\ UNCHANGED <<sent, late>>
            /\ mailbox' = [mailbox EXCEPT ![senders[i]] = Push(@, bc[b].msg)]
        BY <2>1 DEF HitMember, Yields, Skips, TypeOK
      <3> QED BY <1>6, <1>10, <3>1
    <2>2. ASSUME NEW i, PassMember(b, i) \/ BlockedMember(b, i) PROVE Goal
      BY <1>2, <2>2 DEF PassMember, BlockedMember, sending
    <2>3. CASE OpenGroup(b) \/ CloseGroup(b) \/ SpawnPanics(b)
      BY <1>2, <2>3 DEF OpenGroup, CloseGroup, SpawnPanics, sending
    <2>4. CASE Return(b)
      <3>1. /\ bc[b].pc # "idle" /\ UNCHANGED <<mailbox, sent>>
            /\ late' = [late EXCEPT ![bc[b].msg] = bc[b].blocked]
        BY <2>4 DEF Return, LoopDone
      <3>2. LateKept
        BY <1>10, <3>1 DEF TypeOK
      <3> QED BY <1>2, <3>1, <3>2
    <2> QED BY <1>11, <2>1, <2>2, <2>3, <2>4 DEF BroadcastStep
  <1>12. ASSUME NEW m \in Msgs, LateStep(m) PROVE Goal
    <2>1. m <= sent' /\ sent' = sent /\ LateKept
      BY <1>12 DEF LateStep, LatePolled, LateRedeemed, NumberInv, TypeOK
    <2> QED BY <1>6, <1>12, <2>1, LateMoves
  <1>14. ASSUME NEW m \in Msgs, CancelSend(m) PROVE Goal
    <2>1. late[m] # << >> /\ late' = [late EXCEPT ![m] = << >>] /\ UNCHANGED sent
      BY <1>14 DEF CancelSend
    <2>2. \A d \in Conns : mailbox'[d].queue = mailbox[d].queue
      BY <1>14, Withdraws
    <2>3. LateKept
      BY <2>1
    <2>4. late[m] \in Seq(Conns)
      BY DEF TypeOK
    <2>5. PICK c \in Conns : c = Head(late[m])
      BY <2>1, <2>4, Popped
    <2> QED BY <1>1, <2>1, <2>2, <2>3, <2>5
  <1>13. CASE UNCHANGED vars
    BY <1>2, <1>13 DEF vars, sending
  <1> QED BY <1>3, <1>4, <1>5, <1>8, <1>9, <1>11, <1>12, <1>13, <1>14 DEF Next, Dispatch

(* A close frame is the last of its socket, and its send task has ended.    *)
ClosedOf(c) ==
  /\ inHand[c] <= sent
  /\ UpTo(wire[c], sent)
  /\ \A k \in 1 .. Len(wire[c]) :
       wire[c][k] \in closes => k = Len(wire[c]) /\ sendTask[c] = "ended"

ClosedInv == \A c \in Conns : ClosedOf(c)

LEMMA ClosedInit == HInit => NumberInv /\ ClosedInv
  BY DEF HInit, Init, NewMailbox, NumberInv, UpTo, ClosedInv, ClosedOf

LEMMA ClosedStep ==
  TypeOK /\ HTypeOK /\ MsgInv /\ NumberInv /\ LifeInv /\ ControlInv /\ ClosedInv /\ [HNext]_hvars
    => ClosedInv'
  <1> SUFFICES ASSUME TypeOK, HTypeOK, MsgInv, NumberInv, LifeInv, ControlInv, ClosedInv,
                      [HNext]_hvars
               PROVE  ClosedInv'
    OBVIOUS
  <1>0. /\ sent \in Nat /\ sent' \in Nat /\ sent <= sent'
        /\ \A c \in Conns : /\ ClosedOf(c) /\ wire[c] \in Seq(Nat) /\ inHand[c] \in Nat
                            /\ Len(wire[c]) \in Nat
                            /\ \A k \in 1 .. Len(wire[c]) : wire[c][k] \in Nat
    <2>1. sent \in Nat /\ sent' \in Nat /\ sent <= sent'
      <3>1. sent' \in Nat /\ sent <= sent'
        BY NumberStep, HStepIsStep
      <3> QED BY <3>1 DEF TypeOK
    <2>2. ASSUME NEW c \in Conns PROVE wire[c] \in Seq(Nat) /\ inHand[c] \in Nat /\ ClosedOf(c)
      BY DEF HTypeOK, ClosedInv
    <2>3. \A c \in Conns : /\ Len(wire[c]) \in Nat
                          /\ \A k \in 1 .. Len(wire[c]) : wire[c][k] \in Nat
      BY <2>2, LenProperties, ElementOfSeq
    <2> QED BY <2>1, <2>2, <2>3
  <1>1. ASSUME NEW d \in Conns,
               wire'[d] = wire[d], inHand'[d] = inHand[d],
               closes' = closes \/ closes' = closes \cup {sent + 1},
               sendTask'[d] = sendTask[d] \/ sendTask[d] # "ended"
        PROVE  ClosedOf(d)'
    <2>1. ClosedOf(d)
      BY <1>0
    <2>2. inHand'[d] <= sent'
      BY <1>0, <1>1, <2>1 DEF ClosedOf
    <2>3. UpTo(wire'[d], sent')
      BY <1>0, <1>1, <2>1 DEF ClosedOf, UpTo
    <2>4. ASSUME NEW k \in 1 .. Len(wire'[d]), wire'[d][k] \in closes'
          PROVE  k = Len(wire'[d]) /\ sendTask'[d] = "ended"
      <3>1. wire[d][k] \in Nat /\ wire[d][k] <= sent
        BY <1>0, <1>1, <2>1, <2>4 DEF ClosedOf, UpTo
      <3>2. wire[d][k] \in closes
        BY <1>0, <1>1, <2>4, <3>1
      <3> QED BY <1>1, <2>1, <2>4, <3>2 DEF ClosedOf
    <2> QED BY <2>2, <2>3, <2>4 DEF ClosedOf, UpTo
  <1>2. ASSUME UNCHANGED <<wire, inHand, sendTask>>,
               closes' = closes \/ closes' = closes \cup {sent + 1}
        PROVE  ClosedInv'
    BY <1>1, <1>2 DEF ClosedInv
  <1>3. ASSUME NEW c \in Conns, SpawnTasks(c) PROVE ClosedInv'
    <2>1. /\ handle[c] = "connectAfter" /\ UNCHANGED <<wire, inHand, closes>>
          /\ \A d \in Conns \ {c} : sendTask'[d] = sendTask[d]
      BY <1>3 DEF SpawnTasks, net, HTypeOK
    <2>2. sendTask[c] = "none"
      BY <2>1 DEF ControlInv, ControlOf, Controlled, Unserved
    <2> QED BY <1>1, <2>1, <2>2 DEF ClosedInv
  <1>4. ASSUME NEW c \in Conns, WriteFails(c) \/ SendCancelled(c) PROVE ClosedInv'
    <2>1. /\ sendTask[c] \in {"idle", "writing"} /\ UNCHANGED <<wire, inHand, closes>>
          /\ \A d \in Conns \ {c} : sendTask'[d] = sendTask[d]
      BY <1>4 DEF WriteFails, SendCancelled, net, HTypeOK
    <2> QED BY <1>1, <2>1 DEF ClosedInv
  <1>5. ASSUME NEW c \in Conns, SendTakes(c) PROVE ClosedInv'
    <2>1. /\ sendTask[c] = "idle" /\ UNCHANGED <<wire, closes>>
          /\ inHand'[c] = Head(mailbox[c].queue) /\ mailbox[c].queue # << >>
          /\ \A d \in Conns \ {c} : sendTask'[d] = sendTask[d] /\ inHand'[d] = inHand[d]
      BY <1>5 DEF SendTakes, Take, net, HTypeOK
    <2>2. inHand'[c] \in Nat /\ inHand'[c] <= sent'
      <3>1. mailbox[c].queue \in Seq(Msgs) /\ UpTo(mailbox[c].queue, sent)
        BY DEF TypeOK, Mailbox, NumberInv
      <3>2. /\ Len(mailbox[c].queue) \in Nat \ {0} /\ inHand'[c] = mailbox[c].queue[1]
            /\ mailbox[c].queue[1] \in Msgs
        BY <2>1, <3>1, Popped
      <3>3. inHand'[c] <= sent /\ inHand'[c] \in Nat
        BY <3>1, <3>2 DEF UpTo, Msgs
      <3> QED BY <1>0, <3>3
    <2>3. ClosedOf(c)
      BY <1>0
    <2>4. UpTo(wire'[c], sent')
      BY <1>0, <2>1, <2>3 DEF ClosedOf, UpTo
    <2>5. \A k \in 1 .. Len(wire'[c]) : wire'[c][k] \notin closes'
      BY <2>1, <2>3 DEF ClosedOf
    <2>6. ClosedOf(c)'
      BY <2>2, <2>4, <2>5 DEF ClosedOf, UpTo
    <2>7. ASSUME NEW d \in Conns, d # c PROVE ClosedOf(d)'
      BY <1>1, <2>1, <2>7
    <2> QED BY <2>6, <2>7 DEF ClosedInv
  <1>6. ASSUME NEW c \in Conns, WriteFrame(c) \/ WriteClose(c) PROVE ClosedInv'
    <2>1. /\ sendTask[c] = "writing" /\ UNCHANGED <<inHand, closes>>
          /\ wire'[c] = Append(wire[c], inHand[c])
          /\ inHand[c] \in closes => sendTask'[c] = "ended"
          /\ \A d \in Conns \ {c} : sendTask'[d] = sendTask[d] /\ wire'[d] = wire[d]
      BY <1>6 DEF WriteFrame, WriteClose, Written, HTypeOK
    <2>2. ClosedOf(c) /\ wire[c] \in Seq(Nat) /\ inHand[c] \in Nat
      BY <1>0
    <2>3. /\ Len(wire[c]) \in Nat /\ Len(wire'[c]) = Len(wire[c]) + 1
          /\ wire'[c][Len(wire[c]) + 1] = inHand[c]
          /\ \A k \in 1 .. Len(wire[c]) : wire'[c][k] = wire[c][k]
      BY <2>1, <2>2, Appended
    <2>4. ASSUME NEW k \in 1 .. Len(wire'[c])
          PROVE  /\ wire'[c][k] <= sent'
                 /\ wire'[c][k] \in closes' => k = Len(wire'[c]) /\ sendTask'[c] = "ended"
      <3>1. CASE k = Len(wire[c]) + 1
        BY <1>0, <2>1, <2>2, <2>3, <3>1 DEF ClosedOf
      <3>2. CASE k \in 1 .. Len(wire[c])
        <4>1. wire[c][k] \in Nat /\ wire[c][k] <= sent /\ wire[c][k] \notin closes
          BY <1>0, <2>1, <2>2, <3>2 DEF ClosedOf, UpTo
        <4> QED BY <1>0, <2>1, <2>3, <3>2, <4>1
      <3> QED BY <2>3, <3>1, <3>2
    <2>5. inHand'[c] <= sent'
      BY <1>0, <2>1, <2>2 DEF ClosedOf
    <2>6. ClosedOf(c)'
      BY <2>4, <2>5 DEF ClosedOf, UpTo
    <2>7. ASSUME NEW d \in Conns, d # c PROVE ClosedOf(d)'
      BY <1>1, <2>1, <2>7
    <2> QED BY <2>6, <2>7 DEF ClosedInv
  <1>7. ASSUME NEW c \in Conns,
               \/ UpgradeFails(c) \/ Registers(c) \/ Connected(c) \/ Select(c) \/ Removes(c)
               \/ RecvTaskStep(c) \/ SyncReturns(c) \/ CoroutineReturns(c) \/ PeerLeaves(c)
               \/ \E frame \in {"data", "close", "bad"} : PeerSends(c, frame)
        PROVE  ClosedInv'
    <2>1. UNCHANGED <<wire, inHand, sendTask, closes>>
      BY <1>7 DEF UpgradeFails, Registers, Connected, Select, Removes, RecvTaskStep, ReadData,
           ReadClose, ReadFails, RecvCancelled, SyncReturns, CoroutineReturns, PeerLeaves,
           PeerSends, life, tasks, net
    <2> QED BY <1>2, <2>1
  <1>8. ASSUME NEW c \in Conns, ConnStep(c) PROVE ClosedInv'
    BY <1>3, <1>4, <1>5, <1>6, <1>7, <1>8 DEF ConnStep, HandleStep, SendTaskStep
  <1>9. ASSUME NEW c, NEW t, PythonCalls(c, t) PROVE ClosedInv'
    BY <1>2, <1>9 DEF PythonCalls, tasks, net
  <1>10. ASSUME NEW b, Broadcasts(b) PROVE ClosedInv'
    BY <1>2, <1>10 DEF Broadcasts, tasks, net
  <1>11. CASE Elsewhere \/ UNCHANGED hvars
    BY <1>2, <1>11 DEF Elsewhere, hvars, life, tasks, net
  <1> QED BY <1>8, <1>9, <1>10, <1>11 DEF HNext

(* The socket carries no frame after a close frame, whoever else sends and  *)
(* broadcasts to the connection meanwhile.                                  *)
THEOREM CloseIsTheLastFrame == HSpec => []NothingAfterClose
  <1>1. TableInv => TypeOK
    BY DEF TableInv
  <1>2. ClosedInv => NothingAfterClose
    BY DEF ClosedInv, ClosedOf, NothingAfterClose
  <1>3. TypeOK /\ MsgInv /\ NumberInv /\ [Next]_vars => NumberInv'
    BY NumberStep
  <1> QED BY <1>1, <1>2, <1>3, TableStaysCorrect, ControlInvariant, ClosedInit, ClosedStep,
             HStepIsStep, PTL DEF HSpec

-----------------------------------------------------------------------------
(* What is on its way to the socket of a connection, in its order.          *)
Hand(c) == IF sendTask[c] = "writing" THEN <<inHand[c]>> ELSE << >>
Line(c) == wire[c] \o (Hand(c) \o mailbox[c].queue)

(* Of the messages F, those on the line L come in the order of their calls, *)
(* and those before one of them that were accepted (H) are on it before it. *)
Ordered(L, F) ==
  \A j, k \in 1 .. Len(L) : j <= k /\ L[j] \in F /\ L[k] \in F => L[j] <= L[k]

Flushed(L, F, H) ==
  \A k \in 1 .. Len(L) : L[k] \in F =>
    \A m \in F : m < L[k] /\ H[m] > 0 => \E i \in 1 .. k : L[i] = m

Flows(L, F, H, n) == UpTo(L, n) /\ Ordered(L, F) /\ Flushed(L, F, H)

(* A new message, or a hit on one that is not passed yet, disturbs nothing. *)
Later(F, H, n, G, K, p) ==
  /\ G \subseteq F \cup (n + 1 .. p)
  /\ \A m \in G : m <= n /\ K[m] > 0 => H[m] > 0 \/ \A x \in F : x <= m

LEMMA FlowKept ==
  ASSUME NEW L \in Seq(Nat), NEW F, F \subseteq Nat, NEW G, NEW H, NEW K,
         NEW n \in Nat, NEW p \in Nat, n <= p,
         Flows(L, F, H, n), Later(F, H, n, G, K, p)
  PROVE  Flows(L, G, K, p)
  <1>0. /\ G \subseteq F \cup (n + 1 .. p)
        /\ \A m \in G : m <= n /\ K[m] > 0 => H[m] > 0 \/ \A x \in F : x <= m
    BY DEF Later
  <1>1. Len(L) \in Nat /\ \A k \in 1 .. Len(L) : L[k] \in Nat /\ L[k] <= n
    BY LenProperties, ElementOfSeq DEF Flows, UpTo
  <1>2. UpTo(L, p)
    BY <1>1 DEF UpTo
  <1>3. ASSUME NEW x \in G, x <= n PROVE x \in F /\ x \in Nat
    BY <1>0, <1>3
  <1>4. \A k \in 1 .. Len(L) : L[k] \in G => L[k] \in F
    BY <1>1, <1>3
  <1>5. Ordered(L, G)
    BY <1>4 DEF Flows, Ordered
  <1>6. ASSUME NEW k \in 1 .. Len(L), L[k] \in G, NEW m \in G, m < L[k], K[m] > 0
        PROVE  \E i \in 1 .. k : L[i] = m
    <2>1. m \in Nat
      <3>1. F \cup (n + 1 .. p) \subseteq Nat
        OBVIOUS
      <3> QED BY <1>0, <3>1
    <2>2. L[k] \in Nat /\ L[k] <= n /\ L[k] \in F
      BY <1>1, <1>4, <1>6
    <2>3. m <= n /\ m \in F /\ ~ (L[k] <= m)
      BY <1>3, <1>6, <2>1, <2>2
    <2>4. H[m] > 0
      BY <1>0, <1>6, <2>2, <2>3
    <2> QED BY <1>6, <2>2, <2>3, <2>4 DEF Flows, Flushed
  <1> QED BY <1>2, <1>5, <1>6 DEF Flows, Flushed

LEMMA FlowCut ==
  ASSUME NEW L \in Seq(Nat), NEW P \in Seq(Nat), NEW F, NEW H, NEW n \in Nat, Flows(L, F, H, n),
         Len(P) <= Len(L), \A k \in 1 .. Len(P) : P[k] = L[k]
  PROVE  Flows(P, F, H, n)
  <1>1. Len(L) \in Nat /\ Len(P) \in Nat
    BY LenProperties
  <1>2. \A k \in 1 .. Len(P) : k \in 1 .. Len(L) /\ P[k] = L[k]
    BY <1>1
  <1>3. UpTo(P, n)
    BY <1>2 DEF Flows, UpTo
  <1>4. Ordered(P, F)
    BY <1>2 DEF Flows, Ordered
  <1>5. ASSUME NEW k \in 1 .. Len(P), P[k] \in F, NEW m \in F, m < P[k], H[m] > 0
        PROVE  \E i \in 1 .. k : P[i] = m
    <2>1. PICK i \in 1 .. k : L[i] = m
      BY <1>2, <1>5 DEF Flows, Flushed
    <2>2. i \in 1 .. Len(P)
      BY <1>1
    <2> QED BY <1>2, <2>1, <2>2
  <1> QED BY <1>3, <1>4, <1>5 DEF Flows, Flushed

LEMMA FlowAppended ==
  ASSUME NEW L \in Seq(Nat), NEW F, NEW H, NEW n \in Nat, NEW m \in Nat, m <= n,
         Flows(L, F, H, n),
         m \in F => /\ \A x \in F : x <= m
                    /\ \A x \in F : x < m /\ H[x] > 0 => \E i \in 1 .. Len(L) : L[i] = x
  PROVE  Flows(Append(L, m), F, H, n)
  <1> DEFINE A == Append(L, m)
  <1>1. /\ Len(L) \in Nat /\ Len(A) = Len(L) + 1 /\ A[Len(L) + 1] = m
        /\ \A i \in 1 .. Len(L) : A[i] = L[i]
    BY Appended
  <1> HIDE DEF A
  <1>2. \A k \in 1 .. Len(A) : k = Len(L) + 1 \/ k \in 1 .. Len(L)
    BY <1>1
  <1>3. UpTo(A, n)
    BY <1>1, <1>2 DEF Flows, UpTo
  <1>4. ASSUME NEW j \in 1 .. Len(A), NEW k \in 1 .. Len(A), j <= k, A[j] \in F, A[k] \in F
        PROVE  A[j] <= A[k]
    <2>1. CASE k = Len(L) + 1
      BY <1>1, <1>4, <2>1
    <2>2. CASE k \in 1 .. Len(L)
      <3>1. j \in 1 .. Len(L)
        BY <1>1, <1>4, <2>2
      <3> QED BY <1>1, <1>4, <2>2, <3>1 DEF Flows, Ordered
    <2> QED BY <1>2, <2>1, <2>2
  <1>5. ASSUME NEW k \in 1 .. Len(A), A[k] \in F, NEW x \in F, x < A[k], H[x] > 0
        PROVE  \E i \in 1 .. k : A[i] = x
    <2>1. CASE k = Len(L) + 1
      <3>1. PICK i \in 1 .. Len(L) : L[i] = x
        BY <1>1, <1>5, <2>1
      <3>2. i \in 1 .. k
        BY <1>1, <2>1
      <3> QED BY <1>1, <3>1, <3>2
    <2>2. CASE k \in 1 .. Len(L)
      <3>1. PICK i \in 1 .. k : L[i] = x
        BY <1>1, <1>5, <2>2 DEF Flows, Flushed
      <3>2. i \in 1 .. Len(L)
        BY <1>1, <2>2
      <3> QED BY <1>1, <3>1, <3>2
    <2> QED BY <1>2, <2>1, <2>2
  <1> QED BY <1>3, <1>4, <1>5 DEF A, Flows, Ordered, Flushed

(* The line does not see a message pass from one place of it to the next.   *)
LEMMA LinePasses ==
  ASSUME NEW w \in Seq(Nat), NEW h \in Nat, NEW q \in Seq(Nat)
  PROVE  /\ Append(w, h) \o (<< >> \o q) = w \o (<<h>> \o q)
         /\ q # << >> => w \o (<<Head(q)>> \o Tail(q)) = w \o (<< >> \o q)
  <1>1. << >> \o q = q /\ <<h>> \in Seq(Nat)
    BY ConcatEmptySeq
  <1>2. Append(w, h) = w \o <<h>>
    BY AppendIsConcat
  <1>3. (w \o <<h>>) \o q = w \o (<<h>> \o q)
    BY <1>1, ConcatAssociative
  <1>4. ASSUME q # << >> PROVE <<Head(q)>> \o Tail(q) = q
    <2>1. /\ Tail(q) \in Seq(Nat) /\ Len(q) \in Nat \ {0} /\ Len(Tail(q)) = Len(q) - 1
          /\ Head(q) = q[1] /\ q[1] \in Nat
          /\ \A i \in 1 .. Len(q) - 1 : Tail(q)[i] = q[i + 1]
      BY <1>4, Popped
    <2> DEFINE s == <<Head(q)>>
    <2>2. s \in Seq(Nat) /\ Len(s) = 1 /\ s[1] = q[1]
      BY <2>1
    <2> HIDE DEF s
    <2>3. /\ s \o Tail(q) \in Seq(Nat) /\ Len(s \o Tail(q)) = Len(q)
          /\ \A i \in 1 .. Len(q) : (s \o Tail(q))[i] = IF i <= 1 THEN s[i] ELSE Tail(q)[i - 1]
      <3>1. /\ s \o Tail(q) \in Seq(Nat) /\ Len(s \o Tail(q)) = Len(s) + Len(Tail(q))
            /\ \A i \in 1 .. Len(s) + Len(Tail(q)) :
                 (s \o Tail(q))[i] = IF i <= Len(s) THEN s[i] ELSE Tail(q)[i - Len(s)]
        BY <2>1, <2>2, ConcatProperties
      <3> QED BY <2>1, <2>2, <3>1
    <2>4. \A i \in 1 .. Len(q) : (s \o Tail(q))[i] = q[i]
      BY <2>1, <2>2, <2>3
    <2> QED BY <2>3, <2>4, SeqEqual DEF s
  <1> QED BY <1>1, <1>2, <1>3, <1>4

LEMMA LineGrows ==
  ASSUME NEW w \in Seq(Nat), NEW h \in Seq(Nat), NEW q \in Seq(Nat), NEW m \in Nat
  PROVE  w \o (h \o Append(q, m)) = Append(w \o (h \o q), m)
  <1>1. <<m>> \in Seq(Nat) /\ h \o q \in Seq(Nat) /\ w \o (h \o q) \in Seq(Nat)
    BY ConcatProperties
  <1>2. Append(q, m) = q \o <<m>> /\ Append(w \o (h \o q), m) = (w \o (h \o q)) \o <<m>>
    BY <1>1, AppendIsConcat
  <1>3. h \o (q \o <<m>>) = (h \o q) \o <<m>>
    BY <1>1, ConcatAssociative
  <1>4. w \o ((h \o q) \o <<m>>) = (w \o (h \o q)) \o <<m>>
    BY <1>1, ConcatAssociative
  <1> QED BY <1>2, <1>3, <1>4

(* A send task that ends leaves what it has written.                        *)
LEMMA LineIsCut ==
  ASSUME NEW w \in Seq(Nat), NEW h \in Seq(Nat), NEW q \in Seq(Nat)
  PROVE  /\ w \o (<< >> \o << >>) = w
         /\ Len(w) <= Len(w \o (h \o q))
         /\ \A k \in 1 .. Len(w) : (w \o (h \o q))[k] = w[k]
  <1>1. << >> \in Seq(Nat) /\ << >> \o << >> = << >>
    BY ConcatEmptySeq
  <1>2. w \o << >> = w
    BY ConcatEmptySeq
  <1>3. h \o q \in Seq(Nat)
    BY ConcatProperties
  <1>4. Len(w) \in Nat /\ Len(h \o q) \in Nat
    BY <1>3, LenProperties
  <1>5. /\ w \o (h \o q) \in Seq(Nat) /\ Len(w \o (h \o q)) = Len(w) + Len(h \o q)
        /\ \A i \in 1 .. Len(w) + Len(h \o q) :
             (w \o (h \o q))[i] = IF i <= Len(w) THEN w[i] ELSE (h \o q)[i - Len(w)]
    BY <1>3, ConcatProperties
  <1> QED BY <1>1, <1>2, <1>4, <1>5

-----------------------------------------------------------------------------
LineInv == \A c \in Conns : Flows(Line(c), fifo, [m \in Msgs |-> hits[m][c]], sent)

(* A tracked message is owed to no task, and it is none of a broker's; the  *)
(* broadcast that holds the GIL has the last number of them.                *)
FifoInv ==
  /\ fifo \subseteq 1 .. sent
  /\ \A m \in fifo : late[m] = << >>
  /\ bc[Python].pc # "idle" => \A m \in fifo : m <= bc[Python].msg
  /\ \A b \in Broadcasters \ {Python} : bc[b].pc # "idle" => bc[b].msg \notin fifo

(* It is on the line, or the running broadcast will give it to a task.      *)
OnLine(c, m) == \E k \in 1 .. Len(Line(c)) : Line(c)[k] = m
Owed(m) == bc[Python].pc # "idle" /\ bc[Python].msg = m /\ bc[Python].blocked # << >>

AcceptInv ==
  \A c \in Conns : mailbox[c].open =>
    \A m \in fifo : hits[m][c] > 0 => OnLine(c, m) \/ Owed(m)

(* What a step of the composition does to fifo.                             *)
LEMMA FifoGrows ==
  ASSUME HTypeOK, TypeOK, MsgInv, NumberInv, [HNext]_hvars
  PROVE  /\ sent \in Nat /\ sent' \in Nat /\ sent <= sent' /\ sent' <= MaxMsg
         /\ \/ fifo' = fifo /\ (Elsewhere \/ UNCHANGED <<late, hits>>)
            \/ fifo' = {m \in fifo \cup (sent + 1 .. sent') : late'[m] = << >>}
  <1>1. sent \in Nat /\ sent' \in Nat /\ sent <= sent'
    BY NumberStep, HStepIsStep DEF TypeOK
  <1>2. sent' <= MaxMsg
    <2>1. TypeOK'
      BY TypeStep, HStepIsStep
    <2> QED BY <2>1, StoreAssumption DEF TypeOK
  <1>3. ASSUME UNCHANGED hvars \/ Elsewhere
        PROVE  UNCHANGED fifo /\ (Elsewhere \/ UNCHANGED <<late, hits>>)
    BY <1>3 DEF hvars, vars, sending, life, Elsewhere
  <1>4. ASSUME NEW c, NEW t, PythonCalls(c, t) PROVE Track
    BY <1>4 DEF PythonCalls
  <1>5. ASSUME NEW b, Broadcasts(b) PROVE Track
    BY <1>5 DEF Broadcasts
  <1>6. ASSUME NEW c \in Conns, ConnStep(c) PROVE UNCHANGED <<fifo, late, hits>>
    <2>1. CASE Apart(c)
      <3>1. UNCHANGED vars
        BY <2>1, ApartKeepsStore
      <3>2. UNCHANGED fifo
        BY <2>1 DEF Apart, UpgradeFails, Connected, SpawnTasks, Select, WriteFrame, RecvTaskStep,
             ReadData, ReadClose, ReadFails, RecvCancelled, SyncReturns, CoroutineReturns,
             PeerSends, PeerLeaves
      <3> QED BY <3>1, <3>2 DEF vars, sending
    <2>2. CASE Registers(c) \/ Removes(c)
      BY <2>2 DEF Registers, Removes, Register, RegisterFetch, RegisterInsert, JoinDefault, Remove,
           RemoveSender, SweepGroup, RemoveReturns, sending, life
    <2>3. CASE SendTakes(c) \/ WriteClose(c) \/ WriteFails(c) \/ SendCancelled(c)
      BY <2>3 DEF SendTakes, WriteClose, WriteFails, SendCancelled, Take, DropRx
    <2> QED BY <1>6, <2>1, <2>2, <2>3, ConnSteps DEF StoreOps
  <1> QED BY <1>1, <1>2, <1>3, <1>4, <1>5, <1>6 DEF HNext, Track

LEMMA FifoShrinks ==
  ASSUME HTypeOK, TypeOK, MsgInv, NumberInv, [HNext]_hvars
  PROVE  fifo' \subseteq fifo \cup (sent + 1 .. sent')
  BY FifoGrows

LEMMA FifoStep == HTypeOK /\ TypeOK /\ MsgInv /\ NumberInv /\ FifoInv /\ [HNext]_hvars => FifoInv'
  <1> SUFFICES ASSUME HTypeOK, TypeOK, MsgInv, NumberInv, FifoInv, [HNext]_hvars PROVE FifoInv'
    OBVIOUS
  <1> USE StoreAssumption
  <1>0. /\ sent \in Nat /\ sent' \in Nat /\ sent <= sent' /\ sent' <= MaxMsg
        /\ fifo' \subseteq fifo \cup (sent + 1 .. sent') /\ fifo \subseteq 1 .. sent
        /\ \A b \in Broadcasters : bc[b].pc # "idle" => bc[b].msg \in Nat /\ bc[b].msg <= sent
        /\ bc \in [Broadcasters -> Broadcast] /\ late \in [Msgs -> Seq(Conns)]
    BY FifoGrows DEF FifoInv, MsgInv, TypeOK, Msgs
  <1>1. fifo' \subseteq 1 .. sent'
    <2>1. \A m \in 1 .. sent : m \in 1 .. sent'
      BY <1>0
    <2>2. \A m \in sent + 1 .. sent' : m \in 1 .. sent'
      BY <1>0
    <2> QED BY <1>0, <2>1, <2>2
  <1>2. \A m \in fifo' : late'[m] = << >>
    <2>1. CASE fifo' = fifo /\ UNCHANGED late
      BY <2>1 DEF FifoInv
    <2>2. CASE fifo' = fifo /\ Elsewhere
      <3>1. ASSUME NEW m \in Msgs, LateStep(m) \/ CancelSend(m), NEW x \in fifo
            PROVE  late'[x] = << >>
        <4>1. late[m] # << >> /\ late[x] = << >> /\ x # m
          BY <3>1 DEF LateStep, CancelSend, FifoInv
        <4>2. \E s : late' = [late EXCEPT ![m] = s]
          BY <3>1 DEF LateStep, LatePolled, LateRedeemed, CancelSend
        <4> QED BY <1>0, <4>1, <4>2
      <3>2. ASSUME NEW b, NEW list, Dispatch(b, list) PROVE UNCHANGED late
        BY <3>2 DEF Dispatch, Begin
      <3> QED BY <2>1, <2>2, <3>1, <3>2 DEF Elsewhere
    <2>3. CASE fifo' = {m \in fifo \cup (sent + 1 .. sent') : late'[m] = << >>}
      BY <2>3
    <2> QED BY <2>1, <2>2, <2>3, FifoGrows
  <1> DEFINE Goal == /\ bc'[Python].pc # "idle" => \A m \in fifo' : m <= bc'[Python].msg
                     /\ \A b \in Broadcasters \ {Python} : bc'[b].pc # "idle" => bc'[b].msg \notin fifo'
  <1>3. ASSUME \A b \in Broadcasters : bc'[b].pc # "idle" => bc[b].pc # "idle" /\ bc'[b].msg = bc[b].msg,
               sent' = sent \/ bc'[Python].pc = "idle"
        PROVE  Goal
    <2>1. ASSUME bc'[Python].pc # "idle", NEW m \in fifo' PROVE m <= bc'[Python].msg
      <3>1. sent' = sent /\ m \in fifo
        BY <1>0, <1>3, <2>1
      <3> QED BY <1>3, <2>1, <3>1 DEF FifoInv
    <2>2. ASSUME NEW b \in Broadcasters \ {Python}, bc'[b].pc # "idle" PROVE bc'[b].msg \notin fifo'
      BY <1>0, <1>3, <2>2 DEF FifoInv
    <2> QED BY <2>1, <2>2
  <1>4. ASSUME NEW b \in Broadcasters, NEW list, NEW e, NEW t, Begin(b, list, e, t),
               b # Python => fifo' = fifo
        PROVE  Goal
    <2>1. /\ sent' = sent + 1 /\ bc'[b].msg = sent' /\ \A d \in Broadcasters \ {b} : bc'[d] = bc[d]
      BY <1>0, <1>4 DEF Begin
    <2>2. ASSUME bc'[Python].pc # "idle", NEW m \in fifo' PROVE m <= bc'[Python].msg
      <3>1. CASE b = Python
        BY <1>1, <2>1, <3>1
      <3>2. CASE b # Python
        BY <1>4, <2>1, <2>2, <3>2 DEF FifoInv
      <3> QED BY <3>1, <3>2
    <2>3. ASSUME NEW d \in Broadcasters \ {Python}, bc'[d].pc # "idle" PROVE bc'[d].msg \notin fifo'
      <3>1. CASE d = b
        <4>1. sent' \notin fifo
          BY <1>0, <2>1
        <4> QED BY <1>4, <2>1, <2>3, <3>1, <4>1
      <3>2. CASE d # b
        <4>1. bc'[d] = bc[d] /\ bc[d].msg \notin fifo /\ bc[d].msg \in Nat /\ bc[d].msg <= sent
          BY <1>0, <2>1, <2>3, <3>2 DEF FifoInv
        <4> QED BY <1>0, <4>1
      <3> QED BY <3>1, <3>2
    <2> QED BY <2>2, <2>3
  <1>5. ASSUME UNCHANGED bc, sent' = sent \/ GilFree PROVE Goal
    BY <1>3, <1>5 DEF GilFree
  <1>6. ASSUME NEW c \in Callers, NEW t \in Threads, PythonCalls(c, t) PROVE Goal
    <2>1. ASSUME NEW g, Join(c, g) \/ Leave(c, g) PROVE Goal
      BY <1>5, <2>1 DEF Join, Leave, sending
    <2>2. ASSUME NEW f, ConnSend(c, t, f) PROVE Goal
      BY <1>5, <2>2 DEF ConnSend, SendAccepted, SendBlocked, SendPanics, SendIgnored, SendStep
    <2>3. ASSUME NEW list, NEW x, ConnBroadcast(c, list, x, t) PROVE Goal
      BY <1>4, <2>3 DEF ConnBroadcast
    <2> QED BY <1>6, <2>1, <2>2, <2>3 DEF PythonCalls, Call
  <1>7. ASSUME NEW b \in Broadcasters, Broadcasts(b) PROVE Goal
    <2>1. ASSUME NEW i, HitMember(b, i) \/ PassMember(b, i) \/ BlockedMember(b, i) PROVE Goal
      <3>1. \A d \in Broadcasters : bc'[d].pc = bc[d].pc /\ bc'[d].msg = bc[d].msg
        <4>1. \/ bc' = [bc EXCEPT ![b].seen = @ \cup {i}]
              \/ bc' = [bc EXCEPT ![b].seen = @ \cup {i}, ![b].blocked = Append(@, senders[i])]
          BY <2>1 DEF HitMember, PassMember, BlockedMember, Seen
        <4>2. bc[b] \in Broadcast
          BY <1>0
        <4>3. bc'[b].pc = bc[b].pc /\ bc'[b].msg = bc[b].msg
          BY <1>0, <4>1, <4>2 DEF Broadcast
        <4>4. \A d \in Broadcasters \ {b} : bc'[d] = bc[d]
          BY <1>0, <4>1
        <4> QED BY <4>3, <4>4
      <3>2. sent' = sent
        BY <2>1 DEF HitMember, PassMember, BlockedMember, sending
      <3> QED BY <1>3, <3>1, <3>2
    <2>2. CASE OpenGroup(b) \/ CloseGroup(b)
      <3>1. \A d \in Broadcasters : bc'[d].msg = bc[d].msg /\ (bc'[d].pc # "idle" => bc[d].pc # "idle")
        <4>1. CASE OpenGroup(b)
          BY <1>0, <4>1 DEF OpenGroup, Broadcast
        <4>2. CASE CloseGroup(b)
          BY <1>0, <4>2 DEF CloseGroup, Broadcast
        <4> QED BY <2>2, <4>1, <4>2
      <3>2. sent' = sent
        BY <2>2 DEF OpenGroup, CloseGroup, sending
      <3> QED BY <1>3, <3>1, <3>2
    <2>3. CASE Return(b)
      <3>1. bc'[b].pc = "idle" /\ (\A d \in Broadcasters \ {b} : bc'[d] = bc[d]) /\ sent' = sent
        BY <1>0, <2>3 DEF Return, Idle
      <3> QED BY <1>3, <3>1
    <2>4. CASE SpawnPanics(b)
      BY <1>5, <2>4 DEF SpawnPanics, sending
    <2> QED BY <1>7, <2>1, <2>2, <2>3, <2>4 DEF Broadcasts, BroadcastStep
  <1>8. ASSUME Elsewhere PROVE Goal
    <2>1. ASSUME NEW b \in Broadcasters, NEW list, Dispatch(b, list) PROVE Goal
      <3>1. fifo' = fifo
        BY <1>8 DEF Elsewhere, life
      <3> QED BY <1>4, <2>1, <3>1 DEF Dispatch
    <2>2. ASSUME NEW m, LateStep(m) \/ CancelSend(m) PROVE Goal
      BY <1>5, <2>2 DEF LateStep, CancelSend
    <2> QED BY <1>8, <2>1, <2>2 DEF Elsewhere
  <1>9. ASSUME NEW c \in Conns, ConnStep(c) PROVE Goal
    <2>1. UNCHANGED <<bc, sent>>
      <3>1. CASE Apart(c)
        <4>1. UNCHANGED vars
          BY <3>1, ApartKeepsStore
        <4> QED BY <4>1 DEF vars, sending
      <3>2. CASE Registers(c) \/ Removes(c)
        BY <3>2 DEF Registers, Removes, Register, RegisterFetch, RegisterInsert, JoinDefault, Remove,
             RemoveSender, SweepGroup, RemoveReturns, sending
      <3>3. CASE SendTakes(c) \/ WriteClose(c) \/ WriteFails(c) \/ SendCancelled(c)
        BY <3>3 DEF SendTakes, WriteClose, WriteFails, SendCancelled, Take, DropRx
      <3> QED BY <1>9, <3>1, <3>2, <3>3, ConnSteps DEF StoreOps
    <2> QED BY <1>5, <2>1
  <1>10. ASSUME UNCHANGED hvars PROVE Goal
    BY <1>5, <1>10 DEF hvars, vars, sending
  <1>11. Goal
    <2> HIDE DEF Goal
    <2> QED BY <1>6, <1>7, <1>8, <1>9, <1>10 DEF HNext
  <1> QED BY <1>1, <1>2, <1>11 DEF FifoInv

LEMMA QueueType ==
  ASSUME TypeOK, NEW c \in Conns
  PROVE  mailbox[c].queue \in Seq(Nat)
  <1>1. mailbox[c].queue \in Seq(Msgs) /\ Msgs \subseteq Nat
    BY DEF TypeOK, Mailbox, Msgs
  <1> DEFINE q == mailbox[c].queue
  <1>2. Len(q) \in Nat /\ q \in [1 .. Len(q) -> Msgs]
    BY <1>1, LenProperties
  <1> HIDE DEF q
  <1>3. q \in [1 .. Len(q) -> Nat]
    BY <1>1, <1>2
  <1>4. q \in Seq(Nat)
    BY <1>2, <1>3, SeqDef
  <1> QED BY <1>4 DEF q

LEMMA LineType ==
  ASSUME TypeOK, HTypeOK, NEW c \in Conns
  PROVE  Hand(c) \in Seq(Nat) /\ Line(c) \in Seq(Nat)
  <1>1. Hand(c) \in Seq(Nat)
    BY DEF Hand, HTypeOK
  <1>2. wire[c] \in Seq(Nat) /\ mailbox[c].queue \in Seq(Nat)
    BY QueueType DEF HTypeOK
  <1>3. Hand(c) \o mailbox[c].queue \in Seq(Nat)
    BY <1>1, <1>2, ConcatProperties
  <1>4. wire[c] \o (Hand(c) \o mailbox[c].queue) \in Seq(Nat)
    BY <1>2, <1>3, ConcatProperties
  <1> QED BY <1>1, <1>4 DEF Line

(* What a step does to the line of a connection.                            *)
Stays(c) == Line(c)' = Line(c)

Cut(c) ==
  /\ ~ mailbox'[c].open
  /\ Line(c)' \in Seq(Nat)
  /\ LET P == Line(c)' IN Len(P) <= Len(Line(c)) /\ \A k \in 1 .. Len(P) : P[k] = Line(c)[k]

Grows(c, m) ==
  /\ Line(c)' = Append(Line(c), m)
  /\ m <= sent'
  /\ m \in fifo' => /\ mailbox[c].open
                    /\ \A x \in fifo' : x <= m
                    /\ GilFree \/ bc[Python].msg = m

LEMMA LineOfQueue ==
  ASSUME TypeOK, HTypeOK, NEW c \in Conns,
         wire'[c] = wire[c], sendTask'[c] = sendTask[c], inHand'[c] = inHand[c]
  PROVE  /\ mailbox'[c].queue = mailbox[c].queue => Line(c)' = Line(c)
         /\ \A m \in Nat : mailbox'[c].queue = Append(mailbox[c].queue, m)
                             => Line(c)' = Append(Line(c), m)
  <1>1. Hand(c)' = Hand(c)
    BY DEF Hand
  <1>2. Line(c)' = wire[c] \o (Hand(c) \o mailbox'[c].queue)
    BY <1>1 DEF Line
  <1>3. wire[c] \in Seq(Nat) /\ mailbox[c].queue \in Seq(Nat) /\ Hand(c) \in Seq(Nat)
    BY QueueType, LineType DEF HTypeOK
  <1>4. \A m \in Nat : wire[c] \o (Hand(c) \o Append(mailbox[c].queue, m))
                         = Append(wire[c] \o (Hand(c) \o mailbox[c].queue), m)
    BY <1>3, LineGrows
  <1>5. Line(c) = wire[c] \o (Hand(c) \o mailbox[c].queue)
    BY DEF Line
  <1>6. ASSUME NEW m \in Nat, mailbox'[c].queue = Append(mailbox[c].queue, m)
        PROVE  Line(c)' = Append(Line(c), m)
    BY <1>2, <1>4, <1>5, <1>6
  <1> QED BY <1>2, <1>5, <1>6

(* The steps of the tasks of a connection move or cut its line.             *)
LEMMA ConnLines ==
  ASSUME TypeOK, HTypeOK, ControlInv, NEW c \in Conns, ConnStep(c), NEW d \in Conns
  PROVE  Stays(d) \/ Cut(d)
  <1>1. /\ wire[d] \in Seq(Nat) /\ mailbox[d].queue \in Seq(Nat) /\ inHand[d] \in Nat
        /\ Hand(d) \in Seq(Nat) /\ << >> \in Seq(Nat)
    BY QueueType, LineType DEF HTypeOK
  <1>2. ASSUME wire'[d] = wire[d], sendTask'[d] = sendTask[d], inHand'[d] = inHand[d],
               mailbox'[d].queue = mailbox[d].queue
        PROVE  Stays(d)
    BY <1>2, LineOfQueue DEF Stays
  <1>3. CASE d # c
    <2>1. /\ wire'[d] = wire[d] /\ sendTask'[d] = sendTask[d] /\ inHand'[d] = inHand[d]
          /\ mailbox'[d] = mailbox[d]
      <3>1. CASE Apart(c)
        <4>1. mailbox'[d] = mailbox[d]
          BY <3>1, ApartKeepsStore DEF vars, sending
        <4>2. wire'[d] = wire[d] /\ sendTask'[d] = sendTask[d] /\ inHand'[d] = inHand[d]
          BY <1>3, <3>1 DEF HTypeOK, Apart, UpgradeFails, Connected, SpawnTasks, Select, WriteFrame,
             Written, RecvTaskStep, ReadData, ReadClose, ReadFails, RecvCancelled, SyncReturns,
             CoroutineReturns, PeerSends, PeerLeaves, tasks, net
        <4> QED BY <4>1, <4>2
      <3>2. CASE Registers(c) \/ Removes(c)
        BY <3>2 DEF Registers, Removes, Register, RegisterFetch, RegisterInsert, JoinDefault, Remove,
             RemoveSender, SweepGroup, RemoveReturns, sending, life, tasks, net
      <3>3. CASE SendTakes(c) \/ WriteClose(c) \/ WriteFails(c) \/ SendCancelled(c)
        BY <1>3, <3>3 DEF HTypeOK, TypeOK, SendTakes, WriteClose, WriteFails, SendCancelled, Take,
             DropRx, Written, net
      <3> QED BY <3>1, <3>2, <3>3, ConnSteps DEF StoreOps
    <2> QED BY <1>2, <2>1
  <1>4. CASE UpgradeFails(c) \/ Connected(c) \/ Select(c) \/ RecvTaskStep(c) \/ SyncReturns(c)
             \/ CoroutineReturns(c) \/ (\E f \in {"data", "close", "bad"} : PeerSends(c, f))
             \/ PeerLeaves(c)
    <2>1. UNCHANGED <<wire, sendTask, inHand, mailbox>>
      BY <1>4 DEF UpgradeFails, Connected, Select, RecvTaskStep, ReadData, ReadClose, ReadFails,
         RecvCancelled, SyncReturns, CoroutineReturns, PeerSends, PeerLeaves, tasks, net, vars, sending
    <2> QED BY <1>2, <2>1
  <1>5. CASE Registers(c) \/ Removes(c)
    <2>1. UNCHANGED <<wire, sendTask, inHand, mailbox>>
      BY <1>5 DEF Registers, Removes, Register, RegisterFetch, RegisterInsert, JoinDefault, Remove,
         RemoveSender, SweepGroup, RemoveReturns, sending, life, tasks, net
    <2> QED BY <1>2, <2>1
  <1>6. CASE SpawnTasks(c) /\ d = c
    <2>1. handle[c] = "connectAfter" /\ sendTask'[c] = "idle" /\ UNCHANGED <<wire, mailbox>>
      BY <1>6 DEF SpawnTasks, net, vars, sending, HTypeOK
    <2>2. sendTask[c] = "none"
      BY <2>1 DEF ControlInv, ControlOf, Controlled, Unserved
    <2>3. Hand(c) = << >> /\ Hand(c)' = << >>
      BY <2>1, <2>2 DEF Hand
    <2> QED BY <1>6, <2>1, <2>3 DEF Stays, Line
  <1>7. CASE WriteFrame(c) /\ d = c
    <2>1. /\ sendTask[c] = "writing" /\ sendTask'[c] = "idle" /\ UNCHANGED mailbox
          /\ wire'[c] = Append(wire[c], inHand[c])
      BY <1>7 DEF WriteFrame, Written, vars, sending, HTypeOK
    <2>2. Hand(c) = <<inHand[c]>> /\ Hand(c)' = << >>
      BY <2>1 DEF Hand
    <2>3. Append(wire[c], inHand[c]) \o (<< >> \o mailbox[c].queue)
            = wire[c] \o (<<inHand[c]>> \o mailbox[c].queue)
      BY <1>1, <1>7, LinePasses
    <2>4. Line(c)' = Append(wire[c], inHand[c]) \o (<< >> \o mailbox[c].queue)
      BY <2>1, <2>2 DEF Line
    <2>5. Line(c) = wire[c] \o (<<inHand[c]>> \o mailbox[c].queue)
      BY <2>2 DEF Line
    <2> QED BY <1>7, <2>3, <2>4, <2>5 DEF Stays
  <1>8. CASE SendTakes(c) /\ d = c
    <2>1. /\ sendTask[c] = "idle" /\ sendTask'[c] = "writing" /\ UNCHANGED wire
          /\ mailbox[c].queue # << >> /\ inHand'[c] = Head(mailbox[c].queue)
      BY <1>8 DEF SendTakes, Take, net, HTypeOK
    <2>2. mailbox'[c].queue = Tail(mailbox[c].queue)
      BY <1>8 DEF SendTakes, Take, Recv, ReleaseSlot, TypeOK, Mailbox
    <2>3. Hand(c) = << >> /\ Hand(c)' = <<Head(mailbox[c].queue)>>
      BY <2>1 DEF Hand
    <2>4. wire[c] \o (<<Head(mailbox[c].queue)>> \o Tail(mailbox[c].queue))
            = wire[c] \o (<< >> \o mailbox[c].queue)
      BY <1>1, <1>8, <2>1, LinePasses
    <2>5. Line(c)' = wire[c] \o (<<Head(mailbox[c].queue)>> \o Tail(mailbox[c].queue))
      BY <2>1, <2>2, <2>3 DEF Line
    <2>6. Line(c) = wire[c] \o (<< >> \o mailbox[c].queue)
      BY <2>3 DEF Line
    <2> QED BY <1>8, <2>4, <2>5, <2>6 DEF Stays
  <1>9. CASE (WriteClose(c) \/ WriteFails(c) \/ SendCancelled(c)) /\ d = c
    <2>1. /\ sendTask'[c] \in {"ended", "aborted"} /\ DropRx(c)
      BY <1>9 DEF WriteClose, WriteFails, SendCancelled, HTypeOK
    <2>2. ~ mailbox'[c].open /\ mailbox'[c].queue = << >>
      BY <2>1 DEF DropRx, DropReceiver, TypeOK
    <2>3. Hand(c)' = << >>
      BY <2>1 DEF Hand
    <2>4. Line(c)' = wire'[c] \o (<< >> \o << >>)
      BY <2>2, <2>3 DEF Line
    <2>5. ASSUME NEW w \in Seq(Nat), NEW h \in Seq(Nat), wire'[c] = w,
                 Line(c) = w \o (h \o mailbox[c].queue)
          PROVE  Cut(c)
      <3> DEFINE q == mailbox[c].queue
      <3>4. q \in Seq(Nat)
        BY <1>1, <1>9
      <3> HIDE DEF q
      <3>1. /\ w \o (<< >> \o << >>) = w /\ Len(w) <= Len(w \o (h \o q))
            /\ \A k \in 1 .. Len(w) : (w \o (h \o q))[k] = w[k]
        BY <2>5, <3>4, LineIsCut
      <3> USE DEF q
      <3>2. Line(c)' = w /\ Len(w) <= Len(Line(c)) /\ \A k \in 1 .. Len(w) : Line(c)[k] = w[k]
        BY <2>4, <2>5, <3>1
      <3> QED BY <2>2, <2>5, <3>2 DEF Cut
    <2>6. CASE WriteClose(c)
      <3>1. sendTask[c] = "writing" /\ wire'[c] = Append(wire[c], inHand[c])
        BY <2>6 DEF WriteClose, Written, HTypeOK
      <3>2. Hand(c) = <<inHand[c]>>
        BY <3>1 DEF Hand
      <3>3. Append(wire[c], inHand[c]) \in Seq(Nat)
        BY <1>1, <1>9, Appended
      <3>5. Append(wire[c], inHand[c]) \o (<< >> \o mailbox[c].queue)
              = wire[c] \o (<<inHand[c]>> \o mailbox[c].queue)
        BY <1>1, <1>9, LinePasses
      <3>4. Line(c) = Append(wire[c], inHand[c]) \o (<< >> \o mailbox[c].queue)
        BY <3>2, <3>5 DEF Line
      <3> QED BY <1>1, <1>9, <2>5, <3>1, <3>3, <3>4
    <2>7. CASE WriteFails(c) \/ SendCancelled(c)
      <3>1. wire'[c] = wire[c]
        BY <2>7 DEF WriteFails, SendCancelled, net
      <3>2. Line(c) = wire[c] \o (Hand(c) \o mailbox[c].queue)
        BY DEF Line
      <3> QED BY <1>1, <1>9, <2>5, <3>1, <3>2
    <2> QED BY <1>9, <2>6, <2>7
  <1> QED BY <1>3, <1>4, <1>5, <1>6, <1>7, <1>8, <1>9 DEF ConnStep, HandleStep, SendTaskStep

(* A message that enters a mailbox is the last of its line.                 *)
LEMMA Pushed ==
  ASSUME TypeOK, HTypeOK, NEW c \in Conns, NEW m \in Msgs, UNCHANGED <<tasks, net>>,
         \/ mailbox' = [mailbox EXCEPT ![c] = Push(@, m)]
         \/ mailbox' = [mailbox EXCEPT ![c] = Redeem(@, m, m)]
  PROVE  /\ Line(c)' = Append(Line(c), m) /\ OnLine(c, m)'
         /\ \A d \in Conns \ {c} : Line(d)' = Line(d)
  <1>1. /\ m \in Nat
        /\ \A d \in Conns : /\ wire'[d] = wire[d] /\ sendTask'[d] = sendTask[d]
                            /\ inHand'[d] = inHand[d]
    BY DEF tasks, net, Msgs
  <1>2. /\ Push(mailbox[c], m).queue = Append(mailbox[c].queue, m)
        /\ Redeem(mailbox[c], m, m).queue = Append(mailbox[c].queue, m)
    BY DEF Push, Redeem, TypeOK, Mailbox
  <1>3. /\ mailbox'[c].queue = Append(mailbox[c].queue, m)
        /\ \A d \in Conns \ {c} : mailbox'[d].queue = mailbox[d].queue
    BY <1>2 DEF TypeOK
  <1>4. Line(c)' = Append(Line(c), m) /\ \A d \in Conns \ {c} : Line(d)' = Line(d)
    BY <1>1, <1>3, LineOfQueue
  <1>5. Len(Line(c)) \in Nat /\ Len(Line(c)') = Len(Line(c)) + 1 /\ Line(c)'[Len(Line(c)) + 1] = m
    BY <1>1, <1>4, LineType, Appended
  <1>6. OnLine(c, m)'
    BY <1>5 DEF OnLine
  <1> QED BY <1>4, <1>6

LEMMA Untouched ==
  ASSUME TypeOK, HTypeOK, UNCHANGED <<tasks, net>>, NEW d \in Conns,
         mailbox'[d].queue = mailbox[d].queue
  PROVE  Stays(d)
  <1>1. /\ wire'[d] = wire[d] /\ sendTask'[d] = sendTask[d] /\ inHand'[d] = inHand[d]
    BY DEF tasks, net
  <1> QED BY <1>1, LineOfQueue DEF Stays

LEMMA GrowsBy ==
  ASSUME TypeOK, HTypeOK, NEW c \in Conns, NEW m \in Msgs, UNCHANGED <<tasks, net>>,
         \/ mailbox' = [mailbox EXCEPT ![c] = Push(@, m)]
         \/ mailbox' = [mailbox EXCEPT ![c] = Redeem(@, m, m)],
         m <= sent',
         m \in fifo' => /\ mailbox[c].open
                        /\ \A x \in fifo' : x <= m
                        /\ GilFree \/ bc[Python].msg = m,
         NEW d \in Conns
  PROVE  Stays(d) \/ Grows(d, m)
  <1>1. /\ Line(c)' = Append(Line(c), m) /\ \A e \in Conns \ {c} : Line(e)' = Line(e)
    BY Pushed
  <1>2. CASE d = c
    BY <1>1, <1>2 DEF Grows
  <1>3. CASE d # c
    BY <1>1, <1>3 DEF Stays
  <1> QED BY <1>2, <1>3

LEMMA LineStep ==
  ASSUME TypeOK, HTypeOK, MsgInv, NumberInv, ControlInv, FifoInv, [HNext]_hvars, NEW d \in Conns
  PROVE  Stays(d) \/ Cut(d) \/ \E m \in Msgs : Grows(d, m)
  <1> USE StoreAssumption
  <1> DEFINE Goal == Stays(d) \/ Cut(d) \/ \E m \in Msgs : Grows(d, m)
  <1>0. /\ sent \in Nat /\ sent' \in Nat /\ sent <= sent' /\ sent' <= MaxMsg
        /\ fifo' \subseteq 1 .. sent' /\ FifoInv' /\ fifo' \subseteq fifo \cup (sent + 1 .. sent')
        /\ bc \in [Broadcasters -> Broadcast] /\ late \in [Msgs -> Seq(Conns)]
    <2>1. FifoInv'
      BY FifoStep
    <2>2. fifo' \subseteq 1 .. sent'
      BY <2>1 DEF FifoInv
    <2> QED BY <2>1, <2>2, FifoGrows DEF TypeOK
  <1>1. ASSUME NEW c \in Conns, ConnStep(c) PROVE Goal
    BY <1>1, ConnLines
  <1>2. ASSUME NEW c \in Callers, NEW t \in Threads, PythonCalls(c, t) PROVE Goal
    <2>0. UNCHANGED <<tasks, net>> /\ c \in Conns
      BY <1>2 DEF PythonCalls
    <2>1. ASSUME UNCHANGED mailbox PROVE Goal
      BY <2>0, <2>1, Untouched
    <2>2. CASE SendAccepted(c)
      <3>1. /\ GilFree /\ sent' = sent + 1 /\ mailbox[c].open
            /\ mailbox' = [mailbox EXCEPT ![c] = Push(@, sent + 1)]
        BY <2>2 DEF SendAccepted, SendStep, HasRoom
      <3>2. sent + 1 \in Msgs /\ sent + 1 <= sent' /\ \A x \in fifo' : x <= sent + 1
        BY <1>0, <3>1 DEF Msgs
      <3>3. Stays(d) \/ Grows(d, sent + 1)
        BY <2>0, <3>1, <3>2, GrowsBy
      <3> QED BY <3>2, <3>3
    <2>3. ASSUME NEW f, SendBlocked(c, t, f) \/ SendPanics(c, t, f) \/ SendIgnored(c, t, f) PROVE Goal
      BY <2>1, <2>3 DEF SendBlocked, SendPanics, SendIgnored
    <2>4. ASSUME NEW g, Join(c, g) \/ Leave(c, g) PROVE Goal
      BY <2>1, <2>4 DEF Join, Leave, sending
    <2>5. ASSUME NEW list, NEW x, ConnBroadcast(c, list, x, t) PROVE Goal
      BY <2>1, <2>5 DEF ConnBroadcast, Begin
    <2> QED BY <1>2, <2>2, <2>3, <2>4, <2>5 DEF PythonCalls, Call, ConnSend
  <1>3. ASSUME NEW b \in Broadcasters, Broadcasts(b) PROVE Goal
    <2>0. UNCHANGED <<tasks, net>>
      BY <1>3 DEF Broadcasts
    <2>1. ASSUME UNCHANGED mailbox PROVE Goal
      BY <2>0, <2>1, Untouched
    <2>2. ASSUME NEW i, HitMember(b, i) PROVE Goal
      <3> DEFINE m == bc[b].msg
      <3>1. /\ bc[b].pc = "visit" /\ senders[i] \in Conns /\ mailbox[senders[i]].open
            /\ mailbox' = [mailbox EXCEPT ![senders[i]] = Push(@, m)] /\ sent' = sent
        BY <2>2 DEF HitMember, Yields, Skips, HasRoom, TypeOK
      <3>2. m \in Msgs /\ m \in Nat /\ m <= sent'
        BY <3>1 DEF TypeOK, MsgInv, Msgs
      <3>3. ASSUME m \in fifo' PROVE b = Python /\ \A x \in fifo' : x <= m
        <4>1. fifo' \subseteq fifo
          BY <1>0, <3>1
        <4>2. b = Python
          BY <3>1, <3>3, <4>1 DEF FifoInv
        <4>3. \A x \in fifo : x <= m
          BY <3>1, <4>2 DEF FifoInv
        <4> QED BY <4>1, <4>2, <4>3
      <3>4. Stays(d) \/ Grows(d, m)
        <4> HIDE DEF m
        <4>1. m \in fifo' => GilFree \/ bc[Python].msg = m
          BY <3>3 DEF m
        <4> QED BY <2>0, <3>1, <3>2, <3>3, <4>1, GrowsBy
      <3> QED BY <3>2, <3>4
    <2>3. ASSUME NEW i, PassMember(b, i) \/ BlockedMember(b, i) PROVE Goal
      BY <2>1, <2>3 DEF PassMember, BlockedMember, sending
    <2>4. CASE OpenGroup(b) \/ CloseGroup(b) \/ Return(b) \/ SpawnPanics(b)
      BY <2>1, <2>4 DEF OpenGroup, CloseGroup, Return, SpawnPanics, sending
    <2> QED BY <1>3, <2>2, <2>3, <2>4 DEF Broadcasts, BroadcastStep
  <1>4. ASSUME Elsewhere PROVE Goal
    <2>0. UNCHANGED <<tasks, net, fifo>>
      BY <1>4 DEF Elsewhere, life
    <2>1. ASSUME NEW b, NEW list, Dispatch(b, list) PROVE Goal
      BY <2>0, <2>1, Untouched DEF Dispatch, Begin
    <2>2. ASSUME NEW m \in Msgs, LateStep(m) PROVE Goal
      <3>1. m \notin fifo' /\ m <= sent'
        <4>1. late[m] # << >> /\ sent' = sent
          BY <2>2 DEF LateStep
        <4> QED BY <2>0, <4>1 DEF FifoInv, NumberInv
      <3>2. PICK c \in Conns : \/ mailbox' = [mailbox EXCEPT ![c] = Push(@, m)]
                               \/ mailbox' = [mailbox EXCEPT ![c] = Wait(@, m)]
                               \/ mailbox' = [mailbox EXCEPT ![c] = Redeem(@, m, m)]
                               \/ mailbox' = mailbox
        BY <2>2, LateMoves
      <3>3. CASE mailbox' = mailbox
        BY <2>0, <3>3, Untouched
      <3>4. CASE mailbox' = [mailbox EXCEPT ![c] = Wait(@, m)]
        <4>1. Wait(mailbox[c], m).queue = mailbox[c].queue
          BY DEF Wait, TypeOK, Mailbox
        <4>2. mailbox'[d].queue = mailbox[d].queue
          BY <3>4, <4>1 DEF TypeOK
        <4> QED BY <2>0, <4>2, Untouched
      <3>5. CASE \/ mailbox' = [mailbox EXCEPT ![c] = Push(@, m)]
                 \/ mailbox' = [mailbox EXCEPT ![c] = Redeem(@, m, m)]
        <4>1. Stays(d) \/ Grows(d, m)
          BY <2>0, <3>1, <3>5, GrowsBy
        <4> QED BY <4>1
      <3> QED BY <3>2, <3>3, <3>4, <3>5
    <2>3. ASSUME NEW m \in Msgs, CancelSend(m) PROVE Goal
      <3>1. mailbox'[d].queue = mailbox[d].queue
        BY <2>3, Withdraws
      <3> QED BY <2>0, <3>1, Untouched
    <2> QED BY <1>4, <2>1, <2>2, <2>3 DEF Elsewhere
  <1>5. CASE UNCHANGED hvars
    BY <1>5, Untouched DEF hvars, vars, sending, life
  <1> QED BY <1>1, <1>2, <1>3, <1>4, <1>5 DEF HNext

(* A new hit on a tracked message is on the line or owed by the broadcast.  *)
LEMMA NewHit ==
  ASSUME TypeOK, HTypeOK, MsgInv, NumberInv, ControlInv, FifoInv, [HNext]_hvars,
         NEW c \in Conns, NEW m \in fifo', hits'[m][c] > 0
  PROVE  \/ hits[m][c] > 0 /\ m \in fifo
         \/ /\ (m = sent + 1 /\ m = sent') \/ (bc[Python].pc # "idle" /\ bc[Python].msg = m)
            /\ OnLine(c, m)' \/ Owed(m)'
  <1> USE StoreAssumption
  <1> DEFINE Goal == \/ hits[m][c] > 0 /\ m \in fifo
                     \/ /\ (m = sent + 1 /\ m = sent') \/ (bc[Python].pc # "idle" /\ bc[Python].msg = m)
                        /\ OnLine(c, m)' \/ Owed(m)'
  <1>0. /\ sent \in Nat /\ sent' \in Nat /\ sent <= sent' /\ m \in Msgs /\ m \in Nat
        /\ fifo' \subseteq fifo \cup (sent + 1 .. sent')
        /\ hits \in [Msgs -> [Conns -> Nat]] /\ bc \in [Broadcasters -> Broadcast]
    <2>1. FifoInv' /\ sent' \in Nat /\ sent <= sent' /\ sent' <= MaxMsg
      BY FifoStep, FifoGrows
    <2>2. m \in 1 .. sent'
      BY <2>1 DEF FifoInv
    <2>3. m \in Msgs /\ m \in Nat
      BY <2>1, <2>2 DEF Msgs
    <2> QED BY <2>1, <2>3, FifoShrinks DEF TypeOK
  <1>1. ASSUME hits'[m][c] = hits[m][c] PROVE Goal
    <2>1. ~ (m > sent)
      BY <1>0, <1>1 DEF MsgInv
    <2>2. m \in fifo
      BY <1>0, <2>1
    <2> QED BY <1>1, <2>2
  <1>2. ASSUME UNCHANGED hits PROVE Goal
    BY <1>1, <1>2
  <1>3. ASSUME NEW n \in Msgs, NEW d \in Conns, hits' = [hits EXCEPT ![n][d] = @ + 1],
               n = m /\ d = c => Goal
        PROVE  Goal
    <2>1. CASE n = m /\ d = c
      BY <1>3, <2>1
    <2>2. CASE ~ (n = m /\ d = c)
      <3>1. hits'[m][c] = hits[m][c]
        BY <1>0, <1>3, <2>2
      <3> QED BY <1>1, <3>1
    <2> QED BY <2>1, <2>2
  <1>4. ASSUME NEW d \in Callers, NEW t \in Threads, PythonCalls(d, t) PROVE Goal
    <2>0. UNCHANGED <<tasks, net>> /\ d \in Conns
      BY <1>4 DEF PythonCalls
    <2>1. CASE SendAccepted(d)
      <3>1. sent + 1 \in Msgs /\ hits' = [hits EXCEPT ![sent + 1][d] = @ + 1] /\ sent' = sent + 1
            /\ mailbox' = [mailbox EXCEPT ![d] = Push(@, sent + 1)]
        BY <1>0, <2>1 DEF SendAccepted, SendStep, Msgs
      <3>2. ASSUME sent + 1 = m, d = c PROVE Goal
        <4>1. mailbox' = [mailbox EXCEPT ![c] = Push(@, m)]
          BY <3>1, <3>2
        <4>2. OnLine(c, m)'
          BY <1>0, <2>0, <4>1, Pushed
        <4> QED BY <3>1, <3>2, <4>2
      <3>3. sent + 1 = m /\ d = c => Goal
        BY <3>2
      <3> QED BY <1>3, <2>0, <3>1, <3>3
    <2>2. ASSUME NEW f, SendBlocked(d, t, f) PROVE Goal
      <3>1. /\ sent + 1 \in Msgs /\ hits' = [hits EXCEPT ![sent + 1][d] = @ + 1]
            /\ late' = [late EXCEPT ![sent + 1] = <<d>>]
        BY <1>0, <2>2 DEF SendBlocked, SendStep, Msgs
      <3>2. late'[sent + 1] = <<d>> /\ <<d>> # << >>
        BY <3>1 DEF TypeOK
      <3>3. sent + 1 # m
        BY <3>2, FifoStep DEF FifoInv
      <3> QED BY <1>3, <2>0, <3>1, <3>3
    <2>3. ASSUME NEW f, SendPanics(d, t, f) \/ SendIgnored(d, t, f) PROVE Goal
      BY <1>2, <2>3 DEF SendPanics, SendIgnored
    <2>4. ASSUME NEW g, Join(d, g) \/ Leave(d, g) PROVE Goal
      BY <1>2, <2>4 DEF Join, Leave, sending
    <2>5. ASSUME NEW list, NEW x, ConnBroadcast(d, list, x, t) PROVE Goal
      BY <1>2, <2>5 DEF ConnBroadcast, Begin
    <2> QED BY <1>4, <2>1, <2>2, <2>3, <2>4, <2>5 DEF PythonCalls, Call, ConnSend
  <1>5. ASSUME NEW b \in Broadcasters, Broadcasts(b) PROVE Goal
    <2>0. UNCHANGED <<tasks, net>>
      BY <1>5 DEF Broadcasts
    <2>1. ASSUME NEW i, HitMember(b, i) \/ BlockedMember(b, i) PROVE Goal
      <3>1. /\ bc[b].pc = "visit" /\ senders[i] \in Conns /\ bc[b].msg \in Msgs /\ sent' = sent
            /\ hits' = [hits EXCEPT ![bc[b].msg][senders[i]] = @ + 1]
        BY <2>1 DEF HitMember, BlockedMember, Yields, Skips, TypeOK
      <3>2. ASSUME bc[b].msg = m, senders[i] = c PROVE Goal
        <4>1. m \in fifo
          BY <1>0, <3>1
        <4>2. b = Python
          BY <3>1, <3>2, <4>1 DEF FifoInv
        <4>3. CASE HitMember(b, i)
          <5>1. mailbox' = [mailbox EXCEPT ![c] = Push(@, m)]
            BY <3>2, <4>3 DEF HitMember
          <5>2. OnLine(c, m)'
            BY <1>0, <2>0, <5>1, Pushed
          <5> QED BY <3>1, <3>2, <4>2, <5>2
        <4>4. CASE BlockedMember(b, i)
          <5>1. /\ bc'[b].pc = bc[b].pc /\ bc'[b].msg = bc[b].msg
                /\ bc'[b].blocked = Append(bc[b].blocked, c)
            BY <1>0, <3>2, <4>4 DEF BlockedMember, Broadcast
          <5>2. bc[b].blocked \in Seq(Conns)
            BY <1>0 DEF Broadcast
          <5>3. Append(bc[b].blocked, c) # << >>
            BY <5>2, Appended
          <5>4. Owed(m)'
            BY <3>1, <3>2, <4>2, <5>1, <5>3 DEF Owed
          <5> QED BY <3>1, <3>2, <4>2, <5>4
        <4> QED BY <2>1, <4>3, <4>4
      <3> QED BY <1>3, <3>1, <3>2
    <2>2. ASSUME NEW i, PassMember(b, i) PROVE Goal
      BY <1>2, <2>2 DEF PassMember, sending
    <2>3. CASE OpenGroup(b) \/ CloseGroup(b) \/ Return(b) \/ SpawnPanics(b)
      BY <1>2, <2>3 DEF OpenGroup, CloseGroup, Return, SpawnPanics, sending
    <2> QED BY <1>5, <2>1, <2>2, <2>3 DEF Broadcasts, BroadcastStep
  <1>6. CASE Elsewhere
    BY <1>2, <1>6 DEF Elsewhere, Dispatch, Begin, LateStep, CancelSend
  <1>7. ASSUME NEW d \in Conns, ConnStep(d) PROVE Goal
    <2>1. CASE Apart(d)
      <3>1. UNCHANGED vars
        BY <2>1, ApartKeepsStore
      <3> QED BY <1>2, <3>1 DEF vars, sending
    <2>2. CASE Registers(d) \/ Removes(d)
      BY <1>2, <2>2 DEF Registers, Removes, Register, RegisterFetch, RegisterInsert, JoinDefault, Remove,
           RemoveSender, SweepGroup, RemoveReturns, sending
    <2>3. CASE SendTakes(d) \/ WriteClose(d) \/ WriteFails(d) \/ SendCancelled(d)
      BY <1>2, <2>3 DEF SendTakes, WriteClose, WriteFails, SendCancelled, Take, DropRx
    <2> QED BY <1>7, <2>1, <2>2, <2>3, ConnSteps DEF StoreOps
  <1>8. CASE UNCHANGED hvars
    BY <1>2, <1>8 DEF hvars, vars, sending
  <1> QED BY <1>4, <1>5, <1>6, <1>7, <1>8 DEF HNext

(* What the broadcast that holds the GIL owes a task it owes until it ends. *)
LEMMA OwedKept ==
  ASSUME TypeOK, HTypeOK, MsgInv, NumberInv, FifoInv, [HNext]_hvars, NEW m \in fifo', Owed(m)
  PROVE  Owed(m)'
  <1> USE StoreAssumption
  <1>0. bc \in [Broadcasters -> Broadcast] /\ late \in [Msgs -> Seq(Conns)] /\ ~ GilFree
    BY DEF TypeOK, Owed, GilFree
  <1>1. ASSUME bc'[Python] = bc[Python] PROVE Owed(m)'
    BY <1>1 DEF Owed
  <1>2. ASSUME NEW b \in Broadcasters, NEW list, NEW e, NEW t, Begin(b, list, e, t) PROVE Owed(m)'
    <2>1. b # Python /\ bc'[Python] = bc[Python]
      BY <1>0, <1>2 DEF Begin, Owed
    <2> QED BY <1>1, <2>1
  <1>3. ASSUME NEW c, NEW t, PythonCalls(c, t) PROVE Owed(m)'
    <2>1. ASSUME NEW g, Join(c, g) \/ Leave(c, g) PROVE Owed(m)'
      BY <1>1, <2>1 DEF Join, Leave, sending
    <2>2. ASSUME NEW f, ConnSend(c, t, f) PROVE Owed(m)'
      BY <1>0, <2>2 DEF ConnSend, SendAccepted, SendBlocked, SendPanics, SendIgnored, SendStep
    <2>3. ASSUME NEW list, NEW x, ConnBroadcast(c, list, x, t) PROVE Owed(m)'
      BY <1>2, <2>3 DEF ConnBroadcast
    <2> QED BY <1>3, <2>1, <2>2, <2>3 DEF PythonCalls, Call
  <1>4. ASSUME NEW b \in Broadcasters, BroadcastStep(b) PROVE Owed(m)'
    <2>1. CASE b # Python
      <3>1. bc'[Python] = bc[Python]
        BY <1>0, <1>4, <2>1 DEF BroadcastStep, OpenGroup, PassMember, HitMember, BlockedMember, Seen,
           CloseGroup, Return, SpawnPanics
      <3> QED BY <1>1, <3>1
    <2>2. ASSUME NEW i, HitMember(b, i) \/ PassMember(b, i) \/ BlockedMember(b, i) PROVE Owed(m)'
      <3>1. \/ bc' = [bc EXCEPT ![b].seen = @ \cup {i}]
            \/ bc' = [bc EXCEPT ![b].seen = @ \cup {i}, ![b].blocked = Append(@, senders[i])]
               /\ senders[i] \in Conns
        BY <2>2 DEF HitMember, PassMember, BlockedMember, Seen, Yields, Skips, TypeOK
      <3>2. bc[b].blocked \in Seq(Conns)
        BY <1>0 DEF Broadcast
      <3>3. /\ bc'[b].pc = bc[b].pc /\ bc'[b].msg = bc[b].msg
            /\ \/ bc'[b].blocked = bc[b].blocked
               \/ bc'[b].blocked = Append(bc[b].blocked, senders[i]) /\ senders[i] \in Conns
        BY <1>0, <3>1 DEF Broadcast
      <3>4. bc[b].blocked # << >> => bc'[b].blocked # << >>
        BY <3>2, <3>3, Appended
      <3>5. CASE b = Python
        BY <3>3, <3>4, <3>5 DEF Owed
      <3> QED BY <2>1, <3>5
    <2>3. CASE OpenGroup(b) \/ CloseGroup(b)
      <3>1. bc'[b].pc # "idle" /\ bc'[b].msg = bc[b].msg /\ bc'[b].blocked = bc[b].blocked
        <4>1. CASE OpenGroup(b)
          BY <1>0, <4>1 DEF OpenGroup, Broadcast
        <4>2. CASE CloseGroup(b)
          BY <1>0, <4>2 DEF CloseGroup, Broadcast
        <4> QED BY <2>3, <4>1, <4>2
      <3>2. CASE b = Python
        BY <3>1, <3>2 DEF Owed
      <3> QED BY <2>1, <3>2
    <2>4. CASE Return(b)
      <3>1. CASE b = Python
        <4>1. late' = [late EXCEPT ![m] = bc[Python].blocked] /\ bc[Python].blocked # << >>
          BY <2>4, <3>1 DEF Return, Owed
        <4>2. m \in Msgs
          BY DEF TypeOK, Owed
        <4>3. late'[m] # << >>
          BY <1>0, <4>1, <4>2
        <4> QED BY <4>3, FifoStep DEF FifoInv
      <3> QED BY <2>1, <3>1
    <2>5. CASE SpawnPanics(b)
      BY <1>1, <2>5 DEF SpawnPanics
    <2> QED BY <1>4, <2>2, <2>3, <2>4, <2>5 DEF BroadcastStep
  <1>5. CASE Elsewhere
    BY <1>1, <1>2, <1>5 DEF Elsewhere, Dispatch, LateStep, CancelSend
  <1>6. ASSUME NEW c \in Conns, ConnStep(c) PROVE Owed(m)'
    <2>1. UNCHANGED bc
      <3>1. CASE Apart(c)
        <4>1. UNCHANGED vars
          BY <3>1, ApartKeepsStore
        <4> QED BY <4>1 DEF vars
      <3>2. CASE Registers(c) \/ Removes(c)
        BY <3>2 DEF Registers, Removes, Register, RegisterFetch, RegisterInsert, JoinDefault, Remove,
             RemoveSender, SweepGroup, RemoveReturns
      <3>3. CASE SendTakes(c) \/ WriteClose(c) \/ WriteFails(c) \/ SendCancelled(c)
        BY <3>3 DEF SendTakes, WriteClose, WriteFails, SendCancelled, Take, DropRx
      <3> QED BY <1>6, <3>1, <3>2, <3>3, ConnSteps DEF StoreOps
    <2> QED BY <1>1, <2>1
  <1>7. CASE UNCHANGED hvars
    BY <1>1, <1>7 DEF hvars, vars
  <1> QED BY <1>3, <1>4, <1>5, <1>6, <1>7 DEF HNext, Broadcasts

-----------------------------------------------------------------------------
LEMMA LineInvStep ==
  TypeOK /\ HTypeOK /\ IdInv /\ MsgInv /\ NumberInv /\ ControlInv /\ FifoInv /\ LineInv /\ AcceptInv
    /\ [HNext]_hvars => LineInv'
  <1> SUFFICES ASSUME TypeOK, HTypeOK, IdInv, MsgInv, NumberInv, ControlInv, FifoInv, LineInv,
                      AcceptInv, [HNext]_hvars, NEW c \in Conns
               PROVE  Flows(Line(c), fifo, [m \in Msgs |-> hits[m][c]], sent)'
    BY DEF LineInv
  <1> DEFINE L == Line(c)
             H == [m \in Msgs |-> hits[m][c]]
             G == fifo'
             K == [m \in Msgs |-> hits'[m][c]]
  <1>0. /\ sent \in Nat /\ sent' \in Nat /\ sent <= sent' /\ fifo \subseteq Nat /\ G \subseteq Msgs
        /\ fifo \subseteq Msgs
        /\ G \subseteq fifo \cup (sent + 1 .. sent') /\ L \in Seq(Nat) /\ Msgs \subseteq Nat
    <2>1. FifoInv' /\ sent' \in Nat /\ sent <= sent' /\ sent' <= MaxMsg /\ sent \in Nat
      BY FifoStep, FifoGrows
    <2>2. fifo \subseteq 1 .. sent /\ fifo' \subseteq 1 .. sent'
      BY <2>1 DEF FifoInv
    <2>3. 1 .. sent \subseteq Msgs /\ 1 .. sent' \subseteq Msgs /\ Msgs \subseteq Nat
      BY <2>1, StoreAssumption DEF Msgs
    <2>4. L \in Seq(Nat)
      BY LineType
    <2> QED BY <2>1, <2>2, <2>3, <2>4, FifoShrinks
  <1>1. Flows(L, fifo, H, sent)
    BY DEF LineInv
  <1>2. ASSUME NEW m \in G, m <= sent, K[m] > 0 PROVE H[m] > 0 \/ \A x \in fifo : x <= m
    <2>1. m \in Msgs /\ m \in Nat /\ hits'[m][c] > 0
      BY <1>0, <1>2
    <2>2. \/ hits[m][c] > 0
          \/ (m = sent + 1 /\ m = sent') \/ (bc[Python].pc # "idle" /\ bc[Python].msg = m)
      BY <2>1, NewHit
    <2>3. m # sent + 1
      BY <1>0, <1>2, <2>1
    <2>4. bc[Python].pc # "idle" /\ bc[Python].msg = m => \A x \in fifo : x <= m
      BY DEF FifoInv
    <2> QED BY <2>1, <2>2, <2>3, <2>4
  <1>3. Flows(L, G, K, sent')
    <2>1. \A m \in G : m <= sent /\ K[m] > 0 => H[m] > 0 \/ \A x \in fifo : x <= m
      <3> HIDE DEF H, G, K
      <3> QED BY <1>2
    <2>2. /\ L \in Seq(Nat) /\ fifo \subseteq Nat /\ sent \in Nat /\ sent' \in Nat /\ sent <= sent'
          /\ G \subseteq fifo \cup (sent + 1 .. sent') /\ Flows(L, fifo, H, sent)
      BY <1>0, <1>1
    <2>3. Later(fifo, H, sent, G, K, sent')
      <3> HIDE DEF L, H, G, K
      <3> QED BY <2>1, <2>2 DEF Later
    <2> HIDE DEF L, H, G, K
    <2> QED BY <2>2, <2>3, FlowKept
  <1>4. CASE Stays(c)
    BY <1>3, <1>4 DEF Stays
  <1>5. CASE Cut(c)
    <2> DEFINE P == Line(c)'
    <2>1. P \in Seq(Nat) /\ Len(P) <= Len(L) /\ \A k \in 1 .. Len(P) : P[k] = L[k]
      <3>1. P \in Seq(Nat)
        BY <1>5 DEF Cut
      <3> QED BY <1>5, <3>1 DEF Cut
    <2>2. Flows(P, G, K, sent')
      <3> HIDE DEF L, G, K, P
      <3> QED BY <1>0, <1>3, <2>1, FlowCut
    <2> QED BY <2>2
  <1>6. ASSUME NEW m \in Msgs, Grows(c, m) PROVE Flows(Line(c)', G, K, sent')
    <2>1. Line(c)' = Append(L, m) /\ m \in Nat /\ m <= sent'
      BY <1>0, <1>6 DEF Grows
    <2>2. ASSUME m \in G, NEW x \in G, x < m, K[x] > 0 PROVE \E i \in 1 .. Len(L) : L[i] = x
      <3>1. mailbox[c].open /\ (GilFree \/ bc[Python].msg = m)
        BY <1>6, <2>2 DEF Grows
      <3>2. x \in Msgs /\ x \in Nat /\ hits'[x][c] > 0
        BY <1>0, <2>2
      <3>3. x # sent'
        BY <1>0, <2>1, <2>2, <3>2
      <3>4. bc[Python].pc # "idle" => bc[Python].msg # x
        BY <2>1, <2>2, <3>1, <3>2 DEF GilFree
      <3>5. hits[x][c] > 0 /\ x \in fifo
        BY <3>2, <3>3, <3>4, NewHit
      <3>6. OnLine(c, x)
        BY <3>1, <3>4, <3>5 DEF AcceptInv, Owed
      <3> QED BY <3>6 DEF OnLine
    <2>3. m \in G => \A x \in G : x <= m
      BY <1>6 DEF Grows
    <2>4. Flows(Append(L, m), G, K, sent')
      <3> HIDE DEF L, G, K
      <3> QED BY <1>0, <1>3, <2>1, <2>2, <2>3, FlowAppended
    <2> QED BY <2>1, <2>4
  <1>7. Flows(Line(c)', G, K, sent')
    BY <1>3, <1>4, <1>5, <1>6, LineStep
  <1> QED BY <1>7

LEMMA AcceptStep ==
  TypeOK /\ HTypeOK /\ IdInv /\ MsgInv /\ NumberInv /\ ControlInv /\ FifoInv /\ AcceptInv
    /\ [HNext]_hvars => AcceptInv'
  <1> SUFFICES ASSUME TypeOK, HTypeOK, IdInv, MsgInv, NumberInv, ControlInv, FifoInv, AcceptInv,
                      [HNext]_hvars, NEW c \in Conns, mailbox'[c].open,
                      NEW m \in fifo', hits'[m][c] > 0
               PROVE  OnLine(c, m)' \/ Owed(m)'
    BY DEF AcceptInv
  <1>1. mailbox[c].open
    BY OffersStay, HStepIsStep
  <1>2. ASSUME hits[m][c] > 0, m \in fifo PROVE OnLine(c, m)' \/ Owed(m)'
    <2>1. OnLine(c, m) \/ Owed(m)
      BY <1>1, <1>2 DEF AcceptInv
    <2>2. CASE Owed(m)
      BY <2>2, OwedKept
    <2>3. ASSUME OnLine(c, m) PROVE OnLine(c, m)'
      <3>1. CASE Stays(c)
        BY <2>3, <3>1 DEF Stays, OnLine
      <3>2. ~ Cut(c)
        BY DEF Cut
      <3>3. ASSUME NEW n \in Msgs, Grows(c, n) PROVE OnLine(c, m)'
        <4> DEFINE L == Line(c)
                   M == Line(c)'
        <4>1. n \in Nat /\ L \in Seq(Nat) /\ M = Append(L, n)
          BY <3>3, LineType DEF Grows, Msgs
        <4>2. PICK k \in 1 .. Len(L) : L[k] = m
          BY <2>3 DEF OnLine
        <4>3. k \in 1 .. Len(M) /\ M[k] = m
          <5> HIDE DEF L, M
          <5>1. Len(L) \in Nat /\ Len(M) = Len(L) + 1 /\ M[k] = L[k]
            BY <4>1, <4>2, Appended
          <5> QED BY <4>2, <5>1
        <4> QED BY <4>3 DEF OnLine
      <3> QED BY <3>1, <3>2, <3>3, LineStep
    <2> QED BY <2>1, <2>2, <2>3
  <1> QED BY <1>2, NewHit

LEMMA FlowInit == HInit => FifoInv /\ LineInv /\ AcceptInv
  <1> SUFFICES ASSUME HInit PROVE FifoInv /\ LineInv /\ AcceptInv
    OBVIOUS
  <1>1. fifo = {} /\ \A b \in Broadcasters : bc[b].pc = "idle"
    BY DEF HInit, Init, Idle
  <1>2. FifoInv /\ AcceptInv
    BY <1>1, StoreAssumption DEF FifoInv, AcceptInv
  <1>3. ASSUME NEW c \in Conns PROVE Line(c) = << >>
    <2>1. wire[c] = << >> /\ Hand(c) = << >> /\ mailbox[c].queue = << >>
      BY DEF HInit, Init, NewMailbox, Hand
    <2>2. << >> \o (<< >> \o << >>) = << >>
      BY ConcatEmptySeq
    <2> QED BY <2>1, <2>2 DEF Line
  <1>4. LineInv
    BY <1>1, <1>3 DEF LineInv, Flows, UpTo, Ordered, Flushed
  <1> QED BY <1>2, <1>4

LEMMA FlowInvariant == HSpec => [](TypeOK /\ HTypeOK /\ FifoInv /\ LineInv)
  <1>1. TableInv => TypeOK /\ IdInv
    BY DEF TableInv
  <1>2. TypeOK /\ MsgInv /\ NumberInv /\ [HNext]_hvars => NumberInv'
    BY NumberStep, HStepIsStep
  <1>3. HInit => NumberInv
    BY ClosedInit
  <1> QED BY <1>1, <1>2, <1>3, TableStaysCorrect, ControlInvariant, FlowInit, FifoStep, LineInvStep,
             AcceptStep, PTL DEF HSpec

(* What is on the socket is the front of the line.                          *)
LEMMA WireIsFront ==
  ASSUME TypeOK, HTypeOK, NEW c \in Conns
  PROVE  /\ Len(wire[c]) \in Nat /\ Len(Line(c)) \in Nat /\ Len(wire[c]) <= Len(Line(c))
         /\ \A k \in 1 .. Len(wire[c]) : Line(c)[k] = wire[c][k] /\ wire[c][k] \in Nat
  <1>1. wire[c] \in Seq(Nat) /\ Hand(c) \in Seq(Nat) /\ mailbox[c].queue \in Seq(Nat)
    BY QueueType, LineType DEF HTypeOK
  <1>2. Len(wire[c]) <= Len(Line(c)) /\ \A k \in 1 .. Len(wire[c]) : Line(c)[k] = wire[c][k]
    BY <1>1, LineIsCut DEF Line
  <1>3. Len(wire[c]) \in Nat /\ Len(Line(c)) \in Nat
        /\ \A k \in 1 .. Len(wire[c]) : wire[c][k] \in Nat
    BY <1>1, LineType, LenProperties, ElementOfSeq
  <1> QED BY <1>2, <1>3

(* Messages of callbacks leave in the order of their calls, however sends,  *)
(* broadcasts and send tasks interleave, as long as no mailbox was full.    *)
THEOREM CallbackMessagesAreInOrder == HSpec => []FifoUnlessFull
  <1>1. TypeOK /\ HTypeOK /\ LineInv => FifoUnlessFull
    <2> SUFFICES ASSUME TypeOK, HTypeOK, LineInv, NEW c \in Conns,
                        NEW i \in 1 .. Len(wire[c]), NEW j \in 1 .. Len(wire[c]),
                        i < j, wire[c][i] \in fifo, wire[c][j] \in fifo
                 PROVE  wire[c][i] <= wire[c][j]
      BY DEF FifoUnlessFull
    <2>1. /\ i \in 1 .. Len(Line(c)) /\ j \in 1 .. Len(Line(c)) /\ i <= j
          /\ Line(c)[i] = wire[c][i] /\ Line(c)[j] = wire[c][j]
      BY WireIsFront
    <2>2. Ordered(Line(c), fifo)
      BY DEF LineInv, Flows
    <2> QED BY <2>1, <2>2 DEF Ordered
  <1> QED BY <1>1, FlowInvariant, PTL

(* A close frame on the socket is preceded by every message accepted for    *)
(* the connection before the close.                                         *)
THEOREM ClosePreservesEarlierMessages == HSpec => []CloseFlushes
  <1>1. TypeOK /\ HTypeOK /\ FifoInv /\ LineInv => CloseFlushes
    <2> SUFFICES ASSUME TypeOK, HTypeOK, FifoInv, LineInv, NEW c \in Conns,
                        NEW k \in 1 .. Len(wire[c]), wire[c][k] \in fifo,
                        NEW m \in fifo, m < wire[c][k], hits[m][c] > 0
                 PROVE  \E i \in 1 .. k : wire[c][i] = m
      BY DEF CloseFlushes
    <2>0. m \in Msgs
      <3>1. sent \in Nat /\ sent <= MaxMsg /\ m \in 1 .. sent
        BY DEF FifoInv, TypeOK
      <3> QED BY <3>1, StoreAssumption DEF Msgs
    <2>1. k \in 1 .. Len(Line(c)) /\ Line(c)[k] = wire[c][k]
      BY WireIsFront
    <2>2. Flushed(Line(c), fifo, [n \in Msgs |-> hits[n][c]])
      BY DEF LineInv, Flows
    <2>3. PICK i \in 1 .. k : Line(c)[i] = m
      BY <2>0, <2>1, <2>2 DEF Flushed
    <2>4. i \in 1 .. Len(wire[c]) /\ wire[c][i] = m
      BY <2>3, WireIsFront
    <2> QED BY <2>3, <2>4
  <1> QED BY <1>1, FlowInvariant, PTL

-----------------------------------------------------------------------------
(* What the send task has taken is what it has written, and the message in  *)
(* its hand.                                                                *)
WireInv ==
  \A c \in Conns :
    /\ sendTask[c] \in {"none", "idle"} => taken[c] = wire[c]
    /\ sendTask[c] = "writing" => taken[c] = Append(wire[c], inHand[c])

LEMMA WireInit == HInit => WireInv
  BY DEF HInit, Init, WireInv

(* Nobody but the send tasks takes messages out of the mailboxes.           *)
LEMMA OthersTakeNothing ==
  /\ \A c \in Callers, t \in Threads : Call(c, t) => UNCHANGED taken
  /\ \A b \in Broadcasters : BroadcastStep(b) => UNCHANGED taken
  /\ \A c \in Conns : Register(c) \/ Remove(c) \/ DropRx(c) => UNCHANGED taken
  /\ Elsewhere => UNCHANGED taken
  <1>1. ASSUME NEW c \in Callers, NEW t \in Threads, Call(c, t) PROVE UNCHANGED taken
    BY <1>1 DEF Call, Join, Leave, ConnSend, SendAccepted, SendBlocked, SendPanics, SendIgnored,
                SendStep, ConnBroadcast, Begin, sending
  <1>2. ASSUME NEW b \in Broadcasters, BroadcastStep(b) PROVE UNCHANGED taken
    BY <1>2 DEF BroadcastStep, OpenGroup, PassMember, HitMember, BlockedMember, CloseGroup,
                Return, SpawnPanics, sending
  <1>3. ASSUME NEW c \in Conns, Register(c) \/ Remove(c) \/ DropRx(c) PROVE UNCHANGED taken
    BY <1>3 DEF Register, RegisterFetch, RegisterInsert, JoinDefault, Remove, RemoveSender,
                SweepGroup, RemoveReturns, DropRx, sending
  <1>4. ASSUME Elsewhere PROVE UNCHANGED taken
    BY <1>4 DEF Elsewhere, Dispatch, Begin, LateStep, CancelSend
  <1> QED BY <1>1, <1>2, <1>3, <1>4

LEMMA WireStep == TypeOK /\ HTypeOK /\ ControlInv /\ WireInv /\ [HNext]_hvars => WireInv'
  <1> SUFFICES ASSUME TypeOK, HTypeOK, ControlInv, WireInv, [HNext]_hvars PROVE WireInv'
    OBVIOUS
  <1>0. /\ sendTask \in [Conns -> {"none", "idle", "writing", "ended", "aborted"}]
        /\ taken \in [Conns -> Seq(Msgs)] /\ wire \in [Conns -> Seq(Nat)]
        /\ inHand \in [Conns -> Nat]
    BY DEF TypeOK, HTypeOK
  <1>1. ASSUME UNCHANGED <<sendTask, inHand, wire, taken>> PROVE WireInv'
    BY <1>1 DEF WireInv
  <1>2. ASSUME NEW c \in Conns,
               \A d \in Conns \ {c} : /\ sendTask'[d] = sendTask[d] /\ inHand'[d] = inHand[d]
                                      /\ wire'[d] = wire[d] /\ taken'[d] = taken[d],
               sendTask'[c] \in {"none", "idle"} => taken'[c] = wire'[c],
               sendTask'[c] = "writing" => taken'[c] = Append(wire'[c], inHand'[c])
        PROVE  WireInv'
    BY <1>2 DEF WireInv
  <1>3. ASSUME NEW c \in Conns, SpawnTasks(c) PROVE WireInv'
    <2>1. sendTask[c] = "none"
      BY <1>3 DEF SpawnTasks, ControlInv, ControlOf, Controlled, Unserved
    <2>2. UNCHANGED <<inHand, wire, taken>> /\ sendTask' = [sendTask EXCEPT ![c] = "idle"]
      BY <1>3 DEF SpawnTasks, vars, sending, net
    <2> QED BY <1>0, <1>2, <2>1, <2>2 DEF WireInv
  <1>4. ASSUME NEW c \in Conns, SendTakes(c) PROVE WireInv'
    <2> DEFINE m == Head(mailbox[c].queue)
    <2>1. /\ taken' = [taken EXCEPT ![c] = Append(@, m)] /\ sendTask[c] = "idle"
          /\ inHand' = [inHand EXCEPT ![c] = m]
          /\ sendTask' = [sendTask EXCEPT ![c] = "writing"] /\ UNCHANGED wire
      BY <1>4 DEF SendTakes, Take, net
    <2>2. taken'[c] = Append(taken[c], m) /\ inHand'[c] = m /\ taken[c] = wire[c]
      BY <1>0, <2>1 DEF WireInv
    <2>3. sendTask'[c] = "writing"
      BY <1>0, <2>1
    <2>4. \A d \in Conns \ {c} : /\ sendTask'[d] = sendTask[d] /\ inHand'[d] = inHand[d]
                                 /\ wire'[d] = wire[d] /\ taken'[d] = taken[d]
      BY <1>0, <2>1
    <2> HIDE DEF m
    <2> QED BY <1>2, <2>1, <2>2, <2>3, <2>4
  <1>5. ASSUME NEW c \in Conns, WriteFrame(c) \/ WriteClose(c) PROVE WireInv'
    <2>1. /\ wire' = [wire EXCEPT ![c] = Append(@, inHand[c])] /\ sendTask[c] = "writing"
          /\ UNCHANGED inHand
      BY <1>5 DEF WriteFrame, WriteClose, Written
    <2>2. UNCHANGED taken
      BY <1>5, OthersTakeNothing DEF WriteFrame, WriteClose, vars, sending
    <2>3. PICK s \in {"idle", "ended"} : sendTask' = [sendTask EXCEPT ![c] = s]
      BY <1>5 DEF WriteFrame, WriteClose
    <2>4. wire'[c] = Append(wire[c], inHand[c]) /\ taken[c] = Append(wire[c], inHand[c])
      BY <1>0, <2>1 DEF WireInv
    <2>5. sendTask'[c] \in {"idle", "ended"}
      BY <1>0, <2>3
    <2>6. \A d \in Conns \ {c} : sendTask'[d] = sendTask[d] /\ wire'[d] = wire[d]
      BY <1>0, <2>1, <2>3
    <2> QED BY <1>2, <2>1, <2>2, <2>4, <2>5, <2>6
  <1>6. ASSUME NEW c \in Conns, WriteFails(c) \/ SendCancelled(c) PROVE WireInv'
    <2>1. UNCHANGED <<inHand, wire>>
      BY <1>6 DEF WriteFails, SendCancelled, net
    <2>2. UNCHANGED taken
      BY <1>6, OthersTakeNothing DEF WriteFails, SendCancelled
    <2>3. PICK s \in {"aborted", "ended"} : sendTask' = [sendTask EXCEPT ![c] = s]
      BY <1>6 DEF WriteFails, SendCancelled
    <2>4. sendTask'[c] \in {"aborted", "ended"} /\ \A d \in Conns \ {c} : sendTask'[d] = sendTask[d]
      BY <1>0, <2>3
    <2> QED BY <1>2, <2>1, <2>2, <2>4
  <1>7. ASSUME NEW c \in Conns, Registers(c) \/ Removes(c) PROVE WireInv'
    <2>1. UNCHANGED taken
      BY <1>7, OthersTakeNothing DEF Registers, Removes
    <2> QED BY <1>1, <1>7, <2>1 DEF Registers, Removes, life, tasks, net
  <1>8. ASSUME NEW c \in Conns,
               \/ UpgradeFails(c) \/ Connected(c) \/ Select(c) \/ RecvTaskStep(c)
               \/ SyncReturns(c) \/ CoroutineReturns(c) \/ PeerLeaves(c)
               \/ \E frame \in {"data", "close", "bad"} : PeerSends(c, frame)
        PROVE  WireInv'
    <2>1. UNCHANGED taken
      BY <1>8, ApartKeepsStore DEF Apart, vars, sending
    <2>2. UNCHANGED <<sendTask, inHand, wire>>
      BY <1>8 DEF UpgradeFails, Connected, Select, RecvTaskStep, ReadData, ReadClose, ReadFails,
                  RecvCancelled, SyncReturns, CoroutineReturns, PeerLeaves, PeerSends, tasks, net
    <2> QED BY <1>1, <2>1, <2>2
  <1>9. ASSUME NEW c \in Conns, ConnStep(c) PROVE WireInv'
    BY <1>3, <1>4, <1>5, <1>6, <1>7, <1>8, <1>9 DEF ConnStep, HandleStep, SendTaskStep
  <1>10. ASSUME NEW c \in Callers, NEW t \in Threads, PythonCalls(c, t) PROVE WireInv'
    <2>1. Call(c, t)
      BY <1>10 DEF PythonCalls, Call
    <2> QED BY <1>1, <1>10, <2>1, OthersTakeNothing DEF PythonCalls, tasks, net
  <1>11. ASSUME NEW b \in Broadcasters, Broadcasts(b) PROVE WireInv'
    BY <1>1, <1>11, OthersTakeNothing DEF Broadcasts, tasks, net
  <1>12. CASE Elsewhere
    <2>1. UNCHANGED life
      BY <1>12 DEF Elsewhere
    <2> QED BY <1>1, <1>12, <2>1, OthersTakeNothing DEF life, tasks, net
  <1>13. CASE UNCHANGED hvars
    BY <1>1, <1>13 DEF hvars, vars, sending, life, tasks, net
  <1> QED BY <1>9, <1>10, <1>11, <1>12, <1>13 DEF HNext

(* The promises of the table hold while the tasks and the callbacks drive   *)
(* it: stable members are reached, nothing is lost before it is taken.      *)
THEOREM TableKeepsItsPromises == HSpec => [](MsgInv /\ StableMembersAreHit /\ NothingLostWhileOpen)
  <1>1. TableInv => TypeOK /\ IdInv
    BY DEF TableInv
  <1>2. HInit => Init
    BY DEF HInit
  <1>3. Init => DueInv
    BY DEF Init, DueInv, DueOf, Idle
  <1>4. (TableInv /\ MsgInv) /\ DueInv /\ [Next]_vars => DueInv'
    BY DueStep DEF TableInv
  <1>5. (TableInv /\ MsgInv) /\ DueInv => StableMembersAreHit
    BY DueMeansHit DEF TableInv
  <1>6. TypeOK /\ MsgInv /\ LossInv => NothingLostWhileOpen
    BY AccountIsPromise
  <1> QED BY <1>1, <1>2, <1>3, <1>4, <1>5, <1>6, TableStaysCorrect, HStepIsStep, LossInit, OweStep,
             FutureStep, LossStep, PTL DEF HSpec

(* From the call to the socket: as long as its send task lives, each        *)
(* message accepted for a connection is as often on the wire, in the task's *)
(* hand, in the mailbox, with a spawned task or owed by a running broadcast *)
(* as it was accepted; a send that was cancelled while it waited, nowhere.  *)
InHand(c, m) == IF sendTask[c] = "writing" /\ inHand[c] = m THEN 1 ELSE 0

WireHasAll ==
  \A c \in Conns, m \in Msgs : sendTask[c] \in {"none", "idle", "writing"} =>
    (IF future[m] = "cancelled" THEN 0 ELSE hits[m][c])
      = Occurs(wire[c], m) + InHand(c, m) + Occurs(mailbox[c].queue, m)
        + Occurs(late[m], c) + Blocked(m, c)

(* Nothing accepted is lost or doubled between a callback and the socket of *)
(* a connection that is served, but for what its caller stopped waiting for.*)
THEOREM AcceptedIsWritten == HSpec => []WireHasAll
  <1>1. ASSUME TableInv, MsgInv, HTypeOK, ControlInv, WireInv, NothingLostWhileOpen
        PROVE  WireHasAll
    <2> SUFFICES ASSUME NEW c \in Conns, NEW m \in Msgs, sendTask[c] \in {"none", "idle", "writing"}
                 PROVE  (IF future[m] = "cancelled" THEN 0 ELSE hits[m][c])
                          = Occurs(wire[c], m) + InHand(c, m) + Occurs(mailbox[c].queue, m)
                            + Occurs(late[m], c) + Blocked(m, c)
      BY DEF WireHasAll
    <2>0. TypeOK /\ MsgInv
      BY <1>1 DEF TableInv
    <2>1. mailbox[c].open
      BY <1>1 DEF ControlInv, ControlOf, Controlled
    <2>2. (IF future[m] = "cancelled" THEN 0 ELSE hits[m][c])
            = Occurs(mailbox[c].queue, m) + Occurs(taken[c], m)
              + Occurs(late[m], c) + Blocked(m, c)
      BY <1>1, <2>1 DEF NothingLostWhileOpen
    <2>3. /\ Occurs(mailbox[c].queue, m) \in Nat /\ Occurs(late[m], c) \in Nat
          /\ Blocked(m, c) \in Nat
      BY <2>0, BalanceTypes, BlockedIs
    <2>4. wire[c] \in Seq(Nat) /\ inHand[c] \in Nat
      BY <1>1 DEF HTypeOK
    <2>5. Occurs(wire[c], m) \in Nat
      BY <2>4, PlacesFinite
    <2>6. Occurs(taken[c], m) = Occurs(wire[c], m) + InHand(c, m)
      <3>1. CASE sendTask[c] \in {"none", "idle"}
        BY <1>1, <2>5, <3>1 DEF WireInv, InHand
      <3>2. CASE sendTask[c] = "writing"
        <4>1. taken[c] = Append(wire[c], inHand[c])
          BY <1>1, <3>2 DEF WireInv
        <4>2. Occurs(taken[c], m) = Occurs(wire[c], m) + (IF inHand[c] = m THEN 1 ELSE 0)
          BY <2>4, <4>1, OccursAppend
        <4> QED BY <3>2, <4>2 DEF InHand
      <3> QED BY <3>1, <3>2
    <2>7. InHand(c, m) \in Nat
      BY DEF InHand
    <2> QED BY <2>2, <2>3, <2>5, <2>6, <2>7
  <1>2. TableInv => TypeOK
    BY DEF TableInv
  <1> QED BY <1>1, <1>2, ControlInvariant, WireInit, WireStep, TableKeepsItsPromises, PTL DEF HSpec
=============================================================================
