----------------------------- MODULE Client_proofs -----------------------------
(***************************************************************************)
(* Theorems about Client, for any number of calls and frames.              *)
(***************************************************************************)
EXTENDS Client, SequenceTheorems, TLAPS

States == {"unborn", "wait_reader", "delivering"} \cup Reading \cup Writing \cup Over

(* Type invariant, of what MessagesReachOne rests on.                       *)
CTypeOK ==
  /\ peer \in Seq(FrameKinds)
  /\ op \in Seq(Ops) /\ Len(op) <= MaxCalls
  /\ readBy \in Seq(Calls) /\ Got <= Len(peer)
  /\ partial \in Calls \cup {0}
  /\ desync \in BOOLEAN
  /\ pc \in [Calls -> States]
  /\ frame \in [Calls -> 0 .. Got]

(* Why the reader's frames are told apart: as long as no part of a frame was *)
(* dropped, the one call inside a frame is the one the part is noted for,   *)
(* and the frame is there; and only a recv reads.                           *)
ReaderInv ==
  /\ ~ desync => \A i \in Calls : pc[i] = "midframe" => partial = i /\ Got < Len(peer)
  /\ \A i \in Calls : pc[i] \in {"wait_reader"} \cup Reading \/ frame[i] # 0 =>
       i \in DOMAIN op /\ op[i] # "close"
  /\ \A i \in Calls : i \notin DOMAIN op => pc[i] = "unborn"

CInv == CTypeOK /\ ReaderInv /\ MessagesReachOne

LEMMA Appended ==
  ASSUME NEW S, NEW s \in Seq(S), NEW e \in S
  PROVE  /\ Append(s, e) \in Seq(S) /\ Len(Append(s, e)) = Len(s) + 1
         /\ Append(s, e)[Len(s) + 1] = e
         /\ \A i \in 1 .. Len(s) : Append(s, e)[i] = s[i]
  BY AppendProperties

LEMMA CInit == Init => CInv
  <1> SUFFICES ASSUME Init PROVE CInv
    OBVIOUS
  <1> USE DEF Init, Got
  <1>1. CTypeOK
    <2>1. Len(op) = 0 /\ Len(readBy) = 0 /\ Len(peer) = 0
      OBVIOUS
    <2>2. peer \in Seq(FrameKinds) /\ op \in Seq(Ops) /\ readBy \in Seq(Calls)
      OBVIOUS
    <2>3. pc \in [Calls -> States] /\ frame \in [Calls -> 0 .. 0]
      <3>1. "unborn" \in States
        BY DEF States
      <3>2. pc \in [Calls -> States]
        BY <3>1, Zenon
      <3>3. frame \in [Calls -> 0 .. 0]
        <4>1. 0 \in 0 .. 0
          OBVIOUS
        <4> QED BY <4>1, Zenon
      <3> QED BY <3>2, <3>3
    <2>4. Got = 0 /\ 0 <= Len(peer) /\ Len(op) <= MaxCalls
      BY <2>1, ClientBounds
    <2>5. partial \in Calls \cup {0} /\ desync \in BOOLEAN
      OBVIOUS
    <2> HIDE DEF Init, Got
    <2> QED BY <2>2, <2>3, <2>4, <2>5 DEF CTypeOK
  <1>2. ReaderInv
    BY DEF ReaderInv, Calls, Reading
  <1>3. MessagesReachOne
    BY DEF MessagesReachOne
  <1> QED BY <1>1, <1>2, <1>3 DEF CInv

(* A step of one call that reads no frame and begins none.                  *)
Moves(i, s) ==
  /\ s \in States \ {"unborn", "wait_reader", "midframe"}
  /\ pc' = [pc EXCEPT ![i] = s]
  /\ s = "reading" => op[i] # "close"
  /\ \/ frame' = frame /\ (pc[i] \in {"delivering", "value", "cancelled"} =>
                             s \in {"value", "cancelled"} \/ IsClose(i))
     \/ frame' = [frame EXCEPT ![i] = 0] /\ pc[i] = "midwrite"
  /\ desync' \in {desync, TRUE}
  /\ partial' = partial \/ (partial = i /\ partial' = 0)
  /\ UNCHANGED <<peer, op, readBy>>

LEMMA MoveKeeps ==
  ASSUME CInv, NEW i \in Calls, i \in DOMAIN op, NEW s, Moves(i, s)
  PROVE  CInv'
  <1> USE DEF CInv, Moves
  <1>1. CTypeOK'
    <2>1. frame' \in [Calls -> 0 .. Got]
      BY DEF CTypeOK, Got
    <2>2. pc' \in [Calls -> States]
      BY DEF CTypeOK
    <2>3. desync' \in BOOLEAN /\ partial' \in Calls \cup {0}
      BY DEF CTypeOK
    <2> QED BY <2>1, <2>2, <2>3 DEF CTypeOK, Got
  <1>2. ReaderInv'
    <2>1. \A j \in Calls : /\ frame'[j] # 0 => frame[j] # 0
                           /\ j # i => pc'[j] = pc[j]
                           /\ pc'[i] = s
      BY DEF CTypeOK
    <2>2. ASSUME ~ desync', NEW j \in Calls, pc'[j] = "midframe"
          PROVE  partial' = j /\ Got' < Len(peer')
      <3>1. ~ desync
        BY <2>2 DEF CTypeOK
      <3>2. j # i /\ pc[j] = "midframe"
        BY <2>1, <2>2
      <3>3. partial = j /\ Got < Len(peer)
        BY <3>1, <3>2 DEF ReaderInv
      <3> QED BY <3>2, <3>3 DEF Got
    <2>3. \A j \in Calls : pc'[j] \in {"wait_reader"} \cup Reading \/ frame'[j] # 0 =>
            j \in DOMAIN op' /\ op'[j] # "close"
      BY <2>1 DEF ReaderInv, Reading
    <2> QED BY <2>1, <2>2, <2>3 DEF ReaderInv
  <1>3. MessagesReachOne'
    <2> SUFFICES ASSUME NEW n \in 1 .. Got, peer[n] = "data"
                 PROVE  /\ frame'[readBy[n]] = n
                        /\ pc'[readBy[n]] \in {"delivering", "value", "cancelled"}
      BY DEF MessagesReachOne, Got
    <2>1. /\ readBy[n] \in Calls /\ frame[readBy[n]] = n /\ n # 0
          /\ pc[readBy[n]] \in {"delivering", "value", "cancelled"}
      BY DEF MessagesReachOne, CTypeOK, Got
    <2>2. CASE readBy[n] # i
      BY <2>1, <2>2 DEF CTypeOK
    <2>3. CASE readBy[n] = i
      <3>1. ~ IsClose(i)
        BY <2>1, <2>3 DEF IsClose, ReaderInv
      <3> QED BY <2>1, <2>3, <3>1 DEF CTypeOK
    <2> QED BY <2>2, <2>3
  <1> QED BY <1>1, <1>2, <1>3

(* The steps that are such moves.                                           *)
LEMMA MovesAre ==
  ASSUME CInv, NEW i \in Calls, i \in DOMAIN op,
         \/ EnterReader(i) \/ BeginWrite(i) \/ FinishWrite(i) \/ Deliver(i) \/ Fails(i)
         \/ Timeout(i) \/ Cancel(i)
  PROVE  \E s : Moves(i, s)
  <1> USE DEF Moves, CInv, States, Reading, Writing, Over, Cut
  <1>1. CASE EnterReader(i)
    <2>1. Moves(i, "reading")
      BY <1>1 DEF EnterReader, Goes, ReaderInv
    <2> QED BY <2>1
  <1>2. CASE BeginWrite(i)
    <2>1. Moves(i, "midwrite")
      BY <1>2 DEF BeginWrite, Goes
    <2> QED BY <2>1
  <1>3. CASE FinishWrite(i)
    <2>1. CASE frame[i] = 0
      <3>1. Moves(i, "done")
        BY <1>3, <2>1 DEF FinishWrite
      <3> QED BY <3>1
    <2>2. CASE frame[i] # 0 /\ ~ IsClose(i)
      <3>1. Moves(i, "reading")
        BY <1>3, <2>2 DEF FinishWrite, ReaderInv
      <3> QED BY <3>1
    <2>3. CASE frame[i] # 0 /\ IsClose(i)
      <3>1. Moves(i, "delivering")
        BY <1>3, <2>3 DEF FinishWrite
      <3> QED BY <3>1
    <2> QED BY <2>1, <2>2, <2>3
  <1>4. CASE Deliver(i)
    <2>1. Moves(i, IF IsClose(i) THEN "closed" ELSE "value")
      BY <1>4 DEF Deliver, Goes
    <2> QED BY <2>1
  <1>5. CASE Fails(i)
    <2>1. Moves(i, "raised")
      BY <1>5 DEF Fails, Leaves
    <2> QED BY <2>1
  <1>6. CASE Timeout(i)
    <2>1. Moves(i, "timed_out")
      BY <1>6 DEF Timeout, CutShort, Leaves
    <2> QED BY <2>1
  <1>7. CASE Cancel(i)
    <2>1. Moves(i, "cancelled")
      BY <1>7 DEF Cancel, CutShort, Leaves
    <2> QED BY <2>1
  <1> QED BY <1>1, <1>2, <1>3, <1>4, <1>5, <1>6, <1>7

(* Two recv calls are inside a frame at once only when a part of one was    *)
(* dropped.                                                                 *)
LEMMA BeginFrameKeeps ==
  ASSUME CInv, NEW i \in Calls, i \in DOMAIN op, BeginFrame(i)
  PROVE  CInv'
  <1> USE DEF CInv, BeginFrame, Goes
  <1>1. CTypeOK'
    BY DEF CTypeOK, Got, States, Reading
  <1>2. ReaderInv'
    <2>1. \A j \in Calls : j # i => pc'[j] = pc[j]
      BY DEF CTypeOK
    <2>2. pc'[i] = "midframe" /\ pc[i] = "reading"
      BY DEF CTypeOK
    <2>3. ASSUME ~ desync', NEW j \in Calls, pc'[j] = "midframe"
          PROVE  partial' = j /\ Got' < Len(peer')
      <3>1. ~ desync /\ partial = 0
        BY <2>3 DEF CTypeOK
      <3>2. j = i
        BY <2>1, <2>3, <3>1 DEF ReaderInv, Calls
      <3> QED BY <3>2 DEF Got
    <2>4. \A j \in Calls : pc'[j] \in {"wait_reader"} \cup Reading \/ frame'[j] # 0 =>
            j \in DOMAIN op' /\ op'[j] # "close"
      BY <2>1, <2>2 DEF ReaderInv, Reading
    <2> QED BY <2>1, <2>3, <2>4 DEF ReaderInv
  <1>3. MessagesReachOne'
    <2> SUFFICES ASSUME NEW n \in 1 .. Got, peer[n] = "data"
                 PROVE  /\ frame'[readBy[n]] = n
                        /\ pc'[readBy[n]] \in {"delivering", "value", "cancelled"}
      BY DEF MessagesReachOne, Got
    <2> QED BY DEF MessagesReachOne, CTypeOK, Got
  <1> QED BY <1>1, <1>2, <1>3

LEMMA FinishFrameKeeps ==
  ASSUME CInv, NEW i \in Calls, i \in DOMAIN op, FinishFrame(i)
  PROVE  CInv'
  <1>1. CASE desync \/ peer[Got + 1] = "large"
    <2> USE DEF CInv, FinishFrame
    <2>1. /\ pc' = [pc EXCEPT ![i] = "raised"] /\ partial' = 0 /\ pc[i] = "midframe"
          /\ desync' \in BOOLEAN /\ UNCHANGED <<readBy, frame, peer, op>>
      BY <1>1
    <2>2. CTypeOK'
      BY <2>1 DEF CTypeOK, Got, States, Over
    <2>3. ReaderInv'
      BY <1>1, <2>1 DEF CTypeOK, ReaderInv, Got, Reading
    <2>4. MessagesReachOne'
      BY <2>1 DEF CTypeOK, MessagesReachOne, Got
    <2> QED BY <2>2, <2>3, <2>4
  <1>2. CASE ~ desync /\ peer[Got + 1] # "large"
    <2>1. /\ pc[i] = "midframe" /\ partial' = 0 /\ UNCHANGED <<peer, op, desync>>
          /\ readBy' = Append(readBy, i) /\ frame' = [frame EXCEPT ![i] = Got + 1]
      BY <1>2 DEF FinishFrame
    <2>2. PICK s \in {"delivering", "raised", "wait_writer"} :
            pc' = [pc EXCEPT ![i] = s] /\ (peer[Got + 1] = "data" => s = "delivering")
      BY <1>2 DEF FinishFrame
    <2>3. /\ Got \in Nat /\ Got' = Got + 1 /\ Got < Len(peer) /\ Len(peer) \in Nat
          /\ readBy' \in Seq(Calls) /\ readBy'[Got + 1] = i
          /\ \A n \in 1 .. Got : readBy'[n] = readBy[n]
      BY <1>2, <2>1, Appended, LenProperties DEF CInv, CTypeOK, ReaderInv, Got
    <2>4. /\ pc'[i] = s /\ frame'[i] = Got + 1
          /\ \A j \in Calls : j # i => pc'[j] = pc[j] /\ frame'[j] = frame[j]
      BY <2>1, <2>2 DEF CInv, CTypeOK
    <2>5. CTypeOK'
      <3>1. frame' \in [Calls -> 0 .. Got']
        BY <2>1, <2>3 DEF CInv, CTypeOK
      <3>2. pc' \in [Calls -> States]
        BY <2>2 DEF CInv, CTypeOK, States, Over, Writing
      <3> QED BY <2>1, <2>3, <3>1, <3>2 DEF CInv, CTypeOK
    <2>6. ReaderInv'
      <3>1. \A j \in Calls : pc'[j] # "midframe"
        BY <1>2, <2>1, <2>2, <2>4 DEF CInv, ReaderInv
      <3>2. i \in DOMAIN op /\ op[i] # "close"
        BY <2>1 DEF CInv, ReaderInv, Reading
      <3>3. \A j \in Calls : pc'[j] \in {"wait_reader"} \cup Reading \/ frame'[j] # 0 =>
              j \in DOMAIN op' /\ op'[j] # "close"
        BY <2>1, <2>4, <3>2, <2>2 DEF CInv, ReaderInv
      <3>4. \A j \in Calls : j \notin DOMAIN op' => pc'[j] = "unborn"
        BY <2>1, <2>4, <3>2 DEF CInv, ReaderInv
      <3> QED BY <3>1, <3>3, <3>4 DEF ReaderInv
    <2>7. MessagesReachOne'
      <3> SUFFICES ASSUME NEW n \in 1 .. Got + 1, peer[n] = "data"
                   PROVE  /\ frame'[readBy'[n]] = n
                          /\ pc'[readBy'[n]] \in {"delivering", "value", "cancelled"}
        BY <2>1, <2>3 DEF MessagesReachOne
      <3>1. CASE n = Got + 1
        BY <2>2, <2>3, <2>4, <3>1
      <3>2. CASE n \in 1 .. Got
        <4>1. /\ readBy[n] \in Calls /\ frame[readBy[n]] = n
              /\ pc[readBy[n]] \in {"delivering", "value", "cancelled"}
          BY <3>2 DEF CInv, CTypeOK, MessagesReachOne, Got
        <4>2. readBy[n] # i
          BY <2>1, <4>1
        <4> QED BY <2>3, <2>4, <3>2, <4>1, <4>2
      <3> QED BY <2>3, <3>1, <3>2
    <2> QED BY <2>5, <2>6, <2>7 DEF CInv
  <1> QED BY <1>1, <1>2 DEF CInv, CTypeOK

LEMMA CallKeeps ==
  ASSUME CInv, NEW o \in Ops, Call(o)
  PROVE  CInv'
  <1> DEFINE i == Len(op) + 1
  <1>1. /\ Len(op) \in Nat /\ DOMAIN op = 1 .. Len(op)
        /\ op' \in Seq(Ops) /\ Len(op') = i /\ DOMAIN op' = 1 .. i
        /\ op'[i] = o /\ \A j \in 1 .. Len(op) : op'[j] = op[j]
    BY Appended, LenProperties DEF CInv, CTypeOK, Call
  <1>2. i \in Calls /\ i \notin DOMAIN op
    BY <1>1, ClientBounds DEF Call, Calls
  <1>3. PICK s \in {"wait_reader", "wait_writer"} :
          /\ pc' = [pc EXCEPT ![i] = s] /\ pc[i] = "unborn"
          /\ s = "wait_reader" => o # "close"
    BY <1>1 DEF Call, Goes
  <1>4. UNCHANGED <<peer, readBy, partial, desync, frame>>
    BY DEF Call
  <1>5. pc'[i] = s /\ \A j \in Calls : j # i => pc'[j] = pc[j]
    BY <1>2, <1>3 DEF CInv, CTypeOK
  <1>6. CTypeOK'
    <2>1. pc' \in [Calls -> States]
      BY <1>3 DEF CInv, CTypeOK, States, Writing
    <2>2. Len(op') <= MaxCalls
      BY <1>1, ClientBounds DEF Call
    <2> QED BY <1>1, <1>4, <2>1, <2>2 DEF CInv, CTypeOK, Got
  <1>7. ReaderInv'
    <2>1. \A j \in Calls : pc'[j] = "midframe" => pc[j] = "midframe"
      BY <1>3, <1>5
    <2>2. ~ desync' => \A j \in Calls : pc'[j] = "midframe" => partial' = j /\ Got' < Len(peer')
      BY <1>4, <2>1 DEF CInv, ReaderInv, Got
    <2>3. \A j \in Calls : pc'[j] \in {"wait_reader"} \cup Reading \/ frame'[j] # 0 =>
            j \in DOMAIN op' /\ op'[j] # "close"
      <3>1. frame[i] = 0
        BY <1>2 DEF CInv, ReaderInv
      <3>2. i \in DOMAIN op'
        BY <1>1
      <3>3. \A j \in DOMAIN op : j \in DOMAIN op' /\ op'[j] = op[j]
        BY <1>1
      <3> QED BY <1>1, <1>3, <1>4, <1>5, <3>1, <3>2, <3>3 DEF CInv, ReaderInv, Reading
    <2>4. \A j \in Calls : j \notin DOMAIN op' => pc'[j] = "unborn"
      BY <1>1, <1>5 DEF CInv, ReaderInv
    <2> QED BY <2>2, <2>3, <2>4 DEF ReaderInv
  <1>8. MessagesReachOne'
    <2> SUFFICES ASSUME NEW n \in 1 .. Got, peer[n] = "data"
                 PROVE  /\ frame[readBy[n]] = n
                        /\ pc'[readBy[n]] \in {"delivering", "value", "cancelled"}
      BY <1>4 DEF MessagesReachOne, Got
    <2>1. /\ readBy[n] \in Calls /\ frame[readBy[n]] = n
          /\ pc[readBy[n]] \in {"delivering", "value", "cancelled"}
      BY DEF CInv, CTypeOK, MessagesReachOne, Got
    <2> QED BY <1>3, <1>5, <2>1
  <1> QED BY <1>6, <1>7, <1>8 DEF CInv

LEMMA PeerKeeps ==
  ASSUME CInv, NEW k \in FrameKinds, PeerSends(k)
  PROVE  CInv'
  <1>1. /\ peer' \in Seq(FrameKinds) /\ Len(peer) \in Nat /\ Len(peer') = Len(peer) + 1
        /\ \A n \in 1 .. Len(peer) : peer'[n] = peer[n]
    BY Appended, LenProperties DEF CInv, CTypeOK, PeerSends
  <1>2. UNCHANGED <<readBy, partial, desync, op, pc, frame>>
    BY DEF PeerSends
  <1>3. Got \in Nat /\ Got <= Len(peer) /\ Got' = Got
    BY <1>2, LenProperties DEF CInv, CTypeOK, Got
  <1>4. CTypeOK'
    BY <1>1, <1>2, <1>3 DEF CInv, CTypeOK
  <1>5. ReaderInv'
    <2>1. Got < Len(peer) => Got' < Len(peer')
      BY <1>1, <1>3
    <2> QED BY <1>2, <2>1 DEF CInv, ReaderInv
  <1>6. MessagesReachOne'
    <2>1. \A n \in 1 .. Got' : n \in 1 .. Got /\ peer'[n] = peer[n]
      BY <1>1, <1>3
    <2> QED BY <1>2, <2>1 DEF CInv, MessagesReachOne
  <1> QED BY <1>4, <1>5, <1>6 DEF CInv

LEMMA CStep == CInv /\ [Next]_vars => CInv'
  <1> SUFFICES ASSUME CInv, [Next]_vars PROVE CInv'
    OBVIOUS
  <1>1. ASSUME NEW o \in Ops, Call(o) PROVE CInv'
    BY <1>1, CallKeeps
  <1>2. ASSUME NEW i \in DOMAIN op, CallStep(i) \/ Timeout(i) \/ Cancel(i) PROVE CInv'
    <2>1. i \in Calls
      BY ClientBounds, LenProperties DEF CInv, CTypeOK, Calls
    <2>2. CASE BeginFrame(i)
      BY <2>1, <2>2, BeginFrameKeeps
    <2>3. CASE FinishFrame(i)
      BY <2>1, <2>3, FinishFrameKeeps
    <2>4. CASE \E s : Moves(i, s)
      BY <2>1, <2>4, MoveKeeps
    <2> QED BY <1>2, <2>1, <2>2, <2>3, <2>4, MovesAre DEF CallStep
  <1>3. ASSUME NEW k \in FrameKinds, PeerSends(k) PROVE CInv'
    BY <1>3, PeerKeeps
  <1>4. CASE UNCHANGED <<peer, readBy, partial, desync, op, pc, frame>>
    BY <1>4 DEF CInv, CTypeOK, ReaderInv, MessagesReachOne, Got
  <1> QED BY <1>1, <1>2, <1>3, <1>4 DEF Next, LinkWorsens, vars

(* A message is handed to exactly one recv, which returns it or has its     *)
(* task cancelled: a recv that times out has taken none, whatever the       *)
(* number of calls and wherever in a frame the timeout falls.               *)
THEOREM MessagesAreNotLost == Spec => []MessagesReachOne
  <1>1. Spec => []CInv
    BY CInit, CStep, PTL DEF Spec
  <1>2. CInv => MessagesReachOne
    BY DEF CInv
  <1> QED BY <1>1, <1>2, PTL

-----------------------------------------------------------------------------
(* The locks.  A call inside a frame, or with a frame it has to answer, has *)
(* the reader; a call inside a write has the writer.                        *)
At(s, i) == s # << >> /\ Head(s) = i

HasReader(i) == pc[i] \in Reading \/ (pc[i] \in Writing /\ frame[i] # 0)

LockInv ==
  /\ rlock \in Seq(Calls) /\ wlock \in Seq(Calls) /\ half \in Calls \cup {0}
  /\ \A i \in Calls : HasReader(i) => At(rlock, i)
  /\ \A i \in Calls : pc[i] = "midwrite" => At(wlock, i)
  /\ \A i \in Calls : partial = i => pc[i] = "midframe"
  /\ \A i \in Calls : half = i => pc[i] = "midwrite"

LEMMA WithoutKeeps ==
  ASSUME NEW S, NEW s \in Seq(S), NEW i
  PROVE  /\ Without(s, i) \in Seq(S)
         /\ \A j : j # i /\ At(s, j) => At(Without(s, i), j)
  <1>1. CASE ~ Contains(s, i)
    BY <1>1 DEF Without
  <1>2. CASE Contains(s, i)
    <2> DEFINE k == CHOOSE k \in DOMAIN s : s[k] = i
               a == SubSeq(s, 1, k - 1)
               b == SubSeq(s, k + 1, Len(s))
    <2>1. Len(s) \in Nat /\ DOMAIN s = 1 .. Len(s)
      BY LenProperties
    <2>2. k \in 1 .. Len(s) /\ s[k] = i
      BY <1>2, <2>1 DEF Contains
    <2>3. Without(s, i) = a \o b
      BY <1>2 DEF Without, RemoveAt
    <2> HIDE DEF k
    <2>4. a \in Seq(S) /\ Len(a) = k - 1 /\ \A n \in 1 .. k - 1 : a[n] = s[n]
      BY <2>1, <2>2, SubSeqProperties
    <2>5. b \in Seq(S)
      BY <2>1, <2>2, SubSeqProperties
    <2> HIDE DEF a, b
    <2>6. /\ a \o b \in Seq(S) /\ Len(a \o b) = Len(a) + Len(b)
          /\ \A n \in 1 .. Len(a) + Len(b) : (a \o b)[n] = IF n <= Len(a) THEN a[n] ELSE b[n - Len(a)]
      BY <2>4, <2>5, ConcatProperties
    <2>7. ASSUME NEW j, j # i, At(s, j) PROVE At(a \o b, j)
      <3>1. s # << >> /\ s[1] = j
        BY <2>7, HeadTailProperties DEF At
      <3>2. k - 1 \in Nat \ {0} /\ Len(b) \in Nat
        BY <2>1, <2>2, <2>5, <2>7, <3>1, LenProperties
      <3>3. (a \o b)[1] = j /\ Len(a \o b) > 0
        <4>1. Len(a) = k - 1 /\ 1 <= Len(a) /\ 1 \in 1 .. Len(a) + Len(b) /\ 1 \in 1 .. k - 1
          BY <2>1, <2>2, <2>4, <3>2
        <4>2. (a \o b)[1] = a[1]
          BY <2>6, <4>1
        <4>3. a[1] = s[1]
          BY <2>4, <4>1
        <4> QED BY <2>6, <3>1, <3>2, <4>1, <4>2, <4>3
      <3>4. a \o b # << >>
        BY <3>3
      <3>5. Head(a \o b) = (a \o b)[1]
        BY <2>6, <3>4, HeadTailProperties
      <3> QED BY <3>3, <3>4, <3>5 DEF At
    <2> QED BY <2>3, <2>6, <2>7
  <1> QED BY <1>1, <1>2

LEMMA AppendKeeps ==
  ASSUME NEW S, NEW s \in Seq(S), NEW e \in S
  PROVE  /\ Append(s, e) \in Seq(S)
         /\ \A j : At(s, j) => At(Append(s, e), j)
  <1>1. /\ Append(s, e) \in Seq(S) /\ Len(Append(s, e)) = Len(s) + 1 /\ Len(s) \in Nat
        /\ \A i \in 1 .. Len(s) : Append(s, e)[i] = s[i]
    BY Appended, LenProperties
  <1>2. ASSUME NEW j, At(s, j) PROVE At(Append(s, e), j)
    <2>1. s # << >> /\ Len(s) # 0 /\ s[1] = j
      BY <1>2, HeadTailProperties, LenProperties, EmptySeq DEF At
    <2>2. Append(s, e) # << >> /\ Append(s, e)[1] = j
      BY <1>1, <2>1
    <2>3. Head(Append(s, e)) = Append(s, e)[1]
      BY <1>1, <2>2, HeadTailProperties
    <2> QED BY <2>2, <2>3 DEF At
  <1> QED BY <1>1, <1>2

(* A step of one call: whoever else is first in a line stays so.            *)
Keeps(s, t, i) == t \in Seq(Calls) /\ \A j \in Calls \ {i} : At(s, j) => At(t, j)

LockMove(i) ==
  /\ \A j \in Calls \ {i} : pc'[j] = pc[j] /\ frame'[j] = frame[j]
  /\ Keeps(rlock, rlock', i) /\ Keeps(wlock, wlock', i)
  /\ HasReader(i)' => At(rlock', i)
  /\ pc'[i] = "midwrite" => At(wlock', i)
  /\ partial' \in {partial, 0, i} /\ (partial' = i => pc'[i] = "midframe")
  /\ half' \in {half, 0, i} /\ (half' = i => pc'[i] = "midwrite")

LEMMA LockMoveKeeps ==
  ASSUME LockInv, NEW i \in Calls, LockMove(i)
  PROVE  LockInv'
  <1>0. \A j \in Calls : j # 0
    BY DEF Calls
  <1>1. \A j \in Calls : HasReader(j)' => At(rlock, j)'
    BY DEF LockMove, LockInv, HasReader, Keeps
  <1>2. \A j \in Calls : pc'[j] = "midwrite" => At(wlock, j)'
    BY DEF LockMove, LockInv, Keeps
  <1>3. \A j \in Calls : partial' = j => pc'[j] = "midframe"
    BY <1>0 DEF LockMove, LockInv
  <1>4. \A j \in Calls : half' = j => pc'[j] = "midwrite"
    BY <1>0 DEF LockMove, LockInv
  <1>5. rlock' \in Seq(Calls) /\ wlock' \in Seq(Calls) /\ half' \in Calls \cup {0}
    BY DEF LockMove, LockInv, Keeps
  <1> QED BY <1>1, <1>2, <1>3, <1>4, <1>5 DEF LockInv

LEMMA LocksMove ==
  ASSUME CInv, LockInv, NEW i \in Calls, i \in DOMAIN op, CallStep(i) \/ Timeout(i) \/ Cancel(i)
  PROVE  LockMove(i)
  <1>0. /\ pc \in [Calls -> States] /\ frame \in [Calls -> 0 .. Got]
        /\ rlock \in Seq(Calls) /\ wlock \in Seq(Calls)
    BY DEF CInv, CTypeOK, LockInv
  <1>1. /\ Keeps(rlock, rlock, i) /\ Keeps(wlock, wlock, i)
        /\ Keeps(rlock, Without(rlock, i), i) /\ Keeps(wlock, Without(wlock, i), i)
        /\ Keeps(wlock, Append(wlock, i), i)
    BY <1>0, WithoutKeeps, AppendKeeps DEF Keeps
  <1>2. HasReader(i) => At(rlock, i)
    BY DEF LockInv
  <1>3. CASE EnterReader(i)
    <2>1. pc' = [pc EXCEPT ![i] = "reading"] /\ At(rlock, i)
          /\ UNCHANGED <<frame, rlock, wlock, partial, half>> /\ pc[i] = "wait_reader"
      BY <1>3 DEF EnterReader, Goes, At
    <2>2. partial # i /\ half # i
      BY <2>1 DEF LockInv
    <2> QED BY <1>0, <1>1, <2>1, <2>2 DEF LockMove
  <1>4. CASE BeginFrame(i)
    <2>1. pc' = [pc EXCEPT ![i] = "midframe"] /\ partial' = i /\ pc[i] = "reading"
          /\ UNCHANGED <<frame, rlock, wlock, half>>
      BY <1>4 DEF BeginFrame, Goes
    <2>2. half # i /\ At(rlock, i)
      BY <1>2, <2>1 DEF LockInv, HasReader, Reading
    <2> QED BY <1>0, <1>1, <2>1, <2>2 DEF LockMove
  <1>5. CASE FinishFrame(i)
    <2>1. pc[i] = "midframe" /\ partial' = 0 /\ UNCHANGED half
      BY <1>5 DEF FinishFrame
    <2>2. half # i /\ At(rlock, i) /\ i # 0
      BY <1>2, <2>1 DEF LockInv, HasReader, Reading, Calls
    <2>3. frame' = frame \/ frame' = [frame EXCEPT ![i] = Got + 1]
      BY <1>5 DEF FinishFrame
    <2>4. ASSUME NEW s \in {"delivering", "raised"}, pc' = [pc EXCEPT ![i] = s],
                 rlock' = Without(rlock, i), UNCHANGED wlock
          PROVE  LockMove(i)
      <3>1. pc'[i] = s /\ ~ HasReader(i)'
        BY <1>0, <2>4 DEF HasReader, Reading, Writing
      <3> QED BY <1>0, <1>1, <2>1, <2>2, <2>3, <2>4, <3>1 DEF LockMove
    <2>5. ASSUME pc' = [pc EXCEPT ![i] = "wait_writer"], wlock' = Append(wlock, i), UNCHANGED rlock
          PROVE  LockMove(i)
      BY <1>0, <1>1, <2>1, <2>2, <2>3, <2>5 DEF LockMove
    <2> QED BY <1>5, <2>4, <2>5 DEF FinishFrame
  <1>6. CASE BeginWrite(i)
    <2>1. pc' = [pc EXCEPT ![i] = "midwrite"] /\ half' = i /\ pc[i] = "wait_writer" /\ At(wlock, i)
          /\ UNCHANGED <<frame, rlock, wlock, partial>>
      BY <1>6 DEF BeginWrite, Goes, At
    <2>2. partial # i
      BY <2>1 DEF LockInv
    <2>3. HasReader(i)' => At(rlock, i)
      BY <1>0, <1>2, <2>1 DEF HasReader, Reading, Writing
    <2> QED BY <1>0, <1>1, <2>1, <2>2, <2>3 DEF LockMove
  <1>7. CASE FinishWrite(i)
    <2>1. /\ pc[i] = "midwrite" /\ half' = 0 /\ wlock' = Without(wlock, i) /\ UNCHANGED partial
      BY <1>7 DEF FinishWrite
    <2>2. partial # i /\ i # 0
      BY <2>1 DEF LockInv, Calls
    <2>3. ASSUME NEW s \in {"done", "delivering"}, pc' = [pc EXCEPT ![i] = s], UNCHANGED frame,
                 rlock' = rlock \/ rlock' = Without(rlock, i)
          PROVE  LockMove(i)
      <3>1. pc'[i] = s /\ ~ HasReader(i)'
        BY <1>0, <2>3 DEF HasReader, Reading, Writing
      <3> QED BY <1>0, <1>1, <2>1, <2>2, <2>3, <3>1 DEF LockMove
    <2>4. ASSUME pc' = [pc EXCEPT ![i] = "reading"], frame' = [frame EXCEPT ![i] = 0],
                 UNCHANGED rlock, frame[i] # 0
          PROVE  LockMove(i)
      <3>1. At(rlock, i)
        BY <1>2, <2>1, <2>4 DEF HasReader, Writing
      <3> QED BY <1>0, <1>1, <2>1, <2>2, <2>4, <3>1 DEF LockMove
    <2> QED BY <1>7, <2>3, <2>4 DEF FinishWrite
  <1>8. CASE Deliver(i)
    <2>1. PICK s \in {"closed", "value"} : pc' = [pc EXCEPT ![i] = s]
      BY <1>8 DEF Deliver, Goes
    <2>2. UNCHANGED <<frame, rlock, wlock, partial, half>> /\ pc[i] = "delivering"
      BY <1>8 DEF Deliver, Goes
    <2>3. partial # i /\ half # i
      BY <2>2 DEF LockInv
    <2>4. pc'[i] = s /\ ~ HasReader(i)'
      BY <1>0, <2>1 DEF HasReader, Reading, Writing
    <2> QED BY <1>0, <1>1, <2>1, <2>2, <2>3, <2>4 DEF LockMove
  <1>9. ASSUME NEW s \in {"raised", "timed_out", "cancelled"}, Leaves(i, s) PROVE LockMove(i)
    <2>1. pc' = [pc EXCEPT ![i] = s] /\ rlock' = Without(rlock, i) /\ wlock' = Without(wlock, i)
          /\ UNCHANGED frame /\ partial' = (IF partial = i THEN 0 ELSE partial)
          /\ half' = IF half = i THEN 0 ELSE half
      BY <1>9 DEF Leaves
    <2>2. pc'[i] = s /\ ~ HasReader(i)' /\ i # 0
      BY <1>0, <2>1 DEF HasReader, Reading, Writing, Calls
    <2> QED BY <1>0, <1>1, <2>1, <2>2 DEF LockMove
  <1>10. Fails(i) \/ Timeout(i) \/ Cancel(i) =>
           \E s \in {"raised", "timed_out", "cancelled"} : Leaves(i, s)
    BY DEF Fails, Timeout, Cancel, CutShort
  <1> QED BY <1>3, <1>4, <1>5, <1>6, <1>7, <1>8, <1>9, <1>10 DEF CallStep

LEMMA LockInit == Init => LockInv
  <1> SUFFICES ASSUME Init PROVE LockInv
    OBVIOUS
  <1>1. \A i \in Calls : i # 0 /\ pc[i] = "unborn"
    BY DEF Init, Calls
  <1>2. rlock \in Seq(Calls) /\ wlock \in Seq(Calls) /\ half = 0 /\ partial = 0
    BY DEF Init
  <1> QED BY <1>1, <1>2 DEF LockInv, HasReader, Reading, Writing

LEMMA LockStep == CInv /\ LockInv /\ [Next]_vars => LockInv'
  <1> SUFFICES ASSUME CInv, LockInv, [Next]_vars PROVE LockInv'
    OBVIOUS
  <1>1. ASSUME NEW o \in Ops, Call(o) PROVE LockInv'
    <2>0. PICK i \in Nat : i = Len(op')
      <3>1. Len(op') \in Nat
        BY <1>1, Appended, LenProperties DEF CInv, CTypeOK, Call
      <3> QED BY <3>1
    <2>1. i \in Calls /\ op' = Append(op, o)
      <3>1. Len(op) \in Nat /\ Len(op') = Len(op) + 1 /\ Len(op) < MaxCalls
        BY <1>1, Appended, LenProperties DEF CInv, CTypeOK, Call
      <3> QED BY <1>1, <2>0, <3>1, ClientBounds DEF Call, Calls
    <2>2. pc[i] = "unborn" /\ UNCHANGED <<frame, partial, half>>
      BY <1>1, <2>0 DEF Call, Goes
    <2>3. \/ /\ pc' = [pc EXCEPT ![i] = "wait_reader"] /\ rlock' = Append(rlock, i) /\ UNCHANGED wlock
          \/ /\ pc' = [pc EXCEPT ![i] = "wait_writer"] /\ wlock' = Append(wlock, i) /\ UNCHANGED rlock
      BY <1>1, <2>0 DEF Call, Goes
    <2>4. frame[i] = 0
      <3>1. i \notin DOMAIN op
        <4>1. Len(op) \in Nat /\ DOMAIN op = 1 .. Len(op) /\ Len(op') = Len(op) + 1
          BY <1>1, Appended, LenProperties DEF CInv, CTypeOK, Call
        <4> QED BY <2>0, <4>1
      <3> QED BY <2>1, <3>1 DEF CInv, ReaderInv
    <2>5. Keeps(rlock, rlock', i) /\ Keeps(wlock, wlock', i)
      <3>1. rlock \in Seq(Calls) /\ wlock \in Seq(Calls)
        BY DEF LockInv
      <3>2. Keeps(rlock, rlock, i) /\ Keeps(wlock, wlock, i)
        BY <3>1 DEF Keeps
      <3>3. Keeps(rlock, Append(rlock, i), i) /\ Keeps(wlock, Append(wlock, i), i)
        BY <2>1, <3>1, AppendKeeps DEF Keeps
      <3> QED BY <2>3, <3>2, <3>3
    <2>6. partial # i /\ half # i
      BY <2>1, <2>2 DEF LockInv
    <2>7. pc \in [Calls -> States]
      BY DEF CInv, CTypeOK
    <2>8. /\ \A j \in Calls \ {i} : pc'[j] = pc[j]
          /\ pc'[i] \in {"wait_reader", "wait_writer"}
      BY <2>1, <2>3, <2>7
    <2>9. ~ HasReader(i)' /\ pc'[i] # "midwrite"
      BY <2>2, <2>4, <2>8 DEF HasReader, Reading, Writing
    <2>10. LockMove(i)
      BY <2>2, <2>5, <2>6, <2>8, <2>9 DEF LockMove
    <2> QED BY <2>1, <2>10, LockMoveKeeps
  <1>2. ASSUME NEW i \in DOMAIN op, CallStep(i) \/ Timeout(i) \/ Cancel(i) PROVE LockInv'
    <2>1. i \in Calls
      BY ClientBounds, LenProperties DEF CInv, CTypeOK, Calls
    <2> QED BY <1>2, <2>1, LocksMove, LockMoveKeeps
  <1>3. CASE UNCHANGED <<pc, frame, rlock, wlock, partial, half>>
    BY <1>3 DEF LockInv, HasReader
  <1> QED BY <1>1, <1>2, <1>3 DEF Next, PeerSends, LinkWorsens, vars

(* Two calls never have one lock.                                           *)
LEMMA OneHasIt ==
  ASSUME LockInv, NEW i \in Calls, NEW j \in Calls
  PROVE  /\ HasReader(i) /\ HasReader(j) => i = j
         /\ pc[i] = "midwrite" /\ At(wlock, j) => i = j
  BY DEF LockInv, At

(* A call that was cut short stays so.                                      *)
LEMMA CutStays ==
  ASSUME CInv, [Next]_vars, NEW i \in Calls, pc[i] \in Cut
  PROVE  pc'[i] \in Cut
  <1>1. pc \in [Calls -> States]
    BY DEF CInv, CTypeOK
  <1>2. ASSUME NEW o \in Ops, Call(o) PROVE pc'[i] = pc[i]
    <2>1. PICK n, s : pc' = [pc EXCEPT ![n] = s] /\ pc[n] = "unborn"
      BY <1>2 DEF Call, Goes
    <2> QED BY <1>1, <2>1 DEF Cut
  <1>3. ASSUME NEW n \in DOMAIN op, CallStep(n) \/ Timeout(n) \/ Cancel(n) PROVE pc'[i] = pc[i]
    <2>1. \E s : pc' = [pc EXCEPT ![n] = s]
      BY <1>3 DEF CallStep, EnterReader, BeginFrame, FinishFrame, BeginWrite, FinishWrite, Deliver,
                  Fails, Timeout, Cancel, CutShort, Leaves, Goes
    <2>2. pc[n] \notin Cut
      BY <1>3 DEF CallStep, EnterReader, BeginFrame, FinishFrame, BeginWrite, FinishWrite, Deliver,
                  Fails, Timeout, Cancel, Goes, Cut, Reading, Writing, Over
    <2> QED BY <1>1, <2>1, <2>2
  <1>4. CASE UNCHANGED pc
    BY <1>4
  <1> QED BY <1>2, <1>3, <1>4 DEF Next, PeerSends, LinkWorsens, vars

LEMMA WholeStep == CInv /\ LockInv /\ WholeFrames /\ [Next]_vars => WholeFrames'
  <1> SUFFICES ASSUME CInv, LockInv, WholeFrames, [Next]_vars PROVE WholeFrames'
    OBVIOUS
  <1>1. (\E i \in Calls : pc[i] \in Cut) => WholeFrames'
    BY CutStays DEF WholeFrames
  <1>0. /\ peer \in Seq(FrameKinds) /\ Len(peer) \in Nat /\ Got \in Nat
        /\ \A k \in FrameKinds : Len(Append(peer, k)) = Len(peer) + 1
                                 /\ \A n \in 1 .. Len(peer) : Append(peer, k)[n] = peer[n]
    BY LenProperties, Appended DEF CInv, CTypeOK, Got
  <1>2. ASSUME desync' = desync, torn' = torn, readBy' = readBy,
               peer' = peer \/ \E k \in FrameKinds : peer' = Append(peer, k)
        PROVE  WholeFrames'
    <2>1. TooLarge => TooLarge'
      BY <1>0, <1>2 DEF TooLarge, Got
    <2> QED BY <1>1, <1>2, <2>1 DEF WholeFrames
  <1>3. ASSUME NEW i \in DOMAIN op, CallStep(i) \/ Timeout(i) \/ Cancel(i) PROVE WholeFrames'
    <2>0. i \in Calls /\ i # 0
      BY ClientBounds, LenProperties DEF CInv, CTypeOK, Calls
    <2>1. CASE BeginFrame(i)
      <3>1. pc[i] = "reading" /\ desync' = (desync \/ partial # 0) /\ UNCHANGED torn
        BY <2>1 DEF BeginFrame, Goes
      <3>4. readBy' = readBy /\ peer' = peer
        BY <2>1 DEF BeginFrame
      <3>2. partial = 0
        <4>1. ASSUME partial \in Calls PROVE FALSE
          <5>1. pc[partial] = "midframe"
            BY <4>1 DEF LockInv
          <5>2. HasReader(partial) /\ HasReader(i)
            BY <3>1, <5>1 DEF HasReader, Reading
          <5>3. partial = i
            BY <2>0, <4>1, <5>2, OneHasIt
          <5> QED BY <3>1, <5>1, <5>3
        <4> QED BY <4>1 DEF CInv, CTypeOK
      <3>3. desync' = desync
        BY <3>1, <3>2 DEF CInv, CTypeOK
      <3> QED BY <1>2, <3>1, <3>3, <3>4
    <2>2. CASE BeginWrite(i)
      <3>1. pc[i] = "wait_writer" /\ torn' = (torn \/ half # 0) /\ UNCHANGED desync /\ At(wlock, i)
        BY <2>2 DEF BeginWrite, Goes, At
      <3>2. half = 0
        <4>1. ASSUME half \in Calls PROVE FALSE
          <5>1. pc[half] = "midwrite"
            BY <4>1 DEF LockInv
          <5>2. half = i
            BY <2>0, <3>1, <4>1, <5>1, OneHasIt
          <5> QED BY <3>1, <5>1, <5>2
        <4> QED BY <4>1 DEF LockInv
      <3>3. torn' => torn
        BY <3>1, <3>2
      <3>4. TooLarge' = TooLarge
        BY <2>2 DEF BeginWrite, TooLarge, Got
      <3> QED BY <1>1, <3>1, <3>3, <3>4 DEF WholeFrames
    <2>3. CASE Timeout(i) \/ Cancel(i)
      <3>1. PICK s \in Cut : CutShort(i, s)
        BY <2>3 DEF Timeout, Cancel, Cut
      <3>2. pc'[i] = s
        BY <2>0, <3>1 DEF CutShort, Leaves, CInv, CTypeOK
      <3> QED BY <2>0, <3>2 DEF WholeFrames
    <2>4. CASE EnterReader(i) \/ FinishWrite(i) \/ Deliver(i) \/ Fails(i)
      <3>1. UNCHANGED <<desync, torn, readBy, peer>>
        BY <2>4 DEF EnterReader, FinishWrite, Deliver, Fails, Leaves
      <3> QED BY <1>2, <3>1
    <2>5. CASE FinishFrame(i)
      <3>1. pc[i] = "midframe" /\ UNCHANGED <<peer, torn>>
        BY <2>5 DEF FinishFrame
      <3>2. CASE desync \/ peer[Got + 1] = "large"
        <4>1. readBy' = readBy
          BY <2>5, <3>2 DEF FinishFrame
        <4>2. TooLarge' = TooLarge
          BY <3>1, <4>1 DEF TooLarge, Got
        <4>3. ~ desync => TooLarge
          BY <2>0, <3>1, <3>2 DEF CInv, ReaderInv, TooLarge
        <4> QED BY <1>1, <3>1, <4>2, <4>3 DEF WholeFrames
      <3>3. CASE ~ desync /\ peer[Got + 1] # "large"
        <4>1. ~ desync'
          BY <2>5, <3>3 DEF FinishFrame
        <4> QED BY <1>1, <3>1, <4>1 DEF WholeFrames
      <3> QED BY <3>2, <3>3
    <2> QED BY <1>3, <2>1, <2>2, <2>3, <2>4, <2>5 DEF CallStep
  <1>4. CASE UNCHANGED vars
    BY <1>2, <1>4 DEF vars
  <1>5. ASSUME NEW o \in Ops, Call(o) PROVE WholeFrames'
    BY <1>2, <1>5 DEF Call
  <1>6. ASSUME NEW k \in FrameKinds, PeerSends(k) PROVE WholeFrames'
    BY <1>2, <1>6 DEF PeerSends
  <1>7. CASE LinkWorsens
    BY <1>2, <1>7 DEF LinkWorsens
  <1> QED BY <1>3, <1>4, <1>5, <1>6, <1>7 DEF Next

(* No two calls read or write a frame at once, so frames are read and       *)
(* written whole until a call is cut short inside one, or a frame that is   *)
(* too large is next in the stream, where it stays.                         *)
THEOREM FramesStayWhole == Spec => []WholeFrames
  <1>1. Init => WholeFrames
    BY DEF Init, WholeFrames
  <1>2. Spec => [](CInv /\ LockInv /\ WholeFrames)
    BY <1>1, CInit, LockInit, CStep, LockStep, WholeStep, PTL DEF Spec
  <1> QED BY <1>2, PTL

-----------------------------------------------------------------------------
(* The frame that is being answered is the last one read, and every answer  *)
(* is to an earlier one.                                                    *)
Answering(i) == pc[i] \in Writing /\ frame[i] # 0

AnswerInv ==
  /\ answers \in Seq(Nat) /\ \A n \in DOMAIN answers : answers[n] <= Got
  /\ \A n, m \in DOMAIN answers : n < m => answers[n] < answers[m]
  /\ \A i \in Calls : Answering(i) =>
       frame[i] = Got /\ \A n \in DOMAIN answers : answers[n] < Got

(* What became of a ping or a close.                                        *)
Cared(n) ==
  LET i == readBy[n] IN
  \/ frame[i] = n /\ pc[i] \in Writing
  \/ Answered(n) /\ (peer[n] = "close" => frame[i] = n /\ pc[i] \in {"delivering", "closed"})
  \/ pc[i] \in Cut
  \/ pc[i] = "raised" /\ (link = "broken" \/ (closed /\ peer[n] = "ping"))

CareInv == \A n \in 1 .. Got : peer[n] \in {"ping", "close"} => Cared(n)

LEMMA AnswerKept ==
  ASSUME CInv, AnswerInv, UNCHANGED answers, Got' = Got, \A i \in Calls : Answering(i)' =>
         Answering(i) /\ frame'[i] = frame[i]
  PROVE  AnswerInv'
  <1>1. answers' \in Seq(Nat) /\ \A n \in DOMAIN answers' : answers'[n] <= Got'
    BY DEF AnswerInv
  <1>2. \A n, m \in DOMAIN answers' : n < m => answers'[n] < answers'[m]
    BY DEF AnswerInv
  <1>3. \A i \in Calls : Answering(i)' =>
       frame'[i] = Got' /\ \A n \in DOMAIN answers' : answers'[n] < Got'
    BY DEF AnswerInv
  <1> QED BY <1>1, <1>2, <1>3 DEF AnswerInv

LEMMA AnswerInit == Init => AnswerInv /\ CareInv
  <1> SUFFICES ASSUME Init PROVE AnswerInv /\ CareInv
    OBVIOUS
  <1>1. answers = << >> /\ readBy = << >> /\ Got = 0 /\ \A i \in Calls : pc[i] = "unborn"
    BY DEF Init, Got
  <1>2. AnswerInv
    BY <1>1 DEF AnswerInv, Answering, Writing
  <1>3. CareInv
    BY <1>1 DEF CareInv
  <1> QED BY <1>2, <1>3

LEMMA AnswerStep == CInv /\ LockInv /\ AnswerInv /\ [Next]_vars => AnswerInv'
  <1> SUFFICES ASSUME CInv, LockInv, AnswerInv, [Next]_vars PROVE AnswerInv'
    OBVIOUS
  <1>0. /\ pc \in [Calls -> States] /\ frame \in [Calls -> 0 .. Got] /\ Got \in Nat
        /\ answers \in Seq(Nat) /\ \A n \in DOMAIN answers : answers[n] <= Got
    BY LenProperties DEF CInv, CTypeOK, AnswerInv, Got
  <1>1. ASSUME NEW o \in Ops, Call(o) PROVE AnswerInv'
    <2>1. PICK n, s : pc' = [pc EXCEPT ![n] = s] /\ n = Len(op') /\ s \in {"wait_reader", "wait_writer"}
      BY <1>1 DEF Call, Goes
    <2>2. UNCHANGED <<frame, answers, readBy>>
      BY <1>1 DEF Call
    <2>3. n \in Calls => frame[n] = 0
      <3>1. Len(op) \in Nat /\ DOMAIN op = 1 .. Len(op) /\ n = Len(op) + 1
        BY <1>1, <2>1, Appended, LenProperties DEF CInv, CTypeOK, Call
      <3> QED BY <3>1 DEF CInv, ReaderInv
    <2>4. \A j \in Calls : Answering(j)' => Answering(j) /\ frame'[j] = frame[j]
      BY <1>0, <2>1, <2>2, <2>3 DEF Answering
    <2>5. Got' = Got
      BY <2>2 DEF Got
    <2> QED BY <2>2, <2>4, <2>5, AnswerKept
  <1>2. ASSUME NEW i \in DOMAIN op, CallStep(i) \/ Timeout(i) \/ Cancel(i) PROVE AnswerInv'
    <2>0. i \in Calls /\ i # 0
      BY ClientBounds, LenProperties DEF CInv, CTypeOK, Calls
    <2>1. ASSUME NEW s, pc' = [pc EXCEPT ![i] = s], s \in Writing => pc[i] \in Writing,
                 UNCHANGED <<frame, answers, readBy>>
          PROVE  AnswerInv'
      <3>1. \A j \in Calls : Answering(j)' => Answering(j) /\ frame'[j] = frame[j]
        BY <1>0, <2>0, <2>1 DEF Answering
      <3>2. Got' = Got
        BY <2>1 DEF Got
      <3> QED BY <2>1, <3>1, <3>2, AnswerKept
    <2>2. CASE EnterReader(i)
      <3>1. pc' = [pc EXCEPT ![i] = "reading"] /\ UNCHANGED <<frame, answers, readBy>>
        BY <2>2 DEF EnterReader, Goes
      <3> QED BY <2>1, <3>1 DEF Writing
    <2>3. CASE BeginFrame(i)
      <3>1. pc' = [pc EXCEPT ![i] = "midframe"] /\ UNCHANGED <<frame, answers, readBy>>
        BY <2>3 DEF BeginFrame, Goes
      <3> QED BY <2>1, <3>1 DEF Writing
    <2>4. CASE BeginWrite(i)
      <3>1. pc' = [pc EXCEPT ![i] = "midwrite"] /\ pc[i] = "wait_writer"
            /\ UNCHANGED <<frame, answers, readBy>>
        BY <2>4 DEF BeginWrite, Goes
      <3> QED BY <2>1, <3>1 DEF Writing
    <2>5. CASE Deliver(i)
      <3>1. pc' = [pc EXCEPT ![i] = IF IsClose(i) THEN "closed" ELSE "value"]
            /\ UNCHANGED <<frame, answers, readBy>>
        BY <2>5 DEF Deliver, Goes
      <3>2. (IF IsClose(i) THEN "closed" ELSE "value") \notin Writing
        BY DEF Writing
      <3> QED BY <2>1, <3>1, <3>2
    <2>6. ASSUME NEW s \in {"raised", "timed_out", "cancelled"}, Leaves(i, s) PROVE AnswerInv'
      <3>1. pc' = [pc EXCEPT ![i] = s] /\ UNCHANGED <<frame, answers, readBy>>
        BY <2>6 DEF Leaves
      <3> QED BY <2>1, <3>1 DEF Writing
    <2>7. Fails(i) \/ Timeout(i) \/ Cancel(i) =>
            \E s \in {"raised", "timed_out", "cancelled"} : Leaves(i, s)
      BY DEF Fails, Timeout, Cancel, CutShort
    <2>8. CASE FinishFrame(i)
      <3>0. pc[i] = "midframe" /\ UNCHANGED answers
        BY <2>8 DEF FinishFrame
      <3>1. CASE desync \/ peer[Got + 1] = "large"
        <4>1. pc' = [pc EXCEPT ![i] = "raised"] /\ UNCHANGED <<frame, answers, readBy>>
          BY <2>8, <3>1 DEF FinishFrame
        <4> QED BY <2>1, <4>1 DEF Writing
      <3>2. CASE ~ desync /\ peer[Got + 1] # "large"
        <4>1. /\ readBy' = Append(readBy, i) /\ frame' = [frame EXCEPT ![i] = Got + 1]
              /\ \E s : pc' = [pc EXCEPT ![i] = s]
          BY <2>8, <3>2 DEF FinishFrame
        <4>2. Got' = Got + 1
          BY <2>0, <4>1, Appended DEF Got, CInv, CTypeOK
        <4>3. DOMAIN answers = 1 .. Len(answers) /\ Len(answers) \in Nat
              /\ \A n \in DOMAIN answers : answers[n] \in Nat /\ answers[n] <= Got
          BY <1>0, LenProperties, ElementOfSeq
        <4>4. \A n \in DOMAIN answers : answers[n] <= Got'
          BY <1>0, <4>2, <4>3
        <4>5. \A n \in DOMAIN answers : answers[n] < Got'
          BY <1>0, <4>2, <4>3
        <4>6. ASSUME NEW j \in Calls, Answering(j)' PROVE frame'[j] = Got'
          <5>1. CASE j = i
            BY <1>0, <4>1, <4>2, <5>1
          <5>2. CASE j # i
            <6>1. Answering(j)
              BY <1>0, <2>0, <4>1, <4>6, <5>2 DEF Answering
            <6>2. HasReader(j) /\ HasReader(i)
              BY <3>0, <6>1 DEF HasReader, Answering, Reading
            <6> QED BY <2>0, <5>2, <6>2, OneHasIt
          <5> QED BY <5>1, <5>2
        <4>7. \A n, m \in DOMAIN answers : n < m => answers[n] < answers[m]
          BY DEF AnswerInv
        <4> QED BY <1>0, <3>0, <4>4, <4>5, <4>6, <4>7 DEF AnswerInv
      <3> QED BY <3>1, <3>2 DEF CInv, CTypeOK
    <2>9. CASE FinishWrite(i)
      <3>0. pc[i] = "midwrite" /\ UNCHANGED readBy
        BY <2>9 DEF FinishWrite
      <3>1. CASE frame[i] = 0
        <4>1. pc' = [pc EXCEPT ![i] = "done"] /\ UNCHANGED <<frame, answers, readBy>>
          BY <2>9, <3>1 DEF FinishWrite
        <4> QED BY <2>1, <4>1 DEF Writing
      <3>2. CASE frame[i] # 0
        <4>1. /\ answers' = Append(answers, frame[i]) /\ \E s \in {"reading", "delivering"} : pc' = [pc EXCEPT ![i] = s]
              /\ frame' = frame \/ frame' = [frame EXCEPT ![i] = 0]
          BY <2>9, <3>2 DEF FinishWrite
        <4>2. frame[i] = Got /\ \A n \in DOMAIN answers : answers[n] < Got
          BY <2>0, <3>0, <3>2 DEF AnswerInv, Answering, Writing
        <4>3. Got' = Got
          BY <3>0 DEF Got
        <4>5. /\ answers' \in Seq(Nat) /\ Len(answers') = Len(answers) + 1 /\ Len(answers) \in Nat
              /\ answers'[Len(answers) + 1] = Got
              /\ \A n \in 1 .. Len(answers) : answers'[n] = answers[n]
          BY <1>0, <4>1, <4>2, Appended, LenProperties
        <4>6. DOMAIN answers = 1 .. Len(answers) /\ DOMAIN answers' = 1 .. Len(answers) + 1
          BY <1>0, <4>5, LenProperties
        <4>7. ASSUME NEW n \in DOMAIN answers', NEW m \in DOMAIN answers', n < m
              PROVE  answers'[n] < answers'[m]
          <5>1. n \in DOMAIN answers /\ answers'[n] = answers[n]
            BY <4>5, <4>6, <4>7
          <5>2. CASE m = Len(answers) + 1
            BY <4>2, <4>5, <5>1, <5>2
          <5>3. CASE m # Len(answers) + 1
            <6>1. m \in DOMAIN answers /\ answers'[m] = answers[m]
              BY <4>5, <4>6, <4>7, <5>3
            <6> QED BY <4>7, <5>1, <6>1 DEF AnswerInv
          <5> QED BY <5>2, <5>3
        <4>8. \A j \in Calls : ~ Answering(j)'
          <5>1. ~ Answering(i)'
            BY <1>0, <2>0, <4>1 DEF Answering, Writing
          <5>2. ASSUME NEW j \in Calls, j # i PROVE ~ Answering(j)'
            <6>1. ~ Answering(j)
              <7>1. HasReader(i)
                BY <3>0, <3>2 DEF HasReader, Writing
              <7>2. Answering(j) => HasReader(j)
                BY DEF HasReader, Answering
              <7> QED BY <2>0, <5>2, <7>1, <7>2, OneHasIt
            <6> QED BY <1>0, <4>1, <5>2, <6>1 DEF Answering
          <5> QED BY <5>1, <5>2
        <4>9. \A n \in DOMAIN answers' : answers'[n] <= Got
          <5>1. \A n \in 1 .. Len(answers) : answers'[n] <= Got
            BY <1>0, <4>5, <4>6
          <5>2. answers'[Len(answers) + 1] <= Got
            BY <1>0, <4>5
          <5>3. \A n \in 1 .. Len(answers) + 1 : n \in 1 .. Len(answers) \/ n = Len(answers) + 1
            BY <4>5
          <5> QED BY <4>6, <5>1, <5>2, <5>3
        <4> QED BY <4>3, <4>5, <4>7, <4>8, <4>9 DEF AnswerInv
      <3> QED BY <3>1, <3>2
    <2> QED BY <1>2, <2>2, <2>3, <2>4, <2>5, <2>6, <2>7, <2>8, <2>9 DEF CallStep
  <1>3. CASE UNCHANGED <<pc, frame, answers, readBy>>
    <2>1. Got' = Got
      BY <1>3 DEF Got
    <2> QED BY <1>3, <2>1, AnswerKept DEF Answering
  <1> QED BY <1>1, <1>2, <1>3 DEF Next, PeerSends, LinkWorsens, vars

(* A step that leaves the recv of a frame where it is.                      *)
LEMMA CareKept ==
  ASSUME CInv, CareInv, Got' = Got, UNCHANGED readBy,
         \A n \in 1 .. Got : peer'[n] = peer[n] /\ (Answered(n) => Answered(n)'),
         link = "broken" => link' = "broken", closed => closed',
         \A n \in 1 .. Got : peer[n] \in {"ping", "close"} /\ Cared(n) =>
           \/ pc'[readBy[n]] = pc[readBy[n]] /\ frame'[readBy[n]] = frame[readBy[n]]
           \/ Cared(n)'
  PROVE  CareInv'
  <1> SUFFICES ASSUME NEW n \in 1 .. Got, peer[n] \in {"ping", "close"} PROVE Cared(n)'
    BY DEF CareInv
  <1>1. Cared(n)
    BY DEF CareInv
  <1> QED BY <1>1 DEF Cared

LEMMA AnsweredGrows ==
  ASSUME AnswerInv, NEW e \in Nat, answers' = Append(answers, e)
  PROVE  Answered(e)' /\ \A n : Answered(n) => Answered(n)'
  <1>1. /\ Len(answers') = Len(answers) + 1 /\ Len(answers) \in Nat
        /\ answers'[Len(answers) + 1] = e
        /\ \A n \in 1 .. Len(answers) : answers'[n] = answers[n]
    BY Appended, LenProperties DEF AnswerInv
  <1> QED BY <1>1 DEF Answered, Contains

(* A step of one call that hands on no frame, after which what it has read  *)
(* is still cared for.                                                      *)
CareMove(i) ==
  /\ \E s : pc' = [pc EXCEPT ![i] = s]
  /\ UNCHANGED <<readBy, peer, link, answers, frame>>
  /\ closed => closed'
  /\ \A n \in 1 .. Got :
       peer[n] \in {"ping", "close"} /\ Cared(n) /\ readBy[n] = i => Cared(n)'

LEMMA CareMoveKeeps ==
  ASSUME CInv, CareInv, NEW i \in Calls, CareMove(i)
  PROVE  CareInv'
  <1>0. pc \in [Calls -> States] /\ \A n \in 1 .. Got : readBy[n] \in Calls
    BY ElementOfSeq DEF CInv, CTypeOK, Got
  <1>1. Got' = Got
    BY DEF CareMove, Got
  <1>2. \A n : Answered(n) => Answered(n)'
    BY DEF CareMove, Answered
  <1>3. \A j \in Calls : j # i => pc'[j] = pc[j]
    BY <1>0 DEF CareMove
  <1>4. ASSUME NEW n \in 1 .. Got, peer[n] \in {"ping", "close"}, Cared(n)
        PROVE  \/ pc'[readBy[n]] = pc[readBy[n]] /\ frame'[readBy[n]] = frame[readBy[n]]
               \/ Cared(n)'
    BY <1>0, <1>3, <1>4 DEF CareMove
  <1>5. /\ UNCHANGED readBy /\ \A n \in 1 .. Got : peer'[n] = peer[n] /\ (Answered(n) => Answered(n)')
        /\ link = "broken" => link' = "broken"
        /\ closed => closed'
    BY <1>2 DEF CareMove
  <1> QED BY <1>1, <1>4, <1>5, CareKept

LEMMA CareStep == CInv /\ LockInv /\ AnswerInv /\ CareInv /\ [Next]_vars => CareInv'
  <1> SUFFICES ASSUME CInv, LockInv, AnswerInv, CareInv, [Next]_vars PROVE CareInv'
    OBVIOUS
  <1>0. /\ pc \in [Calls -> States] /\ frame \in [Calls -> 0 .. Got] /\ Got \in Nat
        /\ \A n \in 1 .. Got : readBy[n] \in Calls
    BY LenProperties, ElementOfSeq DEF CInv, CTypeOK, Got
  <1>1. ASSUME NEW i \in Calls, CareMove(i) PROVE CareInv'
    BY <1>1, CareMoveKeeps
  <1>2. ASSUME NEW o \in Ops, Call(o) PROVE CareInv'
    <2>1. PICK n, s : pc' = [pc EXCEPT ![n] = s] /\ pc[n] = "unborn"
      BY <1>2 DEF Call, Goes
    <2>2. UNCHANGED <<frame, answers, readBy, peer, link, closed>>
      BY <1>2 DEF Call
    <2>3. Got' = Got
      BY <2>2 DEF Got
    <2>4. \A j \in Calls : pc[j] = "unborn" \/ pc'[j] = pc[j]
      BY <1>0, <2>1
    <2>5. \A k \in 1 .. Got : Answered(k) => Answered(k)'
      BY <2>2 DEF Answered
    <2>6. ASSUME NEW k \in 1 .. Got, peer[k] \in {"ping", "close"}, Cared(k)
          PROVE  Cared(k)'
      <3>1. CASE pc'[readBy[k]] = pc[readBy[k]]
        BY <2>2, <2>5, <2>6, <3>1 DEF Cared
      <3>2. CASE pc[readBy[k]] = "unborn"
        <4>1. Answered(k) /\ peer[k] # "close"
          BY <2>6, <3>2 DEF Cared, Writing, Cut
        <4> QED BY <2>2, <2>5, <4>1 DEF Cared
      <3> QED BY <1>0, <2>4, <3>1, <3>2
    <2> QED BY <2>2, <2>3, <2>5, <2>6, CareKept
  <1>3. ASSUME NEW i \in DOMAIN op, CallStep(i) \/ Timeout(i) \/ Cancel(i) PROVE CareInv'
    <2>0. i \in Calls /\ i # 0 /\ op[i] \in Ops
      BY ClientBounds, LenProperties, ElementOfSeq DEF CInv, CTypeOK, Calls
    <2>1. ASSUME pc[i] \in {"wait_reader", "reading", "midframe"}, NEW n, Cared(n), readBy[n] = i,
                 UNCHANGED <<readBy, peer, answers>>
          PROVE  Cared(n)'
      BY <2>1 DEF Cared, Writing, Cut, Answered
    <2>2. CASE EnterReader(i)
      <3>1. pc' = [pc EXCEPT ![i] = "reading"] /\ UNCHANGED <<frame, answers, readBy, peer, link, closed>>
            /\ pc[i] = "wait_reader"
        BY <2>2 DEF EnterReader, Goes
      <3>2. CareMove(i)
        BY <2>1, <3>1 DEF CareMove
      <3> QED BY <1>1, <2>0, <3>2
    <2>3. CASE BeginFrame(i)
      <3>1. pc' = [pc EXCEPT ![i] = "midframe"] /\ UNCHANGED <<frame, answers, readBy, peer, link, closed>>
            /\ pc[i] = "reading"
        BY <2>3 DEF BeginFrame, Goes
      <3>2. CareMove(i)
        BY <2>1, <3>1 DEF CareMove
      <3> QED BY <1>1, <2>0, <3>2
    <2>4. CASE BeginWrite(i)
      <3>1. /\ pc' = [pc EXCEPT ![i] = "midwrite"] /\ pc[i] = "wait_writer"
            /\ UNCHANGED <<frame, answers, readBy, peer, link>>
        BY <2>4 DEF BeginWrite, Goes
      <3>4. closed => closed'
        BY <2>4 DEF BeginWrite
      <3>2. pc'[i] = "midwrite"
        BY <1>0, <2>0, <3>1
      <3>3. ASSUME NEW n \in 1 .. Got, peer[n] \in {"ping", "close"}, Cared(n), readBy[n] = i PROVE Cared(n)'
        BY <3>1, <3>2, <3>3 DEF Cared, Writing, Cut, Answered
      <3>5. CareMove(i)
        BY <3>1, <3>3, <3>4 DEF CareMove
      <3> QED BY <1>1, <2>0, <3>5
    <2>5. CASE Deliver(i)
      <3>1. /\ pc' = [pc EXCEPT ![i] = IF IsClose(i) THEN "closed" ELSE "value"]
            /\ UNCHANGED <<frame, answers, readBy, peer, link, closed>> /\ pc[i] = "delivering"
        BY <2>5 DEF Deliver, Goes
      <3>2. pc'[i] = IF IsClose(i) THEN "closed" ELSE "value"
        BY <1>0, <2>0, <3>1
      <3>3. ASSUME NEW n \in 1 .. Got, peer[n] \in {"ping", "close"}, Cared(n), readBy[n] = i PROVE Cared(n)'
        <4>1. Answered(n) /\ (peer[n] = "close" => frame[i] = n)
          BY <3>1, <3>3 DEF Cared, Writing, Cut
        <4>2. peer[n] = "close" => IsClose(i)
          BY <4>1, <3>3 DEF IsClose
        <4> QED BY <3>1, <3>2, <3>3, <4>1, <4>2 DEF Cared, Answered
      <3>4. CareMove(i)
        BY <3>1, <3>3 DEF CareMove
      <3> QED BY <1>1, <2>0, <3>4
    <2>6. CASE Timeout(i) \/ Cancel(i)
      <3>1. PICK s \in Cut : Leaves(i, s)
        BY <2>6 DEF Timeout, Cancel, CutShort, Cut
      <3>2. /\ pc' = [pc EXCEPT ![i] = s] /\ pc'[i] = s
            /\ UNCHANGED <<frame, answers, readBy, peer, link, closed>>
        BY <1>0, <2>0, <3>1 DEF Leaves
      <3>3. \A n : readBy[n] = i => Cared(n)'
        BY <3>2 DEF Cared
      <3>4. CareMove(i)
        BY <3>2, <3>3 DEF CareMove
      <3> QED BY <1>1, <2>0, <3>4
    <2>7. CASE Fails(i)
      <3>1. /\ pc' = [pc EXCEPT ![i] = "raised"] /\ pc'[i] = "raised"
            /\ UNCHANGED <<frame, answers, readBy, peer, link, closed>>
        BY <1>0, <2>0, <2>7 DEF Fails, Leaves
      <3>2. \/ pc[i] \in Reading \cup {"midwrite"} /\ link = "broken"
            \/ pc[i] = "wait_writer" /\ closed /\ ~ IsClose(i)
        BY <2>7 DEF Fails
      <3>3. ASSUME NEW n \in 1 .. Got, peer[n] \in {"ping", "close"}, Cared(n), readBy[n] = i PROVE Cared(n)'
        <4>1. CASE link = "broken"
          BY <3>1, <3>3, <4>1 DEF Cared
        <4>2. CASE pc[i] = "wait_writer" /\ closed /\ ~ IsClose(i)
          <5>1. CASE frame[i] = n
            <6>1. n # 0
              OBVIOUS
            <6>2. peer[n] = "ping"
              BY <3>3, <4>2, <5>1, <6>1 DEF IsClose
            <6> QED BY <3>1, <3>3, <4>2, <6>2 DEF Cared
          <5>2. CASE frame[i] # n
            <6>1. Answered(n) /\ peer[n] # "close"
              BY <3>3, <4>2, <5>2 DEF Cared, Writing, Cut
            <6> QED BY <3>1, <6>1 DEF Cared, Answered
          <5> QED BY <5>1, <5>2
        <4> QED BY <3>2, <4>1, <4>2
      <3>4. CareMove(i)
        BY <3>1, <3>3 DEF CareMove
      <3> QED BY <1>1, <2>0, <3>4
    <2>8. CASE FinishFrame(i)
      <3>0. pc[i] = "midframe" /\ UNCHANGED <<answers, peer, link, closed>>
        BY <2>8 DEF FinishFrame
      <3>1. CASE desync \/ peer[Got + 1] = "large"
        <4>1. pc' = [pc EXCEPT ![i] = "raised"] /\ UNCHANGED <<frame, readBy>>
          BY <2>8, <3>1 DEF FinishFrame
        <4>2. CareMove(i)
          BY <2>1, <3>0, <4>1 DEF CareMove
        <4> QED BY <1>1, <2>0, <4>2
      <3>2. CASE ~ desync /\ peer[Got + 1] # "large"
        <4>1. /\ readBy' = Append(readBy, i) /\ frame' = [frame EXCEPT ![i] = Got + 1]
              /\ \E s : pc' = [pc EXCEPT ![i] = s] /\ (peer[Got + 1] \in {"ping", "close"} => s = "wait_writer")
          BY <2>8, <3>2 DEF FinishFrame
        <4>2. /\ Got' = Got + 1 /\ readBy'[Got + 1] = i /\ \A n \in 1 .. Got : readBy'[n] = readBy[n]
          BY <2>0, <4>1, Appended DEF Got, CInv, CTypeOK
        <4>3. /\ frame'[i] = Got + 1 /\ (peer[Got + 1] \in {"ping", "close"} => pc'[i] = "wait_writer")
              /\ \A j \in Calls : j # i => pc'[j] = pc[j] /\ frame'[j] = frame[j]
          BY <1>0, <2>0, <4>1
        <4>4. ASSUME NEW n \in 1 .. Got, peer[n] \in {"ping", "close"} PROVE Cared(n)'
          <5>1. Cared(n)
            BY <4>4 DEF CareInv
          <5>2. CASE readBy[n] = i
            <6>1. Answered(n) /\ peer[n] # "close"
              BY <3>0, <5>1, <5>2 DEF Cared, Writing, Cut
            <6> QED BY <3>0, <6>1 DEF Cared, Answered
          <5>3. CASE readBy[n] # i
            <6>1. readBy'[n] = readBy[n] /\ pc'[readBy[n]] = pc[readBy[n]] /\ frame'[readBy[n]] = frame[readBy[n]]
              BY <1>0, <4>2, <4>3, <5>3
            <6> QED BY <3>0, <5>1, <6>1 DEF Cared, Answered
          <5> QED BY <5>2, <5>3
        <4>5. ASSUME NEW n \in 1 .. Got', peer'[n] \in {"ping", "close"} PROVE Cared(n)'
          <5>1. CASE n \in 1 .. Got
            BY <3>0, <4>4, <4>5, <5>1
          <5>2. CASE n = Got + 1
            <6>1. readBy'[n] = i /\ frame'[i] = n /\ pc'[i] = "wait_writer"
              BY <3>0, <4>2, <4>3, <4>5, <5>2
            <6> QED BY <6>1 DEF Cared, Writing
          <5> QED BY <1>0, <4>2, <5>1, <5>2
        <4> QED BY <4>5 DEF CareInv
      <3> QED BY <3>1, <3>2 DEF CInv, CTypeOK
    <2>9. CASE FinishWrite(i)
      <3>0. pc[i] = "midwrite" /\ UNCHANGED <<readBy, peer, link, closed>>
        BY <2>9 DEF FinishWrite
      <3>1. CASE frame[i] = 0
        <4>1. pc' = [pc EXCEPT ![i] = "done"] /\ UNCHANGED <<frame, answers>>
          BY <2>9, <3>1 DEF FinishWrite
        <4>2. ASSUME NEW n \in 1 .. Got, peer[n] \in {"ping", "close"}, Cared(n), readBy[n] = i
              PROVE  Cared(n)'
          <5>1. Answered(n) /\ peer[n] # "close"
            BY <3>0, <3>1, <4>2 DEF Cared, Cut
          <5> QED BY <3>0, <4>1, <5>1 DEF Cared, Answered
        <4>3. CareMove(i)
          BY <3>0, <4>1, <4>2 DEF CareMove
        <4> QED BY <1>1, <2>0, <4>3
      <3>2. CASE frame[i] # 0
        <4>1. answers' = Append(answers, frame[i]) /\ frame[i] \in Nat
          BY <1>0, <2>0, <2>9, <3>2 DEF FinishWrite
        <4>2. PICK e \in Nat : e = frame[i]
          BY <4>1
        <4>3. Answered(e)' /\ \A n : Answered(n) => Answered(n)'
          BY <4>1, <4>2, AnsweredGrows
        <4>4. \A j \in Calls : j # i => pc'[j] = pc[j] /\ frame'[j] = frame[j]
          BY <1>0, <2>9, <3>2 DEF FinishWrite
        <4>5. IsClose(i) => pc'[i] = "delivering" /\ frame' = frame
          BY <1>0, <2>0, <2>9, <3>2 DEF FinishWrite
        <4>6. ASSUME NEW n \in 1 .. Got, peer[n] \in {"ping", "close"}, Cared(n)
              PROVE  \/ pc'[readBy[n]] = pc[readBy[n]] /\ frame'[readBy[n]] = frame[readBy[n]]
                     \/ Cared(n)'
          <5>1. CASE readBy[n] # i
            BY <1>0, <4>4, <5>1
          <5>2. CASE readBy[n] = i /\ frame[i] # n
            <6>1. Answered(n) /\ peer[n] # "close"
              BY <3>0, <4>6, <5>2 DEF Cared, Cut
            <6> QED BY <3>0, <4>3, <6>1 DEF Cared
          <5>3. CASE readBy[n] = i /\ frame[i] = n
            <6>1. Answered(n)'
              BY <4>2, <4>3, <5>3
            <6>2. peer[n] = "close" => IsClose(i)
              BY <3>2, <5>3 DEF IsClose
            <6> QED BY <3>0, <4>5, <5>3, <6>1, <6>2 DEF Cared
          <5> QED BY <5>1, <5>2, <5>3
        <4>7. Got' = Got
          BY <3>0 DEF Got
        <4> QED BY <3>0, <4>3, <4>6, <4>7, CareKept
      <3> QED BY <3>1, <3>2
    <2> QED BY <1>3, <2>2, <2>3, <2>4, <2>5, <2>6, <2>7, <2>8, <2>9 DEF CallStep
  <1>4. ASSUME NEW k \in FrameKinds, PeerSends(k) PROVE CareInv'
    <2>1. /\ UNCHANGED <<readBy, answers, pc, frame, link, closed>>
          /\ \A n \in 1 .. Len(peer) : peer'[n] = peer[n]
      BY <1>4, Appended DEF PeerSends, CInv, CTypeOK
    <2>2. Got' = Got /\ \A n \in 1 .. Got : n \in 1 .. Len(peer)
      BY <1>0, <2>1, LenProperties DEF CInv, CTypeOK, Got
    <2>3. \A n : Answered(n) => Answered(n)'
      BY <2>1 DEF Answered
    <2> QED BY <1>0, <2>1, <2>2, <2>3, CareKept
  <1>5. ASSUME UNCHANGED <<readBy, answers, pc, frame, peer, closed>>, link = "broken" => link' = "broken"
        PROVE  CareInv'
    <2>1. Got' = Got
      BY <1>5 DEF Got
    <2>2. \A n : Answered(n) => Answered(n)'
      BY <1>5 DEF Answered
    <2> QED BY <1>0, <1>5, <2>1, <2>2, CareKept
  <1>6. LinkWorsens \/ UNCHANGED vars => CareInv'
    BY <1>5 DEF LinkWorsens, vars
  <1> QED BY <1>2, <1>3, <1>4, <1>6 DEF Next

(* Every ping and close is answered by the recv that read it, in the order  *)
(* they came, or that recv was cut short or found the connection unusable.  *)
THEOREM ControlFramesAnswered == Spec => []ControlAnswered
  <1>1. AnswerInv /\ CareInv => ControlAnswered
    BY DEF AnswerInv, CareInv, Cared, ControlAnswered
  <1>2. Spec => [](CInv /\ LockInv /\ AnswerInv /\ CareInv)
    BY CInit, LockInit, AnswerInit, CStep, LockStep, AnswerStep, CareStep, PTL DEF Spec
  <1> QED BY <1>1, <1>2, PTL
=============================================================================
