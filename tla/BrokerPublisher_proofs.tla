------------------------ MODULE BrokerPublisher_proofs ------------------------
(***************************************************************************)
(* Theorems about BrokerPublisher, for any number of calls, callers,       *)
(* Broadcasters, listeners and failures.                                   *)
(***************************************************************************)
EXTENDS BrokerPublisher, BrokerListener_proofs, FiniteSetTheorems

Before == {"unborn", "locking", "connecting", "writing"}
States == Before \cup {"waiting"} \cup Over

(* Type invariant, of what OneLiveLink and PublishedOnce rest on.           *)
PTypeOK ==
  /\ kind \in {"redis", "amqp"}
  /\ current \in Broadcasters \cup {0}
  /\ setups \in 1 .. MaxSetups + 1
  /\ holder \in [Broadcasters -> Calls \cup {0}]
  /\ owner \in Seq(Broadcasters)
  /\ live \subseteq 1 .. Len(owner)
  /\ conn \in [Broadcasters -> 0 .. Len(owner)]
  /\ pc \in [Calls -> States]
  /\ gen \in [Calls -> Broadcasters \cup {0}]
  /\ pipe \in [Calls -> Seq(Calls)]
  /\ taken \in Seq(Calls)

(* Who connects has the lock of its Broadcaster, whose connection is gone.  *)
ConnectsAlone ==
  \A i \in Calls :
    /\ pc[i] \in {"locking", "connecting"} => gen[i] # 0
    /\ pc[i] = "connecting" => holder[gen[i]] = i /\ conn[gen[i]] \notin live

LinkInv == PTypeOK /\ ConnectsAlone /\ OneLiveLink

LEMMA Counted == 0 \notin Calls /\ 0 \notin Broadcasters /\ 1 \in Broadcasters
  BY PublisherBounds DEF Calls, Broadcasters

-----------------------------------------------------------------------------
LEMMA LinkInit == Init => LinkInv
  <1> SUFFICES ASSUME Init PROVE LinkInv
    OBVIOUS
  <1>1. /\ kind \in {"redis", "amqp"} /\ current \in Broadcasters \cup {0}
        /\ setups \in 1 .. MaxSetups + 1
    BY PublisherBounds, Counted DEF Init
  <1>2. owner \in Seq(Broadcasters) /\ taken \in Seq(Calls) /\ live = {} /\ Len(owner) = 0
    BY DEF Init
  <1>3. "unborn" \in States /\ 0 \in 0 .. 0 /\ << >> \in Seq(Calls)
    BY DEF States, Before
  <1>4. holder \in [Broadcasters -> Calls \cup {0}] /\ gen \in [Calls -> Broadcasters \cup {0}]
    BY DEF Init
  <1>5. conn \in [Broadcasters -> 0 .. 0]
    BY <1>3 DEF Init
  <1>6. pc \in [Calls -> States]
    BY <1>3, Zenon DEF Init
  <1>7. pipe \in [Calls -> Seq(Calls)]
    BY <1>3, Zenon DEF Init
  <1>8. PTypeOK
    BY <1>1, <1>2, <1>4, <1>5, <1>6, <1>7 DEF PTypeOK
  <1>9. ConnectsAlone /\ OneLiveLink
    BY <1>2 DEF Init, ConnectsAlone, OneLiveLink
  <1> QED BY <1>8, <1>9 DEF LinkInv

(* Types.                                                                   *)
LEMMA PTypeStep == PTypeOK /\ ConnectsAlone /\ [Next]_vars => PTypeOK'
  <1> SUFFICES ASSUME PTypeOK, ConnectsAlone, [Next]_vars PROVE PTypeOK'
    OBVIOUS
  <1> USE PublisherBounds, Counted DEF PTypeOK
  <1>1. ASSUME NEW i \in Calls, NEW c \in Callers, Begin(i, c) PROVE PTypeOK'
    <2>1. pc' \in [Calls -> States] /\ gen' \in [Calls -> Broadcasters \cup {0}]
      BY <1>1 DEF Begin, States, Before, Over
    <2> QED BY <1>1, <2>1 DEF Begin
  <1>2. ASSUME NEW i \in Calls, Acquire(i) PROVE PTypeOK'
    <2>1. pc' \in [Calls -> States]
      BY <1>2 DEF Acquire, States, Before
    <2>2. holder' \in [Broadcasters -> Calls \cup {0}]
      BY <1>2 DEF Acquire
    <2> QED BY <1>2, <2>1, <2>2 DEF Acquire
  <1>3. ASSUME NEW i \in Calls, Connected(i) PROVE PTypeOK'
    <2> gen[i] # 0
      BY <1>3 DEF Connected, Step, ConnectsAlone
    <2>1. owner' \in Seq(Broadcasters) /\ Len(owner') = Len(owner) + 1 /\ Len(owner) \in Nat
      BY <1>3, Appended, LenProperties DEF Connected
    <2>2. live' \subseteq 1 .. Len(owner')
      <3>1. live' = live \cup {Len(owner')}
        BY <1>3 DEF Connected
      <3>2. \A k \in live : k \in 1 .. Len(owner)
        OBVIOUS
      <3>3. Len(owner') \in 1 .. Len(owner') /\ 1 .. Len(owner) \subseteq 1 .. Len(owner')
        BY <2>1
      <3> HIDE DEF PTypeOK
      <3> QED BY <3>1, <3>2, <3>3
    <2>3. conn' \in [Broadcasters -> 0 .. Len(owner')]
      BY <1>3, <2>1 DEF Connected
    <2>4. pc' \in [Calls -> States]
      <3>1. pc' = [pc EXCEPT ![i] = "writing"] /\ "writing" \in States
        BY <1>3 DEF Connected, States, Before
      <3> QED BY <3>1
    <2>5. holder' \in [Broadcasters -> Calls \cup {0}]
      BY <1>3 DEF Connected
    <2> QED BY <1>3, <2>1, <2>2, <2>3, <2>4, <2>5 DEF Connected
  <1>4. ASSUME NEW i \in Calls, ConnectRaises(i) PROVE PTypeOK'
    <2>1. pc' \in [Calls -> States]
      BY <1>4 DEF ConnectRaises, End, States, Over
    <2>2. holder' \in [Broadcasters -> Calls \cup {0}]
      BY <1>4 DEF ConnectRaises
    <2> QED BY <1>4, <2>1, <2>2 DEF ConnectRaises
  <1>5. ASSUME NEW i \in Calls, Write(i) PROVE PTypeOK'
    <2>1. \E s \in {"ok", "raised", "waiting"} : pc' = [pc EXCEPT ![i] = s]
      BY <1>5 DEF Write, End
    <2>2. pc' \in [Calls -> States]
      BY <2>1 DEF States, Over
    <2>3. \A k \in Calls : Append(pipe[k], i) \in Seq(Calls)
      BY Appended
    <2>4. pipe' = pipe \/ pipe' = [pipe EXCEPT ![via[i]] = Append(@, i)]
      BY <1>5 DEF Write
    <2>5. pipe' \in [Calls -> Seq(Calls)]
      <3>1. CASE pipe' = [pipe EXCEPT ![via[i]] = Append(@, i)]
        <4>1. \A k \in Calls : pipe'[k] \in {pipe[k], Append(pipe[k], i)}
          BY <3>1
        <4>2. \A k \in Calls : pipe'[k] \in Seq(Calls)
          BY <2>3, <4>1
        <4> HIDE DEF PTypeOK
        <4>3. pipe' = [k \in Calls |-> pipe'[k]]
          BY <3>1 DEF PTypeOK
        <4> QED BY <4>2, <4>3
      <3> QED BY <2>4, <3>1
    <2> QED BY <1>5, <2>2, <2>5 DEF Write
  <1>6. ASSUME NEW i \in Calls, Reply(i) PROVE PTypeOK'
    <2>1. pc' \in [Calls -> States]
      BY <1>6 DEF Reply, End, States, Over
    <2> QED BY <1>6, <2>1 DEF Reply
  <1>7. ASSUME NEW i \in Calls, Cancel(i) PROVE PTypeOK'
    <2>1. pc' \in [Calls -> States] /\ holder' \in [Broadcasters -> Calls \cup {0}]
      BY <1>7 DEF Cancel, End, States, Over
    <2> QED BY <1>7, <2>1 DEF Cancel
  <1>8. ASSUME NEW b \in BOOLEAN, NEW in \in BOOLEAN, Replace(b, in) PROVE PTypeOK'
    <2>1. setups' \in 1 .. MaxSetups + 1 /\ current' \in Broadcasters \cup {0}
      BY <1>8 DEF Replace, Broadcasters
    <2> QED BY <1>8, <2>1 DEF Replace
  <1>9. ASSUME NEW k \in Calls, Take(k) PROVE PTypeOK'
    <2>1. Tail(pipe[k]) \in Seq(Calls) /\ Head(pipe[k]) \in Calls
      BY <1>9, Popped DEF Take
    <2>2. taken' \in Seq(Calls)
      BY <1>9, <2>1, Appended DEF Take
    <2>3. pipe' \in [Calls -> Seq(Calls)]
      BY <1>9, <2>1 DEF Take
    <2> QED BY <1>9, <2>2, <2>3 DEF Take
  <1>10. ASSUME NEW k \in Calls, NEW n \in 0 .. MaxCalls, Break(k, n) PROVE PTypeOK'
    <2>1. SubSeq(pipe[k], 1, n) \in Seq(Calls)
      BY <1>10, Prefix DEF Break
    <2>2. pipe' \in [Calls -> Seq(Calls)]
      BY <1>10, <2>1 DEF Break
    <2> QED BY <1>10, <2>2 DEF Break
  <1>11. CASE UNCHANGED pvars
    BY <1>11 DEF pvars
  <1>12. CASE \E i \in Calls : CallStep(i)
    BY <1>2, <1>3, <1>5, <1>6, <1>12 DEF CallStep
  <1> HIDE DEF PTypeOK
  <1> QED BY <1>1, <1>4, <1>7, <1>8, <1>9, <1>10, <1>11, <1>12 DEF Next, vars

-----------------------------------------------------------------------------
(* Steps that neither take a lock nor make a connection.                    *)
LEMMA LinkQuiet ==
  ASSUME LinkInv, UNCHANGED <<conn, owner>>, live' \subseteq live,
         \A j \in Calls :
           /\ pc'[j] \in {"locking", "connecting"} => gen'[j] # 0
           /\ pc'[j] = "connecting" =>
                pc[j] = "connecting" /\ gen'[j] = gen[j] /\ holder'[gen[j]] = j
  PROVE  ConnectsAlone' /\ OneLiveLink'
  BY DEF LinkInv, ConnectsAlone, OneLiveLink

LEMMA LinkStep == LinkInv /\ [Next]_vars => ConnectsAlone' /\ OneLiveLink'
  <1> SUFFICES ASSUME LinkInv, [Next]_vars PROVE ConnectsAlone' /\ OneLiveLink'
    OBVIOUS
  <1> DEFINE Goal == ConnectsAlone' /\ OneLiveLink'
  <1>0. \A j \in Calls : /\ pc[j] \in {"locking", "connecting"} => gen[j] # 0
                         /\ pc[j] = "connecting" => holder[gen[j]] = j
    BY DEF LinkInv, ConnectsAlone
  <1>1. ASSUME NEW i \in Calls, NEW c \in Callers, Begin(i, c) PROVE Goal
    <2>1. \A j \in Calls : /\ pc'[j] \in {"locking", "connecting"} => gen'[j] # 0
                           /\ pc'[j] = "connecting" => pc[j] = "connecting" /\ gen'[j] = gen[j]
      BY <1>0, <1>1 DEF Begin, LinkInv, PTypeOK
    <2> QED BY <1>0, <1>1, <2>1, LinkQuiet DEF Begin
  <1>2. ASSUME NEW i \in Calls, Acquire(i) PROVE Goal
    <2>1. holder[gen[i]] = 0 /\ pc[i] = "locking" /\ gen[i] \in Broadcasters
      BY <1>0, <1>2 DEF Acquire, Step, LinkInv, PTypeOK
    <2>2. CASE Usable(gen[i])
      <3>1. \A j \in Calls : pc'[j] \in {"locking", "connecting"} => pc'[j] = pc[j]
        BY <1>2, <2>2 DEF Acquire, LinkInv, PTypeOK
      <3>2. UNCHANGED <<gen, holder, conn, owner, live>>
        BY <1>2, <2>2 DEF Acquire
      <3> QED BY <1>0, <3>1, <3>2, LinkQuiet
    <2>3. CASE ~ Usable(gen[i])
      <3>1. /\ pc' = [pc EXCEPT ![i] = "connecting"]
            /\ holder' = [holder EXCEPT ![gen[i]] = i]
            /\ UNCHANGED <<gen, conn, owner, live>>
        BY <1>2, <2>3 DEF Acquire
      <3>2. conn[gen[i]] \notin live
        BY <2>1, <2>3 DEF Usable, LinkInv, PTypeOK
      <3>3. \A j \in Calls \ {i} : pc[j] = "connecting" => gen[j] # gen[i]
        BY <1>0, <2>1, Counted
      <3>4. \A j \in Calls \ {i} : pc'[j] = pc[j] /\ (gen[j] # gen[i] => holder'[gen[j]] = holder[gen[j]])
        BY <3>1 DEF LinkInv, PTypeOK
      <3>5. holder'[gen[i]] = i
        BY <2>1, <3>1 DEF LinkInv, PTypeOK
      <3>6. ConnectsAlone'
        BY <2>1, <3>1, <3>2, <3>3, <3>4, <3>5, Counted DEF LinkInv, ConnectsAlone
      <3> QED BY <3>1, <3>6 DEF LinkInv, OneLiveLink
    <2> QED BY <2>2, <2>3
  <1>3. ASSUME NEW i \in Calls, Connected(i) PROVE Goal
    <2> DEFINE k == Len(owner) + 1
    <2>1. /\ gen[i] \in Broadcasters /\ holder[gen[i]] = i /\ conn[gen[i]] \notin live
          /\ pc[i] = "connecting"
      BY <1>3 DEF Connected, Step, LinkInv, PTypeOK, ConnectsAlone
    <2>2. /\ owner' = Append(owner, gen[i]) /\ Len(owner') = k /\ Len(owner) \in Nat
          /\ owner'[k] = gen[i] /\ \A n \in 1 .. Len(owner) : owner'[n] = owner[n]
      BY <1>3, <2>1, Appended, LenProperties DEF Connected, LinkInv, PTypeOK
    <2>3. /\ live' = live \cup {k} /\ conn' = [conn EXCEPT ![gen[i]] = k]
          /\ holder' = [holder EXCEPT ![gen[i]] = 0] /\ pc' = [pc EXCEPT ![i] = "writing"]
          /\ UNCHANGED gen
      BY <1>3, <2>2 DEF Connected
    <2>4. ASSUME NEW n \in live' PROVE conn'[owner'[n]] = n
      <3>1. CASE n = k
        BY <2>1, <2>2, <2>3, <3>1 DEF LinkInv, PTypeOK
      <3>2. CASE n \in live
        <4>1. n \in 1 .. Len(owner) /\ owner'[n] = owner[n] /\ conn[owner[n]] = n
          BY <2>2, <3>2 DEF LinkInv, PTypeOK, OneLiveLink
        <4>2. owner[n] \in Broadcasters
          BY <4>1, ElementOfSeq DEF LinkInv, PTypeOK
        <4>3. owner[n] # gen[i]
          BY <2>1, <3>2, <4>1
        <4> QED BY <2>3, <4>1, <4>2, <4>3 DEF LinkInv, PTypeOK
      <3> QED BY <2>3, <3>1, <3>2
    <2>5. ASSUME NEW j \in Calls, pc'[j] = "connecting"
          PROVE  gen'[j] # 0 /\ holder'[gen'[j]] = j /\ conn'[gen'[j]] \notin live'
      <3>1. j # i /\ pc[j] = "connecting"
        BY <2>3, <2>5 DEF LinkInv, PTypeOK
      <3>2. /\ gen[j] # 0 /\ holder[gen[j]] = j /\ conn[gen[j]] \notin live
            /\ gen[j] \in Broadcasters
        BY <3>1 DEF LinkInv, PTypeOK, ConnectsAlone
      <3>3. gen[j] # gen[i]
        BY <2>1, <3>1, <3>2
      <3>4. conn[gen[j]] \in 0 .. Len(owner)
        BY <3>2 DEF LinkInv, PTypeOK
      <3>5. conn[gen[j]] # k
        BY <2>2, <3>4
      <3> QED BY <2>3, <3>2, <3>3, <3>5 DEF LinkInv, PTypeOK
    <2>6. \A j \in Calls : pc'[j] = "locking" => gen'[j] # 0
      BY <1>0, <2>3 DEF LinkInv, PTypeOK
    <2> QED BY <2>4, <2>5, <2>6 DEF ConnectsAlone, OneLiveLink
  <1>4. ASSUME NEW i \in Calls, ConnectRaises(i) PROVE Goal
    <2>1. pc[i] = "connecting" /\ holder[gen[i]] = i /\ gen[i] \in Broadcasters
      BY <1>0, <1>4 DEF ConnectRaises, Step, LinkInv, PTypeOK
    <2>2. /\ pc' = [pc EXCEPT ![i] = "raised"] /\ holder' = [holder EXCEPT ![gen[i]] = 0]
          /\ UNCHANGED <<gen, conn, owner, live>>
      BY <1>4 DEF ConnectRaises, End
    <2>3. \A j \in Calls : pc'[j] \in {"locking", "connecting"} => j # i /\ pc'[j] = pc[j]
      BY <2>2 DEF LinkInv, PTypeOK
    <2>4. \A j \in Calls : j # i /\ pc[j] = "connecting" => holder'[gen[j]] = j
      BY <1>0, <2>1, <2>2 DEF LinkInv, PTypeOK
    <2> QED BY <1>0, <2>2, <2>3, <2>4, LinkQuiet
  <1>5. ASSUME NEW i \in Calls, Write(i) \/ Reply(i) PROVE Goal
    <2>1. PICK s \in {"ok", "raised", "waiting"} : pc' = [pc EXCEPT ![i] = s]
      BY <1>5 DEF Write, Reply, End
    <2>2. UNCHANGED <<gen, holder, conn, owner, live>>
      BY <1>5 DEF Write, Reply
    <2>3. \A j \in Calls : pc'[j] \in {"locking", "connecting"} => pc'[j] = pc[j]
      BY <2>1 DEF LinkInv, PTypeOK
    <2> QED BY <1>0, <2>2, <2>3, LinkQuiet
  <1>6. ASSUME NEW i \in Calls, Cancel(i) PROVE Goal
    <2>1. /\ pc' = [pc EXCEPT ![i] = "cancelled"] /\ UNCHANGED <<gen, conn, owner, live>>
          /\ holder' = [g \in Broadcasters |-> IF holder[g] = i THEN 0 ELSE holder[g]]
      BY <1>6 DEF Cancel, End
    <2>2. \A j \in Calls : pc'[j] \in {"locking", "connecting"} => j # i /\ pc'[j] = pc[j]
      BY <2>1 DEF LinkInv, PTypeOK
    <2>3. \A j \in Calls : j # i /\ pc[j] = "connecting" => holder'[gen[j]] = j
      BY <1>0, <2>1 DEF LinkInv, PTypeOK
    <2> QED BY <1>0, <2>1, <2>2, <2>3, LinkQuiet
  <1>7. CASE UNCHANGED <<pc, gen, holder, conn, owner>> /\ live' \subseteq live
    BY <1>0, <1>7, LinkQuiet
  <1>8. CASE \E i \in Calls : CallStep(i)
    BY <1>2, <1>3, <1>5, <1>8 DEF CallStep
  <1>9. ASSUME NEW k \in Calls, NEW n \in 0 .. MaxCalls, Take(k) \/ Break(k, n) PROVE Goal
    BY <1>7, <1>9 DEF Take, Break
  <1>10. ASSUME NEW k \in Calls, Take(k) PROVE Goal
    BY <1>7, <1>10 DEF Take
  <1>11. ASSUME NEW b \in BOOLEAN, NEW in \in BOOLEAN, Replace(b, in) PROVE Goal
    BY <1>7, <1>11 DEF Replace
  <1>12. CASE UNCHANGED pvars
    BY <1>7, <1>12 DEF pvars
  <1> QED BY <1>1, <1>4, <1>6, <1>8, <1>9, <1>10, <1>11, <1>12 DEF Next, vars

LEMMA LinkInvariant == Spec => []LinkInv
  <1>1. LinkInv /\ [Next]_vars => LinkInv'
    BY PTypeStep, LinkStep DEF LinkInv
  <1> QED BY <1>1, LinkInit, PTL DEF Spec

(* A Broadcaster never has two working connections, however many threads    *)
(* and tasks find it without one at once, and whatever fails or is cancelled*)
(* while one of them connects.                                              *)
THEOREM LinksAreSingle == Spec => []OneLiveLink
  <1>1. LinkInv => OneLiveLink
    BY DEF LinkInv
  <1> QED BY <1>1, LinkInvariant, PTL

-----------------------------------------------------------------------------
(* A call whose message was written is past writing, and is in one place of *)
(* one connection or in one of the broker's order.                          *)
OnceInv ==
  /\ \A k \in Calls : \A n \in 1 .. Len(pipe[k]) : pc[pipe[k][n]] \notin Before
  /\ \A n \in 1 .. Len(taken) : pc[taken[n]] \notin Before
  /\ \A k, l \in Calls : \A n \in 1 .. Len(pipe[k]), m \in 1 .. Len(pipe[l]) :
       pipe[k][n] = pipe[l][m] => k = l /\ n = m
  /\ \A k \in Calls : \A n \in 1 .. Len(pipe[k]), m \in 1 .. Len(taken) : pipe[k][n] # taken[m]
  /\ \A n, m \in 1 .. Len(taken) : taken[n] = taken[m] => n = m

LEMMA OnceQuiet ==
  ASSUME PTypeOK, OnceInv, UNCHANGED <<pipe, taken>>,
         \A j \in Calls : pc[j] \notin Before => pc'[j] \notin Before
  PROVE  OnceInv'
  <1>1. \A k \in Calls : \A n \in 1 .. Len(pipe[k]) : pipe[k][n] \in Calls
    BY ElementOfSeq DEF PTypeOK
  <1>2. \A n \in 1 .. Len(taken) : taken[n] \in Calls
    BY ElementOfSeq DEF PTypeOK
  <1> QED BY <1>1, <1>2 DEF OnceInv

LEMMA OnceWrite ==
  ASSUME PTypeOK, OnceInv, NEW i \in Calls, Write(i)
  PROVE  OnceInv'
  <1>1. PICK s \in {"ok", "raised", "waiting"} : pc' = [pc EXCEPT ![i] = s]
    BY DEF Write, End
  <1>2. pc[i] = "writing" /\ UNCHANGED taken
    BY DEF Write, Step
  <1>3. \A j \in Calls : pc[j] \notin Before => pc'[j] \notin Before
    BY <1>1 DEF PTypeOK, Before
  <1>4. CASE pipe' = pipe
    BY <1>2, <1>3, <1>4, OnceQuiet
  <1>5. CASE pipe' # pipe
    <2> DEFINE c == via[i]
    <2>1. pipe' = [pipe EXCEPT ![c] = Append(pipe[c], i)]
      BY <1>5 DEF Write
    <2>2. c \in Calls
      BY <1>5, <2>1 DEF PTypeOK
    <2>3. /\ pipe[c] \in Seq(Calls) /\ Len(pipe[c]) \in Nat
          /\ pipe'[c] = Append(pipe[c], i)
          /\ \A k \in Calls : k # c => pipe'[k] = pipe[k]
      BY <2>1, <2>2, LenProperties DEF PTypeOK
    <2>4. /\ Len(pipe'[c]) = Len(pipe[c]) + 1 /\ pipe'[c][Len(pipe[c]) + 1] = i
          /\ \A n \in 1 .. Len(pipe[c]) : pipe'[c][n] = pipe[c][n]
      BY <2>3, Appended
    <2>5. ASSUME NEW k \in Calls, NEW n \in 1 .. Len(pipe'[k])
          PROVE  \/ n \in 1 .. Len(pipe[k]) /\ pipe'[k][n] = pipe[k][n]
                 \/ k = c /\ n = Len(pipe[c]) + 1 /\ pipe'[k][n] = i
      <3>1. CASE k # c
        BY <2>3, <3>1
      <3>2. CASE k = c
        <4>1. n \in 1 .. Len(pipe[c]) + 1
          BY <2>4, <2>5, <3>2
        <4>2. n \in 1 .. Len(pipe[c]) \/ n = Len(pipe[c]) + 1
          BY <2>3, <4>1
        <4> QED BY <2>4, <3>2, <4>2
      <3> QED BY <3>1, <3>2
    <2>6. ASSUME NEW k \in Calls, NEW n \in 1 .. Len(pipe[k])
          PROVE  pipe[k][n] \in Calls /\ pipe[k][n] # i
      <3>1. pipe[k] \in Seq(Calls)
        BY DEF PTypeOK
      <3>2. pipe[k][n] \in Calls
        BY <3>1, ElementOfSeq
      <3>3. pc[pipe[k][n]] \notin Before
        BY DEF OnceInv
      <3>4. pc[i] \in Before
        BY <1>2 DEF Before
      <3> QED BY <3>2, <3>3, <3>4
    <2>7. \A n \in 1 .. Len(taken) : taken[n] \in Calls /\ taken[n] # i
      BY <1>2, ElementOfSeq DEF PTypeOK, OnceInv, Before
    <2>8. pc'[i] \notin Before
      BY <1>1 DEF PTypeOK, Before
    <2>9. \A k \in Calls : \A n \in 1 .. Len(pipe'[k]) :
            /\ pc'[pipe'[k][n]] \notin Before
            /\ \A m \in 1 .. Len(taken) : pipe'[k][n] # taken[m]
      BY <1>3, <2>5, <2>6, <2>7, <2>8 DEF OnceInv
    <2>10. \A k, l \in Calls : \A n \in 1 .. Len(pipe'[k]), m \in 1 .. Len(pipe'[l]) :
             pipe'[k][n] = pipe'[l][m] => k = l /\ n = m
      <3> SUFFICES ASSUME NEW k \in Calls, NEW l \in Calls, NEW n \in 1 .. Len(pipe'[k]),
                          NEW m \in 1 .. Len(pipe'[l]), pipe'[k][n] = pipe'[l][m]
                   PROVE  k = l /\ n = m
        OBVIOUS
      <3> DEFINE Old(x, y) == y \in 1 .. Len(pipe[x]) /\ pipe'[x][y] = pipe[x][y]
                 New(x, y) == x = c /\ y = Len(pipe[c]) + 1 /\ pipe'[x][y] = i
      <3>1. Old(k, n) \/ New(k, n)
        BY <2>5
      <3>2. Old(l, m) \/ New(l, m)
        BY <2>5
      <3>3. ASSUME Old(k, n), Old(l, m) PROVE k = l /\ n = m
        <4>1. n \in 1 .. Len(pipe[k]) /\ m \in 1 .. Len(pipe[l]) /\ pipe[k][n] = pipe[l][m]
          BY <3>3
        <4>2. \A x, y \in Calls : \A u \in 1 .. Len(pipe[x]), v \in 1 .. Len(pipe[y]) :
                pipe[x][u] = pipe[y][v] => x = y /\ u = v
          BY DEF OnceInv
        <4> QED BY <4>1, <4>2
      <3>4. CASE New(k, n) /\ New(l, m)
        BY <3>4
      <3>5. ~ (Old(k, n) /\ New(l, m)) /\ ~ (New(k, n) /\ Old(l, m))
        BY <2>6
      <3> QED BY <3>1, <3>2, <3>3, <3>4, <3>5
    <2>11. \A n \in 1 .. Len(taken) : pc'[taken[n]] \notin Before
      BY <1>3, <2>7 DEF OnceInv
    <2> QED BY <1>2, <2>9, <2>10, <2>11 DEF OnceInv
  <1> QED BY <1>4, <1>5

(* What stays on a connection is in the order it was; the same place of it  *)
(* now is one place of it before.                                           *)
LEMMA OnceBreak ==
  ASSUME PTypeOK, OnceInv, NEW c \in Calls, NEW x \in 0 .. MaxCalls, Break(c, x)
  PROVE  OnceInv'
  <1>1. /\ pipe' = [pipe EXCEPT ![c] = SubSeq(pipe[c], 1, x)] /\ x \in 0 .. Len(pipe[c])
        /\ UNCHANGED <<pc, taken>>
    BY DEF Break
  <1>2. pipe[c] \in Seq(Calls) /\ Len(pipe[c]) \in Nat
    BY LenProperties DEF PTypeOK
  <1>3. /\ Len(SubSeq(pipe[c], 1, x)) = x
        /\ \A n \in 1 .. x : SubSeq(pipe[c], 1, x)[n] = pipe[c][n]
    BY <1>1, <1>2, Prefix
  <1>4. pipe'[c] = SubSeq(pipe[c], 1, x) /\ \A k \in Calls : k # c => pipe'[k] = pipe[k]
    BY <1>1 DEF PTypeOK
  <1>5. \A k \in Calls : \A n \in 1 .. Len(pipe'[k]) :
          n \in 1 .. Len(pipe[k]) /\ pipe'[k][n] = pipe[k][n]
    BY <1>1, <1>2, <1>3, <1>4
  <1> QED BY <1>1, <1>5 DEF OnceInv

LEMMA OnceTake ==
  ASSUME PTypeOK, OnceInv, NEW c \in Calls, Take(c)
  PROVE  OnceInv'
  <1>1. /\ pipe[c] # << >> /\ pipe' = [pipe EXCEPT ![c] = Tail(pipe[c])]
        /\ taken' = Append(taken, Head(pipe[c])) /\ UNCHANGED pc
    BY DEF Take
  <1>2. pipe[c] \in Seq(Calls) /\ Len(taken) \in Nat
    BY LenProperties DEF PTypeOK
  <1>3. /\ Len(pipe[c]) \in Nat \ {0} /\ Len(Tail(pipe[c])) = Len(pipe[c]) - 1
        /\ Head(pipe[c]) = pipe[c][1] /\ pipe[c][1] \in Calls
        /\ \A n \in 1 .. Len(pipe[c]) - 1 : Tail(pipe[c])[n] = pipe[c][n + 1]
    BY <1>1, <1>2, Popped
  <1>4. /\ Len(taken') = Len(taken) + 1 /\ taken'[Len(taken) + 1] = pipe[c][1]
        /\ \A n \in 1 .. Len(taken) : taken'[n] = taken[n]
    BY <1>1, <1>3, Appended DEF PTypeOK
  <1>5. pipe'[c] = Tail(pipe[c]) /\ \A k \in Calls : k # c => pipe'[k] = pipe[k]
    BY <1>1 DEF PTypeOK
  <1> DEFINE Place(k, n) == IF k = c THEN n + 1 ELSE n
  <1>6. ASSUME NEW k \in Calls, NEW n \in 1 .. Len(pipe'[k])
        PROVE  /\ Place(k, n) \in 1 .. Len(pipe[k]) /\ pipe'[k][n] = pipe[k][Place(k, n)]
               /\ k = c => Place(k, n) # 1
    <2>1. CASE k = c
      <3>1. n \in 1 .. Len(pipe[c]) - 1
        BY <1>3, <1>5, <2>1
      <3>2. n + 1 \in 1 .. Len(pipe[c]) /\ n + 1 # 1
        BY <1>3, <3>1
      <3>3. pipe'[c][n] = pipe[c][n + 1]
        BY <1>3, <1>5, <3>1
      <3> QED BY <2>1, <3>2, <3>3
    <2>2. CASE k # c
      BY <1>5, <2>2
    <2> QED BY <2>1, <2>2
  <1>7. ASSUME NEW m \in 1 .. Len(taken')
        PROVE  \/ m \in 1 .. Len(taken) /\ taken'[m] = taken[m]
               \/ m = Len(taken) + 1 /\ taken'[m] = pipe[c][1]
    BY <1>2, <1>4
  <1>8. 1 \in 1 .. Len(pipe[c])
    BY <1>3
  <1>9. \A k \in Calls : \A n \in 1 .. Len(pipe'[k]) : pc'[pipe'[k][n]] \notin Before
    BY <1>1, <1>6 DEF OnceInv
  <1>10. \A m \in 1 .. Len(taken') : pc'[taken'[m]] \notin Before
    BY <1>1, <1>7, <1>8 DEF OnceInv
  <1>11. ASSUME NEW k \in Calls, NEW l \in Calls, NEW n \in 1 .. Len(pipe'[k]),
                NEW m \in 1 .. Len(pipe'[l]), pipe'[k][n] = pipe'[l][m]
         PROVE  k = l /\ n = m
    <2>1. /\ Place(k, n) \in 1 .. Len(pipe[k]) /\ Place(l, m) \in 1 .. Len(pipe[l])
          /\ pipe[k][Place(k, n)] = pipe[l][Place(l, m)]
      BY <1>6, <1>11
    <2>2. k = l /\ Place(k, n) = Place(l, m)
      BY <2>1 DEF OnceInv
    <2> QED BY <2>2
  <1>12. ASSUME NEW k \in Calls, NEW n \in 1 .. Len(pipe'[k]), NEW m \in 1 .. Len(taken')
         PROVE  pipe'[k][n] # taken'[m]
    <2>1. CASE m \in 1 .. Len(taken) /\ taken'[m] = taken[m]
      <3>1. Place(k, n) \in 1 .. Len(pipe[k]) /\ pipe'[k][n] = pipe[k][Place(k, n)]
        BY <1>6
      <3> HIDE DEF Place
      <3> QED BY <2>1, <3>1 DEF OnceInv
    <2>2. CASE taken'[m] = pipe[c][1]
      <3>1. /\ Place(k, n) \in 1 .. Len(pipe[k]) /\ pipe'[k][n] = pipe[k][Place(k, n)]
            /\ k = c => Place(k, n) # 1
        BY <1>6
      <3>2. pipe[k][Place(k, n)] = pipe[c][1] => k = c /\ Place(k, n) = 1
        BY <1>8, <3>1 DEF OnceInv
      <3> QED BY <2>2, <3>1, <3>2
    <2> QED BY <1>7, <2>1, <2>2
  <1>13. ASSUME NEW n \in 1 .. Len(taken'), NEW m \in 1 .. Len(taken'), taken'[n] = taken'[m]
         PROVE  n = m
    <2>1. \A j \in 1 .. Len(taken) : pipe[c][1] # taken[j]
      BY <1>8 DEF OnceInv
    <2> QED BY <1>7, <1>13, <2>1 DEF OnceInv
  <1> QED BY <1>9, <1>10, <1>11, <1>12, <1>13 DEF OnceInv

LEMMA OnceStep == PTypeOK /\ OnceInv /\ [Next]_vars => OnceInv'
  <1> SUFFICES ASSUME PTypeOK, OnceInv, [Next]_vars PROVE OnceInv'
    OBVIOUS
  <1>1. ASSUME NEW i \in Calls, NEW s \in {"ok", "raised", "cancelled"} \cup Before,
               pc' = [pc EXCEPT ![i] = s], s \in Before => pc[i] \in Before,
               UNCHANGED <<pipe, taken>>
        PROVE  OnceInv'
    <2>1. \A j \in Calls : pc[j] \notin Before => pc'[j] \notin Before
      BY <1>1 DEF PTypeOK, Before
    <2> QED BY <1>1, <2>1, OnceQuiet
  <1>2. ASSUME NEW i \in Calls, NEW c \in Callers, Begin(i, c) PROVE OnceInv'
    <2>1. PICK s \in {"raised", "locking"} : pc' = [pc EXCEPT ![i] = s]
      BY <1>2 DEF Begin
    <2>2. pc[i] = "unborn" /\ UNCHANGED <<pipe, taken>>
      BY <1>2 DEF Begin, Step
    <2> QED BY <1>1, <2>1, <2>2 DEF Before
  <1>3. ASSUME NEW i \in Calls, Acquire(i) PROVE OnceInv'
    <2>1. PICK s \in {"writing", "connecting"} : pc' = [pc EXCEPT ![i] = s]
      BY <1>3 DEF Acquire
    <2>2. pc[i] = "locking" /\ UNCHANGED <<pipe, taken>>
      BY <1>3 DEF Acquire, Step
    <2> QED BY <1>1, <2>1, <2>2 DEF Before
  <1>4. ASSUME NEW i \in Calls, Connected(i) PROVE OnceInv'
    <2>1. pc' = [pc EXCEPT ![i] = "writing"] /\ pc[i] = "connecting" /\ UNCHANGED <<pipe, taken>>
      BY <1>4 DEF Connected, Step
    <2> QED BY <1>1, <2>1 DEF Before
  <1>5. ASSUME NEW i \in Calls, ConnectRaises(i) \/ Reply(i) \/ Cancel(i) PROVE OnceInv'
    <2>1. PICK s \in {"ok", "raised", "cancelled"} : pc' = [pc EXCEPT ![i] = s]
      BY <1>5 DEF ConnectRaises, Reply, Cancel, End
    <2>2. UNCHANGED <<pipe, taken>>
      BY <1>5 DEF ConnectRaises, Reply, Cancel
    <2> QED BY <1>1, <2>1, <2>2 DEF Before
  <1>6. CASE \E i \in Calls : CallStep(i)
    BY <1>3, <1>4, <1>5, <1>6, OnceWrite DEF CallStep
  <1>7. CASE UNCHANGED <<pc, pipe, taken>>
    BY <1>7, OnceQuiet
  <1>8. ASSUME NEW b \in BOOLEAN, NEW in \in BOOLEAN, Replace(b, in) PROVE OnceInv'
    BY <1>7, <1>8 DEF Replace
  <1>9. CASE UNCHANGED pvars
    BY <1>7, <1>9 DEF pvars
  <1> QED BY <1>2, <1>5, <1>6, <1>8, <1>9, OnceBreak, OnceTake DEF Next, vars

(* No message of a call is taken by the broker twice, whatever breaks while *)
(* the call waits for the broker's answer and whoever publishes on the same *)
(* connection.                                                              *)
THEOREM PublishedAtMostOnce == Spec => []PublishedOnce
  <1>1. Init => OnceInv
    BY DEF Init, OnceInv
  <1>2. ASSUME PTypeOK, OnceInv PROVE PublishedOnce
    <2>1. DOMAIN taken = 1 .. Len(taken)
      BY <1>2, LenProperties DEF PTypeOK
    <2>2. \A n, m \in DOMAIN taken : taken[n] = taken[m] => n = m
      BY <1>2, <2>1 DEF OnceInv
    <2> QED BY <2>2 DEF PublishedOnce, IsInjective
  <1>3. LinkInv => PTypeOK
    BY DEF LinkInv
  <1> QED BY <1>1, <1>2, <1>3, OnceStep, LinkInvariant, PTL DEF Spec
-----------------------------------------------------------------------------
(* A call's connection is one that was made; with AMQP it broke only while  *)
(* the call was under way, for its status was looked at.                    *)
CauseInv ==
  /\ via \in [Calls -> 0 .. Len(owner)]
  /\ \A i \in Calls :
       /\ pc[i] = "writing" /\ kind = "amqp" /\ via[i] \notin live => i \in trouble
       /\ pc[i] = "waiting" => kind = "redis"
       /\ pc[i] = "raised" => gen[i] = 0 \/ i \in trouble \/ (kind = "redis" /\ via[i] \notin live)

LEMMA CauseInit == Init => CauseInv
  <1> SUFFICES ASSUME Init PROVE CauseInv
    OBVIOUS
  <1>1. via = [i \in Calls |-> 0] /\ Len(owner) = 0 /\ pc = [i \in Calls |-> "unborn"]
    BY DEF Init
  <1>2. via \in [Calls -> 0 .. Len(owner)]
    BY <1>1
  <1>3. \A i \in Calls : pc[i] = "unborn"
    BY <1>1
  <1> QED BY <1>2, <1>3 DEF CauseInv

(* Steps by which no call begins to write, to wait or raises.               *)
LEMMA CauseQuiet ==
  ASSUME CauseInv, UNCHANGED <<kind, owner, live, via>>, trouble \subseteq trouble',
         \A j \in Calls : pc'[j] \in {"writing", "waiting", "raised"} =>
           pc[j] = pc'[j] /\ gen'[j] = gen[j]
  PROVE  CauseInv'
  BY DEF CauseInv

LEMMA CauseStep == LinkInv /\ CauseInv /\ [Next]_vars => CauseInv'
  <1> SUFFICES ASSUME LinkInv, CauseInv, [Next]_vars PROVE CauseInv'
    OBVIOUS
  <1>0. /\ pc \in [Calls -> States] /\ via \in [Calls -> 0 .. Len(owner)] /\ Len(owner) \in Nat
        /\ gen \in [Calls -> Broadcasters \cup {0}] /\ live \subseteq 1 .. Len(owner)
        /\ conn \in [Broadcasters -> 0 .. Len(owner)] /\ kind \in {"redis", "amqp"}
    BY LenProperties DEF LinkInv, PTypeOK, CauseInv
  <1>1. ASSUME NEW i \in Calls, NEW c \in Callers, Begin(i, c) PROVE CauseInv'
    <2>1. /\ UNCHANGED <<kind, owner, live, trouble, via>>
          /\ gen' = [gen EXCEPT ![i] = current]
          /\ pc' = [pc EXCEPT ![i] = IF current = 0 THEN "raised" ELSE "locking"]
      BY <1>1 DEF Begin
    <2>2. \A j \in Calls \ {i} : pc'[j] = pc[j] /\ gen'[j] = gen[j]
      BY <1>0, <2>1
    <2>3. pc'[i] = "locking" \/ (pc'[i] = "raised" /\ gen'[i] = 0)
      BY <1>0, <2>1
    <2> QED BY <2>1, <2>2, <2>3 DEF CauseInv
  <1>2. ASSUME NEW i \in Calls, Acquire(i) PROVE CauseInv'
    <2>1. UNCHANGED <<kind, owner, live, trouble, gen>>
      BY <1>2 DEF Acquire
    <2>2. CASE ~ Usable(gen[i])
      <3>1. pc' = [pc EXCEPT ![i] = "connecting"] /\ UNCHANGED via
        BY <1>2, <2>2 DEF Acquire
      <3>2. \A j \in Calls : pc'[j] \in {"writing", "waiting", "raised"} => pc[j] = pc'[j]
        BY <1>0, <3>1
      <3> QED BY <2>1, <3>1, <3>2, CauseQuiet
    <2>3. CASE Usable(gen[i])
      <3>1. /\ pc' = [pc EXCEPT ![i] = "writing"] /\ via' = [via EXCEPT ![i] = conn[gen[i]]]
            /\ kind = "amqp" => conn[gen[i]] \in live
        BY <1>2, <2>3 DEF Acquire, Usable
      <3>2. gen[i] \in Broadcasters
        BY <1>0, <1>2 DEF Acquire, Step, LinkInv, ConnectsAlone
      <3>3. conn[gen[i]] \in 0 .. Len(owner)
        BY <1>0, <3>2
      <3>4. via' \in [Calls -> 0 .. Len(owner)] /\ via'[i] = conn[gen[i]] /\ pc'[i] = "writing"
        BY <1>0, <3>1, <3>3
      <3>5. \A j \in Calls \ {i} : pc'[j] = pc[j] /\ via'[j] = via[j]
        BY <1>0, <3>1
      <3> QED BY <2>1, <3>1, <3>4, <3>5 DEF CauseInv
    <2> QED BY <2>2, <2>3
  <1>3. ASSUME NEW i \in Calls, Connected(i) PROVE CauseInv'
    <2> DEFINE k == Len(owner) + 1
    <2>1. gen[i] \in Broadcasters
      BY <1>0, <1>3 DEF Connected, Step, LinkInv, ConnectsAlone
    <2>2. Len(owner') = k
      BY <1>3, <2>1, Appended DEF Connected, LinkInv, PTypeOK
    <2>3. /\ live' = live \cup {k} /\ via' = [via EXCEPT ![i] = k]
          /\ pc' = [pc EXCEPT ![i] = "writing"] /\ UNCHANGED <<kind, trouble, gen>>
      BY <1>3, <2>2 DEF Connected
    <2>4. via' \in [Calls -> 0 .. Len(owner')]
      BY <1>0, <2>2, <2>3
    <2>5. via'[i] \in live' /\ pc'[i] = "writing"
      BY <1>0, <2>3
    <2>6. \A j \in Calls \ {i} : /\ pc'[j] = pc[j] /\ via'[j] = via[j]
                                 /\ via[j] \in live' <=> via[j] \in live
      BY <1>0, <2>3
    <2> QED BY <2>3, <2>4, <2>5, <2>6 DEF CauseInv
  <1>4. ASSUME NEW i \in Calls, ConnectRaises(i) PROVE CauseInv'
    <2>1. /\ pc' = [pc EXCEPT ![i] = "raised"] /\ trouble' = trouble \cup {i}
          /\ UNCHANGED <<kind, owner, live, via, gen>>
      BY <1>4 DEF ConnectRaises, End
    <2>2. \A j \in Calls \ {i} : pc'[j] = pc[j]
      BY <1>0, <2>1
    <2>3. pc'[i] = "raised" /\ i \in trouble'
      BY <1>0, <2>1
    <2> QED BY <2>1, <2>2, <2>3 DEF CauseInv
  <1>5. ASSUME NEW i \in Calls, Write(i) \/ Reply(i) PROVE CauseInv'
    <2>1. UNCHANGED <<kind, owner, live, via, gen, trouble>> /\ pc[i] \in {"writing", "waiting"}
      BY <1>5 DEF Write, Reply, Step
    <2>2. \/ pc' = [pc EXCEPT ![i] = "ok"]
          \/ pc' = [pc EXCEPT ![i] = "waiting"] /\ kind # "amqp"
          \/ pc' = [pc EXCEPT ![i] = "raised"] /\ via[i] \notin live
      BY <1>5 DEF Write, Reply, End
    <2>3. \A j \in Calls \ {i} : pc'[j] = pc[j]
      BY <1>0, <2>2
    <2>4. \/ pc'[i] = "ok"
          \/ pc'[i] = "waiting" /\ kind = "redis"
          \/ pc'[i] = "raised" /\ via[i] \notin live
      BY <1>0, <2>2
    <2>5. via[i] \notin live => i \in trouble \/ kind = "redis"
      BY <1>0, <2>1 DEF CauseInv
    <2> QED BY <2>1, <2>3, <2>4, <2>5 DEF CauseInv
  <1>6. ASSUME NEW i \in Calls, Cancel(i) PROVE CauseInv'
    <2>1. pc' = [pc EXCEPT ![i] = "cancelled"] /\ UNCHANGED <<kind, owner, live, via, gen, trouble>>
      BY <1>6 DEF Cancel, End
    <2>2. \A j \in Calls : pc'[j] \in {"writing", "waiting", "raised"} => pc[j] = pc'[j]
      BY <1>0, <2>1
    <2> QED BY <2>1, <2>2, CauseQuiet
  <1>7. CASE UNCHANGED <<kind, owner, live, via, gen, pc, trouble>>
    BY <1>7, CauseQuiet
  <1>8. ASSUME NEW k \in Calls, NEW n \in 0 .. MaxCalls, Break(k, n) PROVE CauseInv'
    <2>1. /\ live' \subseteq live /\ trouble' = trouble \cup InFlight
          /\ UNCHANGED <<kind, owner, via, gen, pc>>
      BY <1>8 DEF Break
    <2>2. \A j \in Calls : pc[j] = "writing" => j \in trouble'
      BY <2>1 DEF InFlight, Over
    <2> QED BY <2>1, <2>2 DEF CauseInv
  <1>9. ASSUME NEW k \in Calls, Take(k) PROVE CauseInv'
    BY <1>7, <1>9 DEF Take
  <1>10. ASSUME NEW b \in BOOLEAN, NEW in \in BOOLEAN, Replace(b, in) PROVE CauseInv'
    BY <1>7, <1>10 DEF Replace
  <1>11. CASE UNCHANGED pvars
    BY <1>7, <1>11 DEF pvars
  <1>12. CASE \E i \in Calls : CallStep(i)
    BY <1>2, <1>3, <1>5, <1>12 DEF CallStep
  <1> QED BY <1>1, <1>4, <1>6, <1>8, <1>9, <1>10, <1>11, <1>12 DEF Next, vars

(* No call raises without a cause of its own: a connection that failed or   *)
(* broke while it was under way, no Broadcaster, or, with Redis, the cached *)
(* connection that nobody looks at before it is used.                       *)
THEOREM RaisedForCause == Spec => []RaisesForCause
  <1>1. CauseInv => RaisesForCause
    BY DEF CauseInv, RaisesForCause
  <1> QED BY <1>1, CauseInit, CauseStep, LinkInvariant, PTL DEF Spec

-----------------------------------------------------------------------------
(* What the listeners have, in every step of the publisher's behaviours.    *)
ListenersInv == BTypeOK /\ DueInv /\ EndedInv

LEMMA ListenersInit == Init => ListenersInv
  BY BTypeInit, DueInit, EndedInit DEF Init, ListenersInv

LEMMA BrokerPart == [Next]_vars => \/ BStep \/ UNCHANGED bvars
                                   \/ Fails /\ failures < MaxFailures
  <1> SUFFICES ASSUME [Next]_vars PROVE \/ BStep \/ UNCHANGED bvars
                                        \/ Fails /\ failures < MaxFailures
    OBVIOUS
  <1>1. ASSUME NEW i \in Calls, ConnectRaises(i), Fails PROVE failures < MaxFailures
    BY <1>1 DEF ConnectRaises
  <1>2. ASSUME NEW k \in Calls, NEW n \in 0 .. MaxCalls, Break(k, n), Fails
        PROVE  failures < MaxFailures
    BY <1>2 DEF Break
  <1>3. ASSUME NEW k \in Calls, Take(k) PROVE BStep
    BY <1>3 DEF Take, BStep
  <1>4. CASE UNCHANGED vars
    BY <1>4 DEF vars
  <1> QED BY <1>1, <1>2, <1>3, <1>4 DEF Next, CallStep, BStep

LEMMA ListenersStep == ListenersInv /\ [Next]_vars => ListenersInv'
  <1> SUFFICES ASSUME ListenersInv, [Next]_vars PROVE ListenersInv'
    OBVIOUS
  <1>1. CASE BStep
    BY <1>1, BTypeStep, DueStep, EndedStep DEF ListenersInv
  <1>2. CASE UNCHANGED bvars
    BY <1>2 DEF bvars, ListenersInv, BTypeOK, DueInv, EndedInv
  <1>3. CASE Fails /\ failures < MaxFailures
    <2>1. failures' \in 0 .. MaxFailures
      BY <1>3, ListenerBounds DEF Fails, ListenersInv, BTypeOK
    <2>2. UNCHANGED <<version, seen, first, listener, stream, cut, published, dispatched, due>>
      BY <1>3 DEF Fails
    <2> QED BY <2>1, <2>2 DEF ListenersInv, BTypeOK, DueInv, EndedInv
  <1> QED BY <1>1, <1>2, <1>3, BrokerPart

(* No more connections are made than calls have made or found one, so that  *)
(* there is a place for what is written to each.                            *)
Linked == {i \in Calls : pc[i] \notin {"unborn", "locking", "connecting"}}

LEMMA LinkedFinite ==
  IsFiniteSet(Linked) /\ Cardinality(Linked) \in Nat /\ Cardinality(Linked) <= MaxCalls
  <1>1. IsFiniteSet(Calls) /\ Cardinality(Calls) = MaxCalls
    BY FS_Interval, PublisherBounds DEF Calls
  <1>2. Linked \in SUBSET Calls
    BY DEF Linked
  <1>3. IsFiniteSet(Linked) /\ Cardinality(Linked) <= Cardinality(Calls)
    BY <1>1, <1>2, FS_Subset
  <1> QED BY <1>1, <1>3, FS_CardinalityType

(* The calls that returned without raising, and the broker's order.         *)
Kept(i) ==
  \/ Holds(taken, i)
  \/ kind = "amqp" /\ (Holds(pipe[via[i]], i) \/ via[i] \notin live)

OkInv ==
  /\ Len(taken) = published
  /\ Len(owner) <= Cardinality(Linked)
  /\ \A i \in Calls : pc[i] = "ok" => Kept(i)

LEMMA OkInit == Init => OkInv
  <1> SUFFICES ASSUME Init PROVE OkInv
    OBVIOUS
  <1>1. Len(taken) = 0 /\ published = 0 /\ Len(owner) = 0
    BY DEF Init, BInit
  <1>2. \A i \in Calls : pc[i] = "unborn"
    BY DEF Init
  <1>3. 0 <= Cardinality(Linked)
    BY LinkedFinite
  <1> QED BY <1>1, <1>2, <1>3 DEF OkInv

(* How a step changes who has been linked.                                  *)
LEMMA LinkedStep ==
  ASSUME PTypeOK, [Next]_vars, Len(owner) <= Cardinality(Linked)
  PROVE  Len(owner') <= Cardinality(Linked')
  <1>0. Len(owner) \in Nat /\ pc \in [Calls -> States] /\ PTypeOK
    BY LenProperties DEF PTypeOK
  <1>1. /\ IsFiniteSet(Linked) /\ Cardinality(Linked) \in Nat
        /\ IsFiniteSet(Linked') /\ Cardinality(Linked') \in Nat
    <2>1. IsFiniteSet(Calls)
      BY FS_Interval, PublisherBounds DEF Calls
    <2>2. Linked' \in SUBSET Calls
      BY DEF Linked
    <2> QED BY <2>1, <2>2, LinkedFinite, FS_Subset, FS_CardinalityType
  <1>2. ASSUME NEW i \in Calls, NEW s \in States, s \notin {"unborn", "locking", "connecting"},
               pc' = [pc EXCEPT ![i] = s]
        PROVE  Linked' = Linked \cup {i}
    BY <1>0, <1>2 DEF Linked
  <1>3. ASSUME Linked \subseteq Linked', UNCHANGED owner PROVE Len(owner') <= Cardinality(Linked')
    <2>1. Cardinality(Linked) <= Cardinality(Linked')
      BY <1>1, <1>3, FS_Subset
    <2> QED BY <1>0, <1>1, <1>3, <2>1
  <1>4. ASSUME NEW i \in Calls, pc[i] \in {"unborn", "locking"},
               \A j \in Calls \ {i} : pc'[j] = pc[j], UNCHANGED owner
        PROVE  Len(owner') <= Cardinality(Linked')
    BY <1>3, <1>4 DEF Linked
  <1>5. ASSUME NEW i \in Calls, NEW s \in {"ok", "raised", "cancelled", "waiting"},
               pc' = [pc EXCEPT ![i] = s], UNCHANGED owner
        PROVE  Len(owner') <= Cardinality(Linked')
    BY <1>2, <1>3, <1>5 DEF States, Over
  <1>6. ASSUME NEW i \in Calls, Connected(i) PROVE Len(owner') <= Cardinality(Linked')
    <2>1. pc[i] = "connecting" /\ pc' = [pc EXCEPT ![i] = "writing"] /\ owner' = Append(owner, gen[i])
      BY <1>6 DEF Connected, Step
    <2>2. Linked' = Linked \cup {i}
      BY <1>2, <2>1 DEF States, Before
    <2>3. i \notin Linked
      BY <2>1 DEF Linked
    <2>4. Cardinality(Linked') = Cardinality(Linked) + 1
      BY <1>1, <2>2, <2>3, FS_AddElement
    <2>5. Len(owner') = Len(owner) + 1
      BY <2>1, <1>0, LenProperties DEF PTypeOK
    <2> QED BY <1>0, <1>1, <2>4, <2>5
  <1>7. ASSUME NEW i \in Calls, NEW c \in Callers, Begin(i, c)
        PROVE  Len(owner') <= Cardinality(Linked')
    BY <1>0, <1>4, <1>7 DEF Begin, Step
  <1>8. ASSUME NEW i \in Calls, Acquire(i) PROVE Len(owner') <= Cardinality(Linked')
    BY <1>0, <1>4, <1>8 DEF Acquire, Step
  <1>9. ASSUME NEW i \in Calls, ConnectRaises(i) \/ Write(i) \/ Reply(i) \/ Cancel(i)
        PROVE  Len(owner') <= Cardinality(Linked')
    <2>1. PICK s \in {"ok", "raised", "cancelled", "waiting"} : pc' = [pc EXCEPT ![i] = s]
      BY <1>9 DEF ConnectRaises, Write, Reply, Cancel, End
    <2>2. UNCHANGED owner
      BY <1>9 DEF ConnectRaises, Write, Reply, Cancel
    <2> QED BY <1>5, <2>1, <2>2
  <1>10. CASE UNCHANGED <<pc, owner>>
    BY <1>3, <1>10 DEF Linked
  <1>11. ASSUME NEW k \in Calls, NEW n \in 0 .. MaxCalls, Break(k, n)
         PROVE  Len(owner') <= Cardinality(Linked')
    BY <1>10, <1>11 DEF Break
  <1>12. ASSUME NEW k \in Calls, Take(k) PROVE Len(owner') <= Cardinality(Linked')
    BY <1>10, <1>12 DEF Take
  <1>13. ASSUME NEW b \in BOOLEAN, NEW in \in BOOLEAN, Replace(b, in)
         PROVE  Len(owner') <= Cardinality(Linked')
    BY <1>10, <1>13 DEF Replace
  <1>14. CASE UNCHANGED pvars
    BY <1>10, <1>14 DEF pvars
  <1> QED BY <1>6, <1>7, <1>8, <1>9, <1>11, <1>12, <1>13, <1>14 DEF Next, CallStep, vars

(* The broker takes one call's message with each one it numbers.            *)
LEMMA TakenStep ==
  ASSUME PTypeOK, BTypeOK, [Next]_vars, Len(taken) = published
  PROVE  Len(taken') = published'
  <1>1. ASSUME NEW k \in Calls, Take(k) PROVE Len(taken') = published'
    <2>1. Head(pipe[k]) \in Calls
      BY <1>1, Popped DEF Take, PTypeOK
    <2>2. Len(taken') = Len(taken) + 1
      BY <1>1, <2>1, Appended DEF Take, PTypeOK
    <2> QED BY <1>1, <2>2 DEF Take, Publish
  <1>2. ASSUME NEW i \in Calls, CallStep(i) PROVE UNCHANGED <<taken, published>>
    BY <1>2 DEF CallStep, Acquire, Connected, Write, Reply, bvars
  <1>3. ASSUME NEW i \in Calls, Cancel(i) \/ \E c \in Callers : Begin(i, c), UNCHANGED bvars
        PROVE  UNCHANGED <<taken, published>>
    BY <1>3 DEF Cancel, Begin, bvars
  <1>4. ASSUME Fails, \E i \in Calls : ConnectRaises(i) \/ \E n \in 0 .. MaxCalls : Break(i, n)
        PROVE  UNCHANGED <<taken, published>>
    BY <1>4 DEF Fails, ConnectRaises, Break
  <1>5. ASSUME NEW b \in BOOLEAN, NEW in \in BOOLEAN, Replace(b, in), UNCHANGED bvars
        PROVE  UNCHANGED <<taken, published>>
    BY <1>5 DEF Replace, bvars
  <1>6. ASSUME BrokerStep \/ \E l \in Listeners : ListenerStep(l), UNCHANGED pvars
        PROVE  UNCHANGED <<taken, published>>
    BY <1>6 DEF pvars, BrokerStep, ListenerStep, ConnectFails, LoseConnection, Listen, Wakes,
                Subscribe, ShutdownSeen, Dispatch, StreamEnds
  <1>7. CASE UNCHANGED vars
    BY <1>7 DEF vars, pvars, bvars
  <1> QED BY <1>1, <1>2, <1>3, <1>4, <1>5, <1>6, <1>7 DEF Next

(* A call that has returned keeps what it has while its connection, if it   *)
(* works yet, keeps what was written to it.                                 *)
LEMMA KeptQuiet ==
  ASSUME NEW i, Kept(i), UNCHANGED <<kind, taken>>, via'[i] = via[i],
         via[i] \in live' => via[i] \in live /\ pipe'[via[i]] = pipe[via[i]]
  PROVE  Kept(i)'
  BY DEF Kept

KeepsAll == \A i \in Calls : pc[i] = "ok" => Kept(i)

LEMMA KeptOthers ==
  ASSUME KeepsAll, UNCHANGED <<kind, taken, pipe>>, live' \subseteq live,
         \A j \in Calls : pc'[j] = "ok" => pc[j] = "ok" /\ via'[j] = via[j]
  PROVE  KeepsAll'
  BY KeptQuiet DEF KeepsAll

LEMMA KeptWrite ==
  ASSUME PTypeOK, KeepsAll, live \subseteq Calls, NEW i \in Calls, Write(i)
  PROVE  KeepsAll'
  <1>1. UNCHANGED <<kind, live, via, taken>> /\ pc \in [Calls -> States]
    BY DEF Write, PTypeOK
  <1>2. PICK s \in {"ok", "raised", "waiting"} : pc' = [pc EXCEPT ![i] = s]
    BY DEF Write, End
  <1>3. \A j \in Calls \ {i} : pc'[j] = pc[j]
    BY <1>1, <1>2
  <1>4. CASE via[i] \in live
    <2> DEFINE c == via[i]
    <2>1. c \in Calls /\ pipe' = [pipe EXCEPT ![c] = Append(pipe[c], i)]
      BY <1>4 DEF Write
    <2>2. pipe[c] \in Seq(Calls) /\ Len(pipe[c]) \in Nat /\ pipe'[c] = Append(pipe[c], i)
      BY <2>1, LenProperties DEF PTypeOK
    <2>3. /\ Len(pipe'[c]) = Len(pipe[c]) + 1 /\ pipe'[c][Len(pipe[c]) + 1] = i
          /\ \A n \in 1 .. Len(pipe[c]) : pipe'[c][n] = pipe[c][n]
      BY <2>2, Appended
    <2>4. \A k \in Calls : k # c => pipe'[k] = pipe[k]
      BY <2>1 DEF PTypeOK
    <2>5. Holds(pipe'[c], i)
      <3>1. Len(pipe[c]) + 1 \in 1 .. Len(pipe'[c])
        BY <2>2, <2>3
      <3> QED BY <2>3, <3>1 DEF Holds
    <2>6. pc'[i] = "ok" => kind = "amqp"
      BY <1>1, <1>4 DEF Write, End
    <2>7. pc'[i] = "ok" => Kept(i)'
      BY <1>1, <2>5, <2>6 DEF Kept
    <2>8. ASSUME NEW j \in Calls, j # i, pc'[j] = "ok" PROVE Kept(j)'
      <3>1. Kept(j)
        BY <1>3, <2>8 DEF KeepsAll
      <3>2. CASE via[j] = c
        <4>1. Holds(pipe[c], j) => Holds(pipe'[c], j)
          BY <2>2, <2>3, HoldsLonger
        <4> QED BY <1>1, <3>1, <3>2, <4>1 DEF Kept
      <3>3. CASE via[j] # c
        BY <1>1, <2>4, <3>1, <3>3, KeptQuiet
      <3> QED BY <3>2, <3>3
    <2> QED BY <2>7, <2>8 DEF KeepsAll
  <1>5. CASE via[i] \notin live
    <2>1. pc' = [pc EXCEPT ![i] = "raised"] /\ UNCHANGED pipe
      BY <1>5 DEF Write, End
    <2>2. pc'[i] = "raised"
      BY <1>1, <2>1
    <2> QED BY <1>1, <1>3, <2>1, <2>2, KeptOthers
  <1> QED BY <1>4, <1>5

LEMMA KeptTake ==
  ASSUME PTypeOK, KeepsAll, live \subseteq Calls, NEW k \in Calls, Take(k)
  PROVE  KeepsAll'
  <1>1. /\ pipe[k] # << >> /\ pipe' = [pipe EXCEPT ![k] = Tail(pipe[k])]
        /\ taken' = Append(taken, Head(pipe[k])) /\ UNCHANGED <<kind, live, via, pc>>
    BY DEF Take
  <1>2. pipe[k] \in Seq(Calls) /\ Len(taken) \in Nat
    BY LenProperties DEF PTypeOK
  <1>3. /\ Len(pipe[k]) \in Nat \ {0} /\ Len(Tail(pipe[k])) = Len(pipe[k]) - 1
        /\ Head(pipe[k]) = pipe[k][1] /\ pipe[k][1] \in Calls
        /\ \A n \in 1 .. Len(pipe[k]) - 1 : Tail(pipe[k])[n] = pipe[k][n + 1]
    BY <1>1, <1>2, Popped
  <1>4. /\ Len(taken') = Len(taken) + 1 /\ taken'[Len(taken) + 1] = pipe[k][1]
        /\ \A n \in 1 .. Len(taken) : taken'[n] = taken[n]
    BY <1>1, <1>3, Appended DEF PTypeOK
  <1>5. pipe'[k] = Tail(pipe[k]) /\ \A c \in Calls : c # k => pipe'[c] = pipe[c]
    BY <1>1 DEF PTypeOK
  <1> SUFFICES ASSUME NEW j \in Calls, pc'[j] = "ok" PROVE Kept(j)'
    BY DEF KeepsAll
  <1>6. Kept(j)
    BY <1>1 DEF KeepsAll
  <1>7. CASE Holds(taken, j)
    <2>1. Holds(taken', j)
      BY <1>2, <1>4, <1>7, HoldsLonger
    <2> QED BY <2>1 DEF Kept
  <1>8. CASE kind = "amqp" /\ via[j] \notin live
    BY <1>1, <1>8 DEF Kept
  <1>9. CASE kind = "amqp" /\ Holds(pipe[via[j]], j) /\ via[j] \in live
    <2>1. via[j] \in Calls
      BY <1>9
    <2>2. CASE via[j] # k
      BY <1>1, <1>5, <1>9, <2>1, <2>2 DEF Kept
    <2>3. CASE via[j] = k
      <3>1. PICK n \in 1 .. Len(pipe[k]) : pipe[k][n] = j
        BY <1>9, <2>3 DEF Holds
      <3>2. CASE n = 1
        <4>1. Len(taken) + 1 \in 1 .. Len(taken')
          BY <1>2, <1>4
        <4>2. Holds(taken', j)
          BY <1>4, <3>1, <3>2, <4>1 DEF Holds
        <4> QED BY <4>2 DEF Kept
      <3>3. CASE n # 1
        <4>1. n - 1 \in 1 .. Len(pipe'[k]) /\ n - 1 \in 1 .. Len(pipe[k]) - 1 /\ (n - 1) + 1 = n
          BY <1>3, <1>5, <3>3
        <4>2. pipe'[k][n - 1] = j
          BY <1>3, <1>5, <3>1, <4>1
        <4>3. Holds(pipe'[k], j)
          BY <4>1, <4>2 DEF Holds
        <4> QED BY <1>1, <1>9, <2>3, <4>3 DEF Kept
      <3> QED BY <3>2, <3>3
    <2> QED BY <2>2, <2>3
  <1> QED BY <1>6, <1>7, <1>8, <1>9 DEF Kept

LEMMA KeptStep ==
  ASSUME LinkInv, CauseInv, KeepsAll, live \subseteq Calls, [Next]_vars
  PROVE  KeepsAll'
  <1>0. /\ pc \in [Calls -> States] /\ via \in [Calls -> 0 .. Len(owner)] /\ Len(owner) \in Nat
        /\ PTypeOK
    BY LenProperties DEF LinkInv, PTypeOK, CauseInv
  <1>1. ASSUME NEW i \in Calls, NEW s \in States, s # "ok", pc' = [pc EXCEPT ![i] = s],
               \A j \in Calls \ {i} : via'[j] = via[j], UNCHANGED <<kind, live, taken, pipe>>
        PROVE  KeepsAll'
    <2>1. \A j \in Calls : pc'[j] = "ok" => j # i /\ pc[j] = "ok"
      BY <1>0, <1>1
    <2> QED BY <1>1, <2>1, KeptOthers
  <1>2. ASSUME NEW i \in Calls, NEW c \in Callers, Begin(i, c) PROVE KeepsAll'
    <2>1. PICK s \in {"raised", "locking"} : pc' = [pc EXCEPT ![i] = s]
      BY <1>2 DEF Begin
    <2> QED BY <1>1, <1>2, <2>1 DEF Begin, States, Before, Over
  <1>3. ASSUME NEW i \in Calls, Acquire(i) PROVE KeepsAll'
    <2>1. PICK s \in {"writing", "connecting"} : pc' = [pc EXCEPT ![i] = s]
      BY <1>3 DEF Acquire
    <2>2. \A j \in Calls \ {i} : via'[j] = via[j]
      <3>1. via' = via \/ via' = [via EXCEPT ![i] = conn[gen[i]]]
        BY <1>3 DEF Acquire
      <3> QED BY <1>0, <3>1
    <2>3. UNCHANGED <<kind, live, taken, pipe>>
      BY <1>3 DEF Acquire
    <2> QED BY <1>1, <2>1, <2>2, <2>3 DEF States, Before
  <1>4. ASSUME NEW i \in Calls, Connected(i) PROVE KeepsAll'
    <2> DEFINE k == Len(owner) + 1
    <2>1. gen[i] \in Broadcasters
      BY <1>0, <1>4 DEF Connected, Step, LinkInv, ConnectsAlone, PTypeOK
    <2>2. Len(owner') = k
      BY <1>4, <2>1, Appended DEF Connected, LinkInv, PTypeOK
    <2>3. /\ live' = live \cup {k} /\ via' = [via EXCEPT ![i] = k]
          /\ pc' = [pc EXCEPT ![i] = "writing"] /\ UNCHANGED <<kind, taken, pipe>>
      BY <1>4, <2>2 DEF Connected
    <2>4. ASSUME NEW j \in Calls, pc'[j] = "ok" PROVE Kept(j)'
      <3>1. j # i /\ pc[j] = "ok" /\ via'[j] = via[j] /\ via[j] \in 0 .. Len(owner)
        BY <1>0, <2>3, <2>4
      <3>2. via[j] # k
        BY <1>0, <3>1
      <3>3. via[j] \in live' => via[j] \in live
        BY <2>3, <3>2
      <3>4. Kept(j)
        BY <3>1 DEF KeepsAll
      <3> QED BY <2>3, <3>1, <3>3, <3>4, KeptQuiet
    <2> QED BY <2>4 DEF KeepsAll
  <1>5. ASSUME NEW i \in Calls, ConnectRaises(i) \/ Cancel(i) PROVE KeepsAll'
    <2>1. PICK s \in {"raised", "cancelled"} : pc' = [pc EXCEPT ![i] = s]
      BY <1>5 DEF ConnectRaises, Cancel, End
    <2>2. UNCHANGED <<kind, live, via, taken, pipe>>
      BY <1>5 DEF ConnectRaises, Cancel
    <2> QED BY <1>1, <2>1, <2>2 DEF States, Over
  <1>6. ASSUME NEW i \in Calls, Reply(i) PROVE KeepsAll'
    <2>1. UNCHANGED <<kind, live, via, taken, pipe>>
      BY <1>6 DEF Reply
    <2>2. CASE pc' = [pc EXCEPT ![i] = "raised"]
      BY <1>1, <2>1, <2>2 DEF States, Over
    <2>3. CASE pc' = [pc EXCEPT ![i] = "ok"] /\ Contains(taken, i)
      <3>1. Holds(taken, i)
        BY <2>3 DEF Contains, Holds
      <3>2. \A j \in Calls \ {i} : pc'[j] = pc[j]
        BY <1>0, <2>3
      <3>3. ASSUME NEW j \in Calls, pc'[j] = "ok" PROVE Kept(j)
        BY <3>1, <3>2, <3>3 DEF Kept, KeepsAll
      <3> QED BY <2>1, <3>3, KeptQuiet DEF KeepsAll
    <2> QED BY <1>6, <2>2, <2>3 DEF Reply, End
  <1>7. CASE UNCHANGED <<kind, live, via, taken, pipe, pc>>
    BY <1>7, KeptOthers
  <1>8. ASSUME NEW k \in Calls, NEW n \in 0 .. MaxCalls, Break(k, n) PROVE KeepsAll'
    <2>1. /\ live' = live \ {k} /\ pipe' = [pipe EXCEPT ![k] = SubSeq(@, 1, n)]
          /\ UNCHANGED <<kind, via, taken, pc>>
      BY <1>8 DEF Break
    <2>2. ASSUME NEW j \in Calls, pc[j] = "ok" PROVE Kept(j)'
      <3>1. via[j] \in live' => via[j] \in live /\ via[j] # k /\ via[j] \in Calls
        BY <2>1
      <3>2. \A c \in Calls : c # k => pipe'[c] = pipe[c]
        BY <1>0, <2>1 DEF PTypeOK
      <3>3. Kept(j)
        BY <2>2 DEF KeepsAll
      <3> QED BY <2>1, <3>1, <3>2, <3>3, KeptQuiet
    <2> QED BY <2>1, <2>2 DEF KeepsAll
  <1>9. ASSUME NEW b \in BOOLEAN, NEW in \in BOOLEAN, Replace(b, in) PROVE KeepsAll'
    BY <1>7, <1>9 DEF Replace
  <1>10. CASE UNCHANGED pvars
    BY <1>7, <1>10 DEF pvars
  <1>11. CASE \E i \in Calls : CallStep(i)
    BY <1>0, <1>3, <1>4, <1>6, <1>11, KeptWrite DEF CallStep
  <1> QED BY <1>0, <1>2, <1>5, <1>8, <1>9, <1>10, <1>11, KeptTake DEF Next, vars

LEMMA OkStep == LinkInv /\ CauseInv /\ ListenersInv /\ OkInv /\ [Next]_vars => OkInv'
  <1> SUFFICES ASSUME LinkInv, CauseInv, ListenersInv, OkInv, [Next]_vars PROVE OkInv'
    OBVIOUS
  <1>1. PTypeOK /\ BTypeOK /\ Len(owner) \in Nat
    BY LenProperties DEF LinkInv, PTypeOK, ListenersInv
  <1>2. live \subseteq Calls
    <2>1. Len(owner) <= MaxCalls
      BY <1>1, LinkedFinite, PublisherBounds DEF OkInv
    <2>2. 1 .. Len(owner) \subseteq 1 .. MaxCalls
      BY <1>1, <2>1, PublisherBounds
    <2> QED BY <1>1, <2>2 DEF PTypeOK, Calls
  <1>3. KeepsAll'
    BY <1>2, KeptStep DEF OkInv, KeepsAll
  <1> QED BY <1>1, <1>3, LinkedStep, TakenStep DEF OkInv, KeepsAll

(* A call that returned without raising has had its message taken by the    *)
(* broker, and every listener it is due to has it or is about to: whatever  *)
(* broke, was cancelled or set up anew meanwhile.  With AMQP, where nobody  *)
(* waits for the broker, it may be on its way or gone with its connection.  *)
THEOREM ReturnedIsHeard == Spec => []OkIsHeard
  <1>1. ASSUME PTypeOK, ListenersInv, OkInv PROVE OkIsHeard
    <2> SUFFICES ASSUME NEW i \in Calls, pc[i] = "ok"
                 PROVE  \/ Reaches(i)
                        \/ kind = "amqp" /\ (Contains(pipe[via[i]], i) \/ via[i] \notin live)
      BY DEF OkIsHeard
    <2>1. Kept(i)
      BY <1>1 DEF OkInv
    <2>2. CASE Holds(taken, i)
      <3>1. PICK n \in 1 .. Len(taken) : taken[n] = i
        BY <2>2 DEF Holds
      <3>2. n \in DOMAIN taken
        BY <1>1, LenProperties DEF PTypeOK
      <3>3. ASSUME NEW l \in Listeners, n \in due[l] \ Malformed
            PROVE  Contains(dispatched[l] \o stream[l], n)
        <4> DEFINE d == dispatched[l]
                   s == stream[l]
        <4>1. d \in Seq(1 .. published) /\ s \in Seq(1 .. published)
          BY <1>1 DEF ListenersInv, BTypeOK
        <4>2. /\ Len(d \o s) = Len(d) + Len(s) /\ Len(d) \in Nat /\ Len(s) \in Nat
              /\ \A m \in 1 .. Len(d) + Len(s) :
                   (d \o s)[m] = IF m <= Len(d) THEN d[m] ELSE s[m - Len(d)]
          BY <4>1, ConcatProperties, LenProperties
        <4>3. Holds(d, n) \/ Holds(s, n)
          BY <1>1, <3>3 DEF ListenersInv, EndedInv, DueInv
        <4> HIDE DEF d, s
        <4>4. ASSUME NEW m \in 1 .. Len(d), d[m] = n PROVE Contains(d \o s, n)
          <5>1. m \in 1 .. Len(d) + Len(s) /\ m <= Len(d)
            BY <4>2
          <5>2. m \in 1 .. Len(d \o s) /\ (d \o s)[m] = n
            BY <4>2, <4>4, <5>1
          <5> QED BY <5>2 DEF Contains
        <4>5. ASSUME NEW m \in 1 .. Len(s), s[m] = n PROVE Contains(d \o s, n)
          <5>1. /\ Len(d) + m \in 1 .. Len(d) + Len(s) /\ ~ (Len(d) + m <= Len(d))
                /\ (Len(d) + m) - Len(d) = m
            BY <4>2
          <5>2. Len(d) + m \in 1 .. Len(d \o s) /\ (d \o s)[Len(d) + m] = n
            BY <4>2, <4>5, <5>1
          <5> QED BY <5>2 DEF Contains
        <4> QED BY <4>3, <4>4, <4>5 DEF Holds, d, s
      <3> QED BY <3>1, <3>2, <3>3 DEF Reaches
    <2>3. CASE kind = "amqp" /\ (Holds(pipe[via[i]], i) \/ via[i] \notin live)
      BY <2>3 DEF Holds, Contains
    <2> QED BY <2>1, <2>2, <2>3 DEF Kept
  <1>2. LinkInv => PTypeOK
    BY DEF LinkInv
  <1>3. Spec => [](LinkInv /\ CauseInv /\ ListenersInv)
    BY CauseInit, CauseStep, ListenersInit, ListenersStep, LinkInvariant, PTL DEF Spec
  <1> QED BY <1>1, <1>2, <1>3, OkInit, OkStep, PTL DEF Spec

-----------------------------------------------------------------------------
(* End to end: a listener hears no call's message twice, for the broker     *)
(* takes it once and a listener dispatches each number once.                *)
HeardOnce ==
  \A l \in Listeners : \A m, n \in 1 .. Len(dispatched[l]) :
    taken[dispatched[l][m]] = taken[dispatched[l][n]] => m = n

LEMMA OrderKept == ListenersInv /\ OrderInv /\ [Next]_vars => OrderInv'
  <1> SUFFICES ASSUME ListenersInv, OrderInv, [Next]_vars PROVE OrderInv'
    OBVIOUS
  <1>1. CASE UNCHANGED <<stream, dispatched>>
    BY <1>1 DEF OrderInv
  <1> QED BY <1>1, BrokerPart, OrderStep DEF ListenersInv, Fails, bvars

(* A listener acts on no broadcast twice, whatever the call, the publisher's*)
(* connection and the listener's own went through.                          *)
THEOREM ListenersHearOnce == Spec => []HeardOnce
  <1>1. ASSUME LinkInv, OnceInv, ListenersInv, OrderInv, Len(taken) = published PROVE HeardOnce
    <2> SUFFICES ASSUME NEW l \in Listeners, NEW m \in 1 .. Len(dispatched[l]),
                        NEW n \in 1 .. Len(dispatched[l]),
                        taken[dispatched[l][m]] = taken[dispatched[l][n]]
                 PROVE  m = n
      BY DEF HeardOnce
    <2>1. /\ dispatched[l] \in Seq(1 .. published) /\ Len(dispatched[l]) \in Nat
          /\ Increasing(dispatched[l])
      BY <1>1, LenProperties DEF ListenersInv, BTypeOK, OrderInv
    <2>2. dispatched[l][m] \in 1 .. published /\ dispatched[l][n] \in 1 .. published
      BY <2>1, ElementOfSeq
    <2>3. dispatched[l][m] = dispatched[l][n]
      BY <1>1, <2>2 DEF OnceInv
    <2>4. published \in Nat
      BY <1>1, ListenerBounds DEF ListenersInv, BTypeOK
    <2>5. ~ (m < n) /\ ~ (n < m)
      BY <2>1, <2>2, <2>3, <2>4 DEF Increasing
    <2> QED BY <2>1, <2>5
  <1>2. LinkInv => PTypeOK
    BY DEF LinkInv
  <1>3. Init => OrderInv
    BY OrderInit DEF Init
  <1>4. Init => OnceInv
    BY DEF Init, OnceInv
  <1>5. OkInv => Len(taken) = published
    BY DEF OkInv
  <1>6. Spec => [](LinkInv /\ CauseInv /\ ListenersInv)
    BY CauseInit, CauseStep, ListenersInit, ListenersStep, LinkInvariant, PTL DEF Spec
  <1> QED BY <1>1, <1>2, <1>3, <1>4, <1>5, <1>6, OkInit, OkStep, OnceStep, OrderKept, PTL DEF Spec
=============================================================================
