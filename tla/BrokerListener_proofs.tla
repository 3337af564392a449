------------------------- MODULE BrokerListener_proofs -------------------------
(***************************************************************************)
(* Lemmas about the listeners of BrokerListener, for any number of         *)
(* messages, stops and failures: what ServerLifecycle_proofs and           *)
(* BrokerPublisher_proofs both rest on.                                    *)
(***************************************************************************)
EXTENDS BrokerListener, SequenceTheorems, TLAPS

(* The steps that touch what the listeners share.                           *)
BStep ==
  \/ Stop \/ Publish \/ BrokerStep
  \/ \E l \in Listeners : Spawn(l) \/ ListenerStep(l)

(* What a lost connection leaves of a stream.                               *)
LEMMA Prefix ==
  ASSUME NEW S, NEW s \in Seq(S), NEW n \in 0 .. Len(s)
  PROVE  /\ SubSeq(s, 1, n) \in Seq(S) /\ Len(SubSeq(s, 1, n)) = n
         /\ \A i \in 1 .. n : SubSeq(s, 1, n)[i] = s[i]
  <1>1. \A i \in 1 .. n : s[i] \in S
    BY ElementOfSeq
  <1>2. n \in Int /\ 1 \in Int
    OBVIOUS
  <1> QED BY <1>1, <1>2, SubSeqProperties

(* What is left of a stream when its head is taken.                         *)
LEMMA Popped ==
  ASSUME NEW S, NEW s \in Seq(S), s # << >>
  PROVE  /\ Tail(s) \in Seq(S) /\ Len(s) \in Nat \ {0} /\ Len(Tail(s)) = Len(s) - 1
         /\ Head(s) = s[1] /\ s[1] \in S
         /\ \A i \in 1 .. Len(s) - 1 : Tail(s)[i] = s[i + 1]
  BY HeadTailProperties, EmptySeq, ElementOfSeq

LEMMA Appended ==
  ASSUME NEW S, NEW s \in Seq(S), NEW e \in S
  PROVE  /\ Append(s, e) \in Seq(S) /\ Len(Append(s, e)) = Len(s) + 1
         /\ Append(s, e)[Len(s) + 1] = e
         /\ \A i \in 1 .. Len(s) : Append(s, e)[i] = s[i]
  BY AppendProperties

-----------------------------------------------------------------------------
(* Type correctness.                                                        *)
LEMMA BTypeInit ==
  ASSUME NEW at \in {"none", "connecting"}, BInit(at)
  PROVE  BTypeOK
  <1>1. /\ version \in EarlierStops .. EarlierStops + MaxStops
        /\ published \in 0 .. MaxPublished /\ failures \in 0 .. MaxFailures
    BY ListenerBounds DEF BInit
  <1>2. seen \in [Listeners -> 0 .. version] /\ first \in [Listeners -> 0 .. version]
    BY ListenerBounds DEF BInit
  <1>3. /\ stream \in [Listeners -> Seq(1 .. published)]
        /\ dispatched \in [Listeners -> Seq(1 .. published)]
        /\ due \in [Listeners -> SUBSET (1 .. published)]
    BY DEF BInit
  <1> QED BY <1>1, <1>2, <1>3 DEF BInit, BTypeOK

LEMMA BTypeStep == BTypeOK /\ BStep => BTypeOK'
  <1> SUFFICES ASSUME BTypeOK, BStep PROVE BTypeOK'
    OBVIOUS
  <1> USE ListenerBounds DEF BTypeOK
  <1>1. CASE Stop
    <2>1. version' \in EarlierStops .. EarlierStops + MaxStops /\ 0 .. version \subseteq 0 .. version'
      BY <1>1 DEF Stop
    <2>2. seen' \in [Listeners -> 0 .. version'] /\ first' \in [Listeners -> 0 .. version']
      BY <1>1, <2>1 DEF Stop
    <2> QED BY <1>1, <2>1, <2>2 DEF Stop
  <1>2. CASE Publish
    <2>1. published' = published + 1 /\ published' \in 0 .. MaxPublished /\ published' \in 1 .. published'
          /\ 1 .. published \subseteq 1 .. published'
      BY <1>2 DEF Publish
    <2>2. \A l \in Listeners : stream[l] \in Seq(1 .. published') /\ dispatched[l] \in Seq(1 .. published')
      BY <2>1, SeqMonotonic
    <2>3. stream' \in [Listeners -> Seq(1 .. published')]
      <3>1. \A l \in Listeners : Append(stream[l], published + 1) \in Seq(1 .. published')
        BY <2>1, <2>2, Appended
      <3> QED BY <1>2, <2>2, <3>1 DEF Publish
    <2>4. dispatched' \in [Listeners -> Seq(1 .. published')]
      BY <1>2, <2>2 DEF Publish
    <2>5. due' \in [Listeners -> SUBSET (1 .. published')]
      BY <1>2, <2>1 DEF Publish
    <2> QED BY <1>2, <2>1, <2>3, <2>4, <2>5 DEF Publish
  <1>3. ASSUME NEW l \in Listeners, ConnectFails(l) PROVE BTypeOK'
    BY <1>3 DEF ConnectFails
  <1>4. ASSUME NEW l \in Listeners, NEW n \in 0 .. MaxPublished, LoseConnection(l, n)
        PROVE  BTypeOK'
    <2>1. SubSeq(stream[l], 1, n) \in Seq(1 .. published)
      BY <1>4, Prefix DEF LoseConnection
    <2>2. stream' \in [Listeners -> Seq(1 .. published)]
      BY <1>4, <2>1 DEF LoseConnection
    <2>3. due' \in [Listeners -> SUBSET (1 .. published)]
      BY <1>4 DEF LoseConnection
    <2>4. failures' \in 0 .. MaxFailures /\ cut' \subseteq Listeners
      BY <1>4 DEF LoseConnection
    <2> QED BY <1>4, <2>2, <2>3, <2>4 DEF LoseConnection
  <1>5. ASSUME NEW l \in Listeners, Spawn(l) \/ Wakes(l) \/ Subscribe(l) \/ StreamEnds(l)
        PROVE  BTypeOK'
    BY <1>5 DEF Spawn, Wakes, Subscribe, StreamEnds
  <1>6. ASSUME NEW l \in Listeners, Listen(l) PROVE BTypeOK'
    <2>1. version \in 0 .. version
      OBVIOUS
    <2> QED BY <1>6, <2>1 DEF Listen
  <1>7. ASSUME NEW l \in Listeners, ShutdownSeen(l) PROVE BTypeOK'
    <2>1. << >> \in Seq(1 .. published)
      OBVIOUS
    <2> QED BY <1>7, <2>1 DEF ShutdownSeen
  <1>8. ASSUME NEW l \in Listeners, Dispatch(l) PROVE BTypeOK'
    <2>1. Tail(stream[l]) \in Seq(1 .. published) /\ Head(stream[l]) \in 1 .. published
      BY <1>8, Popped DEF Dispatch
    <2>2. Append(dispatched[l], Head(stream[l])) \in Seq(1 .. published)
      BY <2>1, Appended
    <2> QED BY <1>8, <2>1, <2>2 DEF Dispatch
  <1> QED BY <1>1, <1>2, <1>3, <1>4, <1>5, <1>6, <1>7, <1>8 DEF BStep, BrokerStep, ListenerStep

LEMMA VersionGrows == BTypeOK /\ (BStep \/ UNCHANGED bvars) => version' \in {version, version + 1}
  BY DEF BTypeOK, BStep, BrokerStep, ListenerStep, bvars, Stop, Publish, ConnectFails,
       LoseConnection, Spawn, Listen, Wakes, Subscribe, ShutdownSeen, Dispatch, StreamEnds

-----------------------------------------------------------------------------
(* What a listener has handed on, followed by what waits in its stream, is  *)
(* in the order of the broker.                                              *)
Increasing(s) == \A i, j \in 1 .. Len(s) : i < j => s[i] < s[j]
Precedes(s, t) == \A i \in 1 .. Len(s), j \in 1 .. Len(t) : s[i] < t[j]

LEMMA Extend ==
  ASSUME NEW n \in Nat, NEW s \in Seq(1 .. n), NEW e \in 1 .. n, Increasing(s),
         \A i \in 1 .. Len(s) : s[i] < e
  PROVE  Increasing(Append(s, e))
  <1> DEFINE t == Append(s, e)
  <1>1. /\ Len(s) \in Nat /\ Len(t) = Len(s) + 1 /\ t[Len(s) + 1] = e
        /\ \A i \in 1 .. Len(s) : t[i] = s[i] /\ s[i] \in 1 .. n
    BY Appended, LenProperties, ElementOfSeq
  <1> HIDE DEF t
  <1> SUFFICES ASSUME NEW i \in 1 .. Len(t), NEW j \in 1 .. Len(t), i < j PROVE t[i] < t[j]
    BY DEF Increasing, t
  <1>2. i \in 1 .. Len(s) /\ t[i] = s[i]
    BY <1>1
  <1>3. CASE j \in 1 .. Len(s)
    BY <1>1, <1>2, <1>3 DEF Increasing
  <1>4. CASE j = Len(s) + 1
    BY <1>1, <1>2, <1>4
  <1>5. j \in 1 .. Len(s) \/ j = Len(s) + 1
    BY <1>1
  <1> QED BY <1>3, <1>4, <1>5

LEMMA ExtendBefore ==
  ASSUME NEW n \in Nat, NEW s \in Seq(1 .. n), NEW t \in Seq(1 .. n), NEW e \in 1 .. n,
         Precedes(s, t), \A i \in 1 .. Len(s) : s[i] < e
  PROVE  Precedes(s, Append(t, e))
  <1> DEFINE u == Append(t, e)
  <1>1. /\ Len(t) \in Nat /\ Len(u) = Len(t) + 1 /\ u[Len(t) + 1] = e
        /\ \A i \in 1 .. Len(t) : u[i] = t[i]
    BY Appended, LenProperties
  <1> HIDE DEF u
  <1> SUFFICES ASSUME NEW i \in 1 .. Len(s), NEW j \in 1 .. Len(u) PROVE s[i] < u[j]
    BY DEF Precedes, u
  <1>2. j \in 1 .. Len(t) \/ j = Len(t) + 1
    BY <1>1
  <1>3. CASE j \in 1 .. Len(t)
    BY <1>1, <1>3 DEF Precedes
  <1>4. CASE j = Len(t) + 1
    BY <1>1, <1>4
  <1> QED BY <1>2, <1>3, <1>4

LEMMA Shorten ==
  ASSUME NEW n \in Nat, NEW s \in Seq(1 .. n), NEW t \in Seq(1 .. n), NEW m \in 0 .. Len(t),
         Increasing(t), Precedes(s, t)
  PROVE  Increasing(SubSeq(t, 1, m)) /\ Precedes(s, SubSeq(t, 1, m))
  <1> DEFINE u == SubSeq(t, 1, m)
  <1>1. Len(u) = m /\ \A i \in 1 .. m : u[i] = t[i]
    BY Prefix
  <1> HIDE DEF u
  <1>2. \A i \in 1 .. Len(u) : i \in 1 .. Len(t) /\ u[i] = t[i]
    BY <1>1, LenProperties
  <1>3. Increasing(u)
    BY <1>2 DEF Increasing
  <1>4. Precedes(s, u)
    BY <1>2 DEF Precedes
  <1> QED BY <1>3, <1>4 DEF u

LEMMA Advance ==
  ASSUME NEW n \in Nat, NEW s \in Seq(1 .. n), NEW t \in Seq(1 .. n), t # << >>,
         Increasing(s), Increasing(t), Precedes(s, t)
  PROVE  /\ Increasing(Tail(t)) /\ Precedes(s, Tail(t))
         /\ Increasing(Append(s, Head(t))) /\ Precedes(Append(s, Head(t)), Tail(t))
  <1> DEFINE u == Tail(t)
             v == Append(s, Head(t))
  <1>1. /\ Len(t) \in Nat \ {0} /\ Len(u) = Len(t) - 1 /\ Head(t) = t[1] /\ t[1] \in 1 .. n
        /\ \A i \in 1 .. Len(t) - 1 : u[i] = t[i + 1]
    BY Popped
  <1>2. /\ Len(s) \in Nat /\ Len(v) = Len(s) + 1 /\ v[Len(s) + 1] = t[1]
        /\ \A i \in 1 .. Len(s) : v[i] = s[i]
    BY <1>1, Appended, LenProperties
  <1>3. Increasing(v)
    BY <1>1, Extend DEF Precedes
  <1> HIDE DEF u, v
  <1>4. \A i \in 1 .. Len(u) : i + 1 \in 1 .. Len(t) /\ u[i] = t[i + 1] /\ 1 < i + 1
    BY <1>1
  <1>5. Increasing(u)
    <2> SUFFICES ASSUME NEW i \in 1 .. Len(u), NEW j \in 1 .. Len(u), i < j PROVE u[i] < u[j]
      BY DEF Increasing
    <2>1. i + 1 \in 1 .. Len(t) /\ j + 1 \in 1 .. Len(t) /\ i + 1 < j + 1
      BY <1>4
    <2>2. t[i + 1] < t[j + 1]
      BY <2>1 DEF Increasing
    <2> QED BY <1>4, <2>2
  <1>6. Precedes(s, u)
    <2> SUFFICES ASSUME NEW i \in 1 .. Len(s), NEW j \in 1 .. Len(u) PROVE s[i] < u[j]
      BY DEF Precedes
    <2>1. s[i] < t[j + 1]
      BY <1>4 DEF Precedes
    <2> QED BY <1>4, <2>1
  <1>7. \A j \in 1 .. Len(u) : t[1] < u[j]
    <2> SUFFICES ASSUME NEW j \in 1 .. Len(u) PROVE t[1] < u[j]
      OBVIOUS
    <2>1. 1 \in 1 .. Len(t) /\ j + 1 \in 1 .. Len(t) /\ 1 < j + 1
      BY <1>1, <1>4
    <2>2. t[1] < t[j + 1]
      BY <2>1 DEF Increasing
    <2> QED BY <1>4, <2>2
  <1>8. Precedes(v, u)
    <2> SUFFICES ASSUME NEW i \in 1 .. Len(v), NEW j \in 1 .. Len(u) PROVE v[i] < u[j]
      BY DEF Precedes
    <2>1. i \in 1 .. Len(s) \/ i = Len(s) + 1
      BY <1>2
    <2>2. CASE i \in 1 .. Len(s)
      BY <1>2, <1>6, <2>2 DEF Precedes
    <2>3. CASE i = Len(s) + 1
      BY <1>2, <1>7, <2>3
    <2> QED BY <2>1, <2>2, <2>3
  <1> QED BY <1>3, <1>5, <1>6, <1>8 DEF u, v

OrderInv ==
  \A l \in Listeners : /\ Increasing(dispatched[l]) /\ Increasing(stream[l])
                        /\ Precedes(dispatched[l], stream[l])

LEMMA OrderInit ==
  ASSUME NEW at, BInit(at)
  PROVE  OrderInv
  <1> SUFFICES ASSUME NEW l \in Listeners
               PROVE  /\ Increasing(dispatched[l]) /\ Increasing(stream[l])
                      /\ Precedes(dispatched[l], stream[l])
    BY DEF OrderInv
  <1>1. dispatched[l] = << >> /\ stream[l] = << >>
    BY DEF BInit
  <1> QED BY <1>1 DEF Increasing, Precedes

LEMMA OrderStep == BTypeOK /\ OrderInv /\ BStep => OrderInv'
  <1> SUFFICES ASSUME BTypeOK, OrderInv, BStep, NEW k \in Listeners
               PROVE  (/\ Increasing(dispatched[k]) /\ Increasing(stream[k])
                       /\ Precedes(dispatched[k], stream[k]))'
    BY DEF OrderInv
  <1> DEFINE Goal == (/\ Increasing(dispatched[k]) /\ Increasing(stream[k])
                      /\ Precedes(dispatched[k], stream[k]))'
  <1>1. /\ stream[k] \in Seq(1 .. published) /\ dispatched[k] \in Seq(1 .. published)
        /\ published \in Nat /\ Len(stream[k]) \in Nat /\ Len(dispatched[k]) \in Nat
        /\ \A i \in 1 .. Len(stream[k]) : stream[k][i] \in 1 .. published
        /\ \A i \in 1 .. Len(dispatched[k]) : dispatched[k][i] \in 1 .. published
    BY ListenerBounds, ElementOfSeq, LenProperties DEF BTypeOK
  <1>2. Increasing(dispatched[k]) /\ Increasing(stream[k]) /\ Precedes(dispatched[k], stream[k])
    BY DEF OrderInv
  <1>3. ASSUME stream'[k] = stream[k], dispatched'[k] = dispatched[k] PROVE Goal
    BY <1>2, <1>3 DEF Increasing, Precedes
  <1>4. ASSUME stream'[k] = << >>, dispatched'[k] = dispatched[k] PROVE Goal
    BY <1>2, <1>4 DEF Increasing, Precedes
  <1>5. CASE Publish
    <2>1. CASE k \in Subscribed
      <3>1. stream'[k] = Append(stream[k], published + 1) /\ dispatched'[k] = dispatched[k]
        BY <1>5, <2>1 DEF Publish
      <3>2. published + 1 \in 1 .. published + 1 /\ 1 .. published \subseteq 1 .. published + 1
        BY <1>1
      <3>3. stream[k] \in Seq(1 .. published + 1)
        BY <1>1, <3>2, SeqMonotonic
      <3>4. dispatched[k] \in Seq(1 .. published + 1) /\ published + 1 \in Nat
        BY <1>1, <3>2, SeqMonotonic
      <3>5. Increasing(Append(stream[k], published + 1))
        <4>1. \A i \in 1 .. Len(stream[k]) : stream[k][i] < published + 1
          BY <1>1
        <4> QED BY <1>2, <3>2, <3>3, <3>4, <4>1, Extend
      <3>6. Precedes(dispatched[k], Append(stream[k], published + 1))
        <4>1. \A i \in 1 .. Len(dispatched[k]) : dispatched[k][i] < published + 1
          BY <1>1
        <4> QED BY <1>2, <3>2, <3>3, <3>4, <4>1, ExtendBefore
      <3>7. (Increasing(stream[k]) /\ Precedes(dispatched[k], stream[k]))'
        BY <3>1, <3>5, <3>6
      <3>8. Increasing(dispatched[k])'
        BY <1>2, <3>1
      <3> QED BY <3>7, <3>8
    <2>2. CASE k \notin Subscribed
      BY <1>3, <1>5, <2>2 DEF Publish
    <2> QED BY <2>1, <2>2
  <1>6. ASSUME NEW l \in Listeners, NEW n \in 0 .. MaxPublished, LoseConnection(l, n) PROVE Goal
    <2>1. CASE l = k
      <3>1. stream'[k] = SubSeq(stream[k], 1, n) /\ n \in 0 .. Len(stream[k])
            /\ dispatched'[k] = dispatched[k]
        BY <1>6, <2>1 DEF LoseConnection, BTypeOK
      <3>2. Increasing(SubSeq(stream[k], 1, n)) /\ Precedes(dispatched[k], SubSeq(stream[k], 1, n))
        BY <1>1, <1>2, <3>1, Shorten
      <3> QED BY <1>2, <3>1, <3>2
    <2> QED BY <1>3, <1>6, <2>1 DEF LoseConnection, BTypeOK
  <1>7. ASSUME NEW l \in Listeners, ShutdownSeen(l) PROVE Goal
    <2>1. CASE l = k
      BY <1>4, <1>7, <2>1 DEF ShutdownSeen, BTypeOK
    <2> QED BY <1>3, <1>7, <2>1 DEF ShutdownSeen, BTypeOK
  <1>8. ASSUME NEW l \in Listeners, Dispatch(l) PROVE Goal
    <2>1. CASE l = k
      <3>1. /\ stream'[k] = Tail(stream[k]) /\ stream[k] # << >>
            /\ dispatched'[k] \in {dispatched[k], Append(dispatched[k], Head(stream[k]))}
        <4>1. stream'[k] = Tail(stream[k]) /\ stream[k] # << >>
          BY <1>8, <2>1 DEF Dispatch, BTypeOK
        <4>2. CASE Head(stream[l]) \in Malformed
          BY <1>8, <4>1, <4>2 DEF Dispatch
        <4>3. CASE Head(stream[l]) \notin Malformed
          BY <1>8, <2>1, <4>1, <4>3 DEF Dispatch, BTypeOK
        <4> QED BY <4>2, <4>3
      <3>2. /\ Increasing(Tail(stream[k])) /\ Precedes(dispatched[k], Tail(stream[k]))
            /\ Increasing(Append(dispatched[k], Head(stream[k])))
            /\ Precedes(Append(dispatched[k], Head(stream[k])), Tail(stream[k]))
        BY <1>1, <1>2, <3>1, Advance
      <3>3. CASE dispatched'[k] = dispatched[k]
        BY <1>2, <3>1, <3>2, <3>3
      <3>4. CASE dispatched'[k] = Append(dispatched[k], Head(stream[k]))
        BY <3>1, <3>2, <3>4
      <3> QED BY <3>1, <3>3, <3>4
    <2> QED BY <1>3, <1>8, <2>1 DEF Dispatch, BTypeOK
  <1>9. CASE UNCHANGED <<stream, dispatched>>
    BY <1>3, <1>9
  <1> QED BY <1>5, <1>6, <1>7, <1>8, <1>9 DEF BStep, BrokerStep, ListenerStep, Stop, Spawn, Listen,
             ConnectFails, Wakes, Subscribe, StreamEnds

(* A listener's steps are steps of Topic.                                   *)
LEMMA HearInit ==
  ASSUME NEW at, BInit(at)
  PROVE  T!TInit
  BY DEF BInit, T!TInit

LEMMA HearStep == BTypeOK /\ OrderInv /\ (BStep \/ UNCHANGED bvars) => [T!TNext]_(T!tvars)
  <1> SUFFICES ASSUME BTypeOK, OrderInv, BStep \/ UNCHANGED bvars
               PROVE  T!TNext \/ UNCHANGED T!tvars
    OBVIOUS
  <1>1. CASE Publish
    BY <1>1 DEF Publish, T!TNext, T!Take
  <1>2. ASSUME NEW l \in Listeners, Dispatch(l) PROVE T!TNext \/ UNCHANGED T!tvars
    <2> DEFINE n == Head(stream[l])
    <2>1. n \in 1 .. published /\ n = stream[l][1] /\ Len(stream[l]) \in Nat \ {0}
      BY <1>2, Popped DEF Dispatch, BTypeOK
    <2>2. \A i \in 1 .. Len(dispatched[l]) : dispatched[l][i] < n
      BY <2>1 DEF OrderInv, Precedes
    <2>3. DOMAIN dispatched[l] = 1 .. Len(dispatched[l])
      BY LenProperties DEF BTypeOK
    <2>4. CASE n \in Malformed
      BY <1>2, <2>4 DEF Dispatch, T!tvars
    <2>5. CASE n \notin Malformed
      <3>1. dispatched' = [dispatched EXCEPT ![l] = Append(@, n)] /\ UNCHANGED published
        BY <1>2, <2>5 DEF Dispatch
      <3>2. T!Hear(l, n)
        BY <2>1, <2>2, <2>3, <3>1 DEF T!Hear
      <3> QED BY <2>1, <3>2 DEF T!TNext
    <2> QED BY <2>4, <2>5
  <1>3. CASE UNCHANGED <<published, dispatched>>
    BY <1>3 DEF T!tvars
  <1> QED BY <1>1, <1>2, <1>3 DEF BStep, BrokerStep, ListenerStep, bvars, Stop, Spawn, Listen,
             ConnectFails, LoseConnection, Wakes, Subscribe, ShutdownSeen, StreamEnds

-----------------------------------------------------------------------------
(* What was published to a subscription and not lost is dispatched or       *)
(* waits in its stream.                                                     *)
Holds(s, n) == \E i \in 1 .. Len(s) : s[i] = n

DueInv ==
  \A l \in Listeners : listener[l] # "ended" =>
    \A n \in due[l] \ Malformed : Holds(dispatched[l], n) \/ Holds(stream[l], n)

LEMMA DueInit ==
  ASSUME NEW at, BInit(at)
  PROVE  DueInv
  BY DEF BInit, DueInv

LEMMA HoldsLonger ==
  ASSUME NEW s, NEW t, NEW n, Len(s) \in Nat, Len(t) = Len(s) + 1,
         \A i \in 1 .. Len(s) : t[i] = s[i], Holds(s, n)
  PROVE  Holds(t, n)
  <1>1. PICK i \in 1 .. Len(s) : s[i] = n
    BY DEF Holds
  <1>2. i \in 1 .. Len(t) /\ t[i] = n
    BY <1>1
  <1> QED BY <1>2 DEF Holds

LEMMA DueStep == BTypeOK /\ DueInv /\ BStep => DueInv'
  <1> SUFFICES ASSUME BTypeOK, DueInv, BStep, NEW k \in Listeners, listener'[k] # "ended",
                      NEW n \in due'[k], n \notin Malformed
               PROVE  Holds(dispatched'[k], n) \/ Holds(stream'[k], n)
    BY DEF DueInv
  <1> DEFINE Goal == Holds(dispatched'[k], n) \/ Holds(stream'[k], n)
  <1>1. /\ stream[k] \in Seq(1 .. published) /\ dispatched[k] \in Seq(1 .. published)
        /\ Len(stream[k]) \in Nat /\ Len(dispatched[k]) \in Nat /\ published \in Nat
    BY ListenerBounds, LenProperties DEF BTypeOK
  <1>2. ASSUME listener[k] # "ended", n \in due[k]
        PROVE  Holds(dispatched[k], n) \/ Holds(stream[k], n)
    BY <1>2 DEF DueInv
  <1>3. ASSUME listener[k] # "ended", due'[k] = due[k], stream'[k] = stream[k],
               dispatched'[k] = dispatched[k]
        PROVE  Goal
    BY <1>2, <1>3
  <1>4. CASE Publish
    <2>1. CASE k \in Subscribed
      <3>1. /\ stream'[k] = Append(stream[k], published + 1) /\ dispatched'[k] = dispatched[k]
            /\ due'[k] = due[k] \cup {published + 1} /\ listener[k] # "ended"
        BY <1>4, <2>1 DEF Publish
      <3>2. published + 1 \in 1 .. published + 1 /\ 1 .. published \subseteq 1 .. published + 1
        BY <1>1
      <3>3. stream[k] \in Seq(1 .. published + 1)
        BY <1>1, <3>2, SeqMonotonic
      <3>4. /\ Len(stream'[k]) = Len(stream[k]) + 1 /\ stream'[k][Len(stream[k]) + 1] = published + 1
            /\ \A i \in 1 .. Len(stream[k]) : stream'[k][i] = stream[k][i]
        BY <3>1, <3>2, <3>3, Appended
      <3>5. CASE n = published + 1
        <4>1. Len(stream[k]) + 1 \in 1 .. Len(stream'[k])
          BY <1>1, <3>4
        <4> QED BY <3>4, <3>5, <4>1 DEF Holds
      <3>6. CASE n \in due[k]
        <4>1. Holds(stream[k], n) => Holds(stream'[k], n)
          BY <1>1, <3>4, HoldsLonger
        <4> QED BY <1>2, <3>1, <3>6, <4>1
      <3> QED BY <3>1, <3>5, <3>6
    <2> QED BY <1>3, <1>4, <2>1 DEF Publish
  <1>5. ASSUME NEW l \in Listeners, NEW m \in 0 .. MaxPublished, LoseConnection(l, m) PROVE Goal
    <2>1. CASE l = k
      <3>1. /\ stream'[k] = SubSeq(stream[k], 1, m) /\ m \in 0 .. Len(stream[k])
            /\ dispatched'[k] = dispatched[k] /\ listener[k] # "ended"
            /\ due'[k] = due[k] \ {stream[k][i] : i \in m + 1 .. Len(stream[k])}
        BY <1>5, <2>1 DEF LoseConnection, BTypeOK
      <3>2. Len(stream'[k]) = m /\ \A i \in 1 .. m : stream'[k][i] = stream[k][i]
        BY <1>1, <3>1, Prefix
      <3>3. CASE Holds(dispatched[k], n)
        BY <3>1, <3>3
      <3>4. ASSUME NEW i \in 1 .. Len(stream[k]), stream[k][i] = n PROVE Holds(stream'[k], n)
        <4>1. i \notin m + 1 .. Len(stream[k])
          BY <3>1, <3>4
        <4>2. i \in 1 .. m
          BY <1>1, <3>1, <4>1
        <4> QED BY <3>2, <3>4, <4>2 DEF Holds
      <3> QED BY <1>2, <3>1, <3>3, <3>4 DEF Holds
    <2> QED BY <1>3, <1>5, <2>1 DEF LoseConnection, BTypeOK
  <1>6. ASSUME NEW l \in Listeners, ShutdownSeen(l) PROVE Goal
    <2>1. l # k
      BY <1>6 DEF ShutdownSeen, BTypeOK
    <2> QED BY <1>3, <1>6, <2>1 DEF ShutdownSeen, BTypeOK
  <1>7. ASSUME NEW l \in Listeners, Dispatch(l) PROVE Goal
    <2>1. CASE l = k
      <3>1. /\ stream'[k] = Tail(stream[k]) /\ stream[k] # << >> /\ n \in due[k]
            /\ listener[k] # "ended"
        BY <1>7, <2>1 DEF Dispatch, BTypeOK
      <3>2. /\ Len(stream[k]) \in Nat \ {0} /\ Len(stream'[k]) = Len(stream[k]) - 1
            /\ Head(stream[k]) = stream[k][1] /\ stream[k][1] \in 1 .. published
            /\ \A i \in 1 .. Len(stream[k]) - 1 : stream'[k][i] = stream[k][i + 1]
        BY <1>1, <3>1, Popped
      <3>3. CASE stream[k][1] = n
        <4>1. dispatched'[k] = Append(dispatched[k], n)
          BY <1>7, <2>1, <3>2, <3>3 DEF Dispatch, BTypeOK
        <4>2. /\ Len(dispatched'[k]) = Len(dispatched[k]) + 1
              /\ dispatched'[k][Len(dispatched[k]) + 1] = n
          BY <1>1, <3>2, <3>3, <4>1, Appended
        <4>3. Len(dispatched[k]) + 1 \in 1 .. Len(dispatched'[k])
          BY <1>1, <4>2
        <4> QED BY <4>2, <4>3 DEF Holds
      <3>4. ASSUME NEW i \in 1 .. Len(stream[k]), stream[k][i] = n, i # 1
            PROVE  Holds(stream'[k], n)
        <4>1. i - 1 \in 1 .. Len(stream[k]) - 1 /\ (i - 1) + 1 = i
          BY <1>1, <3>4
        <4>2. stream'[k][i - 1] = n
          BY <3>2, <3>4, <4>1
        <4> QED BY <3>2, <4>1, <4>2 DEF Holds
      <3>5. CASE Holds(dispatched[k], n)
        <4>1. CASE Head(stream[k]) \in Malformed
          BY <1>7, <2>1, <3>5, <4>1 DEF Dispatch
        <4>2. CASE Head(stream[k]) \notin Malformed
          <5>1. dispatched'[k] = Append(dispatched[k], Head(stream[k]))
            BY <1>7, <2>1, <4>2 DEF Dispatch, BTypeOK
          <5>2. /\ Len(dispatched'[k]) = Len(dispatched[k]) + 1
                /\ \A i \in 1 .. Len(dispatched[k]) : dispatched'[k][i] = dispatched[k][i]
            BY <1>1, <3>2, <5>1, Appended
          <5> QED BY <1>1, <3>5, <5>2, HoldsLonger
        <4> QED BY <4>1, <4>2
      <3> QED BY <1>2, <3>1, <3>3, <3>4, <3>5 DEF Holds
    <2>2. CASE l # k
      <3>1. UNCHANGED <<listener, due>> /\ stream'[k] = stream[k] /\ dispatched'[k] = dispatched[k]
        BY <1>7, <2>2 DEF Dispatch, BTypeOK
      <3> QED BY <1>3, <3>1
    <2> QED BY <2>1, <2>2
  <1>8. ASSUME NEW l \in Listeners, Spawn(l) \/ Listen(l) \/ ConnectFails(l) \/ Wakes(l)
                                   \/ Subscribe(l) \/ StreamEnds(l)
        PROVE  Goal
    <2>1. listener[k] # "ended" /\ UNCHANGED <<due, stream, dispatched>>
      BY <1>8 DEF Spawn, Listen, ConnectFails, Wakes, Subscribe, StreamEnds, BTypeOK
    <2> QED BY <1>3, <2>1
  <1>9. CASE Stop
    BY <1>3, <1>9 DEF Stop
  <1> QED BY <1>4, <1>5, <1>6, <1>7, <1>8, <1>9 DEF BStep, BrokerStep, ListenerStep

(* Nothing is due to a listener that has ended.                             *)
EndedInv == \A l \in Listeners : listener[l] = "ended" => due[l] = {}

LEMMA EndedInit ==
  ASSUME NEW at \in {"none", "connecting"}, BInit(at)
  PROVE  EndedInv
  BY DEF BInit, EndedInv

LEMMA EndedStep == BTypeOK /\ EndedInv /\ BStep => EndedInv'
  <1> SUFFICES ASSUME BTypeOK, EndedInv, BStep, NEW k \in Listeners, listener'[k] = "ended"
               PROVE  due'[k] = {}
    BY DEF EndedInv
  <1>1. CASE Publish
    BY <1>1 DEF Publish, Subscribed, EndedInv
  <1>2. ASSUME NEW l \in Listeners, NEW n \in 0 .. MaxPublished, LoseConnection(l, n)
        PROVE  due'[k] = {}
    BY <1>2 DEF LoseConnection, Subscribed, EndedInv, BTypeOK
  <1>3. ASSUME NEW l \in Listeners, ShutdownSeen(l) PROVE due'[k] = {}
    BY <1>3 DEF ShutdownSeen, EndedInv, BTypeOK
  <1>4. ASSUME NEW l \in Listeners, Spawn(l) \/ Listen(l) \/ ConnectFails(l) \/ Wakes(l)
                                    \/ Subscribe(l) \/ StreamEnds(l) \/ Dispatch(l)
        PROVE  due'[k] = {}
    <2>1. listener[k] = "ended" /\ UNCHANGED due
      BY <1>4 DEF Spawn, Listen, ConnectFails, Wakes, Subscribe, StreamEnds, Dispatch, BTypeOK
    <2> QED BY <2>1 DEF EndedInv
  <1>5. CASE Stop
    BY <1>5 DEF Stop, EndedInv
  <1> QED BY <1>1, <1>2, <1>3, <1>4, <1>5 DEF BStep, BrokerStep, ListenerStep
=============================================================================
