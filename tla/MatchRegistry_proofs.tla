------------------------- MODULE MatchRegistry_proofs -------------------------
(***************************************************************************)
(* Theorems about MatchRegistry, for any set of decorator arguments, any   *)
(* number of calls and any number of connections.                          *)
(***************************************************************************)
EXTENDS MatchRegistry, Integers, FiniteSetTheorems, TLAPS

(* The place PairsOf gives the k-th key and the w-th value, and back.       *)
LEMMA DivisionOfPlace ==
  ASSUME NEW v \in Nat, v > 0, NEW k \in Nat, NEW w \in 0 .. v - 1
  PROVE  (k * v + w) \div v = k /\ (k * v + w) % v = w
  <1> DEFINE x == k * v + w
             q == x \div v
             r == x % v
  <1>1. k * v \in Nat /\ x \in Nat
    OBVIOUS
  <1>2. q \in Int /\ r \in 0 .. v - 1 /\ x = v * q + r
    BY <1>1, Z3
  <1> HIDE DEF q, r
  <1>3. v * (q - k) = w - r
    BY <1>1, <1>2, Z3
  <1>4. q - k = 0
    <2>1. CASE q - k >= 1
      BY <1>2, <1>3, <2>1, Z3
    <2>2. CASE q - k <= -1
      BY <1>2, <1>3, <2>2, Z3
    <2> QED BY <1>2, <2>1, <2>2
  <1>5. q = k /\ r = w
    BY <1>2, <1>3, <1>4
  <1> QED BY <1>5 DEF q, r

LEMMA PlaceInRange ==
  ASSUME NEW v \in Nat, NEW m \in Nat, NEW k \in 1 .. m, NEW w \in 1 .. v
  PROVE  (k - 1) * v + w \in 1 .. m * v
  <1>1. (k - 1) * v \in Nat /\ (k - 1) * v + v = k * v /\ k * v \in Nat
    BY Z3
  <1>2. k * v <= m * v /\ m * v \in Nat
    BY Z3
  <1> QED BY <1>1, <1>2

Entry(spec, k, v, h) == [key |-> spec.keys[k], value |-> spec.values[v], handler |-> h]

(* Every key is paired with every value.                                    *)
LEMMA PairsOfIsComplete ==
  ASSUME NEW spec \in Specs, NEW h,
         NEW k \in 1 .. Len(spec.keys), NEW v \in 1 .. Len(spec.values)
  PROVE  \E n \in 1 .. Len(spec.keys) * Len(spec.values) :
           PairsOf(spec, h)[n] = Entry(spec, k, v, h)
  <1> DEFINE w == Len(spec.values)
             n == (k - 1) * w + v
  <1>1. Len(spec.keys) \in Nat /\ w \in Nat /\ w > 0 /\ v - 1 \in 0 .. w - 1 /\ k - 1 \in Nat
    BY SpecAssumption
  <1> HIDE DEF w
  <1>2. n \in 1 .. Len(spec.keys) * w
    BY <1>1, PlaceInRange DEF w
  <1>3. n - 1 = (k - 1) * w + (v - 1)
    <2>1. (k - 1) * w \in Int
      BY <1>1, Z3
    <2> QED BY <1>1, <2>1
  <1>4. (n - 1) \div w = k - 1 /\ (n - 1) % w = v - 1
    BY <1>1, <1>3, DivisionOfPlace
  <1>5. ((n - 1) \div w) + 1 = k /\ ((n - 1) % w) + 1 = v
    BY <1>1, <1>4
  <1> HIDE DEF n
  <1>6. PairsOf(spec, h)[n] = Entry(spec, k, v, h)
    BY <1>2, <1>5 DEF PairsOf, Entry, w
  <1> QED BY <1>2, <1>6 DEF w

(* It is a list of pairs, all of them for the handler.                      *)
LEMMA PairsOfIsOwn ==
  ASSUME NEW spec \in Specs, NEW h
  PROVE  \E S : /\ PairsOf(spec, h) \in Seq(S)
                /\ Len(PairsOf(spec, h)) = Len(spec.keys) * Len(spec.values)
                /\ \A n \in 1 .. Len(spec.keys) * Len(spec.values) :
                     PairsOf(spec, h)[n].handler = h
  <1> DEFINE size == Len(spec.keys) * Len(spec.values)
             S == {PairsOf(spec, h)[n] : n \in 1 .. size}
  <1>1. size \in Nat
    <2>1. Len(spec.keys) \in Nat /\ Len(spec.values) \in Nat
      BY SpecAssumption
    <2>2. \A a, b \in Nat : a * b \in Nat
      OBVIOUS
    <2> QED BY <2>1, <2>2
  <1>2. /\ DOMAIN PairsOf(spec, h) = 1 .. size
        /\ \A n \in 1 .. size : PairsOf(spec, h)[n].handler = h
    BY DEF PairsOf
  <1>3. PairsOf(spec, h) = [n \in 1 .. size |-> PairsOf(spec, h)[n]]
    BY DEF PairsOf
  <1> HIDE DEF size
  <1>4. PairsOf(spec, h) \in [1 .. size -> S]
    BY <1>3
  <1>5. PairsOf(spec, h) \in Seq(S)
    BY <1>1, <1>4
  <1>6. Len(PairsOf(spec, h)) = size
    BY <1>1, <1>2, <1>5
  <1> QED BY <1>2, <1>5, <1>6 DEF size

-----------------------------------------------------------------------------
(* AllOrNothing is inductive once a pair belongs to a call that was made.   *)
RegistryInv ==
  /\ \E S : handlers \in Seq(S)
  /\ regs \in Seq([spec : Specs, ok : BOOLEAN])
  /\ \A n \in 1 .. Len(handlers) : handlers[n].handler \in 1 .. Len(regs)
  /\ AllOrNothing

(* One more call: if the pairs of the calls before are what they were, only *)
(* the new call has to be looked at.                                        *)
LEMMA OneMoreCall ==
  ASSUME RegistryInv, NEW spec \in Specs, NEW ok \in BOOLEAN, Attempt(spec, ok),
         \E S : handlers' \in Seq(S),
         \A n \in 1 .. Len(handlers) :
           n \in 1 .. Len(handlers') /\ handlers'[n] = handlers[n],
         \A n \in 1 .. Len(handlers') :
           n \in 1 .. Len(handlers) \/ handlers'[n].handler = Len(regs) + 1,
         \A k \in 1 .. Len(spec.keys), v \in 1 .. Len(spec.values) :
           (\E n \in 1 .. Len(handlers') : handlers'[n] = Entry(spec, k, v, Len(regs) + 1))
             <=> ok
  PROVE  RegistryInv'
  <1>1. /\ regs \in Seq([spec : Specs, ok : BOOLEAN])
        /\ regs' = Append(regs, [spec |-> spec, ok |-> ok])
        /\ regs' \in Seq([spec : Specs, ok : BOOLEAN])
        /\ Len(regs') = Len(regs) + 1 /\ Len(regs) \in Nat
    BY DEF RegistryInv, Attempt
  <1>2. /\ \A h \in 1 .. Len(regs) : regs'[h] = regs[h]
        /\ regs'[Len(regs) + 1] = [spec |-> spec, ok |-> ok]
    BY <1>1
  <1>3. \A n \in 1 .. Len(handlers') : handlers'[n].handler \in 1 .. Len(regs')
    <2> SUFFICES ASSUME NEW n \in 1 .. Len(handlers')
                 PROVE  handlers'[n].handler \in 1 .. Len(regs')
      OBVIOUS
    <2>1. CASE n \in 1 .. Len(handlers)
      <3>1. handlers'[n].handler \in 1 .. Len(regs)
        BY <2>1 DEF RegistryInv
      <3> QED BY <1>1, <3>1
    <2>2. CASE handlers'[n].handler = Len(regs) + 1
      BY <1>1, <2>2
    <2> QED BY <2>1, <2>2
  <1>4. AllOrNothing'
    <2> SUFFICES ASSUME NEW h \in 1 .. Len(regs'), NEW k \in 1 .. Len(regs'[h].spec.keys),
                        NEW v \in 1 .. Len(regs'[h].spec.values)
                 PROVE  (\E n \in 1 .. Len(handlers') :
                           handlers'[n] = Entry(regs'[h].spec, k, v, h)) <=> regs'[h].ok
      BY DEF AllOrNothing, Entry
    <2>1. CASE h = Len(regs) + 1
      BY <1>2, <2>1
    <2>2. CASE h # Len(regs) + 1
      <3>1. h \in 1 .. Len(regs) /\ regs'[h] = regs[h]
        BY <1>1, <1>2, <2>2
      <3> DEFINE e == Entry(regs[h].spec, k, v, h)
      <3>2. (\E n \in 1 .. Len(handlers) : handlers[n] = e) <=> regs[h].ok
        BY <3>1 DEF RegistryInv, AllOrNothing, Entry
      <3>3. e.handler # Len(regs) + 1
        BY <2>2 DEF Entry
      <3> HIDE DEF e
      <3>4. (\E n \in 1 .. Len(handlers') : handlers'[n] = e)
              <=> \E n \in 1 .. Len(handlers) : handlers[n] = e
        BY <3>3
      <3> QED BY <3>1, <3>2, <3>4 DEF e
    <2> QED BY <2>1, <2>2
  <1> QED BY <1>1, <1>3, <1>4 DEF RegistryInv

LEMMA RegistryStep == RegistryInv /\ [Next]_vars => RegistryInv'
  <1> SUFFICES ASSUME RegistryInv, [Next]_vars PROVE RegistryInv'
    OBVIOUS
  <1>1. ASSUME UNCHANGED <<handlers, regs>> PROVE RegistryInv'
    BY <1>1 DEF RegistryInv, AllOrNothing
  <1>2. Len(regs) \in Nat
    BY DEF RegistryInv
  <1>3. ASSUME NEW spec \in Specs, RegisterMatch(spec) PROVE RegistryInv'
    <2> DEFINE h == Len(regs) + 1
               new == PairsOf(spec, h)
               size == Len(spec.keys) * Len(spec.values)
    <2>1. PICK S : handlers \in Seq(S)
      BY DEF RegistryInv
    <2>2. PICK T : /\ new \in Seq(T) /\ Len(new) = size
                   /\ \A n \in 1 .. size : new[n].handler = h
      BY PairsOfIsOwn
    <2>3. handlers' = handlers \o new /\ Attempt(spec, TRUE)
      BY <1>3 DEF RegisterMatch, Accept
    <2>4. \A k \in 1 .. Len(spec.keys), v \in 1 .. Len(spec.values) :
            \E n \in 1 .. size : new[n] = Entry(spec, k, v, h)
      BY PairsOfIsComplete
    <2> HIDE DEF h, new, size
    <2>5. handlers \in Seq(S \cup T) /\ new \in Seq(S \cup T)
      BY <2>1, <2>2
    <2>6. /\ handlers' \in Seq(S \cup T)
          /\ Len(handlers') = Len(handlers) + size
          /\ Len(handlers) \in Nat /\ size \in Nat
          /\ \A n \in 1 .. Len(handlers) : handlers'[n] = handlers[n]
          /\ \A n \in 1 .. size : handlers'[Len(handlers) + n] = new[n]
      BY <2>2, <2>3, <2>5
    <2>7. \A n \in 1 .. Len(handlers') :
            n \in 1 .. Len(handlers) \/ handlers'[n].handler = h
      <3> SUFFICES ASSUME NEW n \in 1 .. Len(handlers'), n \notin 1 .. Len(handlers)
                   PROVE  handlers'[n].handler = h
        OBVIOUS
      <3>1. n - Len(handlers) \in 1 .. size /\ n = Len(handlers) + (n - Len(handlers))
        BY <2>6
      <3>2. handlers'[n] = new[n - Len(handlers)]
        BY <2>6, <3>1
      <3> QED BY <2>2, <3>1, <3>2
    <2>8. \A k \in 1 .. Len(spec.keys), v \in 1 .. Len(spec.values) :
            \E n \in 1 .. Len(handlers') : handlers'[n] = Entry(spec, k, v, h)
      <3> SUFFICES ASSUME NEW k \in 1 .. Len(spec.keys), NEW v \in 1 .. Len(spec.values)
                   PROVE  \E n \in 1 .. Len(handlers') : handlers'[n] = Entry(spec, k, v, h)
        OBVIOUS
      <3>1. PICK n \in 1 .. size : new[n] = Entry(spec, k, v, h)
        BY <2>4
      <3>2. /\ Len(handlers) + n \in 1 .. Len(handlers')
            /\ handlers'[Len(handlers) + n] = Entry(spec, k, v, h)
        BY <2>6, <3>1
      <3> QED BY <3>2
    <2>9. \A n \in 1 .. Len(handlers) :
            n \in 1 .. Len(handlers') /\ handlers'[n] = handlers[n]
      BY <2>6
    <2> QED BY <2>3, <2>6, <2>7, <2>8, <2>9, OneMoreCall DEF h
  <1>4. ASSUME NEW spec \in Specs, NEW ok \in BOOLEAN, Attempt(spec, ok), handlers' = handlers,
               spec.keys = << >> \/ ~ ok
        PROVE  RegistryInv'
    <2>1. \A k \in 1 .. Len(spec.keys), v \in 1 .. Len(spec.values) :
            \A n \in 1 .. Len(handlers) : handlers[n] # Entry(spec, k, v, Len(regs) + 1)
      BY <1>2 DEF RegistryInv, Entry
    <2>2. ok => 1 .. Len(spec.keys) = {}
      BY <1>4
    <2>3. \E S : handlers' \in Seq(S)
      BY <1>4 DEF RegistryInv
    <2> QED BY <1>4, <2>1, <2>2, <2>3, OneMoreCall
  <1>5. ASSUME NEW spec \in Specs, RegisterGeneric(spec) PROVE RegistryInv'
    BY <1>4, <1>5 DEF RegisterGeneric, Accept
  <1>6. ASSUME NEW spec \in Specs, Rejected(spec) PROVE RegistryInv'
    BY <1>4, <1>6 DEF Rejected
  <1>7. ASSUME NEW c \in Conns, Connect(c) PROVE RegistryInv'
    BY <1>1, <1>7 DEF Connect
  <1>8. ASSUME NEW c, NEW frame, Receive(c, frame) PROVE RegistryInv'
    BY <1>1, <1>8 DEF Receive, DispatchMatch, DispatchGeneric, Ignore, Handled
  <1>9. CASE UNCHANGED vars
    BY <1>1, <1>9 DEF vars
  <1> QED BY <1>3, <1>5, <1>6, <1>7, <1>8, <1>9 DEF Next, Decorate

LEMMA RegistryInvariant == Spec => []RegistryInv
  <1>1. Init => RegistryInv
    <2> SUFFICES ASSUME Init PROVE RegistryInv
      OBVIOUS
    <2>1. handlers = << >> /\ regs = << >>
      BY DEF Init
    <2>2. handlers \in Seq({})
      BY <2>1
    <2> QED BY <2>1, <2>2 DEF RegistryInv, AllOrNothing
  <1> QED BY <1>1, RegistryStep, PTL DEF Spec

(* A decorator call registers all its pairs or none of them, and no later   *)
(* call takes one away.                                                     *)
THEOREM CallsAreAllOrNothing == Spec => []AllOrNothing
  <1>1. RegistryInv => AllOrNothing
    BY DEF RegistryInv
  <1> QED BY <1>1, RegistryInvariant, PTL

-----------------------------------------------------------------------------
(* What a connection dispatches on is the frozen table, and it is never     *)
(* replaced.                                                                *)
ViewInv ==
  /\ DOMAIN snap = Conns
  /\ \A s, t \in frozen : s = t
  /\ \A c \in Conns : \A view \in snap[c] : frozen = {view.table}

LEMMA ViewStep == ViewInv /\ [Next]_vars => ViewInv'
  <1> SUFFICES ASSUME ViewInv, [Next]_vars PROVE ViewInv'
    OBVIOUS
  <1>1. ASSUME UNCHANGED <<snap, frozen>> PROVE ViewInv'
    BY <1>1 DEF ViewInv
  <1>2. ASSUME NEW c \in Conns, Connect(c) PROVE ViewInv'
    <2>1. DOMAIN snap' = Conns /\ \A d \in Conns : d # c => snap'[d] = snap[d]
      BY <1>2 DEF Connect, ViewInv
    <2>2. \A d \in Conns : snap[d] # {} => frozen' = frozen
      BY <1>2 DEF Connect, ViewInv
    <2>3. \A view \in snap'[c] : view.table \in frozen'
      BY <1>2 DEF Connect, ViewInv
    <2>4. \A s, t \in frozen' : s = t
      <3>1. CASE frozen = {}
        BY <1>2, <3>1 DEF Connect
      <3>2. CASE frozen # {}
        BY <1>2, <3>2 DEF Connect, ViewInv
      <3> QED BY <3>1, <3>2
    <2> QED BY <2>1, <2>2, <2>3, <2>4 DEF ViewInv
  <1>3. ASSUME NEW spec, Decorate(spec) PROVE UNCHANGED <<snap, frozen>>
    BY <1>3 DEF Decorate, RegisterMatch, RegisterGeneric, Rejected, Accept
  <1>4. ASSUME NEW c, NEW frame, Receive(c, frame) PROVE UNCHANGED <<snap, frozen>>
    BY <1>4 DEF Receive, DispatchMatch, DispatchGeneric, Ignore, Handled
  <1> QED BY <1>1, <1>2, <1>3, <1>4 DEF Next, vars

LEMMA ViewInvariant == Spec => []ViewInv
  <1>1. Init => ViewInv
    BY DEF Init, ViewInv
  <1> QED BY <1>1, ViewStep, PTL DEF Spec

(* All connections dispatch on one table, however many decorators run after *)
(* the first connection.                                                    *)
THEOREM TableIsShared == Spec => []OneTable
  <1>1. ViewInv => OneTable
    BY DEF ViewInv, OneTable
  <1> QED BY <1>1, ViewInvariant, PTL

-----------------------------------------------------------------------------
(* The intervals up to the members of a set of numbers are finite sets, and *)
(* the strict inclusion of finite sets is well founded.                     *)
LEMMA LeastMember ==
  ASSUME NEW T, T \subseteq Nat, T # {}
  PROVE  \E x \in T : \A y \in T : x <= y
  <1> DEFINE Intervals == {0 .. n : n \in T}
  <1>1. Intervals \subseteq FiniteSubsetsOf(Nat) /\ Intervals # {}
    <2>1. ASSUME NEW n \in T PROVE 0 .. n \in FiniteSubsetsOf(Nat)
      <3>1. IsFiniteSet(0 .. n)
        BY FS_Interval
      <3>2. 0 .. n \subseteq Nat
        OBVIOUS
      <3> QED BY <3>1, <3>2 DEF FiniteSubsetsOf
    <2> QED BY <2>1
  <1>2. IsWellFoundedOn(StrictSubsetOrdering(Nat), FiniteSubsetsOf(Nat))
    BY FS_StrictSubsetOrderingWellFounded
  <1>3. PICK I \in Intervals : \A J \in Intervals : <<J, I>> \notin StrictSubsetOrdering(Nat)
    <2> HIDE DEF Intervals
    <2> QED BY <1>1, <1>2, WFMin
  <1>4. PICK x \in T : I = 0 .. x
    BY <1>3
  <1>5. ASSUME NEW y \in T, y < x PROVE FALSE
    <2>1. 0 .. y \in Intervals /\ 0 .. y \subseteq Nat /\ 0 .. x \subseteq Nat
      OBVIOUS
    <2>2. x \in 0 .. x /\ x \notin 0 .. y /\ 0 .. y \subseteq 0 .. x
      BY <1>5
    <2>3. <<0 .. y, 0 .. x>> \in StrictSubsetOrdering(Nat)
      BY <2>1, <2>2 DEF StrictSubsetOrdering
    <2> QED BY <1>3, <1>4, <2>1, <2>3
  <1> QED BY <1>5

Table(t) == \E S : t \in Seq(S)

(* A key's rank is the first place it has in the table.                     *)
LEMMA RankIsFirst ==
  ASSUME NEW t, Table(t), NEW n \in 1 .. Len(t)
  PROVE  LET r == KeyRank(t, t[n].key)
         IN  r \in 1 .. n /\ t[r].key = t[n].key
  <1> DEFINE Places == {m \in 1 .. Len(t) : t[m].key = t[n].key}
             First(m) == t[m].key = t[n].key /\ \A i \in 1 .. m - 1 : t[i].key # t[n].key
  <1>1. Len(t) \in Nat
    BY DEF Table
  <1>2. Places \subseteq Nat /\ n \in Places
    BY <1>1
  <1>3. PICK r \in Places : \A m \in Places : r <= m
    <2> HIDE DEF Places
    <2> QED BY <1>2, LeastMember
  <1>4. r \in 1 .. Len(t) /\ First(r)
    BY <1>1, <1>3
  <1> DEFINE k == CHOOSE m \in 1 .. Len(t) : First(m)
  <1>5. k \in 1 .. Len(t) /\ First(k)
    <2> HIDE DEF First
    <2> QED BY <1>4
  <1>6. k = KeyRank(t, t[n].key)
    BY DEF KeyRank
  <1> HIDE DEF k
  <1>7. k <= n
    BY <1>1, <1>5
  <1> QED BY <1>1, <1>5, <1>6, <1>7

(* The loops find the first match of the first key that has one.            *)
LEMMA SelectedIsFirst ==
  ASSUME NEW t, Table(t), NEW doc, Matching(t, doc) # {}
  PROVE  /\ Selected(t, doc) \in Matching(t, doc)
         /\ \A m \in Matching(t, doc) : Precedes(t, Selected(t, doc), m)
  <1> DEFINE M == Matching(t, doc)
             Rank(n) == KeyRank(t, t[n].key)
             Ranks == {Rank(n) : n \in M}
  <1>1. M \subseteq 1 .. Len(t) /\ Len(t) \in Nat
    BY DEF Matching, Table
  <1>2. \A n \in M : Rank(n) \in Nat
    BY <1>1, RankIsFirst
  <1> HIDE DEF M, Rank
  <1>3. Ranks \subseteq Nat /\ Ranks # {}
    BY <1>2 DEF M
  <1>4. PICK r \in Ranks : \A q \in Ranks : r <= q
    <2> HIDE DEF Ranks
    <2> QED BY <1>3, LeastMember
  <1> DEFINE Best == {n \in M : Rank(n) = r}
  <1>5. Best \subseteq Nat /\ Best # {}
    BY <1>1, <1>4
  <1>6. PICK s \in Best : \A m \in Best : s <= m
    <2> HIDE DEF Best
    <2> QED BY <1>5, LeastMember
  <1>7. s \in M /\ \A m \in M : Rank(s) < Rank(m) \/ (Rank(s) = Rank(m) /\ s <= m)
    <2>1. s \in M /\ Rank(s) = r
      BY <1>6
    <2>2. ASSUME NEW m \in M PROVE Rank(s) < Rank(m) \/ (Rank(s) = Rank(m) /\ s <= m)
      <3>1. r <= Rank(m) /\ r \in Nat /\ Rank(m) \in Nat
        BY <1>2, <1>3, <1>4
      <3>2. Rank(m) = r => s <= m
        BY <1>6
      <3> QED BY <2>1, <3>1, <3>2
    <2> QED BY <2>1, <2>2
  <1>8. s \in M /\ \A m \in M : Precedes(t, s, m)
    BY <1>7 DEF Precedes, Rank
  <1> QED BY <1>8 DEF Selected, M

(* Decorators append: a table has the handlers in the order of their calls. *)
InOrder(t) ==
  /\ Table(t)
  /\ \A n \in 1 .. Len(t) : t[n].handler \in Nat
  /\ \A n, m \in 1 .. Len(t) : n <= m => t[n].handler <= t[m].handler

OrderInv ==
  /\ InOrder(handlers)
  /\ \A t \in frozen : InOrder(t)
  /\ EarlierKeyWins

LEMMA SelectedWins ==
  ASSUME NEW t, InOrder(t), NEW doc, NEW n \in Matching(t, doc),
         LET s == Selected(t, doc) IN t[n].handler < t[s].handler
  PROVE  LET s == Selected(t, doc)
         IN  /\ s \in Matching(t, doc)
             /\ \E i \in 1 .. Len(t) : /\ t[i].key = t[s].key
                                       /\ t[i].handler <= t[n].handler
             /\ t[s].key # t[n].key
  <1> DEFINE s == Selected(t, doc)
             i == KeyRank(t, t[s].key)
             j == KeyRank(t, t[n].key)
  <1>1. s \in Matching(t, doc) /\ Precedes(t, s, n)
    BY SelectedIsFirst DEF InOrder
  <1>2. n \in 1 .. Len(t) /\ s \in 1 .. Len(t) /\ Len(t) \in Nat
    BY <1>1 DEF Matching, InOrder, Table
  <1>3. i \in 1 .. s /\ t[i].key = t[s].key
    BY <1>2, RankIsFirst DEF InOrder
  <1>4. j \in 1 .. n
    BY <1>2, RankIsFirst DEF InOrder
  <1>5. i < j \/ (i = j /\ s <= n)
    BY <1>1 DEF Precedes
  <1>6. t[n].handler < t[s].handler
    OBVIOUS
  <1> HIDE DEF s
  <1>7. n < s
    BY <1>2, <1>6 DEF InOrder
  <1>8. i < j
    BY <1>2, <1>5, <1>7
  <1>9. t[s].key # t[n].key
    BY <1>3, <1>8
  <1> HIDE DEF i, j
  <1>10. i \in 1 .. Len(t) /\ i <= n
    BY <1>2, <1>3, <1>4, <1>8
  <1>11. t[i].handler <= t[n].handler
    BY <1>2, <1>10 DEF InOrder
  <1> QED BY <1>1, <1>3, <1>9, <1>10, <1>11 DEF s

(* Frames that are not matched, and the frame that is.                      *)
LEMMA ReceiveWins ==
  ASSUME ViewInv, OrderInv, NEW c \in Conns, NEW frame \in Frames, Receive(c, frame)
  PROVE  EarlierKeyWins'
  <1>0. /\ last'.view = snap[c] /\ last'.frame = frame
        /\ \A v, w \in snap[c] : v.table = w.table /\ InOrder(v.table)
    BY DEF Receive, DispatchMatch, DispatchGeneric, Ignore, Handled, ViewInv, OrderInv
  <1>1. CASE DispatchMatch(c, frame)
    <2>1. PICK view \in snap[c] :
            /\ Matching(view.table, frame.doc) # {}
            /\ last'.to = view.table[Selected(view.table, frame.doc)].handler
      BY <1>1 DEF DispatchMatch, Handled
    <2> DEFINE t == view.table
               s == Selected(t, frame.doc)
    <2>2. s \in Matching(t, frame.doc)
      BY <1>0, <2>1, SelectedIsFirst DEF InOrder
    <2>3. ASSUME NEW n \in Matching(t, frame.doc), t[n].handler < t[s].handler
          PROVE  \E i \in 1 .. Len(t), k \in Matching(t, frame.doc) :
                   /\ t[k].handler = t[s].handler
                   /\ t[i].key = t[k].key
                   /\ t[i].handler <= t[n].handler
                   /\ t[k].key # t[n].key
      <3>1. InOrder(t)
        BY <1>0
      <3>2. PICK i \in 1 .. Len(t) : t[i].key = t[s].key /\ t[i].handler <= t[n].handler
        BY <2>3, <3>1, SelectedWins
      <3>3. t[s].key # t[n].key
        BY <2>3, <3>1, SelectedWins
      <3> HIDE DEF t, s
      <3> QED BY <2>2, <3>2, <3>3
    <2>4. last'.to = t[s].handler
      BY <2>1
    <2>5. \A v \in last'.view : v.table = t
      BY <1>0
    <2> HIDE DEF t, s
    <2> QED BY <1>0, <2>3, <2>4, <2>5 DEF EarlierKeyWins
  <1>2. CASE ~ DispatchMatch(c, frame)
    <2>1. PICK view \in snap[c] : Unmatched(view, frame) \/ frame.kind \in {"bad_utf8", "binary"}
      BY <1>2 DEF Receive, DispatchGeneric, Ignore
    <2>2. Matching(view.table, frame.doc) = {}
      <3>1. CASE Unmatched(view, frame)
        BY <3>1 DEF Unmatched
      <3>2. CASE frame.kind \in {"bad_utf8", "binary"}
        <4>1. frame.doc = Empty /\ DOMAIN Empty = {}
          BY <3>2 DEF Frames, Empty
        <4> QED BY <4>1 DEF Matching
      <3> QED BY <2>1, <3>1, <3>2
    <2>3. \A v \in last'.view : Matching(v.table, last'.frame.doc) = {}
      BY <1>0, <2>2
    <2> QED BY <2>3 DEF EarlierKeyWins
  <1> QED BY <1>1, <1>2

LEMMA OrderStep == RegistryInv /\ ViewInv /\ OrderInv /\ [Next]_vars => OrderInv'
  <1> SUFFICES ASSUME RegistryInv, ViewInv, OrderInv, [Next]_vars PROVE OrderInv'
    OBVIOUS
  <1>1. ASSUME UNCHANGED <<handlers, frozen, last>> PROVE OrderInv'
    BY <1>1 DEF OrderInv, EarlierKeyWins
  <1>2. ASSUME NEW spec \in Specs, RegisterMatch(spec) PROVE OrderInv'
    <2> DEFINE h == Len(regs) + 1
               new == PairsOf(spec, h)
               size == Len(spec.keys) * Len(spec.values)
    <2>1. PICK S : handlers \in Seq(S)
      BY DEF RegistryInv
    <2>2. PICK U : /\ new \in Seq(U) /\ Len(new) = size
                   /\ \A n \in 1 .. size : new[n].handler = h
      BY PairsOfIsOwn
    <2>3. handlers' = handlers \o new /\ UNCHANGED <<frozen, last>>
      BY <1>2 DEF RegisterMatch, Accept
    <2>4. h \in Nat /\ \A n \in 1 .. Len(handlers) : handlers[n].handler \in 1 .. h - 1
      BY DEF RegistryInv
    <2> HIDE DEF h, new, size
    <2>5. handlers \in Seq(S \cup U) /\ new \in Seq(S \cup U)
      BY <2>1, <2>2
    <2>6. /\ handlers' \in Seq(S \cup U)
          /\ Len(handlers') = Len(handlers) + size
          /\ Len(handlers) \in Nat /\ size \in Nat
          /\ \A n \in 1 .. Len(handlers) : handlers'[n] = handlers[n]
          /\ \A n \in 1 .. size : handlers'[Len(handlers) + n] = new[n]
      BY <2>2, <2>3, <2>5
    <2>7. ASSUME NEW n \in 1 .. Len(handlers'), n \notin 1 .. Len(handlers)
          PROVE  handlers'[n].handler = h
      <3>1. n - Len(handlers) \in 1 .. size /\ n = Len(handlers) + (n - Len(handlers))
        BY <2>6, <2>7
      <3>2. handlers'[n] = new[n - Len(handlers)]
        BY <2>6, <3>1
      <3> QED BY <2>2, <3>1, <3>2
    <2>8. ASSUME NEW n \in 1 .. Len(handlers') PROVE handlers'[n].handler \in 1 .. h
      <3>0. h \in Nat /\ h >= 1
        BY DEF RegistryInv, h
      <3>1. CASE n \in 1 .. Len(handlers)
        BY <2>4, <2>6, <3>0, <3>1
      <3>2. CASE n \notin 1 .. Len(handlers)
        BY <2>7, <3>0, <3>2
      <3> QED BY <3>1, <3>2
    <2>9. ASSUME NEW n \in 1 .. Len(handlers'), NEW m \in 1 .. Len(handlers'), n <= m
          PROVE  handlers'[n].handler <= handlers'[m].handler
      <3>1. CASE m \in 1 .. Len(handlers)
        <4>1. n \in 1 .. Len(handlers)
          BY <2>6, <2>9, <3>1
        <4> QED BY <2>6, <2>9, <3>1, <4>1 DEF OrderInv, InOrder
      <3>2. CASE m \notin 1 .. Len(handlers)
        BY <2>4, <2>7, <2>8, <3>2
      <3> QED BY <3>1, <3>2
    <2>10. InOrder(handlers')
      BY <2>4, <2>6, <2>8, <2>9 DEF InOrder, Table
    <2> QED BY <2>3, <2>10 DEF OrderInv, EarlierKeyWins
  <1>3. ASSUME NEW spec \in Specs, RegisterGeneric(spec) \/ Rejected(spec) PROVE OrderInv'
    BY <1>1, <1>3 DEF RegisterGeneric, Rejected, Accept
  <1>4. ASSUME NEW c \in Conns, Connect(c) PROVE OrderInv'
    <2>1. frozen' \in {frozen, {handlers}} /\ UNCHANGED <<handlers, last>>
      BY <1>4 DEF Connect
    <2> QED BY <2>1 DEF OrderInv, EarlierKeyWins
  <1>5. ASSUME NEW c \in Conns, NEW frame \in Frames, Receive(c, frame) PROVE OrderInv'
    <2>1. UNCHANGED <<handlers, frozen>>
      BY <1>5 DEF Receive, DispatchMatch, DispatchGeneric, Ignore, Handled
    <2> QED BY <1>5, <2>1, ReceiveWins DEF OrderInv
  <1> QED BY <1>1, <1>2, <1>3, <1>4, <1>5 DEF Next, Decorate, vars

(* A handler loses a frame to one that was registered later only to a key   *)
(* that was known before its own, for any tables, documents and matches.    *)
THEOREM EarlierKeysWin == Spec => []EarlierKeyWins
  <1>1. Init => OrderInv
    <2> SUFFICES ASSUME Init PROVE OrderInv
      OBVIOUS
    <2>1. handlers = << >> /\ frozen = {} /\ last.view = {}
      BY DEF Init, NoFrame
    <2>2. handlers \in Seq({}) /\ Len(handlers) = 0
      BY <2>1
    <2> QED BY <2>1, <2>2 DEF OrderInv, InOrder, Table, EarlierKeyWins
  <1>2. OrderInv => EarlierKeyWins
    BY DEF OrderInv
  <1> QED BY <1>1, <1>2, OrderStep, RegistryInvariant, ViewInvariant, PTL DEF Spec
=============================================================================
