---------------------------- MODULE MatchRegistry ----------------------------
(***************************************************************************)
(* Receive handlers of a route: their registration by decorators, the      *)
(* snapshot taken by the first connection (src/src/route.rs), and the      *)
(* choice of the handler for a frame (receive_listener in                  *)
(* src/src/server.rs).                                                     *)
(*                                                                         *)
(* The nested IndexMap is represented by the sequence of its pairs in the  *)
(* order of their insertion: the iteration order of the outer map is the   *)
(* order in which keys first occur in it.                                  *)
(***************************************************************************)
EXTENDS Naturals, Sequences, FiniteSets

CONSTANTS
  Specs,      \* arguments of the decorator: match, schema
  Docs,       \* JSON objects of incoming text frames, as functions on keys
  ValidDocs,  \* the ones the Pydantic models accept
  Conns,      \* connections to the route
  MaxReg      \* bound: number of decorator calls

(* A decorator is given lists of keys and of values, empty without a match. *)
ASSUME SpecAssumption ==
  \A spec \in Specs : Len(spec.keys) \in Nat /\ Len(spec.values) \in Nat

(* Text that is a JSON object, other text, text that is not UTF-8, binary.  *)
Empty  == [k \in {} |-> 0]
Frames == [kind : {"json"}, doc : Docs]
          \cup [kind : {"plain", "bad_utf8", "binary"}, doc : {Empty}]

VARIABLES
  handlers,   \* receive_handlers_mut, as the sequence of its pairs
  frozen,     \* receive_handlers (OnceLock): {} or the set of one table
  generic,    \* generic_receive: 0 or the handler, a decorator call
  schema,     \* decorator calls made with a schema
  snap,       \* ReceiveCallback of each connection, {} before it is made
  regs,       \* history: the decorator calls, and whether they succeeded
  last        \* history: the last frame handled

vars == <<handlers, frozen, generic, schema, snap, regs, last>>

NoFrame == [frame |-> [kind |-> "none", doc |-> Empty], view |-> {}, to |-> 0, how |-> "none"]

Init ==
  /\ handlers = << >>
  /\ frozen = {}
  /\ generic = 0
  /\ schema = {}
  /\ snap = [c \in Conns |-> {}]
  /\ regs = << >>
  /\ last = NoFrame

-----------------------------------------------------------------------------
(* Match: a list of keys and a list of values stand for all their pairs.    *)
PairsOf(spec, h) ==
  LET v == Len(spec.values)
  IN  [n \in 1 .. Len(spec.keys) * v |->
         [key |-> spec.keys[((n - 1) \div v) + 1],
          value |-> spec.values[((n - 1) % v) + 1], handler |-> h]]

Registered(table, key, value) ==
  \E n \in 1 .. Len(table) : table[n].key = key /\ table[n].value = value

(* One pair of the spec is registered already: ValueError.                  *)
Duplicate(spec) ==
  \E k \in 1 .. Len(spec.keys), v \in 1 .. Len(spec.values) :
    Registered(handlers, spec.keys[k], spec.values[v])

Attempt(spec, ok) ==
  /\ Len(regs) < MaxReg
  /\ regs' = Append(regs, [spec |-> spec, ok |-> ok])

Accept(spec) ==
  /\ Attempt(spec, TRUE)
  /\ schema' = IF spec.schema THEN schema \cup {Len(regs) + 1} ELSE schema
  /\ UNCHANGED <<frozen, snap, last>>

(* ReceiveDecorator.__call__ with a match                                   *)
RegisterMatch(spec) ==
  /\ spec.keys # << >>
  /\ ~ Duplicate(spec)
  /\ handlers' = handlers \o PairsOf(spec, Len(regs) + 1)
  /\ Accept(spec)
  /\ UNCHANGED generic

(* The same without one, and the bare @route.receive                        *)
RegisterGeneric(spec) ==
  /\ spec.keys = << >>
  /\ generic = 0
  /\ generic' = Len(regs) + 1
  /\ Accept(spec)
  /\ UNCHANGED handlers

(* Mutant: pairs are inserted while they are checked.                       *)
Rejected_Halfway(spec) ==
  /\ IF spec.keys = << >> THEN generic # 0 ELSE Duplicate(spec)
  /\ Attempt(spec, FALSE)
  /\ handlers' = handlers \o SelectSeq(PairsOf(spec, Len(regs) + 1),
                                       LAMBDA p : ~ Registered(handlers, p.key, p.value))
  /\ UNCHANGED <<frozen, generic, schema, snap, last>>

(* A schema that is no Pydantic model is a TypeError: it changes nothing    *)
(* either, and no decorator call of Specs makes it.                         *)
Rejected(spec) ==
  /\ IF spec.keys = << >> THEN generic # 0 ELSE Duplicate(spec)
  /\ Attempt(spec, FALSE)
  /\ UNCHANGED <<handlers, frozen, generic, schema, snap, last>>

(* handle_client: frozen_handlers() clones the map once and for all; the    *)
(* generic handler is read anew for each connection.                        *)
(* Mutant: every connection clones the map.                                 *)
Connect_Clones(c) ==
  /\ snap[c] = {}
  /\ frozen' = {handlers}
  /\ snap' = [snap EXCEPT ![c] = {[table |-> handlers, generic |-> generic]}]
  /\ UNCHANGED <<handlers, generic, schema, regs, last>>

Connect(c) ==
  /\ snap[c] = {}
  /\ frozen' = IF frozen = {} THEN {handlers} ELSE frozen
  /\ snap' = [snap EXCEPT ![c] = {[table |-> table, generic |-> generic] : table \in frozen'}]
  /\ UNCHANGED <<handlers, generic, schema, regs, last>>

-----------------------------------------------------------------------------
(* MatchValue::matches_json                                                 *)
MatchesJson(value, json) ==
  \/ value.kind = "any"
  \/ value.kind \in {"str", "int"} /\ value = json

Matching(table, doc) ==
  {n \in 1 .. Len(table) : /\ table[n].key \in DOMAIN doc
                           /\ MatchesJson(table[n].value, doc[table[n].key])}

KeyRank(table, key) ==
  CHOOSE n \in 1 .. Len(table) :
    table[n].key = key /\ \A m \in 1 .. n - 1 : table[m].key # key

(* The loops of receive_listener: keys in the order of the outer map, then  *)
(* the values of a key in the order of the inner one.                       *)
(* Mutant: the last registered value of a key is tried first.               *)
Precedes_Reversed(table, n, m) ==
  LET a == KeyRank(table, table[n].key)
      b == KeyRank(table, table[m].key)
  IN  a < b \/ (a = b /\ n >= m)

Precedes(table, n, m) ==
  LET a == KeyRank(table, table[n].key)
      b == KeyRank(table, table[m].key)
  IN  a < b \/ (a = b /\ n <= m)

Selected(table, doc) ==
  CHOOSE n \in Matching(table, doc) :
    \A m \in Matching(table, doc) : Precedes(table, n, m)

(* remove_key takes the matched key out of what the handler is given.       *)
Payload(entry, doc) ==
  IF regs[entry.handler].spec.remove_key
    THEN [k \in DOMAIN doc \ {entry.key} |-> doc[k]] ELSE doc

(* A handler with a schema is given what the model makes of the text.       *)
Validated(h, kind, doc) == h \in schema => kind = "json" /\ doc \in ValidDocs

(* An error of validation is logged; no other handler is tried.             *)
Outcome(valid) == IF valid THEN "called" ELSE "invalid"

Handled(c, frame, h, how) ==
  /\ last' = [frame |-> frame, view |-> snap[c], to |-> h, how |-> how]
  /\ UNCHANGED <<handlers, frozen, generic, schema, snap, regs>>

DispatchMatch(c, frame) ==
  \E view \in snap[c] :
    /\ Matching(view.table, frame.doc) # {}
    /\ LET entry == view.table[Selected(view.table, frame.doc)]
           valid == Validated(entry.handler, "json", Payload(entry, frame.doc))
       IN  Handled(c, frame, entry.handler, Outcome(valid))

Unmatched(view, frame) ==
  frame.kind \in {"json", "plain"} /\ Matching(view.table, frame.doc) = {}

DispatchGeneric(c, frame) ==
  \E view \in snap[c] :
    /\ view.generic # 0
    /\ \/ /\ Unmatched(view, frame)
          /\ Handled(c, frame, view.generic,
                     Outcome(Validated(view.generic, frame.kind, frame.doc)))
       \/ frame.kind = "binary" /\ Handled(c, frame, view.generic, "called")

Ignore(c, frame) ==
  \E view \in snap[c] :
    /\ \/ frame.kind = "bad_utf8"
       \/ view.generic = 0 /\ (frame.kind = "binary" \/ Unmatched(view, frame))
    /\ Handled(c, frame, 0, "ignored")

Receive(c, frame) ==
  \/ frame.kind = "json" /\ DispatchMatch(c, frame)
  \/ DispatchGeneric(c, frame)
  \/ Ignore(c, frame)

Decorate(spec) == RegisterMatch(spec) \/ RegisterGeneric(spec) \/ Rejected(spec)

Next ==
  \/ \E spec \in Specs : Decorate(spec)
  \/ \E c \in Conns : Connect(c) \/ \E frame \in Frames : Receive(c, frame)

Spec == Init /\ [][Next]_vars
-----------------------------------------------------------------------------
(* A decorator call that fails leaves nothing behind, one that succeeds     *)
(* registers every pair, and no pair is ever taken from its handler.        *)
AllOrNothing ==
  \A h \in 1 .. Len(regs) : LET spec == regs[h].spec IN
    \A k \in 1 .. Len(spec.keys), v \in 1 .. Len(spec.values) :
      (\E n \in 1 .. Len(handlers) : handlers[n] = [key |-> spec.keys[k],
                                                    value |-> spec.values[v], handler |-> h])
        <=> regs[h].ok

(* reference/match.md: "Handlers are matched in registration order".        *)
RegistrationOrder ==
  \A view \in last.view : \A n, m \in Matching(view.table, last.frame.doc) :
    last.to = view.table[m].handler => last.to <= view.table[n].handler

(* What holds instead: among the handlers of one key the first registered   *)
(* wins, and one that was registered earlier loses only to a key that was   *)
(* known before its.                                                        *)
EarlierKeyWins ==
  \A view \in last.view : \A n, m \in Matching(view.table, last.frame.doc) :
    last.to = view.table[m].handler /\ view.table[n].handler < last.to =>
      \E i \in 1 .. Len(view.table), k \in Matching(view.table, last.frame.doc) :
        /\ view.table[k].handler = last.to
        /\ view.table[i].key = view.table[k].key
        /\ view.table[i].handler <= view.table[n].handler
        /\ view.table[k].key # view.table[n].key

(* Every connection dispatches on the table of the first connection, while  *)
(* decorators go on registering.                                            *)
OneTable ==
  \A c, d \in Conns : \A view \in snap[c], other \in snap[d] : view.table = other.table
=============================================================================
