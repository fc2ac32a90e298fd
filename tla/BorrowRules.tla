----------------------------- MODULE BorrowRules ----------------------------
(***************************************************************************)
(* The move and borrow rules of a function body (src/src/types.rs,          *)
(* verify_function_borrows and what it calls): one walk over the typed      *)
(* expression that threads the places moved out so far and the loans alive. *)
(*                                                                         *)
(* A place is a root name and a path of fields; going through a box leaves  *)
(* no step in the path.  The state is                                      *)
(*   ok      no rule was broken so far                                     *)
(*   locals  the locals in scope                                           *)
(*   moved   the places moved out                                          *)
(*   active  the loans alive, in the order they were taken                 *)
(*   frozen  inside a loop, the roots an iteration may not move; free its   *)
(*           accumulator, which the body may move as a whole               *)
(***************************************************************************)
EXTENDS TypedExprs

NoRoot == "no root"
Whole(x) == [root |-> x, path |-> <<>>]
NoPlace  == Whole(NoRoot)

\* A dynamic index is the step AnyIndex: it may be any element.
PathPrefix(p, q) ==
  Len(p) <= Len(q) /\ \A i \in DOMAIN p : p[i] = q[i] \/ AnyIndex \in {p[i], q[i]}
Overlap(p, q) ==
  p.root = q.root /\ (PathPrefix(p.path, q.path) \/ PathPrefix(q.path, p.path))
ExactPrefix(p, q) == p.root = q.root /\ IsPrefix(p.path, q.path)

RECURSIVE PlaceOf(_)
PlaceOf(e) == CASE e.is = "name"  -> Whole(e.name)
                [] e.is = "field" -> [PlaceOf(e.target) EXCEPT !.path = Append(@, e.field)]

IsPlace(e) == e.is \in {"name", "field"}

-----------------------------------------------------------------------------
Start == [ok |-> TRUE, locals |-> {}, moved |-> {}, active |-> <<>>, frozen |-> {}, free |-> NoRoot]

Require(s, holds) == [s EXCEPT !.ok = @ /\ holds]

Unmoved(p, s) == \A m \in s.moved : ~Overlap(p, m)

\* How an expression is used: read as a value, named as a whole place, or
\* narrowed into, when only a move of the place or what holds it matters.
UnmovedFor(p, s, use) ==
  IF use = "base"
  THEN \A m \in s.moved : ~(m.root = p.root /\ PathPrefix(m.path, p.path))
  ELSE Unmoved(p, s)

Conflicts(mut, p, loans) ==
  \E i \in DOMAIN loans : Overlap(p, loans[i].place) /\ (mut \/ loans[i].mut)
SharedReadConflicts(p, loans) == Conflicts(FALSE, p, loans)
\* [Mutant: a loan that only reads does not keep its place.]
MovedWhileRead(p, loans) == \E i \in DOMAIN loans : Overlap(p, loans[i].place) /\ loans[i].mut
MoveConflicts(p, loans) == \E i \in DOMAIN loans : Overlap(p, loans[i].place)

\* The loans no owner in the set carries any more.
Retire(loans, owners) == SelectSeq(loans, LAMBDA l : \A o \in owners : ~Overlap(l.owner, o))

AddChecked(s, loans) ==
  LET Add(t, l) ==
        IF Conflicts(l.mut, l.place, t.active) THEN Require(t, FALSE)
        ELSE IF l \in Range(t.active) THEN t
        ELSE [t EXCEPT !.active = Append(@, l)]
  IN  FoldLeft(Add, s, loans)

LiveStorage(loans, s) == \A l \in Range(loans) : l.place.root \in Params \cup s.locals

\* The loans of a value that is one of two: each as often as in either.
Count(loans, l) == Cardinality({i \in DOMAIN loans : loans[i] = l})
Alternative(a, b) ==
  LET Add(out, l) == IF Count(out, l) < Count(a, l) \/ Count(out, l) < Count(b, l)
                     THEN Append(out, l) ELSE out
  IN  FoldLeft(Add, <<>>, a \o b)

Merged(a, b) ==
  [a EXCEPT !.ok = @ /\ b.ok,
            !.moved = @ \cup b.moved,
            !.active = @ \o SelectSeq(b.active, LAMBDA l : l \notin Range(a.active))]

-----------------------------------------------------------------------------
\* The places a value is moved out of.
RECURSIVE MoveSources(_)
MoveSources(e) ==
  CASE IsPlace(e)                               -> IF MoveOnly(e.type) THEN {PlaceOf(e)} ELSE {}
    [] e.is = "let"                             -> {p \in MoveSources(e.body) : p.root # e.name}
    [] e.is = "if"                              -> MoveSources(e.then) \cup MoveSources(e.else)
    [] e.is \in {"enum", "box_new", "unbox"}    -> MoveSources(e.value)
    [] e.is = "record" -> UNION {MoveSources(e.fields[i].value) : i \in DOMAIN e.fields}
    [] OTHER           -> {}

\* The place a value is read from, when it is one.
RECURSIVE SourcePlace(_)
SourcePlace(e) ==
  CASE IsPlace(e)   -> PlaceOf(e)
    [] e.is = "let" -> IF SourcePlace(e.body).root = e.name THEN NoPlace ELSE SourcePlace(e.body)
    [] OTHER        -> NoPlace

\* The paths of a type's references that fields alone reach; the boxes and
\* enums that carry one cannot be named by a field.
RECURSIVE ReferencePaths(_)
ReferencePaths(T) ==
  IF T.is = "ref" THEN {<<>>}
  ELSE IF T.is # "record" THEN {}
  ELSE UNION {{<<f>> \o p : p \in ReferencePaths(T.of[f])} : f \in DOMAIN T.of}
RECURSIVE Resolvable(_)
Resolvable(T) ==
  CASE T.is \in {"box", "enum"} -> ~ContainsReference(T)
    [] T.is = "record"          -> \A f \in DOMAIN T.of : Resolvable(T.of[f])
    [] OTHER                    -> TRUE
SingleReferencePath(T) ==
  IF Resolvable(T) /\ Cardinality(ReferencePaths(T)) = 1
  THEN CHOOSE p \in ReferencePaths(T) : TRUE ELSE <<>>

Rebased(owner, source, target) ==
  IF owner.root = source.root /\ PathPrefix(source.path, owner.path)
  THEN [target EXCEPT !.path = @ \o SubSeq(owner.path, Len(source.path) + 1, Len(owner.path))]
  ELSE target

-----------------------------------------------------------------------------
\* The loans a value carries (collect_value_loans) and those it carries once
\* stored at target (collect_value_loans_for_store): a record's by the field
\* that holds them.  A loan of storage that is gone spoils the result.
Dangling == [mut |-> FALSE, place |-> NoPlace, owner |-> NoPlace]
LiveOr(loans, s) == IF LiveStorage(loans, s) THEN loans ELSE <<Dangling>>

RECURSIVE ValueLoans(_, _), LoansForStore(_, _, _), Inside(_, _, _)
\* The state in which the body of a let or of a binding arm is looked at.
Inside(x, e, s) ==
  LET loans == LoansForStore(e, s, Whole(x))
  IN  [s EXCEPT !.locals = @ \cup {x}, !.active = Retire(@, MoveSources(e)) \o loans]

ValueLoans(e, s) ==
  CASE e.is = "borrow" -> <<[mut |-> e.mut, place |-> PlaceOf(e.target), owner |-> NoPlace]>>
    [] e.is \in {"box_new", "unbox", "enum"} -> ValueLoans(e.value, s)
    [] e.is = "call" -> IF ContainsReference(e.type)
                        THEN FlattenSeq([i \in DOMAIN e.args |-> ValueLoans(e.args[i], s)])
                        ELSE <<>>
    [] e.is = "record" ->
         FlattenSeq([i \in DOMAIN e.fields |-> ValueLoans(e.fields[i].value, s)])
    [] e.is = "let"  -> LiveOr(ValueLoans(e.body, Inside(e.name, e.value, s)), s)
    [] e.is = "if"   -> Alternative(ValueLoans(e.then, s), ValueLoans(e.else, s))
    [] e.is = "case" ->
         LET Of(arm) == LiveOr(ValueLoans(arm.body, IF arm.name = Unbound THEN s
                                                    ELSE Inside(arm.name, e.on, s)), s)
         IN  FlattenSeq([i \in DOMAIN e.arms |-> Of(e.arms[i])])
    [] IsPlace(e) -> IF ContainsReference(e.type)
                     THEN SelectSeq(s.active, LAMBDA l : Overlap(l.owner, PlaceOf(e)))
                     ELSE <<>>
    [] OTHER      -> <<>>

LoansForStore(e, s, target) ==
  CASE e.is = "record" ->
         LET At(f) == LoansForStore(f.value, s, [target EXCEPT !.path = Append(@, f.name)])
         IN  FlattenSeq([i \in DOMAIN e.fields |-> At(e.fields[i])])
    [] e.is = "if"     -> Alternative(LoansForStore(e.then, s, target), LoansForStore(e.else, s, target))
    [] e.is = "let"    -> LoansForStore(e.body, Inside(e.name, e.value, s), target)
    [] e.is = "case"   ->
         LET Of(arm) == LoansForStore(arm.body, IF arm.name = Unbound THEN s
                                                ELSE Inside(arm.name, e.on, s), target)
         IN  FlattenSeq([i \in DOMAIN e.arms |-> Of(e.arms[i])])
    [] e.is = "return" -> <<>>
    [] OTHER           ->
         LET source == SourcePlace(e)
             single == [target EXCEPT !.path = @ \o SingleReferencePath(e.type)]
             loans  == ValueLoans(e, s)
         IN  [i \in DOMAIN loans |->
                [loans[i] EXCEPT !.owner = IF source = NoPlace THEN single
                                           ELSE Rebased(@, source, target)]]

-----------------------------------------------------------------------------
\* Reading a place for its value: a move-only one is moved out, which inside
\* a loop only storage of the iteration, or its whole accumulator, may be.
VerifyRead(e, s) ==
  LET p == PlaceOf(e) IN
  IF MoveOnly(e.type)
  THEN [Require(s, /\ Unmoved(p, s)
                   /\ AnyIndex \notin Range(p.path)
                   /\ ~MoveConflicts(p, s.active)
                   /\ p.root \notin s.frozen
                   /\ p.root = s.free => p.path = <<>>)
        EXCEPT !.moved = @ \cup {p}]
  ELSE Require(s, Unmoved(p, s) /\ ~SharedReadConflicts(p, s.active))

\* Borrowing, writing to or reading the length of a place leaves it in place.
Untouched(mut, e, s) ==
  Require(s, Unmoved(PlaceOf(e), s) /\ ~Conflicts(mut, PlaceOf(e), s.active))

\* The end of a local's scope: its loans go, and none may point to it.
Leave(s, x) ==
  LET kept == Retire(s.active, {Whole(x)})
  IN  [Require(s, \A l \in Range(kept) : l.place.root # x)
       EXCEPT !.active = kept, !.locals = @ \ {x}, !.moved = {p \in @ : p.root # x}]

RECURSIVE Verify(_, _, _)
VerifyValue(s, e) == Verify(e, s, "value")
VerifyEach(es, s) == FoldLeft(VerifyValue, s, es)

\* A local that is given the value: s has verified it, before is the state
\* from which it was.
Bind(s, x, e, before) ==
  LET loans == LoansForStore(e, before, Whole(x))
  IN  AddChecked([Require(s, LiveStorage(loans, s))
                  EXCEPT !.active = Retire(@, MoveSources(e)), !.locals = @ \cup {x}], loans)

\* The arguments of a call lend what they carry until the call returns.
VerifyCall(e, s) ==
  LET Arg(c, a) ==
        LET t     == Verify(a, c.s, "value")
            loans == ValueLoans(a, c.s)
            kept  == [Require(t, LiveStorage(loans, t)) EXCEPT !.active = Retire(@, MoveSources(a))]
            after == AddChecked(kept, loans)
        IN  IF ~t.ok THEN [c EXCEPT !.s = t]
            ELSE [s |-> after, moved |-> c.moved \cup MoveSources(a),
                  lent |-> c.lent \cup (Range(after.active) \ Range(kept.active))]
      done == FoldLeft(Arg, [s |-> s, moved |-> {}, lent |-> {}], e.args)
  IN  [done.s EXCEPT !.active =
         SelectSeq(Retire(@, done.moved), LAMBDA l : l \notin done.lent)]

\* A place that carries references ends the loans it carried; those of what
\* holds it are known too coarsely, and those of some element not at all.
Reassign(s, e, before) ==
  LET p     == PlaceOf(e.target)
      loans == LoansForStore(e.value, before, p)
      Over(l) == ExactPrefix(p, l.owner)
  IN  AddChecked([Require(s, /\ LiveStorage(loans, s)
                             /\ \A l \in Range(s.active) : Overlap(p, l.owner) => Over(l))
                  EXCEPT !.active = SelectSeq(@, LAMBDA l : ~Over(l))], loans)

VerifyAssign(e, s) ==
  LET held  == Untouched(TRUE, e.target, Verify(e.target, s, "place"))
      value == Verify(e.value, held, "value")
      again == Require(value, Unmoved(PlaceOf(e.target), value))
  IN  IF again.ok /\ ContainsReference(e.target.type) THEN Reassign(again, e, s) ELSE again

VerifyLet(e, s) ==
  LET value == Verify(e.value, s, "value")
      body  == Verify(e.body, Bind(value, e.name, e.value, s), "value")
  IN  IF value.ok THEN Leave(body, e.name) ELSE value

VerifyIf(e, s) ==
  LET cond == Verify(e.cond, s, "value")
      then == Verify(e.then, cond, "value")
      else == Verify(e.else, cond, "value")
  IN  CASE ~cond.ok         -> cond
        [] ~(then.ok /\ else.ok) -> Require(cond, FALSE)
        [] Diverges(e.else) -> then
        [] Diverges(e.then) -> else
        [] OTHER            -> Merged(then, else)

VerifyCase(e, s) ==
  LET on == Verify(e.on, s, "value")
      Of(arm) == IF arm.name = Unbound THEN Verify(arm.body, on, "value")
                 ELSE LET body == Verify(arm.body, Bind(on, arm.name, e.on, on), "value")
                      IN  [body EXCEPT !.active = Retire(@, {Whole(arm.name)}),
                                       !.moved = {p \in @ : p.root # arm.name},
                                       !.locals = @ \ {arm.name}]
      ends == [i \in DOMAIN e.arms |-> Of(e.arms[i])]
      live == SelectSeq([i \in DOMAIN e.arms |-> i], LAMBDA i : ~Diverges(e.arms[i].body))
      join == FoldLeft(LAMBDA a, i : Merged(a, ends[i]), ends[live[1]], Tail(live))
  IN  CASE ~on.ok                            -> on
        [] \E i \in DOMAIN ends : ~ends[i].ok -> Require(on, FALSE)
        [] live = <<>>                       -> on
        [] OTHER                             -> join

\* One iteration stands for all of them.
VerifyLoop(e, s) ==
  LET init  == Verify(e.init, s, "value")
      outer == Params \cup init.locals
      inner == [init EXCEPT !.locals = @ \cup {e.acc}]
      cond  == Verify(e.cond, [inner EXCEPT !.frozen = outer \cup {e.acc}, !.free = NoRoot], "value")
      body  == Verify(e.body, [cond EXCEPT !.frozen = outer, !.free = e.acc], "value")
  IN  [body EXCEPT !.ok = @ /\ ~ContainsReference(e.type),
                   !.active = Retire(@, {Whole(e.acc)}), !.locals = @ \ {e.acc},
                   !.moved = {p \in @ : p.root # e.acc}, !.frozen = s.frozen, !.free = s.free]

\* The loans of a record's fields may not conflict with each other.
VerifyRecord(e, s) ==
  LET fields == VerifyEach(Operands(e), s)
      loans  == ValueLoans(e, fields)
      kept   == [fields EXCEPT !.active = Retire(@, MoveSources(e))]
  IN  Require(fields, LiveStorage(loans, fields) /\ AddChecked(kept, loans).ok)

VerifyField(e, s, use) ==
  LET base == Verify(e.target, s, "base")
      held == Require(base, UnmovedFor(PlaceOf(e), base, use))
  IN  IF use # "value" THEN held
      ELSE VerifyRead(e, Require(held, ~SharedReadConflicts(PlaceOf(e), held.active)))

Consume(e, s) ==
  LET t == Verify(e.value, s, "value") IN [t EXCEPT !.active = Retire(@, MoveSources(e.value))]

Verify(e, s, use) ==
  CASE ~s.ok              -> s
    [] e.is = "name"      -> IF use = "value" THEN VerifyRead(e, s)
                             ELSE Require(s, UnmovedFor(PlaceOf(e), s, use))
    [] e.is = "field"     -> VerifyField(e, s, use)
    [] e.is = "call"      -> VerifyCall(e, s)
    [] e.is \in {"binary", "enum", "return"} -> VerifyEach(Operands(e), s)
    [] e.is = "borrow"    -> Untouched(e.mut, e.target, Verify(e.target, s, "place"))
    [] e.is \in {"box_new", "unbox"} -> Consume(e, s)
    [] e.is = "buffer_len"  -> Untouched(FALSE, e.target, Verify(e.target, s, "place"))
    [] e.is = "buffer_push" ->
         VerifyValue(Untouched(TRUE, e.target, Verify(e.target, s, "place")), e.value)
    [] e.is = "assign"    -> VerifyAssign(e, s)
    [] e.is = "let"       -> VerifyLet(e, s)
    [] e.is = "if"        -> VerifyIf(e, s)
    [] e.is = "case"      -> VerifyCase(e, s)
    [] e.is = "loop"      -> VerifyLoop(e, s)
    [] e.is = "record"    -> VerifyRecord(e, s)
    [] OTHER              -> s

-----------------------------------------------------------------------------
\* Whether the value leads to storage of the function (expr_escapes_local_borrow):
\* carrying are the locals whose value does, from where they were bound.  Every
\* reference is of one region, so any argument that carries one may be returned.
RECURSIVE Escapes(_, _), OfLocalStorage(_, _)
Escapes(e, carrying) ==
  LET Holding(x, v) == IF Escapes(v, carrying) THEN carrying \cup {x} ELSE carrying
      OfArm(arm) == Escapes(arm.body, Holding(arm.name, e.on))
  IN  CASE e.is = "name"   -> e.name \in carrying
        [] e.is = "borrow" -> OfLocalStorage(e.target, carrying)
        [] e.is \in {"box_new", "unbox", "enum", "return"} -> Escapes(e.value, carrying)
        [] e.is = "record" -> \E i \in DOMAIN e.fields : Escapes(e.fields[i].value, carrying)
        [] e.is = "field"  -> ContainsReference(e.type) /\ Escapes(e.target, carrying)
        [] e.is = "let"    -> Escapes(e.body, Holding(e.name, e.value))
        [] e.is = "if"     -> Escapes(e.then, carrying) \/ Escapes(e.else, carrying)
        [] e.is = "case"   -> \E i \in DOMAIN e.arms : OfArm(e.arms[i])
        [] e.is = "call"   -> /\ ContainsReference(e.type)
                              /\ \E i \in DOMAIN e.args : /\ ContainsReference(e.args[i].type)
                                                          /\ Escapes(e.args[i], carrying)
        [] OTHER           -> FALSE

\* A field of what a reference points to is where the reference leads.
\* [Mutant: the storage of a parameter is taken to be the caller's.]
OfLocalsOnly(e, carrying) ==
  CASE e.is = "name"  -> e.name \notin Params
    [] e.is = "field" -> IF e.target.type.is = "ref" THEN Escapes(e.target, carrying)
                         ELSE OfLocalStorage(e.target, carrying)
    [] OTHER          -> FALSE

OfLocalStorage(e, carrying) ==
  CASE e.is = "name"  -> TRUE
    [] e.is = "field" -> IF e.target.type.is = "ref" THEN Escapes(e.target, carrying)
                         ELSE OfLocalStorage(e.target, carrying)
    [] OTHER          -> FALSE

\* What the compiler accepts as a function's body.
Accepted(body) ==
  ReturnsPlaced(body, TRUE) /\ ~Escapes(body, {}) /\ Verify(body, Start, "value").ok
=============================================================================
