------------------------------ MODULE DropGlue ------------------------------
(***************************************************************************)
(* The lowering of a function body to operations with explicit drops        *)
(* (src/src/lowering.rs).  There are no drop flags: the lowering keeps the  *)
(* set of places moved out on the current path, drops what is left of a     *)
(* local when its scope ends, of the parameters at the end, of all of them  *)
(* at a return, and makes the branches of a conditional agree by dropping   *)
(* in one what another moved.                                              *)
(*                                                                         *)
(* A place is a root and a path in which going through a box is the step    *)
(* Deref.  The context is                                                  *)
(*   next    the next value id        moved   the places moved out          *)
(*   slots   the types of all slots   locals  the locals in scope           *)
(*   params  the parameters           ok      nothing was refused           *)
(* and lowering an expression yields a context, the operations and the id   *)
(* of the value.  The bytes of a layout are left out, and so are the slots   *)
(* that only pass a value on.                                              *)
(***************************************************************************)
EXTENDS TypedExprs

CONSTANT ParamType      \* the type of each parameter name

Deref == "*"
Slot(x) == [root |-> x, path |-> <<>>]

Under(p, q)    == p.root = q.root /\ IsPrefix(p.path, q.path)
Meets(p, q)    == Under(p, q) \/ Under(q, p)
Covered(set, p)   == \E m \in set : Under(m, p)
Conflicting(set, p) == \E m \in set : Meets(m, p)
\* No place of a set lies under another.
InsertPlace(set, p) == IF Covered(set, p) THEN set ELSE {m \in set : ~Under(p, m)} \cup {p}
Normalized(set) == {p \in set : ~\E m \in set \ {p} : Under(m, p)}

Step(p, s) == [p EXCEPT !.path = Append(@, s)]

-----------------------------------------------------------------------------
Fresh(ctx)  == [ctx EXCEPT !.next = @ + 1]
Refuse(ctx, unless) == [ctx EXCEPT !.ok = @ /\ unless]
Lowered(ctx, ops, value) == [ctx |-> ctx, ops |-> ops, value |-> value]

\* One more operation, whose result is the value.
Emit(l, op) == Lowered(Fresh(l.ctx), Append(l.ops, [op EXCEPT !.id = l.ctx.next]), l.ctx.next)
\* One more operation without a result.
Effect(l, op) == [l EXCEPT !.ops = Append(@, op)]
Nothing(ctx) == Lowered(ctx, <<>>, 0)

AddrOf(x)        == [op |-> "addr_of", id |-> 0, root |-> x]
AddrOfField(b, f) == [op |-> "addr_of_field", id |-> 0, base |-> b, field |-> f]
DerefOp(a, T)    == [op |-> "deref", id |-> 0, address |-> a, box |-> T.is = "box"]
Payload(v, name) == [op |-> "addr_of_payload", id |-> 0, base |-> v, variant |-> name]
Load(a)          == [op |-> "load", id |-> 0, address |-> a]
LenOp(a)         == [op |-> "len", id |-> 0, address |-> a]
Move(a)          == [op |-> "move", id |-> 0, address |-> a]
Store(a, v)      == [op |-> "store", address |-> a, value |-> v]
Drop(a)          == [op |-> "drop", address |-> a]
FreeShell(a)     == [op |-> "free_box_shell", address |-> a]
Const            == [op |-> "const", id |-> 0]

\* The address of a place, reached step by step; a field of what a reference
\* points to is not reached this way.
PlaceAddress(p, l) ==
  LET Along(k, s) ==
        IF s = Deref THEN [at |-> Emit(k.at, DerefOp(k.at.value, k.type)), type |-> k.type.of]
        ELSE IF k.type.is = "record"
        THEN [at |-> Emit(k.at, AddrOfField(k.at.value, s)), type |-> k.type.of[s]]
        ELSE [k EXCEPT !.at.ctx = Refuse(@, FALSE)]
  IN  FoldLeft(Along, [at |-> Emit(l, AddrOf(p.root)), type |-> l.ctx.slots[p.root]], p.path).at

\* A type whose values a scope must drop.
NeedsDrop(T) == MoveOnly(T)

\* Drops what is left of a place: nothing of it if it was moved, all of it if
\* nothing in it was, otherwise its parts one by one, and of a box whose
\* content was moved in part the shell last.
RECURSIVE ResidualDrops(_, _, _, _)
ResidualDrops(l, p, T, moved) ==
  LET inner == \E m \in moved : Under(p, m) /\ m # p
      InField(k, f) == ResidualDrops(k, Step(p, f), T.of[f], moved)
      Shell(k) == LET a == PlaceAddress(p, k) IN Effect(a, FreeShell(a.value))
  IN  CASE Covered(moved, p)   -> l
        [] ~inner              -> IF ~NeedsDrop(T) THEN l
                                  ELSE LET a == PlaceAddress(p, l) IN Effect(a, Drop(a.value))
        [] T.is = "record"     -> FoldLeft(InField, l, SetToSeq(DOMAIN T.of))
        [] T.is = "box"        -> Shell(ResidualDrops(l, Step(p, Deref), T.of, moved))
        [] OTHER               -> [l EXCEPT !.ctx = Refuse(@, FALSE)]

\* Drops in a branch what the join takes as gone and the branch left alive.
RECURSIVE BranchCompensation(_, _, _, _, _)
BranchCompensation(l, p, T, dead, moved) ==
  LET inner == \E m \in dead : Under(p, m) /\ m # p
      InField(k, f) == BranchCompensation(k, Step(p, f), T.of[f], dead, moved)
  IN  CASE Covered(moved, p)   -> l
        [] Covered(dead, p)    -> ResidualDrops(l, p, T, moved)
        [] ~inner              -> l
        [] T.is = "record"     -> FoldLeft(InField, l, SetToSeq(DOMAIN T.of))
        [] T.is = "box"        -> BranchCompensation(l, Step(p, Deref), T.of, dead, moved)
        [] OTHER               -> [l EXCEPT !.ctx = Refuse(@, FALSE)]

\* [Mutant: a branch keeps what another moved as a whole.]
PartialCompensation(l, dead, moved) ==
  LET Root(k, x) == BranchCompensation(k, Slot(x), k.ctx.slots[x], dead, moved)
  IN  FoldLeft(Root, l, SetToSeq({p.root : p \in {d \in dead : d.path # <<>>}}))

MergeCompensation(l, dead, moved) ==
  LET Root(k, x) == BranchCompensation(k, Slot(x), k.ctx.slots[x], dead, moved)
  IN  FoldLeft(Root, l, SetToSeq({p.root : p \in dead}))

\* Drops what is left of the slots, in the order given.
DropSlots(l, names) ==
  LET Left(k, x) == IF NeedsDrop(k.ctx.slots[x])
                    THEN ResidualDrops(k, Slot(x), k.ctx.slots[x], k.ctx.moved) ELSE k
  IN  FoldLeft(Left, l, names)

\* Whether the operations end by leaving the function.
RECURSIVE OpsDiverge(_)
OpsDiverge(ops) ==
  /\ ops # <<>>
  /\ LET last == ops[Len(ops)]
     IN  \/ last.op = "early_return"
         \/ last.op \in {"if", "case"} /\ \A i \in DOMAIN last.blocks : OpsDiverge(last.blocks[i].ops)

-----------------------------------------------------------------------------
\* The place an expression names, with the boxes it goes through.
RECURSIVE MovedPath(_)
MovedPath(e) ==
  IF e.is = "name" THEN Slot(e.name)
  ELSE LET base == MovedPath(e.target)
       IN  Step(IF e.target.type.is = "box" THEN Step(base, Deref) ELSE base, e.field)
Tracked(p) == AnyIndex \notin Range(p.path)

RECURSIVE LowerPlace(_, _)
LowerPlace(e, l) ==
  IF e.is = "name" THEN Emit(l, AddrOf(e.name))
  ELSE LET at   == LowerPlace(e.target, l)
           base == IF e.target.type.is \in {"box", "ref"}
                   THEN Emit(at, DerefOp(at.value, e.target.type)) ELSE at
       IN  Emit(base, AddrOfField(base.value, e.field))

\* Reading a place moves a move-only value out of it and copies another.
LowerRead(e, l) ==
  LET at == LowerPlace(e, l)
  IN  IF ~MoveOnly(e.type) THEN Emit(at, Load(at.value))
      ELSE Emit([at EXCEPT !.ctx.moved = InsertPlace(@, MovedPath(e)),
                           !.ctx.ok = @ /\ Tracked(MovedPath(e))], Move(at.value))

NewSlot(l, x, T) == [l EXCEPT !.ctx.slots = (x :> T) @@ @]
Enter(l, x)      == [l EXCEPT !.ctx.locals = Append(@, x)]
Exit(l)          == [l EXCEPT !.ctx.locals = Front(@)]
\* The expression's value stays while what follows is emitted.
Keeping(l, after) == [after EXCEPT !.value = l.value]
\* What is left of a local is dropped as its scope ends.
ExitDropping(l, x) == Keeping(l, DropSlots(Exit(l), <<x>>))

\* The moves a branch made that are seen outside it: of parameters and of
\* slots there were before it.
OuterMoves(l, before) ==
  {p \in l.ctx.moved \ before.moved : p.root \in DOMAIN before.slots}

RECURSIVE Lower(_, _)
Then(l, e) == LET m == Lower(e, l.ctx) IN Lowered(m.ctx, l.ops \o m.ops, m.value)

\* The values of several expressions, in order.
ThenEach(l, es) ==
  LET Next(k, e) == LET m == Then(k.at, e) IN [at |-> m, values |-> Append(k.values, m.value)]
  IN  FoldLeft(Next, [at |-> l, values |-> <<>>], es)

-----------------------------------------------------------------------------
\* A branch: of an if, it is its body.  An arm that binds its payload makes a
\* local of it, which takes it from a scrutinee that was itself moved out of a
\* name; one that does not drops the payload after its body.
LowerArm(arm, on, l) ==
  IF arm.name = Unbound
  THEN LET body == Then(l, arm.body)
           at   == Emit(body, Payload(on, arm.variant))
       IN  IF NeedsDrop(arm.payload) THEN Keeping(body, Effect(at, Drop(at.value))) ELSE body
  ELSE LET at   == Emit(NewSlot(l, arm.name, arm.payload), Payload(on, arm.variant))
           read == Emit(at, Load(at.value))
           to   == Emit(read, AddrOf(arm.name))
           body == Then(Enter(Effect(to, Store(to.value, read.value)), arm.name), arm.body)
       IN  ExitDropping(body, arm.name)

\* The branches start from the same moves.  Those that reach the join are made
\* to agree: each drops what another moved.  One that leaves the function has
\* no part in it.
LowerBranches(arms, on, ctx) ==
  LET Next(k, arm) ==
        LET b == LowerArm(arm, on, Nothing([k.ctx EXCEPT !.moved = ctx.moved]))
        IN  [ctx |-> b.ctx, all |-> Append(k.all, b)]
      first == FoldLeft(Next, [ctx |-> ctx, all |-> <<>>], arms)
      moves == [i \in DOMAIN arms |-> OuterMoves(first.all[i], ctx)]
      joins == {i \in DOMAIN arms : ~OpsDiverge(first.all[i].ops)}
      dead  == Normalized(UNION {moves[i] : i \in joins})
      Agree(k, i) ==
        LET b == [first.all[i] EXCEPT !.ctx = k.ctx]
            c == IF i \in joins THEN Keeping(b, MergeCompensation(b, dead, moves[i])) ELSE b
        IN  [ctx |-> c.ctx,
             all |-> Append(k.all, [variant |-> arms[i].variant, ops |-> c.ops, value |-> c.value])]
      second == FoldLeft(Agree, [ctx |-> first.ctx, all |-> <<>>], [i \in DOMAIN arms |-> i])
  IN  [ctx    |-> [second.ctx EXCEPT !.moved = Normalized(ctx.moved \cup dead)],
       blocks |-> second.all]

LowerIf(e, ctx) ==
  LET cond == Lower(e.cond, ctx)
      Of(body) == [variant |-> "", name |-> Unbound, payload |-> Scalar, body |-> body]
      both == LowerBranches(<<Of(e.then), Of(e.else)>>, 0, cond.ctx)
  IN  Emit(Lowered(both.ctx, cond.ops, 0), [op |-> "if", id |-> 0, blocks |-> both.blocks])

\* The arms by variant: a default arm stands for every variant without one.
ArmsByVariant(e) ==
  LET V == e.on.type.of
      named    == SelectSeq(e.arms, LAMBDA a : a.variant # Default)
      fallback == SelectSeq(e.arms, LAMBDA a : a.variant = Default)
      missing  == SetToSeq(DOMAIN V \ {named[i].variant : i \in DOMAIN named})
      With(a, v) == [variant |-> v, name |-> a.name, body |-> a.body, payload |-> V[v]]
  IN  [i \in DOMAIN named |-> With(named[i], named[i].variant)]
      \o [i \in DOMAIN missing |-> With(fallback[1], missing[i])]

LowerCase(e, ctx) ==
  LET on   == Lower(e.on, ctx)
      arms == ArmsByVariant(e)
      all  == LowerBranches(arms, on.value, on.ctx)
      owned == \A i \in DOMAIN arms :
                 arms[i].name # Unbound /\ MoveOnly(arms[i].payload) => e.on.is = "name"
  IN  Emit(Lowered(Refuse(all.ctx, owned), on.ops, 0),
           [op |-> "case", id |-> 0, on |-> on.value, blocks |-> all.blocks])

\* An iteration may move what it made and, in the body, the accumulator as a
\* whole; if it did not, the old one is dropped before the new is stored.
LowerLoop(e, ctx) ==
  LET init == Lower(e.init, ctx)
      acc  == Slot(e.acc)
      in   == Enter(NewSlot(Nothing(init.ctx), e.acc, e.init.type), e.acc)
      cond == Then(in, e.cond)
      body == Exit(Then(Nothing(cond.ctx), e.body))
      Made(p) == p.root \notin DOMAIN in.ctx.slots
      bound == /\ \A p \in cond.ctx.moved \ ctx.moved : p \in init.ctx.moved \/ Made(p)
               /\ \A p \in body.ctx.moved \ cond.ctx.moved : Made(p) \/ p = acc
      turn == Keeping(body, ResidualDrops(body, acc, e.type, body.ctx.moved))
  IN  Emit(Lowered([Refuse(turn.ctx, bound) EXCEPT !.moved = init.ctx.moved], init.ops, 0),
           [op |-> "loop", id |-> 0, acc |-> e.acc, init |-> init.value,
            older |-> DOMAIN init.ctx.slots,
            cond |-> [ops |-> cond.ops, value |-> cond.value],
            body |-> [ops |-> turn.ops, value |-> turn.value]])

LowerLet(e, ctx) ==
  LET to    == Emit(NewSlot(Nothing(ctx), e.name, e.value.type), AddrOf(e.name))
      value == Then(to, e.value)
      body  == Then(Enter(Effect(value, Store(to.value, value.value)), e.name), e.body)
  IN  ExitDropping(body, e.name)

\* The target's address is taken first; what the target then holds is dropped
\* by its place, and the store makes it whole again.
LowerAssign(e, ctx) ==
  LET to    == LowerPlace(e.target, Nothing(ctx))
      place == MovedPath(e.target)
      value == Then(to, e.value)
      held  == [value EXCEPT !.ctx = Refuse(@, place.path = <<>> => place \notin value.ctx.moved)]
      freed == CASE ~NeedsDrop(e.target.type) -> held
                 [] Tracked(place) -> ResidualDrops(held, place, e.target.type, held.ctx.moved)
                 [] OTHER          -> Effect(held, Drop(to.value))
      done  == Effect(freed, Store(to.value, value.value))
  IN  Emit([done EXCEPT !.ctx.moved = IF Tracked(place) THEN {m \in @ : ~Meets(place, m)} ELSE @],
           Const)

\* A return drops the locals in scope, the innermost first, and then the
\* parameters, each but for what was moved out of it.
LowerReturn(e, ctx) ==
  LET value == Lower(e.value, ctx)
      left  == DropSlots(value, Reverse(ctx.locals) \o ctx.params)
  IN  Keeping(value, Effect(left, [op |-> "early_return", value |-> value.value]))

LowerBoxNew(e, ctx) ==
  LET shell == Emit(Nothing(ctx), [op |-> "heap_alloc", id |-> 0])
      value == Then(shell, e.value)
  IN  Keeping(shell, Effect(value, Store(shell.value, value.value)))

LowerPush(e, ctx) ==
  LET to    == LowerPlace(e.target, Nothing(ctx))
      value == Then(to, e.value)
  IN  Emit(value, [op |-> "push", id |-> 0, address |-> to.value, value |-> value.value])

LowerBorrow(e, ctx) ==
  LET at   == LowerPlace(e.target, Nothing(ctx))
      what == IF e.target.type.is = "box" THEN Emit(at, DerefOp(at.value, e.target.type)) ELSE at
  IN  Emit(what, [op |-> "borrow", id |-> 0, mut |-> e.mut, address |-> what.value])

\* What is made of the values of the operands.
LowerMade(e, ctx, op) ==
  LET parts == ThenEach(Nothing(ctx), Operands(e))
  IN  Emit(parts.at, [op |-> op, id |-> 0, values |-> parts.values, type |-> e.type])
LowerEnum(e, ctx) ==
  LET value == Lower(e.value, ctx)
  IN  Emit(value, [op |-> "enum", id |-> 0, variant |-> e.variant, value |-> value.value])
LowerRecord(e, ctx) ==
  LET parts == ThenEach(Nothing(ctx), Operands(e))
  IN  Emit(parts.at, [op |-> "record", id |-> 0, values |-> parts.values,
                      names |-> [i \in DOMAIN e.fields |-> e.fields[i].name]])

\* Lowering ends at the first thing it refuses.
Lower(e, ctx) ==
  CASE ~ctx.ok              -> Nothing(ctx)
    [] e.is \in {"name", "field"} -> LowerRead(e, Nothing(ctx))
    [] e.is = "call"        -> LowerMade(e, ctx, "call")
    [] e.is = "binary"      -> LET parts == ThenEach(Nothing(ctx), e.args) IN Emit(parts.at, Const)
    [] e.is = "record"      -> LowerRecord(e, ctx)
    [] e.is = "enum"        -> LowerEnum(e, ctx)
    [] e.is = "box_new"     -> LowerBoxNew(e, ctx)
    [] e.is = "unbox"       -> LowerMade(e, ctx, "unbox")
    [] e.is = "borrow"      -> LowerBorrow(e, ctx)
    [] e.is = "buffer_new"  -> LowerMade(e, ctx, "buffer_new")
    [] e.is = "buffer_push" -> LowerPush(e, ctx)
    [] e.is = "buffer_len"  -> LET at == LowerPlace(e.target, Nothing(ctx)) IN Emit(at, LenOp(at.value))
    [] e.is = "assign"      -> LowerAssign(e, ctx)
    [] e.is = "let"         -> LowerLet(e, ctx)
    [] e.is = "if"          -> LowerIf(e, ctx)
    [] e.is = "case"        -> LowerCase(e, ctx)
    [] e.is = "loop"        -> LowerLoop(e, ctx)
    [] e.is = "return"      -> LowerReturn(e, ctx)
    [] OTHER                -> Emit(Nothing(ctx), Const)

\* A function: the parameters are dropped at its end, unless its body leaves
\* by returns alone.
LowerFunction(params, body) ==
  LET ctx  == [next |-> 1, moved |-> {}, locals |-> <<>>, params |-> params, ok |-> TRUE,
               slots |-> [x \in Range(params) |-> ParamType[x]]]
      main == Lower(body, ctx)
      done == IF OpsDiverge(main.ops) THEN main ELSE Keeping(main, DropSlots(main, params))
  IN  Effect(done, [op |-> "return", value |-> done.value])
=============================================================================
