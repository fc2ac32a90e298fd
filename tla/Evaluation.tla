---------------------------- MODULE Evaluation ----------------------------
(***************************************************************************)
(* The reference evaluator of stored expressions (src/src/expr.rs,          *)
(* eval_symbol and eval_expr_with_locals; src/src/op_registry.rs).          *)
(*                                                                         *)
(* A value is a tuple tagged by what it is: an integer by its type, a       *)
(* record by its fields, an array by its elements, an enum by its variant.  *)
(* An environment holds the cells of the arguments and of the locals, the   *)
(* innermost local last; an assignment writes one of them.  An evaluation   *)
(* ends with a value, with the value of an early return, with a trap (a     *)
(* division by zero, an index out of its array, or one of the evaluator's   *)
(* own ceilings), or stuck: in an error that a typed body is not supposed   *)
(* to meet, such as a field of what is not a place.                        *)
(***************************************************************************)
EXTENDS Expressions, Bitwise

CONSTANTS MaxIterations,   \* what the evaluator allows a loop
          MaxDepth         \* and nested calls, before it gives up

IntVal(T, n)     == <<T[1], n>>
BoolVal(b)       == <<"bool", b>>
UnitVal          == <<"unit">>
RecordVal(f)     == <<"record", f>>         \* field name -> value
EnumVal(v, p)    == <<"enum", v, p>>
ArrayVal(vs)     == <<"array", vs \o <<>>>>   \* \o <<>>: TLC computes the elements here

\* Whether a value inhabits a type.
RECURSIVE HasType(_, _, _)
HasType(root, v, T) ==
  LET spec == SpecOf(root, T)
  IN  CASE spec[1] = "record" -> /\ v[1] = "record" /\ DOMAIN v[2] = DOMAIN spec[2]
                                 /\ \A f \in DOMAIN spec[2] : HasType(root, v[2][f], spec[2][f])
        [] spec[1] = "enum"   -> /\ v[1] = "enum" /\ v[2] \in DOMAIN spec[2]
                                 /\ HasType(root, v[3], spec[2][v[2]])
        [] spec[1] = "array"  -> /\ v[1] = "array" /\ Len(v[2]) = spec[3]
                                 /\ \A i \in DOMAIN v[2] : HasType(root, v[2][i], spec[2])
        [] OTHER              -> v[1] = spec[1]

-----------------------------------------------------------------------------
Ended(end, v, env) == [end |-> end, value |-> v, env |-> env]
Value(v, env)      == Ended("value", v, env)
Trap(env)          == Ended("trap", <<>>, env)
Stuck(env)         == Ended("stuck", <<>>, env)
Completed(r)       == r.end = "value"

\* Two's complement at the width of the operands.
Span(T)    == IF T = U8 THEN U8Max + 1 ELSE 2 * (I64Max + 1)
Wrap(T, n) == IF T = U8 THEN n % Span(T) ELSE ((n + I64Max + 1) % Span(T)) - I64Max - 1

\* Division truncates towards zero.
Quotient(a, b) == LET q == (IF a < 0 THEN -a ELSE a) \div (IF b < 0 THEN -b ELSE b)
                  IN  IF (a < 0) = (b < 0) THEN q ELSE -q

EvalBinary(o, a, b, env) ==
  LET T == <<a[1]>>
  IN  CASE T # <<b[1]>>                      -> Stuck(env)
        [] T \in IntTypes /\ o = "+"         -> Value(IntVal(T, Wrap(T, a[2] + b[2])), env)
        [] T \in IntTypes /\ o = "-"         -> Value(IntVal(T, Wrap(T, a[2] - b[2])), env)
        [] T \in IntTypes /\ o = "*"         -> Value(IntVal(T, Wrap(T, a[2] * b[2])), env)
        [] T \in IntTypes /\ o = "/"         -> IF b[2] = 0 THEN Trap(env)
                                                ELSE Value(IntVal(T, Wrap(T, Quotient(a[2], b[2]))), env)
        [] T \in IntTypes /\ o = "|"         -> Value(IntVal(T, Wrap(T, (a[2] % Span(T)) | (b[2] % Span(T)))), env)
        [] T \in IntTypes /\ o = "<"         -> Value(BoolVal(a[2] < b[2]), env)
        [] T \in IntTypes /\ o = "=="        -> Value(BoolVal(a[2] = b[2]), env)
        [] T = Bool /\ o = "&&"              -> Value(BoolVal(a[2] /\ b[2]), env)
        [] T = Bool /\ o = "||"              -> Value(BoolVal(a[2] \/ b[2]), env)
        [] OTHER                             -> Stuck(env)

EvalUnary(o, a, env) ==
  LET T == <<a[1]>>
  IN  CASE T \in IntTypes /\ o = "-" -> Value(IntVal(T, Wrap(T, -a[2])), env)
        [] T = Bool /\ o = "!"       -> Value(BoolVal(~a[2]), env)
        [] OTHER                     -> Stuck(env)

-----------------------------------------------------------------------------
\* A place is the cell of an argument or a local, and the fields and positions
\* down into it.
RECURSIVE ReadAt(_, _)
ReadAt(v, path) == IF path = <<>> THEN v ELSE ReadAt(v[2][Head(path)], Tail(path))

RECURSIVE WriteAt(_, _, _)
WriteAt(v, path, w) ==
  IF path = <<>> THEN w
  ELSE <<v[1], [v[2] EXCEPT ![Head(path)] = WriteAt(@, Tail(path), w)]>>

Read(env, p)     == ReadAt(env[p.cells][p.at], p.path)
Write(env, p, w) == [env EXCEPT ![p.cells][p.at] = WriteAt(@, p.path, w)]

\* The position in a value that an index stands for: indices are from zero.
PositionAt(v, i, env) ==
  CASE v[1] # "array" \/ i[1] # "i64"  -> Stuck(env)
    [] i[2] \notin 0..(Len(v[2]) - 1)  -> Trap(env)
    [] OTHER                           -> Value(i[2] + 1, env)

\* Whether the value matches the pattern; if it does, what the pattern binds.
RECURSIVE Matches(_, _)
Matches(p, v) ==
  \/ p[1] \in {"bind", "wild", "default"}
  \/ p[1] = "literal" /\ v[2] = p[2][2]
  \/ p[1] = "variant" /\ v[2] = p[2] /\ Matches(p[3], v[3])

RECURSIVE LeafOf(_, _)
LeafOf(p, v) == IF p[1] = "variant" THEN LeafOf(p[3], v[3]) ELSE v

-----------------------------------------------------------------------------
RECURSIVE Eval(_, _, _)
RECURSIVE EvalAll(_, _, _)
RECURSIVE EvalLoop(_, _, _, _, _)
RECURSIVE EvalPlace(_, _, _)
RECURSIVE EvalFold(_, _, _, _, _)

\* The parts in order, up to the first that does not end with a value.
EvalAll(root, es, env) ==
  IF es = <<>> THEN Value(<<>>, env)
  ELSE LET first == Eval(root, Head(es), env)
       IN  IF ~Completed(first) THEN first
           ELSE LET rest == EvalAll(root, Tail(es), first.env)
                IN  IF Completed(rest) THEN [rest EXCEPT !.value = <<first.value>> \o @] ELSE rest

\* The place an expression stands for, when it ends with one.
Deeper(p, step) == IF Completed(step) THEN [step EXCEPT !.value = [p EXCEPT !.path = Append(@, step.value)]] ELSE step

ElementPlace(p, index) ==
  IF Completed(index) THEN Deeper(p, PositionAt(Read(index.env, p), index.value, index.env)) ELSE index

IndexPlace(root, e, target) ==
  IF Completed(target) THEN ElementPlace(target.value, Eval(root, e.kids[2], target.env)) ELSE target

FieldPlace(e, target) == IF Completed(target) THEN Deeper(target.value, Value(e.op[2], target.env)) ELSE target

EvalPlace(root, e, env) ==
  CASE e.op[1] = "param" -> Value([cells |-> "args", at |-> e.op[2], path |-> <<>>], env)
    [] e.op[1] = "local" -> Value([cells |-> "locals", at |-> Len(env.locals) - e.op[2], path |-> <<>>], env)
    [] e.op[1] = "field" -> FieldPlace(e, EvalPlace(root, e.kids[1], env))
    [] e.op[1] = "index" -> IndexPlace(root, e, EvalPlace(root, e.kids[1], env))
    [] OTHER             -> Stuck(env)

ReadPlace(p)     == IF Completed(p) THEN Value(Read(p.env, p.value), p.env) ELSE p
WritePlace(p, w) == IF Completed(p) THEN Value(UnitVal, Write(p.env, p.value, w)) ELSE p

\* A block with a local of its own, which goes when the block ends.
EvalWith(root, v, e, env) ==
  LET r == Eval(root, e, [env EXCEPT !.locals = Append(@, v)])
  IN  [r EXCEPT !.env.locals = Front(@)]

\* A call has cells of its own, and ends where its body returns.
EvalSymbol(root, f, values, depth) ==
  LET callee == root.functions[f]
      r      == Eval(root, callee.body, [args |-> values, locals |-> <<>>, depth |-> depth + 1])
  IN  CASE depth = MaxDepth                       -> Trap(<<>>)
        [] Len(values) # Len(callee.params)       -> Stuck(<<>>)
        [] \E i \in DOMAIN values : ~HasType(root, values[i], callee.params[i][2]) -> Stuck(<<>>)
        [] r.end = "return"                       -> [r EXCEPT !.end = "value"]
        [] OTHER                                  -> r

EvalCall(root, f, values, env) == [EvalSymbol(root, f, values, env.depth) EXCEPT !.env = env]

\* The condition and the body share the accumulator's cell.
EvalLoop(root, e, v, n, env) ==
  LET cond   == Eval(root, e.kids[2], [env EXCEPT !.locals = Append(@, v)])
      body   == Eval(root, e.kids[3], cond.env)
      Out(r) == [r EXCEPT !.env.locals = Front(@)]
  IN  CASE ~Completed(cond)            -> Out(cond)
        [] cond.value = BoolVal(FALSE) -> Value(v, Out(cond).env)
        [] cond.value # BoolVal(TRUE)  -> Stuck(env)
        [] ~Completed(body)            -> Out(body)
        [] n = MaxIterations           -> Trap(env)
        [] OTHER                       -> EvalLoop(root, e, body.value, n + 1, Out(body).env)

\* The value is there before the place it goes to is looked for.
EvalAssign(root, e, env) ==
  LET r == Eval(root, e.kids[2], env)
  IN  IF Completed(r) THEN WritePlace(EvalPlace(root, e.kids[1], r.env), r.value) ELSE r

\* The elements are those there were at first; each round has the element and
\* the accumulator for its own.
AfterRound(root, e, items, r) ==
  LET out == [r EXCEPT !.env.locals = Front(Front(@))]
  IN  IF Completed(r) THEN EvalFold(root, e, Tail(items), r.value, out.env) ELSE out

EvalFold(root, e, items, v, env) ==
  IF items = <<>> THEN Value(v, env)
  ELSE AfterRound(root, e, items, Eval(root, e.kids[3], [env EXCEPT !.locals = @ \o <<Head(items), v>>]))

FoldStarted(root, e, r) ==
  CASE ~Completed(r)             -> r
    [] r.value[1][1] # "array"   -> Stuck(r.env)
    [] OTHER                     -> EvalFold(root, e, r.value[1][2], r.value[2], r.env)

\* The element of an array that has no place is that of its value; an array
\* whose place could not be had is evaluated once more.
ElementOf(r) ==
  LET at == PositionAt(r.value[1], r.value[2], r.env)
  IN  CASE ~Completed(r)  -> r
        [] Completed(at)  -> Value(r.value[1][2][at.value], r.env)
        [] OTHER          -> at

EvalIndex(root, e, target) ==
  IF Completed(target) THEN ReadPlace(IndexPlace(root, e, target))
  ELSE ElementOf(EvalAll(root, e.kids, target.env))

\* An index below zero is an error before the value is evaluated, and one
\* past the end after.
SetElement(array, index, r) ==
  LET at == PositionAt(array, index, r.env)
  IN  CASE ~Completed(r)  -> r
        [] Completed(at)  -> Value(ArrayVal([array[2] EXCEPT ![at.value] = r.value]), r.env)
        [] OTHER          -> at

EvalArraySet(root, e, r) ==
  CASE ~Completed(r)          -> r
    [] r.value[2][1] # "i64"  -> Stuck(r.env)
    [] r.value[2][2] < 0      -> Trap(r.env)
    [] OTHER                  -> SetElement(r.value[1], r.value[2], Eval(root, e.kids[3], r.env))

\* The first arm whose pattern matches; of truth values, a literal one first.
EvalCase(root, e, env) ==
  LET on     == Eval(root, e.kids[1], env)
      ps     == e.op[2]
      taken  == {i \in DOMAIN ps : Matches(ps[i], on.value)}
      exact  == {i \in taken : ps[i] # Default}
      arm    == IF on.value[1] = "bool" /\ exact # {} THEN Min(exact) ELSE Min(taken)
  IN  IF ~Completed(on) THEN on
      ELSE IF taken = {} THEN Stuck(env)
      ELSE IF e.binds[arm + 1] = <<>> THEN Eval(root, e.kids[arm + 1], on.env)
      ELSE EvalWith(root, LeafOf(ps[arm], on.value), e.kids[arm + 1], on.env)

EvalIf(root, e, env) ==
  LET cond == Eval(root, e.kids[1], env)
  IN  CASE ~Completed(cond)            -> cond
        [] cond.value = BoolVal(TRUE)  -> Eval(root, e.kids[2], cond.env)
        [] cond.value = BoolVal(FALSE) -> Eval(root, e.kids[3], cond.env)
        [] OTHER                       -> Stuck(env)

EvalCast(T, a, env) == IF <<a[1]>> \in IntTypes THEN Value(IntVal(T, Wrap(T, a[2])), env) ELSE Stuck(env)

\* What a form makes of the values of its parts.
Applied(root, e, r) ==
  LET v == r.value
  IN  CASE e.op[1] = "call"      -> EvalCall(root, e.op[2], v, r.env)
        [] e.op[1] = "binary"    -> EvalBinary(e.op[2], v[1], v[2], r.env)
        [] e.op[1] = "unary"     -> EvalUnary(e.op[2], v[1], r.env)
        [] e.op[1] = "record"    -> LET at(f) == CHOOSE i \in DOMAIN v : e.op[2][i] = f
                                    IN  Value(RecordVal([f \in ToSet(e.op[2]) |-> v[at(f)]]), r.env)
        [] e.op[1] = "construct" -> Value(EnumVal(e.op[3], v[1]), r.env)
        [] e.op[1] = "array"     -> Value(ArrayVal(v), r.env)
        [] e.op[1] = "fill"      -> Value(ArrayVal([i \in 1..e.op[2] |-> v[1]]), r.env)
        [] e.op[1] = "cast"      -> EvalCast(e.op[2], v[1], r.env)
        [] e.op[1] = "return"    -> Ended("return", v[1], r.env)

Eval(root, e, env) ==
  CASE e.op[1] = "int"    -> Value(IntVal(e.type, e.op[2]), env)
    [] e.op[1] = "truth"  -> Value(BoolVal(e.op[2]), env)
    [] e.op[1] = "unit"   -> Value(UnitVal, env)
    [] e.op[1] \in {"param", "local", "field"} -> ReadPlace(EvalPlace(root, e, env))
    [] e.op[1] = "index"  -> EvalIndex(root, e, EvalPlace(root, e.kids[1], env))
    [] e.op[1] = "array_set" -> EvalArraySet(root, e, EvalAll(root, SubSeq(e.kids, 1, 2), env))
    [] e.op[1] = "fold"   -> FoldStarted(root, e, EvalAll(root, SubSeq(e.kids, 1, 2), env))
    [] e.op[1] = "assign" -> EvalAssign(root, e, env)
    [] e.op[1] = "let"    -> LET r == Eval(root, e.kids[1], env)
                             IN  IF Completed(r) THEN EvalWith(root, r.value, e.kids[2], r.env) ELSE r
    [] e.op[1] = "if"     -> EvalIf(root, e, env)
    [] e.op[1] = "loop"   -> LET r == Eval(root, e.kids[1], env)
                             IN  IF Completed(r) THEN EvalLoop(root, e, r.value, 0, r.env) ELSE r
    [] e.op[1] = "case"   -> EvalCase(root, e, env)
    [] OTHER              -> LET r == EvalAll(root, e.kids, env)
                             IN  IF Completed(r) THEN Applied(root, e, r) ELSE r
=============================================================================
