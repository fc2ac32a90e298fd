------------------------------- MODULE Trace -------------------------------
(***************************************************************************)
(* The tracer, an interpreter of its own that records what it does          *)
(* (src/src/trace.rs), and what the debugger shows of a recording           *)
(* (src/src/debugger.rs).                                                   *)
(*                                                                         *)
(* Cells matter here: a record, an array or an enum holds the addresses of  *)
(* its parts, and reading a variable hands out the addresses, not copies    *)
(* (the evaluator copies).  `st` is what a run changes: the cells, the events    *)
(* and the number of frames.  `env` is where in the run an expression is:   *)
(* its frame, the cells of arguments and locals and, for the properties      *)
(* only, the frames there are and the names that let and loop have bound.   *)
(***************************************************************************)
EXTENDS Evaluation

\* The value as the evaluator has it, its parts in it.
RECURSIVE Loaded(_, _)
Loaded(cells, v) ==
  CASE v[1] \in {"record", "array"} -> <<v[1], [f \in DOMAIN v[2] |-> Loaded(cells, cells[v[2][f]])]>>
    [] v[1] = "enum"                -> EnumVal(v[2], Loaded(cells, cells[v[3]]))
    [] OTHER                        -> v

RECURSIVE WithoutWidths(_)
WithoutWidths(v) ==
  CASE v[1] \in {"record", "array"} -> <<v[1], [f \in DOMAIN v[2] |-> WithoutWidths(v[2][f])]>>
    [] v[1] = "enum"                -> EnumVal(v[2], WithoutWidths(v[3]))
    [] v[1] = "u8"                  -> IntVal(I64, v[2])
    [] OTHER                        -> v

\* What a record of the run shows of a value: its parts, without the widths.
Shown(cells, v) == WithoutWidths(Loaded(cells, v))

\* A value of the evaluator in cells of its own.
RECURSIVE Stored(_, _)

StoredAll(cells, vs) ==
  LET put(acc, s) == [cells |-> s.cells, values |-> Append(acc.values, s.value)]
  IN  FoldLeft(LAMBDA acc, v : put(acc, Stored(acc.cells, v)), [cells |-> cells, values |-> <<>>], vs)

ElementsStored(parts) == [cells |-> parts.cells \o parts.values,
                          value |-> ArrayVal([i \in DOMAIN parts.values |-> Len(parts.cells) + i])]

Stored(cells, v) ==
  CASE v[1] = "record" ->
         LET Put(acc, f) == LET part == Stored(acc.cells, v[2][f])
                            IN  [cells |-> Append(part.cells, part.value),
                                 value |-> RecordVal((f :> Len(part.cells) + 1) @@ acc.value[2])]
         IN  FoldSet(LAMBDA f, acc : Put(acc, f), [cells |-> cells, value |-> RecordVal(<<>>)], DOMAIN v[2])
    [] v[1] = "enum"   -> LET part == Stored(cells, v[3])
                          IN  [cells |-> Append(part.cells, part.value),
                               value |-> EnumVal(v[2], Len(part.cells) + 1)]
    [] v[1] = "array"  -> ElementsStored(StoredAll(cells, v[2]))
    [] OTHER           -> [cells |-> cells, value |-> v]

-----------------------------------------------------------------------------
Event(kind, env, e, about) ==
  [event |-> kind, frame |-> env.frame, expr |-> e, about |-> about, stack |-> env.stack, bound |-> env.bound]
Push(st, event)      == [st EXCEPT !.events = Append(@, event)]
Outcome(end, v, st)  == [end |-> end, value |-> v, st |-> st]
Show(st, v)          == Shown(st.cells, v)

PushTrap(st, env, e, kind) == Push(st, Event("trap", env, e, kind))

\* The value of e, recorded.
Gives(e, env, v, st)  == Outcome("value", v, Push(st, Event("value", env, e, Show(st, v))))

\* What e made of the values of its parts: an error of its own is a trap at e.
Finish(e, env, r, st) == IF r.end = "value" THEN Gives(e, env, r.value, st)
                         ELSE Outcome(r.end, <<>>, PushTrap(st, env, e, "trap"))

\* An error that e itself ends with is a trap at e, if it is not one yet; the
\* unwinding of a return is an error.
Trapped(e, env, r) ==
  LET last == Last(r.st.events)
  IN  IF r.end = "value" \/ (last.event = "trap" /\ last.expr = e) THEN r
      ELSE [r EXCEPT !.st = PushTrap(r.st, env, e, "trap")]

\* The local x of e in the cell at `at`: v is put there, and the cell goes with
\* the block, whatever it ended with.
WithLocal(x, env, at) == [env EXCEPT !.locals = Append(@, at), !.bound = Append(@, x)]
BindLocal(e, inner, v, st) ==
  Push([st EXCEPT !.cells = Append(@, v)],
       Event("bind", inner, e, [name |-> Last(inner.bound), value |-> Show(st, v)]))
UnbindLocal(e, inner, st) ==
  Push(st, Event("unbind", inner, e, [name  |-> Last(inner.bound),
                                      value |-> Show(st, st.cells[Last(inner.locals)])]))

\* The cell of a variable.
CellOf(e, env) == IF e.op[1] = "param" THEN env.args[e.op[2]] ELSE env.locals[Len(env.locals) - e.op[2]]

\* The cell that a pattern binds of the value v.
RECURSIVE LeafCell(_, _, _)
LeafCell(p, at, cells) == IF p[1] = "variant" THEN LeafCell(p[3], cells[at][3], cells) ELSE at

-----------------------------------------------------------------------------
RECURSIVE TraceExpr(_, _, _, _)
RECURSIVE TraceAll(_, _, _, _)
RECURSIVE TraceLoop(_, _, _, _, _, _)
RECURSIVE TraceFold(_, _, _, _, _, _)
RECURSIVE TracePlace(_, _, _, _)

\* The parts in order, up to the first that does not end with a value.
Then(root, es, env, first) ==
  IF ~Completed(first) THEN first
  ELSE LET rest == TraceAll(root, es, env, first.st)
       IN  IF Completed(rest) THEN [rest EXCEPT !.value = <<first.value>> \o @] ELSE rest

TraceAll(root, es, env, st) ==
  IF es = <<>> THEN Outcome("value", <<>>, st)
  ELSE Then(root, Tail(es), env, TraceExpr(root, Head(es), env, st))

\* The cell of a place: its indices are traced on the way.
FieldCell(f, r) == IF Completed(r) THEN [r EXCEPT !.value = r.st.cells[@][2][f]] ELSE r

CellAt(array, at, st) == IF Completed(at) THEN Outcome("value", array[2][at.value], st)
                         ELSE Outcome(at.end, <<>>, st)

ElementCell(array, i, st) == CellAt(array, PositionAt(array, i, <<>>), st)

IndexCell(target, index) ==
  IF Completed(index) THEN ElementCell(index.st.cells[target], index.value, index.st) ELSE index

IndexedCell(root, e, env, r) ==
  IF Completed(r) THEN IndexCell(r.value, TraceExpr(root, e.kids[2], env, r.st)) ELSE r

TracePlace(root, e, env, st) ==
  CASE e.op[1] \in {"param", "local"} -> Outcome("value", CellOf(e, env), st)
    [] e.op[1] = "field"              -> FieldCell(e.op[2], TracePlace(root, e.kids[1], env, st))
    [] e.op[1] = "index"              -> IndexedCell(root, e, env, TracePlace(root, e.kids[1], env, st))
    [] OTHER                          -> Outcome("stuck", <<>>, st)

\* What e reads is in the cell, or there is none and e has trapped.
CellRead(e, env, at) ==
  IF Completed(at) THEN Gives(e, env, at.st.cells[at.value], at.st)
  ELSE Outcome(at.end, <<>>, PushTrap(at.st, env, e, "trap"))

\* Arguments a function takes: as many as it has parameters, of their types.
Takes(root, f, cells, values) ==
  LET params == root.functions[f].params
  IN  /\ Len(values) = Len(params)
      /\ \A i \in DOMAIN values : HasType(root, Loaded(cells, values[i]), params[i][2])

\* A call in a frame of its own, which the value of the body or of a return
\* ends; one with arguments that f does not take has no frame.  There is no
\* ceiling on nested calls: at the model's one the run is lost, as at the end
\* of the stack.
Exited(f, inner, r) ==
  IF r.end \in {"value", "return"}
  THEN Outcome("value", r.value, Push(r.st, Event("exit", inner, f, Show(r.st, r.value))))
  ELSE r

TraceSymbol(root, f, values, env, st) ==
  LET frame == st.frames + 1
      inner == [frame |-> frame, args |-> [i \in DOMAIN values |-> Len(st.cells) + i], locals |-> <<>>,
                stack |-> Append(env.stack, frame), bound |-> <<>>]
      enter == Event("enter", inner, f, [parent |-> env.frame,
                                         args |-> [i \in DOMAIN values |-> Show(st, values[i])]])
  IN  IF ~Takes(root, f, st.cells, values) THEN Outcome("stuck", <<>>, st)
      ELSE IF Len(inner.stack) > MaxDepth + 1 THEN Outcome("lost", <<>>, st)
      ELSE Exited(f, inner, TraceExpr(root, root.functions[f].body, inner,
                                      Push([st EXCEPT !.frames = frame, !.cells = @ \o values], enter)))

\* A call that fails without a trap of its own, since event n, leaves one here.
Called(e, env, r, n) ==
  IF Completed(r) THEN Gives(e, env, r.value, r.st)
  ELSE IF \E i \in (n + 1)..Len(r.st.events) : r.st.events[i].event = "trap" THEN r
  ELSE [r EXCEPT !.st = PushTrap(r.st, env, e, "call_failed")]

TraceCall(root, e, values, env, st) ==
  Called(e, env, TraceSymbol(root, e.op[2], values, env, Push(st, Event("call", env, e, e.op[2]))),
         Len(st.events) + 1)

\* Mutant: a block that does not end with a value leaves its local.
LeftWithValue(e, inner, r) == IF Completed(r) THEN [r EXCEPT !.st = UnbindLocal(e, inner, r.st)] ELSE r

\* A block that ended takes its local with it; its value is that of e.
Left(e, inner, r)     == [r EXCEPT !.st = UnbindLocal(e, inner, r.st)]
Result(e, env, r)     == IF Completed(r) THEN Gives(e, env, r.value, r.st) ELSE r

\* A round of a loop is over; the one after the last allowed is an error.
Round(root, e, env, v, n, body) ==
  LET next == Push(body.st, Event("iteration", env, e, [before |-> Show(body.st, v),
                                                        after |-> Show(body.st, body.value)]))
  IN  IF ~Completed(body) THEN body
      ELSE IF n = MaxIterations THEN Outcome("trap", <<>>, next)
      ELSE TraceLoop(root, e, env, body.value, n + 1, next)

\* The condition was traced, with the accumulator v bound.
LoopDecided(root, e, env, inner, v, n, cond) ==
  IF Completed(cond) /\ cond.value = BoolVal(TRUE)
  THEN Round(root, e, env, v, n, Left(e, inner, TraceExpr(root, e.kids[3], inner, cond.st)))
  ELSE LET out == Left(e, inner, cond)
       IN  CASE ~Completed(out)                -> out
             [] out.value = BoolVal(FALSE)     -> Gives(e, env, v, out.st)
             [] OTHER                          -> [out EXCEPT !.end = "stuck"]

\* The accumulator is bound anew for each round; the condition and the body
\* share its cell.
TraceLoop(root, e, env, v, n, st) ==
  LET inner == WithLocal(e.binds[2][1], env, Len(st.cells) + 1)
  IN  LoopDecided(root, e, env, inner, v, n, TraceExpr(root, e.kids[2], inner, BindLocal(e, inner, v, st)))

LetBound(root, e, env, value) ==
  LET inner == WithLocal(e.binds[2][1], env, Len(value.st.cells) + 1)
  IN  IF ~Completed(value) THEN value
      ELSE Result(e, env, Left(e, inner, TraceExpr(root, e.kids[2], inner,
                                                   BindLocal(e, inner, value.value, value.st))))

CellWritten(e, env, v, at) ==
  IF Completed(at) THEN Gives(e, env, UnitVal, [at.st EXCEPT !.cells[at.value] = v]) ELSE at

Assigned(root, e, env, r) ==
  IF Completed(r) THEN CellWritten(e, env, r.value, TracePlace(root, e.kids[1], env, r.st)) ELSE r

\* A round of a fold is over: its accumulator's cell goes first.
FoldRound(root, e, env, items, v, body) ==
  IF ~Completed(body) THEN body
  ELSE TraceFold(root, e, env, Tail(items), body.value,
                 Push(body.st, Event("iteration", env, e, [before |-> Show(body.st, v),
                                                           after  |-> Show(body.st, body.value)])))

FoldBound(root, e, env, one, both, items, v, st) ==
  FoldRound(root, e, env, items, v,
            Left(e, one, Left(e, both, TraceExpr(root, e.kids[3], both,
                                                 BindLocal(e, both, v, BindLocal(e, one, st.cells[Head(items)], st))))))

\* Each item is what its cell holds by then; it and the accumulator are bound
\* anew for each round.
TraceFold(root, e, env, items, v, st) ==
  LET one == WithLocal(e.binds[3][1], env, Len(st.cells) + 1)
  IN  IF items = <<>> THEN Gives(e, env, v, st)
      ELSE FoldBound(root, e, env, one, WithLocal(e.binds[3][2], one, Len(st.cells) + 2), items, v, st)

FoldTraced(root, e, env, r) ==
  CASE ~Completed(r)           -> r
    [] r.value[1][1] # "array" -> Outcome("stuck", <<>>, r.st)
    [] OTHER                   -> TraceFold(root, e, env, r.value[1][2], r.value[2], r.st)

IfDecided(root, e, env, cond) ==
  LET selected == IF cond.value = BoolVal(TRUE) THEN 2 ELSE 3
  IN  IF ~Completed(cond) THEN cond
      ELSE IF cond.value[1] # "bool" THEN Outcome("stuck", <<>>, PushTrap(cond.st, env, e, "type_error"))
      ELSE Result(e, env, TraceExpr(root, e.kids[selected], env,
                                    Push(cond.st, Event("branch", env, e, selected))))

\* The arm taken for a value: of truth values, a literal one first.
ArmFor(ps, value) ==
  LET taken == {i \in DOMAIN ps : Matches(ps[i], value)}
      exact == {i \in taken : ps[i] # Default}
  IN  IF taken = {} THEN 0 ELSE IF value[1] = "bool" /\ exact # {} THEN Min(exact) ELSE Min(taken)

\* What an arm binds is a cell of the value matched: it is neither copied nor
\* recorded.
CaseDecided(root, e, env, on) ==
  LET arm     == ArmFor(e.op[2], Show(on.st, on.value))
      decided == Push([on.st EXCEPT !.cells = Append(@, on.value)], Event("case", env, e, arm))
      leaf    == LeafCell(e.op[2][arm], Len(decided.cells), decided.cells)
      inner   == IF e.binds[arm + 1] = <<>> THEN env ELSE [env EXCEPT !.locals = Append(@, leaf)]
  IN  IF ~Completed(on) THEN on
      ELSE IF arm = 0 THEN Outcome("stuck", <<>>, on.st)
      ELSE Result(e, env, TraceExpr(root, e.kids[arm + 1], inner, decided))

TraceField(root, e, env, st) ==
  IF ~IsPlace(e) THEN Outcome("stuck", <<>>, st)
  ELSE CellRead(e, env, TracePlace(root, e, env, Push(st, Event("field", env, e, e.op[2]))))

\* Where the place cannot be had, the array and the index are traced again; an
\* index below zero is an error that leaves no trap here.
IndexAgain(e, env, r) ==
  CASE ~Completed(r)       -> r
    [] r.value[2][2] < 0   -> Outcome("trap", <<>>, r.st)
    [] OTHER               -> CellRead(e, env, ElementCell(r.value[1], r.value[2], r.st))

TraceIndex(root, e, env, at) ==
  IF Completed(at) THEN CellRead(e, env, at) ELSE IndexAgain(e, env, TraceAll(root, e.kids, env, at.st))

\* An array has cells for its elements; a copy has other ones.
ArrayMade(e, env, v, st) ==
  Gives(e, env, ArrayVal([i \in DOMAIN v |-> Len(st.cells) + i]), [st EXCEPT !.cells = @ \o v])

FillMade(e, env, parts, st) == ArrayMade(e, env, parts.values, [st EXCEPT !.cells = parts.cells])

CopySet(e, env, copy, at, v, st) ==
  Gives(e, env, ArrayVal([copy.value[2] EXCEPT ![at] = Len(copy.cells) + 1]),
        [st EXCEPT !.cells = Append(copy.cells, v)])

SetAt(e, env, array, at, v, st) ==
  IF Completed(at) THEN CopySet(e, env, Stored(st.cells, Loaded(st.cells, array)), at.value, v, st)
  ELSE Outcome(at.end, <<>>, st)

\* The value is traced before the index is looked at.
ArraySet(e, env, r) ==
  IF Completed(r) THEN SetAt(e, env, r.value[1], PositionAt(r.value[1], r.value[2], <<>>), r.value[3], r.st) ELSE r

\* The parts of a record and the payload of an enum get cells of their own.
RecordMade(e, env, v, st) ==
  LET of(f) == CHOOSE i \in DOMAIN v : e.op[2][i] = f
  IN  Gives(e, env, RecordVal([f \in ToSet(e.op[2]) |-> Len(st.cells) + of(f)]), [st EXCEPT !.cells = @ \o v])

EnumMade(e, env, v, st) == Gives(e, env, EnumVal(e.op[3], Len(st.cells) + 1), [st EXCEPT !.cells = @ \o v])

\* A return gives its value here, and then unwinds as an error does.
Returns(e, env, v, st) == Trapped(e, env, [Gives(e, env, v[1], st) EXCEPT !.end = "return"])

\* What a form makes of the values of its parts.
TraceApplied(root, e, env, r) ==
  LET v == r.value
  IN  IF ~Completed(r) THEN r
      ELSE CASE e.op[1] = "call"      -> TraceCall(root, e, v, env, r.st)
             [] e.op[1] = "binary"    -> Finish(e, env, EvalBinary(e.op[2], v[1], v[2], env), r.st)
             [] e.op[1] = "unary"     -> Finish(e, env, EvalUnary(e.op[2], v[1], env), r.st)
             [] e.op[1] = "record"    -> RecordMade(e, env, v, r.st)
             [] e.op[1] = "construct" -> EnumMade(e, env, v, r.st)
             [] e.op[1] = "return"    -> Returns(e, env, v, r.st)
             [] e.op[1] = "array"     -> ArrayMade(e, env, v, r.st)
             [] e.op[1] = "fill"      ->
                  FillMade(e, env, StoredAll(r.st.cells, [i \in 1..e.op[2] |-> Loaded(r.st.cells, v[1])]), r.st)
             [] e.op[1] = "cast"      -> Finish(e, env, EvalCast(e.op[2], v[1], env), r.st)

LoopStarted(root, e, env, r) == IF Completed(r) THEN TraceLoop(root, e, env, r.value, 0, r.st) ELSE r

\* A literal is an i64 here, whatever its type.
TraceExpr(root, e, env, before) ==
  LET st == Push(before, Event("eval", env, e, e.op[1]))
  IN  CASE e.op[1] = "int"    -> Gives(e, env, IntVal(I64, e.op[2]), st)
        [] e.op[1] = "truth"  -> Gives(e, env, BoolVal(e.op[2]), st)
        [] e.op[1] = "unit"   -> Gives(e, env, UnitVal, st)
        [] e.op[1] \in {"param", "local"} -> Gives(e, env, st.cells[CellOf(e, env)], st)
        [] e.op[1] = "field"  -> TraceField(root, e, env, st)
        [] e.op[1] = "index"  -> TraceIndex(root, e, env, TracePlace(root, e, env, st))
        [] e.op[1] = "array_set" -> Trapped(e, env, ArraySet(e, env, TraceAll(root, e.kids, env, st)))
        [] e.op[1] = "fold"   -> FoldTraced(root, e, env, TraceAll(root, SubSeq(e.kids, 1, 2), env, st))
        [] e.op[1] = "assign" -> Assigned(root, e, env, TraceExpr(root, e.kids[2], env, st))
        [] e.op[1] = "let"    -> LetBound(root, e, env, TraceExpr(root, e.kids[1], env, st))
        [] e.op[1] = "if"     -> IfDecided(root, e, env, TraceExpr(root, e.kids[1], env, st))
        [] e.op[1] = "loop"   -> Trapped(e, env, LoopStarted(root, e, env, TraceExpr(root, e.kids[1], env, st)))
        [] e.op[1] = "case"   -> CaseDecided(root, e, env, TraceExpr(root, e.kids[1], env, st))
        [] OTHER              -> TraceApplied(root, e, env, TraceAll(root, e.kids, env, st))

-----------------------------------------------------------------------------
\* The report of a call of f by a client: the result, or where it failed as
\* far as the events tell.
Report(root, f, args) ==
  LET given == StoredAll(<<>>, args)
      r     == TraceSymbol(root, f, given.values, [frame |-> 0, stack |-> <<>>],
                           [cells |-> given.cells, events |-> <<>>, frames |-> 0])
      traps == SelectSeq(r.st.events, LAMBDA ev : ev.event = "trap")
  IN  [end    |-> r.end,
       result |-> IF Completed(r) THEN Show(r.st, r.value) ELSE <<>>,
       at     |-> IF Completed(r) \/ traps = <<>> THEN <<>> ELSE <<Last(traps)>>,
       events |-> r.st.events]

-----------------------------------------------------------------------------
\* The frames at a position of the recording, replayed from the events up to
\* there: what an event ends is still there at the event.
Enters(frames, ev)  == [f \in DOMAIN frames \union {ev.frame} |->
                          IF f = ev.frame THEN [parent |-> ev.about.parent, symbol |-> ev.expr, locals |-> <<>>]
                          ELSE frames[f]]
Binds(frames, ev)   == [frames EXCEPT ![ev.frame].locals = Append(@, ev.about)]
Leaves(frames, ev)  == [f \in DOMAIN frames \ {ev.frame} |-> frames[f]]

\* The innermost local of the name goes.
Unbinds(frames, ev) ==
  LET at == {i \in DOMAIN frames[ev.frame].locals : frames[ev.frame].locals[i].name = ev.about.name}
  IN  IF at = {} THEN frames ELSE [frames EXCEPT ![ev.frame].locals = RemoveAt(@, Max(at))]

\* What an event shows, and what it leaves behind.
AtEvent(frames, ev) == CASE ev.event = "enter"  -> Enters(frames, ev)
                         [] ev.event = "bind"   -> Binds(frames, ev)
                         [] OTHER               -> frames
AfterEvent(shown, ev) == CASE ev.event = "exit"   -> Leaves(shown, ev)
                           [] ev.event = "unbind" -> Unbinds(shown, ev)
                           [] OTHER               -> shown

\* The frames shown at each position.
FramesAt(events) ==
  FoldLeft(LAMBDA seen, ev :
             Append(seen, AtEvent(IF seen = <<>> THEN <<>> ELSE AfterEvent(Last(seen), events[Len(seen)]), ev)),
           <<>>, events)

\* From the entry to the frame of the event.
Backtrace(frames, frame) ==
  LET up(trail, i) == IF Head(trail) \in DOMAIN frames THEN <<frames[Head(trail)].parent>> \o trail ELSE trail
  IN  SelectSeq(FoldLeft(up, <<frame>>, [i \in 1..Cardinality(DOMAIN frames) |-> i]),
                LAMBDA f : f \in DOMAIN frames)

\* `next`: the next event of the same frame, or the position stays.
NextOne(events, position) ==
  LET later == SelectInSubSeq(events, position + 1, Len(events), LAMBDA ev : ev.frame = events[position].frame)
  IN  IF later = 0 THEN position ELSE later
=============================================================================
