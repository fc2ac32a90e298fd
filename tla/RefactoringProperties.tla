----------------------- MODULE RefactoringProperties -----------------------
(***************************************************************************)
(* What refactorings promise: the program goes on meaning what it meant,    *)
(* to the evaluator, and its bodies go on being source.                     *)
(***************************************************************************)
EXTENDS Refactoring, Trace, Import

CONSTANTS ArgInts   \* the integers functions are called with

-----------------------------------------------------------------------------
\* The values of a type that functions are called with.
RECURSIVE ValuesOf(_, _)
ValuesOf(r, T) ==
  LET spec == SpecOf(r, T)
  IN  CASE spec[1] = "record" -> LET all(f) == ValuesOf(r, spec[2][f])
                                     any    == UNION {all(f) : f \in DOMAIN spec[2]}
                                 IN  {RecordVal(v) : v \in {w \in [DOMAIN spec[2] -> any] :
                                                              \A f \in DOMAIN w : w[f] \in all(f)}}
        [] spec[1] = "enum"   -> UNION {{EnumVal(v, p) : p \in ValuesOf(r, spec[2][v])} : v \in DOMAIN spec[2]}
        [] spec[1] = "array"  -> {ArrayVal(vs) : vs \in TupleOf(ValuesOf(r, spec[2]), spec[3])}
        [] T = Bool           -> {BoolVal(TRUE), BoolVal(FALSE)}
        [] T = UnitType       -> {UnitVal}
        [] OTHER              -> {IntVal(T, n) : n \in ArgInts \intersect IntRange(T)}

RECURSIVE Inputs(_, _)
Inputs(r, params) ==
  IF params = <<>> THEN {<<>>}
  ELSE {<<v>> \o rest : v \in ValuesOf(r, params[1][2]), rest \in Inputs(r, Tail(params))}

Run(r, f, args) == LET x == EvalSymbol(r, f, args, 0) IN [end |-> x.end, value |-> x.value]

\* The value with the member of rn under its new name.
RECURSIVE Relabelled(_, _, _, _)
Relabelled(r, rn, T, v) ==
  LET spec == SpecOf(r, T)
  IN  CASE spec[1] = "record" -> LET old(f) == IF T = Named(rn.type) /\ f = rn.new THEN rn.old ELSE f
                                 IN  RecordVal([f \in {Renamed(rn, "record", T, g) : g \in DOMAIN spec[2]} |->
                                                  Relabelled(r, rn, spec[2][old(f)], v[2][old(f)])])
        [] spec[1] = "enum"   -> EnumVal(Renamed(rn, "enum", T, v[2]),
                                         Relabelled(r, rn, spec[2][v[2]], v[3]))
        [] spec[1] = "array"  -> ArrayVal([i \in DOMAIN v[2] |-> Relabelled(r, rn, spec[2], v[2][i])])
        [] OTHER              -> v

-----------------------------------------------------------------------------
\* Type soundness (src/src/types.rs, src/src/expr.rs): a function called with
\* arguments of its parameters' types gives a value of the type it returns,
\* unless it traps.  It never meets an operand, an argument, a variant or a
\* field its body was not checked for, nor a field of what is not a place.
EvaluationSound ==
  \A f \in DOMAIN root.functions : \A args \in Inputs(root, root.functions[f].params) :
    LET x == Run(root, f, args)
    IN  /\ x.end # "stuck"
        /\ x.end = "value" => HasType(root, x.value, root.functions[f].returns)

\* A stored body is source (src/src/expr.rs, typed_expr_to_raw): rendered and
\* typed again, it is accepted and means what it meant.  Every refactoring of
\* a body goes through this.
Reread(r) ==
  [r EXCEPT !.functions = [f \in DOMAIN @ |->
     [@[f] EXCEPT !.body = ElabBody(r, r.functions[f].params, r.functions[f].returns, Source(r, @))]]]

BodiesReread ==
  LET again == Reread(root)
  IN  /\ \A f \in DOMAIN root.functions : Accepted(again.functions[f].body)
      /\ \A f \in DOMAIN root.functions : \A args \in Inputs(root, root.functions[f].params) :
           Run(again, f, args) = Run(root, f, args)

-----------------------------------------------------------------------------
\* Whether a run of the program may write a cell that another value holds: a
\* member, an element, or what an arm binds.
WritesParts(r) ==
  \E f \in DOMAIN r.functions :
    LET all == Within(r.functions[f].body)
    IN  \E e \in all : /\ e.op[1] = "assign"
                       /\ \/ e.kids[1].op[1] \in {"field", "index"}
                          \/ e.kids[1].op[1] = "local" /\ \E c \in all : c.op[1] = "case"

\* A traced call t ends as the evaluated one x does and with its value, when no
\* part of a value is assigned to; if it fails it says where, or its last event
\* is the value of an index; if it ends with a value it shows a trap at returns
\* only, and at the loops and the array_set they leave.
IsIndex(r, e) == \E f \in DOMAIN r.functions : \E x \in Within(r.functions[f].body) :
                   x.op[1] = "index" /\ x.kids[2] = e
Agrees(r, x, t) ==
  /\ ~WritesParts(r) => /\ t.end \in {x.end, "lost"}
                        /\ t.end = "value" => t.result = WithoutWidths(x.value)
  /\ t.end \in {"trap", "stuck"} =>
                       \/ t.at # <<>>
                       \/ Last(t.events).event = "value" /\ IsIndex(r, Last(t.events).expr)
  /\ t.end = "value" => \A i \in DOMAIN t.events :
       t.events[i].event = "trap" => t.events[i].expr.op[1] \in {"return", "loop", "array_set"}

\* At event p the debugger's backtrace is the calls that are under way, the
\* frame shows the names that let and loop have bound there, innermost last,
\* and `next` stays in the frame.
Follows(events, frames, p) ==
  LET shown == frames[p][events[p].frame].locals
  IN  /\ Backtrace(frames[p], events[p].frame) = events[p].stack
      /\ [i \in DOMAIN shown |-> shown[i].name] = events[p].bound
      /\ \A i \in (p + 1)..(NextOne(events, p) - 1) : Len(events[i].stack) > Len(events[p].stack)

FollowsAll(events, frames) == \A p \in DOMAIN events : Follows(events, frames, p)

TraceShows(r, x, t) == Agrees(r, x, t) /\ FollowsAll(t.events, FramesAt(t.events))

\* The program with its literals as the tracer reads them.
RECURSIVE WithI64(_)
WithI64(e) == [e EXCEPT !.type = IF e.op[1] = "int" THEN I64 ELSE @,
                        !.kids = [i \in DOMAIN @ |-> WithI64(@[i])]]
LiteralsI64(r) == [r EXCEPT !.functions = [f \in DOMAIN @ |-> [@[f] EXCEPT !.body = WithI64(@)]]]

\* Whether the run came to a literal of another width.
MeetsNarrow(t) == \E i \in DOMAIN t.events : /\ t.events[i].event = "eval"
                                            /\ t.events[i].expr.op[1] = "int"
                                            /\ t.events[i].expr.type # I64

Mirrors(f, args, t) ==
  TraceShows(root, Run(IF MeetsNarrow(t) THEN LiteralsI64(root) ELSE root, f, args), t)

\* The trace mirrors the evaluator (src/src/trace.rs:720, docs/PLAN_V3.md:429)
\* as long as it meets no literal of another width than i64, and from there on
\* the evaluator that reads every literal as the tracer does
\* (src/src/trace.rs:925); the debugger's views mirror the traced run
\* (src/src/debugger.rs).
TraceMirrors ==
  \A f \in DOMAIN root.functions : \A args \in Inputs(root, root.functions[f].params) :
    Mirrors(f, args, Report(root, f, args))

-----------------------------------------------------------------------------
Forms(e) == {x.op[1] : x \in Within(e)}
\* What has no effect but its value, and no width but that of i64.
Plain(e) == /\ Forms(e) \intersect {"return", "assign"} = {}
            /\ \A x \in Within(e) : x.type # U8

\* Every function gives what it gave, under the new names.
RenameKeeps(rn) ==
  \A f \in DOMAIN root.functions : \A args \in Inputs(root, root.functions[f].params) :
    LET fn  == root.functions[f]
        old == Run(root, f, args)
        new == Run(root', f, [i \in DOMAIN args |-> Relabelled(root, rn, fn.params[i][2], args[i])])
    IN  /\ new.end = old.end
        /\ old.end = "value" => new.value = Relabelled(root, rn, fn.returns, old.value)

\* Every function gives what it gave, whatever the new argument is.
ParameterKeeps(p) ==
  \A f \in DOMAIN root.functions : \A args \in Inputs(root', root'.functions[f].params) :
    Run(root', f, args) = Run(root, f, IF f = p.of THEN Front(args) ELSE args)

\* A value without the members that type T of r does not have.
RECURSIVE Narrowed(_, _, _)
Narrowed(r, T, v) ==
  LET spec == SpecOf(r, T)
  IN  CASE spec[1] = "record" -> RecordVal([f \in DOMAIN spec[2] |-> Narrowed(r, spec[2][f], v[2][f])])
        [] spec[1] = "enum" /\ v[2] \in DOMAIN spec[2] ->
             EnumVal(v[2], Narrowed(r, spec[2][v[2]], v[3]))
        [] spec[1] = "array"  -> ArrayVal([i \in DOMAIN v[2] |-> Narrowed(r, spec[2], v[2][i])])
        [] OTHER              -> v

\* Every function gives what it gave, of the values that both programs have;
\* but for the member that one of them has not.
MembersKeep(wide, narrow) ==
  \A f \in DOMAIN narrow.functions : \A args \in Inputs(wide, wide.functions[f].params) :
    LET fn    == narrow.functions[f]
        given == [i \in DOMAIN args |-> Narrowed(narrow, fn.params[i][2], args[i])]
        old   == Run(wide, f, args)
        new   == Run(narrow, f, given)
    IN  (\A i \in DOMAIN given : HasType(narrow, given[i], fn.params[i][2])) =>
          /\ new.end = old.end
          /\ old.end = "value" => new.value = Narrowed(narrow, fn.returns, old.value)

\* Every function there was gives what it gave.
SameAsBefore(fs) ==
  \A f \in fs : \A args \in Inputs(root, root.functions[f].params) :
    LET old == Run(root, f, args)
    IN  old.end = "value" => Run(root', f, args) = old

\* A refactoring keeps the meaning of the program (docs/PATCH.md,
\* src/src/patch.rs, src/src/migrations.rs): a rename of a member and a new
\* parameter exactly; a member that comes or goes, of the values without it;
\* a new function for an expression, and an inlined call, wherever the program
\* gave a value, when what moves is plain.
RefactoringKeepsMeaning ==
  [][edit'.done =>
       CASE edit'.kind = "rename"    -> RenameKeeps(edit'.with)
         [] edit'.kind = "add"       -> MembersKeep(root', root)
         [] edit'.kind = "remove"    -> MembersKeep(root, root')
         [] edit'.kind = "parameter" -> ParameterKeeps(edit'.with)
         [] edit'.kind = "extract"   -> Plain(root'.functions[edit'.with[2]].body) =>
                                          SameAsBefore(DOMAIN root.functions)
         [] edit'.kind = "inline"    -> (\A g \in {edit'.with[1], edit'.with[2]} :
                                            Plain(root.functions[g].body)) =>
                                          SameAsBefore(DOMAIN root.functions)
         [] OTHER                    -> TRUE]_vars

\* The stable identity of a member (docs/PATCH.md): renamed and renamed back,
\* the program's types and the source of its bodies are what they were.
RenamesUndo ==
  [][edit'.kind = "rename" /\ edit'.done =>
       LET rn   == edit'.with
           back == RenameMemberOf(root', [rn EXCEPT !.old = rn.new, !.new = rn.old])
       IN  /\ back # Rejected /\ back.types = root.types
           /\ \A f \in DOMAIN root.functions :
                Source(back, back.functions[f].body) = Source(root, root.functions[f].body)]_vars

-----------------------------------------------------------------------------
Rotated(items)     == Tail(items) \o <<Head(items)>>
Reorderings(items) == {Reverse(items), Reverse(Rotated(items))}

\* What is made of the items, in this and other orders, is the program of the
\* text, and means what the root does.
Restores(text, items, made) ==
  /\ made.ok /\ ProgramText(made) = text /\ OrdinalsCanonical(made, items)
  /\ \A order \in Reorderings(items) : ImportFile(order) = made
  /\ \A f \in DOMAIN root.functions : \A args \in Inputs(root, root.functions[f].params) :
       Run(made, f, args) = Run(root, f, args)

ItemsRestore(text, items) == items # <<>> /\ Restores(text, items, ImportFile(items))
TextRestores(text)        == ItemsRestore(text, ParseProgram(text))

\* A program is its text (docs/PLAN_V1.md:937, "projection round-trips supported
\* syntax"; canonical_item_order, src/src/lib.rs): what is exported parses and
\* imports, in whatever order its items are written, to one program with the
\* same births, which means what it meant and is exported to the same text.
ImportRestores == TextRestores(ProgramText(root))

-----------------------------------------------------------------------------
\* tests/patch_apply.rs:661, semantic_patch_inline_preserves_caller_locals:
\* the program evaluates to the same before and after its call is inlined.
InlineKeepsMeaning ==
  [][edit'.kind = "inline" /\ edit'.done => SameAsBefore(DOMAIN root.functions)]_vars
=============================================================================
