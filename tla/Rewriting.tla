----------------------------- MODULE Rewriting -----------------------------
(***************************************************************************)
(* What refactorings make of a stored body: the source it came from         *)
(* (src/src/expr.rs, typed_expr_to_raw_with_locals), with a hook at the     *)
(* expressions a patch matched; the hygiene of inlining (src/src/patch.rs); *)
(* the arguments a new parameter adds and the member names a rename changes *)
(* (src/src/migrations.rs).  All of it is source again, to be typed anew.   *)
(***************************************************************************)
EXTENDS Elaboration, TLC

\* A built-in is called in the source.
RawOp(e) == CASE e.op[1] = "array_set" -> <<"call", "array_set">>
              [] e.op[1] = "cast"      -> <<"call", CHOOSE f \in DOMAIN CastTo : CastTo[f] = e.op[2]>>
              [] OTHER                 -> e.op

\* The same form over other parts.
Over(e, kids) == Expr(RawOp(e), kids, e.binds)

\* What to do at the matched expressions: replace them, call another function
\* there with the same arguments, or inline the call.
Hook(at, does) == [at |-> at, does |-> does]
Plainly        == Hook({}, <<"nothing">>)

\* Every expression in e, e itself included.
RECURSIVE Within(_)
Within(e) == {e} \union UNION {Within(e.kids[i]) : i \in DOMAIN e.kids}

-----------------------------------------------------------------------------
\* The names an expression takes from around it.
RECURSIVE FreeNames(_)
FreeNames(e) ==
  IF e.op[1] = "name" THEN {e.op[2]}
  ELSE UNION {FreeNames(e.kids[i]) \ ToSet(e.binds[i]) : i \in DOMAIN e.kids}

\* Mutant: no hygiene.
UnusedOrNot(x, used) == x

\* A name not in use: the name itself, or the first free one made from it.
Unused(x, used) ==
  LET tries == <<x, x \o "_inline">> \o [i \in 1..Cardinality(used) |-> x \o "_inline_" \o ToString(i)]
  IN  tries[Min({i \in DOMAIN tries : tries[i] \notin used})]

\* Every binder gets a name not in use; renames holds <<old, new>>, innermost
\* last.  The parts are gone through in order, and used grows on the way.
RECURSIVE AlphaRename(_, _, _)
RECURSIVE RenameParts(_, _, _, _)

AlphaRename(e, used, renames) ==
  IF e.op[1] = "name"
  THEN LET hits == {i \in DOMAIN renames : renames[i][1] = e.op[2]}
       IN  [expr |-> IF hits = {} THEN e ELSE Name(renames[Max(hits)][2]), used |-> used]
  ELSE RenameParts(e, Expr(e.op, <<>>, <<>>), used, renames)

NewNames(names, used) == FoldLeft(LAMBDA new, x : Append(new, Unused(x, used \union ToSet(new))), <<>>, names)

\* done holds the parts gone through.  A loop has one binder, in scope in two
\* of its parts; a fold has two, in scope in one.
RenameParts(e, done, used, renames) ==
  LET i     == Len(done.kids) + 1
      names == e.binds[i]
      fresh == IF e.op[1] = "loop" /\ i = 3 THEN done.binds[2] ELSE NewNames(names, used)
      kid   == AlphaRename(e.kids[i], used \union ToSet(fresh),
                           renames \o [n \in DOMAIN names |-> <<names[n], fresh[n]>>])
  IN  IF i > Len(e.kids) THEN [expr |-> done, used |-> used]
      ELSE RenameParts(e, Expr(e.op, Append(done.kids, kid.expr), Append(done.binds, fresh)),
                       kid.used, renames)

\* The arguments in place of the parameters, as often as they are named.
RECURSIVE SubstituteParams(_, _)
SubstituteParams(e, args) ==
  IF e.op[1] = "param" THEN args[e.op[2]]
  ELSE Over(e, [i \in DOMAIN e.kids |-> SubstituteParams(e.kids[i], args)])

-----------------------------------------------------------------------------
\* The source of a stored expression under locals of these names, innermost
\* last.  A parameter stays a position; a local becomes its name.  A literal
\* below zero is the negation it was written as.
RECURSIVE ToRaw(_, _, _, _)
RECURSIVE InlineCall(_, _, _)

RawParts(root, e, names, hook) ==
  [i \in DOMAIN e.kids |-> ToRaw(root, e.kids[i], names \o e.binds[i], hook)]

\* Mutant: locals counted from the outermost.
ToRawByLevel(root, e, names, hook) ==
  IF e.op[1] = "local" THEN Name(names[e.op[2] + 1])
  ELSE IF e \in hook.at /\ hook.does[1] = "inline" THEN InlineCall(root, e, names)
  ELSE Over(e, RawParts(root, e, names, hook))

ToRaw(root, e, names, hook) ==
  CASE e \in hook.at /\ hook.does[1] = "replace"  -> hook.does[2]
    [] e \in hook.at /\ hook.does[1] = "retarget" -> Call(hook.does[2], RawParts(root, e, names, hook))
    [] e \in hook.at /\ hook.does[1] = "inline"   -> InlineCall(root, e, names)
    [] OTHER ->
         CASE e.op[1] = "int" /\ e.op[2] < 0 -> Unary("-", Number(-e.op[2]))
           [] e.op[1] = "local"              -> Name(names[Len(names) - e.op[2]])
           [] OTHER                          -> Over(e, RawParts(root, e, names, hook))

\* The callee's body where the call was, over the arguments as they are:
\* nothing matched inside them is rewritten.
InlineCall(root, e, names) ==
  LET args == RawParts(root, e, names, Plainly)
      used == ToSet(names) \union UNION {FreeNames(args[i]) : i \in DOMAIN args}
      body == ToRaw(root, root.functions[e.op[2]].body, <<>>, Plainly)
  IN  SubstituteParams(AlphaRename(body, used, <<>>).expr, args)

\* Whether e names a local from outside itself: it has no source of its own.
RECURSIVE Open(_, _)
Open(e, depth) == \/ e.op[1] = "local" /\ e.op[2] >= depth
                  \/ \E i \in DOMAIN e.kids : Open(e.kids[i], depth + Len(e.binds[i]))

Source(root, e) == ToRaw(root, e, <<>>, Plainly)

\* Calls of f get one more argument.
RECURSIVE AppendDefault(_, _, _)
AppendDefault(e, f, default) ==
  LET kids == [i \in DOMAIN e.kids |-> AppendDefault(e.kids[i], f, default)]
  IN  IF e.op = <<"call", f>> THEN Call(f, Append(kids, default)) ELSE Over(e, kids)

-----------------------------------------------------------------------------
\* A rename of a member: [kind, type, old, new], kind "record" or "enum".
Renamed(rn, kind, T, name) ==
  IF rn.kind = kind /\ T = Named(rn.type) /\ name = rn.old THEN rn.new ELSE name

\* The patterns over type T, each variant by the type it is of.
RECURSIVE RenamePattern(_, _, _, _)
RenamePattern(root, rn, T, p) ==
  IF p[1] = "variant"
  THEN Variant(Renamed(rn, "enum", T, p[2]),
               RenamePattern(root, rn, MemberType(root, T, "enum", p[2]), p[3]))
  ELSE p

\* The type expected of each part, where the whole is expected to be T.  A
\* block passes on what is expected of it, a return within it too.
ExpectedOf(root, e, T, i) ==
  LET form == e.op[1]
  IN  CASE form = "call"                        -> root.functions[e.op[2]].params[i][2]
        [] form = "assign" /\ i = 2             -> e.kids[1].type
        [] form = "let" /\ i = 1                -> e.op[2]
        [] form = "let" /\ i = 2                -> T
        [] form \in {"if", "case"} /\ i > 1     -> T
        [] form = "return"                      -> T
        [] form = "loop" /\ i # 2               -> e.type
        [] form = "fold" /\ i > 1               -> e.type
        [] form = "array"                       -> e.kids[i].type
        [] form = "fill"                        -> e.type[2]
        [] form = "record"                      -> MemberType(root, T, "record", e.op[2][i])
        [] form = "construct"                   -> MemberType(root, e.op[2], "enum", e.op[3])
        [] OTHER                                -> None

\* The name changes where the type it belongs to is known: of a record
\* literal, from what is expected of it.
RenamedForm(root, rn, e, T) ==
  CASE e.op[1] = "record"    -> <<"record", [i \in DOMAIN e.op[2] |-> Renamed(rn, "record", T, e.op[2][i])]>>
    [] e.op[1] = "field"     -> <<"field", Renamed(rn, "record", e.kids[1].type, e.op[2])>>
    [] e.op[1] = "construct" -> <<"construct", e.op[2], Renamed(rn, "enum", e.op[2], e.op[3])>>
    [] e.op[1] = "case"      -> <<"case", [i \in DOMAIN e.op[2] |->
                                             RenamePattern(root, rn, e.kids[1].type, e.op[2][i])]>>
    [] OTHER                 -> RawOp(e)

RECURSIVE RenameMember(_, _, _, _, _)
RenameMember(root, rn, e, names, T) ==
  IF e.kids = <<>> THEN ToRaw(root, e, names, Plainly)
  ELSE Expr(RenamedForm(root, rn, e, T),
            [i \in DOMAIN e.kids |->
               RenameMember(root, rn, e.kids[i], names \o e.binds[i], ExpectedOf(root, e, T, i))],
            e.binds)
=============================================================================
