---------------------------- MODULE Elaboration ----------------------------
(***************************************************************************)
(* Typing a raw expression into the stored one (src/src/types.rs,           *)
(* type_expr_with_locals_expecting): names become positions, and an         *)
(* integer literal takes the width its position asks for.                  *)
(*                                                                         *)
(* A scope is [root, params, locals]; params and locals are sequences of    *)
(* <<name, type>>, the innermost local last.  `want` is the type the        *)
(* position asks for, None when it asks for none.                           *)
(***************************************************************************)
EXTENDS Expressions

Refused     == [op |-> <<"refused">>, type |-> None]
Accepted(e) == e.op # <<"refused">>

\* The stored form of e with its parts elaborated, refused if one of them is.
Typed(op, kids, binds, T) ==
  IF T # None /\ \A i \in DOMAIN kids : Accepted(kids[i])
  THEN [op |-> op, kids |-> kids, binds |-> binds, type |-> T]
  ELSE Refused

When(holds, T) == IF holds THEN T ELSE None

Scope(root, params) == [root |-> root, params |-> params, locals |-> <<>>]
Bound(sc, x, T)     == [sc EXCEPT !.locals = Append(@, <<x, T>>)]

\* Only a literal adopts a width; anything else that asks for it is refused
\* where the types must agree.
LiteralIntType(n, want) == LET T == IF want = U8 THEN U8 ELSE I64 IN When(n \in IntRange(T), T)

MemberType(root, T, kind, f) ==
  LET spec == SpecOf(root, T)
  IN  IF spec[1] = kind /\ f \in DOMAIN spec[2] THEN spec[2][f] ELSE None

\* What is wanted of an element, or what it is of.
WantedElement(root, T) == LET spec == SpecOf(root, T) IN When(spec[1] = "array", spec[2])

\* Only the form of the expression counts.
Foldable(over) == over.op[1] \in {"param", "local", "field", "index"}

\* The element of an array at an index, which is within it if it is a literal.
ElementType(root, array, index) ==
  LET spec == SpecOf(root, array.type)
  IN  When(/\ spec[1] = "array" /\ index.type = I64
           /\ index.op[1] = "int" => index.op[2] \in 0..(spec[3] - 1), spec[2])

-----------------------------------------------------------------------------
RECURSIVE Elab(_, _, _)
RECURSIVE PayloadFits(_, _, _)

\* The innermost local of that name, or else the parameter.
ElabName(sc, e) ==
  LET x      == e.op[2]
      locals == {i \in DOMAIN sc.locals : sc.locals[i][1] = x}
      params == {i \in DOMAIN sc.params : sc.params[i][1] = x}
  IN  IF locals # {}
      THEN LET i == Max(locals)
           IN  Typed(<<"local", Len(sc.locals) - i>>, <<>>, <<>>, sc.locals[i][2])
      ELSE IF params # {} THEN Elab(sc, None, Param(Min(params))) ELSE Refused

ElabParam(sc, e) ==
  IF e.op[2] \in DOMAIN sc.params
  THEN Typed(e.op, <<>>, <<>>, sc.params[e.op[2]][2])
  ELSE Refused

\* An argument is typed against its parameter, and must flow into it.
ElabCall(sc, e) ==
  LET f == e.op[2]
  IN  IF \/ f \notin DOMAIN sc.root.functions
         \/ Len(e.kids) # Len(sc.root.functions[f].params)
      THEN Refused
      ELSE LET callee == sc.root.functions[f]
               args   == [i \in DOMAIN e.kids |-> Elab(sc, callee.params[i][2], e.kids[i])]
               fit    == \A i \in DOMAIN args : Assignable(sc.root, args[i].type, callee.params[i][2])
           IN  Typed(e.op, args, e.binds, When(fit, callee.returns))

Arithmetic == {"+", "-", "*", "/", "|"}
Comparison == {"<", "=="}
Logical    == {"&&", "||"}

\* The width wanted of the result reaches the operands of an arithmetic
\* operator; the left operand's width is wanted of the right one; and a bare
\* literal on the left is typed again at the width of the right.
ElabBinary(sc, want, e) ==
  LET o     == e.op[2]
      hint  == IF o \in Arithmetic /\ want \in IntTypes THEN want ELSE None
      first == Elab(sc, hint, e.kids[1])
      right == Elab(sc, IF first.type \in IntTypes THEN first.type ELSE hint, e.kids[2])
      left  == IF e.kids[1].op[1] = "int" /\ first.type # right.type /\ right.type \in IntTypes
               THEN Elab(sc, right.type, e.kids[1])
               ELSE first
      agree == left.type = right.type
      T     == CASE o \in Arithmetic -> When(agree /\ left.type \in IntTypes, left.type)
                 [] o \in Comparison -> When(agree /\ left.type \in IntTypes, Bool)
                 [] o \in Logical    -> When(agree /\ left.type = Bool, Bool)
  IN  Typed(e.op, <<left, right>>, e.binds, T)

\* The least integer has no positive counterpart: its negation is folded into
\* one literal.
ElabUnary(sc, want, e) ==
  LET o    == e.op[2]
      n    == e.kids[1].op[2]
      fold == /\ o = "-" /\ e.kids[1].op[1] = "int"
              /\ n \notin IntRange(I64) /\ -n \in IntRange(I64)
      kid  == Elab(sc, IF o = "-" THEN want ELSE None, e.kids[1])
      T    == IF o = "-" THEN When(kid.type \in IntTypes, kid.type) ELSE When(kid.type = Bool, Bool)
  IN  IF fold THEN Elab(sc, want, Number(-n)) ELSE Typed(e.op, <<kid>>, e.binds, T)

ElabAssign(sc, e) ==
  LET place == Elab(sc, None, e.kids[1])
      value == Elab(sc, None, e.kids[2])
  IN  Typed(e.op, <<place, value>>, e.binds,
            When(IsPlace(place) /\ Assignable(sc.root, value.type, place.type), UnitType))

\* The body stands where the whole does.
ElabLet(sc, want, e) ==
  LET T     == e.op[2]
      value == Elab(sc, T, e.kids[1])
      body  == Elab(Bound(sc, e.binds[2][1], T), want, e.kids[2])
  IN  Typed(e.op, <<value, body>>, e.binds, When(Assignable(sc.root, value.type, T), body.type))

\* The branches are typed with no width wanted, and must agree.
ElabIf(sc, e) ==
  LET kids == [i \in 1..3 |-> Elab(sc, None, e.kids[i])]
  IN  Typed(e.op, kids, e.binds, When(kids[1].type = Bool, JoinType(Tail(kids))))

ElabReturn(sc, want, e) ==
  LET value == Elab(sc, want, e.kids[1]) IN Typed(e.op, <<value>>, e.binds, value.type)

\* The accumulator is of the type wanted when the initial value flows into it.
ElabLoop(sc, want, e) ==
  LET init  == Elab(sc, want, e.kids[1])
      T     == IF want # None /\ Assignable(sc.root, init.type, want) THEN want ELSE init.type
      inner == Bound(sc, e.binds[2][1], T)
      cond  == Elab(inner, None, e.kids[2])
      body  == Elab(inner, T, e.kids[3])
  IN  Typed(e.op, <<init, cond, body>>, e.binds,
            When(cond.type = Bool /\ Assignable(sc.root, body.type, T), T))

\* A fold is over an array that has a place; its accumulator is as a loop's,
\* but the initial value is typed with nothing wanted.
ElabFold(sc, want, e) ==
  LET over  == Elab(sc, None, e.kids[1])
      init  == Elab(sc, None, e.kids[2])
      spec  == SpecOf(sc.root, over.type)
      T     == IF want # None /\ Assignable(sc.root, init.type, want) THEN want ELSE init.type
      body  == Elab(Bound(Bound(sc, e.binds[3][1], spec[2]), e.binds[3][2], T), T, e.kids[3])
  IN  IF ~(IsInjective(e.binds[3]) /\ spec[1] = "array" /\ Foldable(over)) THEN Refused
      ELSE Typed(e.op, <<over, init, body>>, e.binds, When(Assignable(sc.root, body.type, T), T))

-----------------------------------------------------------------------------
\* The type of the elements is that of the first one.
ElabArray(sc, want, e) ==
  LET kids == [i \in DOMAIN e.kids |-> Elab(sc, WantedElement(sc.root, want), e.kids[i])]
      T    == kids[1].type
  IN  Typed(e.op, kids, e.binds,
            When(kids # <<>> /\ \A i \in DOMAIN kids : Assignable(sc.root, kids[i].type, T), ArrayOf(T, Len(kids))))

\* The value is one that can be copied, as all are here.
ElabFill(sc, want, e) ==
  LET value == Elab(sc, WantedElement(sc.root, want), e.kids[1])
  IN  Typed(e.op, <<value>>, e.binds, When(e.op[2] > 0, ArrayOf(value.type, e.op[2])))

ElabIndex(sc, e) ==
  LET array == Elab(sc, None, e.kids[1])
      index == Elab(sc, None, e.kids[2])
  IN  Typed(e.op, <<array, index>>, e.binds, ElementType(sc.root, array, index))

\* The result is of the type of the array given, of which the type wanted is
\* wanted.
ElabArraySet(sc, want, e) ==
  LET array == Elab(sc, want, e.kids[1])
      index == Elab(sc, None, e.kids[2])
      T     == ElementType(sc.root, array, index)
      value == Elab(sc, T, e.kids[3])
  IN  IF Len(e.kids) # 3 \/ T = None THEN Refused
      ELSE Typed(<<"array_set">>, <<array, index, value>>, e.binds,
                 When(Assignable(sc.root, value.type, T), array.type))

ElabCast(sc, e) ==
  LET T     == CastTo[e.op[2]]
      value == Elab(sc, None, e.kids[1])
  IN  IF Len(e.kids) # 1 THEN Refused
      ELSE Typed(<<"cast", T>>, <<value>>, e.binds, When(value.type \in IntTypes, T))

-----------------------------------------------------------------------------
\* A record literal is of a structural type, whatever record is wanted; the
\* types of its fields are wanted of their values.
ElabRecord(sc, want, e) ==
  LET fields == e.op[2]
      kids   == [i \in DOMAIN e.kids |->
                   Elab(sc, MemberType(sc.root, want, "record", fields[i]), e.kids[i])]
      T      == RecordOf([f \in ToSet(fields) |-> kids[CHOOSE i \in DOMAIN fields : fields[i] = f].type])
  IN  Typed(e.op, kids, e.binds, When(fields # <<>> /\ IsInjective(fields), T))

ElabField(sc, e) ==
  LET target == Elab(sc, None, e.kids[1])
  IN  Typed(e.op, <<target>>, e.binds, MemberType(sc.root, target.type, "record", e.op[2]))

ElabConstruct(sc, e) ==
  LET payload == MemberType(sc.root, e.op[2], "enum", e.op[3])
      value   == Elab(sc, payload, e.kids[1])
  IN  Typed(e.op, <<value>>, e.binds,
            When(payload # None /\ Assignable(sc.root, value.type, payload), e.op[2]))

-----------------------------------------------------------------------------
\* What an arm's pattern binds: the type of the innermost payload it names.
RECURSIVE LeafType(_, _, _)
LeafType(root, T, p) ==
  IF p[1] = "variant" THEN LeafType(root, MemberType(root, T, "enum", p[2]), p[3]) ELSE T

\* A pattern that names a variant matches a value of the enum that has it.
PayloadFits(root, T, p) ==
  p[1] = "variant" => /\ MemberType(root, T, "enum", p[2]) # None
                      /\ PayloadFits(root, MemberType(root, T, "enum", p[2]), p[3])

\* The patterns of the arms that name variant v, one level down.
Under(v, ps) == LET at == SelectSeq(ps, LAMBDA p : p[1] = "variant" /\ p[2] = v)
                IN  [i \in DOMAIN at |-> at[i][3]]
CatchAll(p)  == p[1] \in {"bind", "wild", "default"}

\* At each level there is one pattern that matches everything, or none.
RECURSIVE WellFormed(_)
WellFormed(ps) ==
  IF \E i \in DOMAIN ps : CatchAll(ps[i])
  THEN Len(ps) = 1
  ELSE \A v \in {ps[i][2] : i \in DOMAIN ps} : WellFormed(Under(v, ps))

\* Mutant: nested patterns are not gone into.
ExhaustiveOneLevel(root, T, ps) ==
  \/ \E i \in DOMAIN ps : CatchAll(ps[i])
  \/ SpecOf(root, T)[1] = "enum" /\ \A v \in DOMAIN SpecOf(root, T)[2] : Under(v, ps) # <<>>

\* Every value of type T matches one of the patterns.
RECURSIVE Exhaustive(_, _, _)
Exhaustive(root, T, ps) ==
  \/ \E i \in DOMAIN ps : CatchAll(ps[i])
  \/ /\ SpecOf(root, T)[1] = "enum"
     /\ \A v \in DOMAIN SpecOf(root, T)[2] :
          Under(v, ps) # <<>> /\ Exhaustive(root, MemberType(root, T, "enum", v), Under(v, ps))

\* A payload of a variant is bound, or destructured, unless it is a unit.
EnumPatternsFit(root, T, ps) ==
  LET defaults == {i \in DOMAIN ps : ps[i] = Default}
      arms     == IF defaults = {} THEN ps ELSE Front(ps)
  IN  /\ defaults \subseteq {Len(ps)}
      /\ \A i \in DOMAIN arms :
           /\ arms[i][1] = "variant" /\ PayloadFits(root, T, arms[i])
           /\ arms[i][3] = Wild => MemberType(root, T, "enum", arms[i][2]) = UnitType
      /\ \A i, j \in DOMAIN arms : i # j /\ arms[i][2] = arms[j][2] =>
           arms[i][3][1] = "variant" /\ arms[j][3][1] = "variant"
      /\ (\E i \in DOMAIN arms : arms[i][3][1] = "variant") => WellFormed(arms)
      /\ defaults # {} \/ Exhaustive(root, T, arms)

\* Over a scalar the patterns are literals: no literal twice, and every truth
\* value, or a default at the end.
ScalarPatternsFit(T, ps) ==
  LET defaults == {i \in DOMAIN ps : ps[i] = Default}
      kind     == IF T = I64 THEN "int" ELSE "truth"
      literals == [i \in DOMAIN ps \ defaults |-> ps[i][2]]
  IN  /\ defaults \subseteq {Len(ps)}
      /\ \A i \in DOMAIN literals : ps[i][1] = "literal" /\ literals[i][1] = kind
      /\ IsInjective(literals)
      /\ defaults # {} \/ (T = Bool /\ Cardinality(DOMAIN literals) = 2)

\* The arms are typed with no width wanted, each with what its pattern binds.
ElabCase(sc, e) ==
  LET on    == Elab(sc, None, e.kids[1])
      ps    == e.op[2]
      T     == on.type
      fit   == /\ Accepted(on) /\ ps # <<>>
               /\ IF T \in {I64, Bool} THEN ScalarPatternsFit(T, ps)
                  ELSE SpecOf(sc.root, T)[1] = "enum" /\ EnumPatternsFit(sc.root, T, ps)
      inner(i) == IF e.binds[i + 1] = <<>> THEN sc
                  ELSE Bound(sc, e.binds[i + 1][1], LeafType(sc.root, T, ps[i]))
      arms  == [i \in DOMAIN ps |-> Elab(inner(i), None, e.kids[i + 1])]
  IN  IF fit THEN Typed(e.op, <<on>> \o arms, e.binds, JoinType(arms)) ELSE Refused

-----------------------------------------------------------------------------
Elab(sc, want, e) ==
  CASE e.op[1] = "int"       -> Typed(e.op, <<>>, <<>>, LiteralIntType(e.op[2], want))
    [] e.op[1] = "truth"     -> Typed(e.op, <<>>, <<>>, Bool)
    [] e.op[1] = "unit"      -> Typed(e.op, <<>>, <<>>, UnitType)
    [] e.op[1] = "param"     -> ElabParam(sc, e)
    [] e.op[1] = "name"      -> ElabName(sc, e)
    [] e.op = <<"call", "array_set">> -> ElabArraySet(sc, want, e)
    [] e.op[1] = "call"      -> IF e.op[2] \in Builtin THEN ElabCast(sc, e) ELSE ElabCall(sc, e)
    [] e.op[1] = "binary"    -> ElabBinary(sc, want, e)
    [] e.op[1] = "unary"     -> ElabUnary(sc, want, e)
    [] e.op[1] = "assign"    -> ElabAssign(sc, e)
    [] e.op[1] = "let"       -> ElabLet(sc, want, e)
    [] e.op[1] = "if"        -> ElabIf(sc, e)
    [] e.op[1] = "return"    -> ElabReturn(sc, want, e)
    [] e.op[1] = "loop"      -> ElabLoop(sc, want, e)
    [] e.op[1] = "fold"      -> ElabFold(sc, want, e)
    [] e.op[1] = "array"     -> ElabArray(sc, want, e)
    [] e.op[1] = "fill"      -> ElabFill(sc, want, e)
    [] e.op[1] = "index"     -> ElabIndex(sc, e)
    [] e.op[1] = "record"    -> ElabRecord(sc, want, e)
    [] e.op[1] = "field"     -> ElabField(sc, e)
    [] e.op[1] = "construct" -> ElabConstruct(sc, e)
    [] e.op[1] = "case"      -> ElabCase(sc, e)

\* A function's body, against what the function returns.
ElabBody(root, params, returns, e) ==
  IF ReturnsPlaced(e, TRUE) THEN Elab(Scope(root, params), returns, e) ELSE Refused

-----------------------------------------------------------------------------
\* The check of a stored expression, whatever it was typed from
\* (verify_expr_type_with_locals): each part is of the type it declares, and
\* what the parts are of makes the type the whole declares.  A scope has what
\* the function returns as well, which every return in it must flow into.
Flows(sc, part, T) == Assignable(sc.root, part.type, T)

AtomMakes(sc, e) ==
  LET o == e.op[2]
  IN  CASE e.op[1] = "int"   -> When(e.type \in IntTypes /\ o \in IntRange(e.type), e.type)
        [] e.op[1] = "truth" -> Bool
        [] e.op[1] = "unit"  -> UnitType
        [] e.op[1] = "param" -> sc.params[o][2]
        [] e.op[1] = "local" -> sc.locals[Len(sc.locals) - o][2]

CallMakes(sc, e) ==
  LET callee == sc.root.functions[e.op[2]]
  IN  When(/\ e.op[2] \in DOMAIN sc.root.functions
           /\ Len(e.kids) = Len(callee.params)
           /\ \A i \in DOMAIN e.kids : Flows(sc, e.kids[i], callee.params[i][2]),
           callee.returns)

OperatorMakes(e) ==
  LET o     == e.op[2]
      types == {e.kids[i].type : i \in DOMAIN e.kids}
      T     == e.kids[1].type
  IN  CASE e.op[1] = "unary" -> When(IF o = "-" THEN T \in IntTypes ELSE T = Bool, T)
        [] o \in Logical     -> When(types = {Bool}, Bool)
        [] OTHER             -> When(Cardinality(types) = 1 /\ types \subseteq IntTypes,
                                     IF o \in Comparison THEN Bool ELSE T)

BlockMakes(sc, e) ==
  CASE e.op[1] = "assign" -> When(IsPlace(e.kids[1]) /\ Flows(sc, e.kids[2], e.kids[1].type), UnitType)
    [] e.op[1] = "let"    -> When(Flows(sc, e.kids[1], e.op[2]), e.kids[2].type)
    [] e.op[1] = "if"     -> When(e.kids[1].type = Bool, JoinType(Tail(e.kids)))
    [] e.op[1] = "return" -> When(Flows(sc, e.kids[1], sc.returns), e.kids[1].type)

LoopMakes(sc, e) ==
  When(/\ Flows(sc, e.kids[1], e.type) /\ Flows(sc, e.kids[3], e.type)
       /\ e.kids[2].type = Bool, e.type)

FoldMakes(sc, e) ==
  When(/\ SpecOf(sc.root, e.kids[1].type)[1] = "array" /\ Foldable(e.kids[1])
       /\ Flows(sc, e.kids[2], e.type) /\ Flows(sc, e.kids[3], e.type), e.type)

ArrayMakes(sc, e) ==
  LET T == ElementType(sc.root, e.kids[1], e.kids[2])
  IN  CASE e.op[1] = "array"     -> When(/\ e.type[1] = "array" /\ Len(e.kids) = e.type[3]
                                         /\ \A i \in DOMAIN e.kids : Flows(sc, e.kids[i], e.type[2]), e.type)
        [] e.op[1] = "fill"      -> When(e.op[2] > 0, ArrayOf(e.kids[1].type, e.op[2]))
        [] e.op[1] = "index"     -> T
        [] e.op[1] = "array_set" -> When(T # None /\ Flows(sc, e.kids[3], T), e.kids[1].type)

AggregateMakes(sc, e) ==
  LET o == e.op[2]
  IN  CASE e.op[1] = "record"    -> When(IsInjective(o), RecordOf([f \in ToSet(o) |->
                                           e.kids[CHOOSE i \in DOMAIN o : o[i] = f].type]))
        [] e.op[1] = "field"     -> MemberType(sc.root, e.kids[1].type, "record", o)
        [] e.op[1] = "construct" -> LET P == MemberType(sc.root, o, "enum", e.op[3])
                                    IN  When(P # None /\ Flows(sc, e.kids[1], P), o)

CaseMakes(sc, e) ==
  LET T == e.kids[1].type
  IN  When(IF T \in {I64, Bool} THEN ScalarPatternsFit(T, e.op[2])
           ELSE SpecOf(sc.root, T)[1] = "enum" /\ EnumPatternsFit(sc.root, T, e.op[2]),
           JoinType(Tail(e.kids)))

Makes(sc, e) ==
  CASE e.kids = <<>> /\ e.op[1] # "call"                  -> AtomMakes(sc, e)
    [] e.op[1] = "call"                                   -> CallMakes(sc, e)
    [] e.op[1] \in {"binary", "unary"}                    -> OperatorMakes(e)
    [] e.op[1] \in {"assign", "let", "if", "return"}      -> BlockMakes(sc, e)
    [] e.op[1] = "loop"                                   -> LoopMakes(sc, e)
    [] e.op[1] = "fold"                                   -> FoldMakes(sc, e)
    [] e.op[1] \in {"array", "fill", "index", "array_set"} -> ArrayMakes(sc, e)
    [] e.op[1] = "cast"                                   -> When(e.kids[1].type \in IntTypes, e.op[2])
    [] e.op[1] \in {"record", "field", "construct"}       -> AggregateMakes(sc, e)
    [] e.op[1] = "case"                                   -> CaseMakes(sc, e)

\* What the binders of part i are of.
InScope(sc, e, i) ==
  CASE e.binds[i] = <<>>    -> sc
    [] e.op[1] = "let"      -> Bound(sc, e.binds[i][1], e.op[2])
    [] e.op[1] = "loop"     -> Bound(sc, e.binds[i][1], e.type)
    [] e.op[1] = "fold"     -> Bound(Bound(sc, e.binds[i][1], WantedElement(sc.root, e.kids[1].type)),
                                     e.binds[i][2], e.type)
    [] e.op[1] = "case"     -> Bound(sc, e.binds[i][1], LeafType(sc.root, e.kids[1].type, e.op[2][i - 1]))

RECURSIVE Verified(_, _)
Verified(sc, e) == /\ \A i \in DOMAIN e.kids : Verified(InScope(sc, e, i), e.kids[i])
                   /\ e.type # None /\ e.type = Makes(sc, e)

\* A field or an element is read of a place: the check of loans gives it a
\* place of its own, and a call, a literal or a choice has none.
RECURSIVE ReadsPlaces(_)
ReadsPlaces(e) == /\ e.op[1] \in {"field", "index"} => IsPlace(e)
                  /\ \A i \in DOMAIN e.kids : ReadsPlaces(e.kids[i])

FunctionChecks(root, f) ==
  LET fn == root.functions[f]
      sc == [root |-> root, params |-> fn.params, locals |-> <<>>, returns |-> fn.returns]
  IN  Verified(sc, fn.body) /\ ReadsPlaces(fn.body) /\ Assignable(root, fn.body.type, fn.returns)
=============================================================================
