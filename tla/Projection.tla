---------------------------- MODULE Projection ----------------------------
(***************************************************************************)
(* A program as source text and back: what export prints (expr_to_source,   *)
(* render_source, src/src/expr.rs) and what import reads (Parser, the same  *)
(* file).                                                                  *)
(*                                                                         *)
(* A text is a sequence of tokens, each a string: characters and layout are *)
(* left out.  Parentheses are printed by precedence and read by it; the     *)
(* two sides share the table of binary operators and nothing else.          *)
(***************************************************************************)
EXTENDS Rewriting

CONSTANT NameOrder   \* the names of a program's types and functions, as they are sorted

Place(x) == CHOOSE i \in DOMAIN NameOrder : NameOrder[i] = x
ByNames(S) == SetToSortSeq(S, LAMBDA x, y : Place(x) < Place(y))

-----------------------------------------------------------------------------
\* The operator table: `|` binds loosest and `*` tightest.
Precedence(o) ==
  CASE o = "|"            -> 1
    [] o = "||"           -> 10
    [] o = "&&"           -> 20
    [] o = "=="           -> 30
    [] o = "<"            -> 40
    [] o \in {"+", "-"}   -> 50
    [] o \in {"*", "/"}   -> 60

BinaryOps        == Arithmetic \union Comparison \union Logical
AssignPrecedence == 1
ArmPrecedence    == 2    \* a separator ends an arm as the operator | would
UnaryPrecedence  == 70
FieldPrecedence  == 80

RECURSIVE TypeTokens(_)
TypeTokens(T) == CASE T = I64         -> <<"i64">>
                   [] T = U8          -> <<"u8">>
                   [] T = Bool        -> <<"bool">>
                   [] T = UnitType    -> <<"unit">>
                   [] T[1] = "array"  -> <<"array", "<">> \o TypeTokens(T[2]) \o <<",", ToString(T[3]), ">">>
                   [] OTHER           -> <<T[2]>>

NumberTokens(n) == IF n < 0 THEN <<"-", ToString(-n)>> ELSE <<ToString(n)>>
TruthTokens(b)  == <<IF b THEN "true" ELSE "false">>

\* In parentheses where what is around binds tighter.
Grouped(ts, looser) == IF looser THEN <<"(">> \o ts \o <<")">> ELSE ts

RECURSIVE Listed(_)
Listed(parts) == IF Len(parts) < 2 THEN FlattenSeq(parts)
                 ELSE Head(parts) \o <<",">> \o Listed(Tail(parts))

-----------------------------------------------------------------------------
\* The tokens of a stored expression where prec is what the place binds at.
\* names are the parameters' names and those of the locals, innermost last.
RECURSIVE Text(_, _, _)

Kid(e, i, names, prec) == Text(e.kids[i], [names EXCEPT !.locals = @ \o e.binds[i]], prec)
Kids(e, names)         == [i \in DOMAIN e.kids |-> Kid(e, i, names, 0)]

AtomText(e, names) ==
  CASE e.op[1] = "int"   -> NumberTokens(e.op[2])
    [] e.op[1] = "truth" -> TruthTokens(e.op[2])
    [] e.op[1] = "unit"  -> <<"(", ")">>
    [] e.op[1] = "param" -> <<names.params[e.op[2]][1]>>
    [] e.op[1] = "local" -> <<names.locals[Len(names.locals) - e.op[2]]>>

CallText(e, names) == <<RawOp(e)[2], "(">> \o Listed(Kids(e, names)) \o <<")">>

\* Mutant: the right operand binds no tighter than the left.
LooseBinaryText(e, names, prec) ==
  LET own == Precedence(e.op[2])
  IN  Grouped(Kid(e, 1, names, own) \o <<e.op[2]>> \o Kid(e, 2, names, own), own < prec)

\* Operators of a level group to the left.
BinaryText(e, names, prec) ==
  LET own == Precedence(e.op[2])
  IN  Grouped(Kid(e, 1, names, own) \o <<e.op[2]>> \o Kid(e, 2, names, own + 1), own < prec)

UnaryText(e, names, prec) ==
  Grouped(<<e.op[2]>> \o Kid(e, 1, names, UnaryPrecedence), UnaryPrecedence < prec)

AssignText(e, names, prec) ==
  Grouped(Kid(e, 1, names, AssignPrecedence + 1) \o <<"=">> \o Kid(e, 2, names, AssignPrecedence),
          AssignPrecedence < prec)

LetText(e, names, prec) ==
  Grouped(<<"let", e.binds[2][1], ":">> \o TypeTokens(e.op[2]) \o <<"=">> \o Kid(e, 1, names, 0)
            \o <<"in">> \o Kid(e, 2, names, 0), prec > 0)

IfText(e, names, prec) ==
  Grouped(<<"if">> \o Kid(e, 1, names, 0) \o <<"then">> \o Kid(e, 2, names, 0)
            \o <<"else">> \o Kid(e, 3, names, 0), prec > 0)

ReturnText(e, names, prec) == Grouped(<<"return">> \o Kid(e, 1, names, 0), prec > 0)

LoopText(e, names, prec) ==
  Grouped(<<"loop", e.binds[2][1], "=">> \o Kid(e, 1, names, 0) \o <<"while">> \o Kid(e, 2, names, 0)
            \o <<"do">> \o Kid(e, 3, names, 0), prec > 0)

FoldText(e, names, prec) ==
  Grouped(<<"fold", e.binds[3][1], "in">> \o Kid(e, 1, names, 0) \o <<"with", e.binds[3][2], "=">>
            \o Kid(e, 2, names, 0) \o <<"do">> \o Kid(e, 3, names, 0), prec > 0)

ArrayText(e, names) == <<"[">> \o Listed(Kids(e, names)) \o <<"]">>
FillText(e, names)  == <<"[">> \o Kid(e, 1, names, 0) \o <<";", ToString(e.op[2]), "]">>

IndexText(e, names, prec) ==
  Grouped(Kid(e, 1, names, FieldPrecedence) \o <<"[">> \o Kid(e, 2, names, 0) \o <<"]">>,
          FieldPrecedence < prec)

RecordText(e, names) ==
  <<"{">> \o Listed([i \in DOMAIN e.kids |-> <<e.op[2][i], ":">> \o Kid(e, i, names, 0)]) \o <<"}">>

FieldText(e, names, prec) ==
  Grouped(Kid(e, 1, names, FieldPrecedence) \o <<".", e.op[2]>>, FieldPrecedence < prec)

\* A payload that is the unit literal is not written.
ConstructText(e, names) ==
  TypeTokens(e.op[2]) \o <<"::", e.op[3]>>
    \o (IF e.kids[1].op = Unit.op THEN <<>> ELSE <<"(">> \o Kid(e, 1, names, 0) \o <<")">>)

RECURSIVE PatternText(_, _)
PatternText(p, x) == CASE p = Bind -> <<x>>
                        [] p = Wild -> <<"_">>
                        [] OTHER    -> <<p[2], "(">> \o PatternText(p[3], x) \o <<")">>

\* An arm's body is kept from swallowing the arms that follow.
ArmText(e, i, names) ==
  LET p == e.op[2][i - 1]
      x == IF e.binds[i] = <<>> THEN "" ELSE e.binds[i][1]
      pattern == CASE p = Default                      -> <<"else">>
                   [] p[1] = "literal" /\ p[2][1] = "int" -> NumberTokens(p[2][2])
                   [] p[1] = "literal"                 -> TruthTokens(p[2][2])
                   [] p[3] = Wild                      -> <<p[2]>>
                   [] OTHER                            -> PatternText(p, x)
  IN  pattern \o <<"=>">> \o Kid(e, i, names, ArmPrecedence)

RECURSIVE ArmsText(_, _, _)
ArmsText(e, i, names) ==
  ArmText(e, i, names) \o (IF i = Len(e.kids) THEN <<>> ELSE <<"|">> \o ArmsText(e, i + 1, names))

CaseText(e, names, prec) ==
  Grouped(<<"case">> \o Kid(e, 1, names, 0) \o <<"of">> \o ArmsText(e, 2, names), prec > 0)

Text(e, names, prec) ==
  CASE e.op[1] \in {"int", "truth", "unit", "param", "local"} -> AtomText(e, names)
    [] e.op[1] \in {"call", "array_set", "cast"} -> CallText(e, names)
    [] e.op[1] = "binary"    -> BinaryText(e, names, prec)
    [] e.op[1] = "unary"     -> UnaryText(e, names, prec)
    [] e.op[1] = "assign"    -> AssignText(e, names, prec)
    [] e.op[1] = "let"       -> LetText(e, names, prec)
    [] e.op[1] = "if"        -> IfText(e, names, prec)
    [] e.op[1] = "return"    -> ReturnText(e, names, prec)
    [] e.op[1] = "loop"      -> LoopText(e, names, prec)
    [] e.op[1] = "fold"      -> FoldText(e, names, prec)
    [] e.op[1] = "array"     -> ArrayText(e, names)
    [] e.op[1] = "fill"      -> FillText(e, names)
    [] e.op[1] = "index"     -> IndexText(e, names, prec)
    [] e.op[1] = "record"    -> RecordText(e, names)
    [] e.op[1] = "field"     -> FieldText(e, names, prec)
    [] e.op[1] = "construct" -> ConstructText(e, names)
    [] e.op[1] = "case"      -> CaseText(e, names, prec)

\* The signature and the body of a function.
ParamTokens(params) == Listed([i \in DOMAIN params |-> <<params[i][1], ":">> \o TypeTokens(params[i][2])])

SignatureText(fn) == <<"(">> \o ParamTokens(fn.params) \o <<")", "->">> \o TypeTokens(fn.returns)

FunctionText(f, fn) ==
  <<"fn", f>> \o SignatureText(fn) \o <<"=">> \o Text(fn.body, [params |-> fn.params, locals |-> <<>>], 0)

\* A member a line, in a fixed order: what sorts them is left out.
TypeText(n, spec) ==
  LET members == SetToSeq(DOMAIN spec[2])
  IN  <<spec[1], n, "{">> \o FlattenSeq([i \in DOMAIN members |->
                                           <<members[i], ":">> \o TypeTokens(spec[2][members[i]])]) \o <<"}">>

\* Every name after those it depends on, and before its dependents; by name
\* otherwise.  A name that is being visited is not gone into again.
RECURSIVE Visit(_, _, _, _)
Visit(deps, ns, visiting, ordered) ==
  IF ns = <<>> THEN ordered
  ELSE LET n     == Head(ns)
           below == Visit(deps, ByNames(deps[n]), visiting \union {n}, ordered)
       IN  Visit(deps, Tail(ns), visiting,
                 IF n \in visiting \/ n \in ToSet(ordered) THEN ordered ELSE Append(below, n))

ProjectionOrder(deps) == Visit(deps, ByNames(DOMAIN deps), {}, <<>>)

RECURSIVE TypeNames(_)
TypeNames(T)      == CASE T[1] = "named" -> {T[2]}
                       [] T[1] = "array" -> TypeNames(T[2])
                       [] OTHER          -> {}
TypeDeps(spec)    == UNION {TypeNames(spec[2][m]) : m \in DOMAIN spec[2]}
CalledBy(e)       == {x.op[2] : x \in {y \in Within(e) : y.op[1] = "call"}}

\* The program, its types before its functions.
ProgramText(r) ==
  LET types == ProjectionOrder([n \in DOMAIN r.types |-> TypeDeps(r.types[n])])
      fns   == ProjectionOrder([f \in DOMAIN r.functions |-> CalledBy(r.functions[f].body)])
  IN  FlattenSeq([i \in DOMAIN types |-> TypeText(types[i], r.types[types[i]])])
        \o FlattenSeq([i \in DOMAIN fns |-> FunctionText(fns[i], r.functions[fns[i]])])

-----------------------------------------------------------------------------
\* Reading: an operator takes the text and where it starts, and gives what it
\* read and where it stopped, which is nowhere when it read nothing.  What it
\* does with a part it has read is an operator of its own.
Got(e, at) == [e |-> e, at |-> at]
Fails      == Got(None, 0)
Failed(r)  == r.at = 0

Symbols == BinaryOps \union {"!", "(", ")", "{", "}", ",", ":", "::", "=", "=>", ".", "->",
                              "[", "]", ";", ">", ""}
Numeral(t)   == \E n \in 0..(I64Max + 1) : ToString(n) = t
NumberOf(t)  == CHOOSE n \in 0..(I64Max + 1) : ToString(n) = t
Token(ts, i) == IF i \in DOMAIN ts THEN ts[i] ELSE ""
IsIdent(t)   == t \notin Symbols /\ ~Numeral(t)
Meets(ts, r, t) == ~Failed(r) /\ Token(ts, r.at) = t   \* consume_symbol

RECURSIVE ParseExpr(_, _, _)
RECURSIVE ParseForm(_, _, _, _, _)
RECURSIVE ParseList(_, _, _, _, _)
RECURSIVE ParseBinary(_, _, _, _)

RECURSIVE ParseType(_, _)
AfterElementType(ts, T) ==
  LET n == Token(ts, T.at + 1)
  IN  IF Meets(ts, T, ",") /\ Numeral(n) /\ Token(ts, T.at + 2) = ">"
      THEN Got(ArrayOf(T.e, NumberOf(n)), T.at + 3) ELSE Fails

ParseType(ts, i) ==
  LET t == Token(ts, i)
  IN  CASE t = "("      -> IF Token(ts, i + 1) = ")" THEN Got(UnitType, i + 2) ELSE Fails
        [] t = "i64"    -> Got(I64, i + 1)
        [] t = "u8"     -> Got(U8, i + 1)
        [] t = "bool"   -> Got(Bool, i + 1)
        [] t = "unit"   -> Got(UnitType, i + 1)
        [] t = "array"  -> IF Token(ts, i + 1) = "<" THEN AfterElementType(ts, ParseType(ts, i + 2)) ELSE Fails
        [] OTHER        -> IF IsIdent(t) THEN Got(Named(t), i + 1) ELSE Fails

\* A form: a word stands for itself, and IDENT, TYPE and EXPR for what is read
\* there.  Gives what each of them read.
Kinds == {"EXPR", "TYPE", "IDENT"}

ParsePart(ts, i, want, inArm) ==
  CASE want = "EXPR"  -> ParseExpr(ts, i, inArm)
    [] want = "TYPE"  -> ParseType(ts, i)
    [] want = "IDENT" -> IF IsIdent(Token(ts, i)) THEN Got(Token(ts, i), i + 1) ELSE Fails
    [] OTHER          -> IF Token(ts, i) = want THEN Got(want, i + 1) ELSE Fails

AfterPart(ts, part, form, got, inArm) ==
  IF Failed(part) THEN Fails
  ELSE ParseForm(ts, part.at, Tail(form), IF Head(form) \in Kinds THEN Append(got, part.e) ELSE got, inArm)

ParseForm(ts, i, form, got, inArm) ==
  IF form = <<>> THEN Got(got, i)
  ELSE AfterPart(ts, ParsePart(ts, i, Head(form), inArm), form, got, inArm)

\* One or more of a form, between commas, up to the closing token.
AfterItem(ts, item, form, close, got) ==
  CASE Meets(ts, item, close) -> Got(Append(got, item.e), item.at + 1)
    [] Meets(ts, item, ",")   -> ParseList(ts, item.at + 1, form, close, Append(got, item.e))
    [] OTHER                  -> Fails

ParseList(ts, i, form, close, got) ==
  AfterItem(ts, ParseForm(ts, i, form, <<>>, FALSE), form, close, got)

\* What is read and where, when r was read.
Inner(r)           == IF Failed(r) THEN Fails ELSE Got(r.e[1], r.at)
Payload(T, v, r)   == IF Failed(r) THEN Fails ELSE Got(Construct(T, v, r.e[1]), r.at)
Arguments(f, r)    == IF Failed(r) THEN Fails ELSE Got(Call(f, [k \in DOMAIN r.e |-> r.e[k][1]]), r.at)
FieldsOf(r)        == IF Failed(r) THEN Fails
                      ELSE Got(Record([k \in DOMAIN r.e |-> r.e[k][1]], [k \in DOMAIN r.e |-> r.e[k][2]]), r.at)

ElementsOf(r)      == IF Failed(r) THEN Fails ELSE Got(Array([k \in DOMAIN r.e |-> r.e[k][1]]), r.at)
Filled(value, r)   == IF Failed(r) \/ r.e[1].op[1] # "int" THEN Fails ELSE Got(Fill(value, r.e[1].op[2]), r.at)
Indexed(r, index)  == IF Failed(index) THEN Fails ELSE Got(Index(r.e, index.e[1]), index.at)

\* What is between parentheses or braces: within it | is no separator.
Parenthesized(ts, i) == ParseForm(ts, i, <<"(", "EXPR", ")">>, <<>>, FALSE)

\* A variant of a type, a call, or a name.
ParseName(ts, i) ==
  LET x == Token(ts, i)
      t == Token(ts, i + 1)
      v == Token(ts, i + 2)
  IN  CASE t = "::" /\ ~IsIdent(v)          -> Fails
        [] t = "::" /\ Token(ts, i + 3) = "(" -> Payload(Named(x), v, Parenthesized(ts, i + 3))
        [] t = "::"                         -> Got(Construct(Named(x), v, Unit), i + 3)
        [] t = "(" /\ v = ")"               -> Got(Call(x, <<>>), i + 3)
        [] t = "("                          -> Arguments(x, ParseList(ts, i + 2, <<"EXPR">>, ")", <<>>))
        [] OTHER                            -> Got(Name(x), i + 1)

\* The elements of an array, or the one value of them all.
AfterElement(ts, first) ==
  IF Meets(ts, first, ";")
  THEN Filled(first.e[1], ParseForm(ts, first.at + 1, <<"EXPR", "]">>, <<>>, FALSE))
  ELSE ElementsOf(AfterItem(ts, first, <<"EXPR">>, "]", <<>>))

ParsePrimary(ts, i) ==
  LET t == Token(ts, i)
  IN  CASE Numeral(t)               -> Got(Number(NumberOf(t)), i + 1)
        [] t \in {"true", "false"}  -> Got(Truth(t = "true"), i + 1)
        [] t = "(" /\ Token(ts, i + 1) = ")" -> Got(Unit, i + 2)
        [] t = "("                  -> Inner(Parenthesized(ts, i))
        [] t = "{"                  -> FieldsOf(ParseList(ts, i + 1, <<"IDENT", ":", "EXPR">>, "}", <<>>))
        [] t = "["                  -> AfterElement(ts, ParseForm(ts, i + 1, <<"EXPR">>, <<>>, FALSE))
        [] OTHER                    -> IF IsIdent(t) THEN ParseName(ts, i) ELSE Fails

\* An index in an arm is read as the arm is: the operator | ends it.
RECURSIVE ParsePostfix(_, _, _)
ParsePostfix(ts, r, inArm) ==
  CASE Meets(ts, r, "[") ->
         ParsePostfix(ts, Indexed(r, ParseForm(ts, r.at + 1, <<"EXPR", "]">>, <<>>, inArm)), inArm)
    [] Meets(ts, r, ".") ->
         IF IsIdent(Token(ts, r.at + 1))
         THEN ParsePostfix(ts, Got(Field(r.e, ts[r.at + 1]), r.at + 2), inArm) ELSE Fails
    [] OTHER -> r

Prefixed(o, r) == IF Failed(r) THEN Fails ELSE Got(Unary(o, r.e), r.at)

RECURSIVE ParseUnary(_, _, _)
ParseUnary(ts, i, inArm) ==
  IF Token(ts, i) \in {"-", "!"} THEN Prefixed(ts[i], ParseUnary(ts, i + 1, inArm))
  ELSE ParsePostfix(ts, ParsePrimary(ts, i), inArm)

\* Whether an operator no looser than min is next: in an arm the operator | is
\* the separator.
Continues(ts, left, min, inArm) ==
  LET o == Token(ts, left.at)
  IN  ~Failed(left) /\ o \in BinaryOps /\ ~(o = "|" /\ inArm) /\ Precedence(o) >= min

RECURSIVE ParseOperators(_, _, _, _)
AfterOperand(ts, left, right, min, inArm) ==
  IF Failed(right) THEN Fails
  ELSE ParseOperators(ts, Got(Binary(ts[left.at], left.e, right.e), right.at), min, inArm)

ParseOperators(ts, left, min, inArm) ==
  IF ~Continues(ts, left, min, inArm) THEN left
  ELSE AfterOperand(ts, left, ParseBinary(ts, left.at + 1, Precedence(ts[left.at]) + 1, inArm), min, inArm)

ParseBinary(ts, i, min, inArm) == ParseOperators(ts, ParseUnary(ts, i, inArm), min, inArm)

Assignment(place, r) == IF Failed(r) THEN Fails ELSE Got(Assign(place, r.e), r.at)

AfterPlace(ts, r, inArm) ==
  IF Meets(ts, r, "=") THEN Assignment(r.e, ParseExpr(ts, r.at + 1, inArm)) ELSE r

ParseAssign(ts, i, inArm) == AfterPlace(ts, ParseBinary(ts, i, AssignPrecedence, inArm), inArm)

\* A pattern, with the name it binds.
RECURSIVE ParsePattern(_, _)
AfterPattern(ts, v, r) == IF Meets(ts, r, ")") THEN Got(<<Variant(v, r.e[1]), r.e[2]>>, r.at + 1) ELSE Fails

ParsePattern(ts, i) ==
  LET t == Token(ts, i)
  IN  CASE t = "_"                -> Got(<<Wild, "">>, i + 1)
        [] ~IsIdent(t)            -> Fails
        [] Token(ts, i + 1) = "(" -> AfterPattern(ts, t, ParsePattern(ts, i + 2))
        [] OTHER                  -> Got(<<Bind, t>>, i + 1)

ParseArmPattern(ts, i) ==
  LET t == Token(ts, i)
      n == Token(ts, i + 1)
  IN  CASE t \in {"else", "default", "_"} -> Got(<<Default, "">>, i + 1)
        [] Numeral(t)                    -> Got(<<Literal(Number(NumberOf(t))), "">>, i + 1)
        [] t \in {"true", "false"}       -> Got(<<Literal(Truth(t = "true")), "">>, i + 1)
        [] t = "-"                       -> IF Numeral(n) THEN Got(<<Literal(Number(-NumberOf(n))), "">>, i + 2)
                                            ELSE Fails
        [] n = "("                       -> ParsePattern(ts, i)
        [] OTHER                         -> IF IsIdent(t) THEN Got(<<Variant(t, Wild), "">>, i + 1) ELSE Fails

\* The arms up to the first that no separator follows; a default is the last.
RECURSIVE ParseArms(_, _, _, _)
AfterArm(ts, on, p, r, arms) ==
  LET all == Append(arms, <<p[1], p[2], r.e[1]>>)
  IN  CASE Failed(r)           -> Fails
        [] ~Meets(ts, r, "|")  -> Got(Case(on, all), r.at)
        [] p[1] = Default      -> Fails
        [] OTHER               -> ParseArms(ts, on, r.at + 1, all)

AfterArmPattern(ts, on, p, arms) ==
  IF Failed(p) THEN Fails
  ELSE AfterArm(ts, on, p.e, ParseForm(ts, p.at, <<"=>", "EXPR">>, <<>>, TRUE), arms)

ParseArms(ts, on, i, arms) == AfterArmPattern(ts, on, ParseArmPattern(ts, i), arms)

CaseForm   == <<"case", "EXPR", "of">>
LetForm    == <<"let", "IDENT", ":", "TYPE", "=", "EXPR", "in", "EXPR">>
IfForm     == <<"if", "EXPR", "then", "EXPR", "else", "EXPR">>
ReturnForm == <<"return", "EXPR">>
LoopForm   == <<"loop", "IDENT", "=", "EXPR", "while", "EXPR", "do", "EXPR">>
FoldForm   == <<"fold", "IDENT", "in", "EXPR", "with", "IDENT", "=", "EXPR", "do", "EXPR">>

AfterForm(ts, t, r) ==
  CASE Failed(r)    -> Fails
    [] t = "case"   -> ParseArms(ts, r.e[1], r.at, <<>>)
    [] t = "let"    -> Got(Let(r.e[1], r.e[2], r.e[3], r.e[4]), r.at)
    [] t = "return" -> Got(Return(r.e[1]), r.at)
    [] t = "if"     -> Got(If(r.e[1], r.e[2], r.e[3]), r.at)
    [] t = "loop"   -> Got(Loop(r.e[1], r.e[2], r.e[3], r.e[4]), r.at)
    [] t = "fold"   -> Got(Fold(r.e[1], r.e[3], r.e[2], r.e[4], r.e[5]), r.at)

\* A word that starts a form is tried before a name is.
ParseExpr(ts, i, inArm) ==
  LET t    == Token(ts, i)
      form == CASE t = "case"   -> CaseForm
                [] t = "let"    -> LetForm
                [] t = "return" -> ReturnForm
                [] t = "if"     -> IfForm
                [] t = "loop"   -> LoopForm
                [] t = "fold"   -> FoldForm
                [] OTHER        -> <<>>
  IN  IF form = <<>> THEN ParseAssign(ts, i, inArm)
      ELSE AfterForm(ts, t, ParseForm(ts, i, form, <<>>, inArm))

-----------------------------------------------------------------------------
\* An item of a program: [kind, name, of, params, returns], of being the
\* members of a type or the body of a function.
Item(kind, n, of, params, returns) ==
  [kind |-> kind, name |-> n, of |-> of, params |-> params, returns |-> returns]

RECURSIVE ParseMembers(_, _, _)
AfterMember(ts, m, members) ==
  IF Failed(m) THEN Fails
  ELSE IF Token(ts, m.at) = "}" THEN Got(Append(members, m.e), m.at + 1)
  ELSE ParseMembers(ts, m.at, Append(members, m.e))

ParseMembers(ts, i, members) ==
  AfterMember(ts, ParseForm(ts, i, <<"IDENT", ":", "TYPE">>, <<>>, FALSE), members)

TypeItem(kind, n, r) ==
  LET ms == r.e
  IN  IF Failed(r) THEN Fails
      ELSE Got(Item(kind, n, [m \in {ms[k][1] : k \in DOMAIN ms} |->
                                ms[CHOOSE k \in DOMAIN ms : ms[k][1] = m][2]], <<>>, None), r.at)

ParseTypeDefinition(ts, i) ==
  IF IsIdent(Token(ts, i + 1)) /\ Token(ts, i + 2) = "{"
  THEN TypeItem(ts[i], ts[i + 1], ParseMembers(ts, i + 3, <<>>)) ELSE Fails

FunctionItem(n, params, r) ==
  IF Failed(r) THEN Fails ELSE Got(Item("fn", n, r.e[2], params, r.e[1]), r.at)

AfterParams(ts, n, params) ==
  IF Failed(params) THEN Fails
  ELSE FunctionItem(n, params.e, ParseForm(ts, params.at, <<"->", "TYPE", "=", "EXPR">>, <<>>, FALSE))

ParseFunction(ts, i) ==
  IF ~(Token(ts, i) = "fn" /\ IsIdent(Token(ts, i + 1)) /\ Token(ts, i + 2) = "(") THEN Fails
  ELSE AfterParams(ts, ts[i + 1], IF Token(ts, i + 3) = ")" THEN Got(<<>>, i + 4)
                                  ELSE ParseList(ts, i + 3, <<"IDENT", ":", "TYPE">>, ")", <<>>))

\* The items of a program, or none when its text is not one.
RECURSIVE ParseItems(_, _, _)
AfterProgramItem(ts, item, items) ==
  IF Failed(item) THEN <<>> ELSE ParseItems(ts, item.at, Append(items, item.e))

ParseItems(ts, i, items) ==
  IF i > Len(ts) THEN items
  ELSE AfterProgramItem(ts, IF Token(ts, i) \in {"record", "enum"} THEN ParseTypeDefinition(ts, i)
                            ELSE ParseFunction(ts, i), items)

ParseProgram(ts) == ParseItems(ts, 1, <<>>)
=============================================================================
