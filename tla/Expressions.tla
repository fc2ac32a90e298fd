---------------------------- MODULE Expressions ----------------------------
(***************************************************************************)
(* The expressions of a function body: raw, as a client writes them         *)
(* (RawExpr, src/src/expr.rs), and typed, as they are stored, with the      *)
(* types both speak of (src/src/types.rs).                                  *)
(*                                                                         *)
(* An expression is [op, kids, binds]: the constructor with what it names,  *)
(* the parts in order, and for each part the names in scope there and not   *)
(* outside.  A stored one has its type too, and holds param and local       *)
(* references by position where the raw one may hold a name.                *)
(*                                                                         *)
(* What a program is made of here is [types, functions]: the record and     *)
(* enum types by name, and the functions of one module by name.             *)
(***************************************************************************)
EXTENDS Integers, SequencesExt

CONSTANTS I64Max,   \* the largest i64: the width of the signed integers
          U8Max     \* the largest u8: the width of the unsigned ones

ASSUME WidthsAreNat == I64Max \in Nat /\ U8Max \in Nat

-----------------------------------------------------------------------------
None      == <<"none">>
I64       == <<"i64">>
U8        == <<"u8">>
Bool      == <<"bool">>
UnitType  == <<"unit">>
Named(n)  == <<"named", n>>
RecordOf(fields)   == <<"record", fields>>     \* field name -> type
EnumOf(variants)   == <<"enum", variants>>     \* variant name -> payload type
ArrayOf(T, n)      == <<"array", T, n>>        \* n elements of type T

IntTypes == {I64, U8}
IntRange(T) == IF T = U8 THEN 0..U8Max ELSE (-I64Max - 1)..I64Max

\* What a type is made of: a name stands for its definition.
SpecOf(root, T) == IF T[1] = "named" THEN root.types[T[2]] ELSE T

\* A value of a named type is only of that type; a structural record flows
\* into a named one that has its fields, and an array into one as long.
RECURSIVE Assignable(_, _, _)
Assignable(root, actual, expected) ==
  \/ actual = expected
  \/ /\ actual[1] # "named"
     /\ LET A == SpecOf(root, actual)
            X == SpecOf(root, expected)
        IN  \/ /\ A[1] = X[1] /\ A[1] \in {"record", "enum"}
               /\ DOMAIN A[2] = DOMAIN X[2]
               /\ \A f \in DOMAIN X[2] : Assignable(root, A[2][f], X[2][f])
            \/ /\ A[1] = "array" /\ X[1] = "array" /\ A[3] = X[3]
               /\ Assignable(root, A[2], X[2])

-----------------------------------------------------------------------------
Expr(op, kids, binds) == [op |-> op, kids |-> kids, binds |-> binds]

Number(n)         == Expr(<<"int", n>>, <<>>, <<>>)
Truth(b)          == Expr(<<"truth", b>>, <<>>, <<>>)
Unit              == Expr(<<"unit">>, <<>>, <<>>)
Param(i)          == Expr(<<"param", i>>, <<>>, <<>>)
Name(x)           == Expr(<<"name", x>>, <<>>, <<>>)
Call(f, args)     == Expr(<<"call", f>>, args, [i \in DOMAIN args |-> <<>>])
Binary(o, a, b)   == Expr(<<"binary", o>>, <<a, b>>, <<<<>>, <<>>>>)
Unary(o, a)       == Expr(<<"unary", o>>, <<a>>, <<<<>>>>)
Assign(p, a)      == Expr(<<"assign">>, <<p, a>>, <<<<>>, <<>>>>)
Let(x, T, a, b)   == Expr(<<"let", T>>, <<a, b>>, <<<<>>, <<x>>>>)
If(c, a, b)       == Expr(<<"if">>, <<c, a, b>>, <<<<>>, <<>>, <<>>>>)
Return(a)         == Expr(<<"return">>, <<a>>, <<<<>>>>)
Loop(x, i, c, b)  == Expr(<<"loop">>, <<i, c, b>>, <<<<>>, <<x>>, <<x>>>>)
Fold(x, acc, a, i, b) == Expr(<<"fold">>, <<a, i, b>>, <<<<>>, <<>>, <<x, acc>>>>)
Array(as)         == Expr(<<"array">>, as, [i \in DOMAIN as |-> <<>>])
Fill(a, n)        == Expr(<<"fill", n>>, <<a>>, <<<<>>>>)
Index(a, i)       == Expr(<<"index">>, <<a, i>>, <<<<>>, <<>>>>)
Record(fs, as)    == Expr(<<"record", fs>>, as, [i \in DOMAIN as |-> <<>>])
Field(a, f)       == Expr(<<"field", f>>, <<a>>, <<<<>>>>)
Construct(T, v, a) == Expr(<<"construct", T, v>>, <<a>>, <<<<>>>>)

\* The built-in functions are called as any other: they make a form of their
\* own.
CastTo  == [to_i64 |-> I64, to_u8 |-> U8]
Builtin == DOMAIN CastTo \union {"array_set"}

\* The arms of a case are <<pattern, name bound, body>>, the name "" when the
\* pattern binds none.
Default       == <<"default">>
Literal(e)    == <<"literal", e.op>>       \* of an integer or a truth value
Variant(v, p) == <<"variant", v, p>>
Bind          == <<"bind">>
Wild          == <<"wild">>

Case(a, arms) ==
  Expr(<<"case", [i \in DOMAIN arms |-> arms[i][1]]>>,
       <<a>> \o [i \in DOMAIN arms |-> arms[i][3]],
       <<<<>>>> \o [i \in DOMAIN arms |-> IF arms[i][2] = "" THEN <<>> ELSE <<arms[i][2]>>])

-----------------------------------------------------------------------------
\* Whether the expression leaves the function on every path.
RECURSIVE Diverges(_)
Diverges(e) ==
  \/ e.op[1] = "return"
  \/ e.op[1] \in {"if", "case"} /\ \A i \in 2..Len(e.kids) : Diverges(e.kids[i])
  \/ e.op[1] = "let" /\ Diverges(e.kids[2])

\* The parts whose value is the value of the whole.
BlockResults(e) == CASE e.op[1] \in {"if", "case"} -> 2..Len(e.kids)
                     [] e.op[1] = "let"            -> {2}
                     [] OTHER                      -> {}

\* A return stands where its value is the result of a block.
RECURSIVE ReturnsPlaced(_, _)
ReturnsPlaced(e, allowed) ==
  /\ e.op[1] = "return" => allowed
  /\ \A i \in DOMAIN e.kids : ReturnsPlaced(e.kids[i], i \in BlockResults(e))

\* The type of a conditional is that of the branches that reach its end: None
\* when they disagree, and the first one's when there is none.
JoinType(branches) ==
  LET live == {branches[i].type : i \in {j \in DOMAIN branches : ~Diverges(branches[j])}}
  IN  IF live = {} THEN branches[1].type
      ELSE IF \A S, T \in live : S = T THEN CHOOSE T \in live : TRUE ELSE None

\* What an expression may assign to.
RECURSIVE IsPlace(_)
IsPlace(e) == \/ e.op[1] \in {"param", "local"}
              \/ e.op[1] \in {"field", "index"} /\ IsPlace(e.kids[1])
=============================================================================
