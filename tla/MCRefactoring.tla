--------------------------- MODULE MCRefactoring ---------------------------
(***************************************************************************)
(* Small programs, and the refactorings tried on them.                      *)
(***************************************************************************)
EXTENDS RefactoringProperties

\* A function as it is imported: typed against the signatures of them all.
Fn(params, returns, body) == [params |-> params, returns |-> returns, body |-> body]

Imported(types, fns) ==
  LET r == [types |-> types, functions |-> fns]
  IN  [r EXCEPT !.functions = [f \in DOMAIN @ |->
         [fns[f] EXCEPT !.body = ElabBody(r, fns[f].params, fns[f].returns, @)]]]

NoTypes == [n \in {} |-> I64]

X == Name("x")
Y == Name("y")
T == Name("t")

\* A record of two widths, built structurally and read back; a return of one
\* among values of another type.
Records == Imported(
  [R |-> RecordOf([a |-> I64, b |-> U8])],
  [mk    |-> Fn(<<<<"x", I64>>>>, Named("R"), Record(<<"a", "b">>, <<X, Number(2)>>)),
   width |-> Fn(<<<<"r", Named("R")>>>>, U8, Binary("+", Field(Name("r"), "b"), Number(3))),
   first |-> Fn(<<<<"x", I64>>>>, I64,
                Let("y", Named("R"), Call("mk", <<Binary("+", X, Number(1))>>), Field(Y, "a"))),
   early |-> Fn(<<<<"x", I64>>, <<"r", Named("R")>>>>, Named("R"),
                Let("t", Named("R"), If(Binary("<", X, Number(0)), Return(Name("r")), Call("mk", <<X>>)), T))])

\* An enum in an enum, taken apart level by level.
Enums == Imported(
  [Opt |-> EnumOf([no |-> UnitType, some |-> I64]), Nest |-> EnumOf([leaf |-> Named("Opt"), end |-> UnitType])],
  [wrap |-> Fn(<<<<"x", I64>>>>, Named("Nest"),
               If(Binary("<", X, Number(0)), Construct(Named("Nest"), "end", Unit),
                  Construct(Named("Nest"), "leaf", Construct(Named("Opt"), "some", X)))),
   deep |-> Fn(<<<<"n", Named("Nest")>>>>, I64,
               Case(Name("n"), <<<<Variant("leaf", Variant("some", Bind)), "x", Binary("*", X, Number(2))>>,
                                 <<Variant("leaf", Variant("no", Wild)), "", Number(0)>>,
                                 <<Variant("end", Wild), "", Number(1)>>>>)),
   both |-> Fn(<<<<"x", I64>>>>, I64, Binary("/", Call("deep", <<Call("wrap", <<X>>)>>), X))])

\* Locals and parameters of the same names in the caller and the callee.
Locals == Imported(NoTypes,
  [square |-> Fn(<<<<"x", I64>>>>, I64, Let("y", I64, Binary("+", X, Number(1)), Binary("*", Y, X))),
   twice  |-> Fn(<<<<"t", I64>>>>, I64,
                 Let("y", I64, Number(2), Binary("-", Call("square", <<T>>), Call("square", <<Binary("*", T, Y)>>)))),
   sum    |-> Fn(<<<<"x", I64>>>>, I64,
                 Loop("t", Number(0), Binary("<", T, X), Call("next", <<T>>))),
   next   |-> Fn(<<<<"x", I64>>>>, I64,
                 Case(X, <<<<Literal(Number(1)), "", Number(3)>>, <<Default, "", Binary("+", X, Number(1))>>>>))])

\* What has to stand in parentheses: an operand, a conditional, or what would
\* end an arm.
Groups == Imported([Opt |-> EnumOf([no |-> UnitType, some |-> I64])],
  [pick |-> Fn(<<<<"o", Named("Opt")>>, <<"x", I64>>>>, I64,
               Case(Name("o"),
                    <<<<Variant("some", Bind), "y",
                        Case(Y, <<<<Literal(Number(-1)), "", Binary("|", X, Number(2))>>, <<Default, "", Y>>>>)>>,
                      <<Variant("no", Wild), "", Let("t", I64, Unary("-", X), Binary("|", T, Number(1)))>>>>)),
   mixed |-> Fn(<<<<"x", I64>>>>, I64,
                Binary("-", X, Binary("-", Binary("|", X, Number(1)),
                                           If(Unary("!", Binary("<", X, Number(0))), Number(1),
                                              Call("pick", <<Construct(Named("Opt"), "no", Unit), Binary("|", X, X)>>)))))])

\* Two cliques: of members that nothing but their names tells apart, and of
\* members that only where they are called does.
Down(e) == If(Binary("<", X, Number(1)), Number(0), e)
Less(f) == Call(f, <<Binary("-", X, Number(1))>>)

Cliques == Imported(NoTypes,
  [ra |-> Fn(<<<<"x", I64>>>>, I64, Down(Less("rb"))),
   rb |-> Fn(<<<<"x", I64>>>>, I64, Down(Less("rc"))),
   rc |-> Fn(<<<<"x", I64>>>>, I64, Down(Less("ra"))),
   sa |-> Fn(<<<<"x", I64>>>>, I64, Down(Binary("-", Less("sb"), Less("sc")))),
   sb |-> Fn(<<<<"x", I64>>>>, I64, Down(Binary("-", Less("sa"), Less("sc")))),
   sc |-> Fn(<<<<"x", I64>>>>, I64, Down(Binary("-", Less("sa"), Less("sb"))))])

\* A record and an enum whose members come and go: what is not named in a body
\* may, and what a body makes, reads, or has to match may not.
Members == Imported(
  [S |-> RecordOf([k |-> I64, n |-> U8]), F |-> EnumOf([on |-> UnitType, off |-> I64, old |-> Bool])],
  [key   |-> Fn(<<<<"s", Named("S")>>>>, I64, Binary("+", Field(Name("s"), "k"), Number(1))),
   reset |-> Fn(<<<<"s", Named("S")>>>>, Named("S"),
                Let("u", UnitType, Assign(Field(Name("s"), "k"), Number(0)), Name("s"))),
   isOn  |-> Fn(<<<<"f", Named("F")>>>>, I64,
                Case(Name("f"), <<<<Variant("off", Bind), "x", X>>, <<Default, "", Number(1)>>>>)),
   turn  |-> Fn(<<<<"x", I64>>>>, Named("F"), Construct(Named("F"), "off", X)),
   set   |-> Fn(<<<<"a", ArrayOf(I64, 2)>>, <<"x", I64>>>>, ArrayOf(I64, 2),
                Let("u", UnitType, Assign(Index(Name("a"), X), Number(3)), Name("a")))])

\* Arrays within a record, made, read at an index that may be out of them,
\* copied with another element, and folded over.
Vec2 == ArrayOf(I64, 2)
G    == Name("g")
A    == Name("a")

Arrays == Imported([G |-> RecordOf([cells |-> Vec2])],
  [at     |-> Fn(<<<<"a", Vec2>>, <<"x", I64>>>>, I64, Index(A, X)),
   put    |-> Fn(<<<<"x", I64>>>>, Named("G"),
                 Record(<<"cells">>, <<Call("array_set", <<Fill(X, 2), X, Binary("/", Number(2), X)>>)>>)),
   total  |-> Fn(<<<<"g", Named("G")>>, <<"x", I64>>>>, I64,
                 Fold("x", "t", Field(G, "cells"), X, Binary("-", T, X))),
   read   |-> Fn(<<<<"x", I64>>>>, I64,
                 Let("g", Named("G"), Call("put", <<X>>),
                     Binary("-", Index(Field(G, "cells"), Binary("-", X, Number(1))),
                                 Call("total", <<G, Call("at", <<Field(G, "cells"), X>>)>>)))),
   narrow |-> Fn(<<<<"x", I64>>>>, U8,
                 Let("a", ArrayOf(U8, 2), Array(<<Number(1), Call("to_u8", <<X>>)>>), Index(A, Call("to_i64", <<Index(A, Number(0))>>))))])

\* A local of the callee under the name of a parameter of the caller.
Shadows == Imported(NoTypes,
  [add  |-> Fn(<<<<"x", I64>>>>, I64, Let("t", I64, Number(1), Binary("+", X, T))),
   call |-> Fn(<<<<"t", I64>>>>, I64, Call("add", <<T>>))])

\* What a call keeps from its caller: an early return, an assignment to a
\* parameter, the width of a literal.
Boundaries == Imported(NoTypes,
  [sign |-> Fn(<<<<"x", I64>>>>, I64,
               Let("y", I64, If(Binary("<", X, Number(0)), Return(Number(0)), Number(1)),
                   If(Binary("<", X, Y), Return(X), Y))),
   bump |-> Fn(<<<<"x", I64>>>>, I64, Let("u", UnitType, Assign(X, Binary("+", X, Number(1))), X)),
   full |-> Fn(<<>>, U8, Number(3)),
   uses |-> Fn(<<<<"x", I64>>>>, I64,
               Let("y", I64, Call("sign", <<X>>), Binary("+", Binary("*", Y, Number(2)), Number(1)))),
   also |-> Fn(<<<<"t", I64>>>>, I64, Binary("-", Call("bump", <<T>>), T)),
   wraps |-> Fn(<<>>, Bool, Binary("<", Binary("+", Call("full", <<>>), Call("full", <<>>)), Call("full", <<>>)))])

MCPrograms    == {Records, Enums, Locals, Boundaries, Members, Groups, Cliques, Arrays}
MCBoundaries  == {Boundaries}
MCShadows     == {Shadows}
MCRenames     == {[kind |-> "record", type |-> "R", old |-> "a", new |-> "c"],
                  [kind |-> "record", type |-> "R", old |-> "b", new |-> "a"],
                  [kind |-> "enum", type |-> "Opt", old |-> "some", new |-> "just"],
                  [kind |-> "enum", type |-> "Nest", old |-> "end", new |-> "some"],
                  [kind |-> "record", type |-> "G", old |-> "cells", new |-> "all"],
                  [kind |-> "record", type |-> "S", old |-> "k", new |-> "n"],
                  [kind |-> "enum", type |-> "F", old |-> "off", new |-> "old"]}
MCAdditions   == {[type |-> "R", name |-> "c", of |-> I64], [type |-> "Opt", name |-> "two", of |-> I64],
                  [type |-> "S", name |-> "k", of |-> I64], [type |-> "S", name |-> "m", of |-> Bool],
                  [type |-> "F", name |-> "mid", of |-> U8]}
MCRemovals    == {[type |-> "R", name |-> "b"], [type |-> "Nest", name |-> "end"],
                  [type |-> "S", name |-> "k"], [type |-> "S", name |-> "n"],
                  [type |-> "F", name |-> "off"], [type |-> "F", name |-> "old"]}
MCLiterals    == {<<Number(2), Number(3)>>, <<Number(1), Truth(TRUE)>>}
MCExtractions == {[from |-> <<"binary", "+">>, name |-> "made"], [from |-> <<"int", 2>>, name |-> "made"]}
MCRetargets   == {<<"square", "next">>, <<"deep", "wrap">>, <<"first", "width">>}
MCParameters  == {[of |-> "square", name |-> "y", type |-> I64, default |-> Number(1)],
                  [of |-> "mk", name |-> "t", type |-> U8, default |-> Number(1)],
                  [of |-> "wrap", name |-> "x", type |-> I64, default |-> Number(1)],
                  [of |-> "full", name |-> "z", type |-> U8, default |-> Number(0)]}
MCArgInts == {-2, 0, 1}
MCNameOrder == <<"F", "G", "Nest", "Opt", "R", "S",
                 "add", "also", "at", "both", "bump", "call", "deep", "early", "first", "full", "isOn", "key", "made",
                 "mixed", "mk", "narrow", "next", "pick", "put", "ra", "rb", "rc", "read", "reset", "sa", "sb", "sc",
                 "set", "sign", "square", "sum", "total", "turn", "twice", "uses", "width", "wrap", "wraps">>
=============================================================================
