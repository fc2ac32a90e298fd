------------------------- MODULE MCCompiledFunction ------------------------
(***************************************************************************)
(* Families of small functions for CompiledFunction: every combination of   *)
(* a few statements that move, borrow, assign and drop the same parameters.  *)
(* A called function takes what it is given: Eat stands for any of them.     *)
(***************************************************************************)
EXTENDS CompiledFunctionProperties

Holder == Rec([inner |-> Box(Scalar), n |-> Scalar])
Two    == Rec([a |-> Box(Scalar), b |-> Box(Scalar)])
Option == Enum([some |-> Box(Scalar), none |-> Scalar])

MCParamType ==
  [p |-> Box(Scalar), h |-> Box(Holder), k |-> Box(Holder), r |-> Two, o |-> Option,
   s |-> Buffer, m |-> Ref(TRUE, Holder), t |-> Rec("[0]" :> Box(Scalar) @@ "[1]" :> Box(Scalar))]
MCParams == DOMAIN MCParamType

Par(x)  == Name(x, MCParamType[x])
Own(x)  == Name(x, Box(Scalar))
Eat(e)  == Call(<<e>>, Scalar)
Look(e) == Eat(Borrow(FALSE, e))
Edit(e) == Eat(Borrow(TRUE, e))
NewBox  == BoxNew(Lit)
Fields(fs, vs)  == Record([i \in DOMAIN fs |-> [name |-> fs[i], value |-> vs[i]]])
NewHolder       == BoxNew(Fields(<<"inner", "n">>, <<NewBox, Lit>>))
Pair(v, w)      == Fields(<<"a", "b">>, <<v, w>>)
Some(e)         == Construct(Option, "some", e)
Match(e, x, b, c) == Case(e, <<Arm("some", x, b), Arm("none", Unbound, c)>>)
Of(params, bodies) == {[params |-> params, body |-> b] : b \in bodies}

-----------------------------------------------------------------------------
\* A box of a record, moved in part on one path and not on another, and left
\* by a return.
Inner == Field(Par("h"), "inner")
Parts == {Lit, Eat(Inner), Assign(Inner, NewBox), Edit(Inner)}
Wholes == {Eat(Par("h")), Assign(Par("h"), NewHolder), Look(Par("h"))}
Partial ==
  Of(<<"h">>,
     {Binary(a, If(Lit, b, c)) : a \in Parts \cup Wholes, b \in Parts \cup Wholes, c \in Parts \cup Wholes}
     \cup {Binary(a, If(Lit, Return(b), c)) : a \in Wholes, b \in Wholes, c \in Parts})

\* An enum of which an arm takes the payload.
Arms(x) ==
  {Eat(Par("p")), Assign(Par("p"), NewBox), Assign(Par("o"), Some(Par("p"))),
   Match(Par("o"), x, Eat(Own(x)), Lit), Match(Par("o"), x, Assign(Par("p"), Own(x)), Lit),
   Match(Par("o"), Unbound, Lit, Eat(Par("p"))),
   Case(Par("o"), <<Arm("none", Unbound, Eat(Par("p"))), Arm(Default, Unbound, Lit)>>)}
Matched == Of(<<"p", "o">>, {Binary(a, If(Lit, b, c)) : a \in Arms("x"), b \in Arms("y"), c \in Arms("z")}
                            \cup {Binary(a, b) : a \in Arms("x"), b \in Arms("y")})

\* Values that are moved through lets, branches and arms into what takes two.
Values(x) ==
  LET Of1(e) == {Let(x, e, Own(x)), If(Lit, e, NewBox), Match(Par("o"), x, Own(x), e)}
  IN  {Par("p"), Field(Par("r"), "a"), Call(<<Par("p")>>, Box(Scalar))}
      \cup Of1(Par("p")) \cup Of1(Field(Par("r"), "a"))
      \cup {Let(x, NewBox, If(Lit, Own(x), Par("p"))), Let(x, Par("p"), NewBox)}
Uses(v, w) ==
  {Call(<<v, w>>, Scalar), Let("y", v, Let("z", w, Eat(Own("y")))), Let("y", v, If(Lit, w, Own("y"))),
   Let("y", Pair(v, w), Eat(Field(Name("y", Two), "a"))),
   Binary(Assign(Par("p"), v), Assign(Field(Par("r"), "b"), w)), Eat(Unbox(BoxNew(Pair(v, w)))),
   Let("y", v, Binary(Assign(Own("y"), w), Eat(Own("y"))))}
Valued == Of(<<"p", "r", "o">>, UNION {Uses(v, w) : v \in Values("x1"), w \in Values("x2")})

\* A reference in a local while what it points to, or might, is used.
Loans(mut) ==
  {Borrow(mut, Par("h")), Call(<<Borrow(mut, Par("h"))>>, Ref(mut, Holder)),
   If(Lit, Borrow(mut, Par("h")), Borrow(mut, Par("k")))}
  \cup (IF mut THEN {Par("m")} ELSE {})
Touches(y, T) ==
  {Eat(Inner), Assign(Inner, NewBox), Assign(Par("h"), NewHolder), Look(Par("h")), Edit(Inner),
   Eat(Par("m")), Eat(Name(y, T)), Field(Name(y, T), "n"), Assign(Name(y, T), Borrow(T.mut, Par("k"))),
   Call(<<Par("m"), Borrow(TRUE, Par("h"))>>, Scalar), Call(<<Borrow(TRUE, Par("h")), Borrow(FALSE, Inner)>>, Scalar),
   Call(<<Inner, Borrow(FALSE, Field(Par("h"), "n"))>>, Scalar)}
Lending ==
  Of(<<"h", "m", "k">>,
     UNION {LET T == Ref(mut, Holder)
            IN  {Let("y", v, body) : v \in Loans(mut), body \in
                   {Binary(a, b) : a \in Touches("y", T), b \in Touches("y", T)}
                   \cup {If(Lit, a, b) : a \in {Eat(Par("m"))}, b \in Touches("y", T)}} : mut \in BOOLEAN}
     \cup {Par("m"), Borrow(TRUE, Par("h")), Call(<<Par("m"), Borrow(TRUE, Par("h"))>>, Ref(TRUE, Holder)),
           If(Lit, Par("m"), Borrow(TRUE, Par("k"))), Let("y", Par("m"), Name("y", Ref(TRUE, Holder)))})

\* Loops whose body makes, passes on or loses the accumulator.
Grown(x) == Let("u", BufferPush(Name(x, Buffer), BufferLen(Par("s"))), Name(x, Buffer))
BoxTurns(x) ==
  {Own(x), NewBox, Par("p"), Let("u", Eat(Own(x)), NewBox), Let("u", NewBox, Own(x)),
   Let("u", Assign(Par("p"), Own(x)), NewBox), If(Lit, Own(x), NewBox), If(Lit, Return(Lit), Own(x)),
   If(Lit, Let("u", Eat(Own(x)), NewBox), Let("v", Assign(Own(x), NewBox), Own(x)))}
Conditions == {Lit, Eat(Par("p")), Look(Par("p")), Look(Own("x")), Binary(Assign(Par("p"), NewBox), Lit)}
Loops == {Loop("x", i, c, b) : i \in {NewBox, Par("p")}, c \in Conditions, b \in BoxTurns("x")}
         \cup {Loop("x", i, Lit, b) : i \in {BufferNew, Par("s")}, b \in {Grown("x"), Par("s"), BufferNew}}
Looping == Of(<<"p", "s">>, {Eat(e) : e \in Loops} \cup {Binary(Eat(e), Look(Par("p"))) : e \in Loops})

\* Elements of an array, known or not when compiling.
At0 == Field(Par("t"), "[0]")
AtI == Element(Par("t"))
Elements == {Eat(At0), Eat(AtI), Assign(At0, NewBox), Assign(AtI, NewBox), Look(AtI), Eat(Par("t")),
             Call(<<Borrow(TRUE, AtI), Borrow(FALSE, At0)>>, Scalar)}
Indexed == Of(<<"t">>, {Binary(a, If(Lit, b, c)) : a \in Elements, b \in Elements, c \in Elements})

MCPrograms == Partial \cup Matched \cup Valued \cup Lending \cup Looping \cup Indexed

-----------------------------------------------------------------------------
\* A reference to a parameter that another return than the last one returns.
Referring == Of(<<"h", "m">>, {Let("u", If(Lit, Return(Borrow(TRUE, Par("h"))), Lit), Par("m"))})

TheCompiler == INSTANCE Compiler WITH Params <- MCParams, ParamType <- MCParamType
MCCompiled  == LET all == MCPrograms \cup Referring
               IN  [f \in all |-> TheCompiler!Compile(f)]
=============================================================================
