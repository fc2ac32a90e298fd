----------------------------- MODULE TypedExprs -----------------------------
(***************************************************************************)
(* The typed expressions the borrow rules and the lowering both read       *)
(* (src/src/expr.rs, the payloads of src/src/types.rs), and the value       *)
(* class of a type (src/src/layout.rs).                                     *)
(*                                                                         *)
(* A type is a record tagged by `is`: "int" (every scalar), "buffer" (vec   *)
(* and string), "box" and "ref" (of one type), "record" and "enum" (of a    *)
(* function from field or variant names to types).  An expression is a      *)
(* record tagged by its kind, with its declared type.  Every binder of a    *)
(* program has a name of its own, so a name stands for the de Bruijn index  *)
(* of the code; an array element at a constant index is a field "[n]".      *)
(***************************************************************************)
EXTENDS Naturals, SequencesExt

CONSTANT Params     \* the names bound by the function's signature

-----------------------------------------------------------------------------
Scalar    == [is |-> "int"]
Buffer    == [is |-> "buffer"]
Box(T)    == [is |-> "box", of |-> T]
Rec(F)    == [is |-> "record", of |-> F]
Enum(V)   == [is |-> "enum", of |-> V]
Ref(m, T) == [is |-> "ref", mut |-> m, of |-> T]

RECURSIVE MoveOnly(_)
MoveOnly(T) ==
  \/ T.is \in {"box", "buffer"}
  \/ T.is = "ref" /\ T.mut
  \/ T.is \in {"record", "enum"} /\ \E f \in DOMAIN T.of : MoveOnly(T.of[f])

RECURSIVE ContainsReference(_)
ContainsReference(T) ==
  \/ T.is = "ref"
  \/ T.is = "box" /\ ContainsReference(T.of)
  \/ T.is \in {"record", "enum"} /\ \E f \in DOMAIN T.of : ContainsReference(T.of[f])

-----------------------------------------------------------------------------
\* A field access on a box or a reference goes through to what it holds.
AutoDeref(T) == IF T.is \in {"box", "ref"} THEN T.of ELSE T

Lit              == [is |-> "literal", type |-> Scalar]
Name(x, T)       == [is |-> "name", name |-> x, type |-> T]
Field(e, f)      == [is |-> "field", target |-> e, field |-> f, type |-> AutoDeref(e.type).of[f]]
Call(es, T)      == [is |-> "call", args |-> es, type |-> T]
Binary(a, b)     == [is |-> "binary", args |-> <<a, b>>, type |-> Scalar]
Borrow(m, e)     == [is |-> "borrow", mut |-> m, target |-> e,
                     type |-> Ref(m, IF e.type.is = "box" THEN e.type.of ELSE e.type)]
BoxNew(e)        == [is |-> "box_new", value |-> e, type |-> Box(e.type)]
Unbox(e)         == [is |-> "unbox", value |-> e, type |-> e.type.of]
BufferNew        == [is |-> "buffer_new", type |-> Buffer]
BufferPush(b, e) == [is |-> "buffer_push", target |-> b, value |-> e, type |-> Scalar]
BufferLen(b)     == [is |-> "buffer_len", target |-> b, type |-> Scalar]
Assign(p, e)     == [is |-> "assign", target |-> p, value |-> e, type |-> Scalar]
Let(x, e, b)     == [is |-> "let", name |-> x, value |-> e, body |-> b, type |-> b.type]
Return(e)        == [is |-> "return", value |-> e, type |-> e.type]
Record(fs)       == [is |-> "record", fields |-> fs,
                     type |-> Rec([f \in {fs[i].name : i \in DOMAIN fs} |->
                                     fs[CHOOSE i \in DOMAIN fs : fs[i].name = f].value.type])]
Construct(T, v, e) == [is |-> "enum", variant |-> v, value |-> e, type |-> T]
Loop(x, e, c, b) == [is |-> "loop", acc |-> x, init |-> e, cond |-> c, body |-> b, type |-> e.type]

\* An element at an index that is not known when compiling.
AnyIndex     == "[*]"
Element(e)   == [is |-> "field", target |-> e, field |-> AnyIndex, type |-> AutoDeref(e.type).of["[0]"]]

\* An arm binds the payload of its variant to a name, or leaves it unbound;
\* a default arm takes the variants no other does.
Unbound      == ""
Default      == "_"
Arm(v, x, b) == [variant |-> v, name |-> x, body |-> b]

-----------------------------------------------------------------------------
\* Whether the expression exits the function on every path.
RECURSIVE Diverges(_)
Diverges(e) ==
  \/ e.is = "return"
  \/ e.is = "if"   /\ Diverges(e.then) /\ Diverges(e.else)
  \/ e.is = "case" /\ \A i \in DOMAIN e.arms : Diverges(e.arms[i].body)
  \/ e.is = "let"  /\ Diverges(e.body)

\* The type of a conditional is the one of its branches that reach the join.
JoinType(es) == LET live == SelectSeq(es, LAMBDA e : ~Diverges(e))
                IN  IF live = <<>> THEN es[1].type ELSE live[1].type

If(c, a, b)   == [is |-> "if", cond |-> c, then |-> a, else |-> b, type |-> JoinType(<<a, b>>)]
Case(e, arms) == [is |-> "case", on |-> e, arms |-> arms,
                  type |-> JoinType([i \in DOMAIN arms |-> arms[i].body])]

-----------------------------------------------------------------------------
\* The parts an expression evaluates for their value, in order: a return may
\* not stand there, unless a branch inside grants the position again.
Operands(e) ==
  CASE e.is \in {"call", "binary"}                -> e.args
    [] e.is \in {"box_new", "unbox", "return", "enum", "let"} -> <<e.value>>
    [] e.is \in {"borrow", "buffer_len", "field"} -> <<e.target>>
    [] e.is \in {"buffer_push", "assign"}         -> <<e.target, e.value>>
    [] e.is = "record"                            -> [i \in DOMAIN e.fields |-> e.fields[i].value]
    [] e.is = "loop"                              -> <<e.init, e.cond, e.body>>
    [] e.is = "if"                                -> <<e.cond>>
    [] e.is = "case"                              -> <<e.on>>
    [] OTHER                                      -> <<>>

\* The parts whose value is the value of the whole.
Blocks(e) == CASE e.is = "let"  -> <<e.body>>
               [] e.is = "if"   -> <<e.then, e.else>>
               [] e.is = "case" -> [i \in DOMAIN e.arms |-> e.arms[i].body]
               [] OTHER         -> <<>>

RECURSIVE ReturnsPlaced(_, _)
ReturnsPlaced(e, allowed) ==
  /\ e.is = "return" => allowed
  /\ \A i \in DOMAIN Operands(e) : ReturnsPlaced(Operands(e)[i], FALSE)
  /\ \A i \in DOMAIN Blocks(e) : ReturnsPlaced(Blocks(e)[i], TRUE)
=============================================================================
