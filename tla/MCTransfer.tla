----------------------------- MODULE MCTransfer -----------------------------
(***************************************************************************)
(* One function with two bodies and a test.  It takes a box or a vec.      *)
(***************************************************************************)
EXTENDS TransferProperties

Empty == <<"root", 0, FALSE>>
MCRoots == {Empty} \cup {<<"root", body, test>> : body \in 1 .. 2, test \in BOOLEAN}
Built == MCRoots \ {Empty}

\* Objects are named by what they are.
Object(name) == <<name, 0, FALSE>>
Birth == Object("birth")
Sig == Object("sig")
Param == Object("param")
Elem == Object("u16")
Ret == Object("u64")
Iface == Object("iface")
Test == Object("test")
Def(body) == <<"def", body, FALSE>>
Expr(body) == <<"expr", body, FALSE>>
MCObjects == MCRoots \cup {Birth, Sig, Param, Elem, Ret, Iface, Test}
             \cup {Def(b) : b \in 1 .. 2} \cup {Expr(b) : b \in 1 .. 2}
MCBuiltins == {Elem, Ret}

KindWith(param) ==
  [o \in MCObjects |->
     CASE o \in MCRoots -> "ProgramRoot" [] o = Birth -> "SymbolBirth" [] o = Sig -> "FunctionSignature"
       [] o = Param -> param [] o \in MCBuiltins -> "Builtin" [] o = Iface -> "FunctionInterface"
       [] o = Test -> "TestCase" [] o[1] = "def" -> "FunctionDef" [] OTHER -> "Expression"]
BoxKind == KindWith("Box")
VecKind == KindWith("Vec")

MCFields ==
  [o \in MCObjects |->
     CASE o \in Built -> [symbols |-> {Birth}, definitions |-> {Def(o[2])}, signatures |-> {Sig},
                          tests |-> IF o[3] THEN {Test} ELSE {}]
       [] o = Sig -> [params |-> {Param}, return |-> {Ret}]
       [] o = Param -> [element |-> {Elem}]
       [] o = Iface -> [symbol_hash |-> {Birth}, signature_hash |-> {Sig}]
       [] o = Test -> [entry_symbol |-> {Birth}]
       [] o[1] = "def" -> [symbol |-> {Birth}, function_sig_hash |-> {Sig}, typed_body_expr_hash |-> {Expr(o[2])}]
       [] o[1] = "expr" -> [type |-> {Ret}]
       [] OTHER -> [name |-> {}]]
MCInterfaces == [r \in MCRoots |-> IF r = Empty THEN {} ELSE {Iface}]

\* The function is created, its body set, its test created.
MCOps == {[op |-> k] : k \in {"create", "set1", "set2", "test"}}
MCResult(op, r) ==
  CASE op.op = "create" /\ r = Empty -> <<"root", 1, FALSE>>
    [] op.op = "set1" /\ r # Empty -> <<"root", 1, r[3]>>
    [] op.op = "set2" /\ r # Empty -> <<"root", 2, r[3]>>
    [] op.op = "test" /\ r # Empty /\ ~r[3] -> <<"root", r[2], TRUE>>
    [] OTHER -> None
MCEffect == [op \in MCOps |-> [r \in MCRoots |-> MCResult(op, r)]]
MCPre == [op \in MCOps |-> {r \in MCRoots : MCResult(op, r) # None}]
MCPost == [op \in MCOps |-> MCRoots]

\* A merge takes what either side changed of the function as it was created.
MCMerged ==
  [p \in MCRoots \X MCRoots |->
     IF Empty \in {p[1], p[2]} THEN {p[2]}
     ELSE {<<"root", IF p[2][2] = 2 THEN 2 ELSE p[1][2], p[1][3] \/ p[2][3]>>}]

Home == "home"
Away == "away"
MCAgents == [d \in Databases |-> d]
Named(kinds) == {[op |-> k] : k \in kinds}
MCSubmitted ==
  [d \in Databases |->
     [b \in Branches |->
        CASE d = Home /\ b = Main -> Named({"create", "set1", "set2"})
          [] d = Home -> Named({"set2", "test"})
          [] OTHER -> Named({"create", "test"})]]
MCMaxEdits == [d \in Databases |-> IF d = Home THEN 4 ELSE 1]
=============================================================================
