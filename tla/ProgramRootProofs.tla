------------------------- MODULE ProgramRootProofs -------------------------
(***************************************************************************)
(* Proofs about a branch under semantic operations: what every root of it  *)
(* is, and what each operation promises the agent that submits it.         *)
(*                                                                         *)
(* The postconditions of an operation hold once its preconditions held and *)
(* its handler succeeded, and submitting it again changes nothing more.    *)
(* Most operations settle because their postconditions refute their own    *)
(* preconditions.  The others rebuild, from the root they made, that same  *)
(* root: a body that is read, written out and read again is the same body. *)
(***************************************************************************)
EXTENDS ProgramRootProperties, OperationProofs

(***************************************************************************)
(* The invariant.                                                          *)
(***************************************************************************)
Inv ==
    /\ births \in 0 .. MaxBirths
    /\ RootInv(root, births)
    /\ Listing(root)

(* The empty program satisfies the invariant (ensure_initialized).         *)
LEMMA InitInv == Init => Inv
BY EmptyRootInv, BoundsAssumption DEF Init, Inv

(* What a recorded operation does: its handler's root becomes the          *)
(* branch's.                                                               *)
LEMMA AppliedRoot ==
    ASSUME NEW op, Apply(op)
    PROVE  /\ root' \in Handle(root, births, op)
           /\ births' = births + Newborn(op)
           /\ births' <= MaxBirths
BY DEF Apply, Accepted

(* Every operation keeps the invariant, and all but new bodies keep whom   *)
(* each function calls.                                                    *)
LEMMA NextInv ==
    ASSUME Inv, Next
    PROVE  Inv' /\ (SameCalls(root, root') \/ ReplaceFunctionBody)
<1>1. RootInv(root, births) /\ Listing(root) /\ births \in Nat
    BY BoundsAssumption DEF Inv
<1>2. PICK op \in EditOps(root) \cup CreateGroupOps :
          Apply(op) /\ (op.op = "replace_function_body" => ReplaceFunctionBody)
  <2>1. \A op : op \in CreateGroupOps => op.op = "create_recursion_group"
    BY DEF CreateGroupOps
  <2>2. CASE ReplaceFunctionBody
    BY <2>2 DEF ReplaceFunctionBody, EditOps
  <2>3. CASE CreateRecursionGroup
    BY <2>1, <2>3 DEF CreateRecursionGroup
  <2>4. CASE ~ReplaceFunctionBody /\ ~CreateRecursionGroup
    <3>1. PICK op \in EditOps(root) : Apply(op)
      BY <2>4 DEF Next, EditOps, CreateFunction, CreateExternalFunction, RenameSymbol,
         MoveSymbol, CreateAlias, RemoveAlias, ChangeFunctionSignature, AddParameter,
         DeleteSymbol, SetExport, RemoveExport, CreateTest, DeleteTest
    <3>2. op.op = "replace_function_body" => op \in ReplaceBodyOps(root)
      BY DEF EditOps, CreateFunctionOps, CreateExternalOps, RenameOps, MoveOps,
         ChangeSignatureOps, AddParameterOps, DeleteOps, CreateAliasOps,
         RemoveAliasOps, SetExportOps, RemoveExportOps, CreateTestOps, DeleteTestOps
    <3> QED
      BY <3>1, <3>2 DEF ReplaceFunctionBody
  <2> QED
    BY <2>2, <2>3, <2>4
<1>3. /\ root' \in Handle(root, births, op)
      /\ births' = births + Newborn(op) /\ births' <= MaxBirths
    BY <1>2, AppliedRoot
<1>4. /\ births + Newborn(op) \in Nat
      /\ RootInv(root', births + Newborn(op))
      /\ Listing(root')
      /\ SameCalls(root, root') \/ op.op = "replace_function_body"
    BY <1>1, <1>3, HandleKeepsInv
<1> QED
    BY <1>2, <1>3, <1>4, BoundsAssumption DEF Inv

(* The invariant holds always.                                             *)
LEMMA InvHolds == Spec => []Inv
<1>1. Inv /\ UNCHANGED vars => Inv'
    BY DEF Inv, vars
<1>2. Inv /\ [Next]_vars => Inv'
    BY <1>1, NextInv
<1> QED
    BY <1>2, InitInv, PTL DEF Spec

(***************************************************************************)
(* The theorems.                                                           *)
(***************************************************************************)
(* Roots and their parts keep their types, whatever is created, renamed    *)
(* and rewritten (ProgramRootPayload).                                     *)
THEOREM TypeCorrect == Spec => []TypeOK
<1>1. Inv => TypeOK
    BY DEF Inv, RootInv, ShapeInv, TypeOK
<1> QED
    BY <1>1, InvHolds, PTL

(* Names identify after any sequence of operations: see NamesResolve.      *)
THEOREM NamesAlwaysResolve == Spec => []NamesResolve
<1>1. Inv => NamesResolve
    BY DEF Inv, RootInv, ShapeInv, NamesIdentify, NamesResolve
<1> QED
    BY <1>1, InvHolds, PTL

(* Every root that a branch points at type checks, although some handlers  *)
(* store theirs unchecked: see StoredRootsCheck.                           *)
THEOREM EveryRootChecks == Spec => []StoredRootsCheck
<1>1. Inv => StoredRootsCheck
    BY DEF Inv, RootInv, StoredRootsCheck
<1> QED
    BY <1>1, InvHolds, PTL

(* The modules metadata leaves no module out (synchronize_module_metadata).*)
THEOREM ModulesAreListed == Spec => []ModulesListed
<1>1. Inv => ModulesListed
    BY DEF Inv, Listing, ModulesListed
<1> QED
    BY <1>1, InvHolds, PTL

(* Only a new body changes whom a function calls: re-elaboration through   *)
(* display names finds the same symbols (apply_change_signature,           *)
(* apply_add_parameter).                                                   *)
THEOREM CallGraphIsKept == Spec => CallGraphKept
<1>1. Inv /\ Next => SameCalls(root, root') \/ ReplaceFunctionBody
    BY NextInv
<1>2. Inv /\ [Next]_vars =>
        [\/ \A s \in DOMAIN root.defs \cap DOMAIN root'.defs :
              {c.callee : c \in root'.defs[s].calls} =
              {c.callee : c \in root.defs[s].calls}
         \/ ReplaceFunctionBody]_vars
    BY <1>1 DEF SameCalls, Called
<1> QED
    BY <1>2, InvHolds, PTL DEF Spec, CallGraphKept

(* Bodies survive being written out and read again: see BodiesRoundTrip.   *)
THEOREM BodiesAlwaysRoundTrip == Spec => []BodiesRoundTrip
<1>1. Inv => BodiesRoundTrip
  <2>1. SUFFICES ASSUME Inv, NEW s \in DOMAIN root.defs, NEW m \in Modules
                 PROVE  LET def == root.defs[s]
                            body == Render(root, m, def.calls)
                        IN  /\ Elaborates(root, m, body)
                            /\ Callees(Elaborate(root, m, def.kind, body)) =
                               Callees(def.calls)
    BY DEF BodiesRoundTrip
  <2> DEFINE def == root.defs[s]
             written(c) ==
                LET b == PreferredBinding(root.names, c.callee)
                IN  [module |-> IF b.module = m THEN Here ELSE b.module,
                     name |-> b.name, args |-> c.args]
             found(raw) == Resolve(root.names, Target(m, raw), raw.name)
             read(raw) == [callee |-> found(raw), args |-> raw.args,
                           at |-> TypedAt(def.kind, root.defs[found(raw)].kind)]
             body == {written(c) : c \in def.calls}
             E == {read(raw) : raw \in body}
  <2>2. RootInv(root, births)
    BY <2>1 DEF Inv
  <2>3. IsRoot(root) /\ UniqueNames(root) /\ OnePreferred(root)
    BY <2>2 DEF RootInv, ShapeInv, NamesIdentify
  <2>4. \A c \in def.calls : /\ c.callee \in DOMAIN root.defs
                             /\ c.callee[1] = "born"
                             /\ Len(root.defs[c.callee].params) = c.args
    BY <2>2, CallsKnown DEF RootInv, TypeChecks, CallChecks
  <2>5. \A c \in def.calls :
           /\ ~Available(root.names, Target(m, written(c)), written(c).name)
           /\ found(written(c)) = c.callee
           /\ written(c).args = c.args
    BY <2>3, <2>4, CallRoundTrip
  <2>6. \A c \in def.calls :
           read(written(c)).callee = c.callee /\ read(written(c)).args = c.args
    BY <2>5
  <2>7. Render(root, m, def.calls) = body
    BY DEF Render
  <2>8. Elaborate(root, m, def.kind, body) = E
    BY DEF Elaborate
  <2> HIDE DEF written, read
  <2>9. Elaborates(root, m, body)
    BY <2>4, <2>5 DEF Elaborates
  <2>10. Callees(E) = Callees(def.calls)
    BY <2>6 DEF Callees
  <2> QED
    BY <2>7, <2>8, <2>9, <2>10
<1> QED
    BY <1>1, InvHolds, PTL

(***************************************************************************)
(* Bodies.                                                                 *)
(***************************************************************************)
(* How a body is written depends on whom it calls and with how many        *)
(* arguments, not on how the calls were typed (render_expr).               *)
LEMMA SameWriting ==
    ASSUME NEW r, NEW here, NEW A, NEW B, Callees(A) = Callees(B)
    PROVE  Render(r, here, A) = Render(r, here, B)
<1> DEFINE written(d) ==
        LET b == PreferredBinding(r.names, d.callee)
        IN  [module |-> IF b.module = here THEN Here ELSE b.module,
             name |-> b.name, args |-> d.args]
           plain(c) == [callee |-> c.callee, args |-> c.args]
<1>1. \A calls : Render(r, here, calls) = {written(plain(c)) : c \in calls}
    BY DEF Render
<1>2. \A calls : Callees(calls) = {plain(c) : c \in calls}
    BY DEF Callees
<1> HIDE DEF written, plain
<1>3. \A calls : Render(r, here, calls) = {written(d) : d \in Callees(calls)}
    BY <1>1, <1>2
<1>4. Render(r, here, A) = {written(d) : d \in Callees(A)}
    BY <1>3
<1>5. Render(r, here, B) = {written(d) : d \in Callees(B)}
    BY <1>3
<1> QED
    BY <1>4, <1>5

(* A body that is written out and read again calls the same functions with *)
(* as many arguments.                                                      *)
LEMMA RereadCallees ==
    ASSUME NEW r, IsRoot(r), UniqueNames(r), OnePreferred(r),
           NEW here, NEW kind, NEW calls,
           \A c \in calls : c.callee \in DOMAIN r.defs /\ c.callee[1] = "born"
    PROVE  Callees(Elaborate(r, here, kind, Render(r, here, calls))) = Callees(calls)
<1> DEFINE written(c) ==
        LET b == PreferredBinding(r.names, c.callee)
        IN  [module |-> IF b.module = here THEN Here ELSE b.module,
             name |-> b.name, args |-> c.args]
           found(raw) == Resolve(r.names, Target(here, raw), raw.name)
           read(raw) == [callee |-> found(raw), args |-> raw.args,
                         at |-> TypedAt(kind, r.defs[found(raw)].kind)]
<1>1. Render(r, here, calls) = {written(c) : c \in calls}
    BY DEF Render
<1>2. Elaborate(r, here, kind, Render(r, here, calls)) =
        {read(raw) : raw \in Render(r, here, calls)}
    BY DEF Elaborate
<1>3. \A c \in calls : found(written(c)) = c.callee /\ written(c).args = c.args
    BY CallRoundTrip
<1>4. \A c \in calls :
         read(written(c)).callee = c.callee /\ read(written(c)).args = c.args
    BY <1>3
<1> HIDE DEF written, read
<1>5. Elaborate(r, here, kind, Render(r, here, calls)) =
        {read(written(c)) : c \in calls}
    BY <1>1, <1>2
<1> QED
    BY <1>4, <1>5 DEF Callees

(* A body is read alike in two roots that agree on names and on the kinds  *)
(* of their definitions.                                                   *)
LEMMA ReadAlike ==
    ASSUME NEW r, NEW q, q.names = r.names,
           \A s \in DOMAIN r.defs : q.defs[s].kind = r.defs[s].kind,
           NEW here, NEW kind, NEW body, Elaborates(r, here, body)
    PROVE  Elaborate(q, here, kind, body) = Elaborate(r, here, kind, body)
<1> DEFINE found(raw) == Resolve(r.names, Target(here, raw), raw.name)
           read(x, raw) == [callee |-> found(raw), args |-> raw.args,
                            at |-> TypedAt(kind, x.defs[found(raw)].kind)]
<1>1. \A raw \in body : found(raw) \in DOMAIN r.defs
    BY DEF Elaborates
<1> HIDE DEF found
<1>2. \A raw \in body : read(q, raw) = read(r, raw)
    BY <1>1
<1>3. /\ Elaborate(q, here, kind, body) = {read(q, raw) : raw \in body}
      /\ Elaborate(r, here, kind, body) = {read(r, raw) : raw \in body}
    BY DEF Elaborate, found
<1> HIDE DEF read
<1>4. {read(q, raw) : raw \in body} = {read(r, raw) : raw \in body}
    BY <1>2
<1> QED
    BY <1>3, <1>4

(* Giving a rebuilt root's definition what it already is changes nothing.  *)
LEMMA SameDefinition ==
    ASSUME NEW r, IsRoot(r), NEW changed, NEW q, q = WithDefs(r, changed),
           NEW s \in DOMAIN q.defs
    PROVE  WithDef(q, s, q.defs[s]) = q
<1> DEFINE F == [t \in DOMAIN r.defs \cup DOMAIN changed |->
                    IF t \in DOMAIN changed THEN changed[t] ELSE r.defs[t]]
           more == [t \in {s} |-> q.defs[s]]
           D == [t \in DOMAIN q.defs \cup DOMAIN more |->
                    IF t \in DOMAIN more THEN more[t] ELSE q.defs[t]]
<1>1. q = [r EXCEPT !.defs = F]
    BY DEF WithDefs
<1>2. F = [t \in DOMAIN F |-> F[t]]
    OBVIOUS
<1> HIDE DEF F
<1>3. /\ q = [defs |-> F, names |-> q.names, exports |-> q.exports,
              tests |-> q.tests, listed |-> q.listed]
      /\ q.defs = F
    BY <1>1 DEF IsRoot
<1>4. DOMAIN more = {s} /\ more[s] = q.defs[s]
    OBVIOUS
<1>5. WithDef(q, s, q.defs[s]) = [q EXCEPT !.defs = D]
    BY DEF WithDef, WithDefs
<1> HIDE DEF more
<1>6. D = [t \in DOMAIN F |-> F[t]]
    BY <1>3, <1>4
<1> HIDE DEF D
<1>7. [q EXCEPT !.defs = F] = q
    BY <1>3
<1> QED
    BY <1>2, <1>5, <1>6, <1>7

(***************************************************************************)
(* What a second submission finds.                                         *)
(***************************************************************************)
(* An operation whose preconditions fail is refused (apply_operation).     *)
LEMMA Refused ==
    ASSUME NEW q, NEW n, NEW op, ~Pre(q, op)
    PROVE  Accepted(q, n, op) = {}
BY DEF Accepted

(* The operations that take away, or need to be new, what they name: their *)
(* postconditions refute their preconditions (preconditions_for,           *)
(* postconditions_for).                                                    *)
SelfRefuting(op) ==
    \/ op.op \in {"create_function", "create_external_function",
                  "rename_symbol", "delete_symbol", "create_alias", "remove_alias",
                  "set_export", "remove_export", "create_test", "delete_test"}
    \/ op.op = "create_recursion_group" /\ DOMAIN op.members # {}
    \/ op.op = "move_symbol" /\ op.to # op.on.module

LEMMA PostRefutesPre ==
    ASSUME NEW q, NEW op, SelfRefuting(op), Post(q, op)
    PROVE  ~Pre(q, op)
<1>1. CASE op.op \in {"create_function", "create_external_function"}
    BY <1>1 DEF Pre, Post, FunctionMatches
<1>2. CASE op.op = "create_recursion_group"
    BY <1>2 DEF Pre, Post, FunctionMatches, SelfRefuting
<1>3. CASE op.op \in {"rename_symbol", "move_symbol"}
    BY <1>3 DEF Pre, Post, SelfRefuting, StillPreferred, Prefers, Available
<1>4. CASE op.op = "delete_symbol"
    BY <1>4 DEF Pre, Post, StillNamed, PointsTo, At, BindingsOf
<1>5. CASE op.op = "create_alias"
    BY <1>5 DEF Pre, Post, PointsTo, Available
<1>6. CASE op.op = "remove_alias"
    BY <1>6 DEF Pre, Post, Aliases, Available
<1>7. CASE op.op = "set_export"
    BY <1>7 DEF Pre, Post
<1>8. CASE op.op = "remove_export"
    BY <1>8 DEF Pre, Post
<1>9. CASE op.op = "create_test"
    BY <1>9 DEF Pre, Post
<1>10. CASE op.op = "delete_test"
    BY <1>10 DEF Pre, Post
<1> QED
    BY <1>1, <1>2, <1>3, <1>4, <1>5, <1>6, <1>7, <1>8, <1>9, <1>10 DEF SelfRefuting

(***************************************************************************)
(* The roots that the rewriting operations make.                           *)
(***************************************************************************)
(* Rewritten definitions leave the names alone.                            *)
LEMMA NamesStay ==
    ASSUME NEW r, IsRoot(r), NEW s, NEW def, NEW q, q = WithDef(r, s, def),
           s \in DOMAIN r.defs
    PROVE  /\ q.names = r.names
           /\ DOMAIN q.defs = DOMAIN r.defs
           /\ q.defs[s] = def
           /\ \A t \in DOMAIN r.defs : t # s => q.defs[t] = r.defs[t]
<1> DEFINE more == [t \in {s} |-> def]
<1>1. q = WithDefs(r, more)
    BY DEF WithDef
<1>2. DOMAIN more = {s} /\ more[s] = def
    OBVIOUS
<1> HIDE DEF more
<1>3. /\ q = [defs |-> q.defs, names |-> r.names, exports |-> r.exports,
              tests |-> r.tests, listed |-> r.listed]
      /\ DOMAIN q.defs = DOMAIN r.defs \cup DOMAIN more
      /\ \A t \in DOMAIN q.defs :
            q.defs[t] = IF t \in DOMAIN more THEN more[t] ELSE r.defs[t]
    BY <1>1, WithDefsFields
<1> QED
    BY <1>2, <1>3

(* apply_replace_body: the new definition has the body that was asked for. *)
LEMMA ReplacedBody ==
    ASSUME NEW r, NEW n, RootInv(r, n), NEW op \in ReplaceBodyOps(r),
           NEW q \in ReplaceBodyHandler(r, op)
    PROVE  LET s == op.on.symbol
               calls == Elaborate(r, op.on.module, r.defs[s].kind, op.body)
           IN  /\ q = WithDef(r, s, [r.defs[s] EXCEPT !.calls = calls])
               /\ Elaborates(r, op.on.module, op.body)
               /\ q.names = r.names
               /\ s \in DOMAIN r.defs /\ DOMAIN q.defs = DOMAIN r.defs
               /\ \A t \in DOMAIN r.defs : q.defs[t].kind = r.defs[t].kind
               /\ q.defs[s] \in Definition
               /\ q.defs[s].calls = calls
<1> DEFINE s == op.on.symbol
           calls == Elaborate(r, op.on.module, r.defs[s].kind, op.body)
           def == [r.defs[s] EXCEPT !.calls = calls]
<1>1. /\ s \in DOMAIN r.defs
      /\ Elaborates(r, op.on.module, op.body)
      /\ q \in Checked(WithDef(r, s, def))
    BY DEF ReplaceBodyHandler
<1>2. q = WithDef(r, s, def)
    BY <1>1, StoredIsStorable
<1>3. IsRoot(r)
    BY DEF RootInv, ShapeInv
<1>4. r.defs[s] \in Definition
    BY <1>1, <1>3 DEF IsRoot
<1> HIDE DEF calls
<1>5. def.calls = calls /\ def.kind = r.defs[s].kind
    BY <1>4 DEF Definition
<1> HIDE DEF def
<1>6. /\ q.names = r.names
      /\ DOMAIN q.defs = DOMAIN r.defs
      /\ q.defs[s] = def
      /\ \A t \in DOMAIN r.defs : t # s => q.defs[t] = r.defs[t]
    BY <1>1, <1>2, <1>3, NamesStay
<1>7. RootInv(q, n)
    BY ReplaceBodyKeepsInv
<1>8. q.defs[s] \in Definition
    BY <1>1, <1>6, <1>7 DEF RootInv, ShapeInv, IsRoot
<1> QED
    BY <1>1, <1>2, <1>5, <1>6, <1>8 DEF def, calls

(* A body that was replaced is replaced by itself the second time.         *)
LEMMA ReplacedTwice ==
    ASSUME NEW r, NEW n, RootInv(r, n), NEW op \in ReplaceBodyOps(r),
           NEW q \in ReplaceBodyHandler(r, op)
    PROVE  ReplaceBodyHandler(q, op) \subseteq {q}
<1> DEFINE s == op.on.symbol
           k == r.defs[s].kind
           calls == Elaborate(r, op.on.module, k, op.body)
           changed == [t \in {s} |-> [r.defs[s] EXCEPT !.calls = calls]]
<1>1. /\ q = WithDefs(r, changed)
      /\ Elaborates(r, op.on.module, op.body)
      /\ q.names = r.names
      /\ s \in DOMAIN r.defs /\ DOMAIN q.defs = DOMAIN r.defs
      /\ \A t \in DOMAIN r.defs : q.defs[t].kind = r.defs[t].kind
      /\ q.defs[s] \in Definition
      /\ q.defs[s].calls = calls
    BY ReplacedBody DEF WithDef
<1> HIDE DEF changed
<1>2. Elaborate(q, op.on.module, k, op.body) = calls
    BY <1>1, ReadAlike
<1>3. q.defs[s].kind = k
    BY <1>1
<1>4. IsRoot(r)
    BY DEF RootInv, ShapeInv
<1> HIDE DEF calls, k
<1>5. [q.defs[s] EXCEPT !.calls = calls] = q.defs[s]
    BY <1>1 DEF Definition
<1>6. WithDef(q, s, q.defs[s]) = q
    BY <1>1, <1>4, SameDefinition
<1>7. SUFFICES ASSUME NEW x \in ReplaceBodyHandler(q, op) PROVE x = q
    OBVIOUS
<1>8. x \in Checked(WithDef(q, s, [q.defs[s] EXCEPT !.calls =
                Elaborate(q, op.on.module, q.defs[s].kind, op.body)]))
    BY DEF ReplaceBodyHandler
<1> QED
    BY <1>2, <1>3, <1>5, <1>6, <1>8, StoredIsStorable

(* apply_change_signature: the new definition has the parameters that were *)
(* asked for, and a body that the old signature reads from the old body.   *)
LEMMA NewSignature ==
    ASSUME NEW r, NEW n, RootInv(r, n), NEW op \in ChangeSignatureOps(r),
           NEW q \in ChangeSignatureHandler(r, op)
    PROVE  LET s == op.on.symbol
               body == Render(r, op.on.module, r.defs[s].calls)
               kind == IF r.defs[s].kind = "external" THEN "external" ELSE "function"
               calls == IF r.defs[s].kind = "external" THEN r.defs[s].calls
                        ELSE Elaborate(r, op.on.module, "function", body)
           IN  /\ q = WithDef(r, s, q.defs[s])
               /\ s \in DOMAIN r.defs /\ DOMAIN q.defs = DOMAIN r.defs
               /\ q.names = r.names
               /\ \A t \in DOMAIN r.defs : t # s => q.defs[t] = r.defs[t]
               /\ q.defs[s] = [kind |-> kind, params |-> op.params, calls |-> calls]
               /\ r.defs[s].kind # "external" => Elaborates(r, op.on.module, body)
<1> DEFINE s == op.on.symbol
           body == Render(r, op.on.module, r.defs[s].calls)
           kind == IF r.defs[s].kind = "external" THEN "external" ELSE "function"
           calls == IF r.defs[s].kind = "external" THEN r.defs[s].calls
                    ELSE Elaborate(r, op.on.module, "function", body)
           def == IF r.defs[s].kind = "external" THEN [r.defs[s] EXCEPT !.params = op.params]
                  ELSE [kind |-> "function", params |-> op.params,
                        calls |-> Elaborate(r, op.on.module, "function", body)]
<1>1. /\ s \in DOMAIN r.defs
      /\ r.defs[s].kind # "external" => Elaborates(r, op.on.module, body)
      /\ q \in Checked(WithDef(r, s, def))
    BY DEF ChangeSignatureHandler
<1>2. q = WithDef(r, s, def)
    BY <1>1, StoredIsStorable
<1>3. IsRoot(r)
    BY DEF RootInv, ShapeInv
<1>4. r.defs[s] \in Definition
    BY <1>1, <1>3 DEF IsRoot
<1>5. def = [kind |-> kind, params |-> op.params, calls |-> calls]
    BY <1>4 DEF Definition
<1> HIDE DEF def
<1>6. /\ q.names = r.names
      /\ DOMAIN q.defs = DOMAIN r.defs
      /\ q.defs[s] = def
      /\ \A t \in DOMAIN r.defs : t # s => q.defs[t] = r.defs[t]
    BY <1>1, <1>2, <1>3, NamesStay
<1> HIDE DEF calls, kind, body
<1>7. q = WithDef(r, s, q.defs[s])
    BY <1>2, <1>6
<1> QED
    BY <1>1, <1>5, <1>6, <1>7 DEF calls, kind, body

(* A body that is written out and read a second time is the body that the  *)
(* first time gave: the signature settles, unless it was generic.          *)
LEMMA ResignedTwice ==
    ASSUME NEW r, NEW n, RootInv(r, n), NEW op \in ChangeSignatureOps(r),
           NEW q \in ChangeSignatureHandler(r, op),
           r.defs[op.on.symbol].kind # "generic"
    PROVE  ChangeSignatureHandler(q, op) \subseteq {q}
<1> DEFINE s == op.on.symbol
           m == op.on.module
           old == r.defs[s]
           body == Render(r, m, old.calls)
           calls == IF old.kind = "external" THEN old.calls
                    ELSE Elaborate(r, m, "function", body)
           changed == [t \in {s} |-> q.defs[s]]
<1>1. /\ IsRoot(r) /\ UniqueNames(r) /\ OnePreferred(r)
    BY DEF RootInv, ShapeInv, NamesIdentify
<1>2. /\ q = WithDefs(r, changed)
      /\ s \in DOMAIN r.defs /\ DOMAIN q.defs = DOMAIN r.defs
      /\ q.names = r.names
      /\ \A t \in DOMAIN r.defs : t # s => q.defs[t] = r.defs[t]
      /\ old.kind # "external" => Elaborates(r, m, body)
  <2>1. q = WithDef(r, s, q.defs[s])
    BY NewSignature
  <2>2. /\ s \in DOMAIN r.defs /\ DOMAIN q.defs = DOMAIN r.defs
        /\ q.names = r.names
        /\ \A t \in DOMAIN r.defs : t # s => q.defs[t] = r.defs[t]
        /\ old.kind # "external" => Elaborates(r, m, body)
    BY NewSignature
  <2> HIDE DEF old, calls, body
  <2> QED
    BY <2>1, <2>2 DEF WithDef
<1>3. q.defs[s] = [kind |-> IF old.kind = "external" THEN "external" ELSE "function",
                   params |-> op.params, calls |-> calls]
    BY NewSignature
<1>4. old.kind \in Kinds
    BY <1>1, <1>2 DEF IsRoot, Definition
<1>5. \A t \in DOMAIN r.defs : q.defs[t].kind = r.defs[t].kind
  <2>1. q.defs[s].kind = IF old.kind = "external" THEN "external" ELSE "function"
    BY <1>3
  <2>2. q.defs[s].kind = old.kind
    BY <2>1, <1>4 DEF Kinds
  <2> QED
    BY <1>2, <2>2
<1>6. \A c \in old.calls : c.callee \in DOMAIN r.defs /\ c.callee[1] = "born"
    BY <1>2, CallsKnown
<1> HIDE DEF changed
<1>7. WithDef(q, s, q.defs[s]) = q
    BY <1>1, <1>2, SameDefinition
<1>8. SUFFICES ASSUME NEW x \in ChangeSignatureHandler(q, op) PROVE x = q
    OBVIOUS
<1>9. CASE old.kind = "external"
  <2>1. q.defs[s].kind = "external"
    BY <1>3, <1>9
  <2>2. x \in Checked(WithDef(q, s, [q.defs[s] EXCEPT !.params = op.params]))
    BY <2>1 DEF ChangeSignatureHandler
  <2> HIDE DEF old, calls
  <2>3. [q.defs[s] EXCEPT !.params = op.params] = q.defs[s]
    BY <1>3
  <2> QED
    BY <1>7, <2>2, <2>3, StoredIsStorable
<1>10. CASE old.kind # "external"
  <2>1. q.defs[s].kind = "function" /\ q.defs[s].calls = calls
    BY <1>3, <1>10
  <2>2. x \in Checked(WithDef(q, s,
              [kind |-> "function", params |-> op.params,
               calls |-> Elaborate(q, m, "function", Render(q, m, calls))]))
    BY <2>1 DEF ChangeSignatureHandler
  <2>3. Callees(calls) = Callees(old.calls)
    BY <1>1, <1>6, <1>10, RereadCallees
  <2> HIDE DEF old, calls
  <2>4. Render(q, m, calls) = body
    <3>1. Render(r, m, calls) = Render(r, m, old.calls)
      BY <2>3, SameWriting
    <3>2. Render(q, m, calls) = Render(r, m, calls)
      BY <1>2 DEF Render
    <3> QED
      BY <3>1, <3>2
  <2>5. Elaborates(r, m, body)
    BY <1>2, <1>10
  <2> HIDE DEF body
  <2>6. Elaborate(q, m, "function", body) = Elaborate(r, m, "function", body)
    BY <1>2, <1>5, <2>5, ReadAlike
  <2>7. Elaborate(r, m, "function", body) = calls
    BY <1>10 DEF calls
  <2>8. q.defs[s] = [kind |-> "function", params |-> op.params, calls |-> calls]
    BY <1>3, <1>10
  <2>9. x = WithDef(q, s, [kind |-> "function", params |-> op.params, calls |-> calls])
    BY <2>2, <2>4, <2>6, <2>7, StoredIsStorable
  <2> QED
    BY <1>7, <2>8, <2>9
<1> QED
    BY <1>9, <1>10

(* apply_add_parameter keeps the names and lengthens the parameters.       *)
LEMMA Lengthened ==
    ASSUME NEW r, NEW n, RootInv(r, n), NEW op \in AddParameterOps(r),
           NEW q \in AddParameterHandler(r, op)
    PROVE  /\ q.names = r.names
           /\ op.on.symbol \in DOMAIN r.defs
           /\ q.defs[op.on.symbol].params =
              Append(r.defs[op.on.symbol].params, op.param)
           /\ r.defs[op.on.symbol].params \in Seq(ParamNames)
           /\ op.param \in ParamNames
<1> DEFINE target == op.on.symbol
           callers == Dependents(r, target)
           params == Append(r.defs[target].params, op.param)
           def == [r.defs[target] EXCEPT !.params = params]
           signed == WithDef(r, target, def)
           home(s) == IF s = target THEN op.on.module
                      ELSE IF BindingsOf(r.names, s) = {} THEN Main
                      ELSE PreferredBinding(r.names, s).module
           patched(s) ==
              {IF s \in callers /\ c.callee = target
               THEN [c EXCEPT !.args = @ + 1] ELSE c : c \in r.defs[s].calls}
           calls(s) == Elaborate(signed, home(s), signed.defs[s].kind,
                                 Render(signed, home(s), patched(s)))
           new(s) == [signed.defs[s] EXCEPT !.calls = calls(s)]
           more == [s \in callers \cup {target} |-> new(s)]
<1>1. /\ target \in DOMAIN r.defs
      /\ q \in Checked(WithDefs(signed, more))
    BY DEF AddParameterHandler
<1>2. q = WithDefs(signed, more)
    BY <1>1, StoredIsStorable
<1>3. IsRoot(r)
    BY DEF RootInv, ShapeInv
<1>4. /\ r.defs[target] \in Definition
      /\ r.defs[target].params \in Seq(ParamNames)
      /\ op.param \in ParamNames
    BY <1>1, <1>3 DEF IsRoot, Definition, AddParameterOps
<1>5. params \in Seq(ParamNames)
    BY <1>4
<1> HIDE DEF params
<1>6. def \in Definition /\ def.params = params
    BY <1>4, <1>5 DEF Definition
<1> HIDE DEF def
<1>7. signed.names = r.names /\ signed.defs[target] = def
    BY <1>1, <1>3, NamesStay
<1>8. IsRoot(signed)
  <2> DEFINE first == [t \in {target} |-> def]
  <2>1. DOMAIN first \subseteq Symbol /\ \A t \in DOMAIN first : first[t] \in Definition
    BY <1>1, <1>3, <1>6 DEF IsRoot
  <2>2. signed = WithDefs(r, first)
    BY DEF WithDef
  <2> HIDE DEF first, signed
  <2> QED
    BY <1>3, <2>1, <2>2, WithDefsTyped
<1> HIDE DEF signed, calls
<1>9. DOMAIN more = callers \cup {target} /\ more[target] = new(target)
    OBVIOUS
<1>10. new(target).params = params
    BY <1>6, <1>7 DEF Definition
<1> HIDE DEF more, new, callers
<1>11. q.names = signed.names /\ q.defs[target] = more[target]
  <2>1. /\ q = [defs |-> q.defs, names |-> signed.names, exports |-> signed.exports,
                tests |-> signed.tests, listed |-> signed.listed]
        /\ DOMAIN q.defs = DOMAIN signed.defs \cup DOMAIN more
        /\ \A t \in DOMAIN q.defs :
              q.defs[t] = IF t \in DOMAIN more THEN more[t] ELSE signed.defs[t]
    BY <1>2, <1>8, WithDefsFields
  <2> QED
    BY <1>9, <2>1
<1> QED
    BY <1>1, <1>4, <1>7, <1>9, <1>10, <1>11 DEF params

(* The parameter's name is taken the second time.                          *)
LEMMA LengthenedTwice ==
    ASSUME NEW r, NEW n, RootInv(r, n), NEW op \in AddParameterOps(r),
           NEW q \in AddParameterHandler(r, op)
    PROVE  AddParameterHandler(q, op) = {}
<1> DEFINE old == r.defs[op.on.symbol].params
           once == Append(old, op.param)
           twice == Append(once, op.param)
<1>1. /\ q.defs[op.on.symbol].params = once
      /\ old \in Seq(ParamNames) /\ op.param \in ParamNames
    BY Lengthened
<1> HIDE DEF old
<1>2. ~Distinct(twice)
  <2>1. /\ Len(old) \in Nat
        /\ Len(once) = Len(old) + 1 /\ Len(twice) = Len(old) + 2
        /\ once \in Seq(ParamNames) /\ twice \in Seq(ParamNames)
        /\ once[Len(old) + 1] = op.param
        /\ twice[Len(old) + 1] = op.param
        /\ twice[Len(old) + 2] = op.param
    BY <1>1
  <2>2. /\ Len(old) + 1 \in DOMAIN twice
        /\ Len(old) + 2 \in DOMAIN twice
        /\ Len(old) + 1 # Len(old) + 2
    BY <2>1
  <2> QED
    BY <2>1, <2>2 DEF Distinct
<1> HIDE DEF once
<1> QED
    BY <1>1, <1>2 DEF AddParameterHandler

(***************************************************************************)
(* Postconditions.                                                         *)
(***************************************************************************)
(* A definition that is there under its name, with a body that is spelt as *)
(* the projection spells it, is the one a creation asked for               *)
(* (postcondition_holds).                                                  *)
LEMMA InstalledMatches ==
    ASSUME NEW q, UniqueNames(q), NEW m, NEW f,
           Installed(q, m, f.name, f.kind, f.params,
                     Callees(Elaborate(q, m, "function", f.body))),
           AsDisplayed(q, m, f.body)
    PROVE  FunctionMatches(q, m, f)
<1> DEFINE calls == Elaborate(q, m, "function", f.body)
<1>1. PICK b \in q.names :
         /\ b.module = m /\ b.name = f.name
         /\ b.symbol \in DOMAIN q.defs
         /\ q.defs[b.symbol].kind = f.kind
         /\ q.defs[b.symbol].params = f.params
         /\ Callees(q.defs[b.symbol].calls) = Callees(calls)
    BY DEF Installed
<1>2. ~Available(q.names, m, f.name) /\ Resolve(q.names, m, f.name) = b.symbol
    BY <1>1, Resolves
<1> HIDE DEF calls
<1>3. Render(q, m, q.defs[b.symbol].calls) = Render(q, m, calls)
    BY <1>1, SameWriting
<1>4. Render(q, m, calls) = f.body
    BY DEF AsDisplayed, calls
<1> QED
    BY <1>1, <1>2, <1>3, <1>4 DEF FunctionMatches, BodyMatches

(* create_function, create_external_function, create_recursion_group.      *)
LEMMA CreateFunctionAttains ==
    ASSUME NEW r, NEW n \in Nat, RootInv(r, n), NEW op \in CreateFunctionOps,
           NEW q \in CreateFunctionHandler(r, n, op), AsDisplayed(q, op.module, op.body)
    PROVE  Post(q, op)
<1>1. op.op = "create_function"
    BY DEF CreateFunctionOps
<1>2. /\ UniqueNames(q)
      /\ Installed(q, op.module, op.name, op.kind, op.params,
                   Callees(Elaborate(q, op.module, "function", op.body)))
    BY CreateFunctionKeepsInv DEF RootInv, ShapeInv, NamesIdentify
<1>3. FunctionMatches(q, op.module, op)
    BY <1>2, InstalledMatches
<1> QED
    BY <1>1, <1>3 DEF Post

LEMMA CreateExternalAttains ==
    ASSUME NEW r, NEW n \in Nat, RootInv(r, n), NEW op \in CreateExternalOps,
           NEW q \in CreateExternalHandler(r, n, op)
    PROVE  Post(q, op)
<1>1. op.op = "create_external_function"
    BY DEF CreateExternalOps
<1>2. /\ UniqueNames(q)
      /\ Installed(q, op.module, op.name, "external", op.params, {})
    BY CreateExternalKeepsInv DEF RootInv, ShapeInv, NamesIdentify
<1>3. PICK b \in q.names :
         /\ b.module = op.module /\ b.name = op.name
         /\ b.symbol \in DOMAIN q.defs
         /\ q.defs[b.symbol].kind = "external"
         /\ q.defs[b.symbol].params = op.params
    BY <1>2 DEF Installed
<1>4. /\ ~Available(q.names, op.module, op.name)
      /\ Resolve(q.names, op.module, op.name) = b.symbol
    BY <1>2, <1>3, Resolves
<1> QED
    BY <1>1, <1>3, <1>4 DEF Post

(* A group that was created had members.                                   *)
LEMMA GroupHasMembers ==
    ASSUME NEW r, NEW n \in Nat, RootInv(r, n), NEW op \in CreateGroupOps,
           NEW q \in CreateGroupHandler(r, n, op)
    PROVE  DOMAIN op.members # {}
<1> DEFINE S == [name : Names, kind : {"function", "generic"},
                 params : Seq(ParamNames), body : SUBSET RawCall]
<1>1. op.members # << >>
    BY CreateGroupKeepsInv
<1>2. op.members \in Seq(S)
    BY GroupsAssumption DEF CreateGroupOps
<1> HIDE DEF S
<1> QED
    BY <1>1, <1>2

LEMMA CreateGroupAttains ==
    ASSUME NEW r, NEW n \in Nat, RootInv(r, n), NEW op \in CreateGroupOps,
           NEW q \in CreateGroupHandler(r, n, op),
           \A i \in DOMAIN op.members : AsDisplayed(q, op.module, op.members[i].body)
    PROVE  Post(q, op)
<1>1. op.op = "create_recursion_group"
    BY DEF CreateGroupOps
<1>2. /\ UniqueNames(q)
      /\ op.members # << >>
      /\ \A i \in DOMAIN op.members :
            Installed(q, op.module, op.members[i].name, op.members[i].kind,
                      op.members[i].params,
                      Callees(Elaborate(q, op.module, "function", op.members[i].body)))
    BY CreateGroupKeepsInv DEF RootInv, ShapeInv, NamesIdentify
<1>3. \A i \in DOMAIN op.members : FunctionMatches(q, op.module, op.members[i])
    BY <1>2, InstalledMatches
<1> QED
    BY <1>1, <1>3 DEF Post

(* rename_symbol: the old name is free, since names are unique.            *)
LEMMA RenameAttains ==
    ASSUME NEW r, NEW n, RootInv(r, n), NEW op \in RenameOps(r),
           NEW q \in RenameHandler(r, op)
    PROVE  Post(q, op)
<1> DEFINE mine(b) == /\ b.module = op.on.module /\ b.name = op.on.name
                      /\ b.symbol = op.on.symbol /\ b.preferred
           new(b) == IF mine(b) THEN [b EXCEPT !.name = op.new] ELSE b
           N == {new(b) : b \in r.names}
<1>1. /\ op.op = "rename_symbol"
      /\ Available(r.names, op.on.module, op.new)
      /\ StillPreferred(r, op)
      /\ q \in Stored([r EXCEPT !.names = {new(b) : b \in @}])
    BY DEF RenameHandler, RenameOps
<1>2. IsRoot(r) /\ UniqueNames(r)
    BY DEF RootInv, ShapeInv, NamesIdentify
<1>3. q = [r EXCEPT !.names = N]
    BY <1>1, StoredIsStorable
<1>4. q.names = N
    BY <1>2, <1>3 DEF IsRoot
<1>5. \A b \in r.names : /\ b \in Binding
                         /\ new(b).module = b.module
                         /\ new(b).symbol = b.symbol
                         /\ new(b).name = IF mine(b) THEN op.new ELSE b.name
    BY <1>2 DEF IsRoot, Binding
<1>6. PICK b \in r.names : mine(b)
    BY <1>1 DEF StillPreferred, Prefers, At
<1>7. PointsTo(q.names, op.on.module, op.new, op.on.symbol)
  <2>1. new(b) \in N
    BY <1>6
  <2> QED
    BY <1>4, <1>5, <1>6, <2>1 DEF PointsTo, At
<1>8. Available(q.names, op.on.module, op.on.name)
  <2>1. SUFFICES ASSUME NEW c \in r.names, new(c).module = op.on.module,
                        new(c).name = op.on.name
                 PROVE  FALSE
    BY <1>4 DEF Available, At
  <2>2. CASE mine(c)
    <3>1. op.new = op.on.name
      BY <1>5, <2>1, <2>2
    <3> QED
      BY <1>1, <1>6, <3>1 DEF Available, At
  <2>3. CASE ~mine(c)
    <3>1. c.module = b.module /\ c.name = b.name
      BY <1>5, <1>6, <2>1, <2>3
    <3> QED
      BY <1>2, <1>6, <2>3, <3>1 DEF UniqueNames
  <2> QED
    BY <2>2, <2>3
<1> QED
    BY <1>1, <1>7, <1>8 DEF Post

(* move_symbol: every name of the symbol has left the module.              *)
LEMMA MoveAttains ==
    ASSUME NEW r, NEW n, RootInv(r, n), NEW op \in MoveOps(r),
           NEW q \in MoveHandler(r, op)
    PROVE  Post(q, op)
<1>1. op.op = "move_symbol"
    BY DEF MoveOps
<1>2. IsRoot(r) /\ UniqueNames(r)
    BY DEF RootInv, ShapeInv, NamesIdentify
<1>3. CASE op.to = op.on.module
    BY <1>1, <1>3 DEF MoveHandler, Post, StillNamed
<1>4. CASE op.to # op.on.module
  <2> DEFINE M == NamesMoved(r, op)
             new(b) == IF b \in M THEN [b EXCEPT !.module = op.to] ELSE b
             N == {new(b) : b \in r.names}
  <2>1. /\ StillPreferred(r, op)
        /\ q \in Checked(Synchronize([r EXCEPT !.names = {new(b) : b \in @}]))
    BY <1>4 DEF MoveHandler
  <2>2. q = Synchronize([r EXCEPT !.names = N])
    BY <2>1, StoredIsStorable
  <2> HIDE DEF N
  <2>3. q = [defs |-> r.defs, names |-> N, exports |-> r.exports,
             tests |-> r.tests, listed |-> {b.module : b \in N}]
    <3>1. [r EXCEPT !.names = N] =
            [defs |-> r.defs, names |-> N, exports |-> r.exports,
             tests |-> r.tests, listed |-> r.listed]
      BY <1>2, NamesFields
    <3>2. Synchronize([defs |-> r.defs, names |-> N, exports |-> r.exports,
                       tests |-> r.tests, listed |-> r.listed]) =
            [defs |-> r.defs, names |-> N, exports |-> r.exports,
             tests |-> r.tests, listed |-> {b.module : b \in N}]
      BY SynchronizeFields
    <3> QED
      BY <2>2, <3>1, <3>2
  <2>4. q.names = N
    BY <2>3
  <2>5. \A b \in r.names : /\ new(b).module = IF b \in M THEN op.to ELSE b.module
                           /\ new(b).symbol = b.symbol
                           /\ new(b).name = b.name
    BY <1>2 DEF IsRoot, Binding
  <2>6. PICK b \in r.names : /\ b.module = op.on.module /\ b.name = op.on.name
                             /\ b.symbol = op.on.symbol
    BY <2>1 DEF StillPreferred, Prefers, At
  <2>7. b \in M
    BY <2>6 DEF NamesMoved, BindingsOf
  <2> HIDE DEF M, new
  <2>8. PointsTo(q.names, op.to, op.on.name, op.on.symbol)
    BY <2>4, <2>5, <2>6, <2>7 DEF PointsTo, At, N
  <2>9. Available(q.names, op.on.module, op.on.name)
    <3>1. SUFFICES ASSUME NEW c \in r.names, new(c).module = op.on.module,
                          new(c).name = op.on.name
                   PROVE  FALSE
      BY <2>4 DEF Available, At, N
    <3>2. c \notin M /\ c.module = op.on.module /\ c.name = op.on.name
      BY <1>4, <2>5, <3>1
    <3> QED
      BY <1>2, <2>6, <2>7, <3>2 DEF UniqueNames
  <2> QED
    BY <1>1, <2>8, <2>9 DEF Post
<1> QED
    BY <1>3, <1>4

(* replace_function_body, change_function_signature, add_parameter: the    *)
(* symbol keeps its name.                                                  *)
LEMMA ReplaceBodyAttains ==
    ASSUME NEW r, NEW n, RootInv(r, n), NEW op \in ReplaceBodyOps(r),
           NEW q \in ReplaceBodyHandler(r, op), StillNamed(r, op),
           AsDisplayed(q, op.on.module, op.body)
    PROVE  Post(q, op)
<1> DEFINE s == op.on.symbol
           k == r.defs[s].kind
           m == op.on.module
           calls == Elaborate(q, m, "function", op.body)
<1>1. op.op = "replace_function_body"
    BY DEF ReplaceBodyOps
<1>2. /\ Elaborates(r, m, op.body)
      /\ q.names = r.names
      /\ s \in DOMAIN r.defs /\ DOMAIN q.defs = DOMAIN r.defs
      /\ q.defs[s].calls = Elaborate(r, m, k, op.body)
    BY ReplacedBody
<1>3. UniqueNames(q)
    BY ReplaceBodyKeepsInv DEF RootInv, ShapeInv, NamesIdentify
<1>4. Callees(q.defs[s].calls) = Callees(calls)
  <2>1. Callees(Elaborate(r, m, k, op.body)) =
        Callees(Elaborate(q, m, "function", op.body))
    BY <1>2, <1>3, SameReading
  <2> QED
    BY <1>2, <2>1
<1> HIDE DEF calls
<1>5. Render(q, m, q.defs[s].calls) = Render(q, m, calls)
    BY <1>4, SameWriting
<1>6. Render(q, m, calls) = op.body
    BY DEF AsDisplayed, calls
<1> QED
    BY <1>1, <1>2, <1>5, <1>6 DEF Post, BodyMatches, StillNamed

LEMMA ChangeSignatureAttains ==
    ASSUME NEW r, NEW n, RootInv(r, n), NEW op \in ChangeSignatureOps(r),
           NEW q \in ChangeSignatureHandler(r, op), StillNamed(r, op)
    PROVE  Post(q, op)
<1> DEFINE s == op.on.symbol
           kind == IF r.defs[s].kind = "external" THEN "external" ELSE "function"
           calls == IF r.defs[s].kind = "external" THEN r.defs[s].calls
                    ELSE Elaborate(r, op.on.module, "function",
                            Render(r, op.on.module, r.defs[s].calls))
<1>1. op.op = "change_function_signature"
    BY DEF ChangeSignatureOps
<1>2. /\ q.names = r.names
      /\ s \in DOMAIN r.defs /\ DOMAIN q.defs = DOMAIN r.defs
      /\ q.defs[s] = [kind |-> kind, params |-> op.params, calls |-> calls]
    BY NewSignature
<1>3. kind # "generic"
    OBVIOUS
<1> HIDE DEF kind, calls
<1>4. q.defs[s].kind # "generic" /\ q.defs[s].params = op.params
    BY <1>2, <1>3
<1> QED
    BY <1>1, <1>2, <1>4 DEF Post, StillNamed

LEMMA AddParameterAttains ==
    ASSUME NEW r, NEW n, RootInv(r, n), NEW op \in AddParameterOps(r),
           NEW q \in AddParameterHandler(r, op), StillNamed(r, op)
    PROVE  Post(q, op)
<1>1. op.op = "add_parameter"
    BY DEF AddParameterOps
<1> QED
    BY <1>1, Lengthened DEF Post, StillNamed

(* delete_symbol: a deletion that is not forced found no test of the       *)
(* symbol, and one that is forced took them away.                          *)
LEMMA DeleteAttains ==
    ASSUME NEW r, NEW op \in DeleteOps(r), NEW q \in DeleteHandler(r, op)
    PROVE  Post(q, op)
<1> DEFINE s == op.on.symbol
           tests == {t \in r.tests : t.case.entry = s}
           D == [t \in DOMAIN r.defs \ {s} |-> r.defs[t]]
           N == r.names \ BindingsOf(r.names, s)
           X == {e \in r.exports : e.symbol # s}
           T == IF op.force THEN r.tests \ tests ELSE r.tests
<1>1. op.op = "delete_symbol"
    BY DEF DeleteOps
<1>2. /\ ~op.force => tests = {}
      /\ q \in Checked([defs |-> D, names |-> N, exports |-> X, tests |-> T,
                        listed |-> r.listed])
    BY DEF DeleteHandler
<1>3. \A t \in T : t.case.entry # s
    BY <1>2
<1>4. s \notin DOMAIN D /\ BindingsOf(N, s) = {}
    BY DEF BindingsOf
<1>5. \A e \in X : e.symbol # s
    OBVIOUS
<1> HIDE DEF D, N, X, T
<1>6. q = [defs |-> D, names |-> N, exports |-> X, tests |-> T, listed |-> r.listed]
    BY <1>2, StoredIsStorable
<1>7. q.defs = D /\ q.names = N /\ q.exports = X /\ q.tests = T
    BY <1>6
<1> QED
    BY <1>1, <1>3, <1>4, <1>5, <1>7 DEF Post

(* create_alias, remove_alias: the removed binding was the only one there. *)
LEMMA CreateAliasAttains ==
    ASSUME NEW r, IsRoot(r), NEW op \in CreateAliasOps(r),
           NEW q \in CreateAliasHandler(r, op)
    PROVE  Post(q, op)
<1> DEFINE b == [module |-> op.on.module, name |-> op.alias,
                 symbol |-> op.on.symbol, preferred |-> FALSE]
<1>1. op.op = "create_alias"
    BY DEF CreateAliasOps
<1>2. q = WithName(r, op.on.module, op.alias, op.on.symbol, FALSE)
    BY StoredIsStorable DEF CreateAliasHandler
<1>3. q.names = r.names \cup {b}
    BY <1>2 DEF WithName, IsRoot
<1>4. /\ b.module = op.on.module /\ b.name = op.alias
      /\ b.symbol = op.on.symbol
    OBVIOUS
<1> HIDE DEF b
<1> QED
    BY <1>1, <1>3, <1>4 DEF Post, PointsTo, At

LEMMA RemoveAliasAttains ==
    ASSUME NEW r, IsRoot(r), UniqueNames(r), NEW op \in RemoveAliasOps(r),
           NEW q \in RemoveAliasHandler(r, op)
    PROVE  Post(q, op)
<1> DEFINE gone == {b \in At(r.names, op.on.module, op.alias) :
                       b.symbol = op.on.symbol /\ ~b.preferred}
<1>1. op.op = "remove_alias"
    BY DEF RemoveAliasOps
<1>2. gone # {} /\ q = [r EXCEPT !.names = @ \ gone]
    BY StoredIsStorable DEF RemoveAliasHandler
<1>3. q.names = r.names \ gone
    BY <1>2 DEF IsRoot
<1>4. At(r.names, op.on.module, op.alias) \subseteq gone
    BY <1>2 DEF At, UniqueNames
<1> HIDE DEF gone
<1>5. Available(q.names, op.on.module, op.alias)
    BY <1>3, <1>4 DEF Available, At
<1> QED
    BY <1>1, <1>5 DEF Post

(* set_export, remove_export: the export map has a name once.              *)
LEMMA SetExportAttains ==
    ASSUME NEW r, IsRoot(r), NEW op \in SetExportOps(r),
           NEW q \in SetExportHandler(r, op)
    PROVE  Post(q, op)
<1> DEFINE e == [name |-> op.exported, symbol |-> op.on.symbol]
<1>1. op.op = "set_export"
    BY DEF SetExportOps
<1>2. q = [r EXCEPT !.exports = @ \cup {e}]
    BY StoredIsStorable DEF SetExportHandler
<1>3. e \in q.exports
    BY <1>2 DEF IsRoot
<1> QED
    BY <1>1, <1>3 DEF Post

LEMMA RemoveExportAttains ==
    ASSUME NEW r, IsRoot(r), Storable(r), NEW op \in RemoveExportOps(r),
           NEW q \in RemoveExportHandler(r, op)
    PROVE  Post(q, op)
<1> DEFINE e == [name |-> op.exported, symbol |-> op.on.symbol]
<1>1. op.op = "remove_export"
    BY DEF RemoveExportOps
<1>2. e \in r.exports /\ q = [r EXCEPT !.exports = @ \ {e}]
    BY StoredIsStorable DEF RemoveExportHandler
<1>3. q.exports = r.exports \ {e} /\ e.name = op.exported
    BY <1>2 DEF IsRoot
<1> HIDE DEF e
<1>4. \A f \in q.exports : f.name # op.exported
    BY <1>2, <1>3 DEF Storable
<1> QED
    BY <1>1, <1>4 DEF Post

(* create_test, delete_test.                                               *)
LEMMA CreateTestAttains ==
    ASSUME NEW r, IsRoot(r), NEW op \in CreateTestOps(r),
           NEW q \in CreateTestHandler(r, op)
    PROVE  Post(q, op)
<1> DEFINE c == [entry |-> op.on.symbol, args |-> op.args, expected |-> op.expected]
           t == [name |-> op.test, case |-> c]
<1>1. op.op = "create_test"
    BY DEF CreateTestOps
<1>2. q = [r EXCEPT !.tests = @ \cup {t}]
    BY StoredIsStorable DEF CreateTestHandler
<1> HIDE DEF c
<1>3. t \in q.tests /\ t.name = op.test
    BY <1>2 DEF IsRoot
<1> QED
    BY <1>1, <1>3 DEF Post

LEMMA DeleteTestAttains ==
    ASSUME NEW r, IsRoot(r), TypeChecks(r), NEW op \in DeleteTestOps(r),
           NEW q \in DeleteTestHandler(r, op), ~SharesCase(r, op)
    PROVE  Post(q, op)
<1>1. op.op = "delete_test"
    BY DEF DeleteTestOps
<1>2. op.bound \in r.tests /\ q = [r EXCEPT !.tests = @ \ {op.bound}]
    BY StoredIsStorable DEF DeleteTestHandler
<1>3. q.tests = r.tests \ {op.bound}
    BY <1>2 DEF IsRoot
<1>4. \A t \in q.tests : t.name # op.bound.name
    BY <1>2, <1>3 DEF TypeChecks
<1>5. \A t \in q.tests : t.case # op.bound.case
    BY <1>1, <1>3 DEF SharesCase
<1> QED
    BY <1>1, <1>4, <1>5 DEF Post

(***************************************************************************)
(* The theorems.                                                           *)
(***************************************************************************)
(* An operation whose preconditions held and whose handler succeeded has   *)
(* its postconditions: see PostconditionsAttained.                         *)
THEOREM PostconditionsAreAttained == Spec => []PostconditionsAttained
<1>1. Inv => PostconditionsAttained
  <2> SUFFICES ASSUME Inv PROVE PostconditionsAttained
    OBVIOUS
  <2>1. RootInv(root, births) /\ births \in Nat
    BY BoundsAssumption DEF Inv
  <2>2. IsRoot(root) /\ UniqueNames(root) /\ TypeChecks(root) /\ Storable(root)
    BY <2>1 DEF RootInv, ShapeInv, NamesIdentify
  <2>3. \A op \in CreateFunctionOps : AttainsPost(op)
    BY <2>1, CreateFunctionAttains DEF AttainsPost, CreateFunctionOps, Handle, DisplaysBodies
  <2>4. \A op \in CreateExternalOps : AttainsPost(op)
    BY <2>1, CreateExternalAttains DEF AttainsPost, CreateExternalOps, Handle
  <2>5. \A op \in CreateGroupOps : AttainsPost(op)
    BY <2>1, CreateGroupAttains DEF AttainsPost, CreateGroupOps, Handle, DisplaysBodies
  <2>6. \A op \in RenameOps(root) : AttainsPost(op)
    BY <2>1, RenameAttains DEF AttainsPost, RenameOps, Handle
  <2>7. \A op \in MoveOps(root) : AttainsPost(op)
    BY <2>1, MoveAttains DEF AttainsPost, MoveOps, Handle
  <2>8. \A op \in ReplaceBodyOps(root) : AttainsPost(op)
    BY <2>1, ReplaceBodyAttains DEF AttainsPost, ReplaceBodyOps, Handle, Pre, DisplaysBodies
  <2>9. \A op \in ChangeSignatureOps(root) : AttainsPost(op)
    BY <2>1, ChangeSignatureAttains DEF AttainsPost, ChangeSignatureOps, Handle, Pre
  <2>10. \A op \in AddParameterOps(root) : AttainsPost(op)
    BY <2>1, AddParameterAttains DEF AttainsPost, AddParameterOps, Handle, Pre
  <2>11. \A op \in DeleteOps(root) : AttainsPost(op)
    BY DeleteAttains DEF AttainsPost, DeleteOps, Handle
  <2>12. \A op \in CreateAliasOps(root) : AttainsPost(op)
    BY <2>2, CreateAliasAttains DEF AttainsPost, CreateAliasOps, Handle
  <2>13. \A op \in RemoveAliasOps(root) : AttainsPost(op)
    BY <2>2, RemoveAliasAttains DEF AttainsPost, RemoveAliasOps, Handle
  <2>14. \A op \in SetExportOps(root) : AttainsPost(op)
    BY <2>2, SetExportAttains DEF AttainsPost, SetExportOps, Handle
  <2>15. \A op \in RemoveExportOps(root) : AttainsPost(op)
    BY <2>2, RemoveExportAttains DEF AttainsPost, RemoveExportOps, Handle
  <2>16. \A op \in CreateTestOps(root) : AttainsPost(op)
    BY <2>2, CreateTestAttains DEF AttainsPost, CreateTestOps, Handle
  <2>17. \A op \in DeleteTestOps(root) : AttainsPost(op)
    BY <2>2, DeleteTestAttains DEF AttainsPost, DeleteTestOps, Handle
  <2> QED
    BY <2>3, <2>4, <2>5, <2>6, <2>7, <2>8, <2>9, <2>10, <2>11, <2>12, <2>13,
       <2>14, <2>15, <2>16, <2>17 DEF PostconditionsAttained, OfEveryOperation
<1> QED
    BY <1>1, InvHolds, PTL

(* An operation that was applied changes nothing when it is submitted      *)
(* again: see RetriesSettle.                                               *)
THEOREM RetriesAlwaysSettle == Spec => []RetriesSettle
<1>1. Inv => RetriesSettle
  <2> SUFFICES ASSUME Inv PROVE RetriesSettle
    OBVIOUS
  <2>1. RootInv(root, births) /\ births \in Nat
    BY BoundsAssumption DEF Inv
  <2>2. ASSUME NEW op, SelfRefuting(op) PROVE Settles(op)
    BY <2>2, PostRefutesPre, Refused DEF Settles, Accepted
  <2>3. ASSUME NEW op, NEW q \in Accepted(root, births, op)
        PROVE  /\ Pre(root, op) /\ q # root
               /\ q \in Handle(root, births, op)
    BY <2>3 DEF Accepted
  <2>4. ASSUME NEW q, NEW n, NEW op, Handle(q, n, op) \subseteq {q}
        PROVE  Accepted(q, n, op) = {}
    BY <2>4 DEF Accepted
  <2>5. /\ \A op \in CreateFunctionOps : Settles(op)
        /\ \A op \in CreateExternalOps : Settles(op)
    BY <2>2 DEF SelfRefuting, CreateFunctionOps, CreateExternalOps
  <2>6. \A op \in CreateGroupOps : Settles(op)
    <3>1. SUFFICES ASSUME NEW op \in CreateGroupOps,
                          NEW q \in Accepted(root, births, op)
                   PROVE  Settles(op)
      BY DEF Settles
    <3>2. op.op = "create_recursion_group"
      BY DEF CreateGroupOps
    <3>3. q \in CreateGroupHandler(root, births, op)
      BY <2>3, <3>1, <3>2 DEF Handle
    <3>4. DOMAIN op.members # {}
      BY <2>1, <3>3, GroupHasMembers
    <3> QED
      BY <2>2, <3>2, <3>4 DEF SelfRefuting
  <2>7. \A op \in RenameOps(root) : Settles(op)
    BY <2>2 DEF SelfRefuting, RenameOps
  <2>8. \A op \in MoveOps(root) : Settles(op)
    <3>1. SUFFICES ASSUME NEW op \in MoveOps(root),
                          NEW q \in Accepted(root, births, op)
                   PROVE  Settles(op)
      BY DEF Settles
    <3>2. op.op = "move_symbol"
      BY DEF MoveOps
    <3>3. q \in MoveHandler(root, op) /\ q # root
      BY <2>3, <3>1, <3>2 DEF Handle
    <3>4. op.to # op.on.module
      BY <3>3 DEF MoveHandler
    <3> QED
      BY <2>2, <3>2, <3>4 DEF SelfRefuting
  <2>9. \A op \in ReplaceBodyOps(root) : Settles(op)
    <3>1. SUFFICES ASSUME NEW op \in ReplaceBodyOps(root),
                          NEW q \in Accepted(root, births, op)
                   PROVE  Accepted(q, births + Newborn(op), op) = {}
      BY DEF Settles
    <3>2. op.op = "replace_function_body"
      BY DEF ReplaceBodyOps
    <3>3. q \in ReplaceBodyHandler(root, op)
      BY <2>3, <3>1, <3>2 DEF Handle
    <3>4. Handle(q, births + Newborn(op), op) \subseteq {q}
      BY <2>1, <3>2, <3>3, ReplacedTwice DEF Handle
    <3> QED
      BY <2>4, <3>4
  <2>10. \A op \in ChangeSignatureOps(root) : Settles(op)
    <3>1. SUFFICES ASSUME NEW op \in ChangeSignatureOps(root),
                          NEW q \in Accepted(root, births, op),
                          root.defs[op.on.symbol].kind # "generic"
                   PROVE  Accepted(q, births + Newborn(op), op) = {}
      BY DEF Settles, ChangeSignatureOps
    <3>2. op.op = "change_function_signature"
      BY DEF ChangeSignatureOps
    <3>3. q \in ChangeSignatureHandler(root, op)
      BY <2>3, <3>1, <3>2 DEF Handle
    <3>4. Handle(q, births + Newborn(op), op) \subseteq {q}
      BY <2>1, <3>1, <3>2, <3>3, ResignedTwice DEF Handle
    <3> QED
      BY <2>4, <3>4
  <2>11. \A op \in AddParameterOps(root) : Settles(op)
    <3>1. SUFFICES ASSUME NEW op \in AddParameterOps(root),
                          NEW q \in Accepted(root, births, op)
                   PROVE  Accepted(q, births + Newborn(op), op) = {}
      BY DEF Settles
    <3>2. op.op = "add_parameter"
      BY DEF AddParameterOps
    <3>3. q \in AddParameterHandler(root, op)
      BY <2>3, <3>1, <3>2 DEF Handle
    <3>4. Handle(q, births + Newborn(op), op) \subseteq {q}
      BY <2>1, <3>2, <3>3, LengthenedTwice DEF Handle
    <3> QED
      BY <2>4, <3>4
  <2>12. \A op \in DeleteOps(root) : Settles(op)
    BY <2>2 DEF SelfRefuting, DeleteOps
  <2>13. /\ \A op \in CreateAliasOps(root) : Settles(op)
         /\ \A op \in RemoveAliasOps(root) : Settles(op)
    BY <2>2 DEF SelfRefuting, CreateAliasOps, RemoveAliasOps
  <2>14. /\ \A op \in SetExportOps(root) : Settles(op)
         /\ \A op \in RemoveExportOps(root) : Settles(op)
    BY <2>2 DEF SelfRefuting, SetExportOps, RemoveExportOps
  <2>15. /\ \A op \in CreateTestOps(root) : Settles(op)
         /\ \A op \in DeleteTestOps(root) : Settles(op)
    BY <2>2 DEF SelfRefuting, CreateTestOps, DeleteTestOps
  <2> QED
    BY <2>5, <2>6, <2>7, <2>8, <2>9, <2>10, <2>11, <2>12, <2>13, <2>14, <2>15
    DEF RetriesSettle, OfEveryOperation
<1> QED
    BY <1>1, InvHolds, PTL
=============================================================================
