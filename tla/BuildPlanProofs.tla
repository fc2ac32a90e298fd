-------------------------- MODULE BuildPlanProofs --------------------------
(***************************************************************************)
(* Proofs about build plans, link plans and test selections, for roots of  *)
(* any size.                                                               *)
(*                                                                         *)
(* Reachability is a search of as many rounds as the root has definitions: *)
(* that it ends with the least set that is closed under the dependency     *)
(* index (Induction) needs a root of finitely many.  Solid adds this, and  *)
(* what tells roots apart, to the invariant of ProgramRootProofs.          *)
(***************************************************************************)
EXTENDS ProgramRootProofs, Induction

(* The body of a generic function leaves its type arguments open.          *)
Open(def) == def.kind = "generic" => \A c \in def.calls : c.at # "concrete"

Solid(r) ==
    /\ r = [defs |-> r.defs, names |-> r.names, exports |-> r.exports,
            tests |-> r.tests, listed |-> r.listed]
    /\ IsFiniteSet(DOMAIN r.defs)
    /\ r.defs = [s \in DOMAIN r.defs |-> r.defs[s]]
    /\ \A s \in DOMAIN r.defs : Open(r.defs[s])

(***************************************************************************)
(* Every operation makes solid roots of solid ones, and all but a deletion *)
(* keep every symbol.                                                      *)
(***************************************************************************)
(* Adding or replacing finitely many definitions keeps a root solid.       *)
LEMMA WithDefsSolid ==
    ASSUME NEW r, Solid(r), NEW more, IsFiniteSet(DOMAIN more),
           \A s \in DOMAIN more : Open(more[s]),
           NEW q, q = WithDefs(r, more)
    PROVE  /\ Solid(q)
           /\ DOMAIN q.defs = DOMAIN r.defs \cup DOMAIN more
           /\ \A s \in DOMAIN q.defs :
                 q.defs[s] = IF s \in DOMAIN more THEN more[s] ELSE r.defs[s]
<1> DEFINE D == [s \in DOMAIN r.defs \cup DOMAIN more |->
                    IF s \in DOMAIN more THEN more[s] ELSE r.defs[s]]
<1>1. q = [defs |-> D, names |-> r.names, exports |-> r.exports,
           tests |-> r.tests, listed |-> r.listed]
    BY DEF Solid, WithDefs
<1>2. /\ DOMAIN D = DOMAIN r.defs \cup DOMAIN more
      /\ D = [s \in DOMAIN D |-> D[s]]
      /\ \A s \in DOMAIN D : D[s] = IF s \in DOMAIN more THEN more[s] ELSE r.defs[s]
    OBVIOUS
<1> HIDE DEF D
<1>3. /\ q.defs = D /\ q.names = r.names /\ q.exports = r.exports
      /\ q.tests = r.tests /\ q.listed = r.listed
    BY <1>1
<1>4. IsFiniteSet(DOMAIN D)
  <2> DEFINE A == DOMAIN r.defs
             B == DOMAIN more
  <2>1. IsFiniteSet(A) /\ IsFiniteSet(B)
    BY DEF Solid
  <2>2. DOMAIN D = A \cup B
    BY <1>2
  <2> HIDE DEF A, B
  <2>3. IsFiniteSet(A \cup B)
    BY <2>1, FS_Union
  <2> QED
    BY <2>2, <2>3
<1>5. \A s \in DOMAIN D : Open(D[s])
    BY <1>2 DEF Solid
<1> QED
    BY <1>1, <1>2, <1>3, <1>4, <1>5 DEF Solid

(* So does changing anything else.                                         *)
LEMMA SameDefsSolid ==
    ASSUME NEW r, Solid(r), NEW N, NEW X, NEW T, NEW L, NEW q,
           q = [defs |-> r.defs, names |-> N, exports |-> X, tests |-> T, listed |-> L]
    PROVE  Solid(q) /\ q.defs = r.defs
<1>1. /\ q.defs = r.defs /\ q.names = N /\ q.exports = X
      /\ q.tests = T /\ q.listed = L
    OBVIOUS
<1> QED
    BY <1>1 DEF Solid

(* The modules metadata, brought up to date or not.                        *)
LEMMA ListedSolid ==
    ASSUME NEW r, Solid(r), NEW m, NEW q, q = SynchronizeAfter(m, r)
    PROVE  Solid(q) /\ q.defs = r.defs
<1>1. CASE q = Synchronize(r)
  <2> DEFINE fields == [defs |-> r.defs, names |-> r.names, exports |-> r.exports,
                        tests |-> r.tests, listed |-> r.listed]
  <2>1. r = fields
    BY DEF Solid
  <2>2. Synchronize(fields) =
           [defs |-> r.defs, names |-> r.names, exports |-> r.exports,
            tests |-> r.tests, listed |-> {b.module : b \in r.names}]
    BY SynchronizeFields
  <2> HIDE DEF fields
  <2>3. q = [defs |-> r.defs, names |-> r.names, exports |-> r.exports,
             tests |-> r.tests, listed |-> {b.module : b \in r.names}]
    BY <1>1, <2>1, <2>2
  <2> QED
    BY <2>3, SameDefsSolid
<1> QED
    BY <1>1 DEF SynchronizeAfter

(* The end of a creation: instances and the modules metadata.              *)
LEMMA CompletedSolid ==
    ASSUME NEW r, Solid(r), NEW calls, NEW m, NEW q,
           q = SynchronizeAfter(m, Monomorphize(r, calls))
    PROVE  Solid(q) /\ DOMAIN r.defs \subseteq DOMAIN q.defs
<1> DEFINE T == ToInstantiate(r, calls)
           I == {InstanceOf(g) : g \in T}
           more == [i \in I |-> InstanceDefinition(r, GenericOf(i))]
           y == Monomorphize(r, calls)
           f == [g \in T |-> InstanceOf(g)]
<1>1. IsFiniteSet(T)
  <2>1. T \in SUBSET DOMAIN r.defs
    BY DEF ToInstantiate, Generics
  <2> HIDE DEF T
  <2> QED
    BY <2>1, FS_Subset DEF Solid
<1>2. IsFiniteSet(I)
  <2>1. f \in Surjection(T, I)
    BY DEF Surjection
  <2> HIDE DEF f, T, I
  <2> QED
    BY <1>1, <2>1, FS_Surjection
<1>3. y = WithDefs(r, more) /\ DOMAIN more = I
    BY DEF Monomorphize
<1>4. \A i \in DOMAIN more : Open(more[i])
    BY DEF InstanceDefinition, Open
<1> HIDE DEF more, y, I
<1>5. Solid(y) /\ DOMAIN r.defs \subseteq DOMAIN y.defs
    BY <1>2, <1>3, <1>4, WithDefsSolid
<1> QED
    BY <1>5, ListedSolid DEF y

(* A body that is read for a generic function leaves its type arguments    *)
(* open.                                                                   *)
LEMMA ElaboratedOpen ==
    ASSUME NEW r, NEW here, NEW body, NEW kind, NEW c \in Elaborate(r, here, kind, body),
           kind = "generic"
    PROVE  c.at # "concrete"
BY DEF Elaborate, TypedAt

LEMMA RereadOpen ==
    ASSUME NEW def \in Definition, NEW r, NEW here, NEW body, NEW new,
           new = [def EXCEPT !.calls = Elaborate(r, here, def.kind, body)]
    PROVE  Open(new)
<1> DEFINE E == Elaborate(r, here, def.kind, body)
<1>1. new.kind = def.kind /\ new.calls = E
    BY DEF Definition
<1>2. def.kind = "generic" => \A c \in E : c.at # "concrete"
    BY ElaboratedOpen
<1> HIDE DEF E
<1> QED
    BY <1>1, <1>2 DEF Open

(* One function more, or another body for one: the new root is solid.      *)
LEMMA WithDefSolid ==
    ASSUME NEW r, Solid(r), NEW s, NEW def, Open(def), NEW q, q = WithDef(r, s, def)
    PROVE  Solid(q) /\ DOMAIN r.defs \subseteq DOMAIN q.defs
<1> DEFINE more == [t \in {s} |-> def]
<1>1. DOMAIN more = {s} /\ more[s] = def
    OBVIOUS
<1>2. q = WithDefs(r, more)
    BY DEF WithDef
<1>3. IsFiniteSet({s})
    BY FS_Singleton
<1> HIDE DEF more
<1> QED
    BY <1>1, <1>2, <1>3, WithDefsSolid

(* So is one with more names.                                              *)
LEMMA MoreNamesSolid ==
    ASSUME NEW r, Solid(r), NEW B, NEW q, q = [r EXCEPT !.names = r.names \cup B]
    PROVE  Solid(q) /\ q.defs = r.defs
<1>1. r = [defs |-> r.defs, names |-> r.names, exports |-> r.exports,
           tests |-> r.tests, listed |-> r.listed]
    BY DEF Solid
<1>2. q = [defs |-> r.defs, names |-> r.names \cup B, exports |-> r.exports,
           tests |-> r.tests, listed |-> r.listed]
    BY <1>1
<1> QED
    BY <1>2, SameDefsSolid

(* apply_create_function                                                   *)
LEMMA CreateFunctionSolid ==
    ASSUME NEW r, Solid(r), NEW n, NEW op, NEW q \in CreateFunctionHandler(r, n, op)
    PROVE  Solid(q) /\ DOMAIN r.defs \subseteq DOMAIN q.defs
<1> DEFINE s == Born(n + 1)
           calls == Elaborate(r, op.module, op.kind, op.body)
           def == [kind |-> op.kind, params |-> op.params, calls |-> calls]
           w == WithDef(r, s, def)
           x == WithName(w, op.module, op.name, s, TRUE)
<1>1. q = SynchronizeAfter(op.module, Monomorphize(x, calls))
    BY StoredIsStorable DEF CreateFunctionHandler
<1>2. Open(def)
  <2>1. op.kind = "generic" => \A c \in calls : c.at # "concrete"
    BY ElaboratedOpen
  <2> HIDE DEF calls
  <2> QED
    BY <2>1 DEF Open
<1> HIDE DEF def, calls
<1>3. Solid(w) /\ DOMAIN r.defs \subseteq DOMAIN w.defs
    BY <1>2, WithDefSolid
<1> HIDE DEF w
<1>4. Solid(x) /\ x.defs = w.defs
  <2> DEFINE B == {[module |-> op.module, name |-> op.name, symbol |-> s,
                    preferred |-> TRUE]}
  <2>1. x = [w EXCEPT !.names = w.names \cup B]
    BY DEF WithName
  <2> HIDE DEF x, B
  <2> QED
    BY <1>3, <2>1, MoreNamesSolid
<1> HIDE DEF x
<1> QED
    BY <1>1, <1>3, <1>4, CompletedSolid

(* apply_create_external_function                                          *)
LEMMA CreateExternalSolid ==
    ASSUME NEW r, Solid(r), NEW n, NEW op, NEW q \in CreateExternalHandler(r, n, op)
    PROVE  Solid(q) /\ DOMAIN r.defs \subseteq DOMAIN q.defs
<1> DEFINE s == Born(n + 1)
           def == [kind |-> "external", params |-> op.params, calls |-> {}]
           w == WithDef(r, s, def)
           x == WithName(w, op.module, op.name, s, TRUE)
<1>1. q = SynchronizeAfter(op.module, x)
    BY StoredIsStorable DEF CreateExternalHandler
<1>2. Open(def)
    BY DEF Open
<1> HIDE DEF def
<1>3. Solid(w) /\ DOMAIN r.defs \subseteq DOMAIN w.defs
    BY <1>2, WithDefSolid
<1> HIDE DEF w
<1>4. Solid(x) /\ x.defs = w.defs
  <2> DEFINE B == {[module |-> op.module, name |-> op.name, symbol |-> s,
                    preferred |-> TRUE]}
  <2>1. x = [w EXCEPT !.names = w.names \cup B]
    BY DEF WithName
  <2> HIDE DEF x, B
  <2> QED
    BY <1>3, <2>1, MoreNamesSolid
<1> HIDE DEF x
<1> QED
    BY <1>1, <1>3, <1>4, ListedSolid

(* apply_replace_body                                                      *)
LEMMA ReplaceBodySolid ==
    ASSUME NEW r, IsRoot(r), Solid(r), NEW op, NEW q \in ReplaceBodyHandler(r, op)
    PROVE  Solid(q) /\ DOMAIN r.defs \subseteq DOMAIN q.defs
<1> DEFINE s == op.on.symbol
           def == r.defs[s]
           new == [def EXCEPT !.calls = Elaborate(r, op.on.module, def.kind, op.body)]
<1>1. s \in DOMAIN r.defs /\ q = WithDef(r, s, new)
    BY StoredIsStorable DEF ReplaceBodyHandler
<1>2. def \in Definition
    BY <1>1 DEF IsRoot
<1>3. Open(new)
    BY <1>2, RereadOpen
<1> HIDE DEF new
<1> QED
    BY <1>1, <1>3, WithDefSolid

(* apply_change_signature                                                  *)
LEMMA ChangeSignatureSolid ==
    ASSUME NEW r, IsRoot(r), Solid(r), NEW op, NEW q \in ChangeSignatureHandler(r, op)
    PROVE  Solid(q) /\ DOMAIN r.defs \subseteq DOMAIN q.defs
<1> DEFINE s == op.on.symbol
           def == r.defs[s]
           E == Elaborate(r, op.on.module, "function",
                    Render(r, op.on.module, def.calls))
           new == IF def.kind = "external" THEN [def EXCEPT !.params = op.params]
                  ELSE [kind |-> "function", params |-> op.params, calls |-> E]
<1>1. s \in DOMAIN r.defs /\ q = WithDef(r, s, new)
    BY StoredIsStorable DEF ChangeSignatureHandler
<1>2. def \in Definition
    BY <1>1 DEF IsRoot
<1> HIDE DEF E, def
<1>3. Open(new)
  <2>1. CASE def.kind = "external"
    BY <1>2, <2>1 DEF Open, Definition
  <2>2. CASE def.kind # "external"
    <3>1. new.kind = "function"
      BY <2>2
    <3> QED
      BY <3>1 DEF Open
  <2> QED
    BY <2>1, <2>2
<1> HIDE DEF new
<1> QED
    BY <1>1, <1>3, WithDefSolid

(* apply_add_parameter                                                     *)
LEMMA AddParameterSolid ==
    ASSUME NEW r, IsRoot(r), Solid(r), NEW op, op.param \in ParamNames,
           NEW q \in AddParameterHandler(r, op)
    PROVE  Solid(q) /\ DOMAIN r.defs \subseteq DOMAIN q.defs
<1> DEFINE target == op.on.symbol
           callers == Dependents(r, target)
           params == Append(r.defs[target].params, op.param)
           signature == [r.defs[target] EXCEPT !.params = params]
           signed == WithDef(r, target, signature)
           home(s) == IF s = target THEN op.on.module
                      ELSE IF BindingsOf(r.names, s) = {} THEN Main
                      ELSE PreferredBinding(r.names, s).module
           patched(s) ==
                {IF s \in callers /\ c.callee = target
                 THEN [c EXCEPT !.args = @ + 1] ELSE c : c \in r.defs[s].calls}
           body(s) == Render(signed, home(s), patched(s))
           new(s) == [signed.defs[s] EXCEPT !.calls =
                         Elaborate(signed, home(s), signed.defs[s].kind, body(s))]
           T == callers \cup {target}
           more == [s \in T |-> new(s)]
<1>1. target \in DOMAIN r.defs /\ q = WithDefs(signed, more)
    BY StoredIsStorable DEF AddParameterHandler
<1> HIDE DEF home, body
<1>2. r.defs[target] \in Definition /\ Open(r.defs[target])
    BY <1>1 DEF IsRoot, Solid
<1>3. signature \in Definition /\ Open(signature)
  <2>1. params \in Seq(ParamNames)
    BY <1>2 DEF Definition
  <2> HIDE DEF params
  <2> QED
    BY <1>2, <2>1 DEF Definition, Open
<1> HIDE DEF signature
<1>4. /\ Solid(signed)
      /\ DOMAIN r.defs \subseteq DOMAIN signed.defs
    BY <1>1, <1>3, WithDefSolid
<1>5. T \in SUBSET DOMAIN r.defs
    BY <1>1 DEF Dependents
<1> HIDE DEF T
<1>6. \A s \in T : signed.defs[s] \in Definition
  <2>1. \A s \in DOMAIN r.defs : signed.defs[s] = IF s = target THEN signature ELSE r.defs[s]
    <3> HIDE DEF target
    <3> QED
      BY DEF WithDef, WithDefs, Solid
  <2> HIDE DEF target, signed
  <2> QED
    BY <1>3, <1>5, <2>1 DEF IsRoot
<1> HIDE DEF signed
<1>7. \A s \in T : Open(new(s))
    BY <1>6, RereadOpen
<1>8. IsFiniteSet(T)
  <2>1. IsFiniteSet(DOMAIN r.defs)
    BY DEF Solid
  <2> QED
    BY <1>5, <2>1, FS_Subset
<1>9. DOMAIN more = T /\ \A s \in T : more[s] = new(s)
    OBVIOUS
<1> HIDE DEF more, new
<1>10. IsFiniteSet(DOMAIN more) /\ \A s \in DOMAIN more : Open(more[s])
    BY <1>7, <1>8, <1>9
<1> QED
    BY <1>1, <1>4, <1>10, WithDefsSolid
(* apply_create_recursion_group                                            *)
LEMMA CreateGroupSolid ==
    ASSUME NEW r, Solid(r), NEW n, NEW op, IsFiniteSet(DOMAIN op.members),
           NEW q \in CreateGroupHandler(r, n, op)
    PROVE  Solid(q) /\ DOMAIN r.defs \subseteq DOMAIN q.defs
<1> DEFINE ms == op.members
           symbols == {Born(n + i) : i \in DOMAIN ms}
           member(s) == ms[s[2] - n]
           first == [s \in symbols |->
                        [kind |-> member(s).kind, params |-> member(s).params,
                         calls |-> {}]]
           w == WithDefs(r, first)
           B == {[module |-> op.module, name |-> member(s).name, symbol |-> s,
                  preferred |-> TRUE] : s \in symbols}
           bound == [w EXCEPT !.names = @ \cup B]
           calls(s) == Elaborate(bound, op.module, member(s).kind, member(s).body)
           more == [s \in symbols |-> [bound.defs[s] EXCEPT !.calls = calls(s)]]
           new == WithDefs(bound, more)
           all == UNION {calls(s) : s \in symbols}
<1>1. q = SynchronizeAfter(op.module, Monomorphize(new, all))
    BY StoredIsStorable DEF CreateGroupHandler
<1>2. IsFiniteSet(symbols)
  <2> DEFINE I == DOMAIN ms
             f == [i \in I |-> Born(n + i)]
  <2>1. f \in Surjection(I, symbols)
    BY DEF Surjection
  <2> HIDE DEF f, symbols, I
  <2>2. IsFiniteSet(I)
    BY DEF I
  <2> QED
    BY <2>1, <2>2, FS_Surjection
<1> HIDE DEF symbols, member
<1>3. \A s \in DOMAIN first :
         /\ Open(first[s])
         /\ first[s] = [kind |-> member(s).kind, params |-> member(s).params,
                        calls |-> {}]
    BY DEF Open
<1>4. DOMAIN first = symbols
    OBVIOUS
<1> HIDE DEF first
<1>5. /\ Solid(w)
      /\ DOMAIN w.defs = DOMAIN r.defs \cup symbols
      /\ \A s \in symbols : w.defs[s] = first[s]
    BY <1>2, <1>3, <1>4, WithDefsSolid
<1> HIDE DEF w, B
<1>6. Solid(bound) /\ bound.defs = w.defs
    BY <1>5, MoreNamesSolid
<1> HIDE DEF bound
<1>7. \A s \in symbols : Open([bound.defs[s] EXCEPT !.calls = calls(s)])
  <2> SUFFICES ASSUME NEW s \in symbols
               PROVE  Open([bound.defs[s] EXCEPT !.calls = calls(s)])
    OBVIOUS
  <2> DEFINE E == calls(s)
  <2>1. bound.defs[s] = [kind |-> member(s).kind, params |-> member(s).params,
                         calls |-> {}]
    BY <1>3, <1>4, <1>5, <1>6
  <2>2. member(s).kind = "generic" => \A c \in E : c.at # "concrete"
    BY ElaboratedOpen
  <2> HIDE DEF E
  <2>3. [bound.defs[s] EXCEPT !.calls = E] =
           [kind |-> member(s).kind, params |-> member(s).params, calls |-> E]
    BY <2>1
  <2>4. Open([kind |-> member(s).kind, params |-> member(s).params, calls |-> E])
    BY <2>2 DEF Open
  <2> QED
    BY <2>3, <2>4 DEF E
<1> HIDE DEF calls
<1>8. DOMAIN more = symbols /\ \A s \in DOMAIN more : Open(more[s])
    BY <1>7
<1> HIDE DEF more
<1>9. Solid(new) /\ DOMAIN bound.defs \subseteq DOMAIN new.defs
    BY <1>2, <1>6, <1>8, WithDefsSolid
<1> HIDE DEF new, all
<1> QED
    BY <1>1, <1>5, <1>6, <1>9, CompletedSolid

(* apply_delete_symbol: what is left is as it was.                         *)
LEMMA DeleteSolid ==
    ASSUME NEW r, Solid(r), NEW op, NEW q \in DeleteHandler(r, op)
    PROVE  /\ Solid(q)
           /\ DOMAIN q.defs = DOMAIN r.defs \ {op.on.symbol}
           /\ \A s \in DOMAIN q.defs : q.defs[s] = r.defs[s]
<1> DEFINE D == [t \in DOMAIN r.defs \ {op.on.symbol} |-> r.defs[t]]
           N == r.names \ BindingsOf(r.names, op.on.symbol)
           X == {e \in r.exports : e.symbol # op.on.symbol}
           T == IF op.force THEN r.tests \ {t \in r.tests : t.case.entry = op.on.symbol}
                ELSE r.tests
<1>1. q = [defs |-> D, names |-> N, exports |-> X, tests |-> T, listed |-> r.listed]
    BY StoredIsStorable DEF DeleteHandler
<1>2. /\ DOMAIN D = DOMAIN r.defs \ {op.on.symbol}
      /\ D = [s \in DOMAIN D |-> D[s]]
      /\ \A t \in DOMAIN D : D[t] = r.defs[t]
    OBVIOUS
<1> HIDE DEF D, N, X, T
<1>3. /\ q.defs = D /\ q.names = N /\ q.exports = X /\ q.tests = T
      /\ q.listed = r.listed
    BY <1>1
<1>4. IsFiniteSet(DOMAIN D)
  <2> DEFINE A == DOMAIN r.defs
  <2>1. IsFiniteSet(A)
    BY DEF Solid
  <2>2. DOMAIN D = A \ {op.on.symbol}
    BY <1>2
  <2> HIDE DEF A
  <2>3. IsFiniteSet(A \ {op.on.symbol})
    BY <2>1, FS_RemoveElement
  <2> QED
    BY <2>2, <2>3
<1>5. \A s \in DOMAIN D : Open(D[s])
    BY <1>2 DEF Solid
<1> QED
    BY <1>1, <1>2, <1>3, <1>4, <1>5 DEF Solid
(* Deletes(r, q): the step from r to q is a deletion.                      *)
Deletes(r, q) == \E op \in DeleteOps(r) : q \in DeleteHandler(r, op)

(* An operation that leaves the definitions alone.                         *)
LEMMA UntouchedSolid ==
    ASSUME NEW r, Solid(r), NEW q, IsRoot(q), q.defs = r.defs
    PROVE  Solid(q)
<1>1. q = [defs |-> q.defs, names |-> q.names, exports |-> q.exports,
           tests |-> q.tests, listed |-> q.listed]
    BY DEF IsRoot
<1> QED
    BY <1>1 DEF Solid

(* Every operation of the history.                                         *)
LEMMA NextSolid ==
    ASSUME Inv, Solid(root), Next
    PROVE  /\ Solid(root')
           /\ DOMAIN root.defs \subseteq DOMAIN root'.defs \/ Deletes(root, root')
<1>1. RootInv(root, births) /\ IsRoot(root) /\ RootInv(root', births')
    BY NextInv DEF Inv, RootInv, ShapeInv
<1>2. ASSUME root'.defs = root.defs
      PROVE  /\ Solid(root')
             /\ DOMAIN root.defs \subseteq DOMAIN root'.defs
    BY <1>1, <1>2, UntouchedSolid DEF RootInv, ShapeInv
<1>3. CASE CreateFunction
  <2>1. PICK op \in CreateFunctionOps : Apply(op)
    BY <1>3 DEF CreateFunction
  <2>2. op.op = "create_function"
    BY DEF CreateFunctionOps
  <2>3. root' \in CreateFunctionHandler(root, births, op)
    BY <2>1, <2>2, AppliedRoot DEF Handle
  <2> QED
    BY <1>1, <2>3, CreateFunctionSolid
<1>4. CASE CreateExternalFunction
  <2>1. PICK op \in CreateExternalOps : Apply(op)
    BY <1>4 DEF CreateExternalFunction
  <2>2. op.op = "create_external_function"
    BY DEF CreateExternalOps
  <2>3. root' \in CreateExternalHandler(root, births, op)
    BY <2>1, <2>2, AppliedRoot DEF Handle
  <2> QED
    BY <1>1, <2>3, CreateExternalSolid
<1>5. CASE CreateRecursionGroup
  <2>1. PICK op \in CreateGroupOps : Apply(op)
    BY <1>5 DEF CreateRecursionGroup
  <2>2. op.op = "create_recursion_group"
    BY DEF CreateGroupOps
  <2>3. root' \in CreateGroupHandler(root, births, op)
    BY <2>1, <2>2, AppliedRoot DEF Handle
  <2>4. IsFiniteSet(DOMAIN op.members)
    <3>1. op.members \in Seq([name : Names, kind : {"function", "generic"},
                              params : Seq(ParamNames), body : SUBSET RawCall])
      BY GroupsAssumption DEF CreateGroupOps
    <3>2. Len(op.members) \in Nat /\ DOMAIN op.members = 1 .. Len(op.members)
      BY <3>1
    <3> QED
      BY <3>2, FS_Interval
  <2> QED
    BY <1>1, <2>3, <2>4, CreateGroupSolid
<1>6. CASE RenameSymbol
  <2>1. PICK op \in RenameOps(root) : Apply(op)
    BY <1>6 DEF RenameSymbol
  <2>2. op.op = "rename_symbol"
    BY DEF RenameOps
  <2>3. root' \in RenameHandler(root, op)
    BY <2>1, <2>2, AppliedRoot DEF Handle
  <2> QED
    BY <1>1, <1>2, <2>3, RenameKeepsInv
<1>7. CASE MoveSymbol
  <2>1. PICK op \in MoveOps(root) : Apply(op)
    BY <1>7 DEF MoveSymbol
  <2>2. op.op = "move_symbol"
    BY DEF MoveOps
  <2>3. root' \in MoveHandler(root, op)
    BY <2>1, <2>2, AppliedRoot DEF Handle
  <2> QED
    BY <1>1, <1>2, <2>3, MoveKeepsInv
<1>8. CASE CreateAlias
  <2>1. PICK op \in CreateAliasOps(root) : Apply(op)
    BY <1>8 DEF CreateAlias
  <2>2. op.op = "create_alias"
    BY DEF CreateAliasOps
  <2>3. root' \in CreateAliasHandler(root, op)
    BY <2>1, <2>2, AppliedRoot DEF Handle
  <2> QED
    BY <1>1, <1>2, <2>3, CreateAliasKeepsInv
<1>9. CASE RemoveAlias
  <2>1. PICK op \in RemoveAliasOps(root) : Apply(op)
    BY <1>9 DEF RemoveAlias
  <2>2. op.op = "remove_alias"
    BY DEF RemoveAliasOps
  <2>3. root' \in RemoveAliasHandler(root, op)
    BY <2>1, <2>2, AppliedRoot DEF Handle
  <2> QED
    BY <1>1, <1>2, <2>3, RemoveAliasKeepsInv
<1>10. CASE ReplaceFunctionBody
  <2>1. PICK op \in ReplaceBodyOps(root) : Apply(op)
    BY <1>10 DEF ReplaceFunctionBody
  <2>2. op.op = "replace_function_body"
    BY DEF ReplaceBodyOps
  <2>3. root' \in ReplaceBodyHandler(root, op)
    BY <2>1, <2>2, AppliedRoot DEF Handle
  <2> QED
    BY <1>1, <2>3, ReplaceBodySolid
<1>11. CASE ChangeFunctionSignature
  <2>1. PICK op \in ChangeSignatureOps(root) : Apply(op)
    BY <1>11 DEF ChangeFunctionSignature
  <2>2. op.op = "change_function_signature"
    BY DEF ChangeSignatureOps
  <2>3. root' \in ChangeSignatureHandler(root, op)
    BY <2>1, <2>2, AppliedRoot DEF Handle
  <2> QED
    BY <1>1, <2>3, ChangeSignatureSolid
<1>12. CASE AddParameter
  <2>1. PICK op \in AddParameterOps(root) : Apply(op)
    BY <1>12 DEF AddParameter
  <2>2. op.op = "add_parameter"
    BY DEF AddParameterOps
  <2>3. root' \in AddParameterHandler(root, op)
    BY <2>1, <2>2, AppliedRoot DEF Handle
  <2>4. op.param \in ParamNames
    BY DEF AddParameterOps
  <2> QED
    BY <1>1, <2>3, <2>4, AddParameterSolid
<1>13. CASE DeleteSymbol
  <2>1. PICK op \in DeleteOps(root) : Apply(op)
    BY <1>13 DEF DeleteSymbol
  <2>2. op.op = "delete_symbol"
    BY DEF DeleteOps
  <2>3. root' \in DeleteHandler(root, op)
    BY <2>1, <2>2, AppliedRoot DEF Handle
  <2> QED
    BY <1>1, <2>3, DeleteSolid DEF Deletes
<1>14. CASE SetExport
  <2>1. PICK op \in SetExportOps(root) : Apply(op)
    BY <1>14 DEF SetExport
  <2>2. op.op = "set_export"
    BY DEF SetExportOps
  <2>3. root' \in SetExportHandler(root, op)
    BY <2>1, <2>2, AppliedRoot DEF Handle
  <2> QED
    BY <1>1, <1>2, <2>3, SetExportKeepsInv
<1>15. CASE RemoveExport
  <2>1. PICK op \in RemoveExportOps(root) : Apply(op)
    BY <1>15 DEF RemoveExport
  <2>2. op.op = "remove_export"
    BY DEF RemoveExportOps
  <2>3. root' \in RemoveExportHandler(root, op)
    BY <2>1, <2>2, AppliedRoot DEF Handle
  <2> QED
    BY <1>1, <1>2, <2>3, RemoveExportKeepsInv
<1>16. CASE CreateTest
  <2>1. PICK op \in CreateTestOps(root) : Apply(op)
    BY <1>16 DEF CreateTest
  <2>2. op.op = "create_test"
    BY DEF CreateTestOps
  <2>3. root' \in CreateTestHandler(root, op)
    BY <2>1, <2>2, AppliedRoot DEF Handle
  <2> QED
    BY <1>1, <1>2, <2>3, CreateTestKeepsInv
<1>17. CASE DeleteTest
  <2>1. PICK op \in DeleteTestOps(root) : Apply(op)
    BY <1>17 DEF DeleteTest
  <2>2. op.op = "delete_test"
    BY DEF DeleteTestOps
  <2>3. root' \in DeleteTestHandler(root, op)
    BY <2>1, <2>2, AppliedRoot DEF Handle
  <2> QED
    BY <1>1, <1>2, <2>3, DeleteTestKeepsInv
<1> QED
    BY <1>3, <1>4, <1>5, <1>6, <1>7, <1>8, <1>9, <1>10, <1>11, <1>12, <1>13,
       <1>14, <1>15, <1>16, <1>17 DEF Next

SolidRoot == Solid(root)

(* The empty program is solid, so every root is.                           *)
LEMMA SolidHolds == Spec => []SolidRoot
<1>1. Init => SolidRoot
  <2> SUFFICES ASSUME Init PROVE Solid(root)
    BY DEF SolidRoot
  <2>1. root = [defs |-> << >>, names |-> {}, exports |-> {}, tests |-> {}, listed |-> {}]
    BY DEF Init, EmptyRoot
  <2>2. /\ root.names = {} /\ root.exports = {}
        /\ root.tests = {} /\ root.listed = {} /\ root.defs = << >>
    BY <2>1
  <2>3. DOMAIN << >> = {} /\ << >> = [s \in {} |-> << >>[s]]
    OBVIOUS
  <2>4. IsFiniteSet({})
    BY FS_EmptySet
  <2> QED
    BY <2>1, <2>2, <2>3, <2>4 DEF Solid
<1>2. Inv /\ SolidRoot /\ [Next]_vars => SolidRoot'
    BY NextSolid DEF SolidRoot, vars
<1> QED
    BY <1>1, <1>2, InvHolds, PTL DEF Spec
(***************************************************************************)
(* Reachability.                                                           *)
(***************************************************************************)
(* A search ends with the least set that has the entry and is closed: all  *)
(* that is in it, and nothing that need not be.                            *)
LEMMA ReachedIsClosure ==
    ASSUME NEW D, IsFiniteSet(D), NEW entry \in D, NEW next \in [D -> SUBSET D]
    PROVE  LET C == Reached(next, entry)
           IN  /\ C \subseteq D
               /\ entry \in C
               /\ \A s \in C : next[s] \subseteq C
               /\ \A X : entry \in X /\ (\A s \in X \cap C : next[s] \subseteq X)
                         => C \subseteq X
<1> DEFINE Step(f) == [n \in Nat |->
                         IF n = 0 THEN {entry}
                         ELSE f[n - 1] \cup UNION {next[s] : s \in f[n - 1]}]
           seen == CHOOSE f : f = Step(f)
           C == Reached(next, entry)
<1>1. C = seen[Cardinality(D)]
  <2>1. DOMAIN next = D
    OBVIOUS
  <2> QED
    BY <2>1 DEF Reached
<1> HIDE DEF C
<1>2. \E f : f = Step(f)
  <2>1. PICK f \in [Nat -> SUBSET D] : Rounds(D, entry, next, f)
    BY SearchExists
  <2>2. \A n \in Nat : f[n] = Step(f)[n]
    <3> SUFFICES ASSUME NEW n \in Nat PROVE f[n] = Step(f)[n]
      OBVIOUS
    <3>1. CASE n = 0
      BY <2>1, <3>1 DEF Rounds
    <3>2. CASE n # 0
      <4>1. n - 1 \in Nat /\ (n - 1) + 1 = n
        BY <3>2
      <4>2. f[n] = f[n - 1] \cup UNION {next[s] : s \in f[n - 1]}
        BY <2>1, <4>1 DEF Rounds
      <4> QED
        BY <3>2, <4>2
    <3> QED
      BY <3>1, <3>2
  <2>3. f = Step(f)
    BY <2>2
  <2> QED
    BY <2>3
<1>3. seen = Step(seen)
    BY <1>2
<1> HIDE DEF seen
<1>4. Rounds(D, entry, next, seen)
  <2>1. seen[0] = {entry}
    BY <1>3
  <2>2. ASSUME NEW n \in Nat
        PROVE  seen[n + 1] = seen[n] \cup UNION {next[s] : s \in seen[n]}
    <3>1. n + 1 \in Nat /\ n + 1 # 0 /\ (n + 1) - 1 = n
      OBVIOUS
    <3> QED
      BY <1>3, <3>1
  <2> QED
    BY <2>1, <2>2 DEF Rounds
<1> QED
    BY <1>1, <1>4, SearchIsLeastClosure DEF C

(* reachable_symbols ends with the symbols that the entry depends on.      *)
LEMMA ReachableIsClosure ==
    ASSUME NEW r, Solid(r), NEW entry \in DOMAIN r.defs
    PROVE  LET C == ReachableSymbols(r, entry)
           IN  /\ C \subseteq DOMAIN r.defs
               /\ entry \in C
               /\ \A s \in C : Dependencies(r, s) \subseteq C
               /\ \A X : /\ entry \in X
                         /\ \A s \in X \cap C : Dependencies(r, s) \subseteq X
                         => C \subseteq X
<1> DEFINE D == DOMAIN r.defs
           next == [s \in D |-> Dependencies(r, s)]
           C == ReachableSymbols(r, entry)
<1>1. C = Reached(next, entry)
    BY DEF ReachableSymbols
<1>2. next \in [D -> SUBSET D] /\ \A s \in D : next[s] = Dependencies(r, s)
    BY DEF Dependencies
<1>3. IsFiniteSet(D) /\ entry \in D
    BY DEF Solid
<1> HIDE DEF next, D, C
<1>4. /\ C \subseteq D
      /\ entry \in C
      /\ \A s \in C : next[s] \subseteq C
      /\ \A X : entry \in X /\ (\A s \in X \cap C : next[s] \subseteq X) => C \subseteq X
    BY <1>1, <1>2, <1>3, ReachedIsClosure
<1> QED
    BY <1>2, <1>4 DEF D, C
(***************************************************************************)
(* Link plans.                                                             *)
(***************************************************************************)
(* The symbols that parts of a plan carry.                                 *)
LEMMA PlanSymbols ==
    ASSUME NEW r, NEW s
    PROVE  /\ ObjectKey(r, s).definition.interface.symbol = s
           /\ {i.symbol : i \in ObjectKey(r, s).interfaces} = Dependencies(r, s)
           /\ DefinitionHash(r, s).interface.symbol = s
<1>1. DefinitionHash(r, s).interface.symbol = s
    BY DEF DefinitionHash, Interface
<1>2. ObjectKey(r, s).definition = DefinitionHash(r, s)
    BY DEF ObjectKey
<1>3. ObjectKey(r, s).interfaces = {Interface(r, t) : t \in Dependencies(r, s)}
    BY DEF ObjectKey
<1>4. \A t : Interface(r, t).symbol = t
    BY DEF Interface
<1> QED
    BY <1>1, <1>2, <1>3, <1>4

(* What lowering makes of a call is in the dependency index.               *)
LEMMA TargetIsDependency ==
    ASSUME NEW r, IsRoot(r), NEW s \in DOMAIN r.defs, Lowers(r, s),
           NEW c \in r.defs[s].calls
    PROVE  CallTarget(c) \in Dependencies(r, s)
<1>1. c.at \in {"plain", "concrete", "parametric"}
    BY DEF IsRoot, Definition, Call
<1>2. c.at # "parametric" /\ CallTarget(c) \in DOMAIN r.defs
    BY DEF Lowers
<1> QED
    BY <1>1, <1>2 DEF CallTarget, Dependencies

(* An executable is linked from all that it calls: see LinkComplete        *)
(* (plan_link_jobs, collect_expr_deps, lower_expr).                        *)
THEOREM LinksAreComplete == Spec => []LinkComplete
<1>1. Inv /\ SolidRoot => LinkComplete
  <2> SUFFICES ASSUME Inv, Solid(root),
                      NEW entry \in Entries(root), NEW plan \in LinkPlan(root, entry)
               PROVE  LET linked == {o.definition.interface.symbol : o \in plan.objects}
                          known == linked \cup {d.interface.symbol : d \in plan.externals}
                      IN  /\ entry \in linked
                          /\ \A s \in linked : \A c \in root.defs[s].calls :
                                CallTarget(c) \in known
                          /\ \A o \in plan.objects :
                                {i.symbol : i \in o.interfaces} \subseteq known
    BY DEF LinkComplete, SolidRoot
  <2> DEFINE reach == ReachableSymbols(root, entry)
             objects == reach \ Externals(root)
             externals == reach \cap Externals(root)
             linked == {o.definition.interface.symbol : o \in plan.objects}
             known == linked \cup {d.interface.symbol : d \in plan.externals}
  <2>1. entry \in DOMAIN root.defs /\ entry \notin Externals(root)
    BY DEF Entries, Externals
  <2>2. /\ \A s \in objects : Lowers(root, s)
        /\ plan.objects = {ObjectKey(root, s) : s \in objects}
        /\ plan.externals = {DefinitionHash(root, s) : s \in externals}
    BY DEF LinkPlan
  <2>3. IsRoot(root)
    BY DEF Inv, RootInv, ShapeInv
  <2>4. /\ reach \subseteq DOMAIN root.defs
        /\ entry \in reach
        /\ \A s \in reach : Dependencies(root, s) \subseteq reach
    BY <2>1, ReachableIsClosure
  <2> HIDE DEF reach
  <2>5. linked = objects /\ known = reach
    <3>1. linked = {ObjectKey(root, s).definition.interface.symbol : s \in objects}
      BY <2>2
    <3>2. \A s : ObjectKey(root, s).definition.interface.symbol = s
      BY PlanSymbols
    <3>3. linked = objects
      <4> HIDE DEF linked, objects
      <4> QED
        BY <3>1, <3>2
    <3>4. {d.interface.symbol : d \in plan.externals} = externals
      BY <2>2, PlanSymbols
    <3> QED
      BY <3>3, <3>4
  <2>6. \A s \in objects : \A c \in root.defs[s].calls : CallTarget(c) \in reach
    BY <2>2, <2>3, <2>4, TargetIsDependency
  <2>7. \A o \in plan.objects : {i.symbol : i \in o.interfaces} \subseteq reach
    BY <2>2, <2>4, PlanSymbols
  <2> HIDE DEF linked, known
  <2> QED
    BY <2>1, <2>4, <2>5, <2>6, <2>7 DEF linked, known
<1> QED
    BY <1>1, InvHolds, SolidHolds, PTL
(***************************************************************************)
(* Build impact.                                                           *)
(***************************************************************************)
Untouched(r, q, s) ==
    /\ s \in Common(r, q)
    /\ DefinitionHash(r, s) = DefinitionHash(q, s)
    /\ Dependencies(r, s) = Dependencies(q, s)
    /\ Signature(r.defs[s]) = Signature(q.defs[s])

(* A symbol that both roots have is signed anew, given another body or     *)
(* dependencies, or untouched.                                             *)
LEMMA TouchedOrNot ==
    ASSUME NEW r, NEW q, NEW s \in Common(r, q),
           s \notin Resigned(r, q), s \notin Rebodied(r, q)
    PROVE  Untouched(r, q, s)
BY DEF Resigned, Rebodied, Untouched

(* An object changes with its function and with the signatures of those it *)
(* depends on (build_function_object_key).                                 *)
LEMMA SameObject ==
    ASSUME NEW r, NEW q, NEW s, Untouched(r, q, s),
           \A t \in Dependencies(r, s) : t \notin Resigned(r, q)
    PROVE  ObjectKey(r, s) = ObjectKey(q, s)
<1>1. \A t \in Dependencies(r, s) : t \in Common(r, q)
    BY DEF Untouched, Dependencies, Common
<1>2. \A t \in Dependencies(r, s) : Interface(r, t) = Interface(q, t)
    BY <1>1 DEF Resigned, Interface
<1>3. {Interface(r, t) : t \in Dependencies(r, s)} =
      {Interface(q, t) : t \in Dependencies(q, s)}
    BY <1>2 DEF Untouched
<1> QED
    BY <1>3 DEF ObjectKey, Untouched

(* What is not recompiled need not be: dependents of a function that is    *)
(* signed anew are (dependents_for_signature_change).                      *)
LEMMA ObjectsKept ==
    ASSUME NEW r, NEW q, Solid(q), NEW s \in DOMAIN q.defs \ RecompileSymbols(r, q)
    PROVE  ObjectKey(r, s) = ObjectKey(q, s)
<1>1. /\ s \in Common(r, q)
      /\ s \notin Resigned(r, q) /\ s \notin Rebodied(r, q)
      /\ s \notin DependentsForSignatureChange(r, q)
    BY DEF RecompileSymbols, Added, Common
<1>2. Untouched(r, q, s)
    BY <1>1, TouchedOrNot
<1>3. ASSUME NEW t \in Dependencies(r, s), t \in Resigned(r, q) PROVE FALSE
  <2>1. t \in Dependencies(q, s) /\ t \in DOMAIN q.defs
    BY <1>2, <1>3 DEF Untouched, Dependencies
  <2>2. t \in ReachableSymbols(q, t)
    BY <2>1, ReachableIsClosure
  <2>3. s \in TransitiveDependents(q, t)
    BY <2>1, <2>2 DEF TransitiveDependents
  <2>4. s \in DependentsForSignatureChange(r, q)
    BY <1>3, <2>3 DEF DependentsForSignatureChange
  <2> QED
    BY <1>1, <2>4
<1> QED
    BY <1>2, <1>3, SameObject

(* Reachability is a matter of the dependency index.                       *)
LEMMA SameReach ==
    ASSUME NEW r, NEW q, Solid(r), Solid(q), DOMAIN r.defs = DOMAIN q.defs,
           \A s \in DOMAIN q.defs : Dependencies(r, s) = Dependencies(q, s),
           NEW entry \in DOMAIN q.defs
    PROVE  ReachableSymbols(r, entry) = ReachableSymbols(q, entry)
<1> DEFINE A == ReachableSymbols(r, entry)
           B == ReachableSymbols(q, entry)
<1>1. /\ A \subseteq DOMAIN r.defs
      /\ entry \in A
      /\ \A s \in A : Dependencies(r, s) \subseteq A
      /\ \A X : entry \in X /\ (\A s \in X \cap A : Dependencies(r, s) \subseteq X)
                => A \subseteq X
    BY ReachableIsClosure
<1>2. /\ B \subseteq DOMAIN q.defs
      /\ entry \in B
      /\ \A s \in B : Dependencies(q, s) \subseteq B
      /\ \A X : entry \in X /\ (\A s \in X \cap B : Dependencies(q, s) \subseteq X)
                => B \subseteq X
    BY ReachableIsClosure
<1> HIDE DEF A, B
<1>3. A \subseteq B
    BY <1>1, <1>2
<1>4. B \subseteq A
    BY <1>1, <1>2
<1> QED
    BY <1>3, <1>4 DEF A, B

(* An executable that is not linked again would be linked from the same    *)
(* objects, externals and exports.                                         *)
LEMMA PlansKept ==
    ASSUME NEW r, NEW q, Solid(r), Solid(q), ~LinkChanged(r, q),
           NEW entry \in Entries(q)
    PROVE  LinkPlan(r, entry) = LinkPlan(q, entry)
<1>1. /\ r.exports = q.exports /\ DOMAIN r.defs = DOMAIN q.defs
      /\ Resigned(r, q) = {} /\ Rebodied(r, q) = {}
    BY DEF LinkChanged
<1>2. \A s \in DOMAIN q.defs : Untouched(r, q, s)
    BY <1>1, TouchedOrNot DEF Common
<1>3. entry \in DOMAIN q.defs
    BY DEF Entries
<1>4. \A s \in DOMAIN q.defs :
         /\ r.defs[s].kind = q.defs[s].kind
         /\ r.defs[s].calls = q.defs[s].calls
         /\ Interface(r, s) = Interface(q, s)
         /\ DefinitionHash(r, s) = DefinitionHash(q, s)
         /\ ObjectKey(r, s) = ObjectKey(q, s)
  <2> SUFFICES ASSUME NEW s \in DOMAIN q.defs
               PROVE  /\ r.defs[s].kind = q.defs[s].kind
                      /\ r.defs[s].calls = q.defs[s].calls
                      /\ Interface(r, s) = Interface(q, s)
                      /\ DefinitionHash(r, s) = DefinitionHash(q, s)
                      /\ ObjectKey(r, s) = ObjectKey(q, s)
    OBVIOUS
  <2>1. Untouched(r, q, s)
    BY <1>2
  <2>2. DefinitionHash(r, s) = DefinitionHash(q, s)
    BY <2>1 DEF Untouched
  <2>3. ObjectKey(r, s) = ObjectKey(q, s)
    BY <1>1, <2>1, SameObject
  <2> QED
    BY <2>2, <2>3 DEF DefinitionHash
<1>5. /\ Externals(r) = Externals(q)
      /\ \A s \in DOMAIN q.defs : Lowers(r, s) <=> Lowers(q, s)
    BY <1>1, <1>4 DEF Externals, Lowers
<1>6. /\ ReachableSymbols(r, entry) = ReachableSymbols(q, entry)
      /\ ReachableSymbols(q, entry) \subseteq DOMAIN q.defs
    BY <1>1, <1>2, <1>3, SameReach, ReachableIsClosure DEF Untouched
<1> DEFINE reach == ReachableSymbols(q, entry)
           objects == reach \ Externals(q)
           externals == reach \cap Externals(q)
<1>7. objects \subseteq DOMAIN q.defs /\ externals \subseteq DOMAIN q.defs
    BY <1>6
<1>8. /\ ReachableSymbols(r, entry) \ Externals(r) = objects
      /\ ReachableSymbols(r, entry) \cap Externals(r) = externals
    BY <1>5, <1>6
<1> HIDE DEF objects, externals
<1>9. /\ {ObjectKey(r, s) : s \in objects} = {ObjectKey(q, s) : s \in objects}
      /\ {DefinitionHash(r, s) : s \in externals} = {DefinitionHash(q, s) : s \in externals}
      /\ LinkedExports(r, objects) = LinkedExports(q, objects)
      /\ Interface(r, entry) = Interface(q, entry)
      /\ (\A s \in objects : Lowers(r, s)) <=> (\A s \in objects : Lowers(q, s))
    BY <1>1, <1>3, <1>4, <1>5, <1>7 DEF LinkedExports
<1> DEFINE plan(p) == [entry |-> Interface(p, entry),
                       objects |-> {ObjectKey(p, s) : s \in objects},
                       externals |-> {DefinitionHash(p, s) : s \in externals},
                       exports |-> LinkedExports(p, objects)]
<1>10. plan(r) = plan(q)
    BY <1>9
<1>11. /\ LinkPlan(r, entry) = IF \A s \in objects : Lowers(r, s) THEN {plan(r)} ELSE {}
       /\ LinkPlan(q, entry) = IF \A s \in objects : Lowers(q, s) THEN {plan(q)} ELSE {}
    BY <1>8 DEF LinkPlan, objects, externals
<1> HIDE DEF plan
<1> QED
    BY <1>9, <1>10, <1>11
(* The kinds of impact, in their order (BuildImpactKind).                  *)
LEMMA RankOrder ==
    /\ Rank("metadata_only") = 1
    /\ Rank("relink_only") = 2
    /\ Rank("recompile_symbols") = 3
    /\ Rank("recompile_dependents") = 4
    /\ Rank("full_rebuild") = 5
<1>1. DOMAIN Ranks = 1 .. 5
    BY DEF Ranks
<1>2. /\ Ranks[1] = "metadata_only" /\ Ranks[2] = "relink_only"
      /\ Ranks[3] = "recompile_symbols" /\ Ranks[4] = "recompile_dependents"
      /\ Ranks[5] = "full_rebuild"
    BY DEF Ranks
<1>3. \A i \in 1 .. 5 : i \in {1, 2, 3, 4, 5}
    OBVIOUS
<1>4. \A i, j \in 1 .. 5 : Ranks[i] = Ranks[j] => i = j
    BY <1>2, <1>3
<1>5. \A i \in 1 .. 5 : Rank(Ranks[i]) = i
    BY <1>1, <1>4 DEF Rank
<1> QED
    BY <1>2, <1>5

(* Roots with the same definitions, names and marks are the same root: the *)
(* planner classifies every change.                                        *)
LEMMA EveryChangeIsClassified ==
    ASSUME NEW r, NEW q, IsRoot(r), IsRoot(q), Solid(r), Solid(q)
    PROVE  ~Unclassified(r, q)
<1> SUFFICES ASSUME ~LinkChanged(r, q), ~MetadataChanged(r, q) PROVE r = q
    BY DEF Unclassified
<1>1. /\ r.exports = q.exports /\ DOMAIN r.defs = DOMAIN q.defs
      /\ Resigned(r, q) = {} /\ Rebodied(r, q) = {}
    BY DEF LinkChanged
<1>2. /\ r.names = q.names /\ r.tests = q.tests /\ r.listed = q.listed
      /\ \A s \in Common(r, q) : r.defs[s].params = q.defs[s].params
    BY DEF MetadataChanged
<1>3. \A s \in DOMAIN q.defs : r.defs[s] = q.defs[s]
  <2> SUFFICES ASSUME NEW s \in DOMAIN q.defs PROVE r.defs[s] = q.defs[s]
    OBVIOUS
  <2>1. s \in Common(r, q)
    BY <1>1 DEF Common
  <2>2. DefinitionHash(r, s) = DefinitionHash(q, s)
    BY <1>1, <2>1, TouchedOrNot DEF Untouched
  <2>3. r.defs[s].kind = q.defs[s].kind /\ r.defs[s].calls = q.defs[s].calls
    BY <2>2 DEF DefinitionHash
  <2>4. r.defs[s].params = q.defs[s].params
    BY <1>2, <2>1
  <2>5. r.defs[s] \in Definition /\ q.defs[s] \in Definition
    BY <1>1 DEF IsRoot
  <2> QED
    BY <2>3, <2>4, <2>5 DEF Definition
<1>4. r.defs = q.defs
  <2>1. /\ r.defs = [s \in DOMAIN r.defs |-> r.defs[s]]
        /\ q.defs = [s \in DOMAIN q.defs |-> q.defs[s]]
    BY DEF Solid
  <2> QED
    BY <1>1, <1>3, <2>1
<1>5. /\ r = [defs |-> r.defs, names |-> r.names, exports |-> r.exports,
              tests |-> r.tests, listed |-> r.listed]
      /\ q = [defs |-> q.defs, names |-> q.names, exports |-> q.exports,
              tests |-> q.tests, listed |-> q.listed]
    BY DEF Solid
<1> QED
    BY <1>1, <1>2, <1>4, <1>5

(* What a deletion leaves is compiled and depends on what it did before.   *)
LEMMA DeletionRecompilesNothing ==
    ASSUME NEW r, NEW n, RootInv(r, n), Solid(r), NEW q, Deletes(r, q)
    PROVE  Added(r, q) = {} /\ Resigned(r, q) = {} /\ Rebodied(r, q) = {}
<1>1. PICK op \in DeleteOps(r) : q \in DeleteHandler(r, op)
    BY DEF Deletes
<1> DEFINE d == op.on.symbol
<1>2. /\ DOMAIN q.defs = DOMAIN r.defs \ {d}
      /\ \A s \in DOMAIN q.defs : q.defs[s] = r.defs[s]
    BY <1>1, DeleteSolid
<1>3. d \in Symbol /\ d[1] = "born"
  <2>1. StillNamed(r, op)
    BY <1>1 DEF DeleteHandler
  <2> QED
    BY <2>1, StillNamedSymbol
<1>4. IsRoot(r) /\ RootInv(q, n)
    BY <1>1, DeleteKeepsInv DEF RootInv, ShapeInv
<1> HIDE DEF d
<1>5. Added(r, q) = {}
    BY <1>2 DEF Added
<1>6. ASSUME NEW s \in Common(r, q)
      PROVE  /\ Signature(r.defs[s]) = Signature(q.defs[s])
             /\ DefinitionHash(r, s) = DefinitionHash(q, s)
             /\ Dependencies(r, s) = Dependencies(q, s)
  <2>1. s \in DOMAIN q.defs /\ s \in DOMAIN r.defs /\ q.defs[s] = r.defs[s]
    BY <1>2 DEF Common
  <2>2. \A c \in r.defs[s].calls : c.callee # d /\ InstanceOf(c.callee) # d
    <3> SUFFICES ASSUME NEW c \in r.defs[s].calls
                 PROVE  c.callee # d /\ InstanceOf(c.callee) # d
      OBVIOUS
    <3>1. c \in Call /\ c.callee \in DOMAIN q.defs
      BY <1>4, <2>1, CallsKnown
    <3>2. c.callee \in Symbol
      BY <3>1 DEF Call
    <3>3. InstanceOf(c.callee)[1] = "instance"
      BY <3>2, Symbols
    <3> QED
      BY <1>2, <1>3, <3>1, <3>3
  <2>3. Dependencies(r, s) = Dependencies(q, s)
    BY <1>2, <2>1, <2>2 DEF Dependencies
  <2>4. DefinitionHash(r, s) = DefinitionHash(q, s)
    BY <2>1 DEF DefinitionHash, Interface
  <2> QED
    BY <2>1, <2>3, <2>4
<1> QED
    BY <1>5, <1>6 DEF Resigned, Rebodied

(* The plan of a step covers it.                                           *)
LEMMA StepCovered ==
    ASSUME NEW r, NEW n, RootInv(r, n), Solid(r),
           NEW q, NEW k, RootInv(q, k), Solid(q),
           DOMAIN r.defs \subseteq DOMAIN q.defs \/ Deletes(r, q)
    PROVE  ImpactCovers(r, q)
<1>1. ~Unclassified(r, q)
    BY EveryChangeIsClassified DEF RootInv, ShapeInv
<1>2. \A s \in DOMAIN q.defs \ (RecompileSymbols(r, q) \cup Externals(q)) :
         ObjectKey(r, s) = ObjectKey(q, s)
    BY ObjectsKept
<1>3. ~Relink(r, q) => \A s \in Entries(q) : LinkPlan(r, s) = LinkPlan(q, s)
    BY PlansKept DEF Relink
<1>4. Rank(ImpactKind(r, q)) < Rank("recompile_symbols") =>
         RecompileSymbols(r, q) = {}
  <2> SUFFICES ASSUME Rank(ImpactKind(r, q)) < Rank("recompile_symbols")
               PROVE  RecompileSymbols(r, q) = {}
    OBVIOUS
  <2>1. Resigned(r, q) = {} /\ Added(r, q) \cup Rebodied(r, q) = {}
    BY RankOrder DEF ImpactKind
  <2>2. DependentsForSignatureChange(r, q) = {}
    BY <2>1 DEF DependentsForSignatureChange
  <2> QED
    BY <2>1, <2>2 DEF RecompileSymbols
<1>5. ImpactKind(r, q) = "metadata_only" => ~Relink(r, q)
    BY <1>1 DEF ImpactKind, Relink
<1>6. Removed(r, q) # {} =>
         Rank(ImpactKind(r, q)) <= Rank(FallbackKind([op |-> "delete_symbol"]))
  <2> SUFFICES ASSUME Removed(r, q) # {}
               PROVE  Rank(ImpactKind(r, q)) <= Rank(FallbackKind([op |-> "delete_symbol"]))
    OBVIOUS
  <2>1. Deletes(r, q)
    BY DEF Removed
  <2>2. Added(r, q) = {} /\ Resigned(r, q) = {} /\ Rebodied(r, q) = {}
    BY <2>1, DeletionRecompilesNothing
  <2>3. ImpactKind(r, q) \in {"relink_only", "metadata_only"}
    BY <1>1, <2>2 DEF ImpactKind
  <2>4. FallbackKind([op |-> "delete_symbol"]) = "relink_only"
    BY DEF FallbackKind
  <2> QED
    BY <2>3, <2>4, RankOrder
<1> QED
    BY <1>1, <1>2, <1>3, <1>4, <1>5, <1>6 DEF ImpactCovers

(* What an operation leaves compiled and linked may stay so: see           *)
(* ImpactCovers (plan_build_impact).                                       *)
THEOREM ImpactIsSound == Spec => ImpactSound
<1>1. Inv /\ SolidRoot /\ Next => ImpactCovers(root, root')
  <2> SUFFICES ASSUME Inv, Solid(root), Next PROVE ImpactCovers(root, root')
    BY DEF SolidRoot
  <2>1. RootInv(root, births) /\ RootInv(root', births')
    BY NextInv DEF Inv
  <2>2. /\ Solid(root')
        /\ DOMAIN root.defs \subseteq DOMAIN root'.defs \/ Deletes(root, root')
    BY NextSolid
  <2> QED
    BY <2>1, <2>2, StepCovered
<1>2. Inv /\ SolidRoot /\ [Next]_vars => [ImpactCovers(root, root')]_vars
    BY <1>1
<1> QED
    BY <1>2, InvHolds, SolidHolds, PTL DEF Spec, ImpactSound
(***************************************************************************)
(* Behavior tests.                                                         *)
(***************************************************************************)
(* Evaluation runs the entry, what that calls and what those call.         *)
LEMMA EvaluatedIsClosure ==
    ASSUME NEW r, NEW n, RootInv(r, n), Solid(r), NEW entry \in DOMAIN r.defs
    PROVE  LET C == Evaluated(r, entry)
           IN  /\ C \subseteq DOMAIN r.defs
               /\ entry \in C
               /\ \A s \in C : \A c \in r.defs[s].calls : c.callee \in C
               /\ \A X : /\ entry \in X
                         /\ \A s \in X \cap C : \A c \in r.defs[s].calls : c.callee \in X
                         => C \subseteq X
<1> DEFINE D == DOMAIN r.defs
           next == [s \in D |-> {c.callee : c \in r.defs[s].calls}]
           C == Evaluated(r, entry)
<1>1. C = Reached(next, entry)
    BY DEF Evaluated
<1>2. /\ next \in [D -> SUBSET D]
      /\ \A s \in D : next[s] = {c.callee : c \in r.defs[s].calls}
    BY CallsKnown
<1>3. IsFiniteSet(D) /\ entry \in D
    BY DEF Solid
<1> HIDE DEF next, D, C
<1>4. /\ C \subseteq D
      /\ entry \in C
      /\ \A s \in C : next[s] \subseteq C
      /\ \A X : entry \in X /\ (\A s \in X \cap C : next[s] \subseteq X) => C \subseteq X
    BY <1>1, <1>2, <1>3, ReachedIsClosure
<1>5. \A s \in C : \A c \in r.defs[s].calls : c.callee \in C
    BY <1>2, <1>4
<1>6. ASSUME NEW X, entry \in X,
             \A s \in X \cap C : \A c \in r.defs[s].calls : c.callee \in X
      PROVE  C \subseteq X
  <2>1. \A s \in X \cap C : next[s] \subseteq X
    BY <1>2, <1>4, <1>6
  <2> QED
    BY <1>4, <1>6, <2>1
<1> QED
    BY <1>4, <1>5, <1>6 DEF D, C

(* A generic function has the definition that its instance says.           *)
LEMMA InstanceDetermines ==
    ASSUME NEW r, NEW q, IsRoot(r), IsRoot(q), Solid(r), Solid(q),
           NEW g, g \in Generics(r), g \in Generics(q),
           InstanceDefinition(r, g).calls = InstanceDefinition(q, g).calls,
           Len(InstanceDefinition(r, g).params) = Len(InstanceDefinition(q, g).params)
    PROVE  DefinitionHash(r, g) = DefinitionHash(q, g)
<1> DEFINE fix(c) == [c EXCEPT !.at = IF @ = "parametric" THEN "concrete" ELSE @]
           A == r.defs[g].calls
           B == q.defs[g].calls
<1>1. /\ r.defs[g] \in Definition /\ q.defs[g] \in Definition
      /\ r.defs[g].kind = "generic" /\ q.defs[g].kind = "generic"
      /\ Open(r.defs[g]) /\ Open(q.defs[g])
    BY DEF Generics, IsRoot, Solid
<1>2. /\ \A c \in A : c \in Call /\ c.at # "concrete"
      /\ \A c \in B : c \in Call /\ c.at # "concrete"
    BY <1>1 DEF Definition, Open
<1>3. {fix(c) : c \in A} = {fix(c) : c \in B}
    BY DEF InstanceDefinition
<1>4. \A c, d \in Call :
         c.at # "concrete" /\ d.at # "concrete" /\ fix(c) = fix(d) => c = d
  <2> SUFFICES ASSUME NEW c \in Call, NEW d \in Call,
                      c.at # "concrete", d.at # "concrete", fix(c) = fix(d)
               PROVE  c = d
    OBVIOUS
  <2>1. /\ fix(c).callee = c.callee /\ fix(c).args = c.args
        /\ fix(c).at = IF c.at = "parametric" THEN "concrete" ELSE c.at
        /\ fix(d).callee = d.callee /\ fix(d).args = d.args
        /\ fix(d).at = IF d.at = "parametric" THEN "concrete" ELSE d.at
    BY DEF Call
  <2> HIDE DEF fix
  <2>2. c.callee = d.callee /\ c.args = d.args
    BY <2>1
  <2>3. c.at = d.at
    BY <2>1
  <2> QED
    BY <2>2, <2>3 DEF Call
<1> HIDE DEF fix
<1>5. A = B
  <2> HIDE DEF A, B
  <2>1. \A c \in A : c \in B
    <3> SUFFICES ASSUME NEW c \in A PROVE c \in B
      OBVIOUS
    <3>1. PICK d \in B : fix(c) = fix(d)
      BY <1>3
    <3> QED
      BY <1>2, <1>4, <3>1
  <2>2. \A c \in B : c \in A
    <3> SUFFICES ASSUME NEW c \in B PROVE c \in A
      OBVIOUS
    <3>1. PICK d \in A : fix(d) = fix(c)
      BY <1>3
    <3> QED
      BY <1>2, <1>4, <3>1
  <2> QED
    BY <2>1, <2>2
<1>6. Len(r.defs[g].params) = Len(q.defs[g].params)
    BY DEF InstanceDefinition
<1> QED
    BY <1>1, <1>5, <1>6 DEF DefinitionHash, Interface, Signature

(* The call of a body that is passed on to what the body was compiled to,  *)
(* the function itself or its instance, is a dependency of that.           *)
LEMMA CarriedCall ==
    ASSUME NEW r, NEW n, RootInv(r, n), NEW s \in DOMAIN r.defs,
           NEW u \in DOMAIN r.defs,
           \/ u = s /\ r.defs[s].kind # "generic"
           \/ r.defs[u] = InstanceDefinition(r, s),
           NEW c \in r.defs[s].calls
    PROVE  /\ c.at = "plain" => c.callee \in Dependencies(r, u)
           /\ c.at # "plain" /\ InstanceOf(c.callee) \in DOMAIN r.defs
                => InstanceOf(c.callee) \in Dependencies(r, u)
<1>1. c \in Call /\ c.callee \in DOMAIN r.defs
    BY CallsKnown
<1>2. \E d \in r.defs[u].calls :
         /\ d.callee = c.callee
         /\ c.at = "plain" => d.at = "plain"
         /\ c.at # "plain" => d.at = "concrete"
  <2>1. CASE u = s /\ r.defs[s].kind # "generic"
    <3>1. c.at # "parametric"
      BY <2>1 DEF RootInv, ShapeInv, TypeChecks, CallChecks
    <3> QED
      BY <1>1, <2>1, <3>1 DEF Call
  <2>2. CASE r.defs[u] = InstanceDefinition(r, s)
    <3> DEFINE fix(b) == [b EXCEPT !.at = IF @ = "parametric" THEN "concrete" ELSE @]
               d == fix(c)
    <3>1. d \in r.defs[u].calls
      <4>1. r.defs[u].calls = {fix(b) : b \in r.defs[s].calls}
        BY <2>2 DEF InstanceDefinition
      <4> HIDE DEF fix
      <4> QED
        BY <4>1
    <3>2. d.callee = c.callee /\ d.at = IF c.at = "parametric" THEN "concrete" ELSE c.at
      BY <1>1 DEF Call
    <3>3. c.at \in {"plain", "concrete", "parametric"}
      BY <1>1 DEF Call
    <3> HIDE DEF d
    <3> QED
      BY <3>1, <3>2, <3>3
  <2> QED
    BY <2>1, <2>2
<1> QED
    BY <1>1, <1>2 DEF Dependencies
(* A skipped test reaches nothing that changed.                            *)
LEMMA SkippedReachesUntouched ==
    ASSUME NEW r, NEW q, Solid(q), NEW t \in SkippedTests(r, q),
           t.case.entry \in DOMAIN q.defs,
           NEW s \in ReachableSymbols(q, t.case.entry)
    PROVE  Untouched(r, q, s)
<1>1. s \in DOMAIN q.defs
    BY ReachableIsClosure
<1>2. s \notin BehaviorSymbols(r, q)
    BY DEF SkippedTests, SelectedTests
<1>3. /\ s \in Common(r, q)
      /\ s \notin Resigned(r, q) /\ s \notin Rebodied(r, q)
    BY <1>1, <1>2 DEF BehaviorSymbols, Added, Common
<1> QED
    BY <1>3, TouchedOrNot

(* Compiled as it is, or, when it is generic, as its instance.             *)
Carried(q, R, s) ==
    \/ s \in R /\ q.defs[s].kind # "generic"
    \/ /\ InstanceOf(s) \in R
       /\ q.defs[InstanceOf(s)] = InstanceDefinition(q, s)

(* What a skipped test evaluates is what it evaluated before.              *)
LEMMA SkippedEvaluatesTheSame ==
    ASSUME NEW r, NEW n, RootInv(r, n), Solid(r),
           NEW q, NEW k, RootInv(q, k), Solid(q),
           NEW t \in SkippedTests(r, q),
           InStep(r, t.case.entry), InStep(q, t.case.entry)
    PROVE  /\ Evaluated(r, t.case.entry) = Evaluated(q, t.case.entry)
           /\ \A s \in Evaluated(q, t.case.entry) : DefinitionHash(r, s) = DefinitionHash(q, s)
<1> DEFINE e == t.case.entry
           R == ReachableSymbols(q, e)
           A == Evaluated(r, e)
           B == Evaluated(q, e)
           X == {s \in A \cap B :
                   DefinitionHash(r, s) = DefinitionHash(q, s) /\ Carried(q, R, s)}
<1>1. /\ e \in DOMAIN r.defs
      /\ e \in DOMAIN q.defs /\ q.defs[e].kind # "generic"
  <2>1. t \in r.tests /\ t \in q.tests
    BY DEF SkippedTests, SelectedTests
  <2> QED
    BY <2>1 DEF RootInv, TypeChecks, TestChecks
<1>2. /\ e \in R
      /\ R \subseteq DOMAIN q.defs
      /\ \A s \in R : Dependencies(q, s) \subseteq R
    BY <1>1, ReachableIsClosure
<1>3. \A s \in R : Untouched(r, q, s)
    BY <1>1, SkippedReachesUntouched
<1>4. /\ A \subseteq DOMAIN r.defs
      /\ e \in A
      /\ \A s \in A : \A c \in r.defs[s].calls : c.callee \in A
      /\ \A Y : /\ e \in Y
                /\ \A s \in Y \cap A : \A c \in r.defs[s].calls : c.callee \in Y
                => A \subseteq Y
    BY <1>1, EvaluatedIsClosure
<1>5. /\ B \subseteq DOMAIN q.defs
      /\ e \in B
      /\ \A s \in B : \A c \in q.defs[s].calls : c.callee \in B
      /\ \A Y : /\ e \in Y
                /\ \A s \in Y \cap B : \A c \in q.defs[s].calls : c.callee \in Y
                => B \subseteq Y
    BY <1>1, EvaluatedIsClosure
<1>6. /\ \A s \in A : \A c \in r.defs[s].calls : c.at # "plain" =>
            /\ c.callee \in Generics(r)
            /\ r.defs[InstanceOf(c.callee)] = InstanceDefinition(r, c.callee)
      /\ \A s \in B : \A c \in q.defs[s].calls : c.at # "plain" =>
            /\ c.callee \in Generics(q)
            /\ InstanceOf(c.callee) \in DOMAIN q.defs
            /\ q.defs[InstanceOf(c.callee)] = InstanceDefinition(q, c.callee)
    BY DEF InStep
<1>7. IsRoot(r) /\ IsRoot(q)
    BY DEF RootInv, ShapeInv
<1> HIDE DEF R, A, B
<1>8. e \in X
    BY <1>1, <1>2, <1>3, <1>4, <1>5 DEF Carried, Untouched
<1> HIDE DEF e
<1>9. ASSUME NEW s \in X, NEW c \in q.defs[s].calls
      PROVE  c.callee \in X
  <2>1. /\ s \in A /\ s \in B /\ s \in DOMAIN q.defs
        /\ r.defs[s].calls = q.defs[s].calls
        /\ Carried(q, R, s)
    BY <1>5 DEF DefinitionHash
  <2>2. c.callee \in A /\ c.callee \in B
    BY <1>4, <1>5, <2>1
  <2>3. PICK u \in R : \/ u = s /\ q.defs[s].kind # "generic"
                       \/ q.defs[u] = InstanceDefinition(q, s)
    BY <2>1 DEF Carried
  <2>4. /\ c.at = "plain" => c.callee \in R
        /\ c.at # "plain" /\ InstanceOf(c.callee) \in DOMAIN q.defs
             => InstanceOf(c.callee) \in R
    <3>1. u \in DOMAIN q.defs
      BY <1>2
    <3> QED
      BY <1>2, <2>1, <2>3, <3>1, CarriedCall
  <2> HIDE DEF X
  <2>5. DefinitionHash(r, c.callee) = DefinitionHash(q, c.callee) /\ Carried(q, R, c.callee)
    <3>1. CASE c.at = "plain"
      <4>1. q.defs[c.callee].kind # "generic"
        BY <2>1, <3>1 DEF RootInv, TypeChecks, CallChecks
      <4> QED
        BY <1>3, <2>4, <3>1, <4>1 DEF Carried, Untouched
    <3>2. CASE c.at # "plain"
      <4> DEFINE g == c.callee
                 i == InstanceOf(g)
      <4>1. /\ g \in Generics(r) /\ r.defs[i] = InstanceDefinition(r, g)
            /\ g \in Generics(q) /\ q.defs[i] = InstanceDefinition(q, g)
            /\ i \in R
        BY <1>6, <2>1, <2>4, <3>2
      <4> HIDE DEF g, i
      <4>2. DefinitionHash(r, i) = DefinitionHash(q, i)
        BY <1>3, <4>1 DEF Untouched
      <4>3. /\ r.defs[i].calls = q.defs[i].calls
            /\ Len(r.defs[i].params) = Len(q.defs[i].params)
        BY <4>2 DEF DefinitionHash, Interface, Signature
      <4>4. DefinitionHash(r, g) = DefinitionHash(q, g)
        BY <1>7, <4>1, <4>3, InstanceDetermines
      <4>5. Carried(q, R, g)
        BY <4>1 DEF Carried, i
      <4> QED
        BY <4>4, <4>5 DEF g
    <3> QED
      BY <3>1, <3>2
  <2> QED
    BY <2>2, <2>5 DEF X
<1>10. B \subseteq X
  <2>1. \A s \in X \cap B : \A c \in q.defs[s].calls : c.callee \in X
    <3> HIDE DEF X
    <3> QED
      BY <1>9
  <2> HIDE DEF X
  <2> QED
    BY <1>5, <1>8, <2>1
<1>11. A \subseteq X
  <2>1. \A s \in X \cap A : \A c \in r.defs[s].calls : c.callee \in X
    <3> SUFFICES ASSUME NEW s \in X, NEW c \in r.defs[s].calls PROVE c.callee \in X
      OBVIOUS
    <3>1. r.defs[s].calls = q.defs[s].calls
      BY DEF DefinitionHash
    <3> HIDE DEF X
    <3> QED
      BY <1>9, <3>1
  <2> HIDE DEF X
  <2> QED
    BY <1>4, <1>8, <2>1
<1>12. X \subseteq A /\ X \subseteq B
       /\ \A s \in X : DefinitionHash(r, s) = DefinitionHash(q, s)
    OBVIOUS
<1> HIDE DEF X
<1>13. A = B /\ \A s \in B : DefinitionHash(r, s) = DefinitionHash(q, s)
    BY <1>10, <1>11, <1>12
<1> QED
    BY <1>13 DEF A, B, e

(* A test that is skipped would run what it ran: see SkippedTestsKeep      *)
(* (test_impact).                                                          *)
THEOREM SkippedTestsAreSafe == Spec => SkippedTestsKeep
<1> DEFINE Keeps ==
        Classifies(root, root') =>
          \A t \in SkippedTests(root, root') :
              LET ran == Evaluated(root', t.case.entry)
              IN  \/ /\ Evaluated(root, t.case.entry) = ran
                     /\ \A s \in ran : DefinitionHash(root, s) = DefinitionHash(root', s)
                  \/ ~InStep(root, t.case.entry)
                  \/ ~InStep(root', t.case.entry)
<1>1. Inv /\ SolidRoot /\ Next => Keeps
  <2> SUFFICES ASSUME Inv, Solid(root), Next PROVE Keeps
    BY DEF SolidRoot
  <2>1. RootInv(root, births) /\ RootInv(root', births') /\ Solid(root')
    BY NextInv, NextSolid DEF Inv
  <2> QED
    BY <2>1, SkippedEvaluatesTheSame
<1>2. Inv /\ SolidRoot /\ [Next]_vars => [Keeps]_vars
    BY <1>1
<1> QED
    BY <1>2, InvHolds, SolidHolds, PTL DEF Spec, SkippedTestsKeep
=============================================================================
