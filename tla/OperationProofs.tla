-------------------------- MODULE OperationProofs --------------------------
(***************************************************************************)
(* Proofs about the operations on a program root, for any sets of names,   *)
(* bodies, parameter lists and groups.                                     *)
(*                                                                         *)
(* RootInv says of a root r in whose history n symbols were born that it   *)
(* has its type, that names identify, that bodies call born symbols, that  *)
(* it checks, and that the next birth is of a symbol that is not there.    *)
(* There is a lemma for every handler: it keeps RootInv, and Listing if    *)
(* that holds.                                                             *)
(***************************************************************************)
EXTENDS Operations, TLAPS

Numbered(r, n) ==
    \A s \in DOMAIN r.defs : s[1] = "born" => s[2] <= n
CallsBorn(r) ==
    \A s \in DOMAIN r.defs : \A c \in r.defs[s].calls : c.callee[1] = "born"
Called(calls) == {c.callee : c \in calls}
SameCalls(r, q) ==
    \A s \in DOMAIN r.defs \cap DOMAIN q.defs :
        Called(q.defs[s].calls) = Called(r.defs[s].calls)
Listing(r) == r.listed # {} => {b.module : b \in r.names} \subseteq r.listed

ShapeInv(r, n) ==
    /\ IsRoot(r)
    /\ NamesIdentify(r)
    /\ Numbered(r, n)
    /\ CallsBorn(r)

RootInv(r, n) ==
    ShapeInv(r, n) /\ TypeChecks(r) /\ Storable(r)

(***************************************************************************)
(* Symbols.                                                                *)
(***************************************************************************)
(* Born and InstanceOf make symbols, of the two kinds.                     *)
LEMMA Symbols ==
    /\ \A k \in Births :
          Born(k) \in Symbol /\ Born(k)[1] = "born" /\ Born(k)[2] = k
    /\ \A s \in Symbol :
          /\ InstanceOf(s) \in Symbol
          /\ InstanceOf(s)[1] = "instance"
          /\ GenericOf(s) \in Symbol
          /\ s[1] \in {"born", "instance"}
          /\ s[2] \in Births
BY DEF Symbol, Births, Born, InstanceOf, GenericOf

(* The symbol that is born next is new to the root (put_symbol_birth).     *)
LEMMA Fresh ==
    ASSUME NEW r, NEW n \in Nat, RootInv(r, n),
           NEW k \in Nat, k > n
    PROVE  /\ Born(k) \notin DOMAIN r.defs
           /\ \A b \in r.names : b.symbol # Born(k)
<1>1. k \in Births
    BY DEF Births
<1>2. Born(k)[1] = "born" /\ Born(k)[2] = k
    BY <1>1, Symbols
<1>3. Born(k) \notin DOMAIN r.defs
    BY <1>2 DEF RootInv, ShapeInv, Numbered
<1> QED
    BY <1>3 DEF RootInv, ShapeInv, NamesIdentify, LiveNames

(***************************************************************************)
(* Names and bodies.                                                       *)
(***************************************************************************)
(* A name that is taken resolves to the symbol of its binding.             *)
LEMMA Resolves ==
    ASSUME NEW r, NEW b \in r.names, UniqueNames(r)
    PROVE  /\ ~Available(r.names, b.module, b.name)
           /\ Resolve(r.names, b.module, b.name) = b.symbol
<1>1. At(r.names, b.module, b.name) = {b}
    BY DEF At, UniqueNames
<1> QED
    BY <1>1 DEF Available, Resolve

(* Elaborating a body gives calls of born symbols of the root              *)
(* (type_expr_with_locals_expecting).                                      *)
LEMMA ElaborateTyped ==
    ASSUME NEW r, IsRoot(r), LiveNames(r), NEW here, NEW kind \in Kinds,
           NEW body, body \subseteq [module : Modules \cup {Here}, name : Names, args : Nat],
           Elaborates(r, here, body),
           NEW c \in Elaborate(r, here, kind, body)
    PROVE  /\ c \in Call
           /\ c.callee \in DOMAIN r.defs
           /\ c.callee[1] = "born"
<1>1. PICK raw \in body :
        c = [callee |-> Resolve(r.names, Target(here, raw), raw.name),
             args |-> raw.args,
             at |-> TypedAt(kind, r.defs[Resolve(r.names, Target(here, raw), raw.name)].kind)]
    BY DEF Elaborate
<1> DEFINE m == Target(here, raw)
           s == Resolve(r.names, m, raw.name)
<1>2. At(r.names, m, raw.name) # {}
    BY DEF Elaborates, Available
<1>3. PICK b \in r.names : s = b.symbol
    BY <1>2 DEF Resolve, At
<1>4. s \in DOMAIN r.defs /\ s[1] = "born"
    BY <1>3 DEF LiveNames
<1>5. s \in Symbol
    BY <1>4 DEF IsRoot
<1>6. c.args \in Nat
    BY <1>1
<1>7. c.at \in {"plain", "concrete", "parametric"}
    BY <1>1 DEF TypedAt
<1> QED
    BY <1>1, <1>4, <1>5, <1>6, <1>7 DEF Call

(* A named symbol has a preferred binding of its own (preferred_binding).  *)
LEMMA Preferred ==
    ASSUME NEW r, OnePreferred(r), NEW s \in DOMAIN r.defs, s[1] = "born"
    PROVE  /\ PreferredBinding(r.names, s) \in r.names
           /\ PreferredBinding(r.names, s).symbol = s
<1>1. \E b \in BindingsOf(r.names, s) : b.preferred
    BY DEF OnePreferred, BindingsOf
<1>2. PreferredBinding(r.names, s) \in BindingsOf(r.names, s)
    BY <1>1 DEF PreferredBinding
<1> QED
    BY <1>2 DEF BindingsOf

(* A written call is read as a call of the same symbol with as many        *)
(* arguments, as seen from any module.                                     *)
LEMMA CallRoundTrip ==
    ASSUME NEW r, IsRoot(r), UniqueNames(r), OnePreferred(r), NEW here,
           NEW c, c.callee \in DOMAIN r.defs, c.callee[1] = "born"
    PROVE  LET b == PreferredBinding(r.names, c.callee)
               raw == [module |-> IF b.module = here THEN Here ELSE b.module,
                       name |-> b.name, args |-> c.args]
               m == Target(here, raw)
           IN  /\ b \in r.names
               /\ ~Available(r.names, m, raw.name)
               /\ Resolve(r.names, m, raw.name) = c.callee
<1> DEFINE b == PreferredBinding(r.names, c.callee)
           raw == [module |-> IF b.module = here THEN Here ELSE b.module,
                   name |-> b.name, args |-> c.args]
<1>1. b \in r.names /\ b.symbol = c.callee
    BY Preferred
<1>2. b.module \in Modules
    BY <1>1 DEF IsRoot, Binding
<1> HIDE DEF b
<1>3. Target(here, raw) = b.module
    BY <1>2, HereAssumption DEF Target
<1>4. raw.name = b.name
    OBVIOUS
<1>5. /\ ~Available(r.names, b.module, b.name)
      /\ Resolve(r.names, b.module, b.name) = b.symbol
    BY <1>1, Resolves
<1> QED
    BY <1>1, <1>3, <1>4, <1>5 DEF b

(* The same of a body: it calls the same symbols.                          *)
LEMMA RoundTrip ==
    ASSUME NEW r, IsRoot(r), UniqueNames(r), OnePreferred(r),
           NEW here, NEW kind, NEW calls,
           \A c \in calls : c.callee \in DOMAIN r.defs /\ c.callee[1] = "born"
    PROVE  Called(Elaborate(r, here, kind, Render(r, here, calls))) = Called(calls)
<1> DEFINE written(c) ==
        LET b == PreferredBinding(r.names, c.callee)
        IN  [module |-> IF b.module = here THEN Here ELSE b.module,
             name |-> b.name, args |-> c.args]
           read(raw) ==
        LET s == Resolve(r.names, Target(here, raw), raw.name)
        IN  [callee |-> s, args |-> raw.args, at |-> TypedAt(kind, r.defs[s].kind)]
<1>1. Render(r, here, calls) = {written(c) : c \in calls}
    BY DEF Render
<1>2. Elaborate(r, here, kind, Render(r, here, calls)) =
        {read(raw) : raw \in Render(r, here, calls)}
    BY DEF Elaborate
<1>3. \A c \in calls : read(written(c)).callee = c.callee
    BY CallRoundTrip
<1> HIDE DEF written, read
<1>4. Elaborate(r, here, kind, Render(r, here, calls)) =
        {read(written(c)) : c \in calls}
    BY <1>1, <1>2
<1> QED
    BY <1>3, <1>4 DEF Called

(* What is written out has the type of a written body.                     *)
LEMMA RenderTyped ==
    ASSUME NEW r, IsRoot(r), OnePreferred(r), NEW here,
           NEW calls, \A c \in calls :
               /\ c.callee \in DOMAIN r.defs
               /\ c.callee[1] = "born"
               /\ c.args \in Nat
    PROVE  Render(r, here, calls) \subseteq
           [module : Modules \cup {Here}, name : Names, args : Nat]
<1>1. SUFFICES ASSUME NEW c \in calls
               PROVE  LET b == PreferredBinding(r.names, c.callee)
                      IN  [module |-> IF b.module = here THEN Here ELSE b.module,
                           name |-> b.name, args |-> c.args]
                          \in [module : Modules \cup {Here}, name : Names, args : Nat]
    BY DEF Render
<1>2. PreferredBinding(r.names, c.callee) \in Binding
    BY Preferred DEF IsRoot
<1> QED
    BY <1>2 DEF Binding

(* A body that can be read makes the same calls when it is read again in a *)
(* root that has more names.                                               *)
LEMMA SameReading ==
    ASSUME NEW r, NEW q, r.names \subseteq q.names, UniqueNames(q),
           NEW here, NEW body, Elaborates(r, here, body), NEW k, NEW l
    PROVE  Callees(Elaborate(r, here, k, body)) =
           Callees(Elaborate(q, here, l, body))
<1> DEFINE found(x, raw) == Resolve(x.names, Target(here, raw), raw.name)
           read(x, kind, raw) ==
        [callee |-> found(x, raw), args |-> raw.args,
         at |-> TypedAt(kind, x.defs[found(x, raw)].kind)]
           plain(x, raw) == [callee |-> found(x, raw), args |-> raw.args]
<1>1. \A raw \in body : found(r, raw) = found(q, raw)
  <2>1. SUFFICES ASSUME NEW raw \in body PROVE found(r, raw) = found(q, raw)
    OBVIOUS
  <2>2. PICK b \in r.names : b.module = Target(here, raw) /\ b.name = raw.name
    BY DEF Elaborates, Available, At
  <2>3. UniqueNames(r)
    BY DEF UniqueNames
  <2> QED
    BY <2>2, <2>3, Resolves
<1> HIDE DEF found
<1>2. \A x, kind, raw : /\ read(x, kind, raw).callee = found(x, raw)
                        /\ read(x, kind, raw).args = raw.args
    OBVIOUS
<1>3. \A x, kind : Elaborate(x, here, kind, body) = {read(x, kind, raw) : raw \in body}
    BY DEF Elaborate, found
<1> HIDE DEF read
<1>4. \A x, kind : Callees(Elaborate(x, here, kind, body)) = {plain(x, raw) : raw \in body}
    BY <1>2, <1>3 DEF Callees
<1>5. \A raw \in body : plain(r, raw) = plain(q, raw)
    BY <1>1
<1> HIDE DEF plain
<1>6. {plain(r, raw) : raw \in body} = {plain(q, raw) : raw \in body}
    BY <1>5
<1>7. /\ Callees(Elaborate(r, here, k, body)) = {plain(r, raw) : raw \in body}
      /\ Callees(Elaborate(q, here, l, body)) = {plain(q, raw) : raw \in body}
    BY <1>4
<1> QED
    BY <1>6, <1>7

(***************************************************************************)
(* Parts of a root.                                                        *)
(***************************************************************************)
(* Roots that agree on definitions and tests check together.               *)
LEMMA SameBodiesCheck ==
    ASSUME NEW r, NEW q, q.defs = r.defs, q.tests = r.tests, TypeChecks(r)
    PROVE  TypeChecks(q)
BY DEF TypeChecks, CallChecks, TestChecks

(* What the handlers return was stored, and checked by most of them.       *)
LEMMA StoredIsStorable ==
    ASSUME NEW x, NEW q
    PROVE  /\ q \in Stored(x) => q = x /\ Storable(q)
           /\ q \in Checked(x) => q = x /\ Storable(q) /\ TypeChecks(q)
BY DEF Stored, Checked

(* WithDefs changes the definitions and nothing else.                      *)
LEMMA WithDefsFields ==
    ASSUME NEW r, IsRoot(r), NEW more, NEW q, q = WithDefs(r, more)
    PROVE  /\ q = [defs |-> q.defs, names |-> r.names, exports |-> r.exports,
                   tests |-> r.tests, listed |-> r.listed]
           /\ DOMAIN q.defs = DOMAIN r.defs \cup DOMAIN more
           /\ \A s \in DOMAIN q.defs :
                 q.defs[s] = IF s \in DOMAIN more THEN more[s] ELSE r.defs[s]
BY DEF IsRoot, WithDefs

(* They stay a function.                                                   *)
LEMMA WithDefsFunction ==
    ASSUME NEW r, IsRoot(r), NEW more, NEW q, q = WithDefs(r, more)
    PROVE  q.defs = [s \in DOMAIN q.defs |-> q.defs[s]]
<1> DEFINE D == [s \in DOMAIN r.defs \cup DOMAIN more |-> IF s \in DOMAIN more THEN more[s] ELSE r.defs[s]]
<1>1. D = [s \in DOMAIN D |-> D[s]]
    OBVIOUS
<1>2. q = [r EXCEPT !.defs = D]
    BY DEF WithDefs
<1> HIDE DEF D
<1>3. q.defs = D
    BY <1>2 DEF IsRoot
<1> QED
    BY <1>1, <1>3

(* Adding definitions keeps the type of a root.                            *)
LEMMA WithDefsTyped ==
    ASSUME NEW r, IsRoot(r), NEW more, DOMAIN more \subseteq Symbol,
           \A s \in DOMAIN more : more[s] \in Definition
    PROVE  IsRoot(WithDefs(r, more))
<1> DEFINE q == WithDefs(r, more)
<1>1. /\ q = [defs |-> q.defs, names |-> r.names, exports |-> r.exports,
              tests |-> r.tests, listed |-> r.listed]
      /\ DOMAIN q.defs = DOMAIN r.defs \cup DOMAIN more
      /\ \A s \in DOMAIN q.defs :
            q.defs[s] = IF s \in DOMAIN more THEN more[s] ELSE r.defs[s]
    BY WithDefsFields
<1>0. q.defs = [s \in DOMAIN q.defs |-> q.defs[s]]
    BY WithDefsFunction
<1> HIDE DEF q
<1>2. q.names = r.names /\ q.exports = r.exports /\ q.tests = r.tests /\ q.listed = r.listed
    BY <1>1
<1>3. \A s \in DOMAIN q.defs : s \in Symbol /\ q.defs[s] \in Definition
    BY <1>1 DEF IsRoot
<1>4. q.defs \in [DOMAIN q.defs -> Definition]
    BY <1>0, <1>3
<1>5. IsRoot(q)
    BY <1>1, <1>2, <1>3, <1>4 DEF IsRoot
<1> QED
    BY <1>5 DEF q

(* A root with other names but the same bodies.                            *)
LEMMA RenamedRoot ==
    ASSUME NEW r, NEW n, RootInv(r, n), NEW N, N \subseteq Binding, NEW q,
           q = [defs |-> r.defs, names |-> N, exports |-> r.exports,
                tests |-> r.tests, listed |-> r.listed],
           NamesIdentify(q), Storable(q)
    PROVE  RootInv(q, n)
<1>1. /\ q.defs = r.defs /\ q.names = N /\ q.exports = r.exports
      /\ q.tests = r.tests /\ q.listed = r.listed
    OBVIOUS
<1>2. IsRoot(q)
    BY <1>1 DEF RootInv, ShapeInv, IsRoot
<1>3. Numbered(q, n) /\ CallsBorn(q)
    BY <1>1 DEF RootInv, ShapeInv, Numbered, CallsBorn
<1>4. TypeChecks(q)
    BY <1>1, SameBodiesCheck DEF RootInv, ShapeInv
<1> QED
    BY <1>2, <1>3, <1>4 DEF RootInv, ShapeInv

(* The same for marks: exports and tests.                                  *)
LEMMA RemarkedRoot ==
    ASSUME NEW r, NEW n, RootInv(r, n), NEW X, NEW T,
           X \subseteq [name : ExportNames, symbol : Symbol],
           T \subseteq [name : TestNames, case : Case], NEW q,
           q = [defs |-> r.defs, names |-> r.names, exports |-> X,
                tests |-> T, listed |-> r.listed],
           Storable(q), T = r.tests \/ TypeChecks(q)
    PROVE  RootInv(q, n) /\ (Listing(r) => Listing(q))
<1>1. /\ q.defs = r.defs /\ q.names = r.names /\ q.exports = X
      /\ q.tests = T /\ q.listed = r.listed
    OBVIOUS
<1>2. IsRoot(q)
    BY <1>1 DEF RootInv, ShapeInv, IsRoot
<1>3. Numbered(q, n) /\ CallsBorn(q) /\ (Listing(r) => Listing(q))
    BY <1>1 DEF RootInv, ShapeInv, Numbered, CallsBorn, Listing
<1>4. TypeChecks(q)
    BY <1>1, SameBodiesCheck DEF RootInv, ShapeInv
<1>5. NamesIdentify(q)
    BY <1>1 DEF RootInv, ShapeInv, NamesIdentify, UniqueNames, LiveNames, OnePreferred, OneModule
<1> QED
    BY <1>2, <1>3, <1>4, <1>5 DEF RootInv, ShapeInv

(***************************************************************************)
(* The handlers.                                                           *)
(***************************************************************************)
(* An operation that still names its symbol names one of the root.         *)
LEMMA StillNamedSymbol ==
    ASSUME NEW r, NEW n, RootInv(r, n), NEW op, StillNamed(r, op)
    PROVE  \E b \in r.names :
              /\ b.module = op.on.module /\ b.name = op.on.name
              /\ b.symbol = op.on.symbol
              /\ b \in Binding
              /\ op.on.symbol \in DOMAIN r.defs
              /\ op.on.symbol[1] = "born"
              /\ op.on.symbol \in Symbol
BY DEF StillNamed, PointsTo, At, RootInv, ShapeInv, NamesIdentify, LiveNames, IsRoot

(* apply_rename_symbol                                                     *)
LEMMA RenameKeepsInv ==
    ASSUME NEW r, NEW n, RootInv(r, n), NEW op \in RenameOps(r),
           NEW q \in RenameHandler(r, op)
    PROVE  RootInv(q, n) /\ q.defs = r.defs /\ (Listing(r) => Listing(q))
<1> DEFINE mine(b) == /\ b.module = op.on.module /\ b.name = op.on.name
                      /\ b.symbol = op.on.symbol /\ b.preferred
           new(b) == IF mine(b) THEN [b EXCEPT !.name = op.new] ELSE b
           N == {new(b) : b \in r.names}
<1>1. /\ Available(r.names, op.on.module, op.new)
      /\ q \in Stored([r EXCEPT !.names = {new(b) : b \in @}])
    BY DEF RenameHandler
<1>2. /\ q = [defs |-> r.defs, names |-> N, exports |-> r.exports,
              tests |-> r.tests, listed |-> r.listed]
      /\ Storable(q)
    BY <1>1, StoredIsStorable DEF RootInv, ShapeInv, IsRoot
<1>3. op.new \in Names
    BY DEF RenameOps
<1>4. \A b \in r.names : /\ b \in Binding
                         /\ new(b) \in Binding
                         /\ new(b).module = b.module
                         /\ new(b).symbol = b.symbol
                         /\ new(b).preferred = b.preferred
                         /\ new(b).name = IF mine(b) THEN op.new ELSE b.name
    BY <1>3 DEF RootInv, ShapeInv, IsRoot, Binding
<1>5. N \subseteq Binding
    BY <1>4
<1>6. q.names = N /\ q.defs = r.defs /\ q.listed = r.listed
    BY <1>2
<1>7. \A b \in r.names : b.module = op.on.module => b.name # op.new
    BY <1>1 DEF Available, At
<1>8. UniqueNames(r) /\ LiveNames(r) /\ OnePreferred(r) /\ OneModule(r)
    BY DEF RootInv, ShapeInv, NamesIdentify
<1>9. UniqueNames(q)
  <2>1. SUFFICES ASSUME NEW b \in r.names, NEW c \in r.names,
                        new(b).module = new(c).module, new(b).name = new(c).name
                 PROVE  new(b) = new(c)
    BY <1>6 DEF UniqueNames
  <2>2. b.module = c.module
    BY <1>4, <2>1
  <2>3. CASE mine(b) /\ mine(c)
    BY <2>3, <1>8 DEF UniqueNames
  <2>4. CASE mine(b) /\ ~mine(c)
    BY <2>1, <2>2, <2>4, <1>4, <1>7
  <2>5. CASE ~mine(b) /\ mine(c)
    BY <2>1, <2>2, <2>5, <1>4, <1>7
  <2>6. CASE ~mine(b) /\ ~mine(c)
    BY <2>1, <2>2, <2>6, <1>4, <1>8 DEF UniqueNames
  <2> QED
    BY <2>3, <2>4, <2>5, <2>6
<1> HIDE DEF mine, new
<1>10. LiveNames(q) /\ OneModule(q)
    BY <1>4, <1>6, <1>8 DEF LiveNames, OneModule
<1>11. OnePreferred(q)
    BY <1>4, <1>6, <1>8 DEF OnePreferred
<1>12. Listing(r) => Listing(q)
    BY <1>4, <1>6 DEF RootInv, ShapeInv, Listing
<1> QED
    BY <1>2, <1>5, <1>6, <1>9, <1>10, <1>11, <1>12, RenamedRoot DEF NamesIdentify

(* Synchronize changes what is listed.                                     *)
LEMMA SynchronizeFields ==
    ASSUME NEW D, NEW N, NEW X, NEW T, NEW L
    PROVE  Synchronize([defs |-> D, names |-> N, exports |-> X, tests |-> T, listed |-> L]) =
           [defs |-> D, names |-> N, exports |-> X, tests |-> T,
            listed |-> {b.module : b \in N}]
<1> DEFINE r == [defs |-> D, names |-> N, exports |-> X, tests |-> T, listed |-> L]
           M == {b.module : b \in N}
<1>1. Synchronize(r) = [r EXCEPT !.listed = M]
    BY DEF Synchronize
<1> HIDE DEF M
<1>2. [r EXCEPT !.listed = M] =
        [defs |-> D, names |-> N, exports |-> X, tests |-> T, listed |-> M]
    OBVIOUS
<1> QED
    BY <1>1, <1>2 DEF M

(* Replacing the names leaves the rest.                                    *)
LEMMA NamesFields ==
    ASSUME NEW r, IsRoot(r), NEW N
    PROVE  [r EXCEPT !.names = N] =
           [defs |-> r.defs, names |-> N, exports |-> r.exports,
            tests |-> r.tests, listed |-> r.listed]
BY DEF IsRoot

(* apply_move_symbol                                                       *)
LEMMA MoveKeepsInv ==
    ASSUME NEW r, NEW n, RootInv(r, n), NEW op \in MoveOps(r),
           NEW q \in MoveHandler(r, op)
    PROVE  RootInv(q, n) /\ q.defs = r.defs /\ (Listing(r) => Listing(q))
<1>1. CASE op.to = op.on.module
    BY <1>1 DEF MoveHandler
<1>2. CASE op.to # op.on.module
  <2> DEFINE M == NamesMoved(r, op)
             new(b) == IF b \in M THEN [b EXCEPT !.module = op.to] ELSE b
             N == {new(b) : b \in r.names}
             s == op.on.symbol
  <2>1. /\ \A b \in M : \A c \in At(r.names, op.to, b.name) : c.symbol = s
        /\ q \in Checked(Synchronize([r EXCEPT !.names = {new(b) : b \in @}]))
        /\ StillPreferred(r, op)
    BY <1>2 DEF MoveHandler
  <2>2. op.to \in Modules
    BY DEF MoveOps
  <2>3. UniqueNames(r) /\ LiveNames(r) /\ OnePreferred(r) /\ OneModule(r)
    BY DEF RootInv, ShapeInv, NamesIdentify
  <2>4. \A b \in r.names : b \in M <=> b.symbol = s
    BY <2>1, <2>3 DEF NamesMoved, BindingsOf, StillPreferred, Prefers, At, OneModule
  <2>5. \A b \in r.names : /\ b \in Binding
                           /\ new(b) \in Binding
                           /\ new(b).name = b.name
                           /\ new(b).symbol = b.symbol
                           /\ new(b).preferred = b.preferred
                           /\ new(b).module = IF b \in M THEN op.to ELSE b.module
    BY <2>2 DEF RootInv, ShapeInv, IsRoot, Binding
  <2>6. \A b \in M, c \in r.names : c.module = op.to => c.name # b.name
    BY <2>1, <2>4, <1>2 DEF At, NamesMoved, BindingsOf
  <2> HIDE DEF M, new
  <2> DEFINE renamed == [r EXCEPT !.names = N]
             listed == {b.module : b \in N}
  <2>7. /\ renamed = [defs |-> r.defs, names |-> N, exports |-> r.exports,
                      tests |-> r.tests, listed |-> r.listed]
    <3>1. IsRoot(r)
      BY DEF RootInv, ShapeInv
    <3> HIDE DEF N
    <3> QED
      BY <3>1, NamesFields
  <2>8. /\ q = Synchronize(renamed) /\ Storable(q) /\ TypeChecks(q)
    BY <2>1, StoredIsStorable
  <2>9. q = [defs |-> r.defs, names |-> N, exports |-> r.exports,
             tests |-> r.tests, listed |-> listed]
    <3> HIDE DEF renamed, N
    <3> QED
      BY <2>7, <2>8, SynchronizeFields
  <2>10. /\ q.names = N /\ q.defs = r.defs /\ q.listed = listed
         /\ q.tests = r.tests /\ q.exports = r.exports
    BY <2>9
  <2>11. UniqueNames(q)
    <3>1. SUFFICES ASSUME NEW b \in r.names, NEW c \in r.names,
                          new(b).module = new(c).module, new(b).name = new(c).name
                   PROVE  new(b) = new(c)
      BY <2>10 DEF UniqueNames
    <3>2. b.name = c.name
      BY <2>5, <3>1
    <3>3. CASE b \in M /\ c \in M
      BY <3>2, <3>3, <2>3, <2>4 DEF UniqueNames, OneModule
    <3>4. CASE b \in M /\ c \notin M
      BY <3>1, <3>2, <3>4, <2>5, <2>6
    <3>5. CASE b \notin M /\ c \in M
      BY <3>1, <3>2, <3>5, <2>5, <2>6
    <3>6. CASE b \notin M /\ c \notin M
      BY <3>1, <3>2, <3>6, <2>5, <2>3 DEF UniqueNames
    <3> QED
      BY <3>3, <3>4, <3>5, <3>6
  <2>12. LiveNames(q)
    BY <2>3, <2>5, <2>10 DEF LiveNames
  <2>13. OneModule(q)
    BY <2>3, <2>4, <2>5, <2>10 DEF OneModule
  <2>14. OnePreferred(q)
    BY <2>3, <2>5, <2>10 DEF OnePreferred
  <2>15. Listing(q)
    BY <2>10 DEF Listing
  <2>16. IsRoot(q)
    <3>1. N \subseteq Binding /\ listed \subseteq Modules
      BY <2>5 DEF Binding
    <3> QED
      BY <3>1, <2>9, <2>10 DEF RootInv, ShapeInv, IsRoot
  <2>17. Numbered(q, n) /\ CallsBorn(q)
    BY <2>10 DEF RootInv, ShapeInv, Numbered, CallsBorn
  <2> QED
    BY <2>8, <2>10, <2>11, <2>12, <2>13, <2>14, <2>15, <2>16, <2>17
    DEF RootInv, ShapeInv, NamesIdentify
<1> QED
    BY <1>1, <1>2

(* apply_create_alias                                                      *)
LEMMA CreateAliasKeepsInv ==
    ASSUME NEW r, NEW n, RootInv(r, n), NEW op \in CreateAliasOps(r),
           NEW q \in CreateAliasHandler(r, op)
    PROVE  RootInv(q, n) /\ q.defs = r.defs /\ (Listing(r) => Listing(q))
<1> DEFINE b == [module |-> op.on.module, name |-> op.alias,
                 symbol |-> op.on.symbol, preferred |-> FALSE]
           N == r.names \cup {b}
<1>1. /\ StillNamed(r, op) /\ Available(r.names, op.on.module, op.alias)
      /\ q \in Stored(WithName(r, op.on.module, op.alias, op.on.symbol, FALSE))
    BY DEF CreateAliasHandler
<1>2. IsRoot(r)
    BY DEF RootInv, ShapeInv
<1>3. q = WithName(r, op.on.module, op.alias, op.on.symbol, FALSE) /\ Storable(q)
    BY <1>1, StoredIsStorable
<1>4. q = [defs |-> r.defs, names |-> N, exports |-> r.exports,
           tests |-> r.tests, listed |-> r.listed]
  <2> HIDE DEF N
  <2>1. WithName(r, op.on.module, op.alias, op.on.symbol, FALSE) =
        [defs |-> r.defs,
         names |-> r.names \cup {b}, exports |-> r.exports,
         tests |-> r.tests, listed |-> r.listed]
    <3>1. WithName(r, op.on.module, op.alias, op.on.symbol, FALSE) =
            [r EXCEPT !.names = r.names \cup {b}]
      BY DEF WithName
    <3> HIDE DEF b
    <3> QED
      BY <1>2, <3>1, NamesFields
  <2> QED
    BY <1>3, <2>1 DEF N
<1>5. q.names = N /\ q.defs = r.defs /\ q.listed = r.listed
    BY <1>4
<1>6. PICK c \in r.names :
        /\ c.module = op.on.module /\ c.symbol = op.on.symbol /\ c \in Binding
        /\ op.on.symbol \in DOMAIN r.defs /\ op.on.symbol[1] = "born"
    BY <1>1, StillNamedSymbol
<1>7. /\ b.module = op.on.module /\ b.name = op.alias
      /\ b.symbol = op.on.symbol /\ b.preferred = FALSE
    OBVIOUS
<1>8. b \in Binding
    BY <1>6 DEF Binding, CreateAliasOps
<1> HIDE DEF b
<1>9. N \subseteq Binding
    BY <1>2, <1>8 DEF IsRoot
<1>10. \A d \in r.names : ~(d.module = b.module /\ d.name = b.name)
    BY <1>1, <1>7 DEF Available, At
<1>11. UniqueNames(r) /\ LiveNames(r) /\ OnePreferred(r) /\ OneModule(r)
    BY DEF RootInv, ShapeInv, NamesIdentify
<1>12. UniqueNames(q)
    BY <1>5, <1>10, <1>11 DEF UniqueNames
<1>13. LiveNames(q) /\ OneModule(q)
    BY <1>5, <1>6, <1>7, <1>11 DEF LiveNames, OneModule
<1>14. OnePreferred(q)
    BY <1>5, <1>7, <1>11 DEF OnePreferred
<1>15. Listing(r) => Listing(q)
    BY <1>5, <1>6, <1>7 DEF RootInv, ShapeInv, Listing
<1> QED
    BY <1>3, <1>4, <1>5, <1>9, <1>12, <1>13, <1>14, <1>15, RenamedRoot DEF NamesIdentify

(* apply_remove_alias                                                      *)
LEMMA RemoveAliasKeepsInv ==
    ASSUME NEW r, NEW n, RootInv(r, n), NEW op \in RemoveAliasOps(r),
           NEW q \in RemoveAliasHandler(r, op)
    PROVE  RootInv(q, n) /\ q.defs = r.defs /\ (Listing(r) => Listing(q))
<1> DEFINE gone == {b \in At(r.names, op.on.module, op.alias) :
                       b.symbol = op.on.symbol /\ ~b.preferred}
           N == r.names \ gone
<1>1. q \in Stored([r EXCEPT !.names = @ \ gone])
    BY DEF RemoveAliasHandler
<1>2. /\ q = [defs |-> r.defs, names |-> N, exports |-> r.exports,
              tests |-> r.tests, listed |-> r.listed]
      /\ Storable(q)
    BY <1>1, StoredIsStorable DEF RootInv, ShapeInv, IsRoot
<1>3. q.names = N /\ q.defs = r.defs /\ q.listed = r.listed
    BY <1>2
<1>4. UniqueNames(r) /\ LiveNames(r) /\ OnePreferred(r) /\ OneModule(r)
    BY DEF RootInv, ShapeInv, NamesIdentify
<1>5. N \subseteq Binding
    BY DEF RootInv, ShapeInv, IsRoot
<1>6. UniqueNames(q) /\ LiveNames(q) /\ OneModule(q)
    BY <1>3, <1>4 DEF UniqueNames, LiveNames, OneModule
<1>7. OnePreferred(q)
    BY <1>3, <1>4 DEF OnePreferred
<1>8. Listing(r) => Listing(q)
    BY <1>3 DEF RootInv, ShapeInv, Listing
<1> QED
    BY <1>2, <1>3, <1>5, <1>6, <1>7, <1>8, RenamedRoot DEF NamesIdentify

(* apply_set_export                                                        *)
LEMMA SetExportKeepsInv ==
    ASSUME NEW r, NEW n, RootInv(r, n), NEW op \in SetExportOps(r),
           NEW q \in SetExportHandler(r, op)
    PROVE  RootInv(q, n) /\ q.defs = r.defs /\ (Listing(r) => Listing(q))
<1> DEFINE e == [name |-> op.exported, symbol |-> op.on.symbol]
           X == r.exports \cup {e}
<1>1. StillNamed(r, op) /\ q \in Stored([r EXCEPT !.exports = @ \cup {e}])
    BY DEF SetExportHandler
<1>2. /\ q = [defs |-> r.defs, names |-> r.names, exports |-> X,
              tests |-> r.tests, listed |-> r.listed]
      /\ Storable(q)
    BY <1>1, StoredIsStorable DEF RootInv, ShapeInv, IsRoot
<1>3. op.on.symbol \in Symbol /\ op.exported \in ExportNames
    BY <1>1, StillNamedSymbol DEF SetExportOps
<1>4. X \subseteq [name : ExportNames, symbol : Symbol]
    BY <1>3 DEF RootInv, ShapeInv, IsRoot
<1>5. r.tests \subseteq [name : TestNames, case : Case]
    BY DEF RootInv, ShapeInv, IsRoot
<1> QED
    BY <1>2, <1>4, <1>5, RemarkedRoot

(* apply_remove_export                                                     *)
LEMMA RemoveExportKeepsInv ==
    ASSUME NEW r, NEW n, RootInv(r, n), NEW op \in RemoveExportOps(r),
           NEW q \in RemoveExportHandler(r, op)
    PROVE  RootInv(q, n) /\ q.defs = r.defs /\ (Listing(r) => Listing(q))
<1> DEFINE e == [name |-> op.exported, symbol |-> op.on.symbol]
           X == r.exports \ {e}
<1>1. q \in Stored([r EXCEPT !.exports = @ \ {e}])
    BY DEF RemoveExportHandler
<1>2. /\ q = [defs |-> r.defs, names |-> r.names, exports |-> X,
              tests |-> r.tests, listed |-> r.listed]
      /\ Storable(q)
    BY <1>1, StoredIsStorable DEF RootInv, ShapeInv, IsRoot
<1>3. /\ X \subseteq [name : ExportNames, symbol : Symbol]
      /\ r.tests \subseteq [name : TestNames, case : Case]
    BY DEF RootInv, ShapeInv, IsRoot
<1> QED
    BY <1>2, <1>3, RemarkedRoot

(* apply_create_test                                                       *)
LEMMA CreateTestKeepsInv ==
    ASSUME NEW r, NEW n, RootInv(r, n), NEW op \in CreateTestOps(r),
           NEW q \in CreateTestHandler(r, op)
    PROVE  RootInv(q, n) /\ q.defs = r.defs /\ (Listing(r) => Listing(q))
<1> DEFINE c == [entry |-> op.on.symbol, args |-> op.args, expected |-> op.expected]
           t == [name |-> op.test, case |-> c]
           T == r.tests \cup {t}
<1>1. StillNamed(r, op) /\ q \in Checked([r EXCEPT !.tests = @ \cup {t}])
    BY DEF CreateTestHandler
<1>2. /\ q = [defs |-> r.defs, names |-> r.names, exports |-> r.exports,
              tests |-> T, listed |-> r.listed]
      /\ Storable(q) /\ TypeChecks(q)
    BY <1>1, StoredIsStorable DEF RootInv, ShapeInv, IsRoot
<1>3. /\ op.on.symbol \in Symbol /\ op.test \in TestNames
      /\ op.args \in Nat /\ op.expected \in Outcomes
    BY <1>1, StillNamedSymbol, ParamListsAssumption DEF CreateTestOps
<1>4. T \subseteq [name : TestNames, case : Case]
    BY <1>3 DEF RootInv, ShapeInv, IsRoot, Case
<1>5. r.exports \subseteq [name : ExportNames, symbol : Symbol]
    BY DEF RootInv, ShapeInv, IsRoot
<1> QED
    BY <1>2, <1>4, <1>5, RemarkedRoot

(* apply_delete_test                                                       *)
LEMMA DeleteTestKeepsInv ==
    ASSUME NEW r, NEW n, RootInv(r, n), NEW op,
           NEW q \in DeleteTestHandler(r, op)
    PROVE  RootInv(q, n) /\ q.defs = r.defs /\ (Listing(r) => Listing(q))
<1> DEFINE T == r.tests \ {op.bound}
<1>1. q \in Checked([r EXCEPT !.tests = @ \ {op.bound}])
    BY DEF DeleteTestHandler
<1>2. /\ q = [defs |-> r.defs, names |-> r.names, exports |-> r.exports,
              tests |-> T, listed |-> r.listed]
      /\ Storable(q) /\ TypeChecks(q)
    BY <1>1, StoredIsStorable DEF RootInv, ShapeInv, IsRoot
<1>3. /\ r.exports \subseteq [name : ExportNames, symbol : Symbol]
      /\ T \subseteq [name : TestNames, case : Case]
    BY DEF RootInv, ShapeInv, IsRoot
<1> QED
    BY <1>2, <1>3, RemarkedRoot

(* apply_delete_symbol: the symbol goes with all its names.                *)
LEMMA DeleteKeepsInv ==
    ASSUME NEW r, NEW n, RootInv(r, n), NEW op \in DeleteOps(r),
           NEW q \in DeleteHandler(r, op)
    PROVE  /\ RootInv(q, n)
           /\ Listing(r) => Listing(q)
           /\ \A s \in DOMAIN r.defs \cap DOMAIN q.defs : q.defs[s] = r.defs[s]
<1> DEFINE s == op.on.symbol
           D == [t \in DOMAIN r.defs \ {s} |-> r.defs[t]]
           N == r.names \ BindingsOf(r.names, s)
           X == {e \in r.exports : e.symbol # s}
           T == IF op.force THEN r.tests \ {t \in r.tests : t.case.entry = s}
                ELSE r.tests
<1>1. q \in Checked([defs |-> D, names |-> N, exports |-> X, tests |-> T,
                      listed |-> r.listed])
    BY DEF DeleteHandler
<1>2. N \subseteq r.names /\ X \subseteq r.exports /\ T \subseteq r.tests
    OBVIOUS
<1>3. \A b \in N : b.symbol # s
    BY DEF BindingsOf
<1>4. \A b \in r.names : b.symbol # s => b \in N
    BY DEF BindingsOf
<1>5. /\ DOMAIN D = DOMAIN r.defs \ {s}
      /\ \A t \in DOMAIN D : D[t] = r.defs[t]
    OBVIOUS
<1> HIDE DEF D, N, X, T
<1>6. /\ q = [defs |-> D, names |-> N, exports |-> X, tests |-> T, listed |-> r.listed]
      /\ Storable(q) /\ TypeChecks(q)
    BY <1>1, StoredIsStorable
<1>7. q.defs = D /\ q.names = N /\ q.exports = X /\ q.tests = T /\ q.listed = r.listed
    BY <1>6
<1>8. IsRoot(q)
  <2>1. IsRoot(r)
    BY DEF RootInv, ShapeInv
  <2>2. \A t \in DOMAIN D : t \in Symbol /\ D[t] \in Definition
    BY <1>5, <2>1 DEF IsRoot
  <2>3. D \in [DOMAIN D -> Definition]
    BY <2>2 DEF D
  <2> QED
    BY <1>2, <1>6, <1>7, <2>1, <2>2, <2>3 DEF IsRoot
<1>9. NamesIdentify(q)
    BY <1>2, <1>3, <1>4, <1>5, <1>7
    DEF RootInv, ShapeInv, NamesIdentify, UniqueNames, LiveNames, OnePreferred, OneModule
<1>10. Numbered(q, n) /\ CallsBorn(q)
    BY <1>5, <1>7 DEF RootInv, ShapeInv, Numbered, CallsBorn
<1>11. Listing(r) => Listing(q)
    BY <1>2, <1>7 DEF RootInv, ShapeInv, Listing
<1> QED
    BY <1>5, <1>6, <1>7, <1>8, <1>9, <1>10, <1>11 DEF RootInv, ShapeInv

(* A root with other definitions of the symbols that it has.               *)
LEMMA RedefinedRoot ==
    ASSUME NEW r, NEW n, ShapeInv(r, n), NEW more, NEW q, q = WithDefs(r, more),
           DOMAIN more \subseteq DOMAIN r.defs,
           \A s \in DOMAIN more :
               /\ more[s] \in Definition
               /\ \A c \in more[s].calls : c.callee[1] = "born"
    PROVE  /\ ShapeInv(q, n)
           /\ q.names = r.names
           /\ Listing(r) => Listing(q)
           /\ DOMAIN q.defs = DOMAIN r.defs
           /\ \A s \in DOMAIN r.defs :
                 q.defs[s] = IF s \in DOMAIN more THEN more[s] ELSE r.defs[s]
<1>1. IsRoot(r)
    BY DEF ShapeInv
<1>2. /\ q = [defs |-> q.defs, names |-> r.names, exports |-> r.exports,
              tests |-> r.tests, listed |-> r.listed]
      /\ DOMAIN q.defs = DOMAIN r.defs
      /\ \A s \in DOMAIN q.defs :
            q.defs[s] = IF s \in DOMAIN more THEN more[s] ELSE r.defs[s]
  <2>1. DOMAIN r.defs \cup DOMAIN more = DOMAIN r.defs
    OBVIOUS
  <2>2. q = [defs |-> q.defs, names |-> r.names, exports |-> r.exports,
             tests |-> r.tests, listed |-> r.listed]
    BY <1>1, WithDefsFields
  <2>3. DOMAIN q.defs = DOMAIN r.defs \cup DOMAIN more
    BY <1>1, WithDefsFields
  <2>4. \A s \in DOMAIN q.defs :
            q.defs[s] = IF s \in DOMAIN more THEN more[s] ELSE r.defs[s]
    BY <1>1, WithDefsFields
  <2> QED
    BY <2>1, <2>2, <2>3, <2>4
<1>3. q.names = r.names /\ q.listed = r.listed
    BY <1>2
<1>4. DOMAIN more \subseteq Symbol
    BY <1>1 DEF IsRoot
<1>5. IsRoot(q)
    BY <1>1, <1>4, WithDefsTyped
<1>6. NamesIdentify(q) /\ (Listing(r) => Listing(q))
    BY <1>2, <1>3
    DEF ShapeInv, NamesIdentify, UniqueNames, LiveNames, OnePreferred, OneModule, Listing
<1>7. Numbered(q, n)
    BY <1>2 DEF ShapeInv, Numbered
<1>8. CallsBorn(q)
    BY <1>2 DEF ShapeInv, CallsBorn
<1> QED
    BY <1>2, <1>3, <1>5, <1>6, <1>7, <1>8 DEF ShapeInv

(* A body of a definition of the root calls born symbols of the root.      *)
LEMMA CallsKnown ==
    ASSUME NEW r, NEW n, RootInv(r, n), NEW s \in DOMAIN r.defs,
           NEW c \in r.defs[s].calls
    PROVE  /\ c \in Call
           /\ c.callee \in DOMAIN r.defs
           /\ c.callee[1] = "born"
<1>1. c \in Call
    BY DEF RootInv, ShapeInv, IsRoot, Definition
<1>2. c.callee \in DOMAIN r.defs
    BY DEF RootInv, ShapeInv, TypeChecks, CallChecks
<1> QED
    BY <1>1, <1>2 DEF RootInv, ShapeInv, CallsBorn

(* apply_replace_body                                                      *)
LEMMA ReplaceBodyKeepsInv ==
    ASSUME NEW r, NEW n, RootInv(r, n), NEW op \in ReplaceBodyOps(r),
           NEW q \in ReplaceBodyHandler(r, op)
    PROVE  RootInv(q, n) /\ (Listing(r) => Listing(q))
<1> DEFINE s == op.on.symbol
           def == r.defs[s]
           E == Elaborate(r, op.on.module, def.kind, op.body)
           new == [def EXCEPT !.calls = E]
           more == [t \in {s} |-> new]
<1>1. /\ s \in DOMAIN r.defs
      /\ Elaborates(r, op.on.module, op.body)
      /\ q \in Checked(WithDefs(r, more))
    BY DEF ReplaceBodyHandler, WithDef
<1>2. q = WithDefs(r, more) /\ Storable(q) /\ TypeChecks(q)
    BY <1>1, StoredIsStorable
<1>3. op.body \subseteq [module : Modules \cup {Here}, name : Names, args : Nat]
    BY BodiesAssumption DEF ReplaceBodyOps, RawCall
<1>4. IsRoot(r) /\ LiveNames(r)
    BY DEF RootInv, ShapeInv, NamesIdentify
<1>5. def \in Definition /\ def.kind \in Kinds
    BY <1>1, <1>4 DEF IsRoot, Definition
<1> HIDE DEF def
<1>6. \A c \in E : c \in Call /\ c.callee[1] = "born"
    BY <1>1, <1>3, <1>4, <1>5, ElaborateTyped
<1> HIDE DEF E
<1>7. new \in Definition /\ new.calls = E
    BY <1>5, <1>6 DEF Definition
<1> HIDE DEF new
<1>8. DOMAIN more \subseteq DOMAIN r.defs
    BY <1>1
<1>9. \A t \in DOMAIN more : more[t] \in Definition /\ \A c \in more[t].calls : c.callee[1] = "born"
    BY <1>6, <1>7
<1> HIDE DEF more
<1>10. ShapeInv(r, n)
    BY DEF RootInv
<1>11. ShapeInv(q, n) /\ (Listing(r) => Listing(q))
    BY <1>2, <1>8, <1>9, <1>10, RedefinedRoot
<1> QED
    BY <1>2, <1>11 DEF RootInv

(* apply_change_signature: the body is written out and read again.         *)
LEMMA ChangeSignatureKeepsInv ==
    ASSUME NEW r, NEW n, RootInv(r, n), NEW op \in ChangeSignatureOps(r),
           NEW q \in ChangeSignatureHandler(r, op)
    PROVE  RootInv(q, n) /\ SameCalls(r, q) /\ (Listing(r) => Listing(q))
<1> DEFINE s == op.on.symbol
           def == r.defs[s]
           body == Render(r, op.on.module, def.calls)
           E == Elaborate(r, op.on.module, "function", body)
           new == IF def.kind = "external" THEN [def EXCEPT !.params = op.params]
                  ELSE [kind |-> "function", params |-> op.params, calls |-> E]
           more == [t \in {s} |-> new]
<1>1. /\ s \in DOMAIN r.defs
      /\ def.kind # "external" => Elaborates(r, op.on.module, body)
      /\ q \in Checked(WithDefs(r, more))
    BY DEF ChangeSignatureHandler, WithDef
<1>2. q = WithDefs(r, more) /\ Storable(q) /\ TypeChecks(q)
    BY <1>1, StoredIsStorable
<1>3. /\ IsRoot(r) /\ LiveNames(r) /\ UniqueNames(r) /\ OnePreferred(r)
    BY DEF RootInv, ShapeInv, NamesIdentify
<1>4. def \in Definition /\ op.params \in Seq(ParamNames)
    BY <1>1, <1>3, ParamListsAssumption DEF IsRoot, ChangeSignatureOps
<1>5. \A c \in def.calls : /\ c \in Call
                           /\ c.callee \in DOMAIN r.defs
                           /\ c.callee[1] = "born"
    BY <1>1, CallsKnown
<1>6. \A c \in def.calls : c.args \in Nat
    BY <1>5 DEF Call
<1> HIDE DEF def
<1>7. body \subseteq [module : Modules \cup {Here}, name : Names, args : Nat]
    BY <1>3, <1>5, <1>6, RenderTyped
<1>8. Called(E) = Called(def.calls)
    BY <1>3, <1>5, RoundTrip
<1>9. def.kind # "external" => \A c \in E : c \in Call /\ c.callee[1] = "born"
    BY <1>1, <1>3, <1>7, ElaborateTyped DEF Kinds
<1> HIDE DEF E, body
<1>10. /\ new \in Definition
       /\ \A c \in new.calls : c.callee[1] = "born"
       /\ Called(new.calls) = Called(def.calls)
  <2>1. CASE def.kind = "external"
    <3>1. new \in Definition /\ new.calls = def.calls
      BY <2>1, <1>4 DEF Definition
    <3> QED
      BY <3>1, <1>5
  <2>2. CASE def.kind # "external"
    <3>1. new = [kind |-> "function", params |-> op.params, calls |-> E]
      BY <2>2
    <3>2. new \in Definition /\ new.calls = E
      BY <3>1, <2>2, <1>4, <1>9 DEF Definition, Kinds
    <3> QED
      BY <3>2, <2>2, <1>8, <1>9
  <2> QED
    BY <2>1, <2>2
<1> HIDE DEF new
<1>11. /\ DOMAIN more = {s}
       /\ more[s] = new
    OBVIOUS
<1> HIDE DEF more
<1>12. ShapeInv(r, n)
    BY DEF RootInv
<1>13. /\ ShapeInv(q, n) /\ (Listing(r) => Listing(q))
       /\ \A t \in DOMAIN r.defs :
             q.defs[t] = IF t \in DOMAIN more THEN more[t] ELSE r.defs[t]
    BY <1>1, <1>2, <1>10, <1>11, <1>12, RedefinedRoot
<1>14. \A t \in DOMAIN r.defs :
          Called(q.defs[t].calls) = Called(r.defs[t].calls)
    BY <1>10, <1>11, <1>13 DEF def
<1> QED
    BY <1>2, <1>13, <1>14 DEF SameCalls, RootInv

(* Rewriting the body of a definition by writing it out, with some calls   *)
(* given other numbers of arguments, and reading it again.                 *)
LEMMA Rewritten ==
    ASSUME NEW r, IsRoot(r), UniqueNames(r), LiveNames(r), OnePreferred(r),
           NEW here, NEW def \in Definition, NEW calls,
           \A c \in calls : /\ c.args \in Nat
                            /\ c.callee \in DOMAIN r.defs
                            /\ c.callee[1] = "born",
           Elaborates(r, here, Render(r, here, calls)), NEW new,
           new = [kind |-> def.kind, params |-> def.params, calls |->
                     Elaborate(r, here, def.kind, Render(r, here, calls))]
    PROVE  /\ new \in Definition
           /\ \A c \in new.calls : c.callee[1] = "born"
           /\ Called(new.calls) = Called(calls)
<1> DEFINE body == Render(r, here, calls)
           E == Elaborate(r, here, def.kind, body)
<1>1. body \subseteq [module : Modules \cup {Here}, name : Names, args : Nat]
    BY RenderTyped
<1>2. def.kind \in Kinds
    BY DEF Definition
<1>3. \A c \in E : c \in Call /\ c.callee[1] = "born"
    BY <1>1, <1>2, ElaborateTyped
<1>4. Called(E) = Called(calls)
    BY RoundTrip
<1>5. new = [kind |-> def.kind, params |-> def.params, calls |-> E]
    OBVIOUS
<1> HIDE DEF E, body
<1>6. new \in Definition /\ new.calls = E
    BY <1>3, <1>5 DEF Definition
<1> QED
    BY <1>3, <1>4, <1>6

(* apply_add_parameter: the function and its callers are written out, with *)
(* the default as a further argument, and read again.                      *)
LEMMA AddParameterKeepsInv ==
    ASSUME NEW r, NEW n, RootInv(r, n), NEW op \in AddParameterOps(r),
           NEW q \in AddParameterHandler(r, op)
    PROVE  RootInv(q, n) /\ SameCalls(r, q) /\ (Listing(r) => Listing(q))
<1> DEFINE target == op.on.symbol
           callers == Dependents(r, target)
           params == Append(r.defs[target].params, op.param)
           signature == [r.defs[target] EXCEPT !.params = params]
           first == [t \in {target} |-> signature]
           signed == WithDefs(r, first)
           home(s) == IF s = target THEN op.on.module
                      ELSE IF BindingsOf(r.names, s) = {} THEN Main
                      ELSE PreferredBinding(r.names, s).module
           patch(s, c) == IF s \in callers /\ c.callee = target
                          THEN [c EXCEPT !.args = @ + 1] ELSE c
           patched(s) == {patch(s, c) : c \in r.defs[s].calls}
           body(s) == Render(signed, home(s), patched(s))
           new(s) == [signed.defs[s] EXCEPT !.calls =
                         Elaborate(signed, home(s), signed.defs[s].kind, body(s))]
           more == [s \in callers \cup {target} |-> new(s)]
<1>1. /\ target \in DOMAIN r.defs
      /\ \A s \in callers \cup {target} : Elaborates(signed, home(s), body(s))
      /\ q \in Checked(WithDefs(signed, more))
    BY DEF AddParameterHandler, WithDef
<1>2. q = WithDefs(signed, more) /\ Storable(q) /\ TypeChecks(q)
    BY <1>1, StoredIsStorable
<1>3. ShapeInv(r, n)
    BY DEF RootInv
<1>4. callers \cup {target} \subseteq DOMAIN r.defs
    BY <1>1 DEF Dependents
<1>5. /\ signature \in Definition
      /\ signature.calls = r.defs[target].calls
  <2>1. r.defs[target] \in Definition /\ op.param \in ParamNames
    BY <1>1, <1>3 DEF ShapeInv, IsRoot, AddParameterOps
  <2>2. params \in Seq(ParamNames)
    BY <2>1 DEF Definition
  <2> HIDE DEF params
  <2> QED
    BY <2>1, <2>2 DEF Definition
<1> HIDE DEF signature
<1>6. DOMAIN first = {target} /\ first[target] = signature
    OBVIOUS
<1> HIDE DEF first
<1>7. \A c \in r.defs[target].calls : c.callee[1] = "born"
    BY <1>1, CallsKnown
<1>8. /\ ShapeInv(signed, n) /\ (Listing(r) => Listing(signed))
      /\ DOMAIN signed.defs = DOMAIN r.defs
      /\ \A s \in DOMAIN r.defs :
            signed.defs[s] = IF s \in DOMAIN first THEN first[s] ELSE r.defs[s]
    BY <1>1, <1>3, <1>5, <1>6, <1>7, RedefinedRoot
<1> HIDE DEF signed, callers, target
<1>9. \A s \in DOMAIN r.defs :
         /\ signed.defs[s] \in Definition
         /\ signed.defs[s].calls = r.defs[s].calls
    BY <1>5, <1>6, <1>8 DEF ShapeInv, IsRoot
<1> HIDE DEF home
<1>10. \A s \in DOMAIN r.defs : \A c \in r.defs[s].calls :
          /\ patch(s, c).args \in Nat
          /\ patch(s, c).callee = c.callee
          /\ c.callee \in DOMAIN r.defs
          /\ c.callee[1] = "born"
    BY CallsKnown DEF Call
<1> HIDE DEF patch
<1>11. \A s \in DOMAIN r.defs :
          /\ \A c \in patched(s) : /\ c.args \in Nat
                                   /\ c.callee \in DOMAIN signed.defs
                                   /\ c.callee[1] = "born"
          /\ Called(patched(s)) = Called(r.defs[s].calls)
    BY <1>8, <1>10 DEF Called
<1> HIDE DEF patched
<1>12. \A s \in callers \cup {target} :
          /\ new(s) \in Definition
          /\ \A c \in new(s).calls : c.callee[1] = "born"
          /\ Called(new(s).calls) = Called(r.defs[s].calls)
  <2>1. SUFFICES ASSUME NEW s \in callers \cup {target}
                 PROVE  /\ new(s) \in Definition
                        /\ \A c \in new(s).calls : c.callee[1] = "born"
                        /\ Called(new(s).calls) = Called(patched(s))
    BY <1>4, <1>11
  <2>2. s \in DOMAIN r.defs
    BY <1>4
  <2>3. /\ IsRoot(signed) /\ UniqueNames(signed)
        /\ LiveNames(signed) /\ OnePreferred(signed)
    BY <1>8 DEF ShapeInv, NamesIdentify
  <2>4. Elaborates(signed, home(s), Render(signed, home(s), patched(s)))
    BY <1>1
  <2> DEFINE def == signed.defs[s]
             calls == patched(s)
             here == home(s)
             z == new(s)
  <2>5. def \in Definition
    BY <1>9, <2>2
  <2>6. \A c \in calls : /\ c.args \in Nat
                         /\ c.callee \in DOMAIN signed.defs
                         /\ c.callee[1] = "born"
    BY <1>11, <2>2
  <2>7. z = [kind |-> def.kind, params |-> def.params, calls |->
                Elaborate(signed, here, def.kind, Render(signed, here, calls))]
    <3>1. z = [def EXCEPT !.calls =
                  Elaborate(signed, here, def.kind, Render(signed, here, calls))]
      OBVIOUS
    <3> HIDE DEF def, calls, here, z
    <3> QED
      BY <3>1, <2>5 DEF Definition
  <2>8. Elaborates(signed, here, Render(signed, here, calls))
    BY <2>4
  <2> HIDE DEF def, calls, here, z
  <2>9. /\ z \in Definition
        /\ \A c \in z.calls : c.callee[1] = "born"
        /\ Called(z.calls) = Called(calls)
    BY <2>3, <2>5, <2>6, <2>7, <2>8, Rewritten
  <2> QED
    BY <2>9 DEF z, calls
<1> HIDE DEF new
<1>13. /\ DOMAIN more = callers \cup {target}
       /\ \A s \in callers \cup {target} : more[s] = new(s)
    OBVIOUS
<1> HIDE DEF more
<1>14. /\ ShapeInv(q, n) /\ (Listing(signed) => Listing(q))
       /\ DOMAIN q.defs = DOMAIN r.defs
       /\ \A s \in DOMAIN r.defs :
             q.defs[s] = IF s \in DOMAIN more THEN more[s] ELSE signed.defs[s]
    BY <1>2, <1>4, <1>8, <1>12, <1>13, RedefinedRoot
<1>15. SameCalls(r, q)
    BY <1>9, <1>12, <1>13, <1>14 DEF SameCalls
<1> QED
    BY <1>2, <1>8, <1>14, <1>15 DEF RootInv

(***************************************************************************)
(* Creations.                                                              *)
(***************************************************************************)
(* Definitions of symbols that are born after the n-th, up to the k-th,    *)
(* and their names in a module of a root.                                  *)
Newborns(r, n, k, more, m, B) ==
    /\ n \in Nat /\ k \in Nat /\ n <= k
    /\ B \subseteq Binding
    /\ \A s \in DOMAIN more :
          /\ s \in Symbol /\ s[1] = "born" /\ s \notin DOMAIN r.defs /\ s[2] <= k
          /\ more[s] \in Definition
          /\ \A c \in more[s].calls : c.callee[1] = "born"
          /\ \E b \in B : b.symbol = s
    /\ \A b \in B :
          /\ b.module = m /\ b.symbol \in DOMAIN more /\ b.preferred
          /\ Available(r.names, m, b.name)
    /\ \A b, c \in B : b.name = c.name \/ b.symbol = c.symbol => b = c

Grown(r, more, B) ==
    [defs |-> WithDefs(r, more).defs, names |-> r.names \cup B,
     exports |-> r.exports, tests |-> r.tests, listed |-> r.listed]

Extends(r, more, x) ==
    /\ DOMAIN x.defs = DOMAIN r.defs \cup DOMAIN more
    /\ \A s \in DOMAIN more : x.defs[s] = more[s]
    /\ \A s \in DOMAIN r.defs : x.defs[s] = r.defs[s]

(* A root with newborn symbols, each with a preferred name in one module.  *)
LEMMA GrownRoot ==
    ASSUME NEW r, NEW n, NEW k, ShapeInv(r, n), NEW more, NEW m, NEW B,
           Newborns(r, n, k, more, m, B), NEW x, x = Grown(r, more, B)
    PROVE  ShapeInv(x, k) /\ Extends(r, more, x)
<1> DEFINE w == WithDefs(r, more)
<1>1. IsRoot(r)
    BY DEF ShapeInv
<1> USE DEF Newborns
<1>2. /\ w.names = r.names
      /\ DOMAIN w.defs = DOMAIN r.defs \cup DOMAIN more
      /\ \A s \in DOMAIN w.defs :
            w.defs[s] = IF s \in DOMAIN more THEN more[s] ELSE r.defs[s]
    BY <1>1, WithDefsFields
<1>3. IsRoot(w)
    BY <1>1, WithDefsTyped
<1> HIDE DEF w
<1>4. /\ x = [defs |-> w.defs, names |-> r.names \cup B,
              exports |-> r.exports, tests |-> r.tests, listed |-> r.listed]
    BY DEF w, Grown
<1>5. /\ x.defs = w.defs /\ x.names = r.names \cup B
      /\ x.exports = r.exports /\ x.tests = r.tests /\ x.listed = r.listed
    BY <1>4
<1>6. IsRoot(x)
  <2>1. DOMAIN x.defs \subseteq Symbol /\ x.defs \in [DOMAIN x.defs -> Definition]
    BY <1>3, <1>5 DEF IsRoot
  <2> QED
    BY <1>1, <1>4, <1>5, <2>1 DEF IsRoot
<1>7. \A s \in DOMAIN r.defs : s \notin DOMAIN more
    OBVIOUS
<1>8. \A b \in r.names : b.symbol \notin DOMAIN more
    BY <1>7 DEF ShapeInv, NamesIdentify, LiveNames
<1>9. UniqueNames(r) /\ LiveNames(r) /\ OnePreferred(r) /\ OneModule(r)
    BY DEF ShapeInv, NamesIdentify
<1>10. UniqueNames(x)
    BY <1>5, <1>9 DEF UniqueNames, Available, At
<1>11. LiveNames(x)
    BY <1>2, <1>5, <1>9 DEF LiveNames
<1>12. OneModule(x)
    BY <1>5, <1>8, <1>9 DEF OneModule
<1>13. OnePreferred(x)
  <2>1. \A s \in DOMAIN x.defs :
           s[1] = "born" => \E b \in x.names : b.symbol = s /\ b.preferred
    BY <1>2, <1>5, <1>9 DEF OnePreferred
  <2>2. \A b, c \in x.names :
           b.symbol = c.symbol /\ b.preferred /\ c.preferred => b = c
    BY <1>5, <1>8, <1>9 DEF OnePreferred
  <2> QED
    BY <2>1, <2>2 DEF OnePreferred
<1>14. Numbered(x, k)
  <2>1. SUFFICES ASSUME NEW s \in DOMAIN x.defs, s[1] = "born" PROVE s[2] <= k
    BY DEF Numbered
  <2>2. s[2] \in Nat
    BY <1>6, Symbols DEF IsRoot, Births
  <2>3. CASE s \in DOMAIN more
    BY <2>3
  <2>4. CASE s \in DOMAIN r.defs
    BY <2>1, <2>2, <2>4 DEF ShapeInv, Numbered
  <2> QED
    BY <1>2, <1>5, <2>3, <2>4
<1>15. CallsBorn(x)
    BY <1>2, <1>5 DEF ShapeInv, CallsBorn
<1> QED
    BY <1>2, <1>5, <1>6, <1>7, <1>10, <1>11, <1>12, <1>13, <1>14, <1>15
    DEF ShapeInv, NamesIdentify, Extends

(* The functions that are instantiated were born, are generic and have no  *)
(* instance yet.                                                           *)
LEMMA ToInstantiateMissing ==
    ASSUME NEW r, CallsBorn(r), NEW calls, \A c \in calls : c.callee[1] = "born",
           NEW g \in ToInstantiate(r, calls)
    PROVE  /\ g \in DOMAIN r.defs
           /\ g[1] = "born"
           /\ InstanceOf(g) \notin DOMAIN r.defs
<1> DEFINE G == {h \in Generics(r) : h[1] = "born" /\ InstanceOf(h) \notin DOMAIN r.defs}
<1>1. G \in SUBSET Generics(r)
    OBVIOUS
<1>2. Missing(r, ConcreteCallees(calls)) \subseteq G
    BY DEF Missing, ConcreteCallees
<1>3. \A h \in G : Missing(r, GenericCallees(r.defs[h].calls)) \subseteq G
    BY DEF Missing, GenericCallees, CallsBorn, Generics
<1>4. g \in G
    BY <1>1, <1>2, <1>3 DEF ToInstantiate
<1> QED
    BY <1>4 DEF Generics

(* monomorphize_into_root adds definitions of instances.                   *)
LEMMA MonomorphizeKeeps ==
    ASSUME NEW r, NEW n \in Nat, ShapeInv(r, n),
           NEW calls, \A c \in calls : c.callee[1] = "born",
           NEW q, q = Monomorphize(r, calls)
    PROVE  /\ ShapeInv(q, n)
           /\ q.names = r.names
           /\ DOMAIN r.defs \subseteq DOMAIN q.defs
           /\ \A s \in DOMAIN r.defs : q.defs[s] = r.defs[s]
<1> DEFINE I == {InstanceOf(g) : g \in ToInstantiate(r, calls)}
           more == [i \in I |-> InstanceDefinition(r, GenericOf(i))]
<1>1. q = WithDefs(r, more)
    BY DEF Monomorphize
<1>2. IsRoot(r) /\ CallsBorn(r)
    BY DEF ShapeInv
<1>3. \A i \in I : /\ i \in Symbol /\ i[1] = "instance"
                   /\ i \notin DOMAIN r.defs
                   /\ GenericOf(i) \in DOMAIN r.defs
  <2>1. SUFFICES ASSUME NEW g \in ToInstantiate(r, calls)
                 PROVE  /\ InstanceOf(g) \in Symbol /\ InstanceOf(g)[1] = "instance"
                        /\ InstanceOf(g) \notin DOMAIN r.defs
                        /\ GenericOf(InstanceOf(g)) \in DOMAIN r.defs
    OBVIOUS
  <2>2. g \in DOMAIN r.defs /\ g[1] = "born" /\ InstanceOf(g) \notin DOMAIN r.defs
    BY <1>2, ToInstantiateMissing
  <2>3. g \in Symbol
    BY <1>2, <2>2 DEF IsRoot
  <2>4. GenericOf(InstanceOf(g)) = g
    BY <2>2, <2>3 DEF GenericOf, InstanceOf, Born, Symbol
  <2> QED
    BY <2>2, <2>3, <2>4, Symbols
<1> HIDE DEF I
<1>4. \A g \in DOMAIN r.defs :
         /\ InstanceDefinition(r, g) \in Definition
         /\ \A c \in InstanceDefinition(r, g).calls : c.callee[1] = "born"
  <2>1. SUFFICES ASSUME NEW g \in DOMAIN r.defs
                 PROVE  /\ InstanceDefinition(r, g) \in Definition
                        /\ \A c \in InstanceDefinition(r, g).calls : c.callee[1] = "born"
    OBVIOUS
  <2> DEFINE fix(c) == [c EXCEPT !.at = IF @ = "parametric" THEN "concrete" ELSE @]
             E == {fix(c) : c \in r.defs[g].calls}
  <2>2. r.defs[g] \in Definition
    BY <1>2 DEF IsRoot
  <2>3. \A c \in r.defs[g].calls : c \in Call /\ c.callee[1] = "born"
    BY <1>2, <2>2 DEF Definition, CallsBorn
  <2>4. \A c \in r.defs[g].calls : fix(c) \in Call /\ fix(c).callee[1] = "born"
    BY <2>3 DEF Call
  <2>5. InstanceDefinition(r, g) =
          [kind |-> "function", params |-> r.defs[g].params, calls |-> E]
    BY DEF InstanceDefinition
  <2> HIDE DEF fix
  <2>6. \A c \in E : c \in Call /\ c.callee[1] = "born"
    BY <2>4
  <2> HIDE DEF E
  <2> QED
    BY <2>2, <2>5, <2>6 DEF Definition, Kinds
<1>5. /\ DOMAIN more = I
      /\ \A i \in I : more[i] = InstanceDefinition(r, GenericOf(i))
    OBVIOUS
<1> HIDE DEF more
<1>6. /\ q.names = r.names
      /\ DOMAIN q.defs = DOMAIN r.defs \cup I
      /\ \A s \in DOMAIN q.defs : q.defs[s] = IF s \in I THEN more[s] ELSE r.defs[s]
    BY <1>1, <1>2, <1>5, WithDefsFields
<1>7. \A i \in I : /\ more[i] \in Definition
                   /\ \A c \in more[i].calls : c.callee[1] = "born"
    BY <1>3, <1>4, <1>5
<1>8. IsRoot(q)
    BY <1>1, <1>2, <1>3, <1>5, <1>7, WithDefsTyped
<1>9. NamesIdentify(q)
    BY <1>3, <1>6
    DEF ShapeInv, NamesIdentify, UniqueNames, LiveNames, OnePreferred, OneModule
<1>10. Numbered(q, n)
    BY <1>3, <1>6 DEF ShapeInv, Numbered
<1>11. CallsBorn(q)
    BY <1>2, <1>6, <1>7 DEF CallsBorn
<1> QED
    BY <1>3, <1>6, <1>8, <1>9, <1>10, <1>11 DEF ShapeInv

(* What is listed after a creation.                                        *)
LEMMA SynchronizeAfterKeeps ==
    ASSUME NEW r, NEW n, ShapeInv(r, n), NEW m, NEW q, q = SynchronizeAfter(m, r)
    PROVE  /\ ShapeInv(q, n)
           /\ Listing(q)
           /\ q.defs = r.defs
           /\ q.names = r.names
<1> DEFINE M == {b.module : b \in r.names}
<1>1. r = [defs |-> r.defs, names |-> r.names, exports |-> r.exports,
           tests |-> r.tests, listed |-> r.listed]
    BY DEF ShapeInv, IsRoot
<1>2. CASE m # Main \/ r.listed # {}
  <2>1. q = [defs |-> r.defs, names |-> r.names, exports |-> r.exports,
             tests |-> r.tests, listed |-> M]
    BY <1>1, <1>2, SynchronizeFields DEF SynchronizeAfter
  <2>2. M \subseteq Modules
    BY DEF ShapeInv, IsRoot, Binding
  <2>3. /\ q.defs = r.defs /\ q.names = r.names /\ q.exports = r.exports
        /\ q.tests = r.tests /\ q.listed = M
    BY <2>1
  <2> HIDE DEF M
  <2>4. IsRoot(q)
    BY <2>1, <2>2, <2>3 DEF ShapeInv, IsRoot
  <2>5. NamesIdentify(q) /\ Numbered(q, n) /\ CallsBorn(q)
    BY <2>3 DEF ShapeInv, NamesIdentify, UniqueNames, LiveNames, OnePreferred,
                OneModule, Numbered, CallsBorn
  <2>6. Listing(q)
    BY <2>3 DEF M, Listing
  <2> QED
    BY <2>3, <2>4, <2>5, <2>6 DEF ShapeInv
<1>3. CASE ~(m # Main \/ r.listed # {})
    BY <1>3 DEF SynchronizeAfter, Listing
<1> QED
    BY <1>2, <1>3

(* A root names a definition of this kind, with these parameters and calls.*)
Installed(q, m, name, kind, params, callees) ==
    \E b \in q.names :
        /\ b.module = m /\ b.name = name
        /\ b.symbol \in DOMAIN q.defs
        /\ q.defs[b.symbol].kind = kind
        /\ q.defs[b.symbol].params = params
        /\ Callees(q.defs[b.symbol].calls) = callees

(* A symbol with a definition and a name, and the root that has it.        *)
Given(r, s, m, name, def) == WithName(WithDef(r, s, def), m, name, s, TRUE)
Has(x, r, s, m, name, def) ==
    /\ DOMAIN x.defs = DOMAIN r.defs \cup {s}
    /\ x.defs[s] = def
    /\ \A t \in DOMAIN r.defs : x.defs[t] = r.defs[t]
    /\ x.names = r.names \cup
         {[module |-> m, name |-> name, symbol |-> s, preferred |-> TRUE]}
    /\ x.exports = r.exports /\ x.tests = r.tests

(* A newborn one.                                                          *)
Created(r, n, m, k, def) == Given(r, Born(n + 1), m, k, def)

(* A symbol that the root has not, with a definition and a name.           *)
LEMMA NewRoot ==
    ASSUME NEW r, NEW n \in Nat, ShapeInv(r, n), NEW k \in Nat, n <= k,
           NEW s \in Symbol, s[1] = "born", s \notin DOMAIN r.defs, s[2] <= k,
           NEW m \in Modules, NEW name \in Names, Available(r.names, m, name),
           NEW def \in Definition, \A c \in def.calls : c.callee[1] = "born", NEW x,
           x = Given(r, s, m, name, def)
    PROVE  ShapeInv(x, k) /\ Has(x, r, s, m, name, def)
<1> DEFINE more == [t \in {s} |-> def]
           w == WithDefs(r, more)
           b == [module |-> m, name |-> name, symbol |-> s, preferred |-> TRUE]
           B == {b}
<1>1. IsRoot(r)
    BY DEF ShapeInv
<1>2. DOMAIN more = {s} /\ more[s] = def
    OBVIOUS
<1>3. /\ b \in Binding /\ b.module = m /\ b.name = name
      /\ b.symbol = s /\ b.preferred
    BY DEF Binding
<1>4. /\ w.names = r.names /\ w.exports = r.exports
      /\ w.tests = r.tests /\ w.listed = r.listed
  <2> HIDE DEF more
  <2>1. w = [defs |-> w.defs, names |-> r.names, exports |-> r.exports,
             tests |-> r.tests, listed |-> r.listed]
    BY <1>1, WithDefsFields
  <2> HIDE DEF w
  <2> QED
    BY <2>1
<1>5. IsRoot(w)
  <2> HIDE DEF more
  <2> QED
    BY <1>1, <1>2, WithDefsTyped
<1>6. x = [w EXCEPT !.names = w.names \cup B]
    BY DEF Given, WithName, WithDef
<1> HIDE DEF more, w, b
<1>7. x = Grown(r, more, B)
    BY <1>4, <1>5, <1>6, NamesFields DEF Grown, w
<1>8. \A t \in DOMAIN more :
          /\ t \in Symbol /\ t[1] = "born" /\ t \notin DOMAIN r.defs /\ t[2] <= k
          /\ more[t] \in Definition
          /\ \A c \in more[t].calls : c.callee[1] = "born"
          /\ \E d \in B : d.symbol = t
    BY <1>2, <1>3
<1>9. \A d \in B :
          /\ d.module = m /\ d.symbol \in DOMAIN more /\ d.preferred
          /\ Available(r.names, m, d.name)
    BY <1>2, <1>3
<1>10. Newborns(r, n, k, more, m, B)
    BY <1>3, <1>8, <1>9 DEF Newborns
<1>11. ShapeInv(x, k) /\ Extends(r, more, x)
    BY <1>7, <1>10, GrownRoot
<1>12. x.names = r.names \cup B /\ x.exports = r.exports /\ x.tests = r.tests
  <2>1. x = [defs |-> w.defs, names |-> r.names \cup B,
             exports |-> r.exports, tests |-> r.tests, listed |-> r.listed]
    BY <1>7 DEF Grown, w
  <2> HIDE DEF B
  <2> QED
    BY <2>1
<1> QED
    BY <1>2, <1>11, <1>12 DEF Extends, b, Has

(* A newborn symbol.                                                       *)
LEMMA CreatedRoot ==
    ASSUME NEW r, NEW n \in Nat, RootInv(r, n), NEW m \in Modules, NEW k \in Names,
           Available(r.names, m, k), NEW def \in Definition,
           \A c \in def.calls : c.callee[1] = "born", NEW x,
           x = Created(r, n, m, k, def)
    PROVE  /\ ShapeInv(x, n + 1)
           /\ DOMAIN r.defs \subseteq DOMAIN x.defs
           /\ \A s \in DOMAIN r.defs : x.defs[s] = r.defs[s]
           /\ r.names \subseteq x.names
           /\ Installed(x, m, k, def.kind, def.params, Callees(def.calls))
<1> DEFINE s == Born(n + 1)
<1>1. n + 1 \in Births /\ n + 1 \in Nat /\ n <= n + 1 /\ n + 1 > n
    BY DEF Births
<1>2. s \in Symbol /\ s[1] = "born" /\ s[2] = n + 1
    BY <1>1, Symbols
<1>3. s \notin DOMAIN r.defs
    BY <1>1, Fresh
<1>4. x = Given(r, s, m, k, def)
    BY DEF Created
<1> HIDE DEF s
<1>5. ShapeInv(r, n) /\ s[2] <= n + 1
    BY <1>1, <1>2 DEF RootInv
<1>6. ShapeInv(x, n + 1) /\ Has(x, r, s, m, k, def)
    BY <1>1, <1>2, <1>3, <1>4, <1>5, NewRoot
<1>7. Installed(x, m, k, def.kind, def.params, Callees(def.calls))
  <2> DEFINE b == [module |-> m, name |-> k, symbol |-> s, preferred |-> TRUE]
  <2>1. b \in x.names /\ b.module = m /\ b.name = k /\ b.symbol = s
    BY <1>6 DEF Has
  <2> HIDE DEF b
  <2>2. s \in DOMAIN x.defs /\ x.defs[s] = def
    BY <1>6 DEF Has
  <2> QED
    BY <2>1, <2>2 DEF Installed
<1> QED
    BY <1>6, <1>7 DEF Has

(* apply_create_external_function                                          *)
LEMMA CreateExternalKeepsInv ==
    ASSUME NEW r, NEW n \in Nat, RootInv(r, n), NEW op \in CreateExternalOps,
           NEW q \in CreateExternalHandler(r, n, op)
    PROVE  /\ RootInv(q, n + 1)
           /\ Listing(q)
           /\ SameCalls(r, q)
           /\ Installed(q, op.module, op.name, "external", op.params, {})
<1> DEFINE s == Born(n + 1)
           def == [kind |-> "external", params |-> op.params, calls |-> {}]
           x == WithName(WithDef(r, s, def), op.module, op.name, s, TRUE)
<1>1. /\ Available(r.names, op.module, op.name)
      /\ q \in Checked(SynchronizeAfter(op.module, x))
    BY DEF CreateExternalHandler
<1>2. q = SynchronizeAfter(op.module, x) /\ Storable(q) /\ TypeChecks(q)
    BY <1>1, StoredIsStorable
<1>3. op.module \in Modules /\ op.name \in Names /\ op.params \in Seq(ParamNames)
    BY ParamListsAssumption DEF CreateExternalOps
<1>4. def \in Definition /\ \A c \in def.calls : c.callee[1] = "born"
    BY <1>3 DEF Definition, Kinds
<1>5. def.kind = "external" /\ def.params = op.params /\ Callees(def.calls) = {}
    BY DEF Callees
<1> HIDE DEF def
<1>6. x = Created(r, n, op.module, op.name, def)
    BY DEF Created, Given
<1> HIDE DEF x
<1>7. /\ ShapeInv(x, n + 1)
      /\ DOMAIN r.defs \subseteq DOMAIN x.defs
      /\ \A t \in DOMAIN r.defs : x.defs[t] = r.defs[t]
      /\ Installed(x, op.module, op.name, def.kind, def.params, Callees(def.calls))
    BY <1>1, <1>3, <1>4, <1>6, CreatedRoot
<1> HIDE DEF x
<1>8. ShapeInv(q, n + 1) /\ Listing(q) /\ q.defs = x.defs /\ q.names = x.names
    BY <1>2, <1>7, SynchronizeAfterKeeps
<1>9. Installed(q, op.module, op.name, "external", op.params, {})
    BY <1>7, <1>8, <1>5 DEF Installed
<1> QED
    BY <1>2, <1>7, <1>8, <1>9 DEF RootInv, SameCalls

(* apply_create_function                                                   *)
LEMMA CreateFunctionKeepsInv ==
    ASSUME NEW r, NEW n \in Nat, RootInv(r, n), NEW op \in CreateFunctionOps,
           NEW q \in CreateFunctionHandler(r, n, op)
    PROVE  /\ RootInv(q, n + 1)
           /\ Listing(q)
           /\ SameCalls(r, q)
           /\ Installed(q, op.module, op.name, op.kind, op.params,
                Callees(Elaborate(q, op.module, "function", op.body)))
<1> DEFINE s == Born(n + 1)
           calls == Elaborate(r, op.module, op.kind, op.body)
           def == [kind |-> op.kind, params |-> op.params, calls |-> calls]
           x == WithName(WithDef(r, s, def), op.module, op.name, s, TRUE)
           y == Monomorphize(x, calls)
<1>1. /\ Available(r.names, op.module, op.name)
      /\ Elaborates(r, op.module, op.body)
      /\ q \in Checked(SynchronizeAfter(op.module, y))
    BY DEF CreateFunctionHandler
<1>2. q = SynchronizeAfter(op.module, y) /\ Storable(q) /\ TypeChecks(q)
    BY <1>1, StoredIsStorable
<1>3. /\ op.module \in Modules /\ op.name \in Names /\ op.params \in Seq(ParamNames)
      /\ op.kind \in Kinds /\ op.body \in Bodies
    BY ParamListsAssumption DEF CreateFunctionOps, Kinds
<1>4. op.body \subseteq [module : Modules \cup {Here}, name : Names, args : Nat]
    BY <1>3, BodiesAssumption DEF RawCall
<1>5. IsRoot(r) /\ LiveNames(r)
    BY DEF RootInv, ShapeInv, NamesIdentify
<1>6. \A c \in calls : c \in Call /\ c.callee[1] = "born"
    BY <1>1, <1>3, <1>4, <1>5, ElaborateTyped
<1> HIDE DEF calls
<1>7. /\ def \in Definition /\ def.calls = calls
      /\ def.kind = op.kind /\ def.params = op.params
    BY <1>3, <1>6 DEF Definition
<1> HIDE DEF def
<1>8. x = Created(r, n, op.module, op.name, def)
    BY DEF Created, Given
<1> HIDE DEF x
<1>9. /\ ShapeInv(x, n + 1)
      /\ DOMAIN r.defs \subseteq DOMAIN x.defs
      /\ \A t \in DOMAIN r.defs : x.defs[t] = r.defs[t]
      /\ r.names \subseteq x.names
      /\ Installed(x, op.module, op.name, op.kind, op.params, Callees(calls))
    BY <1>1, <1>3, <1>6, <1>7, <1>8, CreatedRoot
<1> HIDE DEF x
<1>10. /\ ShapeInv(y, n + 1)
      /\ y.names = x.names
      /\ DOMAIN x.defs \subseteq DOMAIN y.defs
      /\ \A t \in DOMAIN x.defs : y.defs[t] = x.defs[t]
    BY <1>6, <1>9, MonomorphizeKeeps
<1> HIDE DEF y
<1>11. ShapeInv(q, n + 1) /\ Listing(q) /\ q.defs = y.defs /\ q.names = y.names
    BY <1>2, <1>10, SynchronizeAfterKeeps
<1>12. \A t \in DOMAIN r.defs : q.defs[t] = r.defs[t]
    BY <1>9, <1>10, <1>11
<1>13. UniqueNames(q) /\ r.names \subseteq q.names
    BY <1>9, <1>10, <1>11 DEF ShapeInv, NamesIdentify
<1>14. Callees(calls) = Callees(Elaborate(q, op.module, "function", op.body))
    BY <1>1, <1>13, SameReading DEF calls
<1>15. Installed(q, op.module, op.name, op.kind, op.params, Callees(calls))
    BY <1>9, <1>10, <1>11 DEF Installed
<1> QED
    BY <1>2, <1>11, <1>12, <1>14, <1>15 DEF RootInv, SameCalls

(* apply_create_recursion_group                                            *)
LEMMA CreateGroupKeepsInv ==
    ASSUME NEW r, NEW n \in Nat, RootInv(r, n), NEW op \in CreateGroupOps,
           NEW q \in CreateGroupHandler(r, n, op)
    PROVE  /\ Len(op.members) \in Nat
           /\ RootInv(q, n + Len(op.members))
           /\ Listing(q)
           /\ SameCalls(r, q)
           /\ op.members # << >>
           /\ \A i \in DOMAIN op.members :
                 LET f == op.members[i]
                 IN  Installed(q, op.module, f.name, f.kind, f.params,
                        Callees(Elaborate(q, op.module, "function", f.body)))
<1> DEFINE ms == op.members
           k == n + Len(ms)
           symbols == {Born(n + i) : i \in DOMAIN ms}
           member(s) == ms[s[2] - n]
           first == [s \in symbols |->
                        [kind |-> member(s).kind, params |-> member(s).params,
                         calls |-> {}]]
           binding(s) == [module |-> op.module, name |-> member(s).name,
                          symbol |-> s, preferred |-> TRUE]
           B == {binding(s) : s \in symbols}
           bound == [WithDefs(r, first) EXCEPT !.names = @ \cup B]
           calls(s) == Elaborate(bound, op.module, member(s).kind, member(s).body)
           more == [s \in symbols |-> [bound.defs[s] EXCEPT !.calls = calls(s)]]
           new == WithDefs(bound, more)
           all == UNION {calls(s) : s \in symbols}
           y == Monomorphize(new, all)
<1>1. /\ ms # << >>
      /\ \A i, j \in DOMAIN ms : ms[i].name = ms[j].name => i = j
      /\ \A i \in DOMAIN ms : /\ Available(r.names, op.module, ms[i].name)
                              /\ Elaborates(bound, op.module, ms[i].body)
      /\ q \in Checked(SynchronizeAfter(op.module, y))
    BY DEF CreateGroupHandler
<1>2. q = SynchronizeAfter(op.module, y) /\ Storable(q) /\ TypeChecks(q)
    BY <1>1, StoredIsStorable
<1>3. /\ op.module \in Modules
      /\ ms \in Seq([name : Names, kind : {"function", "generic"},
                     params : Seq(ParamNames), body : SUBSET RawCall])
    BY GroupsAssumption DEF CreateGroupOps
<1>4. ShapeInv(r, n) /\ IsRoot(r)
    BY DEF RootInv, ShapeInv
<1> HIDE DEF ms
<1>5. /\ Len(ms) \in Nat /\ k \in Nat /\ n <= k
      /\ DOMAIN ms = 1 .. Len(ms)
    BY <1>3
<1>6. \A i \in DOMAIN ms :
         /\ Born(n + i) \in Symbol /\ Born(n + i)[1] = "born"
         /\ Born(n + i)[2] = n + i
         /\ n < n + i /\ n + i <= k
         /\ n + i - n = i
  <2>1. \A i \in DOMAIN ms : n + i \in Births
    BY <1>5 DEF Births
  <2> QED
    BY <1>5, <2>1, Symbols
<1>7. \A s \in symbols : \E i \in DOMAIN ms :
         /\ s = Born(n + i) /\ member(s) = ms[i]
    BY <1>6
<1>8. \A i \in DOMAIN ms : \E s \in symbols : member(s) = ms[i]
    BY <1>6
<1>9. \A s \in symbols :
         /\ s \in Symbol /\ s[1] = "born" /\ n < s[2] /\ s[2] <= k
         /\ member(s).name \in Names
         /\ member(s).kind \in {"function", "generic"}
         /\ member(s).params \in Seq(ParamNames)
         /\ member(s).body \subseteq RawCall
         /\ Available(r.names, op.module, member(s).name)
         /\ Elaborates(bound, op.module, member(s).body)
  <2>1. \A i \in DOMAIN ms : ms[i] \in [name : Names, kind : {"function", "generic"},
                                       params : Seq(ParamNames), body : SUBSET RawCall]
    <3> DEFINE S == [name : Names, kind : {"function", "generic"},
                     params : Seq(ParamNames), body : SUBSET RawCall]
    <3>1. ms \in Seq(S)
      BY <1>3
    <3> HIDE DEF S
    <3>2. \A i \in DOMAIN ms : ms[i] \in S
      BY <3>1
    <3> QED
      BY <3>2 DEF S
  <2> HIDE DEF bound, symbols, member
  <2> QED
    BY <1>1, <1>6, <1>7, <2>1
<1>10. \A s, t \in symbols : member(s).name = member(t).name => s = t
  <2> HIDE DEF symbols, member
  <2> QED
    BY <1>1, <1>7
<1> HIDE DEF member, k, symbols
<1>11. \A s \in symbols : /\ binding(s) \in Binding
                          /\ binding(s).module = op.module
                          /\ binding(s).name = member(s).name
                          /\ binding(s).symbol = s
                          /\ binding(s).preferred
    BY <1>3, <1>9 DEF Binding
<1>12. /\ DOMAIN first = symbols
       /\ \A s \in symbols : /\ first[s] \in Definition /\ first[s].calls = {}
                             /\ first[s].kind = member(s).kind
                             /\ first[s].params = member(s).params
    BY <1>9 DEF Definition, Kinds
<1> HIDE DEF first, binding
<1>13. Newborns(r, n, k, first, op.module, B)
  <2>0. \A s \in symbols : s \notin DOMAIN r.defs
    <3> SUFFICES ASSUME NEW s \in symbols, s \in DOMAIN r.defs PROVE FALSE
      OBVIOUS
    <3>1. s \in Symbol /\ s[1] = "born" /\ n < s[2]
      BY <1>9
    <3>2. s[2] \in Nat
      BY <3>1, Symbols DEF Births
    <3>3. s[2] <= n
      BY <1>4, <3>1 DEF ShapeInv, Numbered
    <3> QED
      BY <3>1, <3>2, <3>3
  <2>1. B \subseteq Binding
    BY <1>11
  <2>2. \A s \in DOMAIN first :
           /\ s \in Symbol /\ s[1] = "born" /\ s \notin DOMAIN r.defs /\ s[2] <= k
           /\ first[s] \in Definition
           /\ \A c \in first[s].calls : c.callee[1] = "born"
    BY <1>9, <1>12, <2>0
  <2>3. \A s \in DOMAIN first : \E b \in B : b.symbol = s
    BY <1>11, <1>12
  <2>4. \A b \in B :
           /\ b.module = op.module /\ b.symbol \in DOMAIN first /\ b.preferred
           /\ Available(r.names, op.module, b.name)
    <3>1. SUFFICES ASSUME NEW s \in symbols
                   PROVE  /\ binding(s).module = op.module
                          /\ binding(s).symbol \in DOMAIN first
                          /\ binding(s).preferred
                          /\ Available(r.names, op.module, binding(s).name)
      OBVIOUS
    <3> QED
      BY <1>9, <1>11, <1>12
  <2>5. \A b, c \in B : b.name = c.name \/ b.symbol = c.symbol => b = c
    BY <1>10, <1>11
  <2> QED
    BY <1>5, <2>1, <2>2, <2>3, <2>4, <2>5 DEF Newborns
<1>14. bound = Grown(r, first, B)
  <2> DEFINE w == WithDefs(r, first)
  <2>1. /\ w = [defs |-> w.defs, names |-> r.names, exports |-> r.exports,
                tests |-> r.tests, listed |-> r.listed]
    BY <1>4, WithDefsFields
  <2>2. IsRoot(w)
    BY <1>4, <1>9, <1>12, WithDefsTyped
  <2> HIDE DEF w
  <2>3. /\ w.names = r.names /\ w.exports = r.exports
        /\ w.tests = r.tests /\ w.listed = r.listed
    BY <2>1
  <2> HIDE DEF B
  <2>4. bound = [w EXCEPT !.names = w.names \cup B]
    BY DEF w
  <2> HIDE DEF bound
  <2> QED
    BY <2>2, <2>3, <2>4, NamesFields DEF Grown, w
<1>15. bound.names = r.names \cup B
  <2> HIDE DEF B, bound
  <2> QED
    BY <1>14 DEF Grown
<1>16. \A s \in symbols : binding(s) \in bound.names
    BY <1>15
<1> HIDE DEF B, bound
<1>17. ShapeInv(bound, k) /\ Extends(r, first, bound)
    BY <1>4, <1>13, <1>14, GrownRoot
<1>18. \A s \in symbols : \A c \in calls(s) : c \in Call /\ c.callee[1] = "born"
  <2>1. SUFFICES ASSUME NEW s \in symbols, NEW c \in calls(s)
                 PROVE  c \in Call /\ c.callee[1] = "born"
    OBVIOUS
  <2>2. IsRoot(bound) /\ LiveNames(bound)
    BY <1>17 DEF ShapeInv, NamesIdentify
  <2>3. member(s).body \subseteq [module : Modules \cup {Here}, name : Names, args : Nat]
    BY <1>9 DEF RawCall
  <2>4. member(s).kind \in Kinds /\ Elaborates(bound, op.module, member(s).body)
    BY <1>9 DEF Kinds
  <2> QED
    BY <2>2, <2>3, <2>4, ElaborateTyped
<1> HIDE DEF calls
<1>19. \A s \in symbols : s \in DOMAIN bound.defs /\ s \notin DOMAIN r.defs
  <2>1. \A s \in symbols : s \notin DOMAIN r.defs
    BY <1>4, <1>9, Symbols DEF ShapeInv, Numbered, Births
  <2> QED
    BY <1>12, <1>17, <2>1 DEF Extends
<1>20. /\ DOMAIN more = symbols
       /\ \A s \in symbols : /\ more[s] \in Definition
                             /\ \A c \in more[s].calls : c.callee[1] = "born"
                             /\ more[s].kind = member(s).kind
                             /\ more[s].params = member(s).params
                             /\ more[s].calls = calls(s)
  <2>1. \A s \in symbols : /\ bound.defs[s] \in Definition
                           /\ bound.defs[s].kind = member(s).kind
                           /\ bound.defs[s].params = member(s).params
    BY <1>12, <1>17, <1>19 DEF ShapeInv, IsRoot, Extends
  <2>2. \A s \in symbols :
           /\ more[s] \in Definition
           /\ more[s].calls = calls(s)
           /\ more[s].kind = bound.defs[s].kind
           /\ more[s].params = bound.defs[s].params
    BY <1>18, <2>1 DEF Definition
  <2> QED
    BY <1>18, <2>1, <2>2
<1> HIDE DEF more
<1>21. ShapeInv(new, k)
    BY <1>17, <1>19, <1>20, RedefinedRoot
<1>22. /\ new.names = bound.names
       /\ DOMAIN new.defs = DOMAIN bound.defs
       /\ \A s \in DOMAIN bound.defs :
             new.defs[s] = IF s \in DOMAIN more THEN more[s] ELSE bound.defs[s]
    BY <1>17, <1>19, <1>20, RedefinedRoot
<1>23. \A s \in DOMAIN r.defs : s \in DOMAIN new.defs /\ new.defs[s] = r.defs[s]
    BY <1>17, <1>19, <1>20, <1>22 DEF Extends
<1> HIDE DEF new
<1>24. \A c \in all : c.callee[1] = "born"
    BY <1>18
<1> HIDE DEF all
<1>25. /\ ShapeInv(y, k)
       /\ y.names = new.names
       /\ DOMAIN new.defs \subseteq DOMAIN y.defs
       /\ \A s \in DOMAIN new.defs : y.defs[s] = new.defs[s]
    BY <1>5, <1>21, <1>24, MonomorphizeKeeps
<1> HIDE DEF y
<1>26. ShapeInv(q, k) /\ Listing(q) /\ q.defs = y.defs /\ q.names = y.names
    BY <1>2, <1>25, SynchronizeAfterKeeps
<1>27. \A s \in DOMAIN r.defs : q.defs[s] = r.defs[s]
    BY <1>23, <1>25, <1>26
<1>28. \A s \in symbols :
          /\ s \in DOMAIN q.defs
          /\ q.defs[s].kind = member(s).kind
          /\ q.defs[s].params = member(s).params
          /\ q.defs[s].calls = calls(s)
          /\ binding(s) \in q.names
    BY <1>19, <1>20, <1>22, <1>25, <1>26, <1>16
<1>29. UniqueNames(q) /\ bound.names \subseteq q.names
    BY <1>22, <1>25, <1>26 DEF ShapeInv, NamesIdentify
<1>30. \A s \in symbols :
          Callees(calls(s)) =
          Callees(Elaborate(q, op.module, "function", member(s).body))
    BY <1>9, <1>29, SameReading DEF calls
<1>31. \A s \in symbols :
          Installed(q, op.module, member(s).name, member(s).kind, member(s).params,
            Callees(Elaborate(q, op.module, "function", member(s).body)))
    BY <1>11, <1>28, <1>30 DEF Installed
<1>32. \A i \in DOMAIN ms :
          Installed(q, op.module, ms[i].name, ms[i].kind, ms[i].params,
            Callees(Elaborate(q, op.module, "function", ms[i].body)))
    BY <1>8, <1>31
<1> QED
    BY <1>1, <1>2, <1>5, <1>26, <1>27, <1>32 DEF RootInv, SameCalls, k, ms

(***************************************************************************)
(* All operations.                                                         *)
(***************************************************************************)
(* Definitions that stay call whom they called.                            *)
LEMMA SameDefsSameCalls ==
    ASSUME NEW r, NEW q,
           \A s \in DOMAIN r.defs \cap DOMAIN q.defs : q.defs[s] = r.defs[s]
    PROVE  SameCalls(r, q)
BY DEF SameCalls

(* Every handler keeps what is true of roots, and all but that of a new    *)
(* body keep whom each function calls (apply_operation).                   *)
LEMMA HandleKeepsInv ==
    ASSUME NEW r, NEW n \in Nat, RootInv(r, n),
           NEW op \in EditOps(r) \cup CreateGroupOps,
           NEW q \in Handle(r, n, op)
    PROVE  /\ n + Newborn(op) \in Nat
           /\ RootInv(q, n + Newborn(op))
           /\ Listing(r) => Listing(q)
           /\ SameCalls(r, q) \/ op.op = "replace_function_body"
<1>0. n + 0 = n
    OBVIOUS
<1>1. CASE op \in CreateFunctionOps
  <2>1. op.op = "create_function"
    BY <1>1 DEF CreateFunctionOps
  <2>2. q \in CreateFunctionHandler(r, n, op) /\ Newborn(op) = 1
    BY <2>1 DEF Handle, Newborn
  <2> QED
    BY <1>1, <2>2, CreateFunctionKeepsInv
<1>2. CASE op \in CreateExternalOps
  <2>1. op.op = "create_external_function"
    BY <1>2 DEF CreateExternalOps
  <2>2. q \in CreateExternalHandler(r, n, op) /\ Newborn(op) = 1
    BY <2>1 DEF Handle, Newborn
  <2> QED
    BY <1>2, <2>2, CreateExternalKeepsInv
<1>3. CASE op \in CreateGroupOps
  <2>1. op.op = "create_recursion_group"
    BY <1>3 DEF CreateGroupOps
  <2>2. q \in CreateGroupHandler(r, n, op) /\ Newborn(op) = Len(op.members)
    BY <2>1 DEF Handle, Newborn
  <2> QED
    BY <1>3, <2>2, CreateGroupKeepsInv
<1>4. CASE op \in RenameOps(r)
  <2>1. op.op = "rename_symbol"
    BY <1>4 DEF RenameOps
  <2>2. q \in RenameHandler(r, op) /\ Newborn(op) = 0
    BY <2>1 DEF Handle, Newborn
  <2> QED
    BY <1>0, <1>4, <2>2, RenameKeepsInv, SameDefsSameCalls
<1>5. CASE op \in MoveOps(r)
  <2>1. op.op = "move_symbol"
    BY <1>5 DEF MoveOps
  <2>2. q \in MoveHandler(r, op) /\ Newborn(op) = 0
    BY <2>1 DEF Handle, Newborn
  <2> QED
    BY <1>0, <1>5, <2>2, MoveKeepsInv, SameDefsSameCalls
<1>6. CASE op \in ReplaceBodyOps(r)
  <2>1. op.op = "replace_function_body"
    BY <1>6 DEF ReplaceBodyOps
  <2>2. q \in ReplaceBodyHandler(r, op) /\ Newborn(op) = 0
    BY <2>1 DEF Handle, Newborn
  <2> QED
    BY <1>0, <1>6, <2>1, <2>2, ReplaceBodyKeepsInv
<1>7. CASE op \in ChangeSignatureOps(r)
  <2>1. op.op = "change_function_signature"
    BY <1>7 DEF ChangeSignatureOps
  <2>2. q \in ChangeSignatureHandler(r, op) /\ Newborn(op) = 0
    BY <2>1 DEF Handle, Newborn
  <2> QED
    BY <1>0, <1>7, <2>2, ChangeSignatureKeepsInv
<1>8. CASE op \in AddParameterOps(r)
  <2>1. op.op = "add_parameter"
    BY <1>8 DEF AddParameterOps
  <2>2. q \in AddParameterHandler(r, op) /\ Newborn(op) = 0
    BY <2>1 DEF Handle, Newborn
  <2> QED
    BY <1>0, <1>8, <2>2, AddParameterKeepsInv
<1>9. CASE op \in DeleteOps(r)
  <2>1. op.op = "delete_symbol"
    BY <1>9 DEF DeleteOps
  <2>2. q \in DeleteHandler(r, op) /\ Newborn(op) = 0
    BY <2>1 DEF Handle, Newborn
  <2> QED
    BY <1>0, <1>9, <2>2, DeleteKeepsInv, SameDefsSameCalls
<1>10. CASE op \in CreateAliasOps(r)
  <2>1. op.op = "create_alias"
    BY <1>10 DEF CreateAliasOps
  <2>2. q \in CreateAliasHandler(r, op) /\ Newborn(op) = 0
    BY <2>1 DEF Handle, Newborn
  <2> QED
    BY <1>0, <1>10, <2>2, CreateAliasKeepsInv, SameDefsSameCalls
<1>11. CASE op \in RemoveAliasOps(r)
  <2>1. op.op = "remove_alias"
    BY <1>11 DEF RemoveAliasOps
  <2>2. q \in RemoveAliasHandler(r, op) /\ Newborn(op) = 0
    BY <2>1 DEF Handle, Newborn
  <2> QED
    BY <1>0, <1>11, <2>2, RemoveAliasKeepsInv, SameDefsSameCalls
<1>12. CASE op \in SetExportOps(r)
  <2>1. op.op = "set_export"
    BY <1>12 DEF SetExportOps
  <2>2. q \in SetExportHandler(r, op) /\ Newborn(op) = 0
    BY <2>1 DEF Handle, Newborn
  <2> QED
    BY <1>0, <1>12, <2>2, SetExportKeepsInv, SameDefsSameCalls
<1>13. CASE op \in RemoveExportOps(r)
  <2>1. op.op = "remove_export"
    BY <1>13 DEF RemoveExportOps
  <2>2. q \in RemoveExportHandler(r, op) /\ Newborn(op) = 0
    BY <2>1 DEF Handle, Newborn
  <2> QED
    BY <1>0, <1>13, <2>2, RemoveExportKeepsInv, SameDefsSameCalls
<1>14. CASE op \in CreateTestOps(r)
  <2>1. op.op = "create_test"
    BY <1>14 DEF CreateTestOps
  <2>2. q \in CreateTestHandler(r, op) /\ Newborn(op) = 0
    BY <2>1 DEF Handle, Newborn
  <2> QED
    BY <1>0, <1>14, <2>2, CreateTestKeepsInv, SameDefsSameCalls
<1>15. CASE op \in DeleteTestOps(r)
  <2>1. op.op = "delete_test"
    BY <1>15 DEF DeleteTestOps
  <2>2. q \in DeleteTestHandler(r, op) /\ Newborn(op) = 0
    BY <2>1 DEF Handle, Newborn
  <2> QED
    BY <1>0, <1>15, <2>2, DeleteTestKeepsInv, SameDefsSameCalls
<1> QED
    BY <1>1, <1>2, <1>3, <1>4, <1>5, <1>6, <1>7, <1>8, <1>9, <1>10, <1>11,
       <1>12, <1>13, <1>14, <1>15 DEF EditOps

(***************************************************************************)
(* Roots by themselves.                                                    *)
(***************************************************************************)
(* What is true of roots is true of the empty one (ensure_initialized).    *)
LEMMA EmptyRootInv ==
    ASSUME NEW n \in Nat
    PROVE  RootInv(EmptyRoot, n) /\ Listing(EmptyRoot)
<1> DEFINE r == EmptyRoot
<1>1. /\ r = [defs |-> << >>, names |-> {}, exports |-> {}, tests |-> {}, listed |-> {}]
      /\ r.names = {} /\ r.exports = {}
      /\ r.tests = {} /\ r.listed = {} /\ r.defs = << >>
    BY DEF EmptyRoot
<1> HIDE DEF r
<1>2. DOMAIN r.defs = {}
    BY <1>1
<1>3. IsRoot(r)
    BY <1>1, <1>2 DEF IsRoot
<1>4. NamesIdentify(r)
    BY <1>1, <1>2 DEF NamesIdentify, UniqueNames, LiveNames, OnePreferred, OneModule
<1>5. Numbered(r, n) /\ CallsBorn(r) /\ TypeChecks(r)
    BY <1>1, <1>2 DEF Numbered, CallsBorn, TypeChecks
<1>6. Storable(r) /\ Listing(r)
    BY <1>1 DEF Storable, Listing
<1> QED
    BY <1>3, <1>4, <1>5, <1>6 DEF RootInv, ShapeInv, r

(* Later births leave it true.                                             *)
LEMMA MoreBirths ==
    ASSUME NEW r, NEW n \in Nat, NEW k \in Nat, n <= k, RootInv(r, n)
    PROVE  RootInv(r, k)
<1>1. \A s \in DOMAIN r.defs : s[2] \in Nat
    BY DEF RootInv, ShapeInv, IsRoot, Symbol, Births
<1>2. Numbered(r, k)
    BY <1>1 DEF RootInv, ShapeInv, Numbered
<1> QED
    BY <1>2 DEF RootInv, ShapeInv

(* A handler gives one root, and only the creations look at how many       *)
(* symbols were born.                                                      *)
LEMMA HandleDetermined ==
    ASSUME NEW r, NEW op \in EditOps(r), NEW n, NEW k,
           Newborn(op) = 0 \/ n = k,
           NEW p \in Handle(r, n, op), NEW q \in Handle(r, k, op)
    PROVE  p = q
<1>1. \A x : \A y \in Stored(x) \cup Checked(x) : y = x
    BY DEF Stored, Checked
<1>2. CASE op \in CreateFunctionOps
  <2>1. op.op = "create_function"
    BY <1>2 DEF CreateFunctionOps
  <2>2. n = k
    BY <2>1 DEF Newborn
  <2> QED
    BY <1>1, <2>1, <2>2 DEF Handle, CreateFunctionHandler
<1>3. CASE op \in CreateExternalOps
  <2>1. op.op = "create_external_function"
    BY <1>3 DEF CreateExternalOps
  <2>2. n = k
    BY <2>1 DEF Newborn
  <2> QED
    BY <1>1, <2>1, <2>2 DEF Handle, CreateExternalHandler
<1>4. CASE op \in RenameOps(r)
  <2>1. op.op = "rename_symbol"
    BY <1>4 DEF RenameOps
  <2> QED
    BY <1>1, <2>1 DEF Handle, RenameHandler
<1>5. CASE op \in MoveOps(r)
  <2>1. op.op = "move_symbol"
    BY <1>5 DEF MoveOps
  <2> QED
    BY <1>1, <2>1 DEF Handle, MoveHandler
<1>6. CASE op \in ReplaceBodyOps(r)
  <2>1. op.op = "replace_function_body"
    BY <1>6 DEF ReplaceBodyOps
  <2> QED
    BY <1>1, <2>1 DEF Handle, ReplaceBodyHandler
<1>7. CASE op \in ChangeSignatureOps(r)
  <2>1. op.op = "change_function_signature"
    BY <1>7 DEF ChangeSignatureOps
  <2> QED
    BY <1>1, <2>1 DEF Handle, ChangeSignatureHandler
<1>8. CASE op \in AddParameterOps(r)
  <2>1. op.op = "add_parameter"
    BY <1>8 DEF AddParameterOps
  <2> QED
    BY <1>1, <2>1 DEF Handle, AddParameterHandler
<1>9. CASE op \in DeleteOps(r)
  <2>1. op.op = "delete_symbol"
    BY <1>9 DEF DeleteOps
  <2> QED
    BY <1>1, <2>1 DEF Handle, DeleteHandler
<1>10. CASE op \in CreateAliasOps(r)
  <2>1. op.op = "create_alias"
    BY <1>10 DEF CreateAliasOps
  <2> QED
    BY <1>1, <2>1 DEF Handle, CreateAliasHandler
<1>11. CASE op \in RemoveAliasOps(r)
  <2>1. op.op = "remove_alias"
    BY <1>11 DEF RemoveAliasOps
  <2> QED
    BY <1>1, <2>1 DEF Handle, RemoveAliasHandler
<1>12. CASE op \in SetExportOps(r)
  <2>1. op.op = "set_export"
    BY <1>12 DEF SetExportOps
  <2> QED
    BY <1>1, <2>1 DEF Handle, SetExportHandler
<1>13. CASE op \in RemoveExportOps(r)
  <2>1. op.op = "remove_export"
    BY <1>13 DEF RemoveExportOps
  <2> QED
    BY <1>1, <2>1 DEF Handle, RemoveExportHandler
<1>14. CASE op \in CreateTestOps(r)
  <2>1. op.op = "create_test"
    BY <1>14 DEF CreateTestOps
  <2> QED
    BY <1>1, <2>1 DEF Handle, CreateTestHandler
<1>15. CASE op \in DeleteTestOps(r)
  <2>1. op.op = "delete_test"
    BY <1>15 DEF DeleteTestOps
  <2> QED
    BY <1>1, <2>1 DEF Handle, DeleteTestHandler
<1> QED
    BY <1>2, <1>3, <1>4, <1>5, <1>6, <1>7, <1>8, <1>9, <1>10, <1>11, <1>12,
       <1>13, <1>14, <1>15 DEF EditOps
=============================================================================
