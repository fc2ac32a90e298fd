---------------------------- MODULE ProgramRoots ----------------------------
(***************************************************************************)
(* Program roots and the semantic operations that take one root to the     *)
(* next: operators only.  A root maps symbols to definitions, and names,   *)
(* exports and tests to symbols.                                           *)
(*                                                                         *)
(* A definition keeps what operations can tell apart: its kind, its        *)
(* parameter names and the calls its body makes.  There is one concrete    *)
(* type; every parameter and result of a generic function has its type     *)
(* parameter's.  A generic body passes its parameters to the generic       *)
(* functions it calls and literals to the others.                          *)
(***************************************************************************)
EXTENDS Naturals, Sequences, FiniteSets

CONSTANTS
    Modules, Main,
    Here,           \* the module of a name that is written without one
    Names,          \* display names of functions
    ParamNames,
    ExportNames,
    TestNames,
    Outcomes        \* expected values of tests

ASSUME MainAssumption == Main \in Modules
ASSUME HereAssumption == Here \notin Modules

(***************************************************************************)
(* A symbol is a birth hash.  The instance of a generic function at the    *)
(* one concrete type is a symbol derived from the function's own.          *)
(***************************************************************************)
Births == Nat \ {0}
Symbol == {"born", "instance"} \X Births
Born(n) == <<"born", n>>
InstanceOf(g) == <<"instance", g[2]>>
GenericOf(i) == Born(i[2])

Kinds == {"function", "external", "generic"}

(* at: how the call was typed.  A generic call records its type arguments. *)
Call ==
    [callee : Symbol, args : Nat, at : {"plain", "concrete", "parametric"}]
Definition == [kind : Kinds, params : Seq(ParamNames), calls : SUBSET Call]

(* The names of the parameters are no part of a signature.                 *)
Signature(d) == [generic |-> d.kind = "generic", count |-> Len(d.params)]

(* A call as it is written: names, no symbols.                             *)
RawCall == [module : Modules \cup {Here}, name : Names, args : Nat]

Binding ==
    [module : Modules, name : Names, symbol : Symbol, preferred : BOOLEAN]
Case == [entry : Symbol, args : Nat, expected : Outcomes]

(* listed is the modules metadata; empty when the root has none.           *)
IsRoot(r) ==
    /\ r = [defs |-> r.defs, names |-> r.names, exports |-> r.exports,
            tests |-> r.tests, listed |-> r.listed]
    /\ DOMAIN r.defs \subseteq Symbol
    /\ r.defs \in [DOMAIN r.defs -> Definition]
    /\ r.names \subseteq Binding
    /\ r.exports \subseteq [name : ExportNames, symbol : Symbol]
    /\ r.tests \subseteq [name : TestNames, case : Case]
    /\ r.listed \subseteq Modules

EmptyRoot ==
    [defs |-> << >>, names |-> {}, exports |-> {}, tests |-> {},
     listed |-> {}]

(***************************************************************************)
(* Names.                                                                  *)
(***************************************************************************)
At(names, m, n) == {b \in names : b.module = m /\ b.name = n}
Available(names, m, n) == At(names, m, n) = {}
PointsTo(names, m, n, s) == \E b \in At(names, m, n) : b.symbol = s
Prefers(names, m, n, s) ==
    \E b \in At(names, m, n) : b.symbol = s /\ b.preferred
Aliases(names, m, n, s) ==
    \E b \in At(names, m, n) : b.symbol = s /\ ~b.preferred
Resolve(names, m, n) == (CHOOSE b \in At(names, m, n) : TRUE).symbol

BindingsOf(names, s) == {b \in names : b.symbol = s}
PreferredBinding(names, s) ==
    IF \E b \in BindingsOf(names, s) : b.preferred
    THEN CHOOSE b \in BindingsOf(names, s) : b.preferred
    ELSE CHOOSE b \in BindingsOf(names, s) : TRUE

(***************************************************************************)
(* Bodies: elaborated from names to symbols, rendered from symbols to      *)
(* names, both as seen from a module.                                      *)
(***************************************************************************)
(* [Mutant: the module that a name is written with is not looked at.]      *)
TargetHere(here, raw) == here

Target(here, raw) == IF raw.module = Here THEN here ELSE raw.module

Elaborates(r, here, body) ==
    \A raw \in body :
        LET m == Target(here, raw)
            s == Resolve(r.names, m, raw.name)
        IN  /\ ~Available(r.names, m, raw.name)
            /\ s \in DOMAIN r.defs
            /\ Len(r.defs[s].params) = raw.args

TypedAt(caller, callee) ==
    IF callee # "generic" THEN "plain"
    ELSE IF caller = "generic" THEN "parametric" ELSE "concrete"

Elaborate(r, here, kind, body) ==
    {LET s == Resolve(r.names, Target(here, raw), raw.name)
     IN  [callee |-> s, args |-> raw.args,
          at |-> TypedAt(kind, r.defs[s].kind)] : raw \in body}

(* [Mutant: names of other modules are not qualified.]                     *)
RenderLocal(r, here, calls) ==
    {[module |-> Here, name |-> PreferredBinding(r.names, c.callee).name,
      args |-> c.args] : c \in calls}

Render(r, here, calls) ==
    {LET b == PreferredBinding(r.names, c.callee)
     IN  [module |-> IF b.module = here THEN Here ELSE b.module,
          name |-> b.name, args |-> c.args] : c \in calls}

(***************************************************************************)
(* What a body depends on when it is built: a generic call on the instance *)
(* its type arguments select, if the root has it.                          *)
(***************************************************************************)
(* [Mutant: instances are not followed.]                                   *)
PlainDependencies(r, s) ==
    {c.callee : c \in {d \in r.defs[s].calls : d.at = "plain"}} \cap DOMAIN r.defs

Dependencies(r, s) ==
    ({c.callee : c \in {d \in r.defs[s].calls : d.at = "plain"}}
     \cup {InstanceOf(c.callee) :
              c \in {d \in r.defs[s].calls : d.at = "concrete"}})
    \cap DOMAIN r.defs
Dependents(r, s) == {t \in DOMAIN r.defs : s \in Dependencies(r, t)}

(***************************************************************************)
(* type_check_root.                                                        *)
(***************************************************************************)
CallChecks(r, kind, c) ==
    /\ c.callee \in DOMAIN r.defs
    /\ Len(r.defs[c.callee].params) = c.args
    /\ c.at = "plain" => r.defs[c.callee].kind # "generic"
    /\ c.at = "parametric" =>
          kind = "generic" /\ r.defs[c.callee].kind = "generic"

TestChecks(r, case) ==
    /\ case.entry \in DOMAIN r.defs
    /\ Len(r.defs[case.entry].params) = case.args
    /\ r.defs[case.entry].kind # "generic"

TypeChecks(r) ==
    /\ \A s \in DOMAIN r.defs :
          \A c \in r.defs[s].calls : CallChecks(r, r.defs[s].kind, c)
    /\ \A t \in r.tests : TestChecks(r, t.case)
    /\ \A t, u \in r.tests : t.name = u.name => t = u

(* put_program_root refuses a root whose export map is wrong.              *)
Storable(r) ==
    /\ \A e \in r.exports : e.symbol \in DOMAIN r.defs
    /\ \A e, f \in r.exports : e.name = f.name => e = f

Stored(r) == IF Storable(r) THEN {r} ELSE {}
(* [Mutant: type_check_root is left out.]                                  *)
Unchecked(r) == IF Storable(r) THEN {r} ELSE {}

Checked(r) == IF Storable(r) /\ TypeChecks(r) THEN {r} ELSE {}

(***************************************************************************)
(* Instances.  monomorphize_into_root follows the concrete generic calls   *)
(* of a body, and those its instances make, down to the instances that the *)
(* root already has.                                                       *)
(***************************************************************************)
InstanceDefinition(r, g) ==
    [kind |-> "function", params |-> r.defs[g].params,
     calls |-> {[c EXCEPT !.at = IF @ = "parametric" THEN "concrete" ELSE @] :
                   c \in r.defs[g].calls}]

GenericCallees(calls) == {c.callee : c \in {d \in calls : d.at # "plain"}}
ConcreteCallees(calls) ==
    {c.callee : c \in {d \in calls : d.at = "concrete"}}

Generics(r) == {g \in DOMAIN r.defs : r.defs[g].kind = "generic"}
Missing(r, callees) ==
    {g \in callees \cap Generics(r) : InstanceOf(g) \notin DOMAIN r.defs}

(* The least set of functions that has the missing callees of the body     *)
(* and of its own members.                                                 *)
ToInstantiate(r, calls) ==
    {g \in Generics(r) :
        \A G \in SUBSET Generics(r) :
            /\ Missing(r, ConcreteCallees(calls)) \subseteq G
            /\ \A h \in G :
                  Missing(r, GenericCallees(r.defs[h].calls)) \subseteq G
            => g \in G}

(***************************************************************************)
(* Rebuilding parts of a root.                                             *)
(***************************************************************************)
WithDefs(r, more) ==
    [r EXCEPT !.defs =
        [s \in DOMAIN r.defs \cup DOMAIN more |->
            IF s \in DOMAIN more THEN more[s] ELSE r.defs[s]]]

WithDef(r, s, def) == WithDefs(r, [t \in {s} |-> def])

(* [Mutant: a body is stored without its instances.]                       *)
NoInstances(r, calls) == r

Monomorphize(r, calls) ==
    WithDefs(r, [i \in {InstanceOf(g) : g \in ToInstantiate(r, calls)} |->
                    InstanceDefinition(r, GenericOf(i))])

(* [Mutant: the last parameter is not compared with the others.]           *)
DistinctButLast(params) ==
    \A i, j \in 1 .. Len(params) - 1 : params[i] = params[j] => i = j

Distinct(params) ==
    \A i, j \in DOMAIN params : params[i] = params[j] => i = j

WithName(r, m, n, s, preferred) ==
    [r EXCEPT !.names = @ \cup
        {[module |-> m, name |-> n, symbol |-> s, preferred |-> preferred]}]

(* [Mutant: functions are listed in the place of modules.]                 *)
SynchronizeNames(r) == [r EXCEPT !.listed = {b.name : b \in r.names}]

Synchronize(r) == [r EXCEPT !.listed = {b.module : b \in r.names}]

(* Creations in main leave the metadata out as long as there is none.      *)
(* [Mutant: they always leave it alone.]                                   *)
SynchronizeElsewhere(m, r) == IF m # Main THEN Synchronize(r) ELSE r

SynchronizeAfter(m, r) ==
    IF m # Main \/ r.listed # {} THEN Synchronize(r) ELSE r

(***************************************************************************)
(* What the properties of programs are stated with.                        *)
(***************************************************************************)
(* Names identify: no two bindings share a module and a name, every        *)
(* binding points at a live symbol, every symbol that was born has exactly *)
(* one preferred name and all its names are in one module.  Instances are  *)
(* derived and have none.                                                  *)
UniqueNames(r) ==
    \A b, c \in r.names : b.module = c.module /\ b.name = c.name => b = c
LiveNames(r) ==
    \A b \in r.names : b.symbol \in DOMAIN r.defs /\ b.symbol[1] = "born"
OnePreferred(r) ==
    /\ \A s \in DOMAIN r.defs :
          s[1] = "born" => \E b \in r.names : b.symbol = s /\ b.preferred
    /\ \A b, c \in r.names :
          b.symbol = c.symbol /\ b.preferred /\ c.preferred => b = c
OneModule(r) ==
    \A b, c \in r.names : b.symbol = c.symbol => b.module = c.module
NamesIdentify(r) ==
    UniqueNames(r) /\ LiveNames(r) /\ OnePreferred(r) /\ OneModule(r)

(* The calls of a body, however they were typed.                           *)
Callees(calls) == {[callee |-> c.callee, args |-> c.args] : c \in calls}
=============================================================================
