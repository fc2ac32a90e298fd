----------------------------- MODULE Operations -----------------------------
(***************************************************************************)
(* The semantic operations on a program root: operators only.  Each has    *)
(* preconditions (Pre), a handler that returns the new root or fails       *)
(* (Handle: a set of at most one root) and postconditions (Post); it is    *)
(* recorded when the handler's root differs from the branch's and          *)
(* satisfies the postconditions.                                           *)
(*                                                                         *)
(* An operation names its symbol by a binding of the root: one whose       *)
(* names are stale fails its preconditions and changes nothing.            *)
(***************************************************************************)
EXTENDS ProgramRoots

CONSTANTS
    ParamLists,     \* the parameter lists that agents write
    Bodies,         \* the bodies that agents write
    Groups          \* the recursion groups that agents create

ASSUME ParamListsAssumption == ParamLists \subseteq Seq(ParamNames)
ASSUME BodiesAssumption == Bodies \subseteq SUBSET RawCall
ASSUME GroupsAssumption ==
    Groups \subseteq Seq([name : Names, kind : {"function", "generic"},
                          params : Seq(ParamNames), body : SUBSET RawCall])

(***************************************************************************)
(* The operations, as agents can submit them at a root.                    *)
(***************************************************************************)
(* A generic function has a parameter: its result, of its type parameter's *)
(* type, comes from there.                                                 *)
CreateFunctionOps ==
    [op : {"create_function"}, module : Modules, name : Names,
     kind : {"function"}, params : ParamLists, body : Bodies]
    \cup
    [op : {"create_function"}, module : Modules, name : Names,
     kind : {"generic"}, params : ParamLists \ {<< >>}, body : Bodies]
CreateExternalOps ==
    [op : {"create_external_function"}, module : Modules, name : Names,
     params : ParamLists]
CreateGroupOps ==
    [op : {"create_recursion_group"}, module : Modules, members : Groups]

(* The symbols of a root, each by each of its names.                       *)
Named(r) ==
    {[module |-> b.module, name |-> b.name, symbol |-> b.symbol] : b \in r.names}

RenameOps(r) == [op : {"rename_symbol"}, on : Named(r), new : Names]
MoveOps(r) == [op : {"move_symbol"}, on : Named(r), to : Modules]
ReplaceBodyOps(r) ==
    [op : {"replace_function_body"}, on : Named(r), body : Bodies]
ChangeSignatureOps(r) ==
    [op : {"change_function_signature"}, on : Named(r), params : ParamLists]
AddParameterOps(r) ==
    [op : {"add_parameter"}, on : Named(r), param : ParamNames, default : BOOLEAN]
DeleteOps(r) == [op : {"delete_symbol"}, on : Named(r), force : BOOLEAN]
CreateAliasOps(r) == [op : {"create_alias"}, on : Named(r), alias : Names]
RemoveAliasOps(r) == [op : {"remove_alias"}, on : Named(r), alias : Names]
SetExportOps(r) == [op : {"set_export"}, on : Named(r), exported : ExportNames]
RemoveExportOps(r) ==
    [op : {"remove_export"}, on : Named(r), exported : ExportNames]
CreateTestOps(r) ==
    [op : {"create_test"}, on : Named(r), test : TestNames,
     args : {Len(p) : p \in ParamLists}, expected : Outcomes]
DeleteTestOps(r) == {[op |-> "delete_test", bound |-> t] : t \in r.tests}

(* All but the recursion groups.                                           *)
EditOps(r) ==
    CreateFunctionOps \cup CreateExternalOps \cup RenameOps(r) \cup MoveOps(r)
    \cup ReplaceBodyOps(r) \cup ChangeSignatureOps(r) \cup AddParameterOps(r)
    \cup DeleteOps(r) \cup CreateAliasOps(r) \cup RemoveAliasOps(r)
    \cup SetExportOps(r) \cup RemoveExportOps(r)
    \cup CreateTestOps(r) \cup DeleteTestOps(r)

(***************************************************************************)
(* preconditions_for.  That the expected root is current is left to        *)
(* Workspace.                                                              *)
(***************************************************************************)
StillNamed(r, op) == PointsTo(r.names, op.on.module, op.on.name, op.on.symbol)
StillPreferred(r, op) ==
    Prefers(r.names, op.on.module, op.on.name, op.on.symbol)

(* [Mutant: a move takes only the name it was asked by.]                   *)
NameMoved(r, op) == {b \in BindingsOf(r.names, op.on.symbol) :
                        b.module = op.on.module /\ b.name = op.on.name}

NamesMoved(r, op) == {b \in BindingsOf(r.names, op.on.symbol) :
                         b.module = op.on.module}

Pre(r, op) ==
    CASE op.op \in {"create_function", "create_external_function"} ->
            Available(r.names, op.module, op.name)
      [] op.op = "create_recursion_group" ->
            \A i \in DOMAIN op.members :
                Available(r.names, op.module, op.members[i].name)
      [] op.op = "rename_symbol" ->
            /\ StillPreferred(r, op)
            /\ Available(r.names, op.on.module, op.new)
      [] op.op = "move_symbol" ->
            /\ StillPreferred(r, op)
            /\ op.to # op.on.module =>
                  \A b \in NamesMoved(r, op) : Available(r.names, op.to, b.name)
      [] op.op \in {"replace_function_body", "change_function_signature",
                    "add_parameter", "delete_symbol"} ->
            StillNamed(r, op)
      [] op.op = "create_alias" ->
            /\ StillNamed(r, op)
            /\ Available(r.names, op.on.module, op.alias)
      [] op.op = "remove_alias" ->
            /\ StillNamed(r, op)
            /\ Aliases(r.names, op.on.module, op.alias, op.on.symbol)
      [] op.op = "set_export" ->
            /\ StillNamed(r, op)
            /\ ~\E e \in r.exports : e.name = op.exported
      [] op.op = "remove_export" ->
            /\ StillNamed(r, op)
            /\ [name |-> op.exported, symbol |-> op.on.symbol] \in r.exports
      [] op.op = "create_test" ->
            /\ ~\E t \in r.tests : t.name = op.test
            /\ StillNamed(r, op)
      [] op.op = "delete_test" -> op.bound \in r.tests

(***************************************************************************)
(* postconditions_for, as postcondition_holds evaluates them.              *)
(***************************************************************************)
BodyMatches(r, m, s, body) == Render(r, m, r.defs[s].calls) = body

FunctionMatches(r, m, f) ==
    /\ ~Available(r.names, m, f.name)
    /\ LET s == Resolve(r.names, m, f.name)
       IN  /\ s \in DOMAIN r.defs
           /\ r.defs[s].kind = f.kind
           /\ r.defs[s].params = f.params
           /\ BodyMatches(r, m, s, f.body)

Post(r, op) ==
    CASE op.op = "create_function" -> FunctionMatches(r, op.module, op)
      [] op.op = "create_external_function" ->
            /\ ~Available(r.names, op.module, op.name)
            /\ LET s == Resolve(r.names, op.module, op.name)
               IN  /\ s \in DOMAIN r.defs
                   /\ r.defs[s].kind = "external"
                   /\ r.defs[s].params = op.params
      [] op.op = "create_recursion_group" ->
            \A i \in DOMAIN op.members :
                FunctionMatches(r, op.module, op.members[i])
      [] op.op = "rename_symbol" ->
            /\ PointsTo(r.names, op.on.module, op.new, op.on.symbol)
            /\ Available(r.names, op.on.module, op.on.name)
      [] op.op = "move_symbol" ->
            /\ PointsTo(r.names, op.to, op.on.name, op.on.symbol)
            /\ op.to # op.on.module =>
                  Available(r.names, op.on.module, op.on.name)
      [] op.op = "replace_function_body" ->
            /\ StillNamed(r, op)
            /\ op.on.symbol \in DOMAIN r.defs
            /\ BodyMatches(r, op.on.module, op.on.symbol, op.body)
      [] op.op = "change_function_signature" ->
            /\ StillNamed(r, op)
            /\ op.on.symbol \in DOMAIN r.defs
            /\ r.defs[op.on.symbol].kind # "generic"
            /\ r.defs[op.on.symbol].params = op.params
      [] op.op = "add_parameter" -> StillNamed(r, op)
      [] op.op = "delete_symbol" ->
            /\ op.on.symbol \notin DOMAIN r.defs
            /\ BindingsOf(r.names, op.on.symbol) = {}
            /\ ~\E e \in r.exports : e.symbol = op.on.symbol
            /\ ~\E t \in r.tests : t.case.entry = op.on.symbol
      [] op.op = "create_alias" ->
            PointsTo(r.names, op.on.module, op.alias, op.on.symbol)
      [] op.op = "remove_alias" -> Available(r.names, op.on.module, op.alias)
      [] op.op = "set_export" ->
            [name |-> op.exported, symbol |-> op.on.symbol] \in r.exports
      [] op.op = "remove_export" -> ~\E e \in r.exports : e.name = op.exported
      [] op.op = "create_test" -> \E t \in r.tests : t.name = op.test
      [] op.op = "delete_test" ->
            ~\E t \in r.tests :
                t.name = op.bound.name \/ t.case = op.bound.case

(***************************************************************************)
(* The handlers.  n symbols were born before.                              *)
(***************************************************************************)
CreateFunctionHandler(r, n, op) ==
    IF /\ Available(r.names, op.module, op.name)
       /\ Distinct(op.params)
       /\ Elaborates(r, op.module, op.body)
    THEN LET s == Born(n + 1)
             calls == Elaborate(r, op.module, op.kind, op.body)
             def == [kind |-> op.kind, params |-> op.params, calls |-> calls]
             new == WithName(WithDef(r, s, def), op.module, op.name, s, TRUE)
         IN  Checked(SynchronizeAfter(op.module, Monomorphize(new, calls)))
    ELSE {}

CreateExternalHandler(r, n, op) ==
    IF Available(r.names, op.module, op.name) /\ Distinct(op.params)
    THEN LET s == Born(n + 1)
             def == [kind |-> "external", params |-> op.params, calls |-> {}]
         IN  Checked(SynchronizeAfter(op.module,
                WithName(WithDef(r, s, def), op.module, op.name, s, TRUE)))
    ELSE {}

(* First every member's symbol, signature and name, then the bodies.       *)
CreateGroupHandler(r, n, op) ==
    LET ms == op.members
        symbols == {Born(n + i) : i \in DOMAIN ms}
        member(s) == ms[s[2] - n]
        bound ==
            [WithDefs(r, [s \in symbols |->
                [kind |-> member(s).kind, params |-> member(s).params,
                 calls |-> {}]])
             EXCEPT !.names = @ \cup
                {[module |-> op.module, name |-> member(s).name, symbol |-> s,
                  preferred |-> TRUE] : s \in symbols}]
        calls(s) == Elaborate(bound, op.module, member(s).kind, member(s).body)
        new == WithDefs(bound, [s \in symbols |->
                    [bound.defs[s] EXCEPT !.calls = calls(s)]])
    IN  IF /\ ms # << >>
           /\ \A i, j \in DOMAIN ms : ms[i].name = ms[j].name => i = j
           /\ \A i \in DOMAIN ms :
                 /\ Available(r.names, op.module, ms[i].name)
                 /\ Distinct(ms[i].params)
                 /\ Elaborates(bound, op.module, ms[i].body)
        THEN Checked(SynchronizeAfter(op.module,
                Monomorphize(new, UNION {calls(s) : s \in symbols})))
        ELSE {}

(* [Mutant: the old name stays.]                                           *)
RenameKeeping(r, op) ==
    IF Available(r.names, op.on.module, op.new) /\ StillPreferred(r, op)
    THEN Stored(WithName(r, op.on.module, op.new, op.on.symbol, TRUE))
    ELSE {}

(* Not type checked: bodies hold symbols, which a new name leaves alone.   *)
RenameHandler(r, op) ==
    IF Available(r.names, op.on.module, op.new) /\ StillPreferred(r, op)
    THEN Stored([r EXCEPT !.names =
            {IF b.module = op.on.module /\ b.name = op.on.name
                /\ b.symbol = op.on.symbol /\ b.preferred
             THEN [b EXCEPT !.name = op.new] ELSE b : b \in @}])
    ELSE {}

(* Every name of the symbol moves.                                         *)
MoveHandler(r, op) ==
    IF op.to = op.on.module
    THEN IF StillNamed(r, op) THEN {r} ELSE {}
    ELSE IF /\ StillPreferred(r, op)
            /\ \A b \in NamesMoved(r, op) :
                  \A c \in At(r.names, op.to, b.name) : c.symbol = op.on.symbol
         THEN Checked(Synchronize([r EXCEPT !.names =
                {IF b \in NamesMoved(r, op) THEN [b EXCEPT !.module = op.to]
                 ELSE b : b \in @}]))
         ELSE {}

(* The instances of a generic function keep the old body, and those that   *)
(* the new body needs are not made.                                        *)
ReplaceBodyHandler(r, op) ==
    LET def == r.defs[op.on.symbol]
    IN  IF /\ StillNamed(r, op)
           /\ op.on.symbol \in DOMAIN r.defs
           /\ def.kind # "external"
           /\ Elaborates(r, op.on.module, op.body)
        THEN Checked(WithDef(r, op.on.symbol, [def EXCEPT !.calls =
                Elaborate(r, op.on.module, def.kind, op.body)]))
        ELSE {}

(* The body is written out and elaborated again, still against the old     *)
(* signature.  The type parameters are dropped; a body that returned a     *)
(* value of theirs uses its first parameter.                               *)
ChangeSignatureHandler(r, op) ==
    LET def == r.defs[op.on.symbol]
        body == Render(r, op.on.module, def.calls)
    IN  IF StillNamed(r, op) /\ op.on.symbol \in DOMAIN r.defs /\ Distinct(op.params)
        THEN IF def.kind = "external"
             THEN Checked(WithDef(r, op.on.symbol, [def EXCEPT !.params = op.params]))
             ELSE IF /\ Elaborates(r, op.on.module, body)
                     /\ def.kind = "generic" => op.params # << >>
                  THEN Checked(WithDef(r, op.on.symbol,
                        [kind |-> "function", params |-> op.params,
                         calls |-> Elaborate(r, op.on.module, "function", body)]))
                  ELSE {}
        ELSE {}

(* The default is passed by every caller, the function itself included.    *)
(* The new signature has no type parameters, so that of a generic function *)
(* does not type check.                                                    *)
AddParameterHandler(r, op) ==
    LET target == op.on.symbol
        callers == Dependents(r, target)
        params == Append(r.defs[target].params, op.param)
        signed == WithDef(r, target, [r.defs[target] EXCEPT !.params = params])
        home(s) == IF s = target THEN op.on.module
                   ELSE IF BindingsOf(r.names, s) = {} THEN Main
                   ELSE PreferredBinding(r.names, s).module
        patched(s) ==
            {IF s \in callers /\ c.callee = target
             THEN [c EXCEPT !.args = @ + 1] ELSE c : c \in r.defs[s].calls}
        body(s) == Render(signed, home(s), patched(s))
    IN  IF /\ StillNamed(r, op)
           /\ target \in DOMAIN r.defs
           /\ callers # {} => op.default
           /\ r.defs[target].kind = "function"
           /\ Distinct(params)
           /\ \A s \in callers \cup {target} : Elaborates(signed, home(s), body(s))
        THEN Checked(WithDefs(signed, [s \in callers \cup {target} |->
                [signed.defs[s] EXCEPT !.calls =
                    Elaborate(signed, home(s), signed.defs[s].kind, body(s))]]))
        ELSE {}

(* What the metadata lists is left as it was.                              *)
DeleteHandler(r, op) ==
    LET s == op.on.symbol
        tests == {t \in r.tests : t.case.entry = s}
    IN  IF /\ StillNamed(r, op)
           /\ ~op.force => Dependents(r, s) = {} /\ tests = {}
        THEN Checked(
                [defs |-> [t \in DOMAIN r.defs \ {s} |-> r.defs[t]],
                 names |-> r.names \ BindingsOf(r.names, s),
                 exports |-> {e \in r.exports : e.symbol # s},
                 tests |-> IF op.force THEN r.tests \ tests ELSE r.tests,
                 listed |-> r.listed])
        ELSE {}

CreateAliasHandler(r, op) ==
    IF StillNamed(r, op) /\ Available(r.names, op.on.module, op.alias)
    THEN Stored(WithName(r, op.on.module, op.alias, op.on.symbol, FALSE))
    ELSE {}

RemoveAliasHandler(r, op) ==
    LET removed == {b \in At(r.names, op.on.module, op.alias) :
                       b.symbol = op.on.symbol /\ ~b.preferred}
    IN  IF StillNamed(r, op) /\ removed # {}
        THEN Stored([r EXCEPT !.names = @ \ removed])
        ELSE {}

SetExportHandler(r, op) ==
    IF StillNamed(r, op) /\ ~\E e \in r.exports : e.name = op.exported
    THEN Stored([r EXCEPT !.exports = @ \cup
            {[name |-> op.exported, symbol |-> op.on.symbol]}])
    ELSE {}

RemoveExportHandler(r, op) ==
    LET export == [name |-> op.exported, symbol |-> op.on.symbol]
    IN  IF StillNamed(r, op) /\ export \in r.exports
        THEN Stored([r EXCEPT !.exports = @ \ {export}])
        ELSE {}

CreateTestHandler(r, op) ==
    LET case == [entry |-> op.on.symbol, args |-> op.args, expected |-> op.expected]
    IN  IF /\ ~\E t \in r.tests : t.name = op.test
           /\ StillNamed(r, op)
           /\ TestChecks(r, case)
        THEN Checked([r EXCEPT !.tests = @ \cup {[name |-> op.test, case |-> case]}])
        ELSE {}

DeleteTestHandler(r, op) ==
    IF op.bound \in r.tests
    THEN Checked([r EXCEPT !.tests = @ \ {op.bound}])
    ELSE {}

Handle(r, n, op) ==
    CASE op.op = "create_function" -> CreateFunctionHandler(r, n, op)
      [] op.op = "create_external_function" -> CreateExternalHandler(r, n, op)
      [] op.op = "create_recursion_group" -> CreateGroupHandler(r, n, op)
      [] op.op = "rename_symbol" -> RenameHandler(r, op)
      [] op.op = "move_symbol" -> MoveHandler(r, op)
      [] op.op = "replace_function_body" -> ReplaceBodyHandler(r, op)
      [] op.op = "change_function_signature" -> ChangeSignatureHandler(r, op)
      [] op.op = "add_parameter" -> AddParameterHandler(r, op)
      [] op.op = "delete_symbol" -> DeleteHandler(r, op)
      [] op.op = "create_alias" -> CreateAliasHandler(r, op)
      [] op.op = "remove_alias" -> RemoveAliasHandler(r, op)
      [] op.op = "set_export" -> SetExportHandler(r, op)
      [] op.op = "remove_export" -> RemoveExportHandler(r, op)
      [] op.op = "create_test" -> CreateTestHandler(r, op)
      [] op.op = "delete_test" -> DeleteTestHandler(r, op)

(***************************************************************************)
(* Applying an operation.  What is already applied, a conflict or an error *)
(* leaves the branch as it is.                                             *)
(***************************************************************************)
Accepted(r, n, op) ==
    {q \in IF Pre(r, op) THEN Handle(r, n, op) ELSE {} : q # r /\ Post(q, op)}

Marks(r) == Cardinality(r.names) + Cardinality(r.exports) + Cardinality(r.tests)

Newborn(op) ==
    CASE op.op \in {"create_function", "create_external_function"} -> 1
      [] op.op = "create_recursion_group" -> Len(op.members)
      [] OTHER -> 0
=============================================================================
