----------------------- MODULE ProgramRootProperties -----------------------
(***************************************************************************)
(* What the operations on a program root promise.                          *)
(***************************************************************************)
EXTENDS ProgramRoot, BuildPlan

(* Names identify after any sequence of operations: rename, move, alias    *)
(* and delete each rewrite a part of what NamesIdentify says               *)
(* (apply_rename_symbol, apply_move_symbol, ...).                          *)
NamesResolve == NamesIdentify(root)

(* Every root a branch points at type checks and could be stored again,    *)
(* although renames, aliases and exports are stored without type_check_root*)
(* and a deletion is checked against what its instances depend on.         *)
StoredRootsCheck == TypeChecks(root) /\ Storable(root)

(* A body written out with display names, as seen from any module, and     *)
(* read again calls the same functions: what change_function_signature,    *)
(* add_parameter and every projection rely on.                             *)
BodiesRoundTrip ==
    \A s \in DOMAIN root.defs, m \in Modules :
        LET def == root.defs[s]
            body == Render(root, m, def.calls)
        IN  /\ Elaborates(root, m, body)
            /\ Callees(Elaborate(root, m, def.kind, body)) = Callees(def.calls)

OfEveryOperation(P(_)) ==
    /\ births < MaxBirths =>
          /\ \A op \in CreateFunctionOps : P(op)
          /\ \A op \in CreateExternalOps : P(op)
          /\ \A op \in CreateGroupOps : P(op)
    /\ \A op \in RenameOps(root) : P(op)
    /\ \A op \in MoveOps(root) : P(op)
    /\ \A op \in ReplaceBodyOps(root) : P(op)
    /\ \A op \in ChangeSignatureOps(root) : P(op)
    /\ \A op \in AddParameterOps(root) : P(op)
    /\ \A op \in DeleteOps(root) : P(op)
    /\ \A op \in CreateAliasOps(root) : P(op)
    /\ \A op \in RemoveAliasOps(root) : P(op)
    /\ \A op \in SetExportOps(root) : P(op)
    /\ \A op \in RemoveExportOps(root) : P(op)
    /\ \A op \in CreateTestOps(root) : P(op)
    /\ \A op \in DeleteTestOps(root) : P(op)

(* A body as the projection would write it.                                *)
AsDisplayed(r, m, body) ==
    Elaborates(r, m, body) /\ body = Render(r, m, Elaborate(r, m, "function", body))

DisplaysBodies(q, op) ==
    CASE op.op = "create_function" -> AsDisplayed(q, op.module, op.body)
      [] op.op = "create_recursion_group" ->
            \A i \in DOMAIN op.members :
                AsDisplayed(q, op.module, op.members[i].body)
      [] op.op = "replace_function_body" ->
            AsDisplayed(q, op.on.module, op.body)
      [] OTHER -> TRUE

SharesCase(r, op) ==
    /\ op.op = "delete_test"
    /\ \E t \in r.tests : t # op.bound /\ t.case = op.bound.case

(* When an operation's preconditions hold and its handler succeeds, its    *)
(* postconditions hold: the three are written apart (preconditions_for,    *)
(* the apply_ functions, postconditions_for).  Two exceptions: a body that *)
(* is not spelt as the projection would spell it, and the deletion of a    *)
(* test whose case another test shares.                                    *)
AttainsPost(op) ==
    Pre(root, op) =>
        \A q \in Handle(root, births, op) :
            \/ Post(q, op)
            \/ ~DisplaysBodies(q, op)
            \/ SharesCase(root, op)

PostconditionsAttained == OfEveryOperation(AttainsPost)

(* An operation that was applied and is submitted again does not change    *)
(* the program a second time.  The exception is the signature of a generic *)
(* function, whose calls of itself are read against its old signature      *)
(* first and against the new one the second time.                          *)
Settles(op) ==
    \A q \in Accepted(root, births, op) :
        \/ Accepted(q, births + Newborn(op), op) = {}
        \/ /\ op.op = "change_function_signature"
           /\ root.defs[op.on.symbol].kind = "generic"

RetriesSettle == OfEveryOperation(Settles)

(* Only replace_function_body changes whom a function calls: the other     *)
(* operations that rewrite bodies do it through display names, in the      *)
(* middle of renames, moves and aliases.                                   *)
CallGraphKept ==
    [][\/ \A s \in DOMAIN root.defs \cap DOMAIN root'.defs :
             {c.callee : c \in root'.defs[s].calls} =
             {c.callee : c \in root.defs[s].calls}
       \/ ReplaceFunctionBody]_vars

(* verify: an instance is what its generic function gives at the recorded  *)
(* type arguments (verify_generic_instances_in_root).                      *)
InstancesDerive ==
    \A i \in DOMAIN root.defs :
        i[1] = "instance" =>
            /\ GenericOf(i) \in Generics(root)
            /\ root.defs[i] = InstanceDefinition(root, GenericOf(i))

(* The modules metadata, once a root has it, lists every module that has a *)
(* name (synchronize_module_metadata): a creation, move or alias in a new  *)
(* module may not leave it out.                                            *)
ModulesListed ==
    root.listed # {} => {b.module : b \in root.names} \subseteq root.listed

(***************************************************************************)
(* What build plans and test selections promise of every operation.        *)
(***************************************************************************)
Entries(r) == {s \in DOMAIN r.defs : r.defs[s].kind = "function"}

(* An object that the impact plan does not recompile, and an executable    *)
(* that it does not relink, are made from what they were made from; the    *)
(* kind of the impact says as much, and a deletion turns out as it was     *)
(* said to beforehand (plan_build_impact against plan_link_jobs and        *)
(* fallback_build_impact; docs/SPEC.md 18).                                *)
ImpactCovers(r, q) ==
    /\ \A s \in DOMAIN q.defs \ (RecompileSymbols(r, q) \cup Externals(q)) :
          ObjectKey(r, s) = ObjectKey(q, s)
    /\ ~Relink(r, q) => \A s \in Entries(q) : LinkPlan(r, s) = LinkPlan(q, s)
    /\ Rank(ImpactKind(r, q)) < Rank("recompile_symbols") =>
          RecompileSymbols(r, q) = {}
    /\ ImpactKind(r, q) = "metadata_only" => ~Relink(r, q)
    /\ ~Unclassified(r, q)
    /\ Removed(r, q) # {} =>
          Rank(ImpactKind(r, q)) <= Rank(FallbackKind([op |-> "delete_symbol"]))

ImpactSound == [][ImpactCovers(root, root')]_vars

(* Whatever an object of an executable calls is an object or an external   *)
(* of it, and only those are exported: reachability follows the            *)
(* dependency index, lowering the calls themselves (collect_expr_deps,     *)
(* lower_expr).                                                            *)
LinkComplete ==
    \A entry \in Entries(root) : \A plan \in LinkPlan(root, entry) :
        LET linked == {o.definition.interface.symbol : o \in plan.objects}
            known == linked \cup {d.interface.symbol : d \in plan.externals}
        IN  /\ entry \in linked
            /\ \A s \in linked : \A c \in root.defs[s].calls : CallTarget(c) \in known
            /\ \A o \in plan.objects : {i.symbol : i \in o.interfaces} \subseteq known

(* What the evaluation of a test may run: it follows the functions that    *)
(* are named, not their instances (eval_symbol).                           *)
Evaluated(r, entry) ==
    Reached([s \in DOMAIN r.defs |-> {c.callee : c \in r.defs[s].calls}], entry)

(* Every generic call of it is built with an instance of what is evaluated.*)
InStep(r, entry) ==
    \A c \in UNION {r.defs[s].calls : s \in Evaluated(r, entry)} :
        c.at # "plain" =>
            /\ c.callee \in Generics(r)
            /\ InstanceOf(c.callee) \in DOMAIN r.defs
            /\ r.defs[InstanceOf(c.callee)] = InstanceDefinition(r, c.callee)

(* A behavior test that is skipped runs what it ran before: nothing it     *)
(* evaluates has changed (test_impact; docs/SPEC_V1.md 9.1).  The          *)
(* selection looks at instances in the place of generic functions: where   *)
(* these are out of step it sees nothing of a change.                      *)
SkippedTestsKeep ==
    [][Classifies(root, root') =>
          \A t \in SkippedTests(root, root') :
              LET ran == Evaluated(root', t.case.entry)
              IN  \/ /\ Evaluated(root, t.case.entry) = ran
                     /\ \A s \in ran : DefinitionHash(root, s) = DefinitionHash(root', s)
                  \/ ~InStep(root, t.case.entry)
                  \/ ~InStep(root', t.case.entry)]_vars
=============================================================================
