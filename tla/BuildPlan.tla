----------------------------- MODULE BuildPlan -----------------------------
(***************************************************************************)
(* What the system says of two program roots, or of one root and an entry: *)
(* what has to be built again (build_plan.rs), what an executable is       *)
(* linked from (link.rs) and which tests have to run again (tests.rs).     *)
(*                                                                         *)
(* Object files and link plans are cached by hashes of what they are made  *)
(* from: a hash is what it is taken of.  Capabilities, target triples and  *)
(* the display names that plans carry along are left out.                  *)
(***************************************************************************)
EXTENDS ProgramRoots

(* What a caller's object depends on of a function that it calls.          *)
Interface(r, s) == [symbol |-> s, signature |-> Signature(r.defs[s])]

(* The hash of a definition covers its signature and its body, not the     *)
(* names of its parameters.                                                *)
DefinitionHash(r, s) ==
    [interface |-> Interface(r, s), kind |-> r.defs[s].kind,
     calls |-> r.defs[s].calls]

Common(r, q) == DOMAIN r.defs \cap DOMAIN q.defs

(***************************************************************************)
(* The dependency index, followed.                                         *)
(***************************************************************************)
(* The entry, what it leads to and what that leads to: there is no more to *)
(* find after as many rounds as there are symbols.                         *)
Reached(next, entry) ==
    LET seen[n \in Nat] ==
            IF n = 0 THEN {entry}
            ELSE seen[n - 1] \cup UNION {next[s] : s \in seen[n - 1]}
    IN  seen[Cardinality(DOMAIN next)]

ReachableSymbols(r, entry) ==
    Reached([s \in DOMAIN r.defs |-> Dependencies(r, s)], entry)

TransitiveDependents(r, s) ==
    {t \in DOMAIN r.defs :
        \E u \in Dependencies(r, t) : s \in ReachableSymbols(r, u)}

(***************************************************************************)
(* plan_build_impact: from root r to root q.                               *)
(***************************************************************************)
Added(r, q) == DOMAIN q.defs \ DOMAIN r.defs
Removed(r, q) == DOMAIN r.defs \ DOMAIN q.defs
Resigned(r, q) ==
    {s \in Common(r, q) : Signature(r.defs[s]) # Signature(q.defs[s])}

Rebodied(r, q) ==
    {s \in Common(r, q) \ Resigned(r, q) :
        \/ DefinitionHash(r, s) # DefinitionHash(q, s)
        \/ Dependencies(r, s) # Dependencies(q, s)}

(* Dependents in the old root or in the new one, those that are left.      *)
DependentsForSignatureChange(r, q) ==
    DOMAIN q.defs \cap
        UNION {TransitiveDependents(r, s) \cup TransitiveDependents(q, s) :
                  s \in Resigned(r, q)}

RecompileSymbols(r, q) ==
    Added(r, q) \cup Resigned(r, q) \cup Rebodied(r, q)
    \cup DependentsForSignatureChange(r, q)

(* [Mutant: exports are not compared.]                                     *)
ObjectsChanged(r, q) ==
    DOMAIN r.defs # DOMAIN q.defs \/ Resigned(r, q) \cup Rebodied(r, q) # {}

LinkChanged(r, q) ==
    \/ r.exports # q.exports
    \/ DOMAIN r.defs # DOMAIN q.defs
    \/ Resigned(r, q) \cup Rebodied(r, q) # {}

MetadataChanged(r, q) ==
    \/ <<r.names, r.tests, r.listed>> # <<q.names, q.tests, q.listed>>
    \/ \E s \in Common(r, q) : r.defs[s].params # q.defs[s].params
    \/ DOMAIN r.defs # DOMAIN q.defs

(* A change that nothing explains asks for everything.                     *)
Unclassified(r, q) == r # q /\ ~LinkChanged(r, q) /\ ~MetadataChanged(r, q)

Relink(r, q) == LinkChanged(r, q) \/ Unclassified(r, q)

Ranks ==
    <<"metadata_only", "relink_only", "recompile_symbols",
      "recompile_dependents", "full_rebuild">>
Rank(kind) == CHOOSE i \in DOMAIN Ranks : Ranks[i] = kind

ImpactKind(r, q) ==
    IF Unclassified(r, q) THEN "full_rebuild"
    ELSE IF Resigned(r, q) # {} THEN "recompile_dependents"
    ELSE IF Added(r, q) \cup Rebodied(r, q) # {} THEN "recompile_symbols"
    ELSE IF LinkChanged(r, q) THEN "relink_only"
    ELSE "metadata_only"

(* fallback_build_impact: what is said of an operation that produced no    *)
(* root.                                                                   *)
FallbackKind(op) ==
    CASE op.op \in {"create_function", "create_external_function",
                    "create_recursion_group", "replace_function_body"} ->
            "recompile_symbols"
      [] op.op \in {"change_function_signature", "add_parameter"} ->
            "recompile_dependents"
      [] op.op \in {"delete_symbol", "set_export", "remove_export"} ->
            "relink_only"
      [] op.op \in {"rename_symbol", "move_symbol", "create_alias",
                    "remove_alias", "create_test", "delete_test"} ->
            "metadata_only"
      [] op.op = "merge_branch" -> "full_rebuild"

(***************************************************************************)
(* plan_link_jobs.                                                         *)
(***************************************************************************)
(* What lowering makes of a call: a generic one goes to the instance.      *)
CallTarget(c) == IF c.at = "plain" THEN c.callee ELSE InstanceOf(c.callee)

(* A generic function is not lowered, and neither is a body that calls     *)
(* what the root does not have.                                            *)
Lowers(r, s) ==
    /\ r.defs[s].kind # "generic"
    /\ \A c \in r.defs[s].calls :
          c.at # "parametric" /\ CallTarget(c) \in DOMAIN r.defs

ObjectKey(r, s) ==
    [definition |-> DefinitionHash(r, s),
     interfaces |-> {Interface(r, t) : t \in Dependencies(r, s)}]

Externals(r) == {s \in DOMAIN r.defs : r.defs[s].kind = "external"}

LinkedExports(r, objects) == {e \in r.exports : e.symbol \in objects}

(* The plan of an executable, if every object of it can be made.           *)
LinkPlan(r, entry) ==
    LET reach == ReachableSymbols(r, entry)
        objects == reach \ Externals(r)
    IN  IF \A s \in objects : Lowers(r, s)
        THEN {[entry |-> Interface(r, entry),
               objects |-> {ObjectKey(r, s) : s \in objects},
               externals |-> {DefinitionHash(r, s) : s \in reach \cap Externals(r)},
               exports |-> LinkedExports(r, objects)]}
        ELSE {}

(***************************************************************************)
(* test_impact: which behavior tests of root q may have another result     *)
(* than in root r.                                                         *)
(***************************************************************************)
BehaviorSymbols(r, q) ==
    Added(r, q) \cup Removed(r, q) \cup Resigned(r, q) \cup Rebodied(r, q)

(* The classification reads the bodies of all the functions that both      *)
(* roots have: an external one has none, and the command fails.            *)
Classifies(r, q) == Common(r, q) \cap Externals(r) = {}

(* [Mutant: only the entry of a test is looked at.]                        *)
SelectedEntries(r, q) ==
    {t \in q.tests : t \notin r.tests \/ t.case.entry \in BehaviorSymbols(r, q)}

SelectedTests(r, q) ==
    {t \in q.tests :
        \/ t \notin r.tests
        \/ ReachableSymbols(q, t.case.entry) \cap BehaviorSymbols(r, q) # {}}
SkippedTests(r, q) == q.tests \ SelectedTests(r, q)
=============================================================================
