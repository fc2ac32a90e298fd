------------------------------- MODULE MCMerge -------------------------------
(***************************************************************************)
(* Two branches that fork from a program of two functions.                 *)
(***************************************************************************)
EXTENDS MergeProperties

F == "f"
G == "g"
H == "h"
MCNames == {F, G, H}
MCParamLists == {<<>>, <<"x">>}
Calls(n, k) == {[module |-> Here, name |-> n, args |-> k]}
MCBodies == {{}, Calls(F, 0)}
MCGroups == {}

Create(n, kind, params, body) ==
  [op |-> "create_function", module |-> Main, name |-> n, kind |-> kind, params |-> params, body |-> body]

\* g calls f.
MCStarts == {<<Create(F, "function", <<>>, {}), Create(G, "function", <<>>, Calls(F, 0))>>}

\* One or two operations of every kind: what they write is what the other
\* branch uses, or nothing.
On(op, names) == op.on.name \in names
MCSubmitted(op) ==
  CASE op.op = "create_function" -> op \in {Create(H, "function", <<>>, body) : body \in MCBodies}
    [] op.op = "rename_symbol"   -> op.new = H
    [] op.op \in {"move_symbol", "change_function_signature", "remove_export"} -> On(op, {F})
    [] op.op = "replace_function_body" -> On(op, {G})
    [] op.op = "add_parameter"   -> On(op, {F}) /\ op.default
    [] op.op = "delete_symbol"   -> On(op, {F, G}) /\ op.force
    [] op.op = "create_alias"    -> On(op, {F}) /\ op.alias = H
    [] op.op = "set_export"      -> On(op, {F, G})
    [] op.op = "create_test"     -> On(op, {F}) /\ op.args = 0
    [] OTHER                     -> op.op \in {"remove_alias", "delete_test"}

MCMaxEdits == [b \in Branches |-> IF b = Main THEN 4 ELSE 3]
=============================================================================
