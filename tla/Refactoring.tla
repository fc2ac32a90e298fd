---------------------------- MODULE Refactoring ----------------------------
(***************************************************************************)
(* The refactorings of a program: the migrations that change a type's       *)
(* members and rewrite the bodies that name them, those that add a          *)
(* parameter or replace a body (src/src/migrations.rs), and the patches     *)
(* that are planned into them (src/src/patch.rs).                           *)
(*                                                                         *)
(* A program is a root of one module; a function is [params, returns,       *)
(* body].  An operation makes a new root or is refused, and a new root is   *)
(* recorded only when every body in it still checks.  A patch is recorded    *)
(* as a whole or not at all.                                               *)
(***************************************************************************)
EXTENDS Rewriting

CONSTANTS Programs,      \* the programs there are at first
          Renames,       \* [kind, type, old, new]: the renames of members tried
          Additions,     \* [type, name, of]: the members added
          Removals,      \* [type, name]: and removed
          Literals,      \* <<raw literal, raw literal>>: the one replaced by the other
          Extractions,   \* [from, name]: what is made a function, of this name
          Retargets,     \* <<function, function>>: calls of the one made calls of the other
          Parameters,    \* [of, name, type, default]: the parameters added
          MaxEdits       \* how many operations are tried

VARIABLES root,   \* the program
          edit,   \* the operation tried last: [kind, with, done]
          edits   \* how many were tried

vars == <<root, edit, edits>>

-----------------------------------------------------------------------------
Rejected == [rejected |-> TRUE]

\* type_check_root: what a new root must pass to be recorded.
Checked(new) ==
  IF new # Rejected /\ \A f \in DOMAIN new.functions : FunctionChecks(new, f) THEN new ELSE Rejected

\* The functions of r with these bodies, typed under r; rejected when one is.
\* expecting says whether a body is told what the function returns.
Retyped(r, raws, expecting) ==
  LET fn(f)    == r.functions[f]
      want(f)  == IF f \in expecting THEN fn(f).returns ELSE None
      typed    == [f \in DOMAIN raws |-> ElabBody(r, fn(f).params, want(f), raws[f])]
  IN  IF \A f \in DOMAIN raws : Accepted(typed[f]) /\ Assignable(r, typed[f].type, fn(f).returns)
      THEN [r EXCEPT !.functions = [f \in DOMAIN @ |-> IF f \in DOMAIN raws
                                                      THEN [@[f] EXCEPT !.body = typed[f]]
                                                      ELSE @[f]]]
      ELSE Rejected

\* A batch of replace_function_body operations.
ReplaceBodies(r, raws) == Checked(Retyped(r, raws, DOMAIN raws))

\* Mutant: the new name may be taken.
RenameOverMember(r, rn) ==
  LET members == r.types[rn.type][2]
      renamed == [m \in (DOMAIN members \ {rn.old}) \union {rn.new} |->
                    members[IF m = rn.new THEN rn.old ELSE m]]
      raws    == [f \in DOMAIN r.functions |->
                    RenameMember(r, rn, r.functions[f].body, <<>>, r.functions[f].returns)]
  IN  IF rn.old \in DOMAIN members
      THEN Checked(Retyped([r EXCEPT !.types[rn.type][2] = renamed], raws, DOMAIN raws))
      ELSE Rejected

\* Every body is rewritten and typed anew, whether it names the member or not.
RenameMemberOf(r, rn) ==
  LET members == r.types[rn.type][2]
      renamed == [m \in (DOMAIN members \ {rn.old}) \union {rn.new} |->
                    members[IF m = rn.new THEN rn.old ELSE m]]
      raws    == [f \in DOMAIN r.functions |->
                    RenameMember(r, rn, r.functions[f].body, <<>>, r.functions[f].returns)]
  IN  IF rn.old \in DOMAIN members /\ rn.new \notin DOMAIN members
      THEN Checked(Retyped([r EXCEPT !.types[rn.type][2] = renamed], raws, DOMAIN raws))
      ELSE Rejected

\* The bodies stay as they are, and must check with the member there or gone.
AddMemberTo(r, add) ==
  LET members == r.types[add.type][2]
  IN  IF add.name \in DOMAIN members THEN Rejected
      ELSE Checked([r EXCEPT !.types[add.type][2] =
                      [m \in DOMAIN @ \union {add.name} |-> IF m = add.name THEN add.of ELSE @[m]]])

RemoveMemberFrom(r, rem) ==
  IF rem.name \notin DOMAIN r.types[rem.type][2] THEN Rejected
  ELSE Checked([r EXCEPT !.types[rem.type][2] = [m \in DOMAIN @ \ {rem.name} |-> @[m]]])

\* The function, and the functions that call it, which are typed without what
\* they return in mind.
AddParameterTo(r, p) ==
  LET fn      == r.functions[p.of]
      callers == {f \in DOMAIN r.functions :
                    \E e \in Within(r.functions[f].body) : e.op = <<"call", p.of>>}
      new     == [r EXCEPT !.functions[p.of].params = Append(@, <<p.name, p.type>>)]
      raws    == [f \in callers \union {p.of} |->
                    AppendDefault(Source(r, r.functions[f].body), p.of, p.default)]
  IN  IF \E i \in DOMAIN fn.params : fn.params[i][1] = p.name THEN Rejected
      ELSE Checked(Retyped(new, raws, {p.of}))

-----------------------------------------------------------------------------
\* Every expression of this form in these functions.
Matched(r, fs, op)    == UNION {{e \in Within(r.functions[f].body) : e.op = op} : f \in fs}
Owners(r, fs, at)     == {f \in fs : Within(r.functions[f].body) \intersect at # {}}

\* A patch of expressions: one body replaced for each function it matches in.
PatchBodies(r, fs, at, does) ==
  [f \in Owners(r, fs, at) |-> ToRaw(r, r.functions[f].body, <<>>, Hook(at, does))]

Patched(r, fs, at, does) == ReplaceBodies(r, PatchBodies(r, fs, at, does))

LiteralsAt(r, from) == Matched(r, DOMAIN r.functions, from.op)
CallsAt(r, f)       == Matched(r, DOMAIN r.functions, <<"call", f>>)

\* The new function takes what the owner takes.  It is created first; the
\* expression, wherever it is in the owner, becomes a call of it.
ExtractFrom(r, f, e, name) ==
  LET params == r.functions[f].params
      new    == [r EXCEPT !.functions = [g \in DOMAIN @ \union {name} |->
                   IF g = name THEN [params |-> params, returns |-> e.type, body |-> Unit] ELSE @[g]]]
      call   == Call(name, [i \in DOMAIN params |-> Param(i)])
      made   == ReplaceBodies(new, name :> Source(r, e))
  IN  IF name \in DOMAIN r.functions \/ Open(e, 0) \/ made = Rejected THEN Rejected
      ELSE ReplaceBodies(made, PatchBodies(r, {f}, {e}, <<"replace", call>>))

-----------------------------------------------------------------------------
Init == root \in Programs /\ edit = [kind |-> "none"] /\ edits = 0

\* An operation was tried: with its new root, or refused.
Try(kind, with, new) ==
  /\ edits < MaxEdits
  /\ root' = IF new = Rejected THEN root ELSE new
  /\ edit' = [kind |-> kind, with |-> with, done |-> new # Rejected]
  /\ edits' = edits + 1

RenameMemberStep(rn)  == rn.type \in DOMAIN root.types /\ Try("rename", rn, RenameMemberOf(root, rn))
AddMember(add)        == add.type \in DOMAIN root.types /\ Try("add", add, AddMemberTo(root, add))
RemoveMember(rem)     == rem.type \in DOMAIN root.types /\ Try("remove", rem, RemoveMemberFrom(root, rem))
AddParameter(p)       == p.of \in DOMAIN root.functions /\ Try("parameter", p, AddParameterTo(root, p))

ReplaceLiteral(l) ==
  LET at == LiteralsAt(root, l[1])
  IN  at # {} /\ Try("literal", l, Patched(root, DOMAIN root.functions, at, <<"replace", l[2]>>))

RetargetCalls(t) ==
  LET at == CallsAt(root, t[1])
  IN  /\ at # {} /\ t[2] \in DOMAIN root.functions
      /\ Try("retarget", t, Patched(root, DOMAIN root.functions, at, <<"retarget", t[2]>>))

\* The calls of f inlined in function g.
InlineFunction(f, g) ==
  LET at == CallsAt(root, f)
  IN  Owners(root, {g}, at) # {} /\ Try("inline", <<f, g>>, Patched(root, {g}, at, <<"inline">>))

ExtractFunction(x, f) ==
  LET at == Matched(root, {f}, x.from)
  IN  \E e \in at : Try("extract", <<f, x.name>>, ExtractFrom(root, f, e, x.name))

Next ==
  \/ \E rn \in Renames : RenameMemberStep(rn)
  \/ \E add \in Additions : AddMember(add)
  \/ \E rem \in Removals : RemoveMember(rem)
  \/ \E p \in Parameters : AddParameter(p)
  \/ \E l \in Literals : ReplaceLiteral(l)
  \/ \E t \in Retargets : RetargetCalls(t)
  \/ \E f, g \in DOMAIN root.functions : InlineFunction(f, g)
  \/ \E x \in Extractions, f \in DOMAIN root.functions : ExtractFunction(x, f)

Spec == Init /\ [][Next]_vars
=============================================================================
