------------------------------- MODULE Compiler ------------------------------
(***************************************************************************)
(* From a function's source to the operations that may run, and the last    *)
(* part of that: the check of the lowered operations before code is made of *)
(* them (src/src/lowering.rs, verify_value_ops): it derives the place every *)
(* address names and follows what is moved and dropped along the operations, *)
(* knowing nothing of the expression they came from.                       *)
(*                                                                         *)
(*   ok        no operation was refused                                    *)
(*   place     the place of each address that names a tracked one; payload  *)
(*             the value and the variant an address of a payload is for     *)
(*   moved, dropped, shells, payloads    what was moved, dropped, freed as  *)
(*             the shell of a box, dropped as the payload of an enum        *)
(***************************************************************************)
EXTENDS DropGlue

NoDrops == [ok |-> TRUE, place |-> <<>>, payload |-> <<>>,
            moved |-> {}, dropped |-> {}, shells |-> {}, payloads |-> {}]

Demand(v, holds) == [v EXCEPT !.ok = @ /\ holds]

TrackedAddress(v, a) == a \in DOMAIN v.place

\* The address of a field, of a box's content, or of a payload: tracked when
\* what it is derived from is.
VerifyAddress(v, o) ==
  CASE o.op = "addr_of" -> [v EXCEPT !.place = (o.id :> Slot(o.root)) @@ @]
    [] o.op = "addr_of_field" ->
         IF TrackedAddress(v, o.base) /\ o.field # AnyIndex
         THEN [v EXCEPT !.place = (o.id :> Step(v.place[o.base], o.field)) @@ @] ELSE v
    [] o.op = "deref" ->
         IF TrackedAddress(v, o.address) /\ o.box
         THEN [v EXCEPT !.place = (o.id :> Step(v.place[o.address], Deref)) @@ @] ELSE v
    [] o.op = "addr_of_payload" ->
         [v EXCEPT !.payload = (o.id :> <<o.base, o.variant>>) @@ @]

VerifyMove(v, o) ==
  LET p == v.place[o.address]
  IN  IF ~TrackedAddress(v, o.address) THEN Demand(v, FALSE)
      ELSE [Demand(v, ~Conflicting(v.moved, p) /\ ~Conflicting(v.dropped, p))
            EXCEPT !.moved = InsertPlace(@, p)]

VerifyDrop(v, o) ==
  LET p == v.place[o.address]
      at == v.payload[o.address]
  IN  CASE TrackedAddress(v, o.address) ->
             [Demand(v, ~Conflicting(v.moved, p) /\ ~Conflicting(v.dropped, p))
              EXCEPT !.dropped = InsertPlace(@, p)]
        [] o.address \in DOMAIN v.payload ->
             [Demand(v, at \notin v.payloads) EXCEPT !.payloads = @ \cup {at}]
        [] OTHER -> v

\* The shells freed are kept for the whole function.
VerifyFreeShell(v, o) ==
  LET p == v.place[o.address]
  IN  IF ~TrackedAddress(v, o.address) THEN v
      ELSE [Demand(v, p \notin v.shells /\ ~Covered(v.moved, p)) EXCEPT !.shells = @ \cup {p}]

\* A store makes its place whole again.
\* [Mutant: what was dropped stays dropped.]
StoreOverMoved(v, o) ==
  IF TrackedAddress(v, o.address)
  THEN [v EXCEPT !.moved = {m \in @ : ~Meets(v.place[o.address], m)}] ELSE v

VerifyStore(v, o) ==
  LET p == v.place[o.address]
      Kept(set) == {m \in set : ~Meets(p, m)}
  IN  IF TrackedAddress(v, o.address)
      THEN [v EXCEPT !.moved = Kept(@), !.dropped = Kept(@)] ELSE v

\* What a block consumed that was not consumed before it.
NewlyConsumed(v, before) ==
  LET was == Normalized(before.moved \cup before.dropped)
  IN  {p \in Normalized(v.moved \cup v.dropped) : ~Covered(was, p)}

RECURSIVE VerifyOps(_, _)

\* Each branch starts from the moves and the drops there were before; what
\* every branch that reaches the join consumed is moved after it.
VerifyBranches(v, o) ==
  LET Next(k, b) ==
        LET w == VerifyOps(b.ops, [k.v EXCEPT !.moved = v.moved, !.dropped = v.dropped])
        IN  [v |-> w, all |-> IF OpsDiverge(b.ops) THEN k.all
                              ELSE Append(k.all, NewlyConsumed(w, v))]
      done == FoldLeft(Next, [v |-> v, all |-> <<>>], o.blocks)
      dead == IF done.all = <<>> THEN {}
              ELSE {p \in done.all[1] : \A i \in DOMAIN done.all : Covered(done.all[i], p)}
  IN  [done.v EXCEPT !.moved = FoldSet(LAMBDA p, set : InsertPlace(set, p), v.moved, dead),
                     !.dropped = v.dropped]

\* An iteration may consume storage made after the accumulator, and in the
\* body the accumulator as a whole.
OncePerTurn(v, before, o, whole) ==
  LET Allowed(p, accumulator) ==
        /\ p.root \notin o.older
        /\ p.root = o.acc => accumulator /\ p.path = <<>>
  IN  /\ \A p \in (v.moved \ before.moved) \cup (v.dropped \ before.dropped) : Allowed(p, whole)
      /\ \A p \in v.shells \ before.shells : Allowed(p, FALSE)
VerifyLoopOp(v, o) ==
  LET cond == VerifyOps(o.cond.ops, v)
      body == VerifyOps(o.body.ops, cond)
  IN  Demand(body, OncePerTurn(cond, v, o, FALSE) /\ OncePerTurn(body, cond, o, TRUE))

VerifyOp(v, o) ==
  CASE o.op \in {"addr_of", "addr_of_field", "deref", "addr_of_payload"} -> VerifyAddress(v, o)
    [] o.op = "move"           -> VerifyMove(v, o)
    [] o.op = "drop"           -> VerifyDrop(v, o)
    [] o.op = "free_box_shell" -> VerifyFreeShell(v, o)
    [] o.op = "store"          -> VerifyStore(v, o)
    [] o.op \in {"if", "case"} -> VerifyBranches(v, o)
    [] o.op = "loop"           -> VerifyLoopOp(v, o)
    [] OTHER                   -> v

\* The first operation refused ends the check.
VerifyOps(ops, v) ==
  IF ops = <<>> \/ ~v.ok THEN v ELSE VerifyOps(Tail(ops), VerifyOp(v, Head(ops)))

\* What the verifier lets through.
Verified(ops) == VerifyOps(ops, NoDrops).ok

-----------------------------------------------------------------------------
\* From a function's source to the operations that may run: the borrow rules
\* accept its body, the lowering places its drops, the verifier reads the
\* result, which nothing else looks at again (lower_symbol_for_target).
Borrows == INSTANCE BorrowRules

Refused(why) == [outcome |-> why, ops |-> <<>>]
Compile(f) ==
  LET lowered == LowerFunction(f.params, f.body)
  IN  CASE ~Borrows!Accepted(f.body) -> Refused("rejected")
        [] ~lowered.ctx.ok           -> Refused("unsupported")
        [] ~Verified(lowered.ops)    -> Refused("unverified")
        [] OTHER                     -> [outcome |-> "verified", ops |-> lowered.ops]
=============================================================================
