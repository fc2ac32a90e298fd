---------------------- MODULE CompiledFunctionProperties --------------------
(***************************************************************************)
(* What the compiler promises of the memory of the functions it accepts.    *)
(***************************************************************************)
EXTENDS CompiledFunction

Stages == {"source", "rejected", "unsupported", "unverified", "verified", "running", "returned", "trapped"}

\* Types: every block, slot and value is a tree of the memory, and nothing is
\* lent that was not allocated.
TypeOK ==
  /\ stage \in Stages
  /\ fault \in {"none", FreedTwice, UsedAfter, Aliased}
  /\ lent \subseteq DOMAIN heap
  /\ \A b \in DOMAIN heap : Owns(heap[b], heap) \subseteq DOMAIN heap
  /\ \A x \in DOMAIN slots : Owns(slots[x], heap) \subseteq DOMAIN heap
  /\ stage \in {"verified", "running"} => todo # <<>>

Live == {b \in DOMAIN heap : heap[b] # Freed}
\* The blocks the caller owns once the function has returned.
Handed == Owns(result, heap) \cup UNION {{b} \cup Owns(heap[b], heap) : b \in lent}

\* A function the borrow rules accepted, run on any arguments, never uses a
\* place after it was moved out or dropped, never frees a block twice, and
\* never calls with two arguments that lead to the same place of which one
\* may write (types.rs verify_function_borrows, lowering.rs build_lowered_function_ir).
AcceptedIsSafe == fault = "none"

\* When it returns, every block that is still allocated belongs to its result
\* or to the caller: each owned value was dropped on every path, the early
\* returns, the branches and the parts of what was moved in part included
\* (emit_residual_drops, emit_merge_compensation, lower_return).
NothingLeaks == stage = "returned" => Live \subseteq Handed

\* What it returns and what its parameters point to is there in full, and a
\* reference it returns leads to storage of the caller (check_loans_point_to_
\* live_storage, check_no_loans_outlive_local).
CallerFindsAll ==
  stage = "returned" =>
    /\ Intact(result, heap)
    /\ \A b \in lent : Intact(heap[b], heap)
    /\ \A r \in References(result, heap) : r.to.block \in Handed

\* What the borrow rules accept and the lowering supports, the verifier lets
\* through: the two follow moves and drops independently, and agree
\* (verify_lowered_ir).
AcceptedIsVerified == stage # "unverified"
=============================================================================
