----------------------------- MODULE Histories -----------------------------
(***************************************************************************)
(* Program roots, the semantic operations between them and the migration   *)
(* histories that record how a branch got where it is.                     *)
(*                                                                         *)
(* A root is the content hash of a whole program, so two programs with the *)
(* same content ARE the same root: renaming a symbol and renaming it back  *)
(* returns to the root one started from.  A history hash is                *)
(* H(parent history, migration, output root) and a migration hash covers   *)
(* the parent history, the input and output roots and the operation, so a  *)
(* history hash stands for the whole chain of migrations below it.  The    *)
(* model writes that chain out: a history is the sequence of its           *)
(* migrations and the NULL history is the empty sequence.  A row of the    *)
(* histories table and the row of the migrations table it points at are    *)
(* one element of a set of histories.                                      *)
(***************************************************************************)
EXTENDS Integers, Sequences

CONSTANTS
    Roots,      \* content hashes of programs
    EmptyRoot,  \* the root of the program with no symbols
    Ops,        \* semantic operations, symbols resolved (enum Operation)
    Pre,        \* Pre[op]: the roots where op's preconditions hold
    Effect,     \* Effect[op][root]: the root op produces, None when it bails
    Post,       \* Post[op]: the roots where op's postconditions hold
    None        \* NULL, an absent option, "no value"

ASSUME RootsAssumption == EmptyRoot \in Roots /\ None \notin Roots
ASSUME OpsAssumption ==
    /\ Pre \in [Ops -> SUBSET Roots]
    /\ Post \in [Ops -> SUBSET Roots]
    /\ Effect \in [Ops -> [Roots -> Roots \cup {None}]]

Migration == [op : Ops, input : Roots, output : Roots]
History == Seq(Migration)
BranchState == [root : Roots, history : History]

OutputRoot(h) == h[Len(h)].output

(***************************************************************************)
(* The migration that takes input to Effect[op][input] exists: every       *)
(* precondition holds, the operation does not bail, every postcondition    *)
(* holds of what it produced, and it changed something.                    *)
(***************************************************************************)
Applies(op, input) ==
    /\ input \in Pre[op]
    /\ Effect[op][input] \in Post[op] \ {input}

Apply(op, input) == [op |-> op, input |-> input, output |-> Effect[op][input]]

(***************************************************************************)
(* The histories met by following parent_history_hash from h, h included.  *)
(***************************************************************************)
Ancestors(h) == {SubSeq(h, 1, n) : n \in 1 .. Len(h)}

(***************************************************************************)
(* source can be reached from target by recorded migrations.  With no      *)
(* target history the walk ends at a migration that has no parent and      *)
(* starts from the target's root.                                          *)
(***************************************************************************)
DescendsFrom(source, target) ==
    \/ source = target
    \/ target.history \in Ancestors(source.history)
    \/ /\ target.history = <<>> /\ source.history # <<>>
       /\ source.history[1].input = target.root

HistoryMatchesRoot(state, known) ==
    state.history # <<>> =>
        state.history \in known /\ OutputRoot(state.history) = state.root

(***************************************************************************)
(* What replaying a history checks of migration i: it applies to its       *)
(* input, produces its output and starts where the one before it ended.    *)
(***************************************************************************)
ReplaysAt(h, i) ==
    /\ Applies(h[i].op, h[i].input)
    /\ h[i] = Apply(h[i].op, h[i].input)
    /\ i > 1 => h[i].input = h[i - 1].output

Replays(h) == \A i \in 1 .. Len(h) : ReplaysAt(h, i)

(***************************************************************************)
(* new is old with one or more migrations on top of it.                    *)
(***************************************************************************)
Extends(new, old) ==
    /\ Len(new.history) > Len(old.history)
    /\ SubSeq(new.history, 1, Len(old.history)) = old.history
    /\ \A i \in Len(old.history) + 1 .. Len(new.history) :
         ReplaysAt(new.history, i)
    /\ new.history[Len(old.history) + 1].input = old.root
    /\ new.root = OutputRoot(new.history)
=============================================================================
