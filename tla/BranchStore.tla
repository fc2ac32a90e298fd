---------------------------- MODULE BranchStore ----------------------------
(***************************************************************************)
(* What the branch store promises, whoever calls it and however many       *)
(* callers there are: named pointers to program states that move only      *)
(* along recorded migrations, over an append-only set of histories.  There *)
(* are no sessions, locks or transactions here; each action is one atomic  *)
(* change that a reader of the database can observe.                       *)
(***************************************************************************)
EXTENDS Histories

CONSTANTS Branches, Main

VARIABLES
    branches,   \* branches[b]: the state b points at, None when b is absent
    histories   \* every recorded history

vars == <<branches, histories>>

Init ==
    /\ branches = [b \in Branches |->
                     IF b = Main THEN [root |-> EmptyRoot, history |-> <<>>]
                     ELSE None]
    /\ histories = {}

(***************************************************************************)
(* A batch of one or more migrations, all of them or none, on top of the   *)
(* state the branch points at.                                             *)
(***************************************************************************)
Commit(b, new) ==
    /\ branches[b] # None /\ new # None
    /\ Extends(new, branches[b])
    /\ branches' = [branches EXCEPT ![b] = new]
    /\ histories' = histories \cup
         {SubSeq(new.history, 1, n) :
            n \in Len(branches[b].history) + 1 .. Len(new.history)}

(***************************************************************************)
(* A new name for a known state.                                           *)
(***************************************************************************)
CreateBranch(b, new) ==
    /\ branches[b] = None /\ new # None
    /\ HistoryMatchesRoot(new, histories)
    /\ branches' = [branches EXCEPT ![b] = new]
    /\ UNCHANGED histories

FastForward(b, new) ==
    /\ branches[b] # None /\ new # None
    /\ HistoryMatchesRoot(new, histories)
    /\ DescendsFrom(new, branches[b])
    /\ branches' = [branches EXCEPT ![b] = new]
    /\ UNCHANGED histories

DeleteBranch(b) ==
    /\ b # Main
    /\ branches[b] # None
    /\ branches' = [branches EXCEPT ![b] = None]
    /\ UNCHANGED histories

Next ==
    \E b \in Branches :
        \/ Commit(b, branches'[b])
        \/ CreateBranch(b, branches'[b])
        \/ FastForward(b, branches'[b])
        \/ DeleteBranch(b)

Spec == Init /\ [][Next]_vars
=============================================================================
