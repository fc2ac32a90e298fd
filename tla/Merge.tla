------------------------------- MODULE Merge -------------------------------
(***************************************************************************)
(* Branches that are edited each for itself and merged (src/src/merge.rs).  *)
(* The merge of a source branch into a target takes a root that both have   *)
(* had as their common ancestor, merges every symbol of the two roots       *)
(* against it, and is recorded on the target as one operation that holds    *)
(* the merged root.                                                        *)
(*                                                                         *)
(* A branch is the chain of its migrations: the operation, the root it      *)
(* produced and how many symbols were born before.  A symbol's birth hash    *)
(* covers the history it is born on and its seed, so the same name created   *)
(* on the same history is the same symbol on either branch, and on another   *)
(* history another one.  That the target is at the expected root is          *)
(* Workspace's part; types are left out like in ProgramRoots, and so are     *)
(* recursion groups.                                                        *)
(***************************************************************************)
EXTENDS Operations, SequencesExt

CONSTANTS
    Branches,
    Starts,         \* the operations that made the root the branches fork from
    Submitted(_),   \* whether agents submit an operation
    MaxBirths,      \* bound: how many symbols are born in all
    MaxMarks,       \* bound: how many names, exports and tests a root has
    MaxEdits,       \* bound: the operations of each branch that are no merges
    MaxMerges       \* bound: the merges into each branch

ASSUME BranchesAssumption == Branches # {}
ASSUME StartsAssumption == Starts \subseteq Seq(CreateFunctionOps)

VARIABLES
    chain,      \* the migrations of each branch
    born        \* the symbols, in the order they came: history and seed

vars == <<chain, born>>

-----------------------------------------------------------------------------
\* Editing a branch.
RootOf(c) == IF c = <<>> THEN EmptyRoot ELSE Last(c).root
Tip(b) == RootOf(chain[b])

History(c) == [i \in DOMAIN c |-> c[i].op]

\* The seed of a creation is the name it gives; born on the same history it
\* is the same symbol.
Creates(op) == Newborn(op) = 1
Birth(c, op) == [on |-> History(c), seed |-> <<op.op, op.module, op.name>>]
BornBefore(keys, c, op) ==
  IF Creates(op) /\ Contains(keys, Birth(c, op))
  THEN (CHOOSE i \in DOMAIN keys : keys[i] = Birth(c, op)) - 1 ELSE Len(keys)
Registered(keys, c, op) ==
  IF Creates(op) /\ ~Contains(keys, Birth(c, op)) THEN Append(keys, Birth(c, op)) ELSE keys

Item(op, r, n) == [op |-> op, root |-> r, births |-> n]

-----------------------------------------------------------------------------
\* The common ancestor: of the points at which the two chains have the same
\* root, the one with the largest sum of sequence numbers, of those the
\* earliest on the target.
Points(c) == <<EmptyRoot>> \o [i \in DOMAIN c |-> c[i].root]
SharedPoints(tc, sc) ==
  {p \in (DOMAIN Points(tc)) \X (DOMAIN Points(sc)) : Points(tc)[p[1]] = Points(sc)[p[2]]}
Before(p, q) == \/ p[1] + p[2] > q[1] + q[2]
                \/ p[1] + p[2] = q[1] + q[2] /\ p[1] <= q[1]
CommonAncestor(tc, sc) ==
  CHOOSE p \in SharedPoints(tc, sc) : \A q \in SharedPoints(tc, sc) : Before(p, q)

-----------------------------------------------------------------------------
\* What a root says of one symbol.  An absent symbol has nothing.
Facets == {"entry", "names", "params", "exports"}
SymbolState(r, s) ==
  IF s \in DOMAIN r.defs
  THEN [entry   |-> {[signature |-> Signature(r.defs[s]), kind |-> r.defs[s].kind, calls |-> r.defs[s].calls]},
        names   |-> BindingsOf(r.names, s),
        params  |-> r.defs[s].params,
        exports |-> {e \in r.exports : e.symbol = s}]
  ELSE [entry |-> {}, names |-> {}, params |-> <<>>, exports |-> {}]

Signatures(state) == {e.signature : e \in state.entry}

\* Mutant: what the source says of the symbol replaces what the target says.
ReplaceSymbolState(base, left, right) == {right}

\* Mutant: what both sides changed is as the source has it.
MergeFacets(base, left, right) ==
  {[f \in Facets |-> IF right[f] # base[f] THEN right[f] ELSE left[f]]}

\* A symbol that both sides changed merges facet by facet, unless one side
\* made or deleted it, or a signature changed.  No state is a conflict.
MergeSymbolState(base, left, right) ==
  LET Clashes(f) == left[f] # base[f] /\ right[f] # base[f] /\ left[f] # right[f]
      Take(f)    == IF right[f] # base[f] THEN right[f] ELSE left[f]
      Kept(side) == Signatures(side) = Signatures(base)
  IN  IF Kept(left) /\ Kept(right) /\ ~\E f \in Facets : Clashes(f)
      THEN {[f \in Facets |-> Take(f)]} ELSE {}

\* What only one side changed is as that side has it.
ThreeWay(base, left, right, both) ==
  CASE right = base -> {left}
    [] left = base \/ left = right -> {right}
    [] OTHER -> both

MergeSymbol(base, target, source, s) ==
  LET b == SymbolState(base, s)
      t == SymbolState(target, s)
      u == SymbolState(source, s)
  IN  ThreeWay(b, t, u, MergeSymbolState(b, t, u))

\* The root with these states of its symbols.
Assembled(states, tests, listed) ==
  LET present == {s \in DOMAIN states : states[s].entry # {}}
      entry(s) == CHOOSE e \in states[s].entry : TRUE
  IN  [defs    |-> [s \in present |-> [kind |-> entry(s).kind, params |-> states[s].params, calls |-> entry(s).calls]],
       names   |-> UNION {states[s].names : s \in present},
       exports |-> UNION {states[s].exports : s \in present},
       tests   |-> tests, listed |-> listed]

\* A name and an export are of one symbol.
\* Mutant: aliases are not looked at.
OnePreferredSymbol(r) ==
  \A b, c \in {n \in r.names : n.preferred} : b.module = c.module /\ b.name = c.name => b.symbol = c.symbol
OneSymbol(r) ==
  \A b, c \in r.names : b.module = c.module /\ b.name = c.name => b.symbol = c.symbol
OneExport(r) == \A e, f \in r.exports : e.name = f.name => e = f

\* The merged root, if nothing conflicts.  The tests are merged as a whole,
\* and so are the metadata.
MergeRoots(base, target, source) ==
  LET symbols == DOMAIN base.defs \cup DOMAIN target.defs \cup DOMAIN source.defs
      merged(s) == MergeSymbol(base, target, source, s)
      state == [s \in symbols |-> CHOOSE m \in merged(s) : TRUE]
      tests  == ThreeWay(base.tests, target.tests, source.tests, {})
      listed == ThreeWay(base.listed, target.listed, source.listed, {})
  IN  IF \E s \in symbols : merged(s) = {} THEN {}
      ELSE {r \in {Assembled(state, t, l) : t \in tests, l \in listed} : OneSymbol(r) /\ OneExport(r)}

\* The plan of a merge: the root that it would record, or none.
Plan(tc, sc) ==
  LET base == Points(tc)[CommonAncestor(tc, sc)[1]]
  IN  UNION {Checked(r) : r \in MergeRoots(base, RootOf(tc), RootOf(sc))}

MergeItem(tc, sc, r) ==
  Item([op |-> "merge_branch", ancestor |-> CommonAncestor(tc, sc)[1], merged |-> r], r, 0)

-----------------------------------------------------------------------------
Merges(c) == Len(SelectSeq(c, LAMBDA i : i.op.op = "merge_branch"))
Edits(c)  == Len(c) - Merges(c)

\* What an operation makes of a chain and the symbols, if it is accepted
\* (Operations, Accepted).
Applied(m, op) ==
  LET n == BornBefore(m.born, m.chain, op)
  IN  {[chain |-> Append(m.chain, Item(op, r, n)), born |-> Registered(m.born, m.chain, op)] :
         r \in Accepted(RootOf(m.chain), n, op)}

\* The branches fork where the operations of a start led.
Built(ops) ==
  LET made[n \in 0 .. Len(ops)] ==
        IF n = 0 THEN {[chain |-> <<>>, born |-> <<>>]}
        ELSE UNION {Applied(m, ops[n]) : m \in made[n - 1]}
  IN  made[Len(ops)]

Init == \E ops \in Starts : \E m \in Built(ops) :
          /\ chain = [b \in Branches |-> m.chain]
          /\ born = m.born

ApplyOperation(b) ==
  /\ Edits(chain[b]) < MaxEdits[b]
  /\ \E op \in {o \in EditOps(Tip(b)) : Submitted(o)} :
       \E m \in Applied([chain |-> chain[b], born |-> born], op) :
         /\ Len(m.born) <= MaxBirths
         /\ Marks(RootOf(m.chain)) <= MaxMarks
         /\ chain' = [chain EXCEPT ![b] = m.chain]
         /\ born' = m.born

\* What the operation itself makes of the root it holds.
Recorded(op) == Checked(op.merged)

\* A merge that changes the target is recorded; one that does not is already
\* current, and a conflict leaves everything as it is.
MergeApply(t, s) ==
  /\ Merges(chain[t]) < MaxMerges
  /\ \E r \in UNION {Recorded(MergeItem(chain[t], chain[s], q).op) : q \in Plan(chain[t], chain[s])} :
       /\ r # Tip(t)
       /\ chain' = [chain EXCEPT ![t] = Append(@, MergeItem(@, chain[s], r))]
  /\ UNCHANGED born

Next == \/ \E b \in Branches : ApplyOperation(b)
        \/ \E t \in Branches : \E s \in Branches \ {t} : MergeApply(t, s)

Spec == Init /\ [][Next]_vars
=============================================================================
