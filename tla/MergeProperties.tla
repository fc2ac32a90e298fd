--------------------------- MODULE MergeProperties ---------------------------
(***************************************************************************)
(* What a merge promises.                                                  *)
(***************************************************************************)
EXTENDS Merge

\* Types: every migration holds a root, the ancestor of a merge is a point
\* before it, and every symbol that was born was counted.
TypeOK ==
  \A b \in Branches :
    /\ \A i \in DOMAIN chain[b] : IsRoot(chain[b][i].root)
    /\ \A i \in DOMAIN chain[b] : chain[b][i].op.op = "merge_branch" => chain[b][i].op.ancestor <= i
    /\ \A s \in DOMAIN Tip(b).defs : s[1] = "born" => s[2] <= Len(born)

\* Whatever is merged, the roots of the branches stay programs: names
\* identify and point at live symbols with one preferred name, calls and
\* tests check (merge_root_payloads, validate_name_conflicts, type_check_root).
TipsAreSound == \A b \in Branches :
  /\ NamesIdentify(Tip(b))
  /\ TypeChecks(Tip(b)) /\ Storable(Tip(b))

\* The roots of the source from the common ancestor on, and its migrations
\* since.
Since(tc, sc) == SubSeq(Points(sc), CommonAncestor(tc, sc)[2], Len(sc) + 1)
After(tc, sc) == SubSeq(sc, CommonAncestor(tc, sc)[2], Len(sc))

\* What root r says of symbol s, part by part.
Parts == Facets \cup {"signature"}
Part(r, s, f) == IF f = "signature" THEN Signatures(SymbolState(r, s)) ELSE SymbolState(r, s)[f]

\* None of these roots has a part, once it is changed, as the first has it
\* unless the last has not.
TakesNothingBack(roots) ==
  /\ \A y \in UNION {DOMAIN roots[i].defs : i \in DOMAIN roots}, f \in Parts :
       Part(Last(roots), y, f) = Part(roots[1], y, f) =>
         \A i \in DOMAIN roots : Part(roots[i], y, f) = Part(roots[1], y, f)
  /\ Last(roots).tests = roots[1].tests => \A i \in DOMAIN roots : roots[i].tests = roots[1].tests

\* No part changed on both sides.
DisjointChanges(b, t, s) ==
  /\ \A y \in DOMAIN b.defs \cup DOMAIN t.defs \cup DOMAIN s.defs, f \in Facets :
       Part(t, y, f) = Part(b, y, f) \/ Part(s, y, f) = Part(b, y, f)
  /\ t.tests = b.tests \/ s.tests = b.tests

\* Nothing is generic: there are no instances to make.
Monomorphic(r) ==
  \A y \in DOMAIN r.defs : r.defs[y].kind # "generic" /\ \A c \in r.defs[y].calls : c.at = "plain"

\* An operation recorded at root r, aimed at root q: at where its symbol now
\* is, its body with the names that what it calls has now.
Located(op) == op.op \notin {"create_function", "create_external_function", "delete_test"}
Written(op) == op.op \in {"create_function", "replace_function_body"}
Home(op) == IF Located(op) THEN op.on.module ELSE op.module
Retargeted(q, op) ==
  IF Located(op) /\ BindingsOf(q.names, op.on.symbol) # {}
  THEN LET b == PreferredBinding(q.names, op.on.symbol)
       IN  [op EXCEPT !.on = [module |-> b.module, name |-> b.name, symbol |-> b.symbol]]
  ELSE op
Reworded(r, q, op, to) ==
  LET calls == Elaborate(r, Home(op), "function", op.body)
  IN  IF \A c \in calls : BindingsOf(q.names, c.callee) # {}
      THEN {[to EXCEPT !.body = Render(q, Home(to), calls)]} ELSE {}
Aimed(r, q, op) ==
  IF Written(op) THEN Reworded(r, q, op, Retargeted(q, op)) ELSE {Retargeted(q, op)}

\* What these migrations, that led through these roots, make of root r.
Replayed(r, roots, items) ==
  LET made[n \in 0 .. Len(items)] ==
        IF n = 0 THEN {r}
        ELSE UNION {UNION {Accepted(q, items[n].births, op) : op \in Aimed(roots[n], q, items[n].op)} :
                      q \in made[n - 1]}
  IN  made[Len(items)]

\* The metadata aside: they are merged as a whole and may list other modules.
Program(r) == [r EXCEPT !.listed = {}]

Replayable(b, t, roots, items) ==
  /\ \A i \in DOMAIN items : items[i].op.op # "merge_branch"
  /\ \A r \in {t} \cup {roots[i] : i \in DOMAIN roots} : Monomorphic(r)
  /\ TakesNothingBack(roots)
  /\ DisjointChanges(b, t, Last(roots))

\* A merge of disjoint changes does what replaying the source's migrations on
\* the target would do, where both are possible (SPEC_V1 12,
\* plan_conservative_merge).
ReplaysInto(tc, sc) ==
  LET roots == Since(tc, sc)
  IN  Replayable(roots[1], RootOf(tc), roots, After(tc, sc)) =>
        \A r \in Plan(tc, sc), q \in Replayed(RootOf(tc), roots, After(tc, sc)) : Program(r) = Program(q)
MergeIsReplay == \A t, s \in Branches : ReplaysInto(chain[t], chain[s])

\* No branch came back to a root that the other has had as well, except in
\* the same order.
InOrder(tc, sc) == \A p, q \in SharedPoints(tc, sc) : p[1] < q[1] <=> p[2] < q[2]

\* The source has come back from this root, or gone on from it.
LeftBehind(sc, r) == r # RootOf(sc) /\ Contains(Points(sc), r)

\* Either branch may be merged into the other: the result is the same, and
\* merging again changes nothing.  The exception is a merge that leads to a
\* root the source has left behind: it is the next common ancestor, and what
\* the source did since is merged after all.
MergesAgree ==
  \A t, s \in Branches : InOrder(chain[t], chain[s]) =>
    /\ Plan(chain[t], chain[s]) = Plan(chain[s], chain[t])
    /\ \A r \in Plan(chain[t], chain[s]) :
         LET merged == Append(chain[t], MergeItem(chain[t], chain[s], r))
         IN  ~LeftBehind(chain[s], r) => Plan(merged, chain[s]) = {r}
=============================================================================
