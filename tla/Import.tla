------------------------------- MODULE Import -------------------------------
(***************************************************************************)
(* The import of a program's text (import_file, src/src/lib.rs): the order  *)
(* its items are created in, each by a migration, and what that makes.      *)
(*                                                                         *)
(* A symbol is born with a nonce and after the history so far, so the order *)
(* is part of the identity of all that follows.  Functions that call one    *)
(* another in a cycle, a clique, are created together, each at an ordinal   *)
(* found from what they are and not from where they stand.                  *)
(*                                                                         *)
(* A colour is the structure that the code hashes.  Colours and forms are   *)
(* ordered by CHOOSE, which depends on the set of them and nothing else, as *)
(* the order of their hashes does.  Types are not recursive here.           *)
(***************************************************************************)
EXTENDS Projection

\* The sequence, which TLC would otherwise compute again wherever it is used.
Whole(s) == s \o <<>>

IsType(item)  == item.kind # "fn"
NamesIn(item) == IF IsType(item) THEN TypeDeps(<<item.kind, item.of>>) ELSE CalledBy(item.of)

\* What each item refers to among those of its kind.
Adjacency(items) ==
  Whole([i \in DOMAIN items |->
     LET names == NamesIn(items[i])
     IN  {j \in DOMAIN items : IsType(items[j]) = IsType(items[i]) /\ items[j].name \in names}])

RECURSIVE Reached(_, _)
Reached(adjacent, from) == LET more == from \union UNION {adjacent[i] : i \in from}
                           IN  IF more = from THEN from ELSE Reached(adjacent, more)

\* The sets of items that reach one another, and themselves.
Components(adjacent) ==
  LET below == Whole([i \in DOMAIN adjacent |-> Reached(adjacent, adjacent[i])])
  IN  {{j \in below[i] : i \in below[j]} : i \in {k \in DOMAIN adjacent : k \in below[k]}}

-----------------------------------------------------------------------------
\* The members of a clique, items in the order they were found, and a colour
\* for each: a call of a peer is a call of its colour.
RECURSIVE Recoloured(_, _, _)
Recoloured(e, members, colors) ==
  LET peers == {i \in DOMAIN members : e.op = <<"call", members[i].name>>}
  IN  Expr(IF peers = {} THEN e.op ELSE <<"peer", colors[CHOOSE i \in peers : TRUE]>>,
           [k \in DOMAIN e.kids |-> Recoloured(e.kids[k], members, colors)], e.binds)

StaticSig(item) == <<[i \in DOMAIN item.params |-> item.params[i][2]], item.returns>>

ErasedForm(members, i, colors) == <<StaticSig(members[i]), Recoloured(members[i].of, members, colors)>>

\* Rounds of refinement until the number of colours stays.  With keepOwn what
\* set two members apart once does so for good.
RECURSIVE Refined(_, _, _, _)
Refined(members, colors, keepOwn, rounds) ==
  LET Colour(i) == (IF keepOwn THEN <<colors[i]>> ELSE <<>>) \o ErasedForm(members, i, colors)
      next      == Whole([i \in DOMAIN members |-> Colour(i)])
  IN  CASE rounds = 0                                           -> colors
        [] Cardinality(Range(next)) = Cardinality(Range(colors)) -> next
        [] OTHER                                                -> Refined(members, next, keepOwn, rounds - 1)

Discrete(colors) == IsInjective(colors)

ByColour(colors) == LET cs == SetToSeq(Range(colors))
                    IN  [k \in DOMAIN cs |-> CHOOSE i \in DOMAIN colors : colors[i] = cs[k]]

\* The clique under an order of its members: peers by their ordinals.
CliqueForm(members, order) ==
  LET ordinals == [i \in DOMAIN members |-> CHOOSE k \in DOMAIN order : order[k] = i]
  IN  [k \in DOMAIN order |-> ErasedForm(members, order[k], ordinals)]

\* The orders that come of setting one member apart from those it shares its
\* colour with, each in turn, until no two share one.
RECURSIVE Labelings(_, _, _)
Labelings(members, seed, depth) ==
  LET colors == Refined(members, seed, TRUE, Len(members))
      order  == ByColour(colors)
      shared == CHOOSE c \in Range(colors) : \E i, j \in DOMAIN colors : i # j /\ {colors[i], colors[j]} = {c}
      cell   == SelectSeq([i \in DOMAIN members |-> i], LAMBDA i : colors[i] = shared)
  IN  IF Discrete(colors)
      THEN <<[order |-> order, form |-> CliqueForm(members, order),
              keys |-> [k \in DOMAIN order |-> Place(members[order[k]].name)]]>>
      ELSE FlattenSeq([k \in DOMAIN cell |->
             Labelings(members, [colors EXCEPT ![cell[k]] = <<"individual", depth, @, "">>], depth + 1)])

Before(s, t) == \E k \in DOMAIN s : s[k] < t[k] /\ \A j \in 1..(k - 1) : s[j] = t[j]

BestForms(found) == LET form == CHOOSE f \in {found[k].form : k \in DOMAIN found} : TRUE
                    IN  SelectSeq(found, LAMBDA l : l.form = form)

\* Mutant: of the orders of the best form, the one found first.
FirstLabeling(found) == Head(BestForms(found)).order

\* Members that the form does not tell apart go by name.
BestLabeling(found) ==
  LET best == BestForms(found)
  IN  best[CHOOSE k \in DOMAIN best : \A j \in DOMAIN best : ~Before(best[j].keys, best[k].keys)].order

CanonicalCliqueOrder(members) ==
  LET colors == Refined(members, [i \in DOMAIN members |-> <<>>], FALSE, Len(members))
  IN  IF Discrete(colors) THEN ByColour(colors) ELSE BestLabeling(Labelings(members, colors, 0))

\* The members of a clique, by ordinal.
CanonicalMembers(items, component) ==
  LET found == SetToSortSeq(component, <)
      order == CanonicalCliqueOrder([k \in DOMAIN found |-> items[found[k]]])
  IN  [k \in DOMAIN order |-> found[order[k]]]

RecursionGroups(items, adjacent) == {CanonicalMembers(items, C) : C \in Components(adjacent)}

-----------------------------------------------------------------------------
\* Units, cliques or items alone, each after those it refers to, and first by
\* the first of its names.
RECURSIVE UnitOrder(_, _, _, _)
UnitOrder(items, adjacent, units, done) ==
  LET ready    == {u \in units : UNION {adjacent[i] : i \in ToSet(u)} \subseteq ToSet(u) \union ToSet(FlattenSeq(done))}
      First(u) == Min({Place(items[i].name) : i \in ToSet(u)})
      next     == CHOOSE u \in ready : \A v \in ready : First(u) <= First(v)
  IN  IF units = {} THEN done ELSE UnitOrder(items, adjacent, units \ {next}, Append(done, next))

\* Types, then functions.
CanonicalOrder(items, groups, adjacent) ==
  LET alone == {<<i>> : i \in DOMAIN items \ UNION {ToSet(g) : g \in groups}}
      types == {u \in alone : IsType(items[u[1]])}
  IN  UnitOrder(items, adjacent, types, <<>>)
        \o UnitOrder(items, adjacent, groups \union (alone \ types), <<>>)

\* A migration for each unit: the items it creates, and the nonces of their
\* births, which are ordinals in a clique and the place in the order elsewhere.
Migrations(items, groups, order) ==
  LET before(k)   == Len(FlattenSeq(SubSeq(order, 1, k - 1)))
      nonce(k, n) == IF order[k] \in groups THEN <<"recursion_group", n>> ELSE <<"import", before(k)>>
  IN  [k \in DOMAIN order |->
         [n \in DOMAIN order[k] |-> [item |-> items[order[k][n]], nonce |-> nonce(k, n)]]]

With(f, n, v) == [x \in DOMAIN f \union {n} |-> IF x = n THEN v ELSE f[x]]
Birth(r, m)   == [nonce |-> m.nonce, after |-> r.history]

\* The names of types that an item is made of.
TypesIn(item) ==
  IF IsType(item) THEN NamesIn(item)
  ELSE LET types == {item.returns} \union {item.params[i][2] : i \in DOMAIN item.params}
       IN  UNION {TypeNames(T) : T \in types}

\* A type may name itself.
AfterType(r, m) ==
  LET n == m.item.name
  IN  [r EXCEPT !.ok      = @ /\ n \notin DOMAIN r.types /\ TypesIn(m.item) \subseteq DOMAIN r.types \union {n},
                !.types   = With(@, n, <<m.item.kind, m.item.of>>),
                !.births  = With(@, n, Birth(r, m)),
                !.history = Append(@, {n})]

BoundFunction(r, m) ==
  LET n == m.item.name
  IN  [r EXCEPT !.ok        = @ /\ n \notin DOMAIN r.functions /\ TypesIn(m.item) \subseteq DOMAIN r.types,
                !.functions = With(@, n, [params |-> m.item.params, returns |-> m.item.returns, body |-> m.item.of]),
                !.births    = With(@, n, Birth(r, m))]

\* Every member is bound before any body is typed.
AfterFunctions(r, members) ==
  LET bound   == FoldLeft(BoundFunction, r, members)
      names   == {members[n].item.name : n \in DOMAIN members}
      Body(fn) == ElabBody(bound, fn.params, fn.returns, fn.body)
      fns     == [f \in DOMAIN bound.functions |->
                    IF f \in names THEN [bound.functions[f] EXCEPT !.body = Body(bound.functions[f])]
                    ELSE bound.functions[f]]
  IN  [bound EXCEPT !.ok        = @ /\ \A f \in names : /\ Accepted(fns[f].body)
                                                        /\ Assignable(bound, fns[f].body.type, fns[f].returns),
                    !.functions = fns,
                    !.history   = Append(@, names)]

Migrated(r, members) ==
  IF IsType(members[1].item) THEN AfterType(r, members[1]) ELSE AfterFunctions(r, members)

Initialized == [types |-> [n \in {} |-> I64], functions |-> [n \in {} |-> I64],
                births |-> [n \in {} |-> I64], history |-> <<>>, ok |-> TRUE]

ImportGroups(items, groups, adjacent) ==
  FoldLeft(Migrated, Initialized, Migrations(items, groups, CanonicalOrder(items, groups, adjacent)))

ImportGraph(items, adjacent) == ImportGroups(items, RecursionGroups(items, adjacent), adjacent)

ImportFile(items) == ImportGraph(items, Adjacency(items))

\* The ordinals that members of cliques were born at are those found again
\* from the items of the program's text (verify).
OrdinalsCanonical(r, items) ==
  \A g \in RecursionGroups(items, Adjacency(items)) : \A n \in DOMAIN g :
    r.births[items[g[n]].name].nonce = <<"recursion_group", n>>
=============================================================================
