----------------------------- MODULE MergeProofs -----------------------------
(***************************************************************************)
(* Proofs about branches that are edited and merged.                       *)
(*                                                                         *)
(* The inductive invariant says of all chains together that they are       *)
(* Lawful: every migration made its root from the one before, every root   *)
(* on the way is sound, equal histories have equal roots, and a symbol     *)
(* was born on a history whose root had only older symbols.  The last two   *)
(* are what a second birth of a symbol needs, on another branch.           *)
(*                                                                         *)
(* The second half proves that a merge of disjoint changes is a replay.    *)
(* Alike(r, q, p, o) says that o differs from p as q differs from r, part   *)
(* by part: so every operation does on another root (StepReplayed), and so *)
(* does the merge of its three roots (MergedAlike).  Midway holds of the   *)
(* replay after each migration, by induction over the migrations.          *)
(***************************************************************************)
EXTENDS MergeProperties, OperationProofs, Induction

\* A chain up to its i-th migration: the root and the operations so far.
RootAt(c, i) == IF i = 0 THEN EmptyRoot ELSE c[i].root
OpsTo(c, i) == [k \in 1 .. i |-> c[k].op]

Items(c) == {c[i] : i \in DOMAIN c}
IsSeq(c) == c \in Seq(Items(c))

\* The i-th migration made its root from the one before.
MadeBy(c, i, keys) ==
  LET op == c[i].op
      n == c[i].births
  IN  IF op.op = "merge_branch" THEN c[i].root = op.merged /\ op.ancestor \in 1 .. i
      ELSE /\ op \in EditOps(RootAt(c, i - 1))
           /\ c[i].root \in Accepted(RootAt(c, i - 1), n, op)
           /\ Creates(op) => /\ n \in Nat /\ n + 1 \in DOMAIN keys
                             /\ keys[n + 1] = [on |-> OpsTo(c, i - 1), seed |-> <<op.op, op.module, op.name>>]

KeysDiffer(keys) ==
  IsSeq(keys) /\ \A k, l \in DOMAIN keys : keys[k] = keys[l] => k = l
RootsSound(C, keys) ==
  \A c \in C : IsSeq(c) /\ \A i \in 0 .. Len(c) : RootInv(RootAt(c, i), Len(keys))
MigrationsMade(C, keys) == \A c \in C : \A i \in 1 .. Len(c) : MadeBy(c, i, keys)
HistoriesDecide(C) ==
  \A c, d \in C : \A i \in 0 .. Len(c), j \in 0 .. Len(d) :
    OpsTo(c, i) = OpsTo(d, j) => RootAt(c, i) = RootAt(d, j)
BornOnOlder(C, keys) ==
  \A k \in DOMAIN keys : \E c \in C : \E i \in 0 .. Len(c) :
    OpsTo(c, i) = keys[k].on /\ Numbered(RootAt(c, i), k - 1)

Lawful(C, keys) ==
  /\ KeysDiffer(keys)
  /\ RootsSound(C, keys)
  /\ MigrationsMade(C, keys)
  /\ HistoriesDecide(C)
  /\ BornOnOlder(C, keys)

Chains == {chain[b] : b \in Branches}
Inv == chain \in [Branches -> Chains] /\ Lawful(Chains, born)

-----------------------------------------------------------------------------
\* Sequences.

\* Appending an element keeps the others.
LEMMA Appended ==
  ASSUME NEW c, IsSeq(c), NEW x
  PROVE  /\ IsSeq(Append(c, x))
         /\ Len(c) \in Nat /\ Len(Append(c, x)) = Len(c) + 1
         /\ DOMAIN c = 1 .. Len(c) /\ DOMAIN Append(c, x) = 1 .. Len(c) + 1
         /\ \A i \in 1 .. Len(c) : Append(c, x)[i] = c[i]
         /\ Append(c, x)[Len(c) + 1] = x
<1> DEFINE S == Items(c) \cup {x}
           d == Append(c, x)
           D == Items(d)
<1>1. c \in Seq(S) /\ x \in S
  BY DEF IsSeq
<1> HIDE DEF S
<1>2. /\ d \in Seq(S) /\ Len(c) \in Nat /\ Len(d) = Len(c) + 1
      /\ DOMAIN c = 1 .. Len(c) /\ DOMAIN d = 1 .. Len(c) + 1
      /\ \A i \in 1 .. Len(c) : d[i] = c[i]
      /\ d[Len(c) + 1] = x
  BY <1>1
<1> HIDE DEF d
<1>3. \A i \in DOMAIN d : d[i] \in D
  BY DEF Items
<1> HIDE DEF D
<1>4. d \in [1 .. Len(d) -> D]
  BY <1>2, <1>3
<1>5. d \in Seq(D)
  BY <1>2, <1>4
<1>6. IsSeq(d)
  BY <1>5 DEF IsSeq, D
<1> QED
  BY <1>2, <1>6 DEF d

\* What a longer chain says of its beginning.
LEMMA Beginning ==
  ASSUME NEW c, IsSeq(c), NEW x
  PROVE  /\ \A i \in 0 .. Len(c) :
              RootAt(Append(c, x), i) = RootAt(c, i) /\ OpsTo(Append(c, x), i) = OpsTo(c, i)
         /\ RootAt(Append(c, x), Len(c) + 1) = x.root
         /\ OpsTo(Append(c, x), Len(c) + 1)[Len(c) + 1] = x.op
<1> DEFINE d == Append(c, x)
<1>1. /\ Len(c) \in Nat
      /\ \A i \in 1 .. Len(c) : d[i] = c[i]
      /\ d[Len(c) + 1] = x
  BY Appended
<1> HIDE DEF d
<1>2. \A i \in 0 .. Len(c) : RootAt(d, i) = RootAt(c, i)
  BY <1>1 DEF RootAt
<1>3. \A i \in 0 .. Len(c) : OpsTo(d, i) = OpsTo(c, i)
  BY <1>1 DEF OpsTo
<1>4. RootAt(d, Len(c) + 1) = x.root /\ OpsTo(d, Len(c) + 1)[Len(c) + 1] = x.op
  BY <1>1 DEF RootAt, OpsTo
<1> QED
  BY <1>2, <1>3, <1>4 DEF d

\* The tip of a chain is the root at its end, its history all its operations.
LEMMA Ends ==
  ASSUME NEW c, IsSeq(c)
  PROVE  /\ RootOf(c) = RootAt(c, Len(c))
         /\ History(c) = OpsTo(c, Len(c))
         /\ Len(c) \in Nat
<1>1. Len(c) \in Nat /\ DOMAIN c = 1 .. Len(c) /\ (c = <<>> <=> Len(c) = 0)
  BY DEF IsSeq
<1> QED
  BY <1>1 DEF RootOf, Last, RootAt, History, OpsTo

\* Equal histories are equally long, and so are all their beginnings.
LEMMA EqualBeginnings ==
  ASSUME NEW c, NEW i \in Nat, NEW d, NEW j \in Nat, OpsTo(c, i) = OpsTo(d, j)
  PROVE  /\ i = j
         /\ i > 0 => c[i].op = d[i].op /\ OpsTo(c, i - 1) = OpsTo(d, i - 1)
<1>1. 1 .. i = 1 .. j
  <2>1. DOMAIN OpsTo(c, i) = 1 .. i /\ DOMAIN OpsTo(d, j) = 1 .. j
    BY DEF OpsTo
  <2> QED
    BY <2>1
<1>2. i = j
  BY <1>1
<1>3. \A k \in 1 .. i : c[k].op = d[k].op
  <2>1. \A k \in 1 .. i : OpsTo(c, i)[k] = c[k].op /\ OpsTo(d, i)[k] = d[k].op
    BY DEF OpsTo
  <2> QED
    BY <2>1, <1>2
<1> QED
  BY <1>2, <1>3 DEF OpsTo

-----------------------------------------------------------------------------
\* An edit.

\* What is written down of an operation does not change with later births.
LEMMA MadeStays ==
  ASSUME NEW c, NEW i, NEW keys, IsSeq(keys), MadeBy(c, i, keys),
         NEW more, more = keys \/ \E k : more = Append(keys, k)
  PROVE  MadeBy(c, i, more)
<1>1. \A k \in DOMAIN keys : k \in DOMAIN more /\ more[k] = keys[k]
  <2>1. CASE more = keys
    BY <2>1
  <2>2. CASE \E k : more = Append(keys, k)
    BY <2>2, Appended
  <2> QED
    BY <2>1, <2>2
<1> QED
  BY <1>1 DEF MadeBy

\* What the symbols become when an operation adds its own to them.
KeysGrow(c, keys, more) ==
  /\ KeysDiffer(more) /\ Len(more) \in Nat /\ Len(keys) <= Len(more)
  /\ more = keys \/ \E k : more = Append(keys, k)
  /\ \A k \in DOMAIN more \ DOMAIN keys : more[k].on = History(c) /\ k = Len(keys) + 1
  /\ \A k \in DOMAIN keys : k \in DOMAIN more /\ more[k] = keys[k]

\* The number that an operation is given: a creation's symbol has that number
\* among the born ones from then on, and the root has none that are younger.
LEMMA Numbering ==
  ASSUME NEW C, NEW keys, Lawful(C, keys), NEW c \in C, NEW op,
         NEW n, n = BornBefore(keys, c, op), NEW more, more = Registered(keys, c, op)
  PROVE  /\ n \in Nat
         /\ n + (IF Creates(op) THEN 1 ELSE 0) <= Len(more)
         /\ RootInv(RootOf(c), n)
         /\ KeysGrow(c, keys, more)
         /\ Creates(op) => n + 1 \in DOMAIN more /\ more[n + 1] = Birth(c, op)
<1> DEFINE key == Birth(c, op)
<1>0. /\ KeysDiffer(keys) /\ RootsSound(C, keys) /\ HistoriesDecide(C) /\ BornOnOlder(C, keys)
      /\ IsSeq(keys) /\ IsSeq(c)
  BY DEF Lawful, KeysDiffer, RootsSound
<1>1. /\ Len(keys) \in Nat /\ DOMAIN keys = 1 .. Len(keys)
  BY <1>0 DEF IsSeq
<1>2. /\ RootOf(c) = RootAt(c, Len(c)) /\ History(c) = OpsTo(c, Len(c))
      /\ Len(c) \in Nat
  BY <1>0, Ends
<1>3. RootInv(RootOf(c), Len(keys))
  BY <1>0, <1>2 DEF RootsSound
<1>4. key.on = History(c)
  BY DEF Birth
<1> HIDE DEF key
<1>5. CASE ~Creates(op)
  BY <1>0, <1>1, <1>3, <1>5 DEF BornBefore, Registered, KeysGrow
<1>6. CASE Creates(op) /\ ~Contains(keys, key)
  <2>1. n = Len(keys) /\ more = Append(keys, key)
    BY <1>6 DEF BornBefore, Registered, key
  <2>2. /\ IsSeq(more) /\ Len(more) = Len(keys) + 1 /\ DOMAIN more = 1 .. Len(more)
        /\ \A i \in 1 .. Len(keys) : more[i] = keys[i]
        /\ more[Len(more)] = key
    BY <1>0, <2>1, Appended
  <2>3. \A i \in 1 .. Len(keys) : keys[i] # key
    BY <1>6, <1>1 DEF Contains
  <2>4. KeysDiffer(more)
    BY <1>0, <1>1, <2>2, <2>3 DEF KeysDiffer
  <2> QED
    BY <1>1, <1>3, <1>4, <1>6, <2>1, <2>2, <2>4 DEF key, KeysGrow
<1>7. CASE Creates(op) /\ Contains(keys, key)
  <2>1. n = (CHOOSE i \in DOMAIN keys : keys[i] = key) - 1 /\ more = keys
    BY <1>7 DEF BornBefore, Registered, key
  <2>2. PICK i \in DOMAIN keys : keys[i] = key /\ n = i - 1
    BY <1>7, <1>1, <2>1 DEF Contains
  <2>3. PICK d \in C : \E j \in 0 .. Len(d) :
           OpsTo(d, j) = keys[i].on /\ Numbered(RootAt(d, j), i - 1)
    BY <1>0 DEF BornOnOlder
  <2>4. PICK j \in 0 .. Len(d) : OpsTo(d, j) = keys[i].on /\ Numbered(RootAt(d, j), i - 1)
    BY <2>3
  <2>5. RootAt(d, j) = RootOf(c)
    <3>1. OpsTo(d, j) = OpsTo(c, Len(c)) /\ Len(c) \in 0 .. Len(c)
      BY <1>2, <1>4, <2>2, <2>4
    <3> QED
      BY <1>0, <1>2, <3>1 DEF HistoriesDecide
  <2>6. RootInv(RootOf(c), n)
    BY <1>3, <2>2, <2>4, <2>5 DEF RootInv, ShapeInv
  <2> QED
    BY <1>0, <1>1, <1>7, <2>1, <2>2, <2>6 DEF key, KeysGrow
<1> QED
  BY <1>5, <1>6, <1>7

\* Every other chain with the history of c has this root after this operation.
AsElsewhere(C, c, x) ==
  \A e \in C : \A j \in 1 .. Len(e) :
    OpsTo(e, j - 1) = OpsTo(c, Len(c)) /\ e[j].op = x.op => e[j].root = x.root

\* A migration at the end of a chain, whose root is what every other chain with
\* this history has after the same operation.
LEMMA Extended ==
  ASSUME NEW C, NEW keys, Lawful(C, keys), NEW c \in C, NEW x,
         NEW more, KeysGrow(c, keys, more),
         MadeBy(Append(c, x), Len(c) + 1, more), RootInv(x.root, Len(more)),
         AsElsewhere(C, c, x)
  PROVE  Lawful(C \cup {Append(c, x)}, more)
<1> DEFINE d == Append(c, x)
<1>1. /\ KeysDiffer(keys) /\ RootsSound(C, keys) /\ MigrationsMade(C, keys)
      /\ HistoriesDecide(C) /\ BornOnOlder(C, keys)
      /\ IsSeq(keys) /\ IsSeq(c) /\ \A e \in C : IsSeq(e)
  BY DEF Lawful, KeysDiffer, RootsSound
<1>2. \A e \in C : Len(e) \in Nat
  BY <1>1, Ends
<1>3. /\ IsSeq(d) /\ Len(d) = Len(c) + 1
      /\ \A i \in 1 .. Len(c) : d[i] = c[i]
      /\ d[Len(c) + 1] = x
  BY <1>1, Appended
<1>4. /\ \A i \in 0 .. Len(c) : RootAt(d, i) = RootAt(c, i) /\ OpsTo(d, i) = OpsTo(c, i)
      /\ RootAt(d, Len(c) + 1) = x.root
  BY <1>1, Beginning
<1>5. MadeBy(d, Len(c) + 1, more)
  OBVIOUS
<1> HIDE DEF d
<1>6. \A i \in 0 .. Len(d) : i \in 0 .. Len(c) \/ i = Len(c) + 1
  BY <1>2, <1>3
<1>7. /\ Len(keys) \in Nat /\ KeysDiffer(more) /\ Len(more) \in Nat /\ Len(keys) <= Len(more)
      /\ more = keys \/ \E k : more = Append(keys, k)
  BY <1>1 DEF IsSeq, KeysGrow
<1>8. RootsSound(C \cup {d}, more)
  <2>1. \A e \in C : \A i \in 0 .. Len(e) : RootInv(RootAt(e, i), Len(more))
    BY <1>1, <1>7, MoreBirths DEF RootsSound
  <2>2. \A i \in 0 .. Len(d) : RootInv(RootAt(d, i), Len(more))
    BY <1>4, <1>6, <2>1
  <2> QED
    BY <1>1, <1>3, <2>1, <2>2 DEF RootsSound
<1>9. MigrationsMade(C \cup {d}, more)
  <2>1. \A e \in C : \A i \in 1 .. Len(e) : MadeBy(e, i, more)
    BY <1>1, <1>7, MadeStays DEF MigrationsMade
  <2>2. \A i \in 1 .. Len(c) : MadeBy(d, i, more)
    <3>1. SUFFICES ASSUME NEW i \in 1 .. Len(c) PROVE MadeBy(d, i, more)
      OBVIOUS
    <3>2. MadeBy(c, i, more)
      BY <2>1
    <3>3. d[i] = c[i] /\ RootAt(d, i - 1) = RootAt(c, i - 1) /\ OpsTo(d, i - 1) = OpsTo(c, i - 1)
      BY <1>2, <1>3, <1>4
    <3> QED
      BY <3>2, <3>3 DEF MadeBy
  <2>3. \A i \in 1 .. Len(d) : MadeBy(d, i, more)
    BY <1>2, <1>3, <1>5, <2>2
  <2> QED
    BY <2>1, <2>3 DEF MigrationsMade
<1>10. HistoriesDecide(C \cup {d})
  <2>1. \A e \in C : \A i \in 0 .. Len(e), j \in 0 .. Len(d) :
           OpsTo(e, i) = OpsTo(d, j) => RootAt(e, i) = RootAt(d, j)
    <3>1. SUFFICES ASSUME NEW e \in C, NEW i \in 0 .. Len(e), NEW j \in 0 .. Len(d),
                          OpsTo(e, i) = OpsTo(d, j)
                   PROVE  RootAt(e, i) = RootAt(d, j)
      OBVIOUS
    <3>2. CASE j \in 0 .. Len(c)
      BY <1>1, <1>4, <3>1, <3>2 DEF HistoriesDecide
    <3>3. CASE j = Len(c) + 1
      <4>1. i \in Nat /\ j \in Nat /\ j > 0
        BY <1>2, <1>3, <3>3
      <4>2. i = j
        BY <3>1, <4>1, EqualBeginnings
      <4>3. e[i].op = d[i].op /\ OpsTo(e, i - 1) = OpsTo(d, i - 1)
        BY <3>1, <4>1, <4>2, EqualBeginnings
      <4>4. i \in 1 .. Len(e) /\ i = Len(c) + 1 /\ i - 1 = Len(c) /\ Len(c) \in 0 .. Len(c)
        BY <1>2, <3>3, <4>1, <4>2
      <4>5. e[i].op = x.op /\ OpsTo(e, i - 1) = OpsTo(c, Len(c))
        BY <1>3, <1>4, <4>3, <4>4
      <4>6. e[i].root = x.root
        BY <4>4, <4>5 DEF AsElsewhere
      <4> QED
        BY <1>4, <3>3, <4>2, <4>4, <4>6 DEF RootAt
    <3> QED
      BY <1>6, <3>2, <3>3
  <2>2. \A i, j \in 0 .. Len(d) : OpsTo(d, i) = OpsTo(d, j) => RootAt(d, i) = RootAt(d, j)
    <3>1. \A i, j \in Nat : OpsTo(d, i) = OpsTo(d, j) => i = j
      BY EqualBeginnings
    <3>2. \A i \in 0 .. Len(d) : i \in Nat
      BY <1>2, <1>3
    <3> QED
      BY <3>1, <3>2
  <2>3. \A e, f \in C : \A i \in 0 .. Len(e), j \in 0 .. Len(f) :
           OpsTo(e, i) = OpsTo(f, j) => RootAt(e, i) = RootAt(f, j)
    BY <1>1 DEF HistoriesDecide
  <2>4. \A e \in C : \A j \in 0 .. Len(d), i \in 0 .. Len(e) :
           OpsTo(d, j) = OpsTo(e, i) => RootAt(d, j) = RootAt(e, i)
    BY <2>1
  <2> SUFFICES ASSUME NEW e \in C \cup {d}, NEW f \in C \cup {d}
               PROVE  \A i \in 0 .. Len(e), j \in 0 .. Len(f) :
                        OpsTo(e, i) = OpsTo(f, j) => RootAt(e, i) = RootAt(f, j)
    BY DEF HistoriesDecide
  <2>5. CASE e \in C /\ f \in C
    BY <2>3, <2>5
  <2>6. CASE e \in C /\ f = d
    BY <2>1, <2>6
  <2>7. CASE e = d /\ f \in C
    BY <2>4, <2>7
  <2>8. CASE e = d /\ f = d
    BY <2>2, <2>8
  <2> QED
    BY <2>5, <2>6, <2>7, <2>8
<1>11. BornOnOlder(C \cup {d}, more)
  <2>1. SUFFICES ASSUME NEW k \in DOMAIN more
                 PROVE  \E e \in C \cup {d} : \E i \in 0 .. Len(e) :
                          OpsTo(e, i) = more[k].on /\ Numbered(RootAt(e, i), k - 1)
    BY DEF BornOnOlder
  <2>2. CASE k \in DOMAIN keys
    BY <1>1, <2>2 DEF BornOnOlder, KeysGrow
  <2>3. CASE k \notin DOMAIN keys
    <3>1. more[k].on = OpsTo(c, Len(c)) /\ k - 1 = Len(keys)
      BY <1>1, <1>7, <2>3, Ends DEF KeysGrow
    <3>2. Len(c) \in 0 .. Len(c)
      BY <1>2
    <3>3. Numbered(RootAt(c, Len(c)), Len(keys))
      BY <1>1, <3>2 DEF RootsSound, RootInv, ShapeInv
    <3> QED
      BY <3>1, <3>2, <3>3
  <2> QED
    BY <2>2, <2>3
<1> QED
  BY <1>7, <1>8, <1>9, <1>10, <1>11 DEF Lawful, d

\* The longer chain can take the place of the one that it goes on from.
LEMMA Replaced ==
  ASSUME NEW C, NEW keys, NEW c \in C, IsSeq(c), NEW x, Lawful(C \cup {Append(c, x)}, keys),
         NEW D, D \subseteq C \cup {Append(c, x)}, Append(c, x) \in D, C \ {c} \subseteq D
  PROVE  Lawful(D, keys)
<1> DEFINE d == Append(c, x)
<1>1. /\ KeysDiffer(keys) /\ RootsSound(D, keys) /\ MigrationsMade(D, keys) /\ HistoriesDecide(D)
  BY DEF Lawful, RootsSound, MigrationsMade, HistoriesDecide
<1>2. BornOnOlder(D, keys)
  <2>1. SUFFICES ASSUME NEW k \in DOMAIN keys
                 PROVE  \E e \in D : \E i \in 0 .. Len(e) :
                          OpsTo(e, i) = keys[k].on /\ Numbered(RootAt(e, i), k - 1)
    BY DEF BornOnOlder
  <2>2. PICK e \in C \cup {d} : \E i \in 0 .. Len(e) :
           OpsTo(e, i) = keys[k].on /\ Numbered(RootAt(e, i), k - 1)
    BY DEF Lawful, BornOnOlder
  <2>3. CASE e \in D
    BY <2>2, <2>3
  <2>4. CASE e \notin D
    <3>1. e = c
      BY <2>4
    <3>2. PICK i \in 0 .. Len(c) : OpsTo(c, i) = keys[k].on /\ Numbered(RootAt(c, i), k - 1)
      BY <2>2, <3>1
    <3>3. OpsTo(d, i) = OpsTo(c, i) /\ RootAt(d, i) = RootAt(c, i)
      BY Beginning
    <3>4. Len(c) \in Nat /\ Len(d) = Len(c) + 1
      BY Appended
    <3>5. i \in 0 .. Len(d)
      BY <3>4
    <3> QED
      BY <3>2, <3>3, <3>5
  <2> QED
    BY <2>3, <2>4
<1> QED
  BY <1>1, <1>2 DEF Lawful

\* Only edits are operations of agents, and those create one symbol or none.
LEMMA EditsAreNoMerges ==
  ASSUME NEW r, NEW op \in EditOps(r)
  PROVE  /\ op.op # "merge_branch"
         /\ Newborn(op) = IF Creates(op) THEN 1 ELSE 0
BY DEF EditOps, Newborn, Creates, CreateFunctionOps, CreateExternalOps, RenameOps, MoveOps,
   ReplaceBodyOps, ChangeSignatureOps, AddParameterOps, DeleteOps, CreateAliasOps,
   RemoveAliasOps, SetExportOps, RemoveExportOps, CreateTestOps, DeleteTestOps

\* What the handlers make of a root that is sound is sound.
LEMMA AcceptedSound ==
  ASSUME NEW r, NEW n \in Nat, RootInv(r, n), NEW op \in EditOps(r), NEW q \in Accepted(r, n, op)
  PROVE  /\ q \in Handle(r, n, op)
         /\ RootInv(q, n + (IF Creates(op) THEN 1 ELSE 0))
<1>1. q \in Handle(r, n, op)
  BY DEF Accepted
<1>2. op \in EditOps(r) \cup CreateGroupOps
  OBVIOUS
<1>3. RootInv(q, n + Newborn(op))
  BY <1>1, <1>2, HandleKeepsInv
<1>4. Newborn(op) = IF Creates(op) THEN 1 ELSE 0
  BY EditsAreNoMerges
<1> QED
  BY <1>1, <1>3, <1>4

\* An edit keeps the chains lawful: a symbol that was born before, on the same
\* history, is added to the same root, and the others do not depend on how many
\* there are (put_symbol_birth, apply_operation).
LEMMA EditLawful ==
  ASSUME NEW C, NEW keys, Lawful(C, keys), NEW c \in C, NEW op \in EditOps(RootOf(c)),
         NEW n, n = BornBefore(keys, c, op), NEW more, more = Registered(keys, c, op),
         NEW r \in Accepted(RootOf(c), n, op)
  PROVE  Lawful(C \cup {Append(c, Item(op, r, n))}, more)
<1> DEFINE x == Item(op, r, n)
           d == Append(c, x)
<1>1. /\ KeysDiffer(keys) /\ RootsSound(C, keys) /\ MigrationsMade(C, keys) /\ HistoriesDecide(C)
      /\ IsSeq(c) /\ \A e \in C : IsSeq(e)
  BY DEF Lawful, RootsSound
<1>2. /\ n \in Nat
      /\ n + (IF Creates(op) THEN 1 ELSE 0) <= Len(more)
      /\ RootInv(RootOf(c), n)
      /\ KeysGrow(c, keys, more)
      /\ Creates(op) => n + 1 \in DOMAIN more /\ more[n + 1] = Birth(c, op)
  BY Numbering
<1>3. /\ RootOf(c) = RootAt(c, Len(c)) /\ History(c) = OpsTo(c, Len(c))
      /\ Len(c) \in Nat /\ Len(c) \in 0 .. Len(c)
  BY <1>1, Ends
<1>4. r \in Handle(RootOf(c), n, op) /\ RootInv(r, n + (IF Creates(op) THEN 1 ELSE 0))
  BY <1>2, AcceptedSound
<1>5. x.op = op /\ x.root = r /\ x.births = n
  BY DEF Item
<1>6. RootInv(r, Len(more))
  <2>1. Len(more) \in Nat /\ n + (IF Creates(op) THEN 1 ELSE 0) \in Nat
    BY <1>2 DEF KeysGrow
  <2> QED
    BY <1>2, <1>4, <2>1, MoreBirths
<1> HIDE DEF x
<1>7. MadeBy(d, Len(c) + 1, more)
  <2>1. /\ d[Len(c) + 1] = x
        /\ RootAt(d, Len(c)) = RootOf(c) /\ OpsTo(d, Len(c)) = History(c)
    BY <1>1, <1>3, Appended, Beginning
  <2>2. (Len(c) + 1) - 1 = Len(c)
    BY <1>3
  <2> HIDE DEF d
  <2> QED
    BY <1>2, <1>5, <2>1, <2>2, EditsAreNoMerges DEF MadeBy, Birth
<1>8. AsElsewhere(C, c, x)
  <2>1. SUFFICES ASSUME NEW e \in C, NEW j \in 1 .. Len(e),
                        OpsTo(e, j - 1) = OpsTo(c, Len(c)), e[j].op = op
                 PROVE  e[j].root = r
    BY <1>5 DEF AsElsewhere
  <2>2. MadeBy(e, j, keys) /\ op.op # "merge_branch"
    BY <1>1, EditsAreNoMerges DEF MigrationsMade
  <2>3. RootAt(e, j - 1) = RootOf(c)
    <3>1. Len(e) \in Nat
      BY <1>1, Ends
    <3>2. j - 1 \in 0 .. Len(e)
      BY <3>1
    <3> QED
      BY <1>1, <1>3, <2>1, <3>2 DEF HistoriesDecide
  <2>4. e[j].root \in Handle(RootOf(c), e[j].births, op)
    BY <2>1, <2>2, <2>3 DEF MadeBy, Accepted
  <2>5. CASE ~Creates(op)
    <3>1. Newborn(op) = 0
      BY <2>5, EditsAreNoMerges
    <3> QED
      BY <1>4, <2>4, <3>1, HandleDetermined
  <2>6. CASE Creates(op)
    <3>1. /\ e[j].births \in Nat /\ e[j].births + 1 \in DOMAIN keys
          /\ keys[e[j].births + 1] = Birth(c, op)
      BY <1>3, <2>1, <2>2, <2>6 DEF MadeBy, Birth
    <3>2. e[j].births + 1 \in DOMAIN more /\ more[e[j].births + 1] = Birth(c, op)
      BY <1>2, <3>1 DEF KeysGrow
    <3>3. e[j].births + 1 = n + 1
      BY <1>2, <2>6, <3>2 DEF KeysGrow, KeysDiffer
    <3>4. e[j].births = n
      BY <1>2, <3>1, <3>3
    <3> QED
      BY <1>4, <2>4, <3>4, HandleDetermined
  <2> QED
    BY <2>5, <2>6
<1> HIDE DEF d
<1>9. MadeBy(Append(c, x), Len(c) + 1, more) /\ RootInv(x.root, Len(more))
  BY <1>5, <1>6, <1>7 DEF d
<1> QED
  BY <1>2, <1>8, <1>9, Extended DEF x

-----------------------------------------------------------------------------
\* A merge.

\* What a root says of a symbol that it has, and of one that it has not.
LEMMA StateOf ==
  ASSUME NEW r, NEW y, NEW m, m = SymbolState(r, y)
  PROVE  /\ y \in DOMAIN r.defs =>
              /\ m.entry = {[signature |-> Signature(r.defs[y]), kind |-> r.defs[y].kind,
                             calls |-> r.defs[y].calls]}
              /\ m.names = BindingsOf(r.names, y)
              /\ m.params = r.defs[y].params
              /\ m.exports = {e \in r.exports : e.symbol = y}
         /\ m.entry # {} <=> y \in DOMAIN r.defs
         /\ Signatures(m) # {} <=> y \in DOMAIN r.defs
<1>1. CASE y \in DOMAIN r.defs
  <2>1. m = [entry   |-> {[signature |-> Signature(r.defs[y]), kind |-> r.defs[y].kind,
                           calls |-> r.defs[y].calls]},
             names   |-> BindingsOf(r.names, y),
             params  |-> r.defs[y].params,
             exports |-> {e \in r.exports : e.symbol = y}]
    BY <1>1 DEF SymbolState
  <2> QED
    BY <1>1, <2>1 DEF Signatures
<1>2. CASE y \notin DOMAIN r.defs
  <2>1. m = [entry |-> {}, names |-> {}, params |-> <<>>, exports |-> {}]
    BY <1>2 DEF SymbolState
  <2> QED
    BY <1>2, <2>1 DEF Signatures
<1> QED
  BY <1>1, <1>2

\* Every facet of a merged symbol is as one side has it, and where the facets
\* come from both sides, both have the same signature.
LEMMA FacetsMerged ==
  ASSUME NEW base, NEW left, NEW right,
         NEW m \in ThreeWay(base, left, right, MergeSymbolState(base, left, right))
  PROVE  \/ m = left
         \/ m = right
         \/ /\ left # base
            /\ Signatures(left) = Signatures(right) /\ Signatures(left) = Signatures(base)
            /\ m = [f \in Facets |-> m[f]]
            /\ m.entry \in {left.entry, right.entry}
            /\ m.names \in {left.names, right.names}
            /\ m.params \in {left.params, right.params}
            /\ m.exports \in {left.exports, right.exports}
<1>1. \/ m \in {left} \/ m \in {right}
      \/ left # base /\ m \in MergeSymbolState(base, left, right)
  BY DEF ThreeWay
<1>2. ASSUME m \in MergeSymbolState(base, left, right)
      PROVE  /\ Signatures(left) = Signatures(right) /\ Signatures(left) = Signatures(base)
             /\ m = [f \in Facets |-> m[f]]
             /\ m.entry \in {left.entry, right.entry}
             /\ m.names \in {left.names, right.names}
             /\ m.params \in {left.params, right.params}
             /\ m.exports \in {left.exports, right.exports}
  <2>1. /\ Signatures(left) = Signatures(base) /\ Signatures(right) = Signatures(base)
        /\ m = [f \in Facets |-> IF right[f] # base[f] THEN right[f] ELSE left[f]]
    BY <1>2 DEF MergeSymbolState
  <2>2. \A f \in Facets : m[f] \in {left[f], right[f]}
    BY <2>1
  <2>3. "entry" \in Facets /\ "names" \in Facets /\ "params" \in Facets /\ "exports" \in Facets
    BY DEF Facets
  <2> QED
    BY <2>1, <2>2, <2>3
<1> QED
  BY <1>1, <1>2

\* A symbol of the merged root has its entry from a side that has the symbol,
\* and so its names and its parameters (merge_symbol_state).
LEMMA SymbolMerged ==
  ASSUME NEW b, NEW t, NEW s, NEW y, NEW m \in MergeSymbol(b, t, s, y), m.entry # {}
  PROVE  /\ \E x \in {t, s} :
              /\ y \in DOMAIN x.defs
              /\ m.entry = {[signature |-> Signature(x.defs[y]), kind |-> x.defs[y].kind,
                             calls |-> x.defs[y].calls]}
         /\ \E x \in {t, s} : y \in DOMAIN x.defs /\ m.names = BindingsOf(x.names, y)
         /\ \E x \in {t, s} : y \in DOMAIN x.defs /\ m.params = x.defs[y].params
         /\ \E x \in {t, s} : m.exports = {e \in x.exports : e.symbol = y}
<1> DEFINE left == SymbolState(t, y)
           right == SymbolState(s, y)
<1>1. m \in ThreeWay(SymbolState(b, y), left, right,
                     MergeSymbolState(SymbolState(b, y), left, right))
  BY DEF MergeSymbol
<1>2. /\ y \in DOMAIN t.defs =>
           /\ left.entry = {[signature |-> Signature(t.defs[y]), kind |-> t.defs[y].kind,
                             calls |-> t.defs[y].calls]}
           /\ left.names = BindingsOf(t.names, y)
           /\ left.params = t.defs[y].params
           /\ left.exports = {e \in t.exports : e.symbol = y}
      /\ left.entry # {} <=> y \in DOMAIN t.defs
      /\ Signatures(left) # {} <=> y \in DOMAIN t.defs
  BY StateOf
<1>3. /\ y \in DOMAIN s.defs =>
           /\ right.entry = {[signature |-> Signature(s.defs[y]), kind |-> s.defs[y].kind,
                              calls |-> s.defs[y].calls]}
           /\ right.names = BindingsOf(s.names, y)
           /\ right.params = s.defs[y].params
           /\ right.exports = {e \in s.exports : e.symbol = y}
      /\ right.entry # {} <=> y \in DOMAIN s.defs
      /\ Signatures(right) # {} <=> y \in DOMAIN s.defs
  BY StateOf
<1> HIDE DEF left, right
<1>4. \/ m = left
      \/ m = right
      \/ /\ Signatures(left) = Signatures(right)
         /\ m.entry \in {left.entry, right.entry}
         /\ m.names \in {left.names, right.names}
         /\ m.params \in {left.params, right.params}
         /\ m.exports \in {left.exports, right.exports}
  BY <1>1, FacetsMerged
<1>5. CASE m = left
  BY <1>2, <1>5
<1>6. CASE m = right
  BY <1>3, <1>6
<1>7. CASE /\ Signatures(left) = Signatures(right)
           /\ m.entry \in {left.entry, right.entry}
           /\ m.names \in {left.names, right.names}
           /\ m.params \in {left.params, right.params}
           /\ m.exports \in {left.exports, right.exports}
  <2>1. y \in DOMAIN t.defs /\ y \in DOMAIN s.defs
    BY <1>2, <1>3, <1>7
  <2> QED
    BY <1>2, <1>3, <1>7, <2>1
<1> QED
  BY <1>4, <1>5, <1>6, <1>7

\* The merged states of the symbols, of which the root has those with an entry.
AllSymbols(b, t, s) == DOMAIN b.defs \cup DOMAIN t.defs \cup DOMAIN s.defs
AreStates(m, b, t, s, r) ==
  /\ \A y \in AllSymbols(b, t, s) : m[y] \in MergeSymbol(b, t, s, y)
  /\ DOMAIN r.defs = {y \in AllSymbols(b, t, s) : m[y].entry # {}}
  /\ r.defs = [y \in DOMAIN r.defs |-> r.defs[y]]
  /\ \A y \in DOMAIN r.defs : \E e \in m[y].entry :
       r.defs[y] = [kind |-> e.kind, params |-> m[y].params, calls |-> e.calls]
  /\ r.names = UNION {m[y].names : y \in DOMAIN r.defs}
  /\ r.exports = UNION {m[y].exports : y \in DOMAIN r.defs}
  /\ r.tests \in ThreeWay(b.tests, t.tests, s.tests, {})
  /\ r.listed \in ThreeWay(b.listed, t.listed, s.listed, {})

\* The merged root, part by part.
LEMMA MergedParts ==
  ASSUME NEW b, NEW t, NEW s, NEW r \in MergeRoots(b, t, s)
  PROVE  /\ r = [defs |-> r.defs, names |-> r.names, exports |-> r.exports,
                 tests |-> r.tests, listed |-> r.listed]
         /\ r.tests \in {t.tests, s.tests} /\ r.listed \in {t.listed, s.listed}
         /\ OneSymbol(r) /\ OneExport(r)
         /\ \E m : AreStates(m, b, t, s, r)
<1> DEFINE symbols == AllSymbols(b, t, s)
           merged(y) == MergeSymbol(b, t, s, y)
           m == [y \in symbols |-> CHOOSE x \in merged(y) : TRUE]
           present == {y \in DOMAIN m : m[y].entry # {}}
           entry(y) == CHOOSE e \in m[y].entry : TRUE
           D == [y \in present |-> [kind |-> entry(y).kind, params |-> m[y].params, calls |-> entry(y).calls]]
           N == UNION {m[y].names : y \in present}
           X == UNION {m[y].exports : y \in present}
<1>1. /\ \A y \in symbols : merged(y) # {}
      /\ OneSymbol(r) /\ OneExport(r)
      /\ \E tests \in ThreeWay(b.tests, t.tests, s.tests, {}), l \in ThreeWay(b.listed, t.listed, s.listed, {}) :
           r = Assembled(m, tests, l)
  <2>1. MergeRoots(b, t, s) =
          IF \E y \in symbols : merged(y) = {} THEN {}
          ELSE {q \in {Assembled(m, tests, l) : tests \in ThreeWay(b.tests, t.tests, s.tests, {}),
                                                l \in ThreeWay(b.listed, t.listed, s.listed, {})} :
                  OneSymbol(q) /\ OneExport(q)}
    BY DEF MergeRoots, AllSymbols
  <2> HIDE DEF symbols, merged, m
  <2> QED
    BY <2>1
<1>2. PICK tests \in ThreeWay(b.tests, t.tests, s.tests, {}), l \in ThreeWay(b.listed, t.listed, s.listed, {}) :
         r = Assembled(m, tests, l)
  BY <1>1
<1>3. \A y \in symbols : m[y] \in merged(y)
  BY <1>1
<1>4. DOMAIN m = symbols
  OBVIOUS
<1>5. tests \in {t.tests, s.tests} /\ l \in {t.listed, s.listed}
  BY DEF ThreeWay
<1> HIDE DEF m, merged, symbols
<1>6. r = [defs |-> D, names |-> N, exports |-> X, tests |-> tests, listed |-> l]
  BY <1>2 DEF Assembled
<1>7. \A y \in present : m[y] \in merged(y) /\ m[y].entry # {} /\ entry(y) \in m[y].entry
  BY <1>3, <1>4
<1>8. present = {y \in symbols : m[y].entry # {}}
  BY <1>4
<1> HIDE DEF entry, present
<1>9. /\ DOMAIN D = present
      /\ \A y \in present :
           D[y] = [kind |-> entry(y).kind, params |-> m[y].params, calls |-> entry(y).calls]
  OBVIOUS
<1>10. D = [y \in DOMAIN D |-> D[y]]
  OBVIOUS
<1> HIDE DEF D, N, X
<1>11. r.defs = D /\ r.names = N /\ r.exports = X /\ r.tests = tests /\ r.listed = l
  BY <1>6
<1>12. AreStates(m, b, t, s, r)
  BY <1>3, <1>7, <1>9, <1>11, <1>8, <1>10 DEF N, X, merged, symbols, AreStates
<1> QED
  BY <1>1, <1>5, <1>6, <1>11, <1>12

\* If both sides are sound and the merged root checks, it is sound
\* (merge_root_payloads, validate_name_conflicts).
LEMMA MergedSound ==
  ASSUME NEW b, NEW t, NEW s, NEW n, RootInv(t, n), RootInv(s, n),
         NEW r \in MergeRoots(b, t, s), Storable(r), TypeChecks(r)
  PROVE  RootInv(r, n)
<1>1. /\ r = [defs |-> r.defs, names |-> r.names, exports |-> r.exports,
              tests |-> r.tests, listed |-> r.listed]
      /\ r.tests \in {t.tests, s.tests} /\ r.listed \in {t.listed, s.listed}
      /\ OneSymbol(r)
  BY MergedParts
<1>2. PICK m : AreStates(m, b, t, s, r)
  BY MergedParts
<1>3. \A x \in {t, s} :
        /\ IsRoot(x) /\ UniqueNames(x) /\ LiveNames(x) /\ OnePreferred(x) /\ OneModule(x)
        /\ Numbered(x, n) /\ CallsBorn(x)
  BY DEF RootInv, ShapeInv, NamesIdentify
<1>4. ASSUME NEW y \in DOMAIN r.defs
      PROVE  /\ \E x \in {t, s} : y \in DOMAIN x.defs /\ m[y].names = BindingsOf(x.names, y)
             /\ \E x \in {t, s} : m[y].exports = {e \in x.exports : e.symbol = y}
             /\ \E x \in {t, s} : y \in DOMAIN x.defs /\ r.defs[y].params = x.defs[y].params
             /\ \E x \in {t, s} :
                  /\ y \in DOMAIN x.defs
                  /\ r.defs[y].kind = x.defs[y].kind /\ r.defs[y].calls = x.defs[y].calls
             /\ r.defs[y] = [kind |-> r.defs[y].kind, params |-> r.defs[y].params, calls |-> r.defs[y].calls]
  <2>1. m[y] \in MergeSymbol(b, t, s, y) /\ m[y].entry # {}
    BY <1>2 DEF AreStates
  <2>2. PICK e \in m[y].entry : r.defs[y] = [kind |-> e.kind, params |-> m[y].params, calls |-> e.calls]
    BY <1>2 DEF AreStates
  <2>3. /\ r.defs[y].kind = e.kind /\ r.defs[y].params = m[y].params /\ r.defs[y].calls = e.calls
        /\ r.defs[y] = [kind |-> r.defs[y].kind, params |-> r.defs[y].params, calls |-> r.defs[y].calls]
    BY <2>2
  <2>4. /\ \E x \in {t, s} :
             /\ y \in DOMAIN x.defs
             /\ m[y].entry = {[signature |-> Signature(x.defs[y]), kind |-> x.defs[y].kind,
                               calls |-> x.defs[y].calls]}
        /\ \E x \in {t, s} : y \in DOMAIN x.defs /\ m[y].names = BindingsOf(x.names, y)
        /\ \E x \in {t, s} : y \in DOMAIN x.defs /\ m[y].params = x.defs[y].params
        /\ \E x \in {t, s} : m[y].exports = {f \in x.exports : f.symbol = y}
    BY <2>1, SymbolMerged
  <2>5. \E x \in {t, s} : y \in DOMAIN x.defs /\ e.kind = x.defs[y].kind /\ e.calls = x.defs[y].calls
    BY <2>4
  <2> QED
    BY <2>3, <2>4, <2>5
<1>5. ASSUME NEW c \in r.names
      PROVE  /\ c.symbol \in DOMAIN r.defs
             /\ \E x \in {t, s} :
                  /\ c.symbol \in DOMAIN x.defs /\ c \in x.names
                  /\ \A d : (d \in r.names /\ d.symbol = c.symbol) <=> d \in BindingsOf(x.names, c.symbol)
  <2>1. \A d \in r.names : d.symbol \in DOMAIN r.defs /\ d \in m[d.symbol].names
    <3>1. SUFFICES ASSUME NEW y \in DOMAIN r.defs, NEW d \in m[y].names PROVE d.symbol = y
      BY <1>2 DEF AreStates
    <3>2. PICK x \in {t, s} : m[y].names = BindingsOf(x.names, y)
      BY <1>4
    <3> QED
      BY <3>1, <3>2 DEF BindingsOf
  <2>2. PICK x \in {t, s} : c.symbol \in DOMAIN x.defs /\ m[c.symbol].names = BindingsOf(x.names, c.symbol)
    BY <1>4, <2>1
  <2>3. \A d \in BindingsOf(x.names, c.symbol) : d \in r.names /\ d.symbol = c.symbol
    BY <1>2, <2>1, <2>2 DEF BindingsOf, AreStates
  <2> QED
    BY <2>1, <2>2, <2>3 DEF BindingsOf
<1>6. NamesIdentify(r)
  <2>1. UniqueNames(r)
    <3>1. SUFFICES ASSUME NEW c \in r.names, NEW d \in r.names, c.module = d.module, c.name = d.name
                   PROVE  c = d
      BY DEF UniqueNames
    <3>2. d.symbol = c.symbol
      BY <1>1, <3>1 DEF OneSymbol
    <3>3. \E x \in {t, s} : c \in x.names /\ d \in x.names
      BY <1>5, <3>2 DEF BindingsOf
    <3> QED
      BY <1>3, <3>1, <3>3 DEF UniqueNames
  <2>2. LiveNames(r)
    BY <1>3, <1>5 DEF LiveNames
  <2>3. OnePreferred(r)
    <3>1. ASSUME NEW y \in DOMAIN r.defs, y[1] = "born"
          PROVE  \E c \in r.names : c.symbol = y /\ c.preferred
      <4>1. PICK x \in {t, s} : y \in DOMAIN x.defs /\ m[y].names = BindingsOf(x.names, y)
        BY <1>4
      <4>2. PICK c \in x.names : c.symbol = y /\ c.preferred
        BY <1>3, <3>1, <4>1 DEF OnePreferred
      <4> QED
        BY <1>2, <3>1, <4>1, <4>2 DEF BindingsOf, AreStates
    <3>2. ASSUME NEW c \in r.names, NEW d \in r.names,
                 c.symbol = d.symbol, c.preferred, d.preferred
          PROVE  c = d
      <4>1. \E x \in {t, s} : c \in x.names /\ d \in x.names
        BY <1>5, <3>2 DEF BindingsOf
      <4> QED
        BY <1>3, <3>2, <4>1 DEF OnePreferred
    <3> QED
      BY <3>1, <3>2 DEF OnePreferred
  <2>4. OneModule(r)
    <3>1. SUFFICES ASSUME NEW c \in r.names, NEW d \in r.names, c.symbol = d.symbol
                   PROVE  c.module = d.module
      BY DEF OneModule
    <3>2. \E x \in {t, s} : c \in x.names /\ d \in x.names
      BY <1>5, <3>1 DEF BindingsOf
    <3> QED
      BY <1>3, <3>1, <3>2 DEF OneModule
  <2> QED
    BY <2>1, <2>2, <2>3, <2>4 DEF NamesIdentify
<1>7. IsRoot(r)
  <2>1. \A y \in DOMAIN r.defs : y \in Symbol /\ r.defs[y] \in Definition
    <3>1. SUFFICES ASSUME NEW y \in DOMAIN r.defs PROVE y \in Symbol /\ r.defs[y] \in Definition
      OBVIOUS
    <3>2. \A x \in {t, s} : y \in DOMAIN x.defs => y \in Symbol /\ x.defs[y] \in Definition
      BY <1>3 DEF IsRoot
    <3>3. \A x \in {t, s} : y \in DOMAIN x.defs =>
            x.defs[y].kind \in Kinds /\ x.defs[y].params \in Seq(ParamNames) /\ x.defs[y].calls \subseteq Call
      BY <3>2 DEF Definition
    <3>4. r.defs[y].kind \in Kinds /\ r.defs[y].params \in Seq(ParamNames) /\ r.defs[y].calls \subseteq Call
      BY <1>4, <3>3
    <3>5. r.defs[y] \in Definition
      <4>1. r.defs[y] = [kind |-> r.defs[y].kind, params |-> r.defs[y].params, calls |-> r.defs[y].calls]
        BY <1>4
      <4> QED
        BY <3>4, <4>1 DEF Definition
    <3> QED
      BY <1>4, <3>2, <3>5
  <2>2. r.names \subseteq Binding
    BY <1>3, <1>5 DEF IsRoot
  <2>3. r.exports \subseteq [name : ExportNames, symbol : Symbol]
    <3>1. \A y \in DOMAIN r.defs : m[y].exports \subseteq t.exports \cup s.exports
      BY <1>4
    <3> QED
      BY <1>2, <1>3, <3>1 DEF IsRoot, AreStates
  <2>4. r.tests \subseteq [name : TestNames, case : Case] /\ r.listed \subseteq Modules
    BY <1>1, <1>3 DEF IsRoot
  <2>5. r.defs \in [DOMAIN r.defs -> Definition]
    <3>1. r.defs = [y \in DOMAIN r.defs |-> r.defs[y]]
      BY <1>2 DEF AreStates
    <3> QED
      BY <2>1, <3>1
  <2> QED
    BY <1>1, <2>1, <2>2, <2>3, <2>4, <2>5 DEF IsRoot
<1>8. Numbered(r, n)
  BY <1>3, <1>4 DEF Numbered
<1>9. CallsBorn(r)
  <2>1. SUFFICES ASSUME NEW y \in DOMAIN r.defs, NEW c \in r.defs[y].calls PROVE c.callee[1] = "born"
    BY DEF CallsBorn
  <2>2. PICK x \in {t, s} : y \in DOMAIN x.defs /\ r.defs[y].calls = x.defs[y].calls
    BY <1>4
  <2> QED
    BY <1>3, <2>1, <2>2 DEF CallsBorn
<1> QED
  BY <1>6, <1>7, <1>8, <1>9 DEF RootInv, ShapeInv

\* The merge that is recorded keeps the chains lawful (put_migration).
LEMMA MergeLawful ==
  ASSUME NEW C, NEW keys, Lawful(C, keys), NEW c \in C, NEW x,
         x.op.op = "merge_branch", x.root = x.op.merged, x.op.ancestor \in 1 .. Len(c) + 1,
         RootInv(x.root, Len(keys))
  PROVE  Lawful(C \cup {Append(c, x)}, keys)
<1> DEFINE d == Append(c, x)
<1>1. /\ KeysDiffer(keys) /\ MigrationsMade(C, keys)
      /\ IsSeq(keys) /\ IsSeq(c) /\ \A e \in C : IsSeq(e)
  BY DEF Lawful, RootsSound, KeysDiffer
<1>2. KeysGrow(c, keys, keys)
  <2>1. Len(keys) \in Nat
    BY <1>1 DEF IsSeq
  <2> QED
    BY <1>1, <2>1 DEF KeysGrow
<1>3. d[Len(c) + 1] = x
  BY <1>1, Appended
<1>4. AsElsewhere(C, c, x)
  BY <1>1 DEF AsElsewhere, MigrationsMade, MadeBy
<1> HIDE DEF d
<1>5. MadeBy(d, Len(c) + 1, keys)
  BY <1>3 DEF MadeBy
<1> QED
  BY <1>2, <1>4, <1>5, Extended DEF d

\* What an accepted operation makes of a chain can take its place among the
\* others.
LEMMA AppliedLawful ==
  ASSUME NEW C, NEW m, Lawful(C, m.born), m.chain \in C, NEW op \in EditOps(RootOf(m.chain)),
         NEW q \in Applied(m, op),
         NEW D, D \subseteq C \cup {q.chain}, q.chain \in D, C \ {m.chain} \subseteq D
  PROVE  Lawful(D, q.born)
<1> DEFINE c == m.chain
           n == BornBefore(m.born, c, op)
<1>1. PICK r \in Accepted(RootOf(c), n, op) :
         q = [chain |-> Append(c, Item(op, r, n)), born |-> Registered(m.born, c, op)]
  BY DEF Applied
<1>2. q.chain = Append(c, Item(op, r, n)) /\ q.born = Registered(m.born, c, op)
  BY <1>1
<1> HIDE DEF n
<1>3. Lawful(C \cup {Append(c, Item(op, r, n))}, q.born)
  BY <1>2, EditLawful DEF n
<1>4. IsSeq(c)
  BY DEF Lawful, RootsSound
<1> DEFINE x == Item(op, r, n)
<1> HIDE DEF x
<1>5. Lawful(C \cup {Append(c, x)}, q.born) /\ q.chain = Append(c, x)
  BY <1>2, <1>3 DEF x
<1> QED
  BY <1>4, <1>5, Replaced

-----------------------------------------------------------------------------
\* The common ancestor.

\* The points of a chain are the roots that its branch was at.
LEMMA PointsOf ==
  ASSUME NEW c, IsSeq(c)
  PROVE  /\ Len(c) \in Nat
         /\ DOMAIN Points(c) = 1 .. Len(c) + 1
         /\ Len(Points(c)) = Len(c) + 1
         /\ \A i \in 1 .. Len(c) + 1 : Points(c)[i] = RootAt(c, i - 1)
<1> DEFINE roots == [i \in DOMAIN c |-> c[i].root]
           S == {c[i].root : i \in DOMAIN c} \cup {EmptyRoot}
<1>1. Len(c) \in Nat /\ DOMAIN c = 1 .. Len(c)
  BY DEF IsSeq
<1>2. /\ roots \in Seq(S) /\ Len(roots) = Len(c)
      /\ \A i \in 1 .. Len(c) : roots[i] = c[i].root
  BY <1>1
<1>3. <<EmptyRoot>> \in Seq(S) /\ Len(<<EmptyRoot>>) = 1 /\ <<EmptyRoot>>[1] = EmptyRoot
  OBVIOUS
<1> HIDE DEF roots, S
<1> DEFINE all == <<EmptyRoot>> \o roots
<1>4. /\ DOMAIN all = 1 .. Len(c) + 1 /\ Len(all) = Len(c) + 1
      /\ all[1] = EmptyRoot
      /\ \A i \in 2 .. Len(c) + 1 : all[i] = roots[i - 1]
  BY <1>1, <1>2, <1>3
<1>5. Points(c) = all
  BY DEF Points, roots
<1> HIDE DEF all
<1>6. \A i \in 1 .. Len(c) + 1 : all[i] = RootAt(c, i - 1)
  <2>1. SUFFICES ASSUME NEW i \in 1 .. Len(c) + 1 PROVE all[i] = RootAt(c, i - 1)
    OBVIOUS
  <2>2. CASE i = 1
    BY <1>4, <2>2 DEF RootAt
  <2>3. CASE i # 1
    BY <1>1, <1>2, <1>4, <2>3 DEF RootAt
  <2> QED
    BY <2>2, <2>3
<1> QED
  BY <1>1, <1>4, <1>5, <1>6

\* Of the shared points there is a best one: of those with the largest sum one
\* that is earliest on the target.
LEMMA BestPoint ==
  ASSUME NEW m \in Nat, NEW n \in Nat, NEW P, P \subseteq (1 .. m) \X (1 .. n), P # {}
  PROVE  \E p \in P : \A q \in P : Before(p, q)
<1>1. \A p \in P : p[1] \in 1 .. m /\ p[2] \in 1 .. n
  OBVIOUS
<1> DEFINE T == {(m + n) - (p[1] + p[2]) : p \in P}
<1>2. T \in SUBSET Nat /\ T # {}
  BY <1>1
<1> HIDE DEF T
<1>3. PICK x \in T : \A y \in T : x <= y
  BY <1>2, LeastElement
<1>4. PICK p \in P : x = (m + n) - (p[1] + p[2])
  BY DEF T
<1>5. \A q \in P : q[1] + q[2] <= p[1] + p[2]
  <2>1. SUFFICES ASSUME NEW q \in P PROVE q[1] + q[2] <= p[1] + p[2]
    OBVIOUS
  <2>2. (m + n) - (q[1] + q[2]) \in T
    BY DEF T
  <2>3. x <= (m + n) - (q[1] + q[2])
    BY <1>3, <2>2
  <2> QED
    BY <1>1, <1>4, <2>3
<1> DEFINE U == {q[1] : q \in {q \in P : q[1] + q[2] = p[1] + p[2]}}
<1>6. U \in SUBSET Nat /\ U # {}
  BY <1>1
<1> HIDE DEF U
<1>7. PICK u \in U : \A v \in U : u <= v
  BY <1>6, LeastElement
<1>8. PICK q \in P : u = q[1] /\ q[1] + q[2] = p[1] + p[2]
  BY DEF U
<1>9. \A o \in P : Before(q, o)
  <2>1. SUFFICES ASSUME NEW o \in P PROVE Before(q, o)
    OBVIOUS
  <2>2. o[1] + o[2] <= q[1] + q[2]
    BY <1>5, <1>8
  <2>3. o[1] + o[2] = q[1] + q[2] => o[1] \in U
    BY <1>8 DEF U
  <2>4. o[1] + o[2] = q[1] + q[2] => q[1] <= o[1]
    BY <1>7, <1>8, <2>3
  <2> QED
    BY <1>1, <2>2, <2>4 DEF Before
<1> QED
  BY <1>9

\* The common ancestor is that one: the chains share the empty root.
LEMMA AncestorIsBest ==
  ASSUME NEW c, IsSeq(c), NEW d, IsSeq(d), NEW p, p = CommonAncestor(c, d)
  PROVE  /\ p \in SharedPoints(c, d)
         /\ \A q \in SharedPoints(c, d) : Before(p, q)
         /\ \A q \in SharedPoints(c, d) :
              /\ q[1] \in 1 .. Len(c) + 1 /\ q[2] \in 1 .. Len(d) + 1
              /\ Points(c)[q[1]] = Points(d)[q[2]]
         /\ Len(c) \in Nat /\ Len(d) \in Nat
<1> DEFINE P == SharedPoints(c, d)
<1>1. /\ Len(c) \in Nat /\ Len(d) \in Nat
      /\ DOMAIN Points(c) = 1 .. Len(c) + 1 /\ DOMAIN Points(d) = 1 .. Len(d) + 1
      /\ Points(c)[1] = EmptyRoot /\ Points(d)[1] = EmptyRoot
  <2>1. /\ Len(c) \in Nat /\ DOMAIN Points(c) = 1 .. Len(c) + 1
        /\ \A i \in 1 .. Len(c) + 1 : Points(c)[i] = RootAt(c, i - 1)
    BY PointsOf
  <2>2. /\ Len(d) \in Nat /\ DOMAIN Points(d) = 1 .. Len(d) + 1
        /\ \A i \in 1 .. Len(d) + 1 : Points(d)[i] = RootAt(d, i - 1)
    BY PointsOf
  <2> QED
    BY <2>1, <2>2 DEF RootAt
<1>2. /\ P \subseteq (1 .. Len(c) + 1) \X (1 .. Len(d) + 1)
      /\ \A q \in P : Points(c)[q[1]] = Points(d)[q[2]]
  BY <1>1 DEF SharedPoints
<1>3. <<1, 1>> \in P
  BY <1>1 DEF SharedPoints
<1> HIDE DEF P
<1>4. \E q \in P : \A o \in P : Before(q, o)
  <2>1. Len(c) + 1 \in Nat /\ Len(d) + 1 \in Nat /\ P # {}
    BY <1>1, <1>3
  <2> QED
    BY <1>2, <2>1, BestPoint
<1>5. p = CHOOSE q \in P : \A o \in P : Before(q, o)
  BY DEF CommonAncestor, P
<1>6. p \in P /\ \A q \in P : Before(p, q)
  BY <1>4, <1>5
<1>7. \A q \in P : q[1] \in 1 .. Len(c) + 1 /\ q[2] \in 1 .. Len(d) + 1
  BY <1>2
<1> QED
  BY <1>1, <1>2, <1>6, <1>7 DEF P

\* Where the shared points are in order, both sides find the same ancestor.
LEMMA SameAncestor ==
  ASSUME NEW c, IsSeq(c), NEW d, IsSeq(d), InOrder(c, d)
  PROVE  Points(c)[CommonAncestor(c, d)[1]] = Points(d)[CommonAncestor(d, c)[1]]
<1> DEFINE p == CommonAncestor(c, d)
           q == CommonAncestor(d, c)
           P == SharedPoints(c, d)
           Q == SharedPoints(d, c)
<1>1. /\ p \in P /\ \A o \in P : Before(p, o)
      /\ \A o \in P : /\ o[1] \in 1 .. Len(c) + 1 /\ o[2] \in 1 .. Len(d) + 1
                      /\ Points(c)[o[1]] = Points(d)[o[2]]
      /\ Len(c) \in Nat /\ Len(d) \in Nat
  BY AncestorIsBest
<1>2. /\ q \in Q /\ \A o \in Q : Before(q, o)
      /\ \A o \in Q : o[1] \in 1 .. Len(d) + 1 /\ o[2] \in 1 .. Len(c) + 1
  BY AncestorIsBest
<1>3. <<q[2], q[1]>> \in P /\ <<p[2], p[1]>> \in Q
  BY <1>1, <1>2 DEF SharedPoints
<1>4. \A x, y \in P : x[1] < y[1] <=> x[2] < y[2]
  BY DEF InOrder
<1> HIDE DEF p, q, P, Q
<1> DEFINE o == <<q[2], q[1]>>
<1>5. o[1] = q[2] /\ o[2] = q[1] /\ o \in P
  BY <1>3
<1>6. p[1] + p[2] = o[1] + o[2]
  <2>1. Before(p, o)
    BY <1>1, <1>5
  <2>2. Before(q, <<p[2], p[1]>>)
    BY <1>2, <1>3
  <2> QED
    BY <1>1, <1>2, <1>5, <2>1, <2>2 DEF Before
<1>7. (p[1] < o[1] <=> p[2] < o[2]) /\ (o[1] < p[1] <=> o[2] < p[2])
  BY <1>1, <1>4, <1>5
<1>8. p[2] = q[1]
  <2>1. p[1] \in Nat /\ p[2] \in Nat /\ o[1] \in Nat /\ o[2] \in Nat
    BY <1>1, <1>5
  <2> QED
    BY <1>5, <1>6, <1>7, <2>1
<1>9. Points(c)[p[1]] = Points(d)[q[1]]
  BY <1>1, <1>8
<1> QED
  BY <1>9 DEF p, q

-----------------------------------------------------------------------------
\* The invariant.

\* Building the start, operation by operation.
LEMMA BuiltRuns ==
  ASSUME NEW ops, Len(ops) \in Nat
  PROVE  \E made :
           /\ made[0] = {[chain |-> <<>>, born |-> <<>>]}
           /\ \A n \in 1 .. Len(ops) : made[n] = UNION {Applied(m, ops[n]) : m \in made[n - 1]}
           /\ Built(ops) = made[Len(ops)]
<1> DEFINE N == Len(ops)
           first == {[chain |-> <<>>, born |-> <<>>]}
           Upto(k, f) == [n \in 0 .. k |-> IF n = 0 THEN first
                                           ELSE UNION {Applied(m, ops[n]) : m \in f[n - 1]}]
           made == CHOOSE f : f = Upto(N, f)
           S == {k \in 0 .. N : \E f : f = Upto(k, f)}
<1>1. 0 \in S
  <2> DEFINE f == [n \in 0 .. 0 |-> first]
  <2>1. f = Upto(0, f)
    OBVIOUS
  <2>2. 0 \in 0 .. N
    OBVIOUS
  <2> HIDE DEF f, Upto, N
  <2> QED
    BY <2>1, <2>2
<1>2. \A k \in 1 .. N : k - 1 \in S => k \in S
  <2> SUFFICES ASSUME NEW k \in 1 .. N, k - 1 \in S PROVE k \in S
    OBVIOUS
  <2>1. PICK f : f = Upto(k - 1, f)
    OBVIOUS
  <2> DEFINE last == UNION {Applied(m, ops[k]) : m \in f[k - 1]}
             g == [n \in 0 .. k |-> IF n = k THEN last ELSE f[n]]
  <2>2. \A n \in 0 .. k - 1 : g[n] = f[n]
    OBVIOUS
  <2>3. g[k] = last
    OBVIOUS
  <2> HIDE DEF last
  <2>4. \A n \in 0 .. k : g[n] = Upto(k, g)[n]
    <3> SUFFICES ASSUME NEW n \in 0 .. k PROVE g[n] = Upto(k, g)[n]
      OBVIOUS
    <3>1. CASE n = 0
      BY <2>1, <2>2, <3>1
    <3>2. CASE n \in 1 .. k - 1
      <4>1. g[n - 1] = f[n - 1] /\ g[n] = f[n]
        BY <2>2, <3>2
      <4>2. f[n] = UNION {Applied(m, ops[n]) : m \in f[n - 1]}
        BY <2>1, <3>2
      <4> HIDE DEF g
      <4> QED
        BY <3>2, <4>1, <4>2
    <3>3. CASE n = k
      <4>1. k # 0 /\ g[k - 1] = f[k - 1] /\ k \in 0 .. k
        BY <2>2
      <4> HIDE DEF g
      <4>2. Upto(k, g)[k] = UNION {Applied(m, ops[k]) : m \in g[k - 1]}
        BY <4>1
      <4> QED
        BY <2>3, <3>3, <4>1, <4>2 DEF last
    <3> QED
      BY <3>1, <3>2, <3>3
  <2>5. g = Upto(k, g)
    BY <2>4
  <2> HIDE DEF g, Upto
  <2> QED
    BY <2>5
<1>3. N \in S
  <2>1. N \in Nat
    OBVIOUS
  <2> HIDE DEF S, N, first, Upto, made
  <2>2. \A k \in 0 .. N : k \in S
    BY <1>1, <1>2, <2>1, BoundedInduction
  <2> QED
    BY <2>1, <2>2
<1>4. made = Upto(N, made)
  <2> HIDE DEF Upto
  <2> QED
    BY <1>3
<1>5. Built(ops) = made[N]
  BY DEF Built
<1> HIDE DEF made
<1>6. made[0] = first
  BY <1>4
<1>7. ASSUME NEW n \in 1 .. N
      PROVE  made[n] = UNION {Applied(m, ops[n]) : m \in made[n - 1]}
  <2>1. n # 0 /\ n \in 0 .. N
    OBVIOUS
  <2> QED
    BY <1>4, <2>1
<1> QED
  BY <1>5, <1>6, <1>7

\* A branch on which nothing has happened.
LEMMA NothingLawful == Lawful({<<>>}, <<>>)
<1>1. IsSeq(<<>>) /\ Len(<<>>) = 0 /\ DOMAIN <<>> = {}
  <2>1. <<>> \in Seq(Items(<<>>))
    OBVIOUS
  <2> QED
    BY <2>1 DEF IsSeq
<1> DEFINE c == <<>>
<1>2. IsSeq(c) /\ Len(c) = 0 /\ DOMAIN c = {}
  BY <1>1
<1> HIDE DEF c
<1>3. \A i \in 0 .. Len(c) : i = 0 /\ RootAt(c, i) = EmptyRoot
  BY <1>2 DEF RootAt
<1>4. RootInv(EmptyRoot, 0)
  BY EmptyRootInv
<1>5. KeysDiffer(c) /\ RootsSound({c}, c) /\ MigrationsMade({c}, c) /\ HistoriesDecide({c})
      /\ BornOnOlder({c}, c)
  BY <1>2, <1>3, <1>4 DEF KeysDiffer, RootsSound, MigrationsMade, HistoriesDecide, BornOnOlder
<1> QED
  BY <1>5 DEF Lawful, c

\* The chain that the branches start with is lawful.
LEMMA BuiltLawful ==
  ASSUME NEW ops \in Starts, NEW m \in Built(ops)
  PROVE  Lawful({m.chain}, m.born)
<1>1. /\ ops \in Seq(CreateFunctionOps) /\ Len(ops) \in Nat
      /\ \A n \in 1 .. Len(ops) : ops[n] \in CreateFunctionOps
  BY StartsAssumption
<1>2. PICK made :
        /\ made[0] = {[chain |-> <<>>, born |-> <<>>]}
        /\ \A n \in 1 .. Len(ops) : made[n] = UNION {Applied(q, ops[n]) : q \in made[n - 1]}
        /\ Built(ops) = made[Len(ops)]
  BY <1>1, BuiltRuns
<1> DEFINE N == Len(ops)
           Good(q) == Lawful({q.chain}, q.born)
           S == {k \in Nat : \A q \in made[k] : Good(q)}
<1>3. 0 \in S
  <2>1. \A q \in made[0] : q.chain = <<>> /\ q.born = <<>>
    BY <1>2
  <2>2. \A q \in made[0] : Good(q)
    BY <2>1, NothingLawful
  <2> QED
    BY <2>2
<1>4. \A k \in 1 .. N : k - 1 \in S => k \in S
  <2> SUFFICES ASSUME NEW k \in 1 .. N, k - 1 \in S PROVE k \in S
    OBVIOUS
  <2> HIDE DEF Good
  <2> SUFFICES ASSUME NEW q \in made[k] PROVE Good(q)
    BY <1>1
  <2>1. PICK p \in made[k - 1] : q \in Applied(p, ops[k])
    BY <1>2
  <2>2. Lawful({p.chain}, p.born)
    BY <2>1 DEF Good
  <2>3. ops[k] \in EditOps(RootOf(p.chain))
    BY <1>1 DEF EditOps
  <2> DEFINE C == {p.chain}
             D == {q.chain}
  <2>4. /\ Lawful(C, p.born) /\ p.chain \in C /\ q.chain \in D
        /\ D \subseteq C \cup {q.chain} /\ C \ {p.chain} \subseteq D
    BY <2>2
  <2> HIDE DEF C, D, N, S
  <2>5. Lawful(D, q.born)
    BY <2>1, <2>3, <2>4, AppliedLawful
  <2> QED
    BY <2>5 DEF D, Good
<1>5. N \in S
  <2> HIDE DEF S, N
  <2>1. \A k \in 0 .. N : k \in S
    BY <1>1, <1>3, <1>4, BoundedInduction DEF N
  <2> QED
    BY <1>1, <2>1 DEF N
<1> QED
  BY <1>2, <1>5

\* Where the branches fork their chains are lawful.
LEMMA InitInv == Init => Inv
<1> SUFFICES ASSUME Init PROVE Inv
  OBVIOUS
<1>1. PICK ops \in Starts : \E m \in Built(ops) :
         chain = [b \in Branches |-> m.chain] /\ born = m.born
  BY DEF Init
<1>2. PICK m \in Built(ops) : chain = [b \in Branches |-> m.chain] /\ born = m.born
  BY <1>1
<1>3. \A b \in Branches : chain[b] = m.chain
  BY <1>2
<1>4. Chains = {m.chain}
  BY <1>3, BranchesAssumption DEF Chains
<1>5. chain \in [Branches -> Chains]
  BY <1>2, <1>4
<1>6. Lawful({m.chain}, m.born)
  BY BuiltLawful
<1> QED
  BY <1>2, <1>4, <1>5, <1>6 DEF Inv

\* Replacing the chain of a branch.
LEMMA OneChain ==
  ASSUME chain \in [Branches -> Chains], NEW b \in Branches, NEW d,
         chain' = [chain EXCEPT ![b] = d]
  PROVE  /\ Chains' \subseteq Chains \cup {d}
         /\ d \in Chains'
         /\ Chains \ {chain[b]} \subseteq Chains'
         /\ chain' \in [Branches -> Chains']
<1>1. /\ \A a \in Branches : chain'[a] = IF a = b THEN d ELSE chain[a]
      /\ DOMAIN chain' = Branches
      /\ chain' = [a \in Branches |-> chain'[a]]
  OBVIOUS
<1>2. Chains' = {chain'[a] : a \in Branches} /\ Chains = {chain[a] : a \in Branches}
  BY DEF Chains
<1>3. /\ Chains' \subseteq Chains \cup {d}
      /\ d \in Chains'
      /\ Chains \ {chain[b]} \subseteq Chains'
  BY <1>1, <1>2
<1>4. \A a \in Branches : chain'[a] \in Chains'
  BY <1>2
<1>5. chain' \in [Branches -> Chains']
  BY <1>1, <1>4
<1> QED
  BY <1>3, <1>5

\* Edits and merges keep them so (commit_apply_operation, merge_branches).
LEMMA NextInv == Inv /\ [Next]_vars => Inv'
<1> SUFFICES ASSUME Inv, [Next]_vars PROVE Inv'
  OBVIOUS
<1>0. chain \in [Branches -> Chains] /\ Lawful(Chains, born)
      /\ \A b \in Branches : chain[b] \in Chains
  BY DEF Inv, Chains
<1>1. CASE UNCHANGED vars
  BY <1>0, <1>1 DEF vars, Inv, Chains
<1>2. ASSUME NEW b \in Branches, ApplyOperation(b)
      PROVE  Inv'
  <2>1. PICK op \in EditOps(Tip(b)) : \E m \in Applied([chain |-> chain[b], born |-> born], op) :
           chain' = [chain EXCEPT ![b] = m.chain] /\ born' = m.born
    BY <1>2 DEF ApplyOperation
  <2> DEFINE p == [chain |-> chain[b], born |-> born]
  <2>2. PICK m \in Applied(p, op) : chain' = [chain EXCEPT ![b] = m.chain] /\ born' = m.born
    BY <2>1
  <2>3. p.chain = chain[b] /\ p.born = born
    OBVIOUS
  <2> HIDE DEF p
  <2>4. /\ Lawful(Chains, p.born) /\ p.chain \in Chains /\ op \in EditOps(RootOf(p.chain))
    BY <1>0, <2>3 DEF Tip
  <2>5. /\ Chains' \subseteq Chains \cup {m.chain}
        /\ m.chain \in Chains'
        /\ Chains \ {p.chain} \subseteq Chains'
        /\ chain' \in [Branches -> Chains']
    BY <1>0, <2>2, <2>3, OneChain
  <2>6. Lawful(Chains', m.born)
    BY <2>4, <2>5, AppliedLawful
  <2> QED
    BY <2>2, <2>5, <2>6 DEF Inv
<1>3. ASSUME NEW t \in Branches, NEW s \in Branches, MergeApply(t, s)
      PROVE  Inv'
  <2>1. PICK q \in Plan(chain[t], chain[s]) : \E r \in Recorded(MergeItem(chain[t], chain[s], q).op) :
           chain' = [chain EXCEPT ![t] = Append(chain[t], MergeItem(chain[t], chain[s], r))]
    BY <1>0, <1>3 DEF MergeApply
  <2>2. PICK r \in Recorded(MergeItem(chain[t], chain[s], q).op) :
           chain' = [chain EXCEPT ![t] = Append(chain[t], MergeItem(chain[t], chain[s], r))]
    BY <2>1
  <2>3. born' = born
    BY <1>3 DEF MergeApply
  <2>4. r = q
    BY <2>2 DEF Recorded, MergeItem, Item, Checked
  <2>5. PICK b : q \in MergeRoots(b, RootOf(chain[t]), RootOf(chain[s])) /\ Storable(q) /\ TypeChecks(q)
    BY <2>1 DEF Plan, Checked
  <2>6. \A c \in Chains : RootInv(RootOf(c), Len(born))
    <3>1. SUFFICES ASSUME NEW c \in Chains PROVE RootInv(RootOf(c), Len(born))
      OBVIOUS
    <3>2. IsSeq(c) /\ \A i \in 0 .. Len(c) : RootInv(RootAt(c, i), Len(born))
      BY <1>0 DEF Lawful, RootsSound
    <3>3. RootOf(c) = RootAt(c, Len(c)) /\ Len(c) \in 0 .. Len(c)
      BY <3>2, Ends
    <3> QED
      BY <3>2, <3>3
  <2>7. RootInv(r, Len(born))
    BY <1>0, <2>4, <2>5, <2>6, MergedSound
  <2> DEFINE x == MergeItem(chain[t], chain[s], r)
             d == Append(chain[t], x)
  <2>8. x.op.op = "merge_branch" /\ x.root = r /\ x.op.merged = r
        /\ x.op.ancestor = CommonAncestor(chain[t], chain[s])[1]
    BY DEF MergeItem, Item
  <2>9. CommonAncestor(chain[t], chain[s])[1] \in 1 .. Len(chain[t]) + 1
    <3>1. IsSeq(chain[t]) /\ IsSeq(chain[s])
      BY <1>0 DEF Lawful, RootsSound
    <3> QED
      BY <3>1, AncestorIsBest
  <2> HIDE DEF x
  <2>10. Lawful(Chains \cup {Append(chain[t], x)}, born)
    BY <1>0, <2>7, <2>8, <2>9, MergeLawful
  <2>11. chain' = [chain EXCEPT ![t] = d]
    BY <2>2 DEF x
  <2>12. IsSeq(chain[t])
    BY <1>0 DEF Lawful, RootsSound
  <2> HIDE DEF d
  <2>13. /\ Chains' \subseteq Chains \cup {d}
         /\ d \in Chains'
         /\ Chains \ {chain[t]} \subseteq Chains'
         /\ chain' \in [Branches -> Chains']
    BY <1>0, <2>11, OneChain
  <2>14. Lawful(Chains', born)
    <3>1. /\ Chains' \subseteq Chains \cup {Append(chain[t], x)}
          /\ Append(chain[t], x) \in Chains'
      BY <2>13 DEF d
    <3> QED
      BY <1>0, <2>10, <2>12, <2>13, <3>1, Replaced
  <2> QED
    BY <2>3, <2>13, <2>14 DEF Inv
<1> QED
  BY <1>1, <1>2, <1>3 DEF Next

\* The chains are lawful at all times.
THEOREM AlwaysLawful == Spec => []Inv
<1> QED
  BY InitInv, NextInv, PTL DEF Spec

\* The chains have their types: every migration holds a root, and the ancestor
\* of a merge is a point of the chain before it.
THEOREM MergeTypeCorrect == Spec => []TypeOK
<1>1. Inv => TypeOK
  <2> SUFFICES ASSUME Inv, NEW b \in Branches
               PROVE  /\ \A i \in DOMAIN chain[b] : IsRoot(chain[b][i].root)
                      /\ \A i \in DOMAIN chain[b] :
                           chain[b][i].op.op = "merge_branch" => chain[b][i].op.ancestor <= i
                      /\ \A s \in DOMAIN Tip(b).defs : s[1] = "born" => s[2] <= Len(born)
    BY DEF TypeOK
  <2> DEFINE c == chain[b]
  <2>1. c \in Chains /\ Lawful(Chains, born)
    BY DEF Inv, Chains
  <2> HIDE DEF c
  <2>2. /\ IsSeq(c) /\ \A i \in 0 .. Len(c) : RootInv(RootAt(c, i), Len(born))
        /\ \A i \in 1 .. Len(c) : MadeBy(c, i, born)
    BY <2>1 DEF Lawful, RootsSound, MigrationsMade
  <2>3. /\ DOMAIN c = 1 .. Len(c) /\ Len(c) \in Nat
        /\ RootOf(c) = RootAt(c, Len(c)) /\ Len(c) \in 0 .. Len(c)
    BY <2>2, Ends DEF IsSeq
  <2>4. ASSUME NEW i \in DOMAIN c PROVE IsRoot(c[i].root)
    <3>1. i \in 0 .. Len(c) /\ RootAt(c, i) = c[i].root
      BY <2>3 DEF RootAt
    <3>2. RootInv(RootAt(c, i), Len(born))
      BY <2>2, <3>1
    <3> QED
      BY <3>1, <3>2 DEF RootInv, ShapeInv
  <2>5. ASSUME NEW i \in DOMAIN c, c[i].op.op = "merge_branch" PROVE c[i].op.ancestor <= i
    <3>1. i \in 1 .. Len(c) /\ i \in Nat
      BY <2>3
    <3>2. MadeBy(c, i, born)
      BY <2>2, <3>1
    <3>3. c[i].op.ancestor \in 1 .. i
      BY <2>5, <3>2 DEF MadeBy
    <3> QED
      BY <3>1, <3>3
  <2>6. Numbered(RootOf(c), Len(born))
    BY <2>2, <2>3 DEF RootInv, ShapeInv
  <2> QED
    BY <2>4, <2>5, <2>6 DEF Tip, Numbered, c
<1> QED
  BY <1>1, AlwaysLawful, PTL

\* Whatever is edited and merged, and in whatever order, the root at the tip of
\* every branch is a program: its names identify, and it checks
\* (merge_root_payloads, validate_name_conflicts, type_check_root).
THEOREM TipsAlwaysSound == Spec => []TipsAreSound
<1>1. Inv => TipsAreSound
  <2> SUFFICES ASSUME Inv, NEW b \in Branches
               PROVE  NamesIdentify(Tip(b)) /\ TypeChecks(Tip(b)) /\ Storable(Tip(b))
    BY DEF TipsAreSound
  <2>1. chain[b] \in Chains /\ Lawful(Chains, born)
    BY DEF Inv, Chains
  <2>2. IsSeq(chain[b]) /\ \A i \in 0 .. Len(chain[b]) : RootInv(RootAt(chain[b], i), Len(born))
    BY <2>1 DEF Lawful, RootsSound
  <2>3. Tip(b) = RootAt(chain[b], Len(chain[b])) /\ Len(chain[b]) \in 0 .. Len(chain[b])
    BY <2>2, Ends DEF Tip
  <2> QED
    BY <2>2, <2>3 DEF RootInv, ShapeInv
<1> QED
  BY <1>1, AlwaysLawful, PTL

-----------------------------------------------------------------------------
\* Either way round.

\* What both sides changed is merged alike from either side.
LEMMA FacetsEitherWay ==
  ASSUME NEW base, NEW left, NEW right
  PROVE  MergeSymbolState(base, left, right) = MergeSymbolState(base, right, left)
<1> DEFINE Clashes(f) == left[f] # base[f] /\ right[f] # base[f] /\ left[f] # right[f]
           Other(f) == right[f] # base[f] /\ left[f] # base[f] /\ right[f] # left[f]
           Kept(side) == Signatures(side) = Signatures(base)
           m == [f \in Facets |-> IF right[f] # base[f] THEN right[f] ELSE left[f]]
           n == [f \in Facets |-> IF left[f] # base[f] THEN left[f] ELSE right[f]]
<1>1. MergeSymbolState(base, left, right) =
        IF Kept(left) /\ Kept(right) /\ ~\E f \in Facets : Clashes(f) THEN {m} ELSE {}
  BY DEF MergeSymbolState
<1>2. MergeSymbolState(base, right, left) =
        IF Kept(right) /\ Kept(left) /\ ~\E f \in Facets : Other(f) THEN {n} ELSE {}
  BY DEF MergeSymbolState
<1>3. \A f \in Facets : Clashes(f) <=> Other(f)
  OBVIOUS
<1>4. ASSUME ~\E f \in Facets : Clashes(f) PROVE m = n
  BY <1>4
<1> HIDE DEF Clashes, Other, Kept, m, n
<1> QED
  BY <1>1, <1>2, <1>3, <1>4

\* A three-way merge of one thing does not depend on the direction when what it
\* falls back on does not.
LEMMA EitherWay ==
  ASSUME NEW base, NEW left, NEW right, NEW x, NEW y, x = y
  PROVE  ThreeWay(base, left, right, x) = ThreeWay(base, right, left, y)
BY DEF ThreeWay

\* The merged root does not depend on which side is the target
\* (plan_conservative_merge).
LEMMA RootsEitherWay ==
  ASSUME NEW b, NEW t, NEW s
  PROVE  MergeRoots(b, t, s) = MergeRoots(b, s, t)
<1>1. \A y : MergeSymbol(b, t, s, y) = MergeSymbol(b, s, t, y)
  <2>1. SUFFICES ASSUME NEW y PROVE MergeSymbol(b, t, s, y) = MergeSymbol(b, s, t, y)
    OBVIOUS
  <2> DEFINE base == SymbolState(b, y)
             left == SymbolState(t, y)
             right == SymbolState(s, y)
  <2>2. /\ MergeSymbol(b, t, s, y) = ThreeWay(base, left, right, MergeSymbolState(base, left, right))
        /\ MergeSymbol(b, s, t, y) = ThreeWay(base, right, left, MergeSymbolState(base, right, left))
    BY DEF MergeSymbol
  <2> HIDE DEF base, left, right
  <2> QED
    BY <2>2, FacetsEitherWay, EitherWay
<1>2. /\ ThreeWay(b.tests, t.tests, s.tests, {}) = ThreeWay(b.tests, s.tests, t.tests, {})
      /\ ThreeWay(b.listed, t.listed, s.listed, {}) = ThreeWay(b.listed, s.listed, t.listed, {})
  BY EitherWay
<1> DEFINE one == DOMAIN b.defs \cup DOMAIN t.defs \cup DOMAIN s.defs
           two == DOMAIN b.defs \cup DOMAIN s.defs \cup DOMAIN t.defs
           m == [y \in one |-> CHOOSE x \in MergeSymbol(b, t, s, y) : TRUE]
           n == [y \in two |-> CHOOSE x \in MergeSymbol(b, s, t, y) : TRUE]
<1>3. one = two
  OBVIOUS
<1> HIDE DEF one, two
<1>4. \A y \in one : (CHOOSE x \in MergeSymbol(b, t, s, y) : TRUE) = (CHOOSE x \in MergeSymbol(b, s, t, y) : TRUE)
  <2>1. SUFFICES ASSUME NEW y
                 PROVE  (CHOOSE x \in MergeSymbol(b, t, s, y) : TRUE) =
                        (CHOOSE x \in MergeSymbol(b, s, t, y) : TRUE)
    OBVIOUS
  <2>2. MergeSymbol(b, t, s, y) = MergeSymbol(b, s, t, y)
    BY <1>1
  <2> QED
    BY <2>2
<1>5. m = n
  BY <1>3, <1>4
<1>6. MergeRoots(b, t, s) =
        IF \E y \in one : MergeSymbol(b, t, s, y) = {} THEN {}
        ELSE {r \in {Assembled(m, te, l) : te \in ThreeWay(b.tests, t.tests, s.tests, {}),
                                          l \in ThreeWay(b.listed, t.listed, s.listed, {})} :
                OneSymbol(r) /\ OneExport(r)}
  BY DEF MergeRoots, one
<1>7. MergeRoots(b, s, t) =
        IF \E y \in two : MergeSymbol(b, s, t, y) = {} THEN {}
        ELSE {r \in {Assembled(n, te, l) : te \in ThreeWay(b.tests, s.tests, t.tests, {}),
                                          l \in ThreeWay(b.listed, s.listed, t.listed, {})} :
                OneSymbol(r) /\ OneExport(r)}
  BY DEF MergeRoots, two
<1> HIDE DEF m, n
<1> QED
  BY <1>1, <1>2, <1>3, <1>5, <1>6, <1>7

\* Neither does the plan.
LEMMA PlansEitherWay ==
  ASSUME NEW c, IsSeq(c), NEW d, IsSeq(d), InOrder(c, d)
  PROVE  Plan(c, d) = Plan(d, c)
<1>1. Points(c)[CommonAncestor(c, d)[1]] = Points(d)[CommonAncestor(d, c)[1]]
  BY SameAncestor
<1> DEFINE b == Points(c)[CommonAncestor(c, d)[1]]
<1>2. /\ Plan(c, d) = UNION {Checked(r) : r \in MergeRoots(b, RootOf(c), RootOf(d))}
      /\ Plan(d, c) = UNION {Checked(r) : r \in MergeRoots(b, RootOf(d), RootOf(c))}
  BY <1>1 DEF Plan
<1> HIDE DEF b
<1>3. MergeRoots(b, RootOf(c), RootOf(d)) = MergeRoots(b, RootOf(d), RootOf(c))
  BY RootsEitherWay
<1> QED
  BY <1>2, <1>3

-----------------------------------------------------------------------------
\* Merging again.

\* What one side took over from both is merged with the other side into itself.
LEMMA FacetsAgain ==
  ASSUME NEW base, base = [f \in Facets |-> base[f]],
         NEW left, left = [f \in Facets |-> left[f]],
         NEW right, right = [f \in Facets |-> right[f]],
         NEW m \in ThreeWay(base, left, right, MergeSymbolState(base, left, right))
  PROVE  ThreeWay(base, m, right, MergeSymbolState(base, m, right)) = {m}
<1>1. CASE right = base
  BY <1>1 DEF ThreeWay
<1>2. CASE m = right
  BY <1>2 DEF ThreeWay
<1>3. CASE right # base /\ m # right
  <2>1. m \in MergeSymbolState(base, left, right)
    BY <1>3 DEF ThreeWay
  <2> DEFINE Clashes(f) == left[f] # base[f] /\ right[f] # base[f] /\ left[f] # right[f]
             Again(f) == m[f] # base[f] /\ right[f] # base[f] /\ m[f] # right[f]
  <2>2. /\ Signatures(left) = Signatures(base) /\ Signatures(right) = Signatures(base)
        /\ m = [f \in Facets |-> IF right[f] # base[f] THEN right[f] ELSE left[f]]
        /\ ~\E f \in Facets : Clashes(f)
    BY <2>1 DEF MergeSymbolState
  <2>3. m = [f \in Facets |-> m[f]]
    BY <2>2
  <2>4. \A f \in Facets : /\ right[f] # base[f] => m[f] = right[f]
                          /\ right[f] = base[f] => m[f] = left[f]
    BY <2>2
  <2>5. m # base
    <3>1. PICK f \in Facets : right[f] # base[f]
      BY <1>3
    <3> QED
      BY <2>4, <3>1
  <2>6. Signatures(m) = Signatures(base)
    <3>1. m.entry \in {left.entry, right.entry}
      BY <2>4 DEF Facets
    <3> QED
      BY <2>2, <3>1 DEF Signatures
  <2>7. ~\E f \in Facets : Again(f)
    BY <2>4
  <2>8. MergeSymbolState(base, m, right) = {[f \in Facets |-> IF right[f] # base[f] THEN right[f] ELSE m[f]]}
    BY <2>2, <2>6, <2>7 DEF MergeSymbolState
  <2>9. [f \in Facets |-> IF right[f] # base[f] THEN right[f] ELSE m[f]] = m
    <3> DEFINE n == [f \in Facets |-> IF right[f] # base[f] THEN right[f] ELSE m[f]]
    <3>1. \A f \in Facets : n[f] = m[f]
      BY <2>4
    <3>2. n = [f \in Facets |-> n[f]]
      OBVIOUS
    <3> HIDE DEF n
    <3>3. n = m
      BY <2>3, <3>1, <3>2
    <3> QED
      BY <3>3 DEF n
  <2> QED
    BY <1>3, <2>5, <2>8, <2>9 DEF ThreeWay
<1> QED
  BY <1>1, <1>2, <1>3

\* The state of a symbol has the four facets.
LEMMA StateForm ==
  ASSUME NEW r, NEW y, NEW m, m = SymbolState(r, y)
  PROVE  /\ m = [f \in Facets |-> m[f]]
         /\ m = [entry |-> m.entry, names |-> m.names, params |-> m.params, exports |-> m.exports]
         /\ y \notin DOMAIN r.defs => m = [entry |-> {}, names |-> {}, params |-> <<>>, exports |-> {}]
<1>1. CASE y \in DOMAIN r.defs
  <2>1. m = [entry   |-> {[signature |-> Signature(r.defs[y]), kind |-> r.defs[y].kind,
                           calls |-> r.defs[y].calls]},
             names   |-> BindingsOf(r.names, y),
             params  |-> r.defs[y].params,
             exports |-> {e \in r.exports : e.symbol = y}]
    BY <1>1 DEF SymbolState
  <2> QED
    BY <1>1, <2>1 DEF Facets
<1>2. CASE y \notin DOMAIN r.defs
  <2>1. m = [entry |-> {}, names |-> {}, params |-> <<>>, exports |-> {}]
    BY <1>2 DEF SymbolState
  <2> QED
    BY <1>2, <2>1 DEF Facets
<1> QED
  BY <1>1, <1>2

\* A merged state is one that a root can have: where its entry and its
\* parameters come from two sides they fit, and without an entry it is empty.
LEMMA MergedForm ==
  ASSUME NEW b, NEW t, NEW s, NEW y, NEW m \in MergeSymbol(b, t, s, y)
  PROVE  /\ m = [entry |-> m.entry, names |-> m.names, params |-> m.params, exports |-> m.exports]
         /\ \A e \in m.entry :
              /\ e.signature = [generic |-> e.kind = "generic", count |-> Len(m.params)]
              /\ m.entry = {[signature |-> e.signature, kind |-> e.kind, calls |-> e.calls]}
         /\ m.entry = {} => m = [entry |-> {}, names |-> {}, params |-> <<>>, exports |-> {}]
<1> DEFINE base == SymbolState(b, y)
           left == SymbolState(t, y)
           right == SymbolState(s, y)
           absent == [entry |-> {}, names |-> {}, params |-> <<>>, exports |-> {}]
           Fits(x) == \A e \in x.entry :
                        /\ e.signature = [generic |-> e.kind = "generic", count |-> Len(x.params)]
                        /\ x.entry = {[signature |-> e.signature, kind |-> e.kind, calls |-> e.calls]}
<1>1. m \in ThreeWay(base, left, right, MergeSymbolState(base, left, right))
  BY DEF MergeSymbol
<1>2. \A r : LET x == SymbolState(r, y)
             IN  /\ x = [entry |-> x.entry, names |-> x.names, params |-> x.params, exports |-> x.exports]
                 /\ x.entry = {} => x = absent
                 /\ Signatures(x) = {} => x = absent
                 /\ Fits(x)
  <2>1. SUFFICES ASSUME NEW r, NEW x, x = SymbolState(r, y)
                 PROVE  /\ x = [entry |-> x.entry, names |-> x.names, params |-> x.params, exports |-> x.exports]
                        /\ x.entry = {} => x = absent
                        /\ Signatures(x) = {} => x = absent
                        /\ Fits(x)
    OBVIOUS
  <2>2. /\ x = [entry |-> x.entry, names |-> x.names, params |-> x.params, exports |-> x.exports]
        /\ y \notin DOMAIN r.defs => x = absent
    BY <2>1, StateForm
  <2>3. /\ x.entry # {} <=> y \in DOMAIN r.defs
        /\ Signatures(x) # {} <=> y \in DOMAIN r.defs
        /\ y \in DOMAIN r.defs =>
             /\ x.entry = {[signature |-> Signature(r.defs[y]), kind |-> r.defs[y].kind,
                            calls |-> r.defs[y].calls]}
             /\ x.params = r.defs[y].params
    BY <2>1, StateOf
  <2>4. Fits(x)
    BY <2>3 DEF Signature
  <2> QED
    BY <2>2, <2>3, <2>4
<1>3. /\ left = [entry |-> left.entry, names |-> left.names, params |-> left.params, exports |-> left.exports]
      /\ left.entry = {} => left = absent
      /\ Signatures(left) = {} => left = absent
      /\ Fits(left)
  BY <1>2
<1>4. /\ right = [entry |-> right.entry, names |-> right.names, params |-> right.params, exports |-> right.exports]
      /\ right.entry = {} => right = absent
      /\ Signatures(right) = {} => right = absent
      /\ Fits(right)
  BY <1>2
<1>5. Signatures(base) = {} => base = absent
  BY <1>2
<1> HIDE DEF base, left, right, absent
<1>6. \/ m = left
      \/ m = right
      \/ /\ left # base
         /\ Signatures(left) = Signatures(right) /\ Signatures(left) = Signatures(base)
         /\ m = [f \in Facets |-> m[f]]
         /\ m.entry \in {left.entry, right.entry}
         /\ m.names \in {left.names, right.names}
         /\ m.params \in {left.params, right.params}
         /\ m.exports \in {left.exports, right.exports}
  BY <1>1, FacetsMerged
<1>7. CASE m = left
  BY <1>3, <1>7 DEF absent
<1>8. CASE m = right
  BY <1>4, <1>8 DEF absent
<1>9. CASE /\ left # base
           /\ Signatures(left) = Signatures(right) /\ Signatures(left) = Signatures(base)
           /\ m = [f \in Facets |-> m[f]]
           /\ m.entry \in {left.entry, right.entry}
           /\ m.params \in {left.params, right.params}
  <2>1. m = [entry |-> m.entry, names |-> m.names, params |-> m.params, exports |-> m.exports]
    BY <1>9 DEF Facets
  <2>2. left.entry # {} /\ right.entry # {}
    <3>1. Signatures(left) # {}
      BY <1>3, <1>5, <1>9
    <3> QED
      BY <1>9, <3>1 DEF Signatures
  <2>3. PICK e \in left.entry : TRUE
    BY <2>2
  <2>4. PICK g \in right.entry : TRUE
    BY <2>2
  <2>5. e.signature = g.signature
    <3>1. Signatures(left) = {e.signature}
      <4>1. left.entry = {[signature |-> e.signature, kind |-> e.kind, calls |-> e.calls]}
        BY <1>3
      <4>2. \A x \in left.entry : x = e
        BY <4>1
      <4> QED
        BY <4>2 DEF Signatures
    <3>2. Signatures(right) = {g.signature}
      <4>1. right.entry = {[signature |-> g.signature, kind |-> g.kind, calls |-> g.calls]}
        BY <1>4
      <4>2. \A x \in right.entry : x = g
        BY <4>1
      <4> QED
        BY <4>2 DEF Signatures
    <3> QED
      BY <1>9, <3>1, <3>2
  <2>6. Len(left.params) = Len(right.params)
    <3>1. e.signature.count = Len(left.params)
      <4>1. e.signature = [generic |-> e.kind = "generic", count |-> Len(left.params)]
        BY <1>3
      <4> QED
        BY <4>1
    <3>2. g.signature.count = Len(right.params)
      <4>1. g.signature = [generic |-> g.kind = "generic", count |-> Len(right.params)]
        BY <1>4
      <4> QED
        BY <4>1
    <3> QED
      BY <2>5, <3>1, <3>2
  <2>7. Fits(m)
    BY <1>3, <1>4, <1>9, <2>6
  <2>8. m.entry # {}
    BY <1>9, <2>2
  <2> QED
    BY <2>1, <2>7, <2>8
<1> QED
  BY <1>6, <1>7, <1>8, <1>9

\* The merged root says of every symbol what was merged of it.
LEMMA StateIsMerged ==
  ASSUME NEW b, NEW t, NEW s, NEW r \in MergeRoots(b, t, s), NEW y \in AllSymbols(b, t, s)
  PROVE  SymbolState(r, y) \in MergeSymbol(b, t, s, y)
<1>1. PICK m : AreStates(m, b, t, s, r)
  BY MergedParts
<1> DEFINE M == m[y]
<1>2. M \in MergeSymbol(b, t, s, y) /\ (M.entry # {} <=> y \in DOMAIN r.defs)
  BY <1>1 DEF AreStates
<1>3. /\ M = [entry |-> M.entry, names |-> M.names, params |-> M.params, exports |-> M.exports]
      /\ \A e \in M.entry :
           /\ e.signature = [generic |-> e.kind = "generic", count |-> Len(M.params)]
           /\ M.entry = {[signature |-> e.signature, kind |-> e.kind, calls |-> e.calls]}
      /\ M.entry = {} => M = [entry |-> {}, names |-> {}, params |-> <<>>, exports |-> {}]
  <2> HIDE DEF M
  <2> QED
    BY <1>2, MergedForm
<1>4. CASE y \notin DOMAIN r.defs
  BY <1>2, <1>3, <1>4 DEF SymbolState
<1>5. CASE y \in DOMAIN r.defs
  <2>1. PICK e \in M.entry : r.defs[y] = [kind |-> e.kind, params |-> M.params, calls |-> e.calls]
    BY <1>1, <1>5 DEF AreStates
  <2>2. r.defs[y].kind = e.kind /\ r.defs[y].params = M.params /\ r.defs[y].calls = e.calls
    BY <2>1
  <2>3. M.entry = {[signature |-> Signature(r.defs[y]), kind |-> r.defs[y].kind, calls |-> r.defs[y].calls]}
    <3>1. e.signature = Signature(r.defs[y])
      BY <1>3, <2>2 DEF Signature
    <3>2. M.entry = {[signature |-> e.signature, kind |-> e.kind, calls |-> e.calls]}
      BY <1>3
    <3> QED
      BY <2>2, <3>1, <3>2
  <2>4. \A z \in DOMAIN r.defs :
          /\ \A c \in m[z].names : c.symbol = z
          /\ \A c \in m[z].exports : c.symbol = z
    <3>1. SUFFICES ASSUME NEW z \in DOMAIN r.defs
                   PROVE  /\ \A c \in m[z].names : c.symbol = z
                          /\ \A c \in m[z].exports : c.symbol = z
      OBVIOUS
    <3>2. m[z] \in MergeSymbol(b, t, s, z) /\ m[z].entry # {}
      BY <1>1 DEF AreStates
    <3>3. /\ \E x \in {t, s} : z \in DOMAIN x.defs /\ m[z].names = BindingsOf(x.names, z)
          /\ \E x \in {t, s} : m[z].exports = {e_1 \in x.exports : e_1.symbol = z}
      BY <3>2, SymbolMerged
    <3> QED
      BY <3>3 DEF BindingsOf
  <2>5. M.names = BindingsOf(r.names, y)
    <3>1. r.names = UNION {m[z].names : z \in DOMAIN r.defs}
      BY <1>1 DEF AreStates
    <3> QED
      BY <1>5, <2>4, <3>1 DEF BindingsOf
  <2>6. M.exports = {e_1 \in r.exports : e_1.symbol = y}
    <3>1. r.exports = UNION {m[z].exports : z \in DOMAIN r.defs}
      BY <1>1 DEF AreStates
    <3> QED
      BY <1>5, <2>4, <3>1
  <2> HIDE DEF M
  <2>7. SymbolState(r, y) = [entry |-> M.entry, names |-> M.names, params |-> M.params, exports |-> M.exports]
    BY <1>5, <2>2, <2>3, <2>5, <2>6 DEF SymbolState
  <2> QED
    BY <1>2, <1>3, <2>7
<1> QED
  BY <1>4, <1>5

\* A root whose symbols, tests and metadata all merge into themselves does so.
LEMMA SelfMerged ==
  ASSUME NEW b, NEW s, NEW r, NEW n, RootInv(r, n), r.defs = [y \in DOMAIN r.defs |-> r.defs[y]],
         \A y \in AllSymbols(b, r, s) : MergeSymbol(b, r, s, y) = {SymbolState(r, y)},
         ThreeWay(b.tests, r.tests, s.tests, {}) = {r.tests},
         ThreeWay(b.listed, r.listed, s.listed, {}) = {r.listed}
  PROVE  MergeRoots(b, r, s) = {r}
<1> DEFINE symbols == AllSymbols(b, r, s)
           merged(y) == MergeSymbol(b, r, s, y)
           m == [y \in symbols |-> CHOOSE x \in merged(y) : TRUE]
           present == {y \in DOMAIN m : m[y].entry # {}}
           entry(y) == CHOOSE e \in m[y].entry : TRUE
           D == [y \in present |-> [kind |-> entry(y).kind, params |-> m[y].params, calls |-> entry(y).calls]]
           N == UNION {m[y].names : y \in present}
           X == UNION {m[y].exports : y \in present}
           made == Assembled(m, r.tests, r.listed)
<1>0. IsRoot(r) /\ LiveNames(r) /\ UniqueNames(r) /\ Storable(r)
  BY DEF RootInv, ShapeInv, NamesIdentify
<1>1. DOMAIN m = symbols /\ DOMAIN r.defs \subseteq symbols
  BY DEF AllSymbols
<1>2. \A y \in symbols : m[y] = SymbolState(r, y) /\ merged(y) # {}
  <2>1. SUFFICES ASSUME NEW y \in symbols PROVE m[y] = SymbolState(r, y) /\ merged(y) # {}
    OBVIOUS
  <2>2. merged(y) = {SymbolState(r, y)}
    OBVIOUS
  <2>3. m[y] = CHOOSE x \in merged(y) : TRUE
    OBVIOUS
  <2> HIDE DEF merged, m
  <2> QED
    BY <2>2, <2>3
<1>3. MergeRoots(b, r, s) =
        IF \E y \in symbols : merged(y) = {} THEN {}
        ELSE {q \in {Assembled(m, tests, l) : tests \in ThreeWay(b.tests, r.tests, s.tests, {}),
                                              l \in ThreeWay(b.listed, r.listed, s.listed, {})} :
                OneSymbol(q) /\ OneExport(q)}
  BY DEF MergeRoots, AllSymbols
<1>4. made = [defs |-> D, names |-> N, exports |-> X, tests |-> r.tests, listed |-> r.listed]
  BY DEF Assembled
<1> HIDE DEF m, merged, symbols, entry
<1>5. \A y \in DOMAIN r.defs :
        /\ m[y].entry = {[signature |-> Signature(r.defs[y]), kind |-> r.defs[y].kind, calls |-> r.defs[y].calls]}
        /\ m[y].names = BindingsOf(r.names, y)
        /\ m[y].params = r.defs[y].params
        /\ m[y].exports = {e \in r.exports : e.symbol = y}
  <2>1. SUFFICES ASSUME NEW y \in DOMAIN r.defs, NEW x, x = SymbolState(r, y)
                 PROVE  /\ x.entry = {[signature |-> Signature(r.defs[y]), kind |-> r.defs[y].kind,
                                       calls |-> r.defs[y].calls]}
                        /\ x.names = BindingsOf(r.names, y)
                        /\ x.params = r.defs[y].params
                        /\ x.exports = {e \in r.exports : e.symbol = y}
    BY <1>1, <1>2
  <2> QED
    BY <2>1, StateOf
<1>6. present = DOMAIN r.defs
  <2>1. \A y \in symbols : m[y].entry # {} <=> y \in DOMAIN r.defs
    BY <1>2, StateOf
  <2> QED
    BY <1>1, <2>1
<1> HIDE DEF present
<1>7. D = r.defs
  <2>1. \A y \in DOMAIN r.defs : D[y] = r.defs[y]
    <3>1. SUFFICES ASSUME NEW y \in DOMAIN r.defs PROVE D[y] = r.defs[y]
      OBVIOUS
    <3>2. entry(y) = [signature |-> Signature(r.defs[y]), kind |-> r.defs[y].kind, calls |-> r.defs[y].calls]
      BY <1>5 DEF entry
    <3>3. D[y] = [kind |-> entry(y).kind, params |-> m[y].params, calls |-> entry(y).calls]
      BY <1>6
    <3>4. r.defs[y] = [kind |-> r.defs[y].kind, params |-> r.defs[y].params, calls |-> r.defs[y].calls]
      BY <1>0 DEF IsRoot, Definition
    <3>5. entry(y).kind = r.defs[y].kind /\ entry(y).calls = r.defs[y].calls /\ m[y].params = r.defs[y].params
      BY <1>5, <3>2
    <3> QED
      BY <3>3, <3>4, <3>5
  <2>2. DOMAIN D = DOMAIN r.defs
    BY <1>6
  <2>3. D = [y \in DOMAIN D |-> D[y]]
    OBVIOUS
  <2>4. r.defs = [y \in DOMAIN r.defs |-> r.defs[y]]
    OBVIOUS
  <2> HIDE DEF D
  <2> QED
    BY <2>1, <2>2, <2>3, <2>4
<1>8. N = r.names
  BY <1>0, <1>5, <1>6 DEF LiveNames, BindingsOf
<1>9. X = r.exports
  BY <1>0, <1>5, <1>6 DEF Storable
<1>10. made = r
  BY <1>0, <1>4, <1>7, <1>8, <1>9 DEF IsRoot
<1>11. OneSymbol(r) /\ OneExport(r)
  BY <1>0 DEF OneSymbol, OneExport, UniqueNames, Storable
<1> HIDE DEF D, N, X
<1> QED
  BY <1>2, <1>3, <1>10, <1>11

\* A merged root and the source merge into the merged root.
LEMMA RootsAgain ==
  ASSUME NEW b, NEW t, NEW s, NEW r \in MergeRoots(b, t, s), NEW n, RootInv(r, n)
  PROVE  MergeRoots(b, r, s) = {r}
<1>1. PICK m : AreStates(m, b, t, s, r)
  BY MergedParts
<1>2. ASSUME NEW y \in AllSymbols(b, r, s)
      PROVE  MergeSymbol(b, r, s, y) = {SymbolState(r, y)}
  <2> DEFINE base == SymbolState(b, y)
             left == SymbolState(t, y)
             right == SymbolState(s, y)
             x == SymbolState(r, y)
  <2>1. y \in AllSymbols(b, t, s)
    BY <1>1, <1>2 DEF AreStates, AllSymbols
  <2>2. x \in MergeSymbol(b, t, s, y)
    BY <2>1, StateIsMerged
  <2>3. /\ x \in ThreeWay(base, left, right, MergeSymbolState(base, left, right))
        /\ MergeSymbol(b, r, s, y) = ThreeWay(base, x, right, MergeSymbolState(base, x, right))
    BY <2>2 DEF MergeSymbol
  <2>4. base = [f \in Facets |-> base[f]]
    BY StateForm
  <2>5. left = [f \in Facets |-> left[f]]
    BY StateForm
  <2>6. right = [f \in Facets |-> right[f]]
    BY StateForm
  <2> HIDE DEF base, left, right, x
  <2>7. MergeSymbol(b, r, s, y) = {x}
    BY <2>3, <2>4, <2>5, <2>6, FacetsAgain
  <2> QED
    BY <2>7 DEF x
<1>3. /\ ThreeWay(b.tests, r.tests, s.tests, {}) = {r.tests}
      /\ ThreeWay(b.listed, r.listed, s.listed, {}) = {r.listed}
  BY <1>1 DEF AreStates, ThreeWay
<1>4. r.defs = [y \in DOMAIN r.defs |-> r.defs[y]]
  BY <1>1 DEF AreStates
<1> QED
  BY <1>2, <1>3, <1>4, SelfMerged

\* So do two branches that are at the same root.
LEMMA RootsEqual ==
  ASSUME NEW r, NEW n, RootInv(r, n), r.defs = [y \in DOMAIN r.defs |-> r.defs[y]]
  PROVE  MergeRoots(r, r, r) = {r}
<1>1. \A y \in AllSymbols(r, r, r) : MergeSymbol(r, r, r, y) = {SymbolState(r, y)}
  BY DEF MergeSymbol, ThreeWay
<1>2. /\ ThreeWay(r.tests, r.tests, r.tests, {}) = {r.tests}
      /\ ThreeWay(r.listed, r.listed, r.listed, {}) = {r.listed}
  BY DEF ThreeWay
<1> QED
  BY <1>1, <1>2, SelfMerged

\* The points of a chain that a merge was added to.
LEMMA PointsAppended ==
  ASSUME NEW c, IsSeq(c), NEW x
  PROVE  /\ IsSeq(Append(c, x)) /\ Len(Append(c, x)) = Len(c) + 1
         /\ RootOf(Append(c, x)) = x.root
         /\ \A i \in 1 .. Len(c) + 1 : Points(Append(c, x))[i] = Points(c)[i]
         /\ Points(Append(c, x))[Len(c) + 2] = x.root
<1> DEFINE d == Append(c, x)
<1>1. IsSeq(d) /\ Len(d) = Len(c) + 1
  BY Appended
<1>2. /\ \A i \in 0 .. Len(c) : RootAt(d, i) = RootAt(c, i)
      /\ RootAt(d, Len(c) + 1) = x.root
  BY Beginning
<1> HIDE DEF d
<1>3. RootOf(d) = x.root
  BY <1>1, <1>2, Ends
<1>4. Len(c) \in Nat /\ \A i \in 1 .. Len(c) + 1 : Points(c)[i] = RootAt(c, i - 1)
  BY PointsOf
<1>5. \A i \in 1 .. Len(d) + 1 : Points(d)[i] = RootAt(d, i - 1)
  BY <1>1, PointsOf
<1>6. \A i \in 1 .. Len(c) + 1 : Points(d)[i] = Points(c)[i]
  BY <1>1, <1>2, <1>4, <1>5
<1>7. Points(d)[Len(c) + 2] = x.root
  <2>1. Len(c) + 2 \in 1 .. Len(d) + 1 /\ (Len(c) + 2) - 1 = Len(c) + 1
    BY <1>1, <1>4
  <2> QED
    BY <1>2, <1>5, <2>1
<1> QED
  BY <1>1, <1>3, <1>6, <1>7 DEF d

\* Merging again changes nothing: either the common ancestor is the one it was,
\* and the merged root has taken over what the source did since, or the target
\* is where the source is.
LEMMA PlanAgain ==
  ASSUME NEW c, IsSeq(c), NEW d, IsSeq(d), NEW r \in Plan(c, d), NEW n, RootInv(r, n),
         ~LeftBehind(d, r), NEW x, x.root = r
  PROVE  Plan(Append(c, x), d) = {r}
<1> DEFINE e == Append(c, x)
           p == CommonAncestor(c, d)
           q == CommonAncestor(e, d)
<1>1. /\ IsSeq(e) /\ Len(e) = Len(c) + 1 /\ RootOf(e) = r
      /\ \A i \in 1 .. Len(c) + 1 : Points(e)[i] = Points(c)[i]
      /\ Points(e)[Len(c) + 2] = r
  BY PointsAppended
<1> HIDE DEF e
<1>2. /\ Len(c) \in Nat /\ DOMAIN Points(c) = 1 .. Len(c) + 1
      /\ Len(d) \in Nat /\ DOMAIN Points(d) = 1 .. Len(d) + 1 /\ Len(Points(d)) = Len(d) + 1
      /\ DOMAIN Points(e) = 1 .. Len(c) + 2
  <2>1. Len(c) \in Nat /\ DOMAIN Points(c) = 1 .. Len(c) + 1
    BY PointsOf
  <2>2. Len(d) \in Nat /\ DOMAIN Points(d) = 1 .. Len(d) + 1 /\ Len(Points(d)) = Len(d) + 1
    BY PointsOf
  <2>3. DOMAIN Points(e) = 1 .. Len(e) + 1
    BY <1>1, PointsOf
  <2> QED
    BY <1>1, <2>1, <2>2, <2>3
<1>3. Checked(r) = {r} /\ r \in MergeRoots(Points(c)[p[1]], RootOf(c), RootOf(d))
  BY DEF Plan, Checked
<1>4. Plan(e, d) = UNION {Checked(o) : o \in MergeRoots(Points(e)[q[1]], r, RootOf(d))}
  BY <1>1 DEF Plan
<1>5. MergeRoots(Points(e)[q[1]], r, RootOf(d)) = {r}
  <2>1. CASE ~Contains(Points(d), r)
    <3>1. \A j \in DOMAIN Points(d) : Points(d)[j] # r
      BY <1>2, <2>1 DEF Contains
    <3>2. SharedPoints(e, d) = SharedPoints(c, d)
      <4>1. \A o : o \in (DOMAIN Points(e)) \X (DOMAIN Points(d)) /\ Points(e)[o[1]] = Points(d)[o[2]]
               <=> o \in (DOMAIN Points(c)) \X (DOMAIN Points(d)) /\ Points(c)[o[1]] = Points(d)[o[2]]
        BY <1>1, <1>2, <3>1
      <4> QED
        BY <4>1 DEF SharedPoints
    <3>3. q = p
      BY <3>2 DEF CommonAncestor
    <3>4. p[1] \in 1 .. Len(c) + 1
      BY AncestorIsBest
    <3>5. Points(e)[q[1]] = Points(c)[p[1]]
      BY <1>1, <3>3, <3>4
    <3> QED
      BY <1>3, <3>5, RootsAgain
  <2>2. CASE r = RootOf(d)
    <3>1. Points(d)[Len(d) + 1] = r
      <4>1. Len(d) + 1 \in 1 .. Len(d) + 1 /\ (Len(d) + 1) - 1 = Len(d)
        BY <1>2
      <4>2. \A i \in 1 .. Len(d) + 1 : Points(d)[i] = RootAt(d, i - 1)
        BY PointsOf
      <4>3. RootOf(d) = RootAt(d, Len(d))
        BY Ends
      <4> QED
        BY <2>2, <4>1, <4>2, <4>3
    <3> DEFINE o == <<Len(c) + 2, Len(d) + 1>>
    <3>2. o \in SharedPoints(e, d)
      BY <1>1, <1>2, <3>1 DEF SharedPoints
    <3>3. /\ q \in SharedPoints(e, d)
          /\ \A y \in SharedPoints(e, d) : Before(q, y)
          /\ \A y \in SharedPoints(e, d) : y[1] \in 1 .. Len(e) + 1 /\ y[2] \in 1 .. Len(d) + 1
      BY <1>1, AncestorIsBest
    <3>4. Before(q, o) /\ o[1] = Len(c) + 2 /\ o[2] = Len(d) + 1
      BY <3>2, <3>3
    <3>5. q[1] \in 1 .. Len(c) + 2 /\ q[2] \in 1 .. Len(d) + 1
      BY <1>1, <1>2, <3>3
    <3>6. q[1] = Len(c) + 2
      <4> HIDE DEF q, o
      <4> QED
        BY <1>2, <3>4, <3>5 DEF Before
    <3>7. Points(e)[q[1]] = r
      BY <1>1, <3>6
    <3>8. r.defs = [y \in DOMAIN r.defs |-> r.defs[y]]
      <4>1. PICK m : AreStates(m, Points(c)[p[1]], RootOf(c), RootOf(d), r)
        BY <1>3, MergedParts
      <4> QED
        BY <4>1 DEF AreStates
    <3>9. MergeRoots(r, r, r) = {r}
      BY <3>8, RootsEqual
    <3> QED
      BY <2>2, <3>7, <3>9
  <2> QED
    BY <2>1, <2>2 DEF LeftBehind
<1>6. Plan(e, d) = {r}
  BY <1>3, <1>4, <1>5
<1> QED
  BY <1>6 DEF e

\* Two branches merge alike in either direction, and what was merged is merged:
\* the ancestor is found on both, no conflict depends on the direction, and
\* merging again plans the root that is already there (plan_conservative_merge,
\* find_common_ancestor, merge_symbol_state).
THEOREM MergesAlwaysAgree == Spec => []MergesAgree
<1>1. Inv => MergesAgree
  <2> SUFFICES ASSUME Inv, NEW t \in Branches, NEW s \in Branches, InOrder(chain[t], chain[s])
               PROVE  /\ Plan(chain[t], chain[s]) = Plan(chain[s], chain[t])
                      /\ \A r \in Plan(chain[t], chain[s]) :
                           ~LeftBehind(chain[s], r) =>
                             Plan(Append(chain[t], MergeItem(chain[t], chain[s], r)), chain[s]) = {r}
    BY DEF MergesAgree
  <2>1. chain[t] \in Chains /\ chain[s] \in Chains /\ Lawful(Chains, born)
    BY DEF Inv, Chains
  <2>2. \A c \in Chains : IsSeq(c) /\ RootInv(RootOf(c), Len(born))
    <3>1. SUFFICES ASSUME NEW c \in Chains PROVE IsSeq(c) /\ RootInv(RootOf(c), Len(born))
      OBVIOUS
    <3>2. IsSeq(c) /\ \A i \in 0 .. Len(c) : RootInv(RootAt(c, i), Len(born))
      BY <2>1 DEF Lawful, RootsSound
    <3>3. RootOf(c) = RootAt(c, Len(c)) /\ Len(c) \in 0 .. Len(c)
      BY <3>2, Ends
    <3> QED
      BY <3>2, <3>3
  <2>3. Plan(chain[t], chain[s]) = Plan(chain[s], chain[t])
    BY <2>1, <2>2, PlansEitherWay
  <2>4. ASSUME NEW r \in Plan(chain[t], chain[s]), ~LeftBehind(chain[s], r)
        PROVE  Plan(Append(chain[t], MergeItem(chain[t], chain[s], r)), chain[s]) = {r}
    <3>1. PICK b : r \in MergeRoots(b, RootOf(chain[t]), RootOf(chain[s])) /\ Storable(r) /\ TypeChecks(r)
      BY DEF Plan, Checked
    <3>2. RootInv(r, Len(born))
      BY <2>1, <2>2, <3>1, MergedSound
    <3> DEFINE x == MergeItem(chain[t], chain[s], r)
    <3>3. x.root = r
      BY DEF MergeItem, Item
    <3> HIDE DEF x
    <3>4. Plan(Append(chain[t], x), chain[s]) = {r}
      BY <2>1, <2>2, <2>4, <3>2, <3>3, PlanAgain
    <3> QED
      BY <3>4 DEF x
  <2> QED
    BY <2>3, <2>4
<1> QED
  BY <1>1, AlwaysLawful, PTL

-----------------------------------------------------------------------------
\* What a root says of a symbol, part by part.

Entry(r, y) ==
  IF y \in DOMAIN r.defs
  THEN {[signature |-> Signature(r.defs[y]), kind |-> r.defs[y].kind, calls |-> r.defs[y].calls]}
  ELSE {}
ParamsOf(r, y) == IF y \in DOMAIN r.defs THEN r.defs[y].params ELSE <<>>
ExportsOf(r, y) == {e \in r.exports : e.symbol = y}

Good(r, N) == RootInv(r, N) /\ Monomorphic(r)

\* In a sound root only live symbols have names and exports.
LEMMA PartsAre ==
  ASSUME NEW r, NEW N, RootInv(r, N), NEW y
  PROVE  /\ Part(r, y, "entry") = Entry(r, y)
         /\ Part(r, y, "names") = BindingsOf(r.names, y)
         /\ Part(r, y, "params") = ParamsOf(r, y)
         /\ Part(r, y, "exports") = ExportsOf(r, y)
         /\ Part(r, y, "signature") = IF y \in DOMAIN r.defs THEN {Signature(r.defs[y])} ELSE {}
<1> DEFINE m == SymbolState(r, y)
<1>1. /\ Part(r, y, "entry") = m.entry /\ Part(r, y, "names") = m.names
      /\ Part(r, y, "params") = m.params /\ Part(r, y, "exports") = m.exports
      /\ Part(r, y, "signature") = Signatures(m)
  BY DEF Part
<1>2. LiveNames(r) /\ Storable(r)
  BY DEF RootInv, ShapeInv, NamesIdentify
<1>3. CASE y \in DOMAIN r.defs
  <2>1. /\ m.entry = {[signature |-> Signature(r.defs[y]), kind |-> r.defs[y].kind,
                       calls |-> r.defs[y].calls]}
        /\ m.names = BindingsOf(r.names, y)
        /\ m.params = r.defs[y].params
        /\ m.exports = {e \in r.exports : e.symbol = y}
    BY <1>3, StateOf
  <2> HIDE DEF m
  <2>2. Signatures(m) = {Signature(r.defs[y])}
    BY <2>1 DEF Signatures
  <2> QED
    BY <1>1, <1>3, <2>1, <2>2 DEF Entry, ParamsOf, ExportsOf
<1>4. CASE y \notin DOMAIN r.defs
  <2>1. m = [entry |-> {}, names |-> {}, params |-> <<>>, exports |-> {}]
    BY <1>4, StateForm
  <2> HIDE DEF m
  <2>2. m.entry = {} /\ m.names = {} /\ m.params = <<>> /\ m.exports = {} /\ Signatures(m) = {}
    BY <2>1 DEF Signatures
  <2>3. BindingsOf(r.names, y) = {} /\ ExportsOf(r, y) = {}
    BY <1>2, <1>4 DEF LiveNames, Storable, BindingsOf, ExportsOf
  <2> QED
    BY <1>1, <1>4, <2>2, <2>3 DEF Entry, ParamsOf
<1> QED
  BY <1>3, <1>4

\* Where the source's step leaves a part alone the replayed one does, and
\* where it changes it both make the same of it.
Follows(a, b, c, d) == d = IF b = a THEN c ELSE b
AlikeIn(r, q, p, o, y) ==
  /\ Follows(Entry(r, y), Entry(q, y), Entry(p, y), Entry(o, y))
  /\ Follows(BindingsOf(r.names, y), BindingsOf(q.names, y), BindingsOf(p.names, y), BindingsOf(o.names, y))
  /\ Follows(ParamsOf(r, y), ParamsOf(q, y), ParamsOf(p, y), ParamsOf(o, y))
  /\ Follows(ExportsOf(r, y), ExportsOf(q, y), ExportsOf(p, y), ExportsOf(o, y))
Alike(r, q, p, o) ==
  /\ \A y : AlikeIn(r, q, p, o, y)
  /\ Follows(r.tests, q.tests, p.tests, o.tests)

\* What the step r to q touches, root p says as r does.
Undisturbed(r, p, y) ==
  /\ Entry(p, y) = Entry(r, y) /\ BindingsOf(p.names, y) = BindingsOf(r.names, y)
  /\ ParamsOf(p, y) = ParamsOf(r, y) /\ ExportsOf(p, y) = ExportsOf(r, y)
  /\ \A h \in DOMAIN p.defs :
       (\E c \in p.defs[h].calls : c.callee = y) => Entry(p, h) = Entry(r, h)
  /\ (\E t \in p.tests : t.case.entry = y) => p.tests = r.tests
Resigned(r, q, y) == Part(q, y, "signature") # Part(r, y, "signature")
Clear(r, q, p) ==
  /\ \A y : /\ Entry(q, y) # Entry(r, y) => Entry(p, y) = Entry(r, y)
            /\ BindingsOf(q.names, y) # BindingsOf(r.names, y) => BindingsOf(p.names, y) = BindingsOf(r.names, y)
            /\ ParamsOf(q, y) # ParamsOf(r, y) => ParamsOf(p, y) = ParamsOf(r, y)
            /\ ExportsOf(q, y) # ExportsOf(r, y) => ExportsOf(p, y) = ExportsOf(r, y)
            /\ Resigned(r, q, y) => Undisturbed(r, p, y)
  /\ q.tests # r.tests => p.tests = r.tests

\* The names of one symbol.
NameEdit(r, q, x, B) ==
  /\ q.defs = r.defs /\ q.exports = r.exports /\ q.tests = r.tests
  /\ \A y : BindingsOf(q.names, y) = IF y = x THEN B ELSE BindingsOf(r.names, y)

\* Two roots in which it gives a symbol these names change alike.
LEMMA NamesAlike ==
  ASSUME NEW r, NEW q, NEW p, NEW o, NEW x, NEW B, NameEdit(r, q, x, B), NameEdit(p, o, x, B),
         B # BindingsOf(r.names, x)
  PROVE  Alike(r, q, p, o)
BY DEF NameEdit, Alike, AlikeIn, Follows, Entry, ParamsOf, ExportsOf

\* The exports of one symbol.
ExportEdit(r, q, x, E) ==
  /\ q.defs = r.defs /\ q.names = r.names /\ q.tests = r.tests
  /\ \A y : ExportsOf(q, y) = IF y = x THEN E ELSE ExportsOf(r, y)

\* Two roots in which a symbol comes to have these exports change alike.
LEMMA ExportsAlike ==
  ASSUME NEW r, NEW q, NEW p, NEW o, NEW x, NEW E, ExportEdit(r, q, x, E), ExportEdit(p, o, x, E),
         E # ExportsOf(r, x)
  PROVE  Alike(r, q, p, o)
BY DEF ExportEdit, Alike, AlikeIn, Follows, Entry, ParamsOf

\* The tests.
TestEdit(r, q, T) ==
  q.defs = r.defs /\ q.names = r.names /\ q.exports = r.exports /\ q.tests = T

\* Two roots which come to have these tests change alike.
LEMMA TestsAlike ==
  ASSUME NEW r, NEW q, NEW p, NEW o, NEW T, TestEdit(r, q, T), TestEdit(p, o, T), T # r.tests
  PROVE  Alike(r, q, p, o)
BY DEF TestEdit, Alike, AlikeIn, Follows, Entry, ParamsOf, ExportsOf

\* The definition of one symbol.
DefEdit(r, q, x, d) ==
  /\ x \in DOMAIN r.defs /\ r.defs[x] \in Definition
  /\ q.names = r.names /\ q.exports = r.exports /\ q.tests = r.tests
  /\ DOMAIN q.defs = DOMAIN r.defs
  /\ \A y \in DOMAIN r.defs : q.defs[y] = IF y = x THEN d ELSE r.defs[y]

\* Two roots have the same entry of a symbol if all but the names of the
\* parameters is the same.
LEMMA EntriesEqual ==
  ASSUME NEW u, NEW v, NEW x, x \in DOMAIN u.defs, x \in DOMAIN v.defs
  PROVE  Entry(u, x) = Entry(v, x) <=>
           /\ u.defs[x].kind = v.defs[x].kind /\ u.defs[x].calls = v.defs[x].calls
           /\ Len(u.defs[x].params) = Len(v.defs[x].params)
<1> DEFINE e(d) == [signature |-> Signature(d), kind |-> d.kind, calls |-> d.calls]
<1>1. Entry(u, x) = {e(u.defs[x])} /\ Entry(v, x) = {e(v.defs[x])}
  BY DEF Entry
<1>2. \A d : e(d).signature.count = Len(d.params) /\ e(d).kind = d.kind /\ e(d).calls = d.calls
  BY DEF Signature
<1>3. \A d, g : d.kind = g.kind /\ d.calls = g.calls /\ Len(d.params) = Len(g.params) => e(d) = e(g)
  BY DEF Signature
<1> HIDE DEF e
<1> QED
  BY <1>1, <1>2, <1>3

\* A body that is changed is of a function that is as it was.
LEMMA BodyAlike ==
  ASSUME NEW r, NEW q, NEW p, NEW o, NEW x, NEW C,
         DefEdit(r, q, x, [r.defs[x] EXCEPT !.calls = C]), C # r.defs[x].calls,
         DefEdit(p, o, x, [p.defs[x] EXCEPT !.calls = C]), Clear(r, q, p)
  PROVE  Alike(r, q, p, o)
<1>1. /\ x \in DOMAIN r.defs /\ x \in DOMAIN q.defs /\ x \in DOMAIN p.defs /\ x \in DOMAIN o.defs
      /\ r.defs[x] \in Definition /\ p.defs[x] \in Definition
  BY DEF DefEdit
<1>2. /\ q.defs[x].kind = r.defs[x].kind /\ q.defs[x].params = r.defs[x].params /\ q.defs[x].calls = C
      /\ o.defs[x].kind = p.defs[x].kind /\ o.defs[x].params = p.defs[x].params /\ o.defs[x].calls = C
  BY <1>1 DEF DefEdit, Definition
<1>3. \A u, v \in {r, q, p, o} :
        Entry(u, x) = Entry(v, x) <=>
          /\ u.defs[x].kind = v.defs[x].kind /\ u.defs[x].calls = v.defs[x].calls
          /\ Len(u.defs[x].params) = Len(v.defs[x].params)
  BY <1>1, EntriesEqual
<1>4. Entry(q, x) # Entry(r, x)
  BY <1>2, <1>3
<1>5. Entry(p, x) = Entry(r, x)
  BY <1>4 DEF Clear
<1>6. Entry(o, x) = Entry(q, x)
  BY <1>2, <1>3, <1>5
<1>7. \A y : y # x => Entry(q, y) = Entry(r, y) /\ Entry(o, y) = Entry(p, y)
  BY DEF DefEdit, Entry
<1>8. \A y : ParamsOf(q, y) = ParamsOf(r, y) /\ ParamsOf(o, y) = ParamsOf(p, y)
  BY <1>1, <1>2 DEF DefEdit, ParamsOf
<1>9. \A y : ExportsOf(q, y) = ExportsOf(r, y) /\ ExportsOf(o, y) = ExportsOf(p, y)
  BY DEF DefEdit, ExportsOf
<1>10. q.names = r.names /\ o.names = p.names /\ q.tests = r.tests /\ o.tests = p.tests
  BY DEF DefEdit
<1>11. \A y : AlikeIn(r, q, p, o, y)
  <2>1. SUFFICES ASSUME NEW y PROVE AlikeIn(r, q, p, o, y)
    OBVIOUS
  <2>2. Follows(Entry(r, y), Entry(q, y), Entry(p, y), Entry(o, y))
    BY <1>4, <1>6, <1>7 DEF Follows
  <2> QED
    BY <1>8, <1>9, <1>10, <2>2 DEF Follows, AlikeIn
<1> QED
  BY <1>10, <1>11 DEF Alike, Follows

\* So are the parameters that are changed; the function may have another body,
\* unless their number changes.
LEMMA SignatureAlike ==
  ASSUME NEW r, NEW q, NEW p, NEW o, NEW x, NEW P,
         DefEdit(r, q, x, [r.defs[x] EXCEPT !.params = P]), P # r.defs[x].params,
         DefEdit(p, o, x, [p.defs[x] EXCEPT !.params = P]), Clear(r, q, p)
  PROVE  Alike(r, q, p, o)
<1>1. /\ x \in DOMAIN r.defs /\ x \in DOMAIN q.defs /\ x \in DOMAIN p.defs /\ x \in DOMAIN o.defs
      /\ r.defs[x] \in Definition /\ p.defs[x] \in Definition
  BY DEF DefEdit
<1>2. /\ q.defs[x].kind = r.defs[x].kind /\ q.defs[x].params = P /\ q.defs[x].calls = r.defs[x].calls
      /\ o.defs[x].kind = p.defs[x].kind /\ o.defs[x].params = P /\ o.defs[x].calls = p.defs[x].calls
  BY <1>1 DEF DefEdit, Definition
<1>3. \A u, v \in {r, q, p, o} :
        Entry(u, x) = Entry(v, x) <=>
          /\ u.defs[x].kind = v.defs[x].kind /\ u.defs[x].calls = v.defs[x].calls
          /\ Len(u.defs[x].params) = Len(v.defs[x].params)
  BY <1>1, EntriesEqual
<1>4. /\ ParamsOf(r, x) = r.defs[x].params /\ ParamsOf(q, x) = P
      /\ ParamsOf(p, x) = p.defs[x].params /\ ParamsOf(o, x) = P
  BY <1>1, <1>2 DEF ParamsOf
<1>5. p.defs[x].params = r.defs[x].params
  BY <1>4 DEF Clear
<1>6. Follows(Entry(r, x), Entry(q, x), Entry(p, x), Entry(o, x))
  <2>1. CASE Entry(q, x) = Entry(r, x)
    <3>1. Entry(o, x) = Entry(p, x)
      BY <1>2, <1>3, <1>5, <2>1
    <3> QED
      BY <2>1, <3>1 DEF Follows
  <2>2. CASE Entry(q, x) # Entry(r, x)
    <3>1. Entry(p, x) = Entry(r, x)
      BY <2>2 DEF Clear
    <3>2. Entry(o, x) = Entry(q, x)
      BY <1>2, <1>3, <3>1
    <3> QED
      BY <2>2, <3>2 DEF Follows
  <2> QED
    BY <2>1, <2>2
<1>7. \A y : y # x => /\ Entry(q, y) = Entry(r, y) /\ Entry(o, y) = Entry(p, y)
                      /\ ParamsOf(q, y) = ParamsOf(r, y) /\ ParamsOf(o, y) = ParamsOf(p, y)
  BY DEF DefEdit, Entry, ParamsOf
<1>8. \A y : ExportsOf(q, y) = ExportsOf(r, y) /\ ExportsOf(o, y) = ExportsOf(p, y)
  BY DEF DefEdit, ExportsOf
<1>9. q.names = r.names /\ o.names = p.names /\ q.tests = r.tests /\ o.tests = p.tests
  BY DEF DefEdit
<1>10. \A y : AlikeIn(r, q, p, o, y)
  <2>1. SUFFICES ASSUME NEW y PROVE AlikeIn(r, q, p, o, y)
    OBVIOUS
  <2>2. Follows(Entry(r, y), Entry(q, y), Entry(p, y), Entry(o, y))
    BY <1>6, <1>7 DEF Follows
  <2>3. Follows(ParamsOf(r, y), ParamsOf(q, y), ParamsOf(p, y), ParamsOf(o, y))
    BY <1>4, <1>7 DEF Follows
  <2> QED
    BY <1>8, <1>9, <2>2, <2>3 DEF Follows, AlikeIn
<1> QED
  BY <1>9, <1>10 DEF Alike, Follows

\* A parameter more for one function, an argument more in every call of it.
Longer(x, c) == IF c.callee = x THEN [c EXCEPT !.args = @ + 1] ELSE c
Lengthened(r, q, x, z) ==
  /\ x \in DOMAIN r.defs
  /\ q.names = r.names /\ q.exports = r.exports /\ q.tests = r.tests
  /\ DOMAIN q.defs = DOMAIN r.defs
  /\ \A y \in DOMAIN r.defs :
       /\ q.defs[y].kind = r.defs[y].kind
       /\ q.defs[y].params = IF y = x THEN Append(r.defs[y].params, z) ELSE r.defs[y].params
       /\ q.defs[y].calls = {Longer(x, c) : c \in r.defs[y].calls}

\* The calls of a body that calls the function change with it, those of others
\* do not.
LEMMA CallsLengthen ==
  ASSUME NEW r, NEW N, RootInv(r, N), NEW x, NEW y \in DOMAIN r.defs
  PROVE  {Longer(x, c) : c \in r.defs[y].calls} = r.defs[y].calls <=>
           ~\E c \in r.defs[y].calls : c.callee = x
<1>1. \A c \in r.defs[y].calls :
        /\ c \in Call
        /\ c.callee = x => c.args = Len(r.defs[x].params)
  BY DEF RootInv, ShapeInv, IsRoot, Definition, TypeChecks, CallChecks
<1>2. \A c \in r.defs[y].calls : c.callee # x => Longer(x, c) = c
  BY DEF Longer
<1>3. CASE ~\E c \in r.defs[y].calls : c.callee = x
  BY <1>2, <1>3
<1>4. ASSUME NEW c \in r.defs[y].calls, c.callee = x,
             {Longer(x, d) : d \in r.defs[y].calls} = r.defs[y].calls
      PROVE  FALSE
  <2>1. PICK d \in r.defs[y].calls : c = Longer(x, d)
    BY <1>4
  <2>2. d.callee = x
    BY <1>4, <2>1 DEF Longer
  <2>3. c.args = d.args + 1
    BY <1>1, <2>1, <2>2 DEF Longer, Call
  <2>4. c.args = d.args /\ d.args \in Nat
    BY <1>1, <1>4, <2>2 DEF Call
  <2> QED
    BY <2>3, <2>4
<1> QED
  BY <1>3, <1>4

\* What a further parameter does to an entry: that of the function and those
\* of its callers change.
LEMMA EntryLengthens ==
  ASSUME NEW r, NEW N, RootInv(r, N), NEW q, NEW x, NEW z, Lengthened(r, q, x, z), NEW y \in DOMAIN r.defs
  PROVE  /\ y \in DOMAIN q.defs
         /\ Entry(q, y) = Entry(r, y) <=> y # x /\ ~\E c \in r.defs[y].calls : c.callee = x
<1>1. /\ y \in DOMAIN q.defs /\ q.defs[y].kind = r.defs[y].kind
      /\ q.defs[y].params = IF y = x THEN Append(r.defs[y].params, z) ELSE r.defs[y].params
      /\ q.defs[y].calls = {Longer(x, c) : c \in r.defs[y].calls}
  BY DEF Lengthened
<1> DEFINE longer == {Longer(x, c) : c \in r.defs[y].calls}
<1>2. Entry(q, y) = Entry(r, y) <=>
        /\ q.defs[y].kind = r.defs[y].kind /\ q.defs[y].calls = r.defs[y].calls
        /\ Len(q.defs[y].params) = Len(r.defs[y].params)
  <2>1. y \in DOMAIN q.defs
    BY <1>1
  <2> QED
    BY <2>1, EntriesEqual
<1>3. longer = r.defs[y].calls <=> ~\E c \in r.defs[y].calls : c.callee = x
  BY CallsLengthen
<1> HIDE DEF longer
<1>4. r.defs[y].params \in Seq(ParamNames)
  BY DEF RootInv, ShapeInv, IsRoot, Definition
<1>5. q.defs[y].kind = r.defs[y].kind /\ q.defs[y].calls = longer
  BY <1>1 DEF longer
<1>6. Len(q.defs[y].params) = Len(r.defs[y].params) <=> y # x
  <2> DEFINE s == r.defs[y].params
  <2>1. s \in Seq(ParamNames \cup {z})
    BY <1>4
  <2>2. Len(Append(s, z)) = Len(s) + 1 /\ Len(s) \in Nat
    BY <2>1
  <2> QED
    BY <1>1, <2>2
<1> QED
  BY <1>1, <1>2, <1>3, <1>5, <1>6

\* The function and its callers are as they were.
LEMMA LengthenedAlike ==
  ASSUME NEW r, NEW q, NEW p, NEW o, NEW N, RootInv(r, N), RootInv(q, N), RootInv(p, N), NEW x, NEW z,
         Lengthened(r, q, x, z), Lengthened(p, o, x, z), Clear(r, q, p)
  PROVE  Alike(r, q, p, o)
<1>1. x \in DOMAIN r.defs /\ x \in DOMAIN q.defs /\ x \in DOMAIN p.defs /\ x \in DOMAIN o.defs
  BY DEF Lengthened
<1>2. Entry(q, x) # Entry(r, x)
  BY <1>1, EntryLengthens
<1>3. /\ \A y \in DOMAIN r.defs : y \in DOMAIN q.defs /\ q.defs[y].kind = r.defs[y].kind
      /\ \A y \in DOMAIN r.defs : q.defs[y].calls = {Longer(x, c) : c \in r.defs[y].calls}
      /\ \A y \in DOMAIN r.defs : y # x => q.defs[y].params = r.defs[y].params
      /\ q.defs[x].params = Append(r.defs[x].params, z)
      /\ DOMAIN q.defs = DOMAIN r.defs
  BY DEF Lengthened
<1>4. /\ \A y \in DOMAIN p.defs : y \in DOMAIN o.defs /\ o.defs[y].kind = p.defs[y].kind
      /\ \A y \in DOMAIN p.defs : o.defs[y].calls = {Longer(x, c) : c \in p.defs[y].calls}
      /\ \A y \in DOMAIN p.defs : y # x => o.defs[y].params = p.defs[y].params
      /\ o.defs[x].params = Append(p.defs[x].params, z)
      /\ DOMAIN o.defs = DOMAIN p.defs
  BY DEF Lengthened
<1>5. Len(q.defs[x].params) # Len(r.defs[x].params)
  <2>1. r.defs[x].params \in Seq(ParamNames \cup {z})
    BY <1>1 DEF RootInv, ShapeInv, IsRoot, Definition
  <2> QED
    BY <1>3, <2>1
<1>6. Resigned(r, q, x)
  <2>1. Part(r, x, "signature") = {Signature(r.defs[x])} /\ Part(q, x, "signature") = {Signature(q.defs[x])}
    BY <1>1, PartsAre
  <2>2. Signature(r.defs[x]).count = Len(r.defs[x].params) /\ Signature(q.defs[x]).count = Len(q.defs[x].params)
    BY DEF Signature
  <2> QED
    BY <1>5, <2>1, <2>2 DEF Resigned
<1>7. Undisturbed(r, p, x)
  BY <1>6 DEF Clear
<1>8. p.defs[x].params = r.defs[x].params
  BY <1>1, <1>7 DEF Undisturbed, ParamsOf
<1>9. \A y : Follows(ParamsOf(r, y), ParamsOf(q, y), ParamsOf(p, y), ParamsOf(o, y))
  BY <1>1, <1>3, <1>4, <1>5, <1>8 DEF ParamsOf, Follows
<1>10. \A y \in DOMAIN r.defs : y \in DOMAIN p.defs /\ Entry(p, y) = Entry(r, y) => Entry(o, y) = Entry(q, y)
  <2>1. SUFFICES ASSUME NEW y \in DOMAIN r.defs, y \in DOMAIN p.defs, Entry(p, y) = Entry(r, y)
                 PROVE  Entry(o, y) = Entry(q, y)
    OBVIOUS
  <2>2. /\ p.defs[y].kind = r.defs[y].kind /\ p.defs[y].calls = r.defs[y].calls
        /\ Len(p.defs[y].params) = Len(r.defs[y].params)
    BY <2>1, EntriesEqual
  <2>3. o.defs[y].kind = q.defs[y].kind /\ o.defs[y].calls = q.defs[y].calls
    BY <1>3, <1>4, <2>1, <2>2
  <2>4. Len(o.defs[y].params) = Len(q.defs[y].params)
    BY <1>3, <1>4, <1>8, <2>1, <2>2
  <2>5. y \in DOMAIN o.defs /\ y \in DOMAIN q.defs
    BY <1>3, <1>4, <2>1
  <2> QED
    BY <2>3, <2>4, <2>5, EntriesEqual
<1>11. \A y : Follows(Entry(r, y), Entry(q, y), Entry(p, y), Entry(o, y))
  <2>1. SUFFICES ASSUME NEW y PROVE Follows(Entry(r, y), Entry(q, y), Entry(p, y), Entry(o, y))
    OBVIOUS
  <2>2. CASE Entry(q, y) # Entry(r, y)
    <3>1. Entry(p, y) = Entry(r, y)
      BY <2>2 DEF Clear
    <3>2. y \in DOMAIN r.defs
      BY <1>3, <2>2 DEF Entry
    <3>3. y \in DOMAIN p.defs
      BY <3>1, <3>2 DEF Entry
    <3> QED
      BY <1>10, <2>2, <3>1, <3>2, <3>3 DEF Follows
  <2>3. CASE Entry(q, y) = Entry(r, y)
    <3>1. CASE y \notin DOMAIN p.defs
      <4>1. Entry(p, y) = {} /\ Entry(o, y) = {}
        BY <1>4, <3>1 DEF Entry
      <4> QED
        BY <2>3, <4>1 DEF Follows
    <3>2. CASE y \in DOMAIN p.defs
      <4>1. y # x
        BY <1>2, <2>3
      <4>2. ~\E c \in p.defs[y].calls : c.callee = x
        <5>1. SUFFICES ASSUME \E c \in p.defs[y].calls : c.callee = x PROVE FALSE
          OBVIOUS
        <5>2. Entry(p, y) = Entry(r, y)
          BY <1>7, <3>2, <5>1 DEF Undisturbed
        <5>3. y \in DOMAIN r.defs
          BY <3>2, <5>2 DEF Entry
        <5>4. p.defs[y].calls = r.defs[y].calls
          BY <3>2, <5>2, <5>3, EntriesEqual
        <5> QED
          BY <2>3, <5>1, <5>3, <5>4, EntryLengthens
      <4>3. Entry(o, y) = Entry(p, y)
        BY <3>2, <4>1, <4>2, EntryLengthens
      <4> QED
        BY <2>3, <4>3 DEF Follows
    <3> QED
      BY <3>1, <3>2
  <2> QED
    BY <2>2, <2>3
<1>12. /\ q.names = r.names /\ o.names = p.names /\ q.tests = r.tests /\ o.tests = p.tests
       /\ q.exports = r.exports /\ o.exports = p.exports
  BY DEF Lengthened
<1>13. \A y : ExportsOf(q, y) = ExportsOf(r, y) /\ ExportsOf(o, y) = ExportsOf(p, y)
  BY <1>12 DEF ExportsOf
<1> QED
  BY <1>9, <1>11, <1>12, <1>13 DEF Alike, AlikeIn, Follows

\* One symbol is gone, with what names, exports and tests it.
Deleted(r, q, x) ==
  /\ x \in DOMAIN r.defs
  /\ DOMAIN q.defs = DOMAIN r.defs \ {x}
  /\ \A y \in DOMAIN q.defs : q.defs[y] = r.defs[y]
  /\ q.names = r.names \ BindingsOf(r.names, x)
  /\ q.exports = {e \in r.exports : e.symbol # x}
  /\ q.tests = {t \in r.tests : t.case.entry # x}

\* The symbol is as it was, and so are the tests, if they test it.
LEMMA DeletedAlike ==
  ASSUME NEW r, NEW q, NEW p, NEW o, NEW N, RootInv(r, N), RootInv(q, N), NEW x,
         Deleted(r, q, x), Deleted(p, o, x), Clear(r, q, p)
  PROVE  Alike(r, q, p, o)
<1>1. Resigned(r, q, x)
  <2>1. x \in DOMAIN r.defs /\ x \notin DOMAIN q.defs
    BY DEF Deleted
  <2>2. Part(r, x, "signature") = {Signature(r.defs[x])} /\ Part(q, x, "signature") = {}
    BY <2>1, PartsAre
  <2> QED
    BY <2>2 DEF Resigned
<1>2. Undisturbed(r, p, x)
  BY <1>1 DEF Clear
<1>3. \A y : y # x =>
        /\ Entry(q, y) = Entry(r, y) /\ Entry(o, y) = Entry(p, y)
        /\ BindingsOf(q.names, y) = BindingsOf(r.names, y) /\ BindingsOf(o.names, y) = BindingsOf(p.names, y)
        /\ ParamsOf(q, y) = ParamsOf(r, y) /\ ParamsOf(o, y) = ParamsOf(p, y)
        /\ ExportsOf(q, y) = ExportsOf(r, y) /\ ExportsOf(o, y) = ExportsOf(p, y)
  BY DEF Deleted, Entry, ParamsOf, ExportsOf, BindingsOf
<1>4. /\ Entry(q, x) = {} /\ Entry(o, x) = {} /\ ParamsOf(q, x) = <<>> /\ ParamsOf(o, x) = <<>>
      /\ BindingsOf(q.names, x) = {} /\ BindingsOf(o.names, x) = {}
      /\ ExportsOf(q, x) = {} /\ ExportsOf(o, x) = {}
  BY DEF Deleted, Entry, ParamsOf, ExportsOf, BindingsOf
<1>5. AlikeIn(r, q, p, o, x)
  BY <1>2, <1>4 DEF AlikeIn, Follows, Undisturbed
<1>6. \A y : AlikeIn(r, q, p, o, y)
  BY <1>3, <1>5 DEF AlikeIn, Follows
<1>7. q.tests = {t \in r.tests : t.case.entry # x} /\ o.tests = {t \in p.tests : t.case.entry # x}
  BY DEF Deleted
<1>8. Follows(r.tests, q.tests, p.tests, o.tests)
  <2>1. CASE q.tests # r.tests
    BY <1>7, <2>1 DEF Follows, Clear
  <2>2. CASE q.tests = r.tests
    <3>1. ~\E t \in r.tests : t.case.entry = x
      BY <1>7, <2>2
    <3>2. ~\E t \in p.tests : t.case.entry = x
      BY <1>2, <3>1 DEF Undisturbed
    <3>3. o.tests = p.tests
      BY <1>7, <3>2
    <3> QED
      BY <2>2, <3>3 DEF Follows
  <2> QED
    BY <2>1, <2>2
<1> QED
  BY <1>6, <1>8 DEF Alike

\* A symbol that neither root had comes with the same definition and name.
LEMMA CreatedAlike ==
  ASSUME NEW r, NEW q, NEW p, NEW o, NEW N, RootInv(r, N), RootInv(p, N), NEW x, NEW m, NEW k, NEW def,
         x \notin DOMAIN r.defs, x \notin DOMAIN p.defs,
         Has(q, r, x, m, k, def), Has(o, p, x, m, k, def)
  PROVE  Alike(r, q, p, o)
<1> DEFINE b == [module |-> m, name |-> k, symbol |-> x, preferred |-> TRUE]
<1>1. /\ \A c \in r.names : c.symbol # x
      /\ \A c \in p.names : c.symbol # x
  BY DEF RootInv, ShapeInv, NamesIdentify, LiveNames
<1>2. q.names = r.names \cup {b} /\ o.names = p.names \cup {b} /\ b.symbol = x
  BY DEF Has
<1> HIDE DEF b
<1>3. \A y : y # x => BindingsOf(q.names, y) = BindingsOf(r.names, y) /\ BindingsOf(o.names, y) = BindingsOf(p.names, y)
  BY <1>2 DEF BindingsOf
<1>4. BindingsOf(q.names, x) = {b} /\ BindingsOf(o.names, x) = {b}
  BY <1>1, <1>2 DEF BindingsOf
<1>5. BindingsOf(r.names, x) = {}
  BY <1>1 DEF BindingsOf
<1>6. \A y : y # x =>
        /\ Entry(q, y) = Entry(r, y) /\ Entry(o, y) = Entry(p, y)
        /\ ParamsOf(q, y) = ParamsOf(r, y) /\ ParamsOf(o, y) = ParamsOf(p, y)
  BY DEF Has, Entry, ParamsOf
<1>7. /\ x \in DOMAIN q.defs /\ x \in DOMAIN o.defs /\ q.defs[x] = def /\ o.defs[x] = def
  BY DEF Has
<1>8. /\ Entry(q, x) = Entry(o, x) /\ Entry(q, x) # {} /\ Entry(r, x) = {}
      /\ ParamsOf(q, x) = ParamsOf(o, x)
      /\ ParamsOf(r, x) = <<>> /\ ParamsOf(p, x) = <<>>
  BY <1>7 DEF Entry, ParamsOf
<1>9. q.exports = r.exports /\ o.exports = p.exports /\ q.tests = r.tests /\ o.tests = p.tests
  BY DEF Has
<1>10. \A y : ExportsOf(q, y) = ExportsOf(r, y) /\ ExportsOf(o, y) = ExportsOf(p, y)
  BY <1>9 DEF ExportsOf
<1>11. \A y : AlikeIn(r, q, p, o, y)
  <2>1. SUFFICES ASSUME NEW y PROVE AlikeIn(r, q, p, o, y)
    OBVIOUS
  <2>2. CASE y = x
    BY <1>4, <1>5, <1>8, <1>10, <2>2 DEF AlikeIn, Follows
  <2>3. CASE y # x
    BY <1>3, <1>6, <1>10, <2>3 DEF AlikeIn, Follows
  <2> QED
    BY <2>2, <2>3
<1> QED
  BY <1>9, <1>11 DEF Alike, Follows

-----------------------------------------------------------------------------
\* What the operations on names make of the names of their symbol.

RenamedNames(op, B) ==
  {IF b.module = op.on.module /\ b.name = op.on.name /\ b.preferred
   THEN [b EXCEPT !.name = op.new] ELSE b : b \in B}
MovedNames(op, B) == {[b EXCEPT !.module = op.to] : b \in B}
AliasedNames(op, B) ==
  B \cup {[module |-> op.on.module, name |-> op.alias, symbol |-> op.on.symbol, preferred |-> FALSE]}
UnaliasedNames(op, B) ==
  {b \in B : ~(b.module = op.on.module /\ b.name = op.alias /\ ~b.preferred)}

\* apply_rename_symbol
LEMMA RenameEffect ==
  ASSUME NEW r, NEW N, RootInv(r, N), NEW op, NEW q \in RenameHandler(r, op),
         NEW B, B = BindingsOf(r.names, op.on.symbol)
  PROVE  /\ NameEdit(r, q, op.on.symbol, RenamedNames(op, B))
         /\ RenamedNames(op, B) # B
         /\ \E b \in B : b.module = op.on.module /\ b.name = op.on.name /\ b.preferred
<1> DEFINE mine(b) == /\ b.module = op.on.module /\ b.name = op.on.name
                      /\ b.symbol = op.on.symbol /\ b.preferred
           new(b) == IF mine(b) THEN [b EXCEPT !.name = op.new] ELSE b
           M == {new(b) : b \in r.names}
<1>0. IsRoot(r)
  BY DEF RootInv, ShapeInv
<1>1. /\ Available(r.names, op.on.module, op.new) /\ StillPreferred(r, op)
      /\ q \in Stored([r EXCEPT !.names = M])
  BY <1>0 DEF RenameHandler, IsRoot
<1>2. q = [r EXCEPT !.names = M]
  <2> HIDE DEF M
  <2> QED
    BY <1>1, StoredIsStorable
<1>3. /\ q.defs = r.defs /\ q.names = M /\ q.exports = r.exports /\ q.tests = r.tests
  <2> HIDE DEF M
  <2> QED
    BY <1>0, <1>2 DEF IsRoot
<1>4. \A b \in r.names :
        /\ b \in Binding /\ new(b).symbol = b.symbol
        /\ b.symbol # op.on.symbol => new(b) = b
        /\ b.symbol = op.on.symbol =>
             new(b) = IF b.module = op.on.module /\ b.name = op.on.name /\ b.preferred
                      THEN [b EXCEPT !.name = op.new] ELSE b
  BY <1>0 DEF IsRoot, Binding
<1> HIDE DEF new
<1>5. BindingsOf(M, op.on.symbol) = RenamedNames(op, B)
  BY <1>4 DEF BindingsOf, RenamedNames
<1>6. \A y : y # op.on.symbol => BindingsOf(M, y) = BindingsOf(r.names, y)
  BY <1>4 DEF BindingsOf
<1>7. PICK b \in B : b.module = op.on.module /\ b.name = op.on.name /\ b.preferred
  BY <1>1 DEF StillPreferred, Prefers, At, BindingsOf
<1>8. RenamedNames(op, B) # B
  <2>1. b \in Binding
    BY <1>4 DEF BindingsOf
  <2>2. [b EXCEPT !.name = op.new] \in RenamedNames(op, B)
    BY <1>7 DEF RenamedNames
  <2>3. [b EXCEPT !.name = op.new].module = op.on.module /\ [b EXCEPT !.name = op.new].name = op.new
    BY <1>7, <2>1 DEF Binding
  <2>4. \A c \in B : ~(c.module = op.on.module /\ c.name = op.new)
    BY <1>1 DEF Available, At, BindingsOf
  <2> QED
    BY <2>2, <2>3, <2>4
<1> HIDE DEF M
<1> QED
  BY <1>3, <1>5, <1>6, <1>7, <1>8 DEF NameEdit

\* apply_move_symbol
LEMMA MoveEffect ==
  ASSUME NEW r, NEW N, RootInv(r, N), NEW op, op.to # op.on.module, NEW q \in MoveHandler(r, op),
         NEW B, B = BindingsOf(r.names, op.on.symbol)
  PROVE  /\ NameEdit(r, q, op.on.symbol, MovedNames(op, B))
         /\ MovedNames(op, B) # B
         /\ \A b \in B : b.module = op.on.module
<1> DEFINE M == NamesMoved(r, op)
           new(b) == IF b \in M THEN [b EXCEPT !.module = op.to] ELSE b
           L == {new(b) : b \in r.names}
           s == op.on.symbol
<1>0. IsRoot(r) /\ OneModule(r)
  BY DEF RootInv, ShapeInv, NamesIdentify
<1>1. /\ StillPreferred(r, op)
      /\ q \in Checked(Synchronize([r EXCEPT !.names = L]))
  BY <1>0 DEF MoveHandler, IsRoot
<1>2. [r EXCEPT !.names = L] =
        [defs |-> r.defs, names |-> L, exports |-> r.exports, tests |-> r.tests, listed |-> r.listed]
  <2> HIDE DEF L
  <2> QED
    BY <1>0, NamesFields
<1>3. q = Synchronize([r EXCEPT !.names = L])
  <2> HIDE DEF L
  <2> QED
    BY <1>1, StoredIsStorable
<1>4. q = [defs |-> r.defs, names |-> L, exports |-> r.exports, tests |-> r.tests,
           listed |-> {b.module : b \in L}]
  <2> HIDE DEF L
  <2> QED
    BY <1>2, <1>3, SynchronizeFields
<1>5. q.defs = r.defs /\ q.names = L /\ q.exports = r.exports /\ q.tests = r.tests
  <2> HIDE DEF L
  <2> QED
    BY <1>4
<1>6. PICK a \in r.names : a.symbol = s /\ a.module = op.on.module
  BY <1>1 DEF StillPreferred, Prefers, At
<1>7. \A b \in r.names : (b \in M <=> b.symbol = s) /\ (b \in M => b.module = op.on.module)
  BY <1>0, <1>6 DEF NamesMoved, BindingsOf, OneModule
<1>8. \A b \in r.names : b \in Binding /\ new(b).symbol = b.symbol
  BY <1>0 DEF IsRoot, Binding
<1>9. \A b \in r.names : /\ b.symbol = s => new(b) = [b EXCEPT !.module = op.to]
                         /\ b.symbol # s => new(b) = b
  BY <1>7
<1>10. B = {b \in r.names : b.symbol = s}
  BY DEF BindingsOf
<1> HIDE DEF new, M
<1>11. BindingsOf(L, s) = MovedNames(op, B)
  BY <1>8, <1>9, <1>10 DEF BindingsOf, MovedNames
<1>12. \A y : y # s => BindingsOf(L, y) = BindingsOf(r.names, y)
  BY <1>8, <1>9 DEF BindingsOf
<1>13. \A b \in B : b.module = op.on.module
  BY <1>7, <1>10
<1>14. MovedNames(op, B) # B
  <2>1. a \in B /\ a \in Binding
    BY <1>6, <1>8, <1>10
  <2>2. [a EXCEPT !.module = op.to] \in MovedNames(op, B) /\ [a EXCEPT !.module = op.to].module = op.to
    BY <2>1 DEF MovedNames, Binding
  <2> QED
    BY <1>13, <2>2
<1> HIDE DEF L, s
<1> QED
  BY <1>5, <1>11, <1>12, <1>13, <1>14 DEF NameEdit, s

\* apply_create_alias
LEMMA CreateAliasEffect ==
  ASSUME NEW r, NEW N, RootInv(r, N), NEW op, NEW q \in CreateAliasHandler(r, op),
         NEW B, B = BindingsOf(r.names, op.on.symbol)
  PROVE  /\ NameEdit(r, q, op.on.symbol, AliasedNames(op, B))
         /\ AliasedNames(op, B) # B
         /\ \E b \in B : b.module = op.on.module
<1> DEFINE a == [module |-> op.on.module, name |-> op.alias, symbol |-> op.on.symbol, preferred |-> FALSE]
<1>0. IsRoot(r)
  BY DEF RootInv, ShapeInv
<1>1. /\ StillNamed(r, op) /\ Available(r.names, op.on.module, op.alias)
      /\ q \in Stored([r EXCEPT !.names = r.names \cup {a}])
  BY <1>0 DEF CreateAliasHandler, WithName, IsRoot
<1>2. a.module = op.on.module /\ a.name = op.alias /\ a.symbol = op.on.symbol
  OBVIOUS
<1>3. AliasedNames(op, B) = B \cup {a}
  BY DEF AliasedNames
<1> HIDE DEF a
<1>4. q = [r EXCEPT !.names = r.names \cup {a}]
  BY <1>1, StoredIsStorable
<1>5. q.defs = r.defs /\ q.names = r.names \cup {a} /\ q.exports = r.exports /\ q.tests = r.tests
  BY <1>0, <1>4 DEF IsRoot
<1>6. a \notin r.names
  BY <1>1, <1>2 DEF Available, At
<1>7. \A y : BindingsOf(q.names, y) = IF y = op.on.symbol THEN B \cup {a} ELSE BindingsOf(r.names, y)
  BY <1>2, <1>5 DEF BindingsOf
<1>8. \E b \in B : b.module = op.on.module
  BY <1>1 DEF StillNamed, PointsTo, At, BindingsOf
<1> QED
  BY <1>3, <1>5, <1>6, <1>7, <1>8 DEF NameEdit, BindingsOf

\* apply_remove_alias
LEMMA RemoveAliasEffect ==
  ASSUME NEW r, NEW N, RootInv(r, N), NEW op, NEW q \in RemoveAliasHandler(r, op),
         NEW B, B = BindingsOf(r.names, op.on.symbol)
  PROVE  /\ NameEdit(r, q, op.on.symbol, UnaliasedNames(op, B))
         /\ UnaliasedNames(op, B) # B
         /\ \E b \in B : b.module = op.on.module
<1> DEFINE removed == {b \in At(r.names, op.on.module, op.alias) : b.symbol = op.on.symbol /\ ~b.preferred}
<1>0. IsRoot(r)
  BY DEF RootInv, ShapeInv
<1>1. /\ StillNamed(r, op) /\ removed # {}
      /\ q \in Stored([r EXCEPT !.names = r.names \ removed])
  BY <1>0 DEF RemoveAliasHandler, IsRoot
<1>2. \A b \in r.names : b \in removed <=>
        b.symbol = op.on.symbol /\ b.module = op.on.module /\ b.name = op.alias /\ ~b.preferred
  BY DEF At
<1>3. removed \subseteq r.names
  BY DEF At
<1> HIDE DEF removed
<1>4. q = [r EXCEPT !.names = r.names \ removed]
  BY <1>1, StoredIsStorable
<1>5. q.defs = r.defs /\ q.names = r.names \ removed /\ q.exports = r.exports /\ q.tests = r.tests
  BY <1>0, <1>4 DEF IsRoot
<1>6. \A y : BindingsOf(q.names, y) = IF y = op.on.symbol THEN UnaliasedNames(op, B) ELSE BindingsOf(r.names, y)
  BY <1>2, <1>5 DEF BindingsOf, UnaliasedNames
<1>7. UnaliasedNames(op, B) # B
  BY <1>1, <1>2, <1>3 DEF BindingsOf, UnaliasedNames
<1>8. \E b \in B : b.module = op.on.module
  BY <1>1 DEF StillNamed, PointsTo, At, BindingsOf
<1> QED
  BY <1>5, <1>6, <1>7, <1>8 DEF NameEdit

-----------------------------------------------------------------------------
\* An operation that is aimed at another root.

\* It names its symbol by the name that the symbol prefers there.
LEMMA Retarget ==
  ASSUME NEW p, NEW N, RootInv(p, N), NEW op, Located(op), NEW to, to = Retargeted(p, op),
         StillNamed(p, to)
  PROVE  \E b \in BindingsOf(p.names, op.on.symbol) :
           /\ b.preferred
           /\ \A c \in BindingsOf(p.names, op.on.symbol) : c.preferred => c = b
           /\ to = [op EXCEPT !.on = [module |-> b.module, name |-> b.name, symbol |-> op.on.symbol]]
<1> DEFINE B == BindingsOf(p.names, op.on.symbol)
<1>1. B # {}
  <2>1. SUFFICES ASSUME B = {} PROVE FALSE
    OBVIOUS
  <2>2. to = op
    BY <2>1 DEF Retargeted
  <2> QED
    BY <2>1, <2>2 DEF StillNamed, PointsTo, At, BindingsOf
<1>2. PICK c \in p.names : c.symbol = op.on.symbol
  BY <1>1 DEF BindingsOf
<1>3. op.on.symbol \in DOMAIN p.defs /\ op.on.symbol[1] = "born" /\ OnePreferred(p)
  BY <1>2 DEF RootInv, ShapeInv, NamesIdentify, LiveNames
<1>4. \E b \in B : b.preferred
  BY <1>3 DEF OnePreferred, BindingsOf
<1> DEFINE b == PreferredBinding(p.names, op.on.symbol)
<1>5. b \in B /\ b.preferred
  BY <1>4 DEF PreferredBinding
<1>6. \A d \in B : d.preferred => d = b
  BY <1>3, <1>5 DEF OnePreferred, BindingsOf
<1>7. to = [op EXCEPT !.on = [module |-> b.module, name |-> b.name, symbol |-> b.symbol]]
  BY <1>1 DEF Retargeted
<1>8. b.symbol = op.on.symbol
  BY <1>5 DEF BindingsOf
<1> HIDE DEF b
<1> QED
  BY <1>5, <1>6, <1>7, <1>8

\* An edit of the source and what it makes of another root, which says of what
\* the edit touches what the source said.
Replays(r, q, p, o, op, k, N) ==
  /\ Good(r, N) /\ Good(q, N) /\ Good(p, N) /\ N \in Nat
  /\ op \in EditOps(r) /\ q \in Accepted(r, k, op)
  /\ Creates(op) => k \in Nat /\ RootInv(r, k) /\ k + 1 <= N
  /\ \E to \in Aimed(r, p, op) : o \in Accepted(p, k, to)
  /\ Clear(r, q, p)

\* Renaming.
LEMMA RenameReplayed ==
  ASSUME NEW r, NEW q, NEW p, NEW o, NEW op, NEW k, NEW N, Replays(r, q, p, o, op, k, N),
         op \in RenameOps(r)
  PROVE  Alike(r, q, p, o)
<1> DEFINE x == op.on.symbol
           B == BindingsOf(r.names, x)
           to == Retargeted(p, op)
<1>1. /\ op.op = "rename_symbol" /\ Located(op) /\ ~Written(op)
      /\ op = [op |-> op.op, on |-> op.on, new |-> op.new]
      /\ op.on = [module |-> op.on.module, name |-> op.on.name, symbol |-> op.on.symbol]
  BY DEF RenameOps, Located, Written, Named
<1>2. RootInv(r, N) /\ RootInv(p, N) /\ Clear(r, q, p) /\ q \in Accepted(r, k, op) /\ o \in Accepted(p, k, to)
  BY <1>1 DEF Replays, Good, Aimed
<1>3. to.op = "rename_symbol"
  BY <1>1 DEF Retargeted
<1> HIDE DEF to
<1>4. q \in RenameHandler(r, op) /\ o \in RenameHandler(p, to) /\ StillPreferred(p, to)
  BY <1>1, <1>2, <1>3 DEF Accepted, Handle, Pre
<1>5. StillNamed(p, to)
  BY <1>4 DEF StillPreferred, StillNamed, Prefers, PointsTo
<1>6. /\ NameEdit(r, q, x, RenamedNames(op, B)) /\ RenamedNames(op, B) # B
      /\ \E b \in B : b.module = op.on.module /\ b.name = op.on.name /\ b.preferred
  BY <1>2, <1>4, RenameEffect
<1>7. BindingsOf(p.names, x) = B
  BY <1>2, <1>6 DEF NameEdit, Clear
<1>8. PICK b \in B : /\ b.preferred
                     /\ \A c \in B : c.preferred => c = b
                     /\ to = [op EXCEPT !.on = [module |-> b.module, name |-> b.name, symbol |-> op.on.symbol]]
  BY <1>1, <1>2, <1>5, <1>7, Retarget DEF to
<1>9. b.module = op.on.module /\ b.name = op.on.name
  BY <1>6, <1>8
<1>10. to = op
  BY <1>1, <1>8, <1>9
<1>11. NameEdit(p, o, x, RenamedNames(op, B))
  BY <1>2, <1>4, <1>7, <1>10, RenameEffect
<1> QED
  BY <1>6, <1>11, NamesAlike

\* Moving.
LEMMA MoveReplayed ==
  ASSUME NEW r, NEW q, NEW p, NEW o, NEW op, NEW k, NEW N, Replays(r, q, p, o, op, k, N),
         op \in MoveOps(r)
  PROVE  Alike(r, q, p, o)
<1> DEFINE x == op.on.symbol
           B == BindingsOf(r.names, x)
           to == Retargeted(p, op)
<1>1. /\ op.op = "move_symbol" /\ Located(op) /\ ~Written(op)
      /\ op = [op |-> op.op, on |-> op.on, to |-> op.to]
  BY DEF MoveOps, Located, Written
<1>2. RootInv(r, N) /\ RootInv(p, N) /\ Clear(r, q, p) /\ q \in Accepted(r, k, op) /\ o \in Accepted(p, k, to)
  BY <1>1 DEF Replays, Good, Aimed
<1>3. to.op = "move_symbol" /\ to.to = op.to
  BY <1>1 DEF Retargeted
<1> HIDE DEF to
<1>4. /\ q \in MoveHandler(r, op) /\ o \in MoveHandler(p, to) /\ StillPreferred(p, to)
      /\ q # r /\ o # p
  BY <1>1, <1>2, <1>3 DEF Accepted, Handle, Pre
<1>5. StillNamed(p, to)
  BY <1>4 DEF StillPreferred, StillNamed, Prefers, PointsTo
<1>6. op.to # op.on.module /\ to.to # to.on.module
  BY <1>4 DEF MoveHandler
<1>7. /\ NameEdit(r, q, x, MovedNames(op, B)) /\ MovedNames(op, B) # B
  BY <1>2, <1>4, <1>6, MoveEffect
<1>8. BindingsOf(p.names, x) = B
  BY <1>2, <1>7 DEF NameEdit, Clear
<1>9. to.on.symbol = x
  <2>1. PICK b \in B : to = [op EXCEPT !.on = [module |-> b.module, name |-> b.name, symbol |-> op.on.symbol]]
    BY <1>1, <1>2, <1>5, <1>8, Retarget DEF to
  <2> QED
    BY <1>1, <2>1
<1>10. MovedNames(to, B) = MovedNames(op, B)
  BY <1>3 DEF MovedNames
<1>11. NameEdit(p, o, x, MovedNames(op, B))
  <2>1. NameEdit(p, o, to.on.symbol, MovedNames(to, BindingsOf(p.names, to.on.symbol)))
    BY <1>2, <1>4, <1>6, MoveEffect
  <2> QED
    BY <1>8, <1>9, <1>10, <2>1
<1> QED
  BY <1>7, <1>11, NamesAlike

\* A further name, and one less.
LEMMA AliasReplayed ==
  ASSUME NEW r, NEW q, NEW p, NEW o, NEW op, NEW k, NEW N, Replays(r, q, p, o, op, k, N),
         op \in CreateAliasOps(r) \cup RemoveAliasOps(r)
  PROVE  Alike(r, q, p, o)
<1> DEFINE x == op.on.symbol
           B == BindingsOf(r.names, x)
           to == Retargeted(p, op)
           made(o_1) == IF op.op = "create_alias" THEN AliasedNames(o_1, B) ELSE UnaliasedNames(o_1, B)
<1>1. /\ op.op \in {"create_alias", "remove_alias"} /\ Located(op) /\ ~Written(op)
      /\ op = [op |-> op.op, on |-> op.on, alias |-> op.alias]
  BY DEF CreateAliasOps, RemoveAliasOps, Located, Written
<1>2. RootInv(r, N) /\ RootInv(p, N) /\ Clear(r, q, p) /\ q \in Accepted(r, k, op) /\ o \in Accepted(p, k, to)
  BY <1>1 DEF Replays, Good, Aimed
<1>3. to.op = op.op /\ to.alias = op.alias
  BY <1>1 DEF Retargeted
<1> HIDE DEF to
<1>4. /\ op.op = "create_alias" => q \in CreateAliasHandler(r, op) /\ o \in CreateAliasHandler(p, to)
      /\ op.op = "remove_alias" => q \in RemoveAliasHandler(r, op) /\ o \in RemoveAliasHandler(p, to)
      /\ StillNamed(p, to)
  BY <1>1, <1>2, <1>3 DEF Accepted, Handle, Pre
<1>5. /\ NameEdit(r, q, x, made(op)) /\ made(op) # B
      /\ \E b \in B : b.module = op.on.module
  <2>1. CASE op.op = "create_alias"
    BY <1>2, <1>4, <2>1, CreateAliasEffect
  <2>2. CASE op.op = "remove_alias"
    BY <1>2, <1>4, <2>2, RemoveAliasEffect
  <2> QED
    BY <1>1, <2>1, <2>2
<1>6. BindingsOf(p.names, x) = B
  <2> HIDE DEF made
  <2> QED
    BY <1>2, <1>5 DEF NameEdit, Clear
<1>7. PICK b \in B : to = [op EXCEPT !.on = [module |-> b.module, name |-> b.name, symbol |-> op.on.symbol]]
  BY <1>1, <1>2, <1>4, <1>6, Retarget DEF to
<1>8. to.on.symbol = x /\ to.on.module = b.module
  BY <1>1, <1>7
<1>9. to.on.module = op.on.module
  <2>1. OneModule(r)
    BY <1>2 DEF RootInv, ShapeInv, NamesIdentify
  <2> QED
    BY <1>5, <1>8, <2>1 DEF OneModule, BindingsOf
<1>10. made(to) = made(op)
  BY <1>3, <1>8, <1>9 DEF AliasedNames, UnaliasedNames
<1>11. NameEdit(p, o, x, made(to))
  <2>1. BindingsOf(p.names, to.on.symbol) = B
    BY <1>6, <1>8
  <2>2. CASE op.op = "create_alias"
    <3>1. NameEdit(p, o, to.on.symbol, AliasedNames(to, B))
      BY <1>2, <1>4, <2>1, <2>2, CreateAliasEffect
    <3> QED
      BY <1>8, <2>2, <3>1
  <2>3. CASE op.op = "remove_alias"
    <3>1. NameEdit(p, o, to.on.symbol, UnaliasedNames(to, B))
      BY <1>2, <1>4, <2>1, <2>3, RemoveAliasEffect
    <3> QED
      BY <1>8, <2>3, <3>1
  <2> QED
    BY <1>1, <2>2, <2>3
<1> HIDE DEF made
<1> QED
  BY <1>5, <1>10, <1>11, NamesAlike

\* apply_set_export, apply_remove_export
Exported(op, E) ==
  LET e == [name |-> op.exported, symbol |-> op.on.symbol]
  IN  IF op.op = "set_export" THEN E \cup {e} ELSE E \ {e}

\* Setting or removing an export changes the exports of its symbol
\* (apply_set_export, apply_remove_export).
LEMMA ExportEffect ==
  ASSUME NEW r, NEW N, RootInv(r, N), NEW op, NEW q,
         \/ op.op = "set_export" /\ q \in SetExportHandler(r, op)
         \/ op.op = "remove_export" /\ q \in RemoveExportHandler(r, op),
         NEW E, E = ExportsOf(r, op.on.symbol)
  PROVE  ExportEdit(r, q, op.on.symbol, Exported(op, E)) /\ Exported(op, E) # E
<1> DEFINE e == [name |-> op.exported, symbol |-> op.on.symbol]
           X == IF op.op = "set_export" THEN r.exports \cup {e} ELSE r.exports \ {e}
<1>0. IsRoot(r)
  BY DEF RootInv, ShapeInv
<1>1. e.name = op.exported /\ e.symbol = op.on.symbol
  OBVIOUS
<1>2. /\ q \in Stored([r EXCEPT !.exports = X])
      /\ op.op = "set_export" => e \notin r.exports
      /\ op.op # "set_export" => e \in r.exports
  BY <1>0 DEF SetExportHandler, RemoveExportHandler, IsRoot
<1>3. Exported(op, E) = IF op.op = "set_export" THEN E \cup {e} ELSE E \ {e}
  BY DEF Exported
<1> HIDE DEF e
<1>4. q = [r EXCEPT !.exports = X]
  <2> HIDE DEF X
  <2> QED
    BY <1>2, StoredIsStorable
<1>5. q.defs = r.defs /\ q.names = r.names /\ q.exports = X /\ q.tests = r.tests
  <2> HIDE DEF X
  <2> QED
    BY <1>0, <1>4 DEF IsRoot
<1>6. \A y : ExportsOf(q, y) = IF y = op.on.symbol THEN Exported(op, E) ELSE ExportsOf(r, y)
  BY <1>1, <1>3, <1>5 DEF ExportsOf
<1>7. Exported(op, E) # E
  BY <1>1, <1>2, <1>3 DEF ExportsOf
<1> QED
  BY <1>5, <1>6, <1>7 DEF ExportEdit

\* Exporting, and no longer.
LEMMA ExportReplayed ==
  ASSUME NEW r, NEW q, NEW p, NEW o, NEW op, NEW k, NEW N, Replays(r, q, p, o, op, k, N),
         op \in SetExportOps(r) \cup RemoveExportOps(r)
  PROVE  Alike(r, q, p, o)
<1> DEFINE x == op.on.symbol
           E == ExportsOf(r, x)
           to == Retargeted(p, op)
<1>1. /\ op.op \in {"set_export", "remove_export"} /\ Located(op) /\ ~Written(op)
      /\ op = [op |-> op.op, on |-> op.on, exported |-> op.exported]
  BY DEF SetExportOps, RemoveExportOps, Located, Written
<1>2. RootInv(r, N) /\ RootInv(p, N) /\ Clear(r, q, p) /\ q \in Accepted(r, k, op) /\ o \in Accepted(p, k, to)
  BY <1>1 DEF Replays, Good, Aimed
<1>3. to.op = op.op /\ to.exported = op.exported
  BY <1>1 DEF Retargeted
<1> HIDE DEF to
<1>4. /\ op.op = "set_export" => q \in SetExportHandler(r, op) /\ o \in SetExportHandler(p, to)
      /\ op.op = "remove_export" => q \in RemoveExportHandler(r, op) /\ o \in RemoveExportHandler(p, to)
      /\ StillNamed(p, to)
  BY <1>1, <1>2, <1>3 DEF Accepted, Handle, Pre
<1>5. to.on.symbol = x
  <2>1. \E b \in BindingsOf(p.names, x) :
          to = [op EXCEPT !.on = [module |-> b.module, name |-> b.name, symbol |-> op.on.symbol]]
    BY <1>1, <1>2, <1>4, Retarget DEF to
  <2> QED
    BY <1>1, <2>1
<1>6. ExportEdit(r, q, x, Exported(op, E)) /\ Exported(op, E) # E
  BY <1>1, <1>2, <1>4, ExportEffect
<1>7. ExportsOf(p, x) = E
  BY <1>2, <1>6 DEF ExportEdit, Clear
<1>8. ExportEdit(p, o, x, Exported(to, E))
  BY <1>1, <1>2, <1>3, <1>4, <1>5, <1>7, ExportEffect
<1>9. Exported(to, E) = Exported(op, E)
  BY <1>3, <1>5 DEF Exported
<1> QED
  BY <1>6, <1>8, <1>9, ExportsAlike

\* apply_create_test, apply_delete_test
LEMMA TestEffect ==
  ASSUME NEW r, NEW N, RootInv(r, N), NEW op, NEW q, NEW t,
         \/ /\ t = [name |-> op.test, case |-> [entry |-> op.on.symbol, args |-> op.args, expected |-> op.expected]]
            /\ q \in CreateTestHandler(r, op)
         \/ t = op.bound /\ q \in DeleteTestHandler(r, op)
  PROVE  \/ t \notin r.tests /\ TestEdit(r, q, r.tests \cup {t})
         \/ t \in r.tests /\ TestEdit(r, q, r.tests \ {t})
<1>0. IsRoot(r)
  BY DEF RootInv, ShapeInv
<1>1. CASE /\ t = [name |-> op.test, case |-> [entry |-> op.on.symbol, args |-> op.args, expected |-> op.expected]]
           /\ q \in CreateTestHandler(r, op)
  <2>1. ~(\E u \in r.tests : u.name = op.test) /\ q \in Checked([r EXCEPT !.tests = r.tests \cup {t}])
    BY <1>0, <1>1 DEF CreateTestHandler, IsRoot
  <2>2. t.name = op.test
    BY <1>1
  <2>3. q = [r EXCEPT !.tests = r.tests \cup {t}]
    BY <2>1, StoredIsStorable
  <2> QED
    BY <1>0, <2>1, <2>2, <2>3 DEF IsRoot, TestEdit
<1>2. CASE t = op.bound /\ q \in DeleteTestHandler(r, op)
  <2>1. t \in r.tests /\ q \in Checked([r EXCEPT !.tests = r.tests \ {t}])
    BY <1>0, <1>2 DEF DeleteTestHandler, IsRoot
  <2>2. q = [r EXCEPT !.tests = r.tests \ {t}]
    BY <2>1, StoredIsStorable
  <2> QED
    BY <1>0, <2>1, <2>2 DEF IsRoot, TestEdit
<1> QED
  BY <1>1, <1>2

\* Tests.
LEMMA TestReplayed ==
  ASSUME NEW r, NEW q, NEW p, NEW o, NEW op, NEW k, NEW N, Replays(r, q, p, o, op, k, N),
         op \in CreateTestOps(r) \cup DeleteTestOps(r)
  PROVE  Alike(r, q, p, o)
<1> DEFINE to == Retargeted(p, op)
<1>1. ~Written(op)
  BY DEF CreateTestOps, DeleteTestOps, Written
<1>2. RootInv(r, N) /\ RootInv(p, N) /\ Clear(r, q, p) /\ q \in Accepted(r, k, op) /\ o \in Accepted(p, k, to)
  BY <1>1 DEF Replays, Good, Aimed
<1>3. \E t : /\ \/ t \notin r.tests /\ TestEdit(r, q, r.tests \cup {t})
                \/ t \in r.tests /\ TestEdit(r, q, r.tests \ {t})
             /\ \/ t \notin p.tests /\ TestEdit(p, o, p.tests \cup {t})
                \/ t \in p.tests /\ TestEdit(p, o, p.tests \ {t})
  <2>1. CASE op \in CreateTestOps(r)
    <3>1. /\ op.op = "create_test" /\ Located(op)
          /\ op = [op |-> op.op, on |-> op.on, test |-> op.test, args |-> op.args, expected |-> op.expected]
      BY <2>1 DEF CreateTestOps, Located
    <3>2. to.op = op.op /\ to.test = op.test /\ to.args = op.args /\ to.expected = op.expected
      BY <3>1 DEF Retargeted
    <3> HIDE DEF to
    <3>3. q \in CreateTestHandler(r, op) /\ o \in CreateTestHandler(p, to) /\ StillNamed(p, to)
      BY <1>2, <3>1, <3>2 DEF Accepted, Handle, Pre
    <3>4. to.on.symbol = op.on.symbol
      <4>1. \E b \in BindingsOf(p.names, op.on.symbol) :
              to = [op EXCEPT !.on = [module |-> b.module, name |-> b.name, symbol |-> op.on.symbol]]
        BY <1>2, <3>1, <3>3, Retarget DEF to
      <4> QED
        BY <3>1, <4>1
    <3> DEFINE t == [name |-> op.test, case |-> [entry |-> op.on.symbol, args |-> op.args, expected |-> op.expected]]
    <3>5. t = [name |-> to.test, case |-> [entry |-> to.on.symbol, args |-> to.args, expected |-> to.expected]]
      BY <3>2, <3>4
    <3>6. t = [name |-> op.test, case |-> [entry |-> op.on.symbol, args |-> op.args, expected |-> op.expected]]
      OBVIOUS
    <3> HIDE DEF t
    <3>7. \/ t \notin r.tests /\ TestEdit(r, q, r.tests \cup {t})
          \/ t \in r.tests /\ TestEdit(r, q, r.tests \ {t})
      BY <1>2, <3>3, <3>6, TestEffect
    <3>8. \/ t \notin p.tests /\ TestEdit(p, o, p.tests \cup {t})
          \/ t \in p.tests /\ TestEdit(p, o, p.tests \ {t})
      BY <1>2, <3>3, <3>5, TestEffect
    <3> QED
      BY <3>7, <3>8
  <2>2. CASE op \in DeleteTestOps(r)
    <3>1. op.op = "delete_test" /\ to = op
      BY <2>2 DEF DeleteTestOps, Located, Retargeted
    <3> HIDE DEF to
    <3>2. q \in DeleteTestHandler(r, op) /\ o \in DeleteTestHandler(p, op)
      BY <1>2, <3>1 DEF Accepted, Handle
    <3>3. \/ op.bound \notin r.tests /\ TestEdit(r, q, r.tests \cup {op.bound})
          \/ op.bound \in r.tests /\ TestEdit(r, q, r.tests \ {op.bound})
      BY <1>2, <3>2, TestEffect
    <3>4. \/ op.bound \notin p.tests /\ TestEdit(p, o, p.tests \cup {op.bound})
          \/ op.bound \in p.tests /\ TestEdit(p, o, p.tests \ {op.bound})
      BY <1>2, <3>2, TestEffect
    <3> QED
      BY <3>3, <3>4
  <2> QED
    BY <2>1, <2>2
<1>4. PICK t : /\ \/ t \notin r.tests /\ TestEdit(r, q, r.tests \cup {t})
                  \/ t \in r.tests /\ TestEdit(r, q, r.tests \ {t})
               /\ \/ t \notin p.tests /\ TestEdit(p, o, p.tests \cup {t})
                  \/ t \in p.tests /\ TestEdit(p, o, p.tests \ {t})
  BY <1>3
<1>5. q.tests # r.tests
  BY <1>4 DEF TestEdit
<1>6. p.tests = r.tests
  BY <1>2, <1>5 DEF Clear
<1>7. TestEdit(r, q, q.tests) /\ TestEdit(p, o, q.tests)
  BY <1>4, <1>6 DEF TestEdit
<1> QED
  BY <1>5, <1>7, TestsAlike

-----------------------------------------------------------------------------
\* Bodies, where nothing is generic.

Plain(r, calls) ==
  \A c \in calls : /\ c \in Call /\ c.at = "plain"
                   /\ c.callee \in DOMAIN r.defs /\ c.callee[1] = "born"
                   /\ r.defs[c.callee].kind # "generic"

\* The calls of a body are such calls.
LEMMA BodiesPlain ==
  ASSUME NEW r, NEW N, Good(r, N), NEW y \in DOMAIN r.defs
  PROVE  Plain(r, r.defs[y].calls)
<1>1. \A c \in r.defs[y].calls : c \in Call /\ c.callee \in DOMAIN r.defs /\ c.callee[1] = "born"
  BY CallsKnown DEF Good
<1> QED
  BY <1>1 DEF Good, Monomorphic, Plain

\* What is written out is read as the same calls.
LEMMA ReadBack ==
  ASSUME NEW r, NEW N, ShapeInv(r, N), NEW here, NEW kind, NEW calls, Plain(r, calls)
  PROVE  Elaborate(r, here, kind, Render(r, here, calls)) = calls
<1> DEFINE raw(c) == LET b == PreferredBinding(r.names, c.callee)
                     IN  [module |-> IF b.module = here THEN Here ELSE b.module,
                          name |-> b.name, args |-> c.args]
           read(w) == LET s == Resolve(r.names, Target(here, w), w.name)
                      IN  [callee |-> s, args |-> w.args, at |-> TypedAt(kind, r.defs[s].kind)]
<1>1. Render(r, here, calls) = {raw(c) : c \in calls}
  BY DEF Render
<1>2. Elaborate(r, here, kind, Render(r, here, calls)) = {read(w) : w \in Render(r, here, calls)}
  BY DEF Elaborate
<1>3. \A c \in calls : read(raw(c)) = c
  <2>1. SUFFICES ASSUME NEW c \in calls PROVE read(raw(c)) = c
    OBVIOUS
  <2>2. /\ c \in Call /\ c.at = "plain" /\ c.callee \in DOMAIN r.defs /\ c.callee[1] = "born"
        /\ r.defs[c.callee].kind # "generic"
    BY <2>1 DEF Plain
  <2>3. IsRoot(r) /\ UniqueNames(r) /\ OnePreferred(r)
    BY DEF ShapeInv, NamesIdentify
  <2>4. Resolve(r.names, Target(here, raw(c)), raw(c).name) = c.callee
    BY <2>2, <2>3, CallRoundTrip
  <2>5. raw(c).args = c.args
    OBVIOUS
  <2>6. read(raw(c)) = [callee |-> c.callee, args |-> c.args, at |-> "plain"]
    <3> HIDE DEF raw
    <3> QED
      BY <2>2, <2>4, <2>5 DEF TypedAt
  <2>7. c = [callee |-> c.callee, args |-> c.args, at |-> c.at]
    BY <2>2 DEF Call
  <2> HIDE DEF raw, read
  <2> QED
    BY <2>2, <2>6, <2>7
<1> HIDE DEF raw, read
<1>4. Elaborate(r, here, kind, Render(r, here, calls)) = {read(raw(c)) : c \in calls}
  BY <1>1, <1>2
<1> QED
  BY <1>3, <1>4

\* What is written of it is read as such calls.
LEMMA ReadPlain ==
  ASSUME NEW r, NEW N, Good(r, N), NEW here, NEW kind \in Kinds,
         NEW body, body \subseteq RawCall, Elaborates(r, here, body)
  PROVE  Plain(r, Elaborate(r, here, kind, body))
<1>1. IsRoot(r) /\ LiveNames(r)
  BY DEF Good, RootInv, ShapeInv, NamesIdentify
<1>2. \A c \in Elaborate(r, here, kind, body) : c \in Call /\ c.callee \in DOMAIN r.defs /\ c.callee[1] = "born"
  BY <1>1, ElaborateTyped DEF RawCall
<1>3. \A c \in Elaborate(r, here, kind, body) :
        \E s : c.callee = s /\ c.at = TypedAt(kind, r.defs[s].kind)
  BY DEF Elaborate
<1>4. \A s \in DOMAIN r.defs : r.defs[s].kind # "generic"
  BY DEF Good, Monomorphic
<1> QED
  BY <1>2, <1>3, <1>4 DEF Plain, TypedAt

\* So read for one kind of function as for another.
LEMMA ReadForAny ==
  ASSUME NEW r, NEW N, Good(r, N), NEW here, NEW kind, NEW other, NEW body, Elaborates(r, here, body)
  PROVE  Elaborate(r, here, kind, body) = Elaborate(r, here, other, body)
<1> DEFINE s(w) == Resolve(r.names, Target(here, w), w.name)
<1>1. \A w \in body : r.defs[s(w)].kind # "generic"
  BY DEF Elaborates, Good, Monomorphic
<1> QED
  BY <1>1 DEF Elaborate, TypedAt

\* A definition in the place of another edits that; in its own place it
\* changes nothing.
LEMMA Redefined ==
  ASSUME NEW r, IsRoot(r), NEW x \in DOMAIN r.defs, NEW d, NEW q, q = WithDef(r, x, d)
  PROVE  DefEdit(r, q, x, d) /\ (q # r => d # r.defs[x])
<1> DEFINE more == [t \in {x} |-> d]
<1>1. q = WithDefs(r, more)
  BY DEF WithDef
<1>2. DOMAIN more = {x} /\ more[x] = d
  OBVIOUS
<1> HIDE DEF more
<1>3. /\ q = [defs |-> q.defs, names |-> r.names, exports |-> r.exports,
              tests |-> r.tests, listed |-> r.listed]
      /\ DOMAIN q.defs = DOMAIN r.defs
      /\ \A s \in DOMAIN q.defs : q.defs[s] = IF s = x THEN d ELSE r.defs[s]
      /\ q.defs = [s \in DOMAIN q.defs |-> q.defs[s]]
  <2>1. /\ q = [defs |-> q.defs, names |-> r.names, exports |-> r.exports,
                tests |-> r.tests, listed |-> r.listed]
        /\ DOMAIN q.defs = DOMAIN r.defs \cup DOMAIN more
        /\ \A s \in DOMAIN q.defs : q.defs[s] = IF s \in DOMAIN more THEN more[s] ELSE r.defs[s]
    BY <1>1, WithDefsFields
  <2>2. q.defs = [s \in DOMAIN q.defs |-> q.defs[s]]
    BY <1>1, WithDefsFunction
  <2>3. DOMAIN q.defs = DOMAIN r.defs
    BY <1>2, <2>1
  <2>4. \A s \in DOMAIN q.defs : q.defs[s] = IF s = x THEN d ELSE r.defs[s]
    BY <1>2, <2>1
  <2> QED
    BY <2>1, <2>2, <2>3, <2>4
<1>4. q.names = r.names /\ q.exports = r.exports /\ q.tests = r.tests /\ q.listed = r.listed
  BY <1>3
<1>5. r.defs[x] \in Definition
  BY DEF IsRoot
<1>6. DefEdit(r, q, x, d)
  BY <1>3, <1>4, <1>5 DEF DefEdit
<1>7. ASSUME d = r.defs[x] PROVE q = r
  <2>1. q.defs = r.defs
    BY <1>3, <1>7 DEF IsRoot
  <2> QED
    BY <1>3, <2>1 DEF IsRoot
<1> QED
  BY <1>6, <1>7

\* apply_replace_function_body
LEMMA BodyEffect ==
  ASSUME NEW r, NEW N, RootInv(r, N), NEW op, NEW q \in ReplaceBodyHandler(r, op), q # r,
         NEW x, x = op.on.symbol, NEW C, C = Elaborate(r, op.on.module, r.defs[x].kind, op.body)
  PROVE  /\ x \in DOMAIN r.defs /\ Elaborates(r, op.on.module, op.body)
         /\ DefEdit(r, q, x, [r.defs[x] EXCEPT !.calls = C])
         /\ C # r.defs[x].calls
<1>1. /\ x \in DOMAIN r.defs /\ Elaborates(r, op.on.module, op.body)
      /\ q \in Checked(WithDef(r, x, [r.defs[x] EXCEPT !.calls = C]))
  BY DEF ReplaceBodyHandler
<1>2. q = WithDef(r, x, [r.defs[x] EXCEPT !.calls = C])
  BY <1>1, StoredIsStorable
<1>3. IsRoot(r) /\ r.defs[x] \in Definition
  BY <1>1 DEF RootInv, ShapeInv, IsRoot
<1> DEFINE d == [r.defs[x] EXCEPT !.calls = C]
<1>4. C = r.defs[x].calls => d = r.defs[x]
  BY <1>3 DEF Definition
<1>5. q = WithDef(r, x, d)
  BY <1>2
<1> HIDE DEF d
<1>6. DefEdit(r, q, x, d) /\ d # r.defs[x]
  BY <1>1, <1>3, <1>5, Redefined
<1> QED
  BY <1>1, <1>4, <1>6 DEF d

\* Calls that have names there are such calls there.
LEMMA PlainElsewhere ==
  ASSUME NEW r, NEW p, NEW N, Good(r, N), Good(p, N), NEW calls, Plain(r, calls),
         \A c \in calls : BindingsOf(p.names, c.callee) # {}
  PROVE  Plain(p, calls)
<1>1. LiveNames(p)
  BY DEF Good, RootInv, ShapeInv, NamesIdentify
<1>2. \A c \in calls : c.callee \in DOMAIN p.defs
  BY <1>1 DEF LiveNames, BindingsOf
<1> QED
  BY <1>2 DEF Good, Monomorphic, Plain

\* A body with such calls keeps a root sound.
LEMMA BodyKept ==
  ASSUME NEW r, NEW N, RootInv(r, N), NEW op, NEW q \in ReplaceBodyHandler(r, op),
         NEW x, x = op.on.symbol, NEW C, C = Elaborate(r, op.on.module, r.defs[x].kind, op.body), Plain(r, C)
  PROVE  RootInv(q, N)
<1> DEFINE d == [r.defs[x] EXCEPT !.calls = C]
           more == [t \in {x} |-> d]
<1>1. x \in DOMAIN r.defs /\ q \in Checked(WithDefs(r, more))
  BY DEF ReplaceBodyHandler, WithDef
<1>2. C \subseteq Call /\ \A c \in C : c.callee[1] = "born"
  BY DEF Plain
<1>3. r.defs[x] \in Definition
  BY <1>1 DEF RootInv, ShapeInv, IsRoot
<1>4. d \in Definition /\ d.calls = C
  BY <1>2, <1>3 DEF Definition
<1> HIDE DEF d
<1>5. DOMAIN more = {x} /\ more[x] = d
  OBVIOUS
<1> HIDE DEF more
<1>6. q = WithDefs(r, more) /\ Storable(q) /\ TypeChecks(q)
  BY <1>1, StoredIsStorable
<1>7. ShapeInv(q, N)
  BY <1>1, <1>2, <1>4, <1>5, <1>6, RedefinedRoot DEF RootInv
<1> QED
  BY <1>6, <1>7 DEF RootInv

\* Replacing a body.
LEMMA BodyReplayed ==
  ASSUME NEW r, NEW q, NEW p, NEW o, NEW op, NEW k, NEW N, Replays(r, q, p, o, op, k, N),
         op \in ReplaceBodyOps(r)
  PROVE  Alike(r, q, p, o) /\ RootInv(o, N)
<1> DEFINE x == op.on.symbol
           C == Elaborate(r, op.on.module, "function", op.body)
           aim == Retargeted(p, op)
<1>1. /\ op.op = "replace_function_body" /\ Located(op) /\ Written(op) /\ Home(op) = op.on.module
      /\ op = [op |-> op.op, on |-> op.on, body |-> op.body]
      /\ op.body \subseteq RawCall
  BY BodiesAssumption DEF ReplaceBodyOps, Located, Written, Home
<1>2. /\ Good(r, N) /\ Good(p, N) /\ RootInv(r, N) /\ RootInv(p, N) /\ Clear(r, q, p)
      /\ q \in Accepted(r, k, op)
  BY DEF Replays, Good
<1>3. PICK to : to \in Reworded(r, p, op, aim) /\ o \in Accepted(p, k, to)
  BY <1>1 DEF Replays, Aimed
<1>4. /\ \A c \in C : BindingsOf(p.names, c.callee) # {}
      /\ to = [aim EXCEPT !.body = Render(p, Home(aim), C)]
  <2> HIDE DEF aim
  <2> QED
    BY <1>1, <1>3 DEF Reworded
<1>5. /\ aim.op = op.op /\ aim.body = op.body
      /\ aim = [op |-> aim.op, on |-> aim.on, body |-> aim.body]
  BY <1>1 DEF Retargeted
<1>6. Retargeted(p, op) = aim
  OBVIOUS
<1> HIDE DEF aim, C
<1>7. to.op = op.op /\ to.on = aim.on /\ to.body = Render(p, Home(aim), C)
  BY <1>4, <1>5
<1>8. /\ q \in ReplaceBodyHandler(r, op) /\ o \in ReplaceBodyHandler(p, to) /\ StillNamed(p, to)
      /\ q # r /\ o # p
  BY <1>1, <1>2, <1>3, <1>7 DEF Accepted, Handle, Pre
<1>9. StillNamed(p, aim)
  BY <1>7, <1>8 DEF StillNamed
<1>10. to.on.symbol = x
  <2>1. \E b \in BindingsOf(p.names, op.on.symbol) :
          aim = [op EXCEPT !.on = [module |-> b.module, name |-> b.name, symbol |-> op.on.symbol]]
    BY <1>1, <1>2, <1>6, <1>9, Retarget
  <2> QED
    BY <1>1, <1>7, <2>1
<1>11. Home(aim) = to.on.module
  BY <1>1, <1>5, <1>7 DEF Home, Located
<1>12. /\ x \in DOMAIN r.defs /\ Elaborates(r, op.on.module, op.body)
       /\ DefEdit(r, q, x, [r.defs[x] EXCEPT !.calls = Elaborate(r, op.on.module, r.defs[x].kind, op.body)])
       /\ Elaborate(r, op.on.module, r.defs[x].kind, op.body) # r.defs[x].calls
  BY <1>2, <1>8, BodyEffect
<1>13. C = Elaborate(r, op.on.module, r.defs[x].kind, op.body)
  BY <1>2, <1>12, ReadForAny DEF C
<1>14. Plain(r, C)
  BY <1>1, <1>2, <1>12, ReadPlain DEF C, Kinds
<1>15. Plain(p, C)
  BY <1>2, <1>4, <1>14, PlainElsewhere
<1>16. Elaborate(p, to.on.module, p.defs[x].kind, to.body) = C
  BY <1>2, <1>7, <1>11, <1>15, ReadBack DEF RootInv
<1>17. DefEdit(p, o, x, [p.defs[x] EXCEPT !.calls = C])
  BY <1>2, <1>8, <1>10, <1>16, BodyEffect
<1>18. RootInv(o, N)
  BY <1>2, <1>8, <1>10, <1>15, <1>16, BodyKept
<1> QED
  BY <1>2, <1>12, <1>13, <1>17, <1>18, BodyAlike

\* apply_change_function_signature
LEMMA SignatureEffect ==
  ASSUME NEW r, NEW N, Good(r, N), NEW op, NEW q \in ChangeSignatureHandler(r, op), q # r,
         NEW x, x = op.on.symbol
  PROVE  /\ DefEdit(r, q, x, [r.defs[x] EXCEPT !.params = op.params])
         /\ op.params # r.defs[x].params
<1> DEFINE def == r.defs[x]
           d == [def EXCEPT !.params = op.params]
           body == Render(r, op.on.module, def.calls)
           e == [kind |-> "function", params |-> op.params,
                 calls |-> Elaborate(r, op.on.module, "function", body)]
<1>1. /\ x \in DOMAIN r.defs
      /\ IF def.kind = "external" THEN q \in Checked(WithDef(r, x, d)) ELSE q \in Checked(WithDef(r, x, e))
  BY DEF ChangeSignatureHandler
<1>2. IsRoot(r) /\ def \in Definition /\ def.kind # "generic"
  BY <1>1 DEF Good, RootInv, ShapeInv, IsRoot, Monomorphic
<1>3. def.kind # "external" => d = e
  <2>1. SUFFICES ASSUME def.kind # "external" PROVE d = e
    OBVIOUS
  <2>2. Elaborate(r, op.on.module, "function", body) = def.calls
    BY <1>1, BodiesPlain, ReadBack DEF Good, RootInv
  <2>3. def = [kind |-> def.kind, params |-> def.params, calls |-> def.calls] /\ def.kind = "function"
    BY <1>2, <2>1 DEF Definition, Kinds
  <2> HIDE DEF def, body
  <2> QED
    BY <2>2, <2>3
<1>4. q \in Checked(WithDef(r, x, d))
  <2> HIDE DEF d, e
  <2> QED
    BY <1>1, <1>3
<1>5. op.params = def.params => d = def
  BY <1>2 DEF Definition
<1> HIDE DEF d
<1>6. q = WithDef(r, x, d)
  BY <1>4, StoredIsStorable
<1>7. DefEdit(r, q, x, d) /\ d # def
  BY <1>1, <1>2, <1>6, Redefined
<1> QED
  BY <1>5, <1>7 DEF d

\* Changing a signature.
LEMMA SignatureReplayed ==
  ASSUME NEW r, NEW q, NEW p, NEW o, NEW op, NEW k, NEW N, Replays(r, q, p, o, op, k, N),
         op \in ChangeSignatureOps(r)
  PROVE  Alike(r, q, p, o)
<1> DEFINE x == op.on.symbol
           to == Retargeted(p, op)
<1>1. /\ op.op = "change_function_signature" /\ Located(op) /\ ~Written(op)
      /\ op = [op |-> op.op, on |-> op.on, params |-> op.params]
  BY DEF ChangeSignatureOps, Located, Written
<1>2. /\ Good(r, N) /\ Good(p, N) /\ RootInv(p, N) /\ Clear(r, q, p)
      /\ q \in Accepted(r, k, op) /\ o \in Accepted(p, k, to)
  BY <1>1 DEF Replays, Good, Aimed
<1>3. to.op = op.op /\ to.params = op.params
  BY <1>1 DEF Retargeted
<1> HIDE DEF to
<1>4. /\ q \in ChangeSignatureHandler(r, op) /\ o \in ChangeSignatureHandler(p, to)
      /\ StillNamed(p, to) /\ q # r /\ o # p
  BY <1>1, <1>2, <1>3 DEF Accepted, Handle, Pre
<1>5. to.on.symbol = x
  <2>1. \E b \in BindingsOf(p.names, x) :
          to = [op EXCEPT !.on = [module |-> b.module, name |-> b.name, symbol |-> op.on.symbol]]
    BY <1>1, <1>2, <1>4, Retarget DEF to
  <2> QED
    BY <1>1, <2>1
<1>6. DefEdit(r, q, x, [r.defs[x] EXCEPT !.params = op.params]) /\ op.params # r.defs[x].params
  BY <1>2, <1>4, SignatureEffect
<1>7. DefEdit(p, o, x, [p.defs[x] EXCEPT !.params = op.params])
  BY <1>2, <1>3, <1>4, <1>5, SignatureEffect
<1> QED
  BY <1>2, <1>6, <1>7, SignatureAlike

\* apply_delete_symbol
LEMMA DeleteEffect ==
  ASSUME NEW r, NEW N, RootInv(r, N), NEW op, NEW q \in DeleteHandler(r, op)
  PROVE  Deleted(r, q, op.on.symbol)
<1> DEFINE s == op.on.symbol
           tests == {t \in r.tests : t.case.entry = s}
           D == [t \in DOMAIN r.defs \ {s} |-> r.defs[t]]
           X == {e \in r.exports : e.symbol # s}
           T == IF op.force THEN r.tests \ tests ELSE r.tests
           z == [defs |-> D, names |-> r.names \ BindingsOf(r.names, s), exports |-> X, tests |-> T,
                 listed |-> r.listed]
<1>1. /\ StillNamed(r, op)
      /\ ~op.force => tests = {}
      /\ q \in Checked(z)
  BY DEF DeleteHandler
<1>2. T = {t \in r.tests : t.case.entry # s}
  BY <1>1
<1>3. DOMAIN D = DOMAIN r.defs \ {s} /\ \A t \in DOMAIN D : D[t] = r.defs[t]
  OBVIOUS
<1>4. s \in DOMAIN r.defs
  BY <1>1, StillNamedSymbol
<1> HIDE DEF D, T, tests
<1>5. q = z
  <2> HIDE DEF z
  <2> QED
    BY <1>1, StoredIsStorable
<1>6. /\ q.defs = D /\ q.names = r.names \ BindingsOf(r.names, s) /\ q.exports = X /\ q.tests = T
  BY <1>5
<1> QED
  BY <1>2, <1>3, <1>4, <1>6 DEF Deleted

\* Deleting.
LEMMA DeleteReplayed ==
  ASSUME NEW r, NEW q, NEW p, NEW o, NEW op, NEW k, NEW N, Replays(r, q, p, o, op, k, N),
         op \in DeleteOps(r)
  PROVE  Alike(r, q, p, o)
<1> DEFINE x == op.on.symbol
           to == Retargeted(p, op)
<1>1. /\ op.op = "delete_symbol" /\ Located(op) /\ ~Written(op)
      /\ op = [op |-> op.op, on |-> op.on, force |-> op.force]
  BY DEF DeleteOps, Located, Written
<1>2. /\ RootInv(r, N) /\ RootInv(q, N) /\ RootInv(p, N) /\ Clear(r, q, p)
      /\ q \in Accepted(r, k, op) /\ o \in Accepted(p, k, to)
  BY <1>1 DEF Replays, Good, Aimed
<1>3. to.op = op.op
  BY <1>1 DEF Retargeted
<1> HIDE DEF to
<1>4. q \in DeleteHandler(r, op) /\ o \in DeleteHandler(p, to) /\ StillNamed(p, to)
  BY <1>1, <1>2, <1>3 DEF Accepted, Handle, Pre
<1>5. to.on.symbol = x
  <2>1. \E b \in BindingsOf(p.names, x) :
          to = [op EXCEPT !.on = [module |-> b.module, name |-> b.name, symbol |-> op.on.symbol]]
    BY <1>1, <1>2, <1>4, Retarget DEF to
  <2> QED
    BY <1>1, <2>1
<1>6. Deleted(r, q, x) /\ Deleted(p, o, x)
  BY <1>2, <1>4, <1>5, DeleteEffect
<1> QED
  BY <1>2, <1>6, DeletedAlike

\* Where nothing is generic, what depends on a symbol calls it.
LEMMA Callers ==
  ASSUME NEW r, NEW N, Good(r, N), NEW x \in DOMAIN r.defs, NEW y \in DOMAIN r.defs
  PROVE  y \in Dependents(r, x) <=> \E c \in r.defs[y].calls : c.callee = x
<1>1. \A c \in r.defs[y].calls : c.at = "plain"
  BY DEF Good, Monomorphic
<1>2. Dependencies(r, y) = {c.callee : c \in r.defs[y].calls} \cap DOMAIN r.defs
  BY <1>1 DEF Dependencies
<1> QED
  BY <1>2 DEF Dependents

\* apply_add_parameter
LEMMA AddParameterEffect ==
  ASSUME NEW r, NEW N, Good(r, N), NEW op, op.param \in ParamNames, NEW q \in AddParameterHandler(r, op)
  PROVE  Lengthened(r, q, op.on.symbol, op.param)
<1> DEFINE x == op.on.symbol
           callers == Dependents(r, x)
           params == Append(r.defs[x].params, op.param)
           signature == [r.defs[x] EXCEPT !.params = params]
           first == [t \in {x} |-> signature]
           signed == WithDefs(r, first)
           home(s) == IF s = x THEN op.on.module
                      ELSE IF BindingsOf(r.names, s) = {} THEN Main
                      ELSE PreferredBinding(r.names, s).module
           patch(s, c) == IF s \in callers /\ c.callee = x THEN [c EXCEPT !.args = @ + 1] ELSE c
           patched(s) == {patch(s, c) : c \in r.defs[s].calls}
           body(s) == Render(signed, home(s), patched(s))
           new(s) == [signed.defs[s] EXCEPT !.calls =
                         Elaborate(signed, home(s), signed.defs[s].kind, body(s))]
           more == [s \in callers \cup {x} |-> new(s)]
<1>1. x \in DOMAIN r.defs /\ q \in Checked(WithDefs(signed, more))
  BY DEF AddParameterHandler, WithDef
<1> HIDE DEF x
<1>2. q = WithDefs(signed, more)
  BY <1>1, StoredIsStorable
<1>3. RootInv(r, N) /\ ShapeInv(r, N) /\ IsRoot(r)
  BY DEF Good, RootInv, ShapeInv
<1>4. callers \cup {x} \subseteq DOMAIN r.defs
  BY <1>1 DEF Dependents
<1>5. /\ signature \in Definition
      /\ signature.calls = r.defs[x].calls /\ signature.kind = r.defs[x].kind /\ signature.params = params
  <2>1. r.defs[x] \in Definition
    BY <1>1, <1>3 DEF IsRoot
  <2>2. params \in Seq(ParamNames)
    BY <2>1 DEF Definition
  <2> HIDE DEF params
  <2> QED
    BY <2>1, <2>2 DEF Definition
<1> HIDE DEF signature
<1>6. DOMAIN first = {x} /\ first[x] = signature
  OBVIOUS
<1> HIDE DEF first
<1>7. \A c \in r.defs[x].calls : c.callee[1] = "born"
  BY <1>1, <1>3, CallsKnown
<1>8. /\ ShapeInv(signed, N)
      /\ DOMAIN signed.defs = DOMAIN r.defs
      /\ \A s \in DOMAIN r.defs : signed.defs[s] = IF s = x THEN signature ELSE r.defs[s]
  BY <1>1, <1>3, <1>5, <1>6, <1>7, RedefinedRoot
<1>9. signed.names = r.names /\ signed.exports = r.exports /\ signed.tests = r.tests
  <2>1. signed = [defs |-> signed.defs, names |-> r.names, exports |-> r.exports,
                  tests |-> r.tests, listed |-> r.listed]
    BY <1>3, WithDefsFields
  <2> QED
    BY <2>1
<1> HIDE DEF signed
<1>10. \A s \in DOMAIN r.defs :
         /\ signed.defs[s] \in Definition
         /\ signed.defs[s].calls = r.defs[s].calls /\ signed.defs[s].kind = r.defs[s].kind
         /\ signed.defs[s].params = IF s = x THEN params ELSE r.defs[s].params
  BY <1>5, <1>8 DEF ShapeInv, IsRoot
<1> HIDE DEF home, params
<1>11. \A s \in DOMAIN r.defs : \A c \in r.defs[s].calls :
         patch(s, c) = Longer(x, c)
  BY <1>1, Callers DEF Longer
<1> HIDE DEF patch
<1>12. \A s \in DOMAIN r.defs : patched(s) = {Longer(x, c) : c \in r.defs[s].calls}
  BY <1>11
<1> HIDE DEF patched
<1>13. \A s \in DOMAIN r.defs : Plain(signed, patched(s))
  <2>1. SUFFICES ASSUME NEW s \in DOMAIN r.defs, NEW c \in r.defs[s].calls
                 PROVE  /\ Longer(x, c) \in Call /\ Longer(x, c).at = "plain"
                        /\ Longer(x, c).callee \in DOMAIN signed.defs /\ Longer(x, c).callee[1] = "born"
                        /\ signed.defs[Longer(x, c).callee].kind # "generic"
    BY <1>12 DEF Plain
  <2>2. /\ c \in Call /\ c.at = "plain" /\ c.callee \in DOMAIN r.defs /\ c.callee[1] = "born"
        /\ r.defs[c.callee].kind # "generic"
    BY BodiesPlain DEF Plain
  <2>3. Longer(x, c) \in Call /\ Longer(x, c).at = "plain" /\ Longer(x, c).callee = c.callee
    BY <2>2 DEF Longer, Call
  <2> QED
    BY <1>8, <1>10, <2>2, <2>3
<1>14. \A s \in DOMAIN r.defs : new(s) = [signed.defs[s] EXCEPT !.calls = patched(s)]
  BY <1>8, <1>13, ReadBack
<1> HIDE DEF new
<1>15. \A s \in DOMAIN r.defs :
         /\ new(s).kind = r.defs[s].kind /\ new(s).calls = {Longer(x, c) : c \in r.defs[s].calls}
         /\ new(s).params = IF s = x THEN params ELSE r.defs[s].params
  <2>1. SUFFICES ASSUME NEW s \in DOMAIN r.defs
                 PROVE  /\ new(s).kind = r.defs[s].kind /\ new(s).calls = patched(s)
                        /\ new(s).params = IF s = x THEN params ELSE r.defs[s].params
    BY <1>12
  <2> QED
    BY <1>10, <1>14 DEF Definition
<1>16. DOMAIN more = callers \cup {x} /\ \A s \in callers \cup {x} : more[s] = new(s)
  OBVIOUS
<1> HIDE DEF more
<1>17. /\ q = [defs |-> q.defs, names |-> signed.names, exports |-> signed.exports,
               tests |-> signed.tests, listed |-> signed.listed]
       /\ DOMAIN q.defs = DOMAIN signed.defs \cup DOMAIN more
       /\ \A s \in DOMAIN q.defs : q.defs[s] = IF s \in DOMAIN more THEN more[s] ELSE signed.defs[s]
  BY <1>2, <1>8, WithDefsFields DEF ShapeInv
<1>18. q.names = r.names /\ q.exports = r.exports /\ q.tests = r.tests
  BY <1>9, <1>17
<1>19. DOMAIN q.defs = DOMAIN r.defs
  BY <1>4, <1>8, <1>16, <1>17
<1>20. \A s \in DOMAIN r.defs \ (callers \cup {x}) :
         q.defs[s] = r.defs[s] /\ {Longer(x, c) : c \in r.defs[s].calls} = r.defs[s].calls
  <2>1. SUFFICES ASSUME NEW s \in DOMAIN r.defs, s \notin callers \cup {x}
                 PROVE  q.defs[s] = r.defs[s] /\ {Longer(x, c) : c \in r.defs[s].calls} = r.defs[s].calls
    OBVIOUS
  <2>2. ~\E c \in r.defs[s].calls : c.callee = x
    BY <1>1, <2>1, Callers
  <2>3. {Longer(x, c) : c \in r.defs[s].calls} = r.defs[s].calls
    BY <1>3, <2>2, CallsLengthen
  <2>4. q.defs[s] = r.defs[s]
    BY <1>8, <1>16, <1>17, <1>19, <2>1
  <2> QED
    BY <2>3, <2>4
<1>21. \A s \in callers \cup {x} : q.defs[s] = new(s)
  BY <1>4, <1>16, <1>17, <1>19
<1>22. \A s \in DOMAIN r.defs :
         /\ q.defs[s].kind = r.defs[s].kind /\ q.defs[s].calls = {Longer(x, c) : c \in r.defs[s].calls}
         /\ q.defs[s].params = IF s = x THEN params ELSE r.defs[s].params
  <2>1. SUFFICES ASSUME NEW s \in DOMAIN r.defs
                 PROVE  /\ q.defs[s].kind = r.defs[s].kind /\ q.defs[s].calls = {Longer(x, c) : c \in r.defs[s].calls}
                        /\ q.defs[s].params = IF s = x THEN params ELSE r.defs[s].params
    OBVIOUS
  <2>2. CASE s \in callers \cup {x}
    BY <1>15, <1>21, <2>1, <2>2
  <2>3. CASE s \notin callers \cup {x}
    BY <1>20, <2>1, <2>3
  <2> QED
    BY <2>2, <2>3
<1> QED
  BY <1>1, <1>18, <1>19, <1>22 DEF Lengthened, params, x

\* Adding a parameter.
LEMMA ParameterReplayed ==
  ASSUME NEW r, NEW q, NEW p, NEW o, NEW op, NEW k, NEW N, Replays(r, q, p, o, op, k, N),
         op \in AddParameterOps(r)
  PROVE  Alike(r, q, p, o)
<1> DEFINE x == op.on.symbol
           to == Retargeted(p, op)
<1>1. /\ op.op = "add_parameter" /\ Located(op) /\ ~Written(op) /\ op.param \in ParamNames
      /\ op = [op |-> op.op, on |-> op.on, param |-> op.param, default |-> op.default]
  BY DEF AddParameterOps, Located, Written
<1>2. /\ Good(r, N) /\ Good(p, N) /\ RootInv(r, N) /\ RootInv(q, N) /\ RootInv(p, N) /\ Clear(r, q, p)
      /\ q \in Accepted(r, k, op) /\ o \in Accepted(p, k, to)
  BY <1>1 DEF Replays, Good, Aimed
<1>3. to.op = op.op /\ to.param = op.param
  BY <1>1 DEF Retargeted
<1> HIDE DEF to
<1>4. q \in AddParameterHandler(r, op) /\ o \in AddParameterHandler(p, to) /\ StillNamed(p, to)
  BY <1>1, <1>2, <1>3 DEF Accepted, Handle, Pre
<1>5. to.on.symbol = x
  <2>1. \E b \in BindingsOf(p.names, x) :
          to = [op EXCEPT !.on = [module |-> b.module, name |-> b.name, symbol |-> op.on.symbol]]
    BY <1>1, <1>2, <1>4, Retarget DEF to
  <2> QED
    BY <1>1, <2>1
<1>6. Lengthened(r, q, x, op.param)
  BY <1>1, <1>2, <1>4, AddParameterEffect
<1>7. Lengthened(p, o, x, op.param)
  BY <1>1, <1>2, <1>3, <1>4, <1>5, AddParameterEffect
<1> QED
  BY <1>2, <1>6, <1>7, LengthenedAlike

\* The modules metadata aside, nothing changes with them.
LEMMA SynchronizeAfterFields ==
  ASSUME NEW r, IsRoot(r), NEW m, NEW q, q = SynchronizeAfter(m, r)
  PROVE  q.defs = r.defs /\ q.names = r.names /\ q.exports = r.exports /\ q.tests = r.tests
BY DEF IsRoot, SynchronizeAfter, Synchronize

\* Where nothing is generic, there are no instances to make.
LEMMA NothingMade ==
  ASSUME NEW r, IsRoot(r), \A y \in DOMAIN r.defs : r.defs[y].kind # "generic", NEW calls,
         NEW q, q = Monomorphize(r, calls)
  PROVE  /\ DOMAIN q.defs = DOMAIN r.defs /\ \A y \in DOMAIN r.defs : q.defs[y] = r.defs[y]
         /\ q.names = r.names /\ q.exports = r.exports /\ q.tests = r.tests
<1> DEFINE more == [i \in {InstanceOf(g) : g \in ToInstantiate(r, calls)} |->
                      InstanceDefinition(r, GenericOf(i))]
<1>1. ToInstantiate(r, calls) = {}
  BY DEF ToInstantiate, Generics
<1>2. DOMAIN more = {}
  BY <1>1
<1>3. q = WithDefs(r, more)
  BY DEF Monomorphize
<1> HIDE DEF more
<1>4. /\ q = [defs |-> q.defs, names |-> r.names, exports |-> r.exports, tests |-> r.tests, listed |-> r.listed]
      /\ DOMAIN q.defs = DOMAIN r.defs \cup DOMAIN more
      /\ \A s \in DOMAIN q.defs : q.defs[s] = IF s \in DOMAIN more THEN more[s] ELSE r.defs[s]
  BY <1>3, WithDefsFields
<1>5. q.names = r.names /\ q.exports = r.exports /\ q.tests = r.tests
  BY <1>4
<1> QED
  BY <1>2, <1>4, <1>5

\* A creation adds its symbol, and no more.
LEMMA CreationEffect ==
  ASSUME NEW r, NEW N \in Nat, Good(r, N), NEW k \in Nat, k + 1 <= N,
         NEW x, x = Born(k + 1), x \notin DOMAIN r.defs,
         NEW m \in Modules, NEW name \in Names, Available(r.names, m, name),
         NEW def \in Definition, def.kind # "generic", \A c \in def.calls : c.callee[1] = "born",
         NEW calls, \A c \in calls : c.callee[1] = "born", NEW new, new = Given(r, x, m, name, def), NEW q,
         \/ q \in Checked(SynchronizeAfter(m, new))
         \/ q \in Checked(SynchronizeAfter(m, Monomorphize(new, calls)))
  PROVE  Has(q, r, x, m, name, def) /\ RootInv(q, N)
<1>1. x \in Symbol /\ x[1] = "born" /\ x[2] <= N
  BY Symbols DEF Births
<1>2. ShapeInv(new, N) /\ Has(new, r, x, m, name, def)
  BY <1>1, NewRoot DEF Good, RootInv
<1>3. \A y \in DOMAIN new.defs : new.defs[y].kind # "generic"
  BY <1>2 DEF Has, Good, Monomorphic
<1> DEFINE mid == Monomorphize(new, calls)
<1>4. /\ DOMAIN mid.defs = DOMAIN new.defs /\ \A y \in DOMAIN new.defs : mid.defs[y] = new.defs[y]
      /\ mid.names = new.names /\ mid.exports = new.exports /\ mid.tests = new.tests
  BY <1>2, <1>3, NothingMade DEF ShapeInv
<1>5. ShapeInv(mid, N)
  BY <1>2, MonomorphizeKeeps
<1> HIDE DEF mid
<1>6. Has(mid, r, x, m, name, def)
  BY <1>2, <1>4 DEF Has
<1>7. PICK z \in {new, mid} : q \in Checked(SynchronizeAfter(m, z))
  BY DEF mid
<1>8. ShapeInv(z, N) /\ Has(z, r, x, m, name, def)
  BY <1>2, <1>5, <1>6, <1>7
<1>9. q = SynchronizeAfter(m, z) /\ Storable(q) /\ TypeChecks(q)
  BY <1>7, StoredIsStorable
<1>10. ShapeInv(q, N)
  BY <1>8, <1>9, SynchronizeAfterKeeps
<1>11. q.defs = z.defs /\ q.names = z.names /\ q.exports = z.exports /\ q.tests = z.tests
  BY <1>8, <1>9, SynchronizeAfterFields DEF ShapeInv
<1> QED
  BY <1>8, <1>9, <1>10, <1>11 DEF Has, RootInv

\* The symbol that a creation makes is new to both roots.
LEMMA NewToBoth ==
  ASSUME NEW r, NEW q, NEW p, NEW k \in Nat, RootInv(r, k), NEW x, x = Born(k + 1),
         NEW m, NEW name, NEW def, Clear(r, q, p), x \notin DOMAIN r.defs => Has(q, r, x, m, name, def)
  PROVE  x \notin DOMAIN r.defs /\ x \notin DOMAIN p.defs
<1>1. x \notin DOMAIN r.defs
  BY Fresh
<1>2. Entry(r, x) = {} /\ Entry(q, x) # {}
  BY <1>1 DEF Has, Entry
<1>3. Entry(p, x) = {}
  BY <1>2 DEF Clear
<1> QED
  BY <1>1, <1>3 DEF Entry

\* apply_create_external_function
LEMMA CreateExternalEffect ==
  ASSUME NEW r, NEW N \in Nat, Good(r, N), NEW k \in Nat, k + 1 <= N,
         NEW x, x = Born(k + 1), x \notin DOMAIN r.defs,
         NEW op \in CreateExternalOps, NEW q \in CreateExternalHandler(r, k, op)
  PROVE  /\ Has(q, r, x, op.module, op.name, [kind |-> "external", params |-> op.params, calls |-> {}])
         /\ RootInv(q, N)
<1> DEFINE def == [kind |-> "external", params |-> op.params, calls |-> {}]
           new == Given(r, x, op.module, op.name, def)
<1>1. op.module \in Modules /\ op.name \in Names /\ op.params \in Seq(ParamNames)
  BY ParamListsAssumption DEF CreateExternalOps
<1>2. Available(r.names, op.module, op.name) /\ q \in Checked(SynchronizeAfter(op.module, new))
  BY DEF CreateExternalHandler, Given
<1>3. def \in Definition /\ def.kind # "generic" /\ def.calls = {}
  BY <1>1 DEF Definition, Kinds
<1> HIDE DEF def
<1>4. new = Given(r, x, op.module, op.name, def)
  OBVIOUS
<1> HIDE DEF new
<1>5. Has(q, r, x, op.module, op.name, def) /\ RootInv(q, N)
  BY <1>1, <1>2, <1>3, <1>4, CreationEffect
<1> QED
  BY <1>5 DEF def

\* apply_create_function: the calls are read in the root as it was.
LEMMA CreateFunctionEffect ==
  ASSUME NEW r, NEW N \in Nat, Good(r, N), NEW k \in Nat, k + 1 <= N,
         NEW x, x = Born(k + 1), x \notin DOMAIN r.defs,
         NEW op, op.module \in Modules, op.name \in Names, op.params \in Seq(ParamNames), op.kind = "function",
         NEW C, C = Elaborate(r, op.module, "function", op.body), Elaborates(r, op.module, op.body) => Plain(r, C),
         NEW q \in CreateFunctionHandler(r, k, op)
  PROVE  /\ Has(q, r, x, op.module, op.name, [kind |-> "function", params |-> op.params, calls |-> C])
         /\ RootInv(q, N)
<1> DEFINE def == [kind |-> "function", params |-> op.params, calls |-> C]
           new == Given(r, x, op.module, op.name, def)
<1>1. /\ Available(r.names, op.module, op.name) /\ Elaborates(r, op.module, op.body)
      /\ q \in Checked(SynchronizeAfter(op.module, Monomorphize(new, C)))
  BY DEF CreateFunctionHandler, Given
<1>2. Plain(r, C)
  BY <1>1
<1>3. def \in Definition /\ def.kind # "generic" /\ def.calls = C
  BY <1>2 DEF Definition, Kinds, Plain
<1>4. \A c \in C : c.callee[1] = "born"
  BY <1>2 DEF Plain
<1> HIDE DEF def
<1>5. new = Given(r, x, op.module, op.name, def)
  OBVIOUS
<1> HIDE DEF new
<1>6. Has(q, r, x, op.module, op.name, def) /\ RootInv(q, N)
  BY <1>1, <1>3, <1>4, <1>5, CreationEffect
<1> QED
  BY <1>6 DEF def

\* Creating an external function.
LEMMA ExternalReplayed ==
  ASSUME NEW r, NEW q, NEW p, NEW o, NEW op, NEW k, NEW N, Replays(r, q, p, o, op, k, N),
         op \in CreateExternalOps
  PROVE  Alike(r, q, p, o) /\ RootInv(o, N)
<1> DEFINE x == Born(k + 1)
           def == [kind |-> "external", params |-> op.params, calls |-> {}]
<1>1. op.op = "create_external_function" /\ ~Written(op) /\ ~Located(op) /\ Creates(op)
  BY DEF CreateExternalOps, Written, Located, Creates, Newborn
<1>2. /\ Good(r, N) /\ Good(p, N) /\ RootInv(r, N) /\ RootInv(p, N) /\ Clear(r, q, p) /\ N \in Nat
      /\ k \in Nat /\ RootInv(r, k) /\ k + 1 <= N
      /\ q \in Accepted(r, k, op) /\ o \in Accepted(p, k, op)
  BY <1>1 DEF Replays, Good, Aimed, Retargeted
<1>3. q \in CreateExternalHandler(r, k, op) /\ o \in CreateExternalHandler(p, k, op)
  BY <1>1, <1>2 DEF Accepted, Handle
<1> HIDE DEF x
<1>4. x \notin DOMAIN r.defs => Has(q, r, x, op.module, op.name, def)
  BY <1>2, <1>3, CreateExternalEffect DEF x
<1>5. x \notin DOMAIN r.defs /\ x \notin DOMAIN p.defs
  <2> HIDE DEF def
  <2> QED
    BY <1>2, <1>4, NewToBoth DEF x
<1>6. Has(o, p, x, op.module, op.name, def) /\ RootInv(o, N)
  BY <1>2, <1>3, <1>5, CreateExternalEffect DEF x
<1> HIDE DEF def
<1> QED
  BY <1>2, <1>4, <1>5, <1>6, CreatedAlike

\* Creating a function.
LEMMA FunctionReplayed ==
  ASSUME NEW r, NEW q, NEW p, NEW o, NEW op, NEW k, NEW N, Replays(r, q, p, o, op, k, N),
         op \in CreateFunctionOps
  PROVE  Alike(r, q, p, o) /\ RootInv(o, N)
<1> DEFINE x == Born(k + 1)
           C == Elaborate(r, op.module, "function", op.body)
           def == [kind |-> "function", params |-> op.params, calls |-> C]
<1>1. /\ op.op = "create_function" /\ Written(op) /\ ~Located(op) /\ Creates(op) /\ Home(op) = op.module
      /\ op.module \in Modules /\ op.name \in Names /\ op.params \in Seq(ParamNames) /\ op.body \subseteq RawCall
      /\ op = [op |-> op.op, module |-> op.module, name |-> op.name, kind |-> op.kind,
               params |-> op.params, body |-> op.body]
  BY ParamListsAssumption, BodiesAssumption DEF CreateFunctionOps, Written, Located, Creates, Newborn, Home
<1>2. /\ Good(r, N) /\ Good(q, N) /\ Good(p, N) /\ RootInv(r, N) /\ RootInv(p, N) /\ Clear(r, q, p) /\ N \in Nat
      /\ k \in Nat /\ RootInv(r, k) /\ k + 1 <= N /\ q \in Accepted(r, k, op)
  BY <1>1 DEF Replays, Good
<1>3. PICK to : to \in Reworded(r, p, op, op) /\ o \in Accepted(p, k, to)
  BY <1>1 DEF Replays, Aimed, Retargeted
<1> HIDE DEF C
<1>4. /\ \A c \in C : BindingsOf(p.names, c.callee) # {}
      /\ to = [op EXCEPT !.body = Render(p, op.module, C)]
  BY <1>1, <1>3 DEF Reworded, C
<1>5. /\ to.op = op.op /\ to.module = op.module /\ to.name = op.name /\ to.kind = op.kind
      /\ to.params = op.params /\ to.body = Render(p, op.module, C)
  BY <1>1, <1>4
<1>6. q \in CreateFunctionHandler(r, k, op) /\ o \in CreateFunctionHandler(p, k, to)
  BY <1>1, <1>2, <1>3, <1>5 DEF Accepted, Handle
<1>7. Elaborates(r, op.module, op.body)
  BY <1>6 DEF CreateFunctionHandler
<1>8. Plain(r, C)
  BY <1>1, <1>2, <1>7, ReadPlain DEF C, Kinds
<1>9. Plain(p, C)
  BY <1>2, <1>4, <1>8, PlainElsewhere
<1>10. C = Elaborate(p, to.module, "function", to.body)
  BY <1>2, <1>5, <1>9, ReadBack DEF RootInv
<1>11. op.kind = "function"
  <2>1. Installed(q, op.module, op.name, op.kind, op.params,
                  Callees(Elaborate(q, op.module, "function", op.body)))
    BY <1>2, <1>6, CreateFunctionKeepsInv
  <2>2. PICK b \in q.names : b.symbol \in DOMAIN q.defs /\ q.defs[b.symbol].kind = op.kind
    BY <2>1 DEF Installed
  <2>3. op.kind # "generic"
    BY <1>2, <2>2 DEF Good, Monomorphic
  <2> QED
    BY <2>3 DEF CreateFunctionOps
<1> HIDE DEF x
<1>12. x \notin DOMAIN r.defs => Has(q, r, x, op.module, op.name, def)
  BY <1>1, <1>2, <1>6, <1>8, <1>11, CreateFunctionEffect DEF x, C
<1>13. x \notin DOMAIN r.defs /\ x \notin DOMAIN p.defs
  <2> HIDE DEF def
  <2> QED
    BY <1>2, <1>12, NewToBoth DEF x
<1>14. Has(o, p, x, to.module, to.name, [kind |-> "function", params |-> to.params, calls |-> C]) /\ RootInv(o, N)
  BY <1>1, <1>2, <1>5, <1>6, <1>9, <1>10, <1>11, <1>13, CreateFunctionEffect DEF x
<1>15. Has(o, p, x, op.module, op.name, def)
  BY <1>5, <1>14
<1> HIDE DEF def
<1> QED
  BY <1>2, <1>12, <1>13, <1>14, <1>15, CreatedAlike

-----------------------------------------------------------------------------
\* One step of the replay.

\* What an operation that is aimed at a root makes of it is sound.
LEMMA AimedSound ==
  ASSUME NEW r, NEW p, NEW o, NEW op \in EditOps(r), NEW k, NEW N \in Nat, RootInv(p, N),
         ~Creates(op), ~Written(op), NEW to, to = Retargeted(p, op), o \in Accepted(p, k, to)
  PROVE  RootInv(o, N)
<1>1. CASE op.op = "delete_test"
  <2>1. to = op
    BY <1>1 DEF Retargeted, Located
  <2>2. o \in DeleteTestHandler(p, op)
    BY <1>1, <2>1 DEF Accepted, Handle
  <2> QED
    BY <2>2, DeleteTestKeepsInv
<1>2. CASE op.op # "delete_test"
  <2>1. Located(op) /\ op \notin CreateFunctionOps /\ op \notin CreateExternalOps /\ op \notin ReplaceBodyOps(r)
        /\ op \notin DeleteTestOps(r)
    BY <1>2 DEF Located, Creates, Written, Newborn, CreateFunctionOps, CreateExternalOps, ReplaceBodyOps, DeleteTestOps
  <2>2. to.op = op.op
    BY <2>1 DEF Retargeted, EditOps, RenameOps, MoveOps, ChangeSignatureOps, AddParameterOps, DeleteOps,
           CreateAliasOps, RemoveAliasOps, SetExportOps, RemoveExportOps, CreateTestOps
  <2>3. StillNamed(p, to)
    <3>1. /\ to.op \in {"rename_symbol", "move_symbol", "change_function_signature", "add_parameter",
                        "delete_symbol", "create_alias", "remove_alias", "set_export", "remove_export",
                        "create_test"}
          /\ Pre(p, to)
      BY <2>1, <2>2 DEF Accepted, EditOps, RenameOps, MoveOps, ChangeSignatureOps, AddParameterOps, DeleteOps,
             CreateAliasOps, RemoveAliasOps, SetExportOps, RemoveExportOps, CreateTestOps
    <3> QED
      BY <3>1 DEF Pre, StillPreferred, StillNamed, Prefers, PointsTo
  <2>4. PICK b \in BindingsOf(p.names, op.on.symbol) :
          to = [op EXCEPT !.on = [module |-> b.module, name |-> b.name, symbol |-> op.on.symbol]]
    BY <2>1, <2>3, Retarget
  <2> DEFINE on == [module |-> b.module, name |-> b.name, symbol |-> op.on.symbol]
  <2>5. on \in Named(p)
    BY <2>4 DEF Named, BindingsOf
  <2>6. to = [op EXCEPT !.on = on]
    BY <2>4
  <2> HIDE DEF on
  <2>7. to \in EditOps(p) /\ Newborn(to) = 0
    <3>1. \/ op \in RenameOps(r) /\ to \in RenameOps(p)
          \/ op \in MoveOps(r) /\ to \in MoveOps(p)
          \/ op \in ChangeSignatureOps(r) /\ to \in ChangeSignatureOps(p)
          \/ op \in AddParameterOps(r) /\ to \in AddParameterOps(p)
          \/ op \in DeleteOps(r) /\ to \in DeleteOps(p)
          \/ op \in CreateAliasOps(r) /\ to \in CreateAliasOps(p)
          \/ op \in RemoveAliasOps(r) /\ to \in RemoveAliasOps(p)
          \/ op \in SetExportOps(r) /\ to \in SetExportOps(p)
          \/ op \in RemoveExportOps(r) /\ to \in RemoveExportOps(p)
          \/ op \in CreateTestOps(r) /\ to \in CreateTestOps(p)
      BY <2>1, <2>5, <2>6 DEF EditOps, RenameOps, MoveOps, ChangeSignatureOps, AddParameterOps, DeleteOps,
             CreateAliasOps, RemoveAliasOps, SetExportOps, RemoveExportOps, CreateTestOps
    <3> QED
      BY <3>1 DEF EditOps, Newborn, RenameOps, MoveOps, ChangeSignatureOps, AddParameterOps, DeleteOps,
             CreateAliasOps, RemoveAliasOps, SetExportOps, RemoveExportOps, CreateTestOps
  <2>8. o \in Handle(p, N, to)
    <3>1. to.op \in {"rename_symbol", "move_symbol", "change_function_signature", "add_parameter",
                     "delete_symbol", "create_alias", "remove_alias", "set_export", "remove_export", "create_test"}
      BY <2>1, <2>2 DEF EditOps, RenameOps, MoveOps, ChangeSignatureOps, AddParameterOps, DeleteOps,
             CreateAliasOps, RemoveAliasOps, SetExportOps, RemoveExportOps, CreateTestOps
    <3>2. o \in Handle(p, k, to)
      BY DEF Accepted
    <3>3. \/ to.op = "rename_symbol" /\ o \in RenameHandler(p, to)
          \/ to.op = "move_symbol" /\ o \in MoveHandler(p, to)
          \/ to.op = "change_function_signature" /\ o \in ChangeSignatureHandler(p, to)
          \/ to.op = "add_parameter" /\ o \in AddParameterHandler(p, to)
          \/ to.op = "delete_symbol" /\ o \in DeleteHandler(p, to)
          \/ to.op = "create_alias" /\ o \in CreateAliasHandler(p, to)
          \/ to.op = "remove_alias" /\ o \in RemoveAliasHandler(p, to)
          \/ to.op = "set_export" /\ o \in SetExportHandler(p, to)
          \/ to.op = "remove_export" /\ o \in RemoveExportHandler(p, to)
          \/ to.op = "create_test" /\ o \in CreateTestHandler(p, to)
      BY <3>1, <3>2 DEF Handle
    <3> QED
      BY <3>3 DEF Handle
  <2> QED
    BY <2>7, <2>8, HandleKeepsInv
<1> QED
  BY <1>1, <1>2

\* Nothing becomes generic.
LEMMA AlikeMonomorphic ==
  ASSUME NEW r, NEW q, NEW p, NEW o, Alike(r, q, p, o), Monomorphic(q), Monomorphic(p)
  PROVE  Monomorphic(o)
<1>1. SUFFICES ASSUME NEW y \in DOMAIN o.defs
               PROVE  o.defs[y].kind # "generic" /\ \A c \in o.defs[y].calls : c.at = "plain"
  BY DEF Monomorphic
<1>2. PICK z \in {q, p} : Entry(o, y) = Entry(z, y)
  BY DEF Alike, AlikeIn, Follows
<1>3. y \in DOMAIN z.defs
  BY <1>1, <1>2 DEF Entry
<1>4. o.defs[y].kind = z.defs[y].kind /\ o.defs[y].calls = z.defs[y].calls
  BY <1>2, <1>3, EntriesEqual
<1> QED
  BY <1>2, <1>3, <1>4 DEF Monomorphic

\* Replayed on a root that says of what the step touches what the source
\* said, the step does the same.
LEMMA StepReplayed ==
  ASSUME NEW r, NEW q, NEW p, NEW o, NEW op, NEW k, NEW N, Replays(r, q, p, o, op, k, N)
  PROVE  Alike(r, q, p, o) /\ Good(o, N)
<1>1. op \in EditOps(r) /\ RootInv(p, N) /\ N \in Nat /\ Monomorphic(q) /\ Monomorphic(p)
  BY DEF Replays, Good
<1>2. CASE op \in CreateFunctionOps \cup CreateExternalOps \cup ReplaceBodyOps(r)
  <2>1. Alike(r, q, p, o) /\ RootInv(o, N)
    BY <1>2, FunctionReplayed, ExternalReplayed, BodyReplayed
  <2> QED
    BY <1>1, <2>1, AlikeMonomorphic DEF Good
<1>3. CASE op \notin CreateFunctionOps \cup CreateExternalOps \cup ReplaceBodyOps(r)
  <2>1. Alike(r, q, p, o)
    BY <1>1, <1>3, RenameReplayed, MoveReplayed, AliasReplayed, ExportReplayed, TestReplayed,
       SignatureReplayed, ParameterReplayed, DeleteReplayed DEF EditOps
  <2>2. ~Creates(op) /\ ~Written(op)
    BY <1>1, <1>3 DEF EditOps, Creates, Written, Newborn, RenameOps, MoveOps, ChangeSignatureOps, AddParameterOps,
           DeleteOps, CreateAliasOps, RemoveAliasOps, SetExportOps, RemoveExportOps, CreateTestOps, DeleteTestOps
  <2>3. o \in Accepted(p, k, Retargeted(p, op))
    BY <2>2 DEF Replays, Aimed
  <2>4. RootInv(o, N)
    BY <1>1, <2>2, <2>3, AimedSound
  <2> QED
    BY <1>1, <2>1, <2>4, AlikeMonomorphic DEF Good
<1> QED
  BY <1>2, <1>3

-----------------------------------------------------------------------------
\* The whole replay, from base b to source s on target t.

SameIn(u, v, y) ==
  /\ Entry(u, y) = Entry(v, y) /\ BindingsOf(u.names, y) = BindingsOf(v.names, y)
  /\ ParamsOf(u, y) = ParamsOf(v, y) /\ ExportsOf(u, y) = ExportsOf(v, y)

\* What the source has in the end as it was, root r has as it was.
KeepsIn(b, s, r, y) ==
  /\ Entry(s, y) = Entry(b, y) => Entry(r, y) = Entry(b, y)
  /\ BindingsOf(s.names, y) = BindingsOf(b.names, y) => BindingsOf(r.names, y) = BindingsOf(b.names, y)
  /\ ParamsOf(s, y) = ParamsOf(b, y) => ParamsOf(r, y) = ParamsOf(b, y)
  /\ ExportsOf(s, y) = ExportsOf(b, y) => ExportsOf(r, y) = ExportsOf(b, y)
  /\ Resigned(b, r, y) => Resigned(b, s, y)
Keeps(b, s, r) ==
  /\ \A y : KeepsIn(b, s, r, y)
  /\ s.tests = b.tests => r.tests = b.tests

\* What the source has changed, the target has as it was; what has another
\* signature altogether.
ApartIn(b, t, s, y) ==
  /\ Entry(s, y) = Entry(b, y) \/ Entry(t, y) = Entry(b, y)
  /\ BindingsOf(s.names, y) = BindingsOf(b.names, y) \/ BindingsOf(t.names, y) = BindingsOf(b.names, y)
  /\ ParamsOf(s, y) = ParamsOf(b, y) \/ ParamsOf(t, y) = ParamsOf(b, y)
  /\ ExportsOf(s, y) = ExportsOf(b, y) \/ ExportsOf(t, y) = ExportsOf(b, y)
  /\ Resigned(b, s, y) => SameIn(t, b, y)
Apart(b, t, s) ==
  /\ \A y : ApartIn(b, t, s, y)
  /\ s.tests = b.tests \/ t.tests = b.tests

\* Root p has what the source has changed as root r of the source has it, and
\* the rest as the target.
Picks(a, c, d, e, f) == f = IF c = a THEN d ELSE e
MidwayIn(b, s, t, r, p, y) ==
  /\ Picks(Entry(b, y), Entry(s, y), Entry(t, y), Entry(r, y), Entry(p, y))
  /\ Picks(BindingsOf(b.names, y), BindingsOf(s.names, y), BindingsOf(t.names, y), BindingsOf(r.names, y),
           BindingsOf(p.names, y))
  /\ Picks(ParamsOf(b, y), ParamsOf(s, y), ParamsOf(t, y), ParamsOf(r, y), ParamsOf(p, y))
  /\ Picks(ExportsOf(b, y), ExportsOf(s, y), ExportsOf(t, y), ExportsOf(r, y), ExportsOf(p, y))
Midway(b, s, t, r, p) ==
  /\ \A y : MidwayIn(b, s, t, r, p, y)
  /\ Picks(b.tests, s.tests, t.tests, r.tests, p.tests)

\* The target itself is at the start.
LEMMA AtStart ==
  ASSUME NEW b, NEW s, NEW t, Apart(b, t, s)
  PROVE  Midway(b, s, t, b, t)
<1>1. \A y : MidwayIn(b, s, t, b, t, y)
  BY DEF Apart, ApartIn, MidwayIn, Picks
<1> QED
  BY <1>1 DEF Midway, Apart, Picks

\* A step leads on.
LEMMA OneFurther ==
  ASSUME NEW b, NEW s, NEW t, NEW r, NEW q, NEW p, NEW o, Keeps(b, s, r), Keeps(b, s, q),
         Midway(b, s, t, r, p), Alike(r, q, p, o)
  PROVE  Midway(b, s, t, q, o)
<1>1. \A y : MidwayIn(b, s, t, q, o, y)
  <2>1. SUFFICES ASSUME NEW y PROVE MidwayIn(b, s, t, q, o, y)
    OBVIOUS
  <2>2. KeepsIn(b, s, r, y) /\ KeepsIn(b, s, q, y) /\ MidwayIn(b, s, t, r, p, y) /\ AlikeIn(r, q, p, o, y)
    BY DEF Keeps, Midway, Alike
  <2> QED
    BY <2>2 DEF KeepsIn, MidwayIn, AlikeIn, Picks, Follows
<1>2. Picks(b.tests, s.tests, t.tests, q.tests, o.tests)
  BY DEF Keeps, Midway, Alike, Picks, Follows
<1> QED
  BY <1>1, <1>2 DEF Midway

\* A symbol that the source gave another signature is not called from, nor
\* tested by, what only the target has: the merged root would not check.
LEMMA NotCalledThere ==
  ASSUME NEW b, NEW s, NEW t, NEW m, NEW N, RootInv(b, N), Good(s, N), Good(t, N), RootInv(m, N),
         Apart(b, t, s), Alike(b, s, t, m), NEW y, Resigned(b, s, y), NEW count,
         y \in DOMAIN m.defs => Len(m.defs[y].params) = count, y \in DOMAIN m.defs,
         y \in DOMAIN t.defs => Len(t.defs[y].params) = count, y \in DOMAIN t.defs
  PROVE  FALSE
<1>1. SameIn(t, b, y) /\ AlikeIn(b, s, t, m, y)
  BY DEF Apart, ApartIn, Alike
<1>2. Entry(m, y) = Entry(s, y) /\ ParamsOf(m, y) = ParamsOf(s, y)
  BY <1>1 DEF SameIn, AlikeIn, Follows
<1>3. y \in DOMAIN s.defs /\ y \in DOMAIN b.defs
  BY <1>1, <1>2 DEF Entry, SameIn
<1>4. s.defs[y].params = m.defs[y].params /\ b.defs[y].params = t.defs[y].params
  BY <1>1, <1>2, <1>3 DEF ParamsOf, SameIn
<1>5. t.defs[y].kind = b.defs[y].kind
  BY <1>1, <1>3, EntriesEqual DEF SameIn
<1>6. s.defs[y].kind # "generic" /\ b.defs[y].kind # "generic"
  BY <1>3, <1>5 DEF Good, Monomorphic
<1>7. Signature(s.defs[y]) = Signature(b.defs[y])
  BY <1>4, <1>6 DEF Signature
<1>8. Part(s, y, "signature") = {Signature(s.defs[y])} /\ Part(b, y, "signature") = {Signature(b.defs[y])}
  BY <1>3, PartsAre DEF Good
<1> QED
  BY <1>7, <1>8 DEF Resigned

\* The step on the way is clear.
LEMMA ClearOnTheWay ==
  ASSUME NEW b, NEW s, NEW t, NEW r, NEW q, NEW p, NEW m, NEW N,
         RootInv(b, N), Good(s, N), Good(t, N), RootInv(m, N), RootInv(p, N), RootInv(r, N),
         Keeps(b, s, r), Keeps(b, s, q), Apart(b, t, s), Alike(b, s, t, m), Midway(b, s, t, r, p)
  PROVE  Clear(r, q, p)
<1>1. \A y : /\ KeepsIn(b, s, r, y) /\ KeepsIn(b, s, q, y) /\ MidwayIn(b, s, t, r, p, y)
             /\ ApartIn(b, t, s, y) /\ AlikeIn(b, s, t, m, y)
  BY DEF Keeps, Midway, Apart, Alike
<1>2. \A y : /\ Entry(q, y) # Entry(r, y) => Entry(p, y) = Entry(r, y)
             /\ BindingsOf(q.names, y) # BindingsOf(r.names, y) => BindingsOf(p.names, y) = BindingsOf(r.names, y)
             /\ ParamsOf(q, y) # ParamsOf(r, y) => ParamsOf(p, y) = ParamsOf(r, y)
             /\ ExportsOf(q, y) # ExportsOf(r, y) => ExportsOf(p, y) = ExportsOf(r, y)
  BY <1>1 DEF KeepsIn, MidwayIn, Picks
<1>3. q.tests # r.tests => p.tests = r.tests
  BY DEF Keeps, Midway, Picks
<1>4. ASSUME NEW y, Resigned(r, q, y) PROVE Undisturbed(r, p, y)
  <2>1. Resigned(b, s, y)
    BY <1>1, <1>4 DEF Resigned, KeepsIn
  <2>2. SameIn(t, b, y)
    BY <1>1, <2>1 DEF ApartIn
  <2>3. SameIn(p, r, y)
    BY <1>1, <2>2 DEF SameIn, KeepsIn, MidwayIn, Picks
  <2>4. ASSUME NEW h \in DOMAIN p.defs, NEW c \in p.defs[h].calls, c.callee = y PROVE Entry(p, h) = Entry(r, h)
    <3>1. CASE Entry(s, h) # Entry(b, h)
      BY <1>1, <3>1 DEF MidwayIn, Picks
    <3>2. CASE Entry(s, h) = Entry(b, h)
      <4>1. Entry(p, h) = Entry(t, h) /\ Entry(m, h) = Entry(t, h)
        BY <1>1, <3>2 DEF MidwayIn, Picks, AlikeIn, Follows
      <4>2. h \in DOMAIN t.defs /\ h \in DOMAIN m.defs
        BY <2>4, <4>1 DEF Entry
      <4>3. c \in t.defs[h].calls /\ c \in m.defs[h].calls
        <5>1. p.defs[h].calls = t.defs[h].calls
          BY <2>4, <4>1, <4>2, EntriesEqual
        <5>2. m.defs[h].calls = t.defs[h].calls
          BY <4>1, <4>2, EntriesEqual
        <5> QED
          BY <2>4, <5>1, <5>2
      <4>4. /\ y \in DOMAIN t.defs /\ Len(t.defs[y].params) = c.args
            /\ y \in DOMAIN m.defs /\ Len(m.defs[y].params) = c.args
        BY <2>4, <4>2, <4>3 DEF Good, RootInv, TypeChecks, CallChecks
      <4> QED
        BY <2>1, <4>4, NotCalledThere
    <3> QED
      BY <3>1, <3>2
  <2>5. ASSUME NEW u \in p.tests, u.case.entry = y PROVE p.tests = r.tests
    <3>1. CASE s.tests # b.tests
      BY <3>1 DEF Midway, Picks
    <3>2. CASE s.tests = b.tests
      <4>1. p.tests = t.tests /\ m.tests = t.tests
        BY <3>2 DEF Midway, Picks, Alike, Follows
      <4>2. /\ y \in DOMAIN t.defs /\ Len(t.defs[y].params) = u.case.args
            /\ y \in DOMAIN m.defs /\ Len(m.defs[y].params) = u.case.args
        BY <2>5, <4>1 DEF Good, RootInv, TypeChecks, TestChecks
      <4> QED
        BY <2>1, <4>2, NotCalledThere
    <3> QED
      BY <3>1, <3>2
  <2> QED
    BY <2>3, <2>4, <2>5 DEF Undisturbed, SameIn
<1> QED
  BY <1>2, <1>3, <1>4 DEF Clear

\* What a sound root says of a symbol, as one.
LEMMA StateParts ==
  ASSUME NEW r, NEW N, RootInv(r, N), NEW y
  PROVE  /\ SymbolState(r, y) = [entry |-> Entry(r, y), names |-> BindingsOf(r.names, y),
                                 params |-> ParamsOf(r, y), exports |-> ExportsOf(r, y)]
         /\ Part(r, y, "signature") = Signatures(SymbolState(r, y))
<1>1. /\ Part(r, y, "entry") = Entry(r, y) /\ Part(r, y, "names") = BindingsOf(r.names, y)
      /\ Part(r, y, "params") = ParamsOf(r, y) /\ Part(r, y, "exports") = ExportsOf(r, y)
  BY PartsAre
<1> DEFINE m == SymbolState(r, y)
<1>2. m = [entry |-> m.entry, names |-> m.names, params |-> m.params, exports |-> m.exports]
  BY StateForm
<1>3. /\ Part(r, y, "entry") = m.entry /\ Part(r, y, "names") = m.names
      /\ Part(r, y, "params") = m.params /\ Part(r, y, "exports") = m.exports
      /\ Part(r, y, "signature") = Signatures(m)
  BY DEF Part
<1> HIDE DEF m
<1>4. m = [entry |-> Entry(r, y), names |-> BindingsOf(r.names, y),
           params |-> ParamsOf(r, y), exports |-> ExportsOf(r, y)]
  BY <1>1, <1>2, <1>3
<1> QED
  BY <1>3, <1>4 DEF m

\* Of what no root has, they all say the same.
LEMMA NothingSaid ==
  ASSUME NEW u, NEW v, NEW N, RootInv(u, N), RootInv(v, N), NEW y, y \notin DOMAIN u.defs, y \notin DOMAIN v.defs
  PROVE  SameIn(u, v, y) /\ ~Resigned(u, v, y)
<1>1. SymbolState(u, y) = SymbolState(v, y)
  BY DEF SymbolState
<1> DEFINE z(w) == [entry |-> Entry(w, y), names |-> BindingsOf(w.names, y),
                    params |-> ParamsOf(w, y), exports |-> ExportsOf(w, y)]
<1>2. z(u) = z(v) /\ Part(u, y, "signature") = Part(v, y, "signature")
  BY <1>1, StateParts
<1>3. \A w : /\ z(w).entry = Entry(w, y) /\ z(w).names = BindingsOf(w.names, y)
             /\ z(w).params = ParamsOf(w, y) /\ z(w).exports = ExportsOf(w, y)
  OBVIOUS
<1> HIDE DEF z
<1> QED
  BY <1>2, <1>3 DEF SameIn, Resigned

\* A state that was merged has of each part what the source made of it, or
\* else what the target has.
LEMMA StateFollows ==
  ASSUME NEW base, NEW left, NEW right,
         NEW m \in ThreeWay(base, left, right, MergeSymbolState(base, left, right)), NEW f \in Facets
  PROVE  Follows(base[f], right[f], left[f], m[f])
<1>1. CASE right = base
  BY <1>1 DEF ThreeWay, Follows
<1>2. CASE right # base /\ (left = base \/ left = right)
  BY <1>2 DEF ThreeWay, Follows
<1>3. CASE right # base /\ left # base /\ left # right
  <2>1. m \in MergeSymbolState(base, left, right)
    BY <1>3 DEF ThreeWay
  <2>2. m = [g \in Facets |-> IF right[g] # base[g] THEN right[g] ELSE left[g]]
    BY <2>1 DEF MergeSymbolState
  <2> QED
    BY <2>2 DEF Follows
<1> QED
  BY <1>1, <1>2, <1>3

\* Such is the merged root.
LEMMA MergedAlike ==
  ASSUME NEW b, NEW s, NEW t, NEW m \in MergeRoots(b, t, s), NEW N,
         RootInv(b, N), RootInv(s, N), RootInv(t, N), RootInv(m, N)
  PROVE  Alike(b, s, t, m)
<1>1. ASSUME NEW y PROVE AlikeIn(b, s, t, m, y)
  <2>1. CASE y \in AllSymbols(b, t, s)
    <3>1. SymbolState(m, y) \in MergeSymbol(b, t, s, y)
      BY <2>1, StateIsMerged
    <3> DEFINE z(w) == SymbolState(w, y)
    <3>2. z(m) \in ThreeWay(z(b), z(t), z(s), MergeSymbolState(z(b), z(t), z(s)))
      BY <3>1 DEF MergeSymbol
    <3>3. \A w \in {b, s, t, m} :
            /\ z(w).entry = Entry(w, y) /\ z(w).names = BindingsOf(w.names, y)
            /\ z(w).params = ParamsOf(w, y) /\ z(w).exports = ExportsOf(w, y)
      BY StateParts
    <3> HIDE DEF z
    <3>4. \A f \in Facets : Follows(z(b)[f], z(s)[f], z(t)[f], z(m)[f])
      BY <3>2, StateFollows
    <3>5. /\ Follows(z(b).entry, z(s).entry, z(t).entry, z(m).entry)
          /\ Follows(z(b).names, z(s).names, z(t).names, z(m).names)
          /\ Follows(z(b).params, z(s).params, z(t).params, z(m).params)
          /\ Follows(z(b).exports, z(s).exports, z(t).exports, z(m).exports)
      BY <3>4 DEF Facets
    <3> QED
      BY <3>3, <3>5 DEF AlikeIn
  <2>2. CASE y \notin AllSymbols(b, t, s)
    <3>1. \E a : AreStates(a, b, t, s, m)
      BY MergedParts
    <3>2. y \notin DOMAIN m.defs
      BY <2>2, <3>1 DEF AreStates
    <3>3. SameIn(s, b, y) /\ SameIn(m, t, y)
      BY <2>2, <3>2, NothingSaid DEF AllSymbols
    <3> QED
      BY <3>3 DEF SameIn, AlikeIn, Follows
  <2> QED
    BY <2>1, <2>2
<1>2. Follows(b.tests, s.tests, t.tests, m.tests)
  <2>1. m.tests \in ThreeWay(b.tests, t.tests, s.tests, {})
    BY MergedParts DEF AreStates
  <2> QED
    BY <2>1 DEF ThreeWay, Follows
<1> QED
  BY <1>1, <1>2 DEF Alike

\* The changes are apart: none was made on both sides, and what has another
\* signature would not merge if the target had changed it at all.
LEMMA ChangesApart ==
  ASSUME NEW b, NEW s, NEW t, NEW m \in MergeRoots(b, t, s), NEW N,
         RootInv(b, N), RootInv(s, N), RootInv(t, N), RootInv(m, N), DisjointChanges(b, t, s)
  PROVE  Apart(b, t, s)
<1>1. ASSUME NEW y PROVE ApartIn(b, t, s, y)
  <2>1. CASE y \in AllSymbols(b, t, s)
    <3>1. /\ Part(t, y, "entry") = Part(b, y, "entry") \/ Part(s, y, "entry") = Part(b, y, "entry")
          /\ Part(t, y, "names") = Part(b, y, "names") \/ Part(s, y, "names") = Part(b, y, "names")
          /\ Part(t, y, "params") = Part(b, y, "params") \/ Part(s, y, "params") = Part(b, y, "params")
          /\ Part(t, y, "exports") = Part(b, y, "exports") \/ Part(s, y, "exports") = Part(b, y, "exports")
      BY <2>1 DEF DisjointChanges, AllSymbols, Facets
    <3>2. \A w \in {b, s, t} :
            /\ Part(w, y, "entry") = Entry(w, y) /\ Part(w, y, "names") = BindingsOf(w.names, y)
            /\ Part(w, y, "params") = ParamsOf(w, y) /\ Part(w, y, "exports") = ExportsOf(w, y)
      BY PartsAre
    <3>3. /\ Entry(s, y) = Entry(b, y) \/ Entry(t, y) = Entry(b, y)
          /\ BindingsOf(s.names, y) = BindingsOf(b.names, y) \/ BindingsOf(t.names, y) = BindingsOf(b.names, y)
          /\ ParamsOf(s, y) = ParamsOf(b, y) \/ ParamsOf(t, y) = ParamsOf(b, y)
          /\ ExportsOf(s, y) = ExportsOf(b, y) \/ ExportsOf(t, y) = ExportsOf(b, y)
      BY <3>1, <3>2
    <3>4. ASSUME Resigned(b, s, y) PROVE SameIn(t, b, y)
      <4> DEFINE z(w) == SymbolState(w, y)
      <4>1. z(m) \in ThreeWay(z(b), z(t), z(s), MergeSymbolState(z(b), z(t), z(s)))
        BY <2>1, StateIsMerged DEF MergeSymbol
      <4>2. \A w \in {b, s, t} :
              /\ z(w).entry = Entry(w, y) /\ z(w).names = BindingsOf(w.names, y)
              /\ z(w).params = ParamsOf(w, y) /\ z(w).exports = ExportsOf(w, y)
              /\ Part(w, y, "signature") = Signatures(z(w))
        BY StateParts
      <4> HIDE DEF z
      <4>3. Signatures(z(s)) # Signatures(z(b))
        BY <3>4, <4>2 DEF Resigned
      <4>4. z(s).entry # z(b).entry
        BY <4>3 DEF Signatures
      <4>5. z(t) = z(b)
        <5>1. z(s) # z(b)
          BY <4>4
        <5>2. z(t) # z(s)
          BY <3>3, <4>2, <4>4
        <5>3. MergeSymbolState(z(b), z(t), z(s)) = {}
          BY <4>3 DEF MergeSymbolState
        <5> QED
          BY <4>1, <5>1, <5>2, <5>3 DEF ThreeWay
      <4> QED
        BY <4>2, <4>5 DEF SameIn
    <3> QED
      BY <3>3, <3>4 DEF ApartIn
  <2>2. CASE y \notin AllSymbols(b, t, s)
    <3>1. SameIn(b, s, y) /\ ~Resigned(b, s, y)
      BY <2>2, NothingSaid DEF AllSymbols
    <3> QED
      BY <3>1 DEF SameIn, ApartIn
  <2> QED
    BY <2>1, <2>2
<1> QED
  BY <1>1 DEF Apart, DisjointChanges

\* The roots of a source that takes nothing back keep what it keeps.
LEMMA NothingTaken ==
  ASSUME NEW roots, NEW n \in Nat, DOMAIN roots = 1 .. n + 1, NEW s, s = roots[n + 1], s = Last(roots),
         NEW N, \A i \in 1 .. n + 1 : RootInv(roots[i], N), TakesNothingBack(roots),
         NEW b, b = roots[1], NEW i \in 1 .. n + 1, NEW r, r = roots[i]
  PROVE  Keeps(b, s, r)
<1>0. i \in DOMAIN roots /\ 1 \in DOMAIN roots /\ n + 1 \in DOMAIN roots
  OBVIOUS
<1>1. RootInv(b, N) /\ RootInv(s, N) /\ RootInv(r, N)
  BY <1>0
<1>2. ASSUME NEW y PROVE KeepsIn(b, s, r, y)
  <2>1. CASE y \in UNION {DOMAIN roots[j].defs : j \in DOMAIN roots}
    <3>1. \A f \in Parts : Part(s, y, f) = Part(b, y, f) => Part(r, y, f) = Part(b, y, f)
      BY <1>0, <2>1 DEF TakesNothingBack
    <3>2. /\ Part(s, y, "entry") = Part(b, y, "entry") => Part(r, y, "entry") = Part(b, y, "entry")
          /\ Part(s, y, "names") = Part(b, y, "names") => Part(r, y, "names") = Part(b, y, "names")
          /\ Part(s, y, "params") = Part(b, y, "params") => Part(r, y, "params") = Part(b, y, "params")
          /\ Part(s, y, "exports") = Part(b, y, "exports") => Part(r, y, "exports") = Part(b, y, "exports")
          /\ Part(s, y, "signature") = Part(b, y, "signature") => Part(r, y, "signature") = Part(b, y, "signature")
      BY <3>1 DEF Parts, Facets
    <3>3. \A w \in {b, s, r} :
            /\ Part(w, y, "entry") = Entry(w, y) /\ Part(w, y, "names") = BindingsOf(w.names, y)
            /\ Part(w, y, "params") = ParamsOf(w, y) /\ Part(w, y, "exports") = ExportsOf(w, y)
      BY <1>1, PartsAre
    <3> QED
      BY <3>2, <3>3 DEF KeepsIn, Resigned
  <2>2. CASE y \notin UNION {DOMAIN roots[j].defs : j \in DOMAIN roots}
    <3>1. y \notin DOMAIN b.defs /\ y \notin DOMAIN r.defs
      BY <1>0, <2>2
    <3>2. SameIn(b, r, y) /\ ~Resigned(b, r, y)
      BY <1>1, <3>1, NothingSaid
    <3> QED
      BY <3>2 DEF KeepsIn, SameIn
  <2> QED
    BY <2>1, <2>2
<1>3. s.tests = b.tests => r.tests = b.tests
  BY <1>0 DEF TakesNothingBack
<1> QED
  BY <1>2, <1>3 DEF Keeps

\* Sound roots that say the same are the same program.
LEMMA SameProgram ==
  ASSUME NEW u, NEW v, NEW N, RootInv(u, N), RootInv(v, N), \A y : SameIn(u, v, y), u.tests = v.tests
  PROVE  Program(u) = Program(v)
<1>1. IsRoot(u) /\ IsRoot(v)
  BY DEF RootInv, ShapeInv
<1>2. DOMAIN u.defs = DOMAIN v.defs
  <2>1. \A y : y \in DOMAIN u.defs <=> y \in DOMAIN v.defs
    BY DEF SameIn, Entry
  <2> QED
    BY <2>1
<1>3. \A y \in DOMAIN u.defs : u.defs[y] = v.defs[y]
  <2>1. SUFFICES ASSUME NEW y \in DOMAIN u.defs PROVE u.defs[y] = v.defs[y]
    OBVIOUS
  <2>2. y \in DOMAIN v.defs
    BY <1>2
  <2>3. Entry(u, y) = Entry(v, y) /\ ParamsOf(u, y) = ParamsOf(v, y)
    BY DEF SameIn
  <2>4. u.defs[y].kind = v.defs[y].kind /\ u.defs[y].calls = v.defs[y].calls
    BY <2>2, <2>3, EntriesEqual
  <2>5. u.defs[y].params = v.defs[y].params
    BY <2>2, <2>3 DEF ParamsOf
  <2>6. u.defs[y] \in Definition /\ v.defs[y] \in Definition
    BY <1>1, <2>2 DEF IsRoot
  <2> QED
    BY <2>4, <2>5, <2>6 DEF Definition
<1>4. u.defs = v.defs
  BY <1>1, <1>2, <1>3 DEF IsRoot
<1>5. u.names = v.names
  BY DEF SameIn, BindingsOf
<1>6. u.exports = v.exports
  BY DEF SameIn, ExportsOf
<1> QED
  BY <1>1, <1>4, <1>5, <1>6 DEF Program, IsRoot

\* At the end stands the merged root.
LEMMA AtTheEnd ==
  ASSUME NEW b, NEW s, NEW t, NEW m, NEW p, NEW N, RootInv(m, N), RootInv(p, N),
         Alike(b, s, t, m), Midway(b, s, t, s, p)
  PROVE  Program(m) = Program(p)
<1>1. \A y : SameIn(m, p, y)
  BY DEF Alike, Midway, AlikeIn, MidwayIn, Follows, Picks, SameIn
<1>2. m.tests = p.tests
  BY DEF Alike, Midway, Follows, Picks
<1> QED
  BY <1>1, <1>2, SameProgram

-----------------------------------------------------------------------------
\* The migrations since the ancestor.

\* The end of a sequence.
LEMMA SubSequence ==
  ASSUME NEW T, NEW c, c \in Seq(T), NEW n, n = Len(c), NEW k, k \in 1 .. n + 1, NEW d, d = SubSeq(c, k, n)
  PROVE  /\ Len(d) = n + 1 - k /\ DOMAIN d = 1 .. n + 1 - k
         /\ \A i \in 1 .. n + 1 - k : d[i] = c[k + i - 1]
OBVIOUS

\* The points of a chain are a sequence.
LEMMA PointsAreSeq ==
  ASSUME NEW c, IsSeq(c)
  PROVE  Points(c) \in Seq({c[i].root : i \in DOMAIN c} \cup {EmptyRoot})
<1> DEFINE roots == [i \in DOMAIN c |-> c[i].root]
           S == {c[i].root : i \in DOMAIN c} \cup {EmptyRoot}
<1>1. Len(c) \in Nat /\ DOMAIN c = 1 .. Len(c)
  BY DEF IsSeq
<1>2. roots \in Seq(S)
  BY <1>1
<1>3. <<EmptyRoot>> \in Seq(S)
  OBVIOUS
<1> HIDE DEF roots, S
<1>4. <<EmptyRoot>> \o roots \in Seq(S)
  BY <1>2, <1>3
<1> QED
  BY <1>4 DEF Points, roots, S

\* From the ancestor on there is one root more than there are migrations, each
\* between two of them.
LEMMA SinceParts ==
  ASSUME NEW tc, IsSeq(tc), NEW sc, IsSeq(sc), NEW a, a = CommonAncestor(tc, sc)[2],
         NEW L, L = Len(sc) + 1 - a, NEW roots, roots = Since(tc, sc), NEW items, items = After(tc, sc)
  PROVE  /\ a \in 1 .. Len(sc) + 1 /\ L \in Nat /\ Len(sc) \in Nat
         /\ DOMAIN roots = 1 .. L + 1 /\ Len(roots) = L + 1
         /\ \A i \in 1 .. L + 1 : roots[i] = RootAt(sc, a + i - 2)
         /\ roots[L + 1] = RootOf(sc) /\ Last(roots) = RootOf(sc)
         /\ DOMAIN items = 1 .. L /\ Len(items) = L
         /\ \A i \in 1 .. L : items[i] = sc[a + i - 1]
         /\ roots[1] = Points(tc)[CommonAncestor(tc, sc)[1]]
<1> DEFINE p == CommonAncestor(tc, sc)
           pts == Points(sc)
           S == {sc[i].root : i \in DOMAIN sc} \cup {EmptyRoot}
<1>1. p \in SharedPoints(tc, sc) /\ p[2] \in 1 .. Len(sc) + 1 /\ Points(tc)[p[1]] = Points(sc)[p[2]]
      /\ Len(sc) \in Nat
  BY AncestorIsBest
<1>2. /\ Len(pts) = Len(sc) + 1
      /\ \A i \in 1 .. Len(sc) + 1 : pts[i] = RootAt(sc, i - 1)
  BY PointsOf
<1>3. pts \in Seq(S) /\ sc \in Seq(Items(sc))
  BY PointsAreSeq DEF IsSeq
<1>4. RootOf(sc) = RootAt(sc, Len(sc))
  BY Ends
<1>5. roots = SubSeq(pts, a, Len(sc) + 1) /\ items = SubSeq(sc, a, Len(sc))
  BY DEF Since, After
<1>6. a \in 1 .. Len(sc) + 1 /\ L \in Nat /\ Points(tc)[p[1]] = pts[a]
  BY <1>1
<1> HIDE DEF p, pts, S
<1>7. /\ Len(roots) = L + 1 /\ DOMAIN roots = 1 .. L + 1
      /\ \A i \in 1 .. L + 1 : roots[i] = pts[a + i - 1]
  <2>1. PICK c, T, n, k, d : c = pts /\ c \in Seq(T) /\ n = Len(sc) + 1 /\ k = a /\ d = roots
    BY <1>3
  <2>2. c \in Seq(T) /\ n = Len(c) /\ k \in 1 .. n + 1 /\ d = SubSeq(c, k, n)
    BY <1>1, <1>2, <1>5, <1>6, <2>1
  <2>3. /\ Len(d) = n + 1 - k /\ DOMAIN d = 1 .. n + 1 - k
        /\ \A i \in 1 .. n + 1 - k : d[i] = c[k + i - 1]
    BY <2>2, SubSequence
  <2>4. n + 1 - k = L + 1
    BY <1>1, <1>6, <2>1
  <2> QED
    BY <2>1, <2>3, <2>4
<1>8. /\ Len(items) = L /\ DOMAIN items = 1 .. L
      /\ \A i \in 1 .. L : items[i] = sc[a + i - 1]
  <2>1. PICK c, T, n, k, d : c = sc /\ c \in Seq(T) /\ n = Len(sc) /\ k = a /\ d = items
    BY <1>3
  <2>2. c \in Seq(T) /\ n = Len(c) /\ k \in 1 .. n + 1 /\ d = SubSeq(c, k, n)
    BY <1>1, <1>2, <1>5, <1>6, <2>1
  <2>3. /\ Len(d) = n + 1 - k /\ DOMAIN d = 1 .. n + 1 - k
        /\ \A i \in 1 .. n + 1 - k : d[i] = c[k + i - 1]
    BY <2>2, SubSequence
  <2>4. n + 1 - k = L
    BY <1>1, <1>6, <2>1
  <2> QED
    BY <2>1, <2>3, <2>4
<1>9. \A i \in 1 .. L + 1 : roots[i] = RootAt(sc, a + i - 2)
  <2>1. SUFFICES ASSUME NEW i \in 1 .. L + 1 PROVE roots[i] = RootAt(sc, a + i - 2)
    OBVIOUS
  <2>2. a + i - 1 \in 1 .. Len(sc) + 1 /\ (a + i - 1) - 1 = a + i - 2
    BY <1>1, <1>6
  <2>3. pts[a + i - 1] = RootAt(sc, (a + i - 1) - 1)
    BY <1>2, <2>2
  <2> QED
    BY <1>7, <2>2, <2>3
<1>10. roots[L + 1] = RootOf(sc)
  <2>1. PICK n, k : n = Len(sc) /\ k = a
    OBVIOUS
  <2>2. n \in Nat /\ k \in Nat /\ L = n + 1 - k /\ L \in Nat
    BY <1>1, <1>6, <2>1
  <2>3. k + (L + 1) - 2 = n /\ L + 1 \in 1 .. L + 1
    BY <2>2
  <2> QED
    BY <1>4, <1>9, <2>1, <2>3
<1>11. Last(roots) = RootOf(sc)
  BY <1>7, <1>10 DEF Last
<1>12. roots[1] = Points(tc)[p[1]]
  <2>1. 1 \in 1 .. L + 1 /\ a + 1 - 1 = a
    BY <1>6
  <2> QED
    BY <1>6, <1>7, <2>1
<1> QED
  BY <1>1, <1>6, <1>7, <1>8, <1>9, <1>10, <1>11, <1>12 DEF p

\* A migration on the way, and how many symbols were born when it made one.
LEMMA BornHere ==
  ASSUME NEW C, NEW keys, Lawful(C, keys), NEW c \in C, NEW i \in 1 .. Len(c), NEW r, r = RootAt(c, i - 1),
         NEW q, q = RootAt(c, i), NEW x, x = c[i], x.op.op # "merge_branch"
  PROVE  /\ x.op \in EditOps(r) /\ q \in Accepted(r, x.births, x.op)
         /\ Creates(x.op) => x.births \in Nat /\ RootInv(r, x.births) /\ x.births + 1 <= Len(keys)
<1>1. /\ IsSeq(c) /\ IsSeq(keys) /\ RootInv(RootAt(c, i - 1), Len(keys)) /\ MadeBy(c, i, keys)
      /\ HistoriesDecide(C) /\ BornOnOlder(C, keys)
  <2>1. i - 1 \in 0 .. Len(c)
    OBVIOUS
  <2> QED
    BY <2>1 DEF Lawful, RootsSound, MigrationsMade, KeysDiffer
<1>2. Len(c) \in Nat /\ Len(keys) \in Nat /\ DOMAIN keys = 1 .. Len(keys)
  BY <1>1 DEF IsSeq
<1>3. q = x.root
  BY DEF RootAt
<1>4. /\ x.op \in EditOps(r) /\ q \in Accepted(r, x.births, x.op)
      /\ Creates(x.op) => /\ x.births \in Nat /\ x.births + 1 \in DOMAIN keys
                          /\ keys[x.births + 1].on = OpsTo(c, i - 1)
  BY <1>1, <1>3 DEF MadeBy
<1>5. ASSUME Creates(x.op) PROVE RootInv(r, x.births)
  <2> DEFINE k == x.births + 1
  <2>1. k \in DOMAIN keys /\ k - 1 = x.births
    BY <1>4, <1>5
  <2>2. PICK d \in C : \E j \in 0 .. Len(d) : OpsTo(d, j) = keys[k].on /\ Numbered(RootAt(d, j), k - 1)
    BY <1>1, <2>1 DEF BornOnOlder
  <2>3. PICK j \in 0 .. Len(d) : OpsTo(d, j) = keys[k].on /\ Numbered(RootAt(d, j), k - 1)
    BY <2>2
  <2>4. OpsTo(d, j) = OpsTo(c, i - 1) /\ i - 1 \in 0 .. Len(c)
    BY <1>2, <1>4, <1>5, <2>3
  <2>5. RootAt(d, j) = r
    BY <1>1, <2>4 DEF HistoriesDecide
  <2> QED
    BY <1>1, <1>4, <1>5, <2>1, <2>3, <2>5 DEF RootInv, ShapeInv
<1> QED
  BY <1>2, <1>4, <1>5

\* Replaying, migration by migration.
RunsThrough(made, r, roots, items, N) ==
  /\ made[0] = {r}
  /\ \A n \in 1 .. N :
       made[n] = UNION {UNION {Accepted(q, items[n].births, op) : op \in Aimed(roots[n], q, items[n].op)} :
                          q \in made[n - 1]}
  /\ Replayed(r, roots, items) = made[N]

\* There are such sets.
LEMMA ReplayRuns ==
  ASSUME NEW r, NEW roots, NEW items, NEW N \in Nat, N = Len(items)
  PROVE  \E made : RunsThrough(made, r, roots, items, N)
<1> DEFINE Next1(n, q) == UNION {Accepted(q, items[n].births, op) : op \in Aimed(roots[n], q, items[n].op)}
           Upto(k, f) == [n \in 0 .. k |-> IF n = 0 THEN {r} ELSE UNION {Next1(n, q) : q \in f[n - 1]}]
           made == CHOOSE f : f = Upto(N, f)
           S == {k \in 0 .. N : \E f : f = Upto(k, f)}
<1>5. Replayed(r, roots, items) = made[N]
  BY DEF Replayed
<1> HIDE DEF Next1
<1>1. 0 \in S
  <2> DEFINE f == [n \in 0 .. 0 |-> {r}]
  <2>1. f = Upto(0, f)
    OBVIOUS
  <2>2. 0 \in 0 .. N
    OBVIOUS
  <2> HIDE DEF f, Upto
  <2> QED
    BY <2>1, <2>2
<1>2. \A k \in 1 .. N : k - 1 \in S => k \in S
  <2> SUFFICES ASSUME NEW k \in 1 .. N, k - 1 \in S PROVE k \in S
    OBVIOUS
  <2>1. PICK f : f = Upto(k - 1, f)
    OBVIOUS
  <2> DEFINE last == UNION {Next1(k, q) : q \in f[k - 1]}
             g == [n \in 0 .. k |-> IF n = k THEN last ELSE f[n]]
  <2>2. \A n \in 0 .. k - 1 : g[n] = f[n]
    OBVIOUS
  <2>3. g[k] = last
    OBVIOUS
  <2> HIDE DEF last
  <2>4. \A n \in 0 .. k : g[n] = Upto(k, g)[n]
    <3> SUFFICES ASSUME NEW n \in 0 .. k PROVE g[n] = Upto(k, g)[n]
      OBVIOUS
    <3>1. CASE n = 0
      BY <2>1, <2>2, <3>1
    <3>2. CASE n \in 1 .. k - 1
      <4>1. g[n - 1] = f[n - 1] /\ g[n] = f[n]
        BY <2>2, <3>2
      <4>2. f[n] = UNION {Next1(n, q) : q \in f[n - 1]}
        BY <2>1, <3>2
      <4> HIDE DEF g
      <4> QED
        BY <3>2, <4>1, <4>2
    <3>3. CASE n = k
      <4>1. k # 0 /\ g[k - 1] = f[k - 1] /\ k \in 0 .. k
        BY <2>2
      <4> HIDE DEF g
      <4>2. Upto(k, g)[k] = UNION {Next1(k, q) : q \in g[k - 1]}
        BY <4>1
      <4> QED
        BY <2>3, <3>3, <4>1, <4>2 DEF last
    <3> QED
      BY <3>1, <3>2, <3>3
  <2>5. g = Upto(k, g)
    BY <2>4
  <2> HIDE DEF g, Upto
  <2> QED
    BY <2>5
<1>3. N \in S
  <2> HIDE DEF S, Upto, made
  <2>1. \A k \in 0 .. N : k \in S
    BY <1>1, <1>2, BoundedInduction
  <2> QED
    BY <2>1
<1>4. made = Upto(N, made)
  <2> HIDE DEF Upto
  <2> QED
    BY <1>3
<1> HIDE DEF made
<1>6. made[0] = {r}
  BY <1>4
<1>7. ASSUME NEW n \in 1 .. N
      PROVE  made[n] = UNION {Next1(n, q) : q \in made[n - 1]}
  <2>1. n # 0 /\ n \in 0 .. N
    OBVIOUS
  <2> QED
    BY <1>4, <2>1
<1> QED
  BY <1>5, <1>6, <1>7 DEF Next1, RunsThrough

\* A migration that led from one root to the next.
Led(r, q, x, N) ==
  /\ x.op \in EditOps(r) /\ q \in Accepted(r, x.births, x.op)
  /\ Creates(x.op) => x.births \in Nat /\ RootInv(r, x.births) /\ x.births + 1 <= N

\* Replaying all migrations of the source leads from the target to where the
\* target has, of all that it does not share with the base, what it had, and of
\* the rest what the source has.
LEMMA ReplayLeads ==
  ASSUME NEW L \in Nat, NEW roots, DOMAIN roots = 1 .. L + 1, NEW items, L = Len(items), NEW N \in Nat,
         NEW b, b = roots[1], NEW s, s = roots[L + 1], NEW t, NEW m,
         \A i \in 1 .. L + 1 : Good(roots[i], N) /\ Keeps(b, s, roots[i]),
         \A i \in 1 .. L : Led(roots[i], roots[i + 1], items[i], N),
         Good(t, N), RootInv(m, N), Apart(b, t, s), Alike(b, s, t, m), NEW p \in Replayed(t, roots, items)
  PROVE  Good(p, N) /\ Midway(b, s, t, s, p)
<1>0. PICK made : RunsThrough(made, t, roots, items, L)
  BY ReplayRuns
<1>1. /\ made[0] = {t}
      /\ \A n \in 1 .. L :
           made[n] = UNION {UNION {Accepted(q, items[n].births, op) : op \in Aimed(roots[n], q, items[n].op)} :
                              q \in made[n - 1]}
      /\ Replayed(t, roots, items) = made[L]
  BY <1>0 DEF RunsThrough
<1>2. RootInv(b, N) /\ Good(s, N)
  <2>1. 1 \in 1 .. L + 1 /\ L + 1 \in 1 .. L + 1
    OBVIOUS
  <2> QED
    BY <2>1 DEF Good
<1> DEFINE S == {k \in Nat : \A o \in made[k] : Good(o, N) /\ Midway(b, s, t, roots[k + 1], o)}
<1>3. 0 \in S
  <2>1. Midway(b, s, t, b, t)
    BY AtStart
  <2> QED
    BY <1>1, <2>1
<1>4. \A k \in 1 .. L : k - 1 \in S => k \in S
  <2> SUFFICES ASSUME NEW k \in 1 .. L, k - 1 \in S PROVE k \in S
    OBVIOUS
  <2> SUFFICES ASSUME NEW o \in made[k] PROVE Good(o, N) /\ Midway(b, s, t, roots[k + 1], o)
    OBVIOUS
  <2> DEFINE x == items[k]
  <2>1. PICK u \in made[k - 1] : \E to \in Aimed(roots[k], u, x.op) : o \in Accepted(u, x.births, to)
    BY <1>1
  <2>2. Good(u, N) /\ Midway(b, s, t, roots[k], u)
    BY <2>1
  <2>3. k \in 1 .. L + 1 /\ k + 1 \in 1 .. L + 1
    OBVIOUS
  <2>4. PICK r, q, op, n : r = roots[k] /\ q = roots[k + 1] /\ op = x.op /\ n = x.births
    OBVIOUS
  <2>5. /\ Good(r, N) /\ Good(q, N) /\ Keeps(b, s, r) /\ Keeps(b, s, q)
        /\ Midway(b, s, t, r, u)
        /\ op \in EditOps(r) /\ q \in Accepted(r, n, op)
        /\ Creates(op) => n \in Nat /\ RootInv(r, n) /\ n + 1 <= N
        /\ \E to \in Aimed(r, u, op) : o \in Accepted(u, n, to)
    <3>1. Led(r, q, x, N)
      BY <2>4
    <3> QED
      BY <2>1, <2>2, <2>3, <2>4, <3>1 DEF Led
  <2> HIDE DEF x, S
  <2>6. RootInv(r, N) /\ RootInv(u, N)
    BY <2>2, <2>5 DEF Good
  <2>7. Clear(r, q, u)
    BY <1>2, <2>5, <2>6, ClearOnTheWay
  <2>8. Replays(r, q, u, o, op, n, N)
    BY <2>2, <2>5, <2>7 DEF Replays
  <2>9. Alike(r, q, u, o) /\ Good(o, N)
    BY <2>8, StepReplayed
  <2>10. Midway(b, s, t, q, o)
    BY <2>5, <2>9, OneFurther
  <2> QED
    BY <2>4, <2>9, <2>10
<1>5. L \in S
  <2> HIDE DEF S
  <2>1. \A k \in 0 .. L : k \in S
    BY <1>3, <1>4, BoundedInduction
  <2> QED
    BY <2>1
<1> QED
  BY <1>1, <1>5

\* What is replayable merges as it replays.
LEMMA MergeReplays ==
  ASSUME NEW C, NEW keys, Lawful(C, keys), NEW tc \in C, NEW sc \in C
  PROVE  ReplaysInto(tc, sc)
<1> DEFINE roots == Since(tc, sc)
           items == After(tc, sc)
           t == RootOf(tc)
           N == Len(keys)
<1> SUFFICES ASSUME Replayable(roots[1], t, roots, items), NEW m \in Plan(tc, sc), NEW p \in Replayed(t, roots, items)
             PROVE  Program(m) = Program(p)
  BY DEF ReplaysInto
<1>1. /\ IsSeq(tc) /\ IsSeq(sc) /\ IsSeq(keys)
      /\ \A i \in 0 .. Len(tc) : RootInv(RootAt(tc, i), N)
      /\ \A i \in 0 .. Len(sc) : RootInv(RootAt(sc, i), N)
  BY DEF Lawful, RootsSound, KeysDiffer
<1>2. N \in Nat
  BY <1>1 DEF IsSeq
<1>3. RootInv(t, N)
  <2>1. t = RootAt(tc, Len(tc)) /\ Len(tc) \in 0 .. Len(tc)
    BY <1>1, Ends
  <2> QED
    BY <1>1, <2>1
<1> DEFINE a == CommonAncestor(tc, sc)[2]
           L == Len(sc) + 1 - a
           b == roots[1]
           s == RootOf(sc)
<1>4. /\ a \in 1 .. Len(sc) + 1 /\ L \in Nat /\ Len(sc) \in Nat
      /\ DOMAIN roots = 1 .. L + 1 /\ Len(roots) = L + 1
      /\ \A i \in 1 .. L + 1 : roots[i] = RootAt(sc, a + i - 2)
      /\ roots[L + 1] = s /\ Last(roots) = s
      /\ DOMAIN items = 1 .. L /\ Len(items) = L
      /\ \A i \in 1 .. L : items[i] = sc[a + i - 1]
      /\ b = Points(tc)[CommonAncestor(tc, sc)[1]]
  BY <1>1, SinceParts
<1>5. m \in MergeRoots(b, t, s) /\ Storable(m) /\ TypeChecks(m)
  <2>1. PICK r \in MergeRoots(b, t, s) : m \in Checked(r)
    BY <1>4 DEF Plan
  <2> QED
    BY <2>1 DEF Checked
<1>6. /\ \A i \in 1 .. L : items[i].op.op # "merge_branch"
      /\ Monomorphic(t) /\ \A i \in 1 .. L + 1 : Monomorphic(roots[i])
      /\ TakesNothingBack(roots) /\ DisjointChanges(b, t, s)
  BY <1>4 DEF Replayable
<1> HIDE DEF roots, items, t, N, a, b, s
<1>7. \A i \in 1 .. L + 1 : RootInv(roots[i], N)
  <2>1. SUFFICES ASSUME NEW i \in 1 .. L + 1 PROVE RootInv(roots[i], N)
    OBVIOUS
  <2>2. a + i - 2 \in 0 .. Len(sc)
    BY <1>4
  <2> QED
    BY <1>1, <1>4, <2>2
<1>8. \A i \in 1 .. L : Led(roots[i], roots[i + 1], items[i], N)
  <2>1. SUFFICES ASSUME NEW i \in 1 .. L PROVE Led(roots[i], roots[i + 1], items[i], N)
    OBVIOUS
  <2>2. PICK j : j = a + i - 1
    OBVIOUS
  <2>3. /\ j \in 1 .. Len(sc) /\ a + i - 2 = j - 1 /\ a + (i + 1) - 2 = j
        /\ i \in 1 .. L + 1 /\ i + 1 \in 1 .. L + 1
    BY <1>4, <2>2
  <2>4. roots[i] = RootAt(sc, j - 1) /\ roots[i + 1] = RootAt(sc, j) /\ items[i] = sc[j]
    BY <1>4, <2>2, <2>3
  <2>5. PICK r, q, x : r = roots[i] /\ q = roots[i + 1] /\ x = items[i]
    OBVIOUS
  <2>6. x.op.op # "merge_branch"
    BY <1>6, <2>5
  <2>7. /\ x.op \in EditOps(r) /\ q \in Accepted(r, x.births, x.op)
        /\ Creates(x.op) => x.births \in Nat /\ RootInv(r, x.births) /\ x.births + 1 <= Len(keys)
    BY <2>3, <2>4, <2>5, <2>6, BornHere
  <2> QED
    BY <2>5, <2>7 DEF Led, N
<1> HIDE DEF L
<1>9. RootInv(b, N) /\ RootInv(s, N) /\ b = roots[1] /\ s = roots[L + 1]
  <2>1. 1 \in 1 .. L + 1 /\ L + 1 \in 1 .. L + 1
    BY <1>4
  <2> QED
    BY <1>4, <1>7, <2>1 DEF b
<1>10. RootInv(m, N)
  BY <1>3, <1>5, <1>9, MergedSound
<1>11. Alike(b, s, t, m) /\ Apart(b, t, s)
  BY <1>3, <1>5, <1>6, <1>9, <1>10, MergedAlike, ChangesApart
<1>12. \A i \in 1 .. L + 1 : Good(roots[i], N) /\ Keeps(b, s, roots[i])
  <2>1. SUFFICES ASSUME NEW i \in 1 .. L + 1 PROVE Good(roots[i], N) /\ Keeps(b, s, roots[i])
    OBVIOUS
  <2>2. s = Last(roots) /\ s = roots[L + 1] /\ L \in Nat /\ DOMAIN roots = 1 .. L + 1
    BY <1>4
  <2>3. PICK r : r = roots[i]
    OBVIOUS
  <2>4. Keeps(b, s, r)
    BY <1>6, <1>7, <1>9, <2>2, <2>3, NothingTaken
  <2> QED
    BY <1>6, <1>7, <2>3, <2>4 DEF Good
<1>13. Good(t, N)
  BY <1>3, <1>6 DEF Good
<1>14. Good(p, N) /\ Midway(b, s, t, s, p)
  BY <1>2, <1>4, <1>8, <1>9, <1>10, <1>11, <1>12, <1>13, ReplayLeads DEF roots, items, t
<1>15. RootInv(p, N)
  BY <1>14 DEF Good
<1> QED
  BY <1>10, <1>11, <1>14, <1>15, AtTheEnd

\* A merge of disjoint changes does what replaying the source's migrations, one
\* after the other, on the target would do, however many there are and whatever
\* the branches did before (SPEC_V1 12, plan_conservative_merge,
\* merge_symbol_state).
THEOREM MergesAlwaysReplay == Spec => []MergeIsReplay
<1>1. Inv => MergeIsReplay
  <2> SUFFICES ASSUME Inv, NEW t \in Branches, NEW s \in Branches PROVE ReplaysInto(chain[t], chain[s])
    BY DEF MergeIsReplay
  <2>1. chain[t] \in Chains /\ chain[s] \in Chains /\ Lawful(Chains, born)
    BY DEF Inv, Chains
  <2> QED
    BY <2>1, MergeReplays
<1> QED
  BY <1>1, AlwaysLawful, PTL
=============================================================================
