--------------------------- MODULE TransferProofs ---------------------------
(***************************************************************************)
(* Whatever databases edit, merge, branch, export and import, `codedb      *)
(* verify` finds nothing wrong with any of them.                           *)
(***************************************************************************)
EXTENDS TransferProperties, Induction

(***************************************************************************)
(* The invariant.                                                          *)
(***************************************************************************)
\* What databases and documents are made of.
People == {Agents[d] : d \in Databases}
Rows == UNION {[H -> People] : H \in SUBSET Seq(Recorded)}
Branch == [root : Roots, history : Seq(Recorded)]
Database ==
    [objects : SUBSET Objects, edges : SUBSET (Objects \X Objects), indexed : SUBSET Roots,
     rows : Rows, branches : [Branches -> Branch \cup {None}]]
Document ==
    [kind : {"history", "bundle"}, branch : Branches, root : Roots, history : Seq(Recorded),
     agents : Seq(People), objects : SUBSET Objects]

\* What the objects refer to is among them.
Closed(objects) == \A o \in objects : Refs[o] \subseteq objects

InterfacesOf(objects) == UNION {Interfaces[r] : r \in RootsIn(objects)}

\* The edges, the index of roots and what it stored are those of the objects.
Stored(d) ==
    /\ Closed(d.objects)
    /\ d.edges = Edges(d.objects, d.objects)
    /\ d.indexed = RootsIn(d.objects)
    /\ InterfacesOf(d.objects) \subseteq d.objects

\* A merge carries its source and all that the merged root adds to it.
MergeIsWhole(op) ==
    /\ op.source \in op.carried
    /\ Closed(op.carried)
    /\ Refs[op.merged] \subseteq op.carried \cup InterfacesOf(op.carried) \cup {op.merged}

\* A migration can be performed again, wherever its input is.
Repeats(m) ==
    /\ m.output = Output(m.op, m.input)
    /\ IF IsMerge(m.op) THEN m.op \in MergeOps /\ MergeIsWhole(m.op)
       ELSE m.op \in Ops /\ Applies(m.op, m.input)

Repeatable(h) == \A i \in 1 .. Len(h) : Repeats(h[i])

\* Each migration of a history starts where the one before it ended.
Chained(h) == \A i \in 2 .. Len(h) : h[i].input = h[i - 1].output

\* And its roots are there.
Linked(h, objects) ==
    /\ \A i \in 1 .. Len(h) : h[i].input \in objects /\ h[i].output \in objects
    /\ Chained(h)

\* A recorded history can be replayed, and so is all that it goes on from.
RowSound(h, d) ==
    /\ h # <<>> /\ Repeatable(h) /\ Linked(h, d.objects)
    /\ \A n \in 1 .. Len(h) : Prefix(h, n) \in DOMAIN d.rows

\* A branch is where its history leads.
BranchSound(s, d) ==
    /\ s.root \in d.objects
    /\ s.history # <<>> => s.history \in DOMAIN d.rows /\ OutputRoot(s.history) = s.root

\* The main branch starts from the empty root.
MainSound(s) ==
    IF s.history = <<>> THEN s.root = EmptyRoot ELSE s.history[1].input = EmptyRoot

Sound(d) ==
    /\ d \in Database
    /\ Stored(d)
    /\ EmptyRoot \in d.objects
    /\ \A h \in DOMAIN d.rows : RowSound(h, d)
    /\ \A b \in Branches : d.branches[b] # None => BranchSound(d.branches[b], d)
    /\ d.branches[Main] # None /\ MainSound(d.branches[Main])

\* A document brings migrations that can be performed again and lead to its
\* root, each with who recorded it; a bundle, all that its roots refer to.
Presentable(doc) ==
    /\ doc \in Document
    /\ Repeatable(doc.history) /\ Chained(doc.history)
    /\ doc.history # <<>> => OutputRoot(doc.history) = doc.root
    /\ Len(doc.agents) = Len(doc.history)
    /\ IF doc.kind = "bundle"
       THEN /\ doc.branch = Main
            /\ doc.objects = UNION {Below[r] : r \in ClosureRoots(doc.root, doc.history)}
       ELSE doc.objects = {}

\* All that there is below a root is reached through the fields that the check
\* of a bundle follows.
FollowsAll == \A r \in Roots : BundleBelow[r] = Below[r]

Inv ==
    /\ db \in [Databases -> Database]
    /\ \A d \in Databases : Sound(db[d])
    /\ \A doc \in sent : Presentable(doc)

-----------------------------------------------------------------------------
(***************************************************************************)
(* Reaching objects from objects.                                          *)
(***************************************************************************)
\* What a search over the objects D has found after n rounds.
Found(D, refs, from, within) ==
    /\ within[0] = from
    /\ \A n \in Nat : /\ within[n] \subseteq D
                      /\ within[n + 1] = within[n] \cup UNION {refs[o] : o \in within[n]}

\* Reach is the result of such a search.
LEMMA ReachFinds ==
    ASSUME NEW D, NEW refs \in [D -> SUBSET D], NEW from \in SUBSET D
    PROVE  \E within : Found(D, refs, from, within) /\ Reach(refs, from) = within[Depth]
<1> DEFINE Step(f) == [n \in Nat |-> IF n = 0 THEN from
                                    ELSE f[n - 1] \cup UNION {refs[o] : o \in f[n - 1]}]
           within == CHOOSE f : f = Step(f)
           U == SUBSET D
           round == [X \in U |-> X \cup UNION {refs[o] : o \in X}]
           first == from
<1>1. Reach(refs, from) = within[Depth]
  BY DEF Reach
<1>2. PICK f \in [Nat -> U] : f[0] = first /\ \A n \in Nat : f[n + 1] = round[f[n]]
  <2>1. round \in [U -> U]
    OBVIOUS
  <2>2. first \in U
    OBVIOUS
  <2> HIDE DEF U, round, first
  <2> QED
    BY <2>1, <2>2, Iteration
<1>3. f = Step(f)
  <2>1. ASSUME NEW n \in Nat PROVE f[n] = Step(f)[n]
    <3>1. CASE n = 0
      BY <1>2, <3>1
    <3>2. CASE n # 0
      <4>1. n - 1 \in Nat /\ (n - 1) + 1 = n /\ f[n - 1] \in U
        BY <3>2
      <4>2. f[n] = round[f[n - 1]]
        BY <1>2, <4>1
      <4>3. f[n] = f[n - 1] \cup UNION {refs[o] : o \in f[n - 1]}
        BY <4>1, <4>2
      <4> QED
        BY <3>2, <4>3
    <3> QED
      BY <3>1, <3>2
  <2> QED
    BY <2>1
<1>4. within = Step(within)
  BY <1>3
<1> HIDE DEF within
<1>5. within[0] = from
  BY <1>4
<1>6. ASSUME NEW n \in Nat
      PROVE  within[n + 1] = within[n] \cup UNION {refs[o] : o \in within[n]}
  <2>1. n + 1 \in Nat /\ n + 1 # 0 /\ (n + 1) - 1 = n
    OBVIOUS
  <2> QED
    BY <1>4, <2>1
<1>7. ASSUME NEW n \in Nat PROVE within[n] \subseteq D
  <2> DEFINE S == {k \in Nat : within[k] \subseteq D}
  <2>1. 0 \in S
    BY <1>5
  <2>2. \A k \in 1 .. n : k - 1 \in S => k \in S
    <3> SUFFICES ASSUME NEW k \in 1 .. n, k - 1 \in S PROVE k \in S
      OBVIOUS
    <3>1. k - 1 \in Nat /\ (k - 1) + 1 = k
      OBVIOUS
    <3>2. within[k] = within[k - 1] \cup UNION {refs[o] : o \in within[k - 1]}
      BY <1>6, <3>1
    <3> QED
      BY <3>2
  <2>3. n \in S
    <3> HIDE DEF S
    <3> QED
      BY <2>1, <2>2, BoundedInduction
  <2> QED
    BY <2>3
<1> QED
  BY <1>1, <1>5, <1>6, <1>7 DEF Found

\* It finds what it starts from, and nothing outside a set that has this and
\* is closed.
LEMMA ReachInside ==
    ASSUME NEW D, NEW refs \in [D -> SUBSET D], NEW from \in SUBSET D,
           NEW X, from \subseteq X, \A o \in X \cap D : refs[o] \subseteq X
    PROVE  Reach(refs, from) \subseteq X /\ from \subseteq Reach(refs, from)
                /\ Reach(refs, from) \subseteq D
<1>1. PICK within : Found(D, refs, from, within) /\ Reach(refs, from) = within[Depth]
  BY ReachFinds
<1> DEFINE S == {k \in Nat : from \subseteq within[k] /\ within[k] \subseteq X}
<1>2. 0 \in S
  BY <1>1 DEF Found
<1>3. \A k \in 1 .. Depth : k - 1 \in S => k \in S
  <2> SUFFICES ASSUME NEW k \in 1 .. Depth, k - 1 \in S PROVE k \in S
    OBVIOUS
  <2>1. k - 1 \in Nat /\ (k - 1) + 1 = k /\ k \in Nat
    BY DepthAssumption
  <2>2. /\ within[k] = within[k - 1] \cup UNION {refs[o] : o \in within[k - 1]}
        /\ within[k - 1] \subseteq D
    BY <1>1, <2>1 DEF Found
  <2>3. \A o \in within[k - 1] : refs[o] \subseteq X
    BY <2>2
  <2> QED
    BY <2>1, <2>2, <2>3
<1>4. Depth \in S /\ Depth \in Nat
  <2>1. Depth \in Nat
    BY DepthAssumption
  <2> HIDE DEF S
  <2> QED
    BY <2>1, <1>2, <1>3, BoundedInduction
<1> QED
  BY <1>1, <1>4 DEF Found

\* Refs gives each object objects.
LEMMA RefsTyped ==
    /\ Refs \in [Objects -> SUBSET Objects]
    /\ \A o \in Objects : Refs[o] = HashStrings(o)
<1>1. \A o \in Objects : HashStrings(o) \subseteq Objects
  BY ObjectsAssumption DEF HashStrings, RefsIn
<1> QED
  BY <1>1 DEF Refs

\* What it finds from several objects is below one of them.
LEMMA ReachSplits ==
    ASSUME NEW D, NEW refs \in [D -> SUBSET D], NEW from \in SUBSET D,
           D \subseteq Objects, \A o \in D : Refs[o] = refs[o]
    PROVE  Reach(refs, from) = UNION {Below[x] : x \in from}
<1> DEFINE N(x) == CHOOSE w : Found(Objects, Refs, {x}, w) /\ Reach(Refs, {x}) = w[Depth]
<1>1. PICK within : Found(D, refs, from, within) /\ Reach(refs, from) = within[Depth]
  BY ReachFinds
<1>2. \A x \in from : Found(Objects, Refs, {x}, N(x)) /\ Below[x] = N(x)[Depth]
  <2> SUFFICES ASSUME NEW x \in from
               PROVE  Found(Objects, Refs, {x}, N(x)) /\ Below[x] = N(x)[Depth]
    OBVIOUS
  <2>1. {x} \in SUBSET Objects
    OBVIOUS
  <2>2. \E w : Found(Objects, Refs, {x}, w) /\ Reach(Refs, {x}) = w[Depth]
    BY <2>1, RefsTyped, ReachFinds
  <2> QED
    BY <2>2 DEF Below
<1> HIDE DEF N
<1> DEFINE S == {k \in Nat : within[k] = UNION {N(x)[k] : x \in from}}
<1>3. 0 \in S
  BY <1>1, <1>2 DEF Found
<1>4. \A k \in 1 .. Depth : k - 1 \in S => k \in S
  <2> SUFFICES ASSUME NEW k \in 1 .. Depth, k - 1 \in S PROVE k \in S
    OBVIOUS
  <2>1. k - 1 \in Nat /\ (k - 1) + 1 = k /\ k \in Nat
    BY DepthAssumption
  <2>2. within[k] = within[k - 1] \cup UNION {refs[o] : o \in within[k - 1]}
    BY <1>1, <2>1 DEF Found
  <2>3. \A x \in from : N(x)[k] = N(x)[k - 1] \cup UNION {Refs[o] : o \in N(x)[k - 1]}
    BY <1>2, <2>1 DEF Found
  <2>4. within[k - 1] = UNION {N(x)[k - 1] : x \in from} /\ within[k - 1] \subseteq D
    BY <1>1, <2>1 DEF Found
  <2>5. within[k] = UNION {N(x)[k] : x \in from}
    BY <2>2, <2>3, <2>4
  <2> QED
    BY <2>1, <2>5
<1>5. Depth \in S
  <2>1. Depth \in Nat
    BY DepthAssumption
  <2> HIDE DEF S
  <2> QED
    BY <2>1, <1>3, <1>4, BoundedInduction
<1>6. within[Depth] = UNION {N(x)[Depth] : x \in from}
  BY <1>5
<1>7. {Below[x] : x \in from} = {N(x)[Depth] : x \in from}
  BY <1>2
<1> QED
  BY <1>1, <1>6, <1>7

\* What is below an object is the least closed set that it is in.
LEMMA BelowIsClosure ==
    ASSUME NEW o \in Objects
    PROVE  /\ o \in Below[o] /\ Below[o] \subseteq Objects /\ Closed(Below[o])
           /\ \A X : o \in X /\ Closed(X) => Below[o] \subseteq X
<1>1. Below[o] = Reach(Refs, {o})
  BY DEF Below
<1>2. {o} \in SUBSET Objects
  OBVIOUS
<1>3. ASSUME NEW X, o \in X, \A p \in X \cap Objects : Refs[p] \subseteq X
      PROVE  Reach(Refs, {o}) \subseteq X /\ {o} \subseteq Reach(Refs, {o})
                /\ Reach(Refs, {o}) \subseteq Objects
  <2>1. {o} \subseteq X
    BY <1>3
  <2> QED
    BY ONLY <1>2, <1>3, <2>1, RefsTyped, ReachInside
<1>4. o \in Below[o] /\ Below[o] \subseteq Objects
  <2>1. \A p \in Objects \cap Objects : Refs[p] \subseteq Objects
    BY RefsTyped
  <2> QED
    BY <1>1, <1>3, <2>1
<1>5. Closed(Below[o])
  BY DepthAssumption DEF Closed
<1> QED
  BY <1>1, <1>3, <1>4, <1>5 DEF Closed

\* What is reached in a database is closed.
LEMMA ReachStored ==
    ASSUME NEW d, d.objects \subseteq Objects, Closed(d.objects),
           NEW from \in SUBSET d.objects
    PROVE  LET R == Reach(StoredRefs(d), from)
           IN  /\ from \subseteq R /\ R \subseteq d.objects /\ Closed(R)
               /\ R = UNION {Below[x] : x \in from}
<1> DEFINE D == d.objects
           R == Reach(StoredRefs(d), from)
<1>1. StoredRefs(d) \in [D -> SUBSET D] /\ \A o \in D : Refs[o] = StoredRefs(d)[o]
  BY RefsTyped DEF StoredRefs, Closed
<1>2. from \subseteq R /\ R \subseteq D
  <2>1. \A o \in D \cap D : StoredRefs(d)[o] \subseteq D
    BY <1>1
  <2> HIDE DEF D
  <2>2. from \subseteq D
    BY DEF D
  <2> QED
    BY ONLY <1>1, <2>1, <2>2, ReachInside
<1>3. R = UNION {Below[x] : x \in from}
  <2> DEFINE refs == StoredRefs(d)
  <2>1. /\ refs \in [D -> SUBSET D] /\ \A o \in D : Refs[o] = refs[o]
        /\ from \in SUBSET D /\ D \subseteq Objects
    BY <1>1
  <2> HIDE DEF D, refs
  <2>2. Reach(refs, from) = UNION {Below[x] : x \in from}
    BY ONLY <2>1, ReachSplits
  <2> QED
    BY <2>2 DEF refs
<1>4. Closed(R)
  <2> SUFFICES ASSUME NEW o \in R PROVE Refs[o] \subseteq R
    BY DEF Closed
  <2>1. PICK x \in from : o \in Below[x]
    BY <1>3
  <2>2. Refs[o] \subseteq Below[x]
    BY <2>1, BelowIsClosure DEF Closed
  <2> QED
    BY <1>3, <2>1, <2>2
<1> QED
  BY <1>2, <1>3, <1>4

-----------------------------------------------------------------------------
(***************************************************************************)
(* Putting objects.                                                        *)
(***************************************************************************)
\* Roots are the objects of that kind; no interface is one.
LEMMA RootsAreObjects ==
    /\ \A X \in SUBSET Objects : RootsIn(X) = X \cap Roots
    /\ Roots \subseteq Objects
    /\ \A X \in SUBSET Objects : InterfacesOf(X) \subseteq Objects \ Roots
<1>1. \A X \in SUBSET Objects : RootsIn(X) = X \cap Roots
  BY ObjectsAssumption DEF RootsIn
<1>2. Roots \subseteq Objects
  BY ObjectsAssumption
<1>3. \A r \in Roots : Interfaces[r] \subseteq Objects \ Roots
  BY ObjectsAssumption
<1> QED
  BY <1>1, <1>2, <1>3 DEF InterfacesOf

\* The edges from parents to what is stored.
LEMMA EdgesAre ==
    ASSUME NEW P, NEW S, NEW e
    PROVE  e \in Edges(P, S) <=> \E p \in P : \E c \in Refs[p] \cap S : c # p /\ e = <<p, c>>
BY DEF Edges

\* Putting objects with all that they refer to keeps the edges exact: see Store.
LEMMA StoreKeepsEdges ==
    ASSUME NEW d \in Database, Closed(d.objects), d.edges = Edges(d.objects, d.objects),
           NEW new \in SUBSET Objects, Closed(d.objects \cup new)
    PROVE  LET e == Store(d, new)
           IN  /\ e \in Database
               /\ e.objects = d.objects \cup new
               /\ e.edges = Edges(e.objects, e.objects)
               /\ e.indexed = d.indexed /\ e.rows = d.rows /\ e.branches = d.branches
<1> DEFINE e == Store(d, new)
           objects == d.objects \cup new
           kept == {x \in d.edges : x[1] \notin new}
           added == Edges(new, objects)
<1>1. e = [[d EXCEPT !.objects = objects] EXCEPT !.edges = kept \cup added]
  BY DEF Store, Database
<1> HIDE DEF objects, kept, added
<1>2. /\ e.objects = objects /\ e.edges = kept \cup added
      /\ e.indexed = d.indexed /\ e.rows = d.rows /\ e.branches = d.branches
  BY <1>1 DEF Database
<1>3. objects \in SUBSET Objects
  BY DEF objects, Database
<1>4. added \in SUBSET (Objects \X Objects)
  <2>1. \A x \in added : x \in Objects \X Objects
    BY <1>3, EdgesAre DEF added
  <2> QED
    BY <2>1
<1>5. kept \in SUBSET (Objects \X Objects)
  BY DEF kept, Database
<1>6. e \in Database
  BY <1>1, <1>3, <1>4, <1>5 DEF Database
<1>7. kept \cup added = Edges(objects, objects)
  <2>1. ASSUME NEW x \in kept PROVE x \in Edges(objects, objects)
    <3>1. x \in Edges(d.objects, d.objects)
      BY <2>1 DEF kept
    <3> QED
      BY <3>1, EdgesAre DEF objects
  <2>2. ASSUME NEW x \in added PROVE x \in Edges(objects, objects)
    BY <2>2, EdgesAre DEF added, objects
  <2>3. ASSUME NEW x \in Edges(objects, objects) PROVE x \in kept \cup added
    <3>1. PICK p \in objects : \E c \in Refs[p] \cap objects : c # p /\ x = <<p, c>>
      BY <2>3, EdgesAre
    <3>2. PICK c \in Refs[p] \cap objects : c # p /\ x = <<p, c>>
      BY <3>1
    <3>3. CASE p \in new
      BY <3>2, <3>3, EdgesAre DEF added
    <3>4. CASE p \notin new
      <4>1. p \in d.objects /\ c \in d.objects
        BY <3>2, <3>4 DEF objects, Closed
      <4>2. x \in d.edges
        BY <3>2, <4>1, EdgesAre
      <4> QED
        BY <3>2, <3>4, <4>2 DEF kept
    <3> QED
      BY <3>3, <3>4
  <2> QED
    BY <2>1, <2>2, <2>3
<1> QED
  BY <1>2, <1>6, <1>7 DEF objects

\* Putting them and indexing the roots among them succeeds: see StoreAndIndex.
LEMMA StoreAndIndexSound ==
    ASSUME NEW d \in Database, Stored(d),
           NEW new \in SUBSET Objects, Closed(d.objects \cup new)
    PROVE  \E e \in Database :
             /\ StoreAndIndex(d, new) = {e}
             /\ Stored(e)
             /\ e.objects = d.objects \cup new \cup InterfacesOf(new)
             /\ e.rows = d.rows /\ e.branches = d.branches
<1> DEFINE s == Store(d, new)
           roots == RootsIn(new)
           faces == InterfacesOf(new)
           t == Store(s, faces)
           e == [t EXCEPT !.indexed = @ \cup roots]
<1>1. /\ s \in Database /\ s.objects = d.objects \cup new
      /\ s.edges = Edges(s.objects, s.objects)
      /\ s.indexed = d.indexed /\ s.rows = d.rows /\ s.branches = d.branches
  BY StoreKeepsEdges DEF Stored
<1>2. Closed(s.objects)
  BY <1>1
<1>3. \A r \in roots : r \in Roots /\ r \in s.objects /\ Below[r] \subseteq s.objects
  <2> SUFFICES ASSUME NEW r \in roots
               PROVE  r \in Roots /\ r \in s.objects /\ Below[r] \subseteq s.objects
    OBVIOUS
  <2>1. r \in Roots /\ r \in new /\ r \in Objects
    BY RootsAreObjects
  <2> QED
    BY <1>1, <1>2, <2>1, BelowIsClosure
<1>4. faces \in SUBSET (Objects \ Roots)
  BY RootsAreObjects
<1>5. Closed(s.objects \cup faces)
  <2>1. ASSUME NEW i \in faces PROVE Refs[i] \subseteq s.objects
    <3>1. PICK r \in roots : i \in Interfaces[r]
      BY <2>1 DEF InterfacesOf
    <3> QED
      BY <1>3, <3>1, ReferencesAssumption
  <2> QED
    BY <1>2, <2>1 DEF Closed
<1> HIDE DEF s, faces
<1>6. /\ t \in Database /\ t.objects = s.objects \cup faces
      /\ t.edges = Edges(t.objects, t.objects)
      /\ t.indexed = s.indexed /\ t.rows = s.rows /\ t.branches = s.branches
  <2>1. faces \in SUBSET Objects
    BY <1>4
  <2> QED
    BY <1>1, <1>2, <1>5, <2>1, StoreKeepsEdges
<1> HIDE DEF t
<1>7. /\ e \in Database /\ e.objects = t.objects /\ e.edges = t.edges
      /\ e.indexed = t.indexed \cup roots /\ e.rows = t.rows /\ e.branches = t.branches
  <2>1. roots \in SUBSET Roots
    BY <1>3
  <2> HIDE DEF roots
  <2> QED
    BY <1>6, <2>1 DEF Database
<1>8. StoreAndIndex(d, new) = {e}
  BY <1>3 DEF StoreAndIndex, Index, InterfacesOf, s, t, faces
<1> HIDE DEF e
<1>9. e.indexed = RootsIn(e.objects)
  <2>1. RootsIn(e.objects) = e.objects \cap Roots /\ roots = new \cap Roots
    BY <1>7, RootsAreObjects DEF Database
  <2>2. d.indexed = d.objects \cap Roots
    BY RootsAreObjects DEF Stored, Database
  <2> HIDE DEF roots
  <2> QED
    BY <1>1, <1>4, <1>6, <1>7, <2>1, <2>2
<1>10. InterfacesOf(e.objects) \subseteq e.objects
  <2>1. \A r \in e.indexed : r \in d.indexed \/ r \in roots
    BY <1>1, <1>6, <1>7
  <2>2. \A r \in d.indexed : Interfaces[r] \subseteq d.objects
    BY DEF Stored, InterfacesOf
  <2>3. \A r \in roots : Interfaces[r] \subseteq faces
    BY DEF InterfacesOf, faces
  <2> QED
    BY <1>1, <1>6, <1>7, <1>9, <2>1, <2>2, <2>3 DEF InterfacesOf
<1> QED
  BY <1>1, <1>5, <1>6, <1>7, <1>8, <1>9, <1>10 DEF Stored, faces

-----------------------------------------------------------------------------
(***************************************************************************)
(* Performing operations.                                                  *)
(***************************************************************************)
\* e is d with more objects.
Grown(d, e) ==
    /\ e \in Database /\ Stored(e)
    /\ d.objects \subseteq e.objects
    /\ e.rows = d.rows /\ e.branches = d.branches

\* The objects that a migration leaves, whatever was there before it.
Brought(m) == IF IsMerge(m.op) THEN m.op.carried \cup {m.op.merged} ELSE Below[m.output]
Made(m) == Brought(m) \cup InterfacesOf(Brought(m))

\* Interfaces are taken root by root.
LEMMA InterfacesSplit ==
    ASSUME NEW X \in SUBSET Objects, NEW Y \in SUBSET Objects
    PROVE  InterfacesOf(X \cup Y) = InterfacesOf(X) \cup InterfacesOf(Y)
<1>1. RootsIn(X \cup Y) = RootsIn(X) \cup RootsIn(Y)
  BY DEF RootsIn
<1> QED
  BY <1>1 DEF InterfacesOf

\* An operation that applies to a stored root can be performed: see PerformEdit.
LEMMA EditPerforms ==
    ASSUME NEW d \in Database, Stored(d), NEW op \in Ops, NEW input \in Roots,
           input \in d.objects, Applies(op, input)
    PROVE  LET after == Below[Effect[op][input]]
           IN  \E e : /\ PerformEdit(d, op, input) = {e} /\ Grown(d, e)
                      /\ Effect[op][input] \in e.objects
                      /\ e.objects = d.objects \cup (after \cup InterfacesOf(after))
<1> DEFINE output == Effect[op][input]
           new == {output} \cup (Below[output] \ Below[input])
<1>1. Output(op, input) = output
  BY OperationsAssumption DEF Output, IsMerge
<1>2. output \in Roots /\ output \in Objects /\ input \in Objects
  BY OpsAssumption, RootsAreObjects DEF Applies
<1>3. PerformEdit(d, op, input) = StoreAndIndex(d, new)
  BY <1>1 DEF PerformEdit
<1>4. Below[input] \subseteq d.objects
  BY <1>2, BelowIsClosure DEF Stored
<1>5. /\ output \in Below[output] /\ Below[output] \subseteq Objects
      /\ Closed(Below[output])
  BY <1>2, BelowIsClosure
<1>6. new \in SUBSET Objects
  BY <1>5
<1>7. d.objects \cup new = d.objects \cup Below[output]
  BY <1>4, <1>5
<1>8. Closed(d.objects \cup new)
  BY <1>5, <1>7 DEF Closed, Stored
<1>9. output \in new
  OBVIOUS
<1>10. InterfacesOf(Below[output]) \subseteq InterfacesOf(new) \cup d.objects
  <2>1. \A r \in RootsIn(Below[output]) : r \in RootsIn(new) \/ r \in RootsIn(d.objects)
    BY <1>4 DEF RootsIn
  <2>2. \A r \in RootsIn(d.objects) : Interfaces[r] \subseteq d.objects
    BY DEF Stored, InterfacesOf
  <2> HIDE DEF new, output
  <2> QED
    BY <2>1, <2>2 DEF InterfacesOf
<1>11. InterfacesOf(new) \subseteq InterfacesOf(Below[output])
  <2>1. \A r \in RootsIn(new) : r \in RootsIn(Below[output])
    BY <1>5 DEF RootsIn
  <2> HIDE DEF new, output
  <2> QED
    BY <2>1 DEF InterfacesOf
<1> HIDE DEF new, output
<1>12. PICK e \in Database :
         /\ StoreAndIndex(d, new) = {e} /\ Stored(e)
         /\ e.objects = d.objects \cup new \cup InterfacesOf(new)
         /\ e.rows = d.rows /\ e.branches = d.branches
  BY <1>6, <1>8, StoreAndIndexSound
<1>13. e.objects = d.objects \cup (Below[output] \cup InterfacesOf(Below[output]))
  BY <1>7, <1>10, <1>11, <1>12
<1> QED
  BY <1>3, <1>9, <1>12, <1>13 DEF Grown, output

\* What indexing a merged root found stored.
LEMMA MergedFits ==
    ASSUME NEW d \in Database, Stored(d), NEW m \in Roots, StoreAndIndex(d, {m}) # {}
    PROVE  Closed(d.objects \cup {m})
<1>1. Store(d, {m}).objects = d.objects \cup {m}
  BY DEF Store, Database
<1>2. m \in RootsIn({m}) /\ m \in Objects
  BY RootsAreObjects
<1>3. Below[m] \subseteq d.objects \cup {m}
  BY <1>1, <1>2 DEF StoreAndIndex, Index
<1>4. Refs[m] \subseteq Below[m]
  BY <1>2, BelowIsClosure DEF Closed
<1> QED
  BY <1>3, <1>4 DEF Closed, Stored

\* A merge leaves a sound database, and succeeds if it carries enough: see
\* PerformMerge.
LEMMA MergePerforms ==
    ASSUME NEW d \in Database, Stored(d), NEW op \in MergeOps,
           op.source \in op.carried, Closed(op.carried)
    PROVE  LET brought == op.carried \cup InterfacesOf(op.carried)
           IN  /\ \A input : \A e \in PerformMerge(d, op, input) :
                    /\ input \in d.objects /\ Grown(d, e) /\ op.merged \in e.objects
                    /\ e.objects = d.objects \cup brought
                                             \cup ({op.merged} \cup InterfacesOf({op.merged}))
                    /\ Refs[op.merged] \subseteq d.objects \cup brought \cup {op.merged}
               /\ Refs[op.merged] \subseteq brought \cup {op.merged}
                    => \A input \in d.objects : PerformMerge(d, op, input) # {}
<1> DEFINE carried == op.carried
           merged == op.merged
           brought == carried \cup InterfacesOf(carried)
<1>1. carried \in SUBSET Objects /\ merged \in Roots /\ merged \in Objects
  BY RootsAreObjects DEF MergeOps
<1>2. Closed(d.objects \cup carried)
  BY DEF Closed, Stored
<1>3. PICK c \in Database :
        /\ StoreAndIndex(d, carried) = {c} /\ Stored(c)
        /\ c.objects = d.objects \cup carried \cup InterfacesOf(carried)
        /\ c.rows = d.rows /\ c.branches = d.branches
  <2> HIDE DEF carried
  <2> QED
    BY <1>1, <1>2, StoreAndIndexSound
<1>4. op.source \in c.objects
  BY <1>3
<1>5. \A input : PerformMerge(d, op, input) =
                   IF input \in d.objects THEN StoreAndIndex(c, {merged}) ELSE {}
  BY <1>3, <1>4 DEF PerformMerge
<1> HIDE DEF merged
<1>6. ASSUME Closed(c.objects \cup {merged})
      PROVE  \E e \in Database :
               /\ StoreAndIndex(c, {merged}) = {e} /\ Stored(e)
               /\ e.objects = c.objects \cup {merged} \cup InterfacesOf({merged})
               /\ e.rows = c.rows /\ e.branches = c.branches
  <2> DEFINE new == {merged}
  <2>1. new \in SUBSET Objects /\ Closed(c.objects \cup new)
    BY <1>1, <1>6
  <2> HIDE DEF new
  <2>2. \E e \in Database :
          /\ StoreAndIndex(c, new) = {e} /\ Stored(e)
          /\ e.objects = c.objects \cup new \cup InterfacesOf(new)
          /\ e.rows = c.rows /\ e.branches = c.branches
    BY <1>3, <2>1, StoreAndIndexSound
  <2> QED
    BY <2>2 DEF new
<1>7. ASSUME NEW input, NEW e \in PerformMerge(d, op, input)
      PROVE  /\ input \in d.objects /\ Grown(d, e) /\ merged \in e.objects
             /\ e.objects = d.objects \cup brought \cup ({merged} \cup InterfacesOf({merged}))
             /\ Refs[merged] \subseteq d.objects \cup brought \cup {merged}
  <2>1. input \in d.objects /\ e \in StoreAndIndex(c, {merged})
    BY <1>5, <1>7
  <2>2. Closed(c.objects \cup {merged})
    BY <1>1, <1>3, <2>1, MergedFits
  <2>3. /\ e \in Database /\ Stored(e)
        /\ e.objects = c.objects \cup {merged} \cup InterfacesOf({merged})
        /\ e.rows = c.rows /\ e.branches = c.branches
    BY <1>6, <2>1, <2>2
  <2>4. Refs[merged] \subseteq c.objects \cup {merged}
    BY <2>2 DEF Closed
  <2> QED
    BY <1>3, <2>1, <2>3, <2>4 DEF Grown
<1>8. ASSUME Refs[merged] \subseteq brought \cup {merged}, NEW input \in d.objects
      PROVE  PerformMerge(d, op, input) # {}
  <2>1. Closed(c.objects \cup {merged})
    BY <1>3, <1>8 DEF Closed, Stored
  <2> QED
    BY <1>5, <1>6, <2>1
<1> QED
  BY <1>7, <1>8 DEF merged

\* A recorded migration can be performed again wherever its input is, and
\* leaves its output: see Perform.
LEMMA PerformSound ==
    ASSUME NEW d \in Database, Stored(d), NEW m \in Recorded, Repeats(m)
    PROVE  /\ \A e \in Perform(d, m.op, m.input) :
                /\ m.input \in d.objects /\ Grown(d, e) /\ m.output \in e.objects
                /\ e.objects = d.objects \cup Made(m)
           /\ m.input \in d.objects => Perform(d, m.op, m.input) # {}
<1>1. m.input \in Roots
  BY DEF Recorded
<1>2. CASE IsMerge(m.op)
  <2>1. /\ m.op \in MergeOps /\ m.op.source \in m.op.carried /\ Closed(m.op.carried)
        /\ Refs[m.op.merged] \subseteq m.op.carried \cup InterfacesOf(m.op.carried) \cup {m.op.merged}
    BY <1>2 DEF Repeats, MergeIsWhole
  <2>2. m.output = m.op.merged
    BY <1>2 DEF Repeats, Output
  <2>3. Perform(d, m.op, m.input) = PerformMerge(d, m.op, m.input)
    BY <1>2 DEF Perform
  <2> DEFINE carried == m.op.carried
             merged == {m.op.merged}
  <2>4. carried \in SUBSET Objects /\ merged \in SUBSET Objects
    BY <2>1, RootsAreObjects DEF MergeOps
  <2>5. Brought(m) = carried \cup merged
    BY <1>2 DEF Brought
  <2> HIDE DEF carried, merged
  <2>6. Made(m) = carried \cup InterfacesOf(carried) \cup (merged \cup InterfacesOf(merged))
    BY <2>4, <2>5, InterfacesSplit DEF Made
  <2> QED
    BY <2>1, <2>2, <2>3, <2>6, MergePerforms DEF carried, merged
<1>3. CASE ~IsMerge(m.op)
  <2>1. m.op \in Ops /\ Applies(m.op, m.input) /\ m.output = Effect[m.op][m.input]
    BY <1>3 DEF Repeats, Output
  <2>2. Perform(d, m.op, m.input) = PerformEdit(d, m.op, m.input)
    BY <1>3 DEF Perform
  <2>3. CASE m.input \in d.objects
    <3>1. Made(m) = Below[m.output] \cup InterfacesOf(Below[m.output])
      BY <1>3 DEF Made, Brought
    <3> QED
      BY <1>1, <2>1, <2>2, <2>3, <3>1, EditPerforms
  <2>4. CASE m.input \notin d.objects
    BY <2>2, <2>4 DEF PerformEdit
  <2> QED
    BY <2>3, <2>4
<1> QED
  BY <1>2, <1>3

-----------------------------------------------------------------------------
(***************************************************************************)
(* Histories, their rows, and branches.                                    *)
(***************************************************************************)
\* The first migrations of a history.
LEMMA PrefixIs ==
    ASSUME NEW h \in Seq(Recorded), NEW n \in 1 .. Len(h)
    PROVE  /\ Prefix(h, n) \in Seq(Recorded) /\ Len(Prefix(h, n)) = n
           /\ \A i \in 1 .. n : Prefix(h, n)[i] = h[i]
           /\ Prefix(h, n) # <<>>
           /\ \A k \in 1 .. n : Prefix(Prefix(h, n), k) = Prefix(h, k)
           /\ Prefix(h, Len(h)) = h
<1>1. /\ Prefix(h, n) \in Seq(Recorded) /\ Len(Prefix(h, n)) = n
      /\ \A i \in 1 .. n : Prefix(h, n)[i] = h[i]
  BY DEF Prefix
<1>2. Prefix(h, n) # <<>>
  BY <1>1
<1>3. \A k \in 1 .. n : Prefix(Prefix(h, n), k) = Prefix(h, k)
  BY DEF Prefix
<1>4. Prefix(h, Len(h)) = h
  BY DEF Prefix
<1> QED
  BY <1>1, <1>2, <1>3, <1>4

\* Those of a history that goes on.
LEMMA AppendIs ==
    ASSUME NEW h \in Seq(Recorded), NEW m \in Recorded
    PROVE  /\ Append(h, m) \in Seq(Recorded) /\ Append(h, m) # <<>>
           /\ Len(Append(h, m)) = Len(h) + 1 /\ Append(h, m)[Len(h) + 1] = m
           /\ \A i \in 1 .. Len(h) : Append(h, m)[i] = h[i]
           /\ \A n \in 1 .. Len(h) : Prefix(Append(h, m), n) = Prefix(h, n)
<1>1. \A n \in 1 .. Len(h) : Prefix(Append(h, m), n) = Prefix(h, n)
  BY DEF Prefix
<1> QED
  BY <1>1

\* More objects do no harm.
LEMMA GrownSound ==
    ASSUME NEW d, Sound(d), NEW e, Grown(d, e)
    PROVE  Sound(e)
<1>1. /\ e \in Database /\ Stored(e) /\ d.objects \subseteq e.objects
      /\ e.rows = d.rows /\ e.branches = d.branches
  BY DEF Grown
<1>2. \A h \in DOMAIN e.rows : RowSound(h, e)
  BY <1>1 DEF Sound, RowSound, Linked, Chained
<1>3. \A b \in Branches : e.branches[b] # None => BranchSound(e.branches[b], e)
  BY <1>1 DEF Sound, BranchSound
<1> QED
  BY <1>1, <1>2, <1>3 DEF Sound

\* A migration is recorded that can be performed again and goes on from a
\* recorded history: see Record.
LEMMA RecordSound ==
    ASSUME NEW d, Sound(d), NEW h \in Seq(Recorded), NEW agent \in People,
           h # <<>>, Repeatable(h), Linked(h, d.objects),
           \A n \in 1 .. Len(h) : n < Len(h) => Prefix(h, n) \in DOMAIN d.rows
    PROVE  LET e == Record(d, h, agent)
           IN  /\ Sound(e) /\ e.objects = d.objects /\ e.branches = d.branches
               /\ DOMAIN e.rows = DOMAIN d.rows \cup {h}
<1> DEFINE e == Record(d, h, agent)
           rows == [g \in DOMAIN d.rows \cup {h} |-> IF g = h THEN agent ELSE d.rows[g]]
<1>1. CASE h \in DOMAIN d.rows
  <2>1. e = d
    BY <1>1 DEF Record
  <2> QED
    BY <1>1, <2>1
<1>2. CASE h \notin DOMAIN d.rows
  <2>1. e = [d EXCEPT !.rows = rows] /\ d \in Database
    BY <1>2 DEF Record, Sound, Database
  <2>2. DOMAIN rows = DOMAIN d.rows \cup {h}
    OBVIOUS
  <2>3. rows \in Rows
    <3>1. d.rows \in Rows
      BY <2>1 DEF Database
    <3>2. PICK H \in SUBSET Seq(Recorded) : d.rows \in [H -> People]
      BY <3>1 DEF Rows
    <3>3. H \cup {h} \in SUBSET Seq(Recorded)
      OBVIOUS
    <3>4. rows \in [H \cup {h} -> People]
      BY <3>2
    <3> QED
      BY <3>3, <3>4 DEF Rows
  <2> HIDE DEF rows
  <2>4. /\ e \in Database /\ e.rows = rows /\ e.objects = d.objects
        /\ e.edges = d.edges /\ e.indexed = d.indexed /\ e.branches = d.branches
    BY <2>1, <2>3 DEF Database
  <2>5. ASSUME NEW n \in 1 .. Len(h) PROVE Prefix(h, n) \in DOMAIN rows
    <3>1. CASE n < Len(h)
      BY <2>2, <3>1
    <3>2. CASE n = Len(h)
      BY <2>2, <3>2, PrefixIs
    <3> QED
      BY <3>1, <3>2
  <2> HIDE DEF e
  <2>6. \A g \in DOMAIN e.rows : RowSound(g, e)
    <3>1. RowSound(h, e)
      BY <2>4, <2>5 DEF RowSound
    <3>2. \A g \in DOMAIN d.rows : RowSound(g, e)
      BY <2>2, <2>4 DEF Sound, RowSound
    <3> QED
      BY <2>2, <2>4, <3>1, <3>2
  <2>7. \A b \in Branches : e.branches[b] # None => BranchSound(e.branches[b], e)
    BY <2>2, <2>4 DEF Sound, BranchSound
  <2> QED
    BY <2>2, <2>4, <2>6, <2>7 DEF Sound, Stored, e
<1> QED
  BY <1>1, <1>2

\* A branch moves to a stored root with a history that leads there: see
\* UpdateBranch.
LEMMA UpdateSound ==
    ASSUME NEW d, Sound(d), NEW b \in Branches, NEW s \in Branch, BranchSound(s, d),
           b = Main => MainSound(s)
    PROVE  Sound([d EXCEPT !.branches[b] = s])
<1> DEFINE branches == [d.branches EXCEPT ![b] = s]
           e == [d EXCEPT !.branches = branches]
<1>1. e = [d EXCEPT !.branches[b] = s] /\ d \in Database
  BY DEF Sound, Database
<1>2. branches \in [Branches -> Branch \cup {None}] /\ branches[b] = s
      /\ \A x \in Branches \ {b} : branches[x] = d.branches[x]
  BY <1>1 DEF Database
<1> HIDE DEF branches
<1>3. /\ e \in Database /\ e.rows = d.rows /\ e.objects = d.objects
      /\ e.edges = d.edges /\ e.indexed = d.indexed /\ e.branches = branches
  BY <1>1, <1>2 DEF Database
<1> HIDE DEF e
<1>4. \A h \in DOMAIN e.rows : RowSound(h, e)
  BY <1>3 DEF Sound, RowSound
<1>5. \A x \in Branches : e.branches[x] # None => BranchSound(e.branches[x], e)
  BY <1>2, <1>3 DEF Sound, BranchSound
<1>6. e.branches[Main] # None /\ MainSound(e.branches[Main])
  <2>1. s # None
    BY NoneAssumption DEF Branch
  <2> QED
    BY <1>2, <1>3, <2>1, BranchesAssumption DEF Sound
<1>7. Sound(e)
  BY <1>3, <1>4, <1>5, <1>6 DEF Sound, Stored
<1> QED
  BY <1>1, <1>7

-----------------------------------------------------------------------------
(***************************************************************************)
(* Replaying documents.                                                    *)
(***************************************************************************)
\* The states that a replay goes through, migration by migration.
Replaying(d, doc, start, after) ==
    /\ after[0] = {[db |-> d, root |-> start]}
    /\ \A i \in 1 .. Len(doc.history) :
         after[i] = UNION {ReplayRow(s, doc, i) : s \in after[i - 1]}

\* Replayed is what they end with.
LEMMA ReplayRuns ==
    ASSUME NEW d, NEW doc, NEW start, Len(doc.history) \in Nat
    PROVE  \E after :
             /\ Replaying(d, doc, start, after)
             /\ Replayed(d, doc, start) =
                  {s.db : s \in {t \in after[Len(doc.history)] : t.root = doc.root}}
<1> DEFINE N == Len(doc.history)
           first == {[db |-> d, root |-> start]}
           Upto(k, f) == [i \in 0 .. k |->
                            IF i = 0 THEN first
                            ELSE UNION {ReplayRow(s, doc, i) : s \in f[i - 1]}]
           after == CHOOSE f : f = Upto(N, f)
           S == {k \in 0 .. N : \E f : f = Upto(k, f)}
<1>1. 0 \in S
  <2> DEFINE f == [i \in 0 .. 0 |-> first]
  <2>1. f = Upto(0, f)
    OBVIOUS
  <2>2. 0 \in 0 .. N
    OBVIOUS
  <2> HIDE DEF f, Upto, N
  <2> QED
    BY <2>1, <2>2
<1>2. \A k \in 1 .. N : k - 1 \in S => k \in S
  <2> SUFFICES ASSUME NEW k \in 1 .. N, k - 1 \in S PROVE k \in S
    OBVIOUS
  <2>1. PICK f : f = Upto(k - 1, f)
    OBVIOUS
  <2> DEFINE last == UNION {ReplayRow(s, doc, k) : s \in f[k - 1]}
             g == [i \in 0 .. k |-> IF i = k THEN last ELSE f[i]]
  <2>2. \A i \in 0 .. k - 1 : g[i] = f[i]
    OBVIOUS
  <2>3. g[k] = last
    OBVIOUS
  <2> HIDE DEF last
  <2>4. \A i \in 0 .. k : g[i] = Upto(k, g)[i]
    <3> SUFFICES ASSUME NEW i \in 0 .. k PROVE g[i] = Upto(k, g)[i]
      OBVIOUS
    <3>1. CASE i = 0
      BY <2>1, <2>2, <3>1
    <3>2. CASE i \in 1 .. k - 1
      <4>1. g[i - 1] = f[i - 1] /\ g[i] = f[i]
        BY <2>2, <3>2
      <4>2. f[i] = UNION {ReplayRow(s, doc, i) : s \in f[i - 1]}
        BY <2>1, <3>2
      <4> HIDE DEF g
      <4> QED
        BY <3>2, <4>1, <4>2
    <3>3. CASE i = k
      <4>1. k # 0 /\ g[k - 1] = f[k - 1] /\ k \in 0 .. k
        BY <2>2
      <4> HIDE DEF g
      <4>2. Upto(k, g)[k] = UNION {ReplayRow(s, doc, k) : s \in g[k - 1]}
        BY <4>1
      <4> QED
        BY <2>3, <3>3, <4>1, <4>2 DEF last
    <3> QED
      BY <3>1, <3>2, <3>3
  <2>5. g = Upto(k, g)
    BY <2>4
  <2> HIDE DEF g, Upto
  <2> QED
    BY <2>5
<1>3. N \in S
  <2>1. N \in Nat
    OBVIOUS
  <2> HIDE DEF S, N, first, Upto, after
  <2>2. \A k \in 0 .. N : k \in S
    BY <1>1, <1>2, <2>1, BoundedInduction
  <2> QED
    BY <2>1, <2>2
<1>4. after = Upto(N, after)
  <2> HIDE DEF Upto
  <2> QED
    BY <1>3
<1>5. Replayed(d, doc, start) = {s.db : s \in {t \in after[N] : t.root = doc.root}}
  BY DEF Replayed
<1> HIDE DEF after
<1>6. after[0] = first
  BY <1>4
<1>7. ASSUME NEW i \in 1 .. N
      PROVE  after[i] = UNION {ReplayRow(s, doc, i) : s \in after[i - 1]}
  <2>1. i # 0 /\ i \in 0 .. N
    OBVIOUS
  <2> QED
    BY <1>4, <2>1
<1> QED
  BY <1>5, <1>6, <1>7 DEF Replaying

\* The rows when i migrations of a document have been recorded: who recorded
\* one first remains.
RowsAfter(d, doc, i) ==
    [h \in DOMAIN d.rows \cup {Prefix(doc.history, n) : n \in 1 .. i} |->
       IF h \in DOMAIN d.rows THEN d.rows[h] ELSE doc.agents[Len(h)]]

\* Where a replay that started at a root of d is after i migrations.
Reached(s, i, d, doc, start) ==
    /\ Sound(s.db) /\ s.db.branches = d.branches
    /\ s.root \in s.db.objects
    /\ s.db.objects = d.objects \cup UNION {Made(doc.history[n]) : n \in 1 .. i}
    /\ s.db.rows = RowsAfter(d, doc, i)
    /\ IF i = 0 THEN s.root = start
       ELSE s.root = doc.history[i].output /\ doc.history[1].input = start

\* It has not begun.
LEMMA ReachedAtStart ==
    ASSUME NEW d, Sound(d), NEW doc, NEW start, start \in d.objects,
           NEW s, s.db = d, s.root = start
    PROVE  Reached(s, 0, d, doc, start)
<1>1. \A n \in 1 .. 0 : FALSE
  OBVIOUS
<1>2. d.rows = [h \in DOMAIN d.rows |-> d.rows[h]]
  BY DEF Sound, Database, Rows
<1>3. RowsAfter(d, doc, 0) = d.rows
  <2>1. DOMAIN d.rows \cup {Prefix(doc.history, n) : n \in 1 .. 0} = DOMAIN d.rows
    BY <1>1
  <2> QED
    BY <1>2, <2>1 DEF RowsAfter
<1>4. d.objects = d.objects \cup UNION {Made(doc.history[n]) : n \in 1 .. 0}
  BY <1>1
<1> QED
  BY <1>3, <1>4 DEF Reached

\* Each migration takes it on: see ReplayRow.
LEMMA ReplayRowSound ==
    ASSUME NEW d, NEW doc, Presentable(doc), NEW start, NEW i \in 1 .. Len(doc.history),
           NEW s, Reached(s, i - 1, d, doc, start), NEW t \in ReplayRow(s, doc, i)
    PROVE  Reached(t, i, d, doc, start)
<1> DEFINE h == doc.history
           m == doc.history[i]
           p == Prefix(doc.history, i)
           agent == doc.agents[i]
<1>1. h \in Seq(Recorded) /\ i \in 1 .. Len(h) /\ m \in Recorded /\ Repeats(m) /\ agent \in People
  BY DEF Presentable, Document, Repeatable
<1>2. PICK e \in Perform(s.db, m.op, m.input) :
        /\ m.input = s.root
        /\ t = [db |-> Record(e, p, agent), root |-> m.output]
  BY DEF ReplayRow
<1>3. Sound(s.db) /\ s.db \in Database /\ Stored(s.db)
  BY DEF Reached, Sound
<1>4. /\ m.input \in s.db.objects /\ Grown(s.db, e) /\ m.output \in e.objects
      /\ e.objects = s.db.objects \cup Made(m)
  <2> HIDE DEF m
  <2> QED
    BY <1>1, <1>2, <1>3, PerformSound
<1>5. /\ Sound(e) /\ s.db.objects \subseteq e.objects /\ e.rows = s.db.rows
      /\ e.branches = s.db.branches
  BY <1>3, <1>4, GrownSound DEF Grown
<1> HIDE DEF h, m, p, agent
<1>6. /\ p \in Seq(Recorded) /\ Len(p) = i /\ p # <<>>
      /\ \A j \in 1 .. i : p[j] = h[j]
      /\ \A k \in 1 .. i : Prefix(p, k) = Prefix(h, k)
  BY <1>1, PrefixIs DEF p, h
<1>7. Repeatable(p)
  BY <1>1, <1>6 DEF Repeatable, Presentable, h
<1>8. \A n \in 1 .. i - 1 : Prefix(h, n) \in DOMAIN s.db.rows
  BY DEF Reached, RowsAfter, h
<1>9. Linked(p, e.objects)
  <2>1. CASE i = 1
    <3>1. p[1] = m
      BY <1>6, <2>1 DEF h, m
    <3> QED
      BY <1>4, <1>5, <1>6, <2>1, <3>1 DEF Linked, Chained
  <2>2. CASE i # 1
    <3> DEFINE q == Prefix(h, i - 1)
    <3>1. i - 1 \in 1 .. Len(h) /\ i - 1 \in 1 .. i - 1
      BY <1>1, <2>2
    <3>2. Len(q) = i - 1 /\ \A j \in 1 .. i - 1 : q[j] = h[j]
      BY <1>1, <3>1, PrefixIs
    <3>3. RowSound(q, s.db)
      BY <1>3, <1>8, <3>1 DEF Sound
    <3> HIDE DEF q
    <3>4. /\ \A j \in 1 .. i - 1 : q[j].input \in s.db.objects /\ q[j].output \in s.db.objects
          /\ \A j \in 2 .. i - 1 : q[j].input = q[j - 1].output
      BY <3>2, <3>3 DEF RowSound, Linked, Chained
    <3>5. /\ \A j \in 1 .. i - 1 : h[j].input \in s.db.objects /\ h[j].output \in s.db.objects
          /\ \A j \in 2 .. i - 1 : h[j].input = h[j - 1].output
      BY <3>2, <3>4
    <3>6. m.input = h[i - 1].output /\ h[i] = m
      BY <1>2, <2>2 DEF Reached, h, m
    <3>7. \A j \in 1 .. i : h[j].input \in e.objects /\ h[j].output \in e.objects
      BY <1>4, <1>5, <3>5, <3>6
    <3>8. \A j \in 2 .. i : h[j].input = h[j - 1].output
      BY <3>5, <3>6
    <3> QED
      BY <1>6, <3>7, <3>8 DEF Linked, Chained
  <2> QED
    BY <2>1, <2>2
<1>10. \A n \in 1 .. Len(p) : n < Len(p) => Prefix(p, n) \in DOMAIN e.rows
  BY <1>5, <1>6, <1>8
<1>11. LET r == Record(e, p, agent)
       IN  /\ Sound(r) /\ r.objects = e.objects /\ r.branches = e.branches
           /\ DOMAIN r.rows = DOMAIN e.rows \cup {p}
  BY <1>1, <1>5, <1>6, <1>7, <1>9, <1>10, RecordSound
<1>12. t.db = Record(e, p, agent) /\ t.root = m.output
  BY <1>2
<1>13. t.db.rows = RowsAfter(d, doc, i)
  <2>1. p = Prefix(h, i)
    BY DEF p, h
  <2>2. e \in Database /\ e.rows = RowsAfter(d, doc, i - 1)
    BY <1>5 DEF Sound, Reached
  <2>3. {Prefix(h, n) : n \in 1 .. i} = {Prefix(h, n) : n \in 1 .. i - 1} \cup {p}
    BY <1>1, <2>1
  <2> DEFINE before == {Prefix(h, n) : n \in 1 .. i - 1}
             known == DOMAIN d.rows
  <2>4. e.rows = [g \in known \cup before |->
                    IF g \in known THEN d.rows[g] ELSE doc.agents[Len(g)]]
    BY <2>2 DEF RowsAfter, h
  <2>5. RowsAfter(d, doc, i) = [g \in known \cup (before \cup {p}) |->
                    IF g \in known THEN d.rows[g] ELSE doc.agents[Len(g)]]
    BY <2>3 DEF RowsAfter, h
  <2>6. agent = doc.agents[Len(p)]
    BY <1>6 DEF agent
  <2>7. t.db.rows = IF p \in DOMAIN e.rows THEN e.rows
                    ELSE [g \in DOMAIN e.rows \cup {p} |-> IF g = p THEN agent ELSE e.rows[g]]
    BY <1>12, <2>2 DEF Record, Database
  <2> HIDE DEF before, known
  <2>8. CASE p \in DOMAIN e.rows
    BY <2>4, <2>5, <2>7, <2>8
  <2>9. CASE p \notin DOMAIN e.rows
    <3> DEFINE rows == [g \in DOMAIN e.rows \cup {p} |-> IF g = p THEN agent ELSE e.rows[g]]
    <3>1. DOMAIN e.rows = known \cup before /\ p \notin known
      BY <2>4, <2>9
    <3>2. rows = [g \in known \cup (before \cup {p}) |->
                    IF g \in known THEN d.rows[g] ELSE doc.agents[Len(g)]]
      BY <2>4, <2>6, <3>1
    <3> QED
      BY <2>5, <2>7, <2>9, <3>2
  <2> QED
    BY <2>8, <2>9
<1>14. h[1].input = start
  <2>1. CASE i = 1
    BY <1>2, <2>1 DEF Reached, h, m
  <2>2. CASE i # 1
    BY <2>2 DEF Reached, h
  <2> QED
    BY <2>1, <2>2
<1>15. Sound(t.db) /\ t.db.branches = d.branches /\ t.root \in t.db.objects
  <2>1. s.db.branches = d.branches
    BY DEF Reached
  <2> QED
    BY <1>4, <1>5, <1>11, <1>12, <2>1
<1>16. t.root = h[i].output
  BY <1>12 DEF h, m
<1>17. t.db.objects = d.objects \cup UNION {Made(doc.history[n]) : n \in 1 .. i}
  <2> DEFINE made(n) == Made(doc.history[n])
  <2>1. s.db.objects = d.objects \cup UNION {made(n) : n \in 1 .. i - 1}
    BY DEF Reached
  <2>2. t.db.objects = s.db.objects \cup made(i)
    BY <1>4, <1>11, <1>12 DEF m
  <2> HIDE DEF made
  <2>3. {made(n) : n \in 1 .. i} = {made(n) : n \in 1 .. i - 1} \cup {made(i)}
    BY <1>1
  <2> QED
    BY <2>1, <2>2, <2>3 DEF made
<1> QED
  BY <1>13, <1>14, <1>15, <1>16, <1>17 DEF Reached, h

\* A whole replay ends in a sound database at the document's root.
LEMMA ReplayedSound ==
    ASSUME NEW d, Sound(d), NEW doc, Presentable(doc), NEW start, start \in d.objects,
           NEW e \in Replayed(d, doc, start)
    PROVE  \E s : s.db = e /\ s.root = doc.root /\ Reached(s, Len(doc.history), d, doc, start)
<1> DEFINE N == Len(doc.history)
<1>1. N \in Nat
  BY DEF Presentable, Document
<1>2. PICK after :
        /\ Replaying(d, doc, start, after)
        /\ Replayed(d, doc, start) = {s.db : s \in {t \in after[N] : t.root = doc.root}}
  BY <1>1, ReplayRuns
<1> DEFINE S == {i \in 0 .. N : \A s \in after[i] : Reached(s, i, d, doc, start)}
<1>3. 0 \in S
  <2> SUFFICES ASSUME NEW s \in after[0] PROVE Reached(s, 0, d, doc, start)
    BY <1>1
  <2>1. s.db = d /\ s.root = start
    BY <1>2 DEF Replaying
  <2> QED
    BY <2>1, ReachedAtStart
<1>4. \A i \in 1 .. N : i - 1 \in S => i \in S
  <2> SUFFICES ASSUME NEW i \in 1 .. N, i - 1 \in S, NEW t \in after[i]
               PROVE  Reached(t, i, d, doc, start)
    OBVIOUS
  <2>1. PICK s \in after[i - 1] : t \in ReplayRow(s, doc, i)
    BY <1>2 DEF Replaying
  <2>2. Reached(s, i - 1, d, doc, start)
    OBVIOUS
  <2> QED
    BY <2>1, <2>2, ReplayRowSound
<1>5. N \in S
  <2> HIDE DEF S, N
  <2>1. \A i \in 0 .. N : i \in S
    BY <1>1, <1>3, <1>4, BoundedInduction
  <2> QED
    BY <1>1, <2>1
<1>6. PICK s \in after[N] : s.root = doc.root /\ s.db = e
  BY <1>2
<1> QED
  BY <1>5, <1>6

\* A replay from the empty root may take the main branch over: see MovedMain.
LEMMA MovedMainSound ==
    ASSUME NEW d, NEW doc, Presentable(doc),
           NEW s, s.root = doc.root, Reached(s, Len(doc.history), d, doc, EmptyRoot)
    PROVE  Sound(MovedMain(s.db, doc))
<1> DEFINE h == doc.history
           b == [root |-> doc.root, history |-> doc.history]
<1>1. Sound(s.db) /\ s.root \in s.db.objects
  BY DEF Reached
<1>2. CASE h = <<>>
  BY <1>1, <1>2 DEF MovedMain
<1>3. CASE h # <<>>
  <2>1. h \in Seq(Recorded) /\ doc.root \in Roots /\ Len(h) \in Nat /\ Len(h) # 0
    BY <1>3 DEF Presentable, Document
  <2>2. Len(h) \in 1 .. Len(h)
    BY <2>1
  <2>3. Prefix(h, Len(h)) = h
    BY <2>1, <2>2, PrefixIs
  <2>4. /\ h \in DOMAIN s.db.rows /\ OutputRoot(h) = doc.root
        /\ h[1].input = EmptyRoot
    BY <2>1, <2>2, <2>3 DEF Reached, RowsAfter, OutputRoot
  <2>5. b \in Branch /\ BranchSound(b, s.db) /\ MainSound(b)
    BY <1>1, <1>3, <2>1, <2>4 DEF Branch, BranchSound, MainSound
  <2>6. MovedMain(s.db, doc) = [s.db EXCEPT !.branches[Main] = b]
    BY <1>3 DEF MovedMain, UpdateBranch
  <2> HIDE DEF b
  <2>7. Sound([s.db EXCEPT !.branches[Main] = b])
    BY <1>1, <2>5, BranchesAssumption, UpdateSound
  <2> QED
    BY <2>6, <2>7
<1> QED
  BY <1>2, <1>3

\* A bundle holds its roots and all that they refer to.
LEMMA BundleIsClosed ==
    ASSUME NEW doc, Presentable(doc), doc.kind = "bundle"
    PROVE  /\ Closed(doc.objects) /\ ClosureRoots(doc.root, doc.history) \subseteq doc.objects
           /\ ClosureRoots(doc.root, doc.history) \subseteq Roots
<1> DEFINE roots == ClosureRoots(doc.root, doc.history)
<1>1. roots \subseteq Roots
  <2>1. /\ doc.root \in Roots /\ doc.history \in Seq(Recorded)
    BY DEF Presentable, Document
  <2>2. \A i \in DOMAIN doc.history : doc.history[i] \in Recorded
    BY <2>1
  <2> QED
    BY <2>1, <2>2 DEF ClosureRoots, Recorded
<1>2. doc.objects = UNION {Below[r] : r \in roots}
  BY DEF Presentable
<1> HIDE DEF roots
<1>3. \A r \in roots : r \in Below[r] /\ Closed(Below[r])
  BY <1>1, RootsAreObjects, BelowIsClosure
<1> QED
  BY <1>1, <1>2, <1>3 DEF Closed, roots

\* An import leaves a sound database: see Imported.
LEMMA ImportedSound ==
    ASSUME NEW d, Sound(d), NEW doc, Presentable(doc), NEW e \in Imported(d, doc)
    PROVE  Sound(e)
<1>1. ASSUME NEW c, Sound(c), NEW x \in Replayed(c, doc, EmptyRoot)
      PROVE  Sound(MovedMain(x, doc))
  <2>1. EmptyRoot \in c.objects
    BY <1>1 DEF Sound
  <2>2. PICK s : s.db = x /\ s.root = doc.root
                   /\ Reached(s, Len(doc.history), c, doc, EmptyRoot)
    BY <1>1, <2>1, ReplayedSound
  <2> QED
    BY <2>2, MovedMainSound
<1>2. CASE doc.kind = "bundle"
  <2>1. PICK c \in StoreAndIndex(d, doc.objects) :
          \E x \in Replayed(c, doc, EmptyRoot) : e = MovedMain(x, doc)
    BY <1>2 DEF Imported, ImportedBundle
  <2>2. d \in Database /\ Stored(d) /\ doc.objects \in SUBSET Objects
    BY DEF Sound, Presentable, Document
  <2>3. Closed(d.objects \cup doc.objects)
    BY <1>2, <2>2, BundleIsClosed DEF Closed, Stored
  <2>4. Grown(d, c)
    BY <2>1, <2>2, <2>3, StoreAndIndexSound DEF Grown
  <2>5. Sound(c)
    BY <2>4, GrownSound
  <2> QED
    BY <1>1, <2>1, <2>5
<1>3. CASE doc.kind # "bundle"
  <2>1. /\ d.branches[Main].history = <<>>
        /\ \E x \in Replayed(d, doc, d.branches[Main].root) : e = MovedMain(x, doc)
    BY <1>3 DEF Imported, ImportedHistory
  <2>2. d.branches[Main].root = EmptyRoot
    BY <2>1 DEF Sound, MainSound
  <2> QED
    BY <1>1, <2>1, <2>2
<1> QED
  BY <1>2, <1>3

-----------------------------------------------------------------------------
(***************************************************************************)
(* What verify finds in a sound database.                                  *)
(***************************************************************************)
\* A recorded history can be exported with its agents: see AgentsOf.
LEMMA HistoryIsPresentable ==
    ASSUME NEW d, Sound(d), NEW h, h = <<>> \/ h \in DOMAIN d.rows
    PROVE  /\ h \in Seq(Recorded) /\ Repeatable(h) /\ Chained(h)
           /\ AgentsOf(d, h) \in Seq(People) /\ Len(AgentsOf(d, h)) = Len(h)
<1>1. PICK H \in SUBSET Seq(Recorded) : d.rows \in [H -> People]
  BY DEF Sound, Database, Rows
<1>2. h \in Seq(Recorded)
  <2>1. <<>> \in Seq(Recorded)
    OBVIOUS
  <2>2. DOMAIN d.rows = H
    BY <1>1
  <2> QED
    BY <2>1, <2>2
<1>3. Repeatable(h) /\ Chained(h)
  <2>1. CASE h = <<>>
    BY <2>1 DEF Repeatable, Chained
  <2>2. CASE h \in DOMAIN d.rows
    BY <2>2 DEF Sound, RowSound, Linked
  <2> QED
    BY <2>1, <2>2
<1>4. \A i \in 1 .. Len(h) : d.rows[Prefix(h, i)] \in People
  <2> SUFFICES ASSUME NEW i \in 1 .. Len(h) PROVE d.rows[Prefix(h, i)] \in People
    OBVIOUS
  <2>1. h # <<>>
    OBVIOUS
  <2>2. Prefix(h, i) \in DOMAIN d.rows
    BY <2>1 DEF Sound, RowSound
  <2> QED
    BY <1>1, <2>2
<1>5. DOMAIN h = 1 .. Len(h) /\ Len(h) \in Nat
  BY <1>2
<1>6. AgentsOf(d, h) = [i \in 1 .. Len(h) |-> d.rows[Prefix(h, i)]]
  BY <1>5 DEF AgentsOf
<1>7. AgentsOf(d, h) \in Seq(People) /\ Len(AgentsOf(d, h)) = Len(h)
  <2> DEFINE agents == AgentsOf(d, h)
             n == Len(h)
  <2>1. agents \in [1 .. n -> People] /\ n \in Nat
    BY <1>4, <1>5, <1>6
  <2> HIDE DEF agents, n
  <2>2. agents \in Seq(People) /\ Len(agents) = n
    BY <2>1
  <2> QED
    BY <2>2 DEF agents, n
<1> QED
  BY <1>2, <1>3, <1>7

\* The export of a branch is a document: see HistoryDocument.
LEMMA HistoryDocumentIs ==
    ASSUME NEW d, Sound(d), NEW b \in Branches, d.branches[b] # None
    PROVE  Presentable(HistoryDocument(d, b))
<1> DEFINE s == d.branches[b]
           agents == AgentsOf(d, s.history)
           doc == HistoryDocument(d, b)
<1>1. s \in Branch
  BY DEF Sound, Database
<1>2. s.history # <<>> => s.history \in DOMAIN d.rows /\ OutputRoot(s.history) = s.root
  BY DEF Sound, BranchSound
<1>3. /\ Repeatable(s.history) /\ Chained(s.history)
      /\ agents \in Seq(People) /\ Len(agents) = Len(s.history)
  BY <1>2, HistoryIsPresentable
<1>4. doc = [kind |-> "history", branch |-> b, root |-> s.root, history |-> s.history,
             agents |-> agents, objects |-> {}]
  BY DEF HistoryDocument
<1> HIDE DEF s, agents, doc
<1> QED
  BY <1>1, <1>2, <1>3, <1>4 DEF Presentable, Document, Branch, doc

\* A document that starts where databases do can be replayed in any, a bundle
\* unless its migrations are recorded there by others: see Replayed.
LEMMA ReplaySucceeds ==
    ASSUME NEW d, Sound(d), NEW doc, Presentable(doc), FromGenesis(doc),
           doc.kind = "bundle" => \A i \in DOMAIN doc.history : ~Conflicts(d, doc, i)
    PROVE  Replayed(d, doc, EmptyRoot) # {}
<1> DEFINE h == doc.history
           N == Len(h)
<1>1. h \in Seq(Recorded) /\ N \in Nat /\ Repeatable(h) /\ Chained(h) /\ DOMAIN h = 1 .. N
  BY DEF Presentable, Document
<1>2. PICK after :
        /\ Replaying(d, doc, EmptyRoot, after)
        /\ Replayed(d, doc, EmptyRoot) = {s.db : s \in {t \in after[N] : t.root = doc.root}}
  <2>1. \A start : \E after :
          /\ Replaying(d, doc, start, after)
          /\ Replayed(d, doc, start) = {s.db : s \in {t \in after[N] : t.root = doc.root}}
    <3>1. N \in Nat
      BY <1>1
    <3> TAKE start
    <3> QED
      BY <3>1, ReplayRuns
  <2> QED
    BY <2>1
<1> DEFINE S == {i \in 0 .. N : \E s \in after[i] : Reached(s, i, d, doc, EmptyRoot)}
<1>3. 0 \in S
  <2> DEFINE s == [db |-> d, root |-> EmptyRoot]
  <2>1. s \in after[0] /\ s.db = d /\ s.root = EmptyRoot
    BY <1>2 DEF Replaying
  <2>2. EmptyRoot \in d.objects
    BY DEF Sound
  <2> HIDE DEF s
  <2>3. Reached(s, 0, d, doc, EmptyRoot)
    BY <2>1, <2>2, ReachedAtStart
  <2> QED
    BY <1>1, <2>1, <2>3
<1>4. \A i \in 1 .. N : i - 1 \in S => i \in S
  <2> SUFFICES ASSUME NEW i \in 1 .. N, i - 1 \in S
               PROVE  \E t \in after[i] : Reached(t, i, d, doc, EmptyRoot)
    OBVIOUS
  <2>1. PICK s \in after[i - 1] : Reached(s, i - 1, d, doc, EmptyRoot)
    OBVIOUS
  <2> DEFINE m == h[i]
  <2>2. m \in Recorded /\ Repeats(m)
    BY <1>1 DEF Repeatable
  <2>3. m.input = s.root
    <3>1. CASE i = 1
      <4>1. s.root = EmptyRoot
        BY <2>1, <3>1 DEF Reached
      <4>2. h # <<>>
        BY <1>1, <3>1
      <4> QED
        BY <3>1, <4>1, <4>2 DEF FromGenesis
    <3>2. CASE i # 1
      <4>1. i \in 2 .. Len(h)
        BY <3>2
      <4>2. m.input = h[i - 1].output
        BY <1>1, <4>1 DEF Chained
      <4>3. s.root = h[i - 1].output
        BY <2>1, <3>2 DEF Reached
      <4> QED
        BY <4>2, <4>3
    <3> QED
      BY <3>1, <3>2
  <2>4. s.db \in Database /\ Stored(s.db) /\ s.root \in s.db.objects
    BY <2>1 DEF Reached, Sound
  <2>5. m.output = Output(m.op, m.input)
    BY <2>2 DEF Repeats
  <2> HIDE DEF m
  <2>6. Perform(s.db, m.op, m.input) # {}
    BY <2>2, <2>3, <2>4, PerformSound
  <2>7. ~(doc.kind = "bundle" /\ Conflicts(s.db, doc, i))
    <3> DEFINE p == Prefix(h, i)
    <3> SUFFICES ASSUME doc.kind = "bundle", p \in DOMAIN s.db.rows
                 PROVE  s.db.rows[p] = doc.agents[i]
      BY DEF Conflicts
    <3>1. Len(p) = i
      BY <1>1, PrefixIs
    <3>2. p \in DOMAIN d.rows => d.rows[p] = doc.agents[i]
      BY <1>1 DEF Conflicts
    <3>3. s.db.rows = RowsAfter(d, doc, i - 1)
      BY <2>1 DEF Reached
    <3> HIDE DEF p
    <3>4. s.db.rows[p] = IF p \in DOMAIN d.rows THEN d.rows[p] ELSE doc.agents[Len(p)]
      BY <3>3 DEF RowsAfter
    <3> QED
      BY <3>1, <3>2, <3>4
  <2>8. ReplayRow(s, doc, i) # {}
    BY <2>3, <2>5, <2>6, <2>7 DEF ReplayRow, m
  <2>9. PICK t \in ReplayRow(s, doc, i) : TRUE
    BY <2>8
  <2>10. Reached(t, i, d, doc, EmptyRoot)
    BY <2>1, <2>9, ReplayRowSound
  <2>11. t \in after[i]
    BY <1>2, <2>1, <2>9 DEF Replaying
  <2> QED
    BY <2>10, <2>11
<1>5. N \in S
  <2> HIDE DEF S, N
  <2>1. \A i \in 0 .. N : i \in S
    BY <1>1, <1>3, <1>4, BoundedInduction
  <2> QED
    BY <1>1, <2>1
<1>6. PICK s \in after[N] : Reached(s, N, d, doc, EmptyRoot)
  BY <1>5
<1>7. s.root = doc.root
  <2>1. CASE N = 0
    <3>1. h = <<>>
      BY <1>1, <2>1
    <3> QED
      BY <1>6, <2>1, <3>1 DEF Reached, FromGenesis
  <2>2. CASE N # 0
    <3>1. h # <<>>
      BY <2>2
    <3>2. OutputRoot(h) = doc.root
      BY <3>1 DEF Presentable
    <3> QED
      BY <1>6, <2>2, <3>1, <3>2 DEF Reached, OutputRoot
  <2> QED
    BY <2>1, <2>2
<1> QED
  BY <1>2, <1>6, <1>7

\* The main branch can be replayed from the empty root: see
\* verify_history_replay_readonly.
LEMMA MainReplays ==
    ASSUME NEW d, Sound(d)
    PROVE  Replayed(d, HistoryDocument(d, Main), EmptyRoot) # {}
<1> DEFINE doc == HistoryDocument(d, Main)
           main == d.branches[Main]
<1>1. Presentable(doc)
  BY BranchesAssumption, HistoryDocumentIs DEF Sound
<1>2. doc.history = main.history /\ doc.root = main.root /\ doc.kind = "history"
  BY DEF HistoryDocument
<1>3. MainSound(main)
  BY DEF Sound
<1> HIDE DEF doc, main
<1>4. FromGenesis(doc)
  BY <1>2, <1>3 DEF FromGenesis, MainSound
<1>5. Replayed(d, doc, EmptyRoot) # {}
  BY <1>1, <1>2, <1>4, ReplaySucceeds
<1> QED
  BY <1>5 DEF doc

\* Verify finds nothing wrong in a sound database: see verify.
LEMMA SoundVerifies ==
    ASSUME NEW d, Sound(d)
    PROVE  Verifies(d) /\ ChainsRecorded(d)
<1>1. d \in Database /\ Stored(d) /\ d.objects \in SUBSET Objects
  BY DEF Sound, Database
<1>2. VerifyObjects(d)
  <2> SUFFICES ASSUME NEW o \in d.objects PROVE Known(o) \subseteq d.objects
    BY DEF VerifyObjects, RefsStored
  <2>1. o \in Objects /\ HashStrings(o) \subseteq d.objects
    BY <1>1, RefsTyped DEF Stored, Closed
  <2>2. \A X : RefsIn(o, X) \subseteq HashStrings(o)
    BY DEF RefsIn, HashStrings
  <2>3. Known(o) \subseteq HashStrings(o)
    BY <2>2 DEF Known
  <2> QED
    BY <2>1, <2>3
<1>3. VerifyEdges(d)
  <2>1. d.edges = Edges(d.objects, d.objects)
    BY <1>1 DEF Stored
  <2>2. \A e \in d.edges : e[1] \in d.objects /\ e[2] \in d.objects
    BY <2>1, EdgesAre
  <2> QED
    BY <2>1, <2>2 DEF VerifyEdges
<1>4. VerifyBranches(d)
  <2>1. d.branches[Main] # None
    BY DEF Sound
  <2>2. \A b \in Branches : d.branches[b] # None =>
           d.branches[b].root \in d.objects /\ HistoryMatchesRoot(d.branches[b], DOMAIN d.rows)
    BY DEF Sound, BranchSound, HistoryMatchesRoot
  <2> QED
    BY <2>1, <2>2 DEF VerifyBranches
<1>5. \A h \in DOMAIN d.rows : h \in Seq(Recorded) /\ Len(h) \in 1 .. Len(h) /\ RowSound(h, d)
  <2> SUFFICES ASSUME NEW h \in DOMAIN d.rows
               PROVE  h \in Seq(Recorded) /\ Len(h) \in 1 .. Len(h) /\ RowSound(h, d)
    OBVIOUS
  <2>1. RowSound(h, d) /\ h # <<>>
    BY DEF Sound, RowSound
  <2>2. h \in Seq(Recorded)
    BY HistoryIsPresentable
  <2> QED
    BY <2>1, <2>2
<1>6. VerifyMigrations(d)
  BY <1>5 DEF VerifyMigrations, RowSound, Linked, Chained
<1>7. VerifyRoots(d)
  <2> SUFFICES ASSUME NEW r \in RootsIn(d.objects)
               PROVE  Below[r] \subseteq d.objects /\ r \in d.indexed
    BY DEF VerifyRoots, VerifyRootIndexes
  <2>1. r \in d.objects /\ r \in Objects
    BY <1>1 DEF RootsIn
  <2> QED
    BY <1>1, <2>1, BelowIsClosure DEF Stored
<1>8. VerifyCaches(d)
  BY <1>1 DEF VerifyCaches, Stored, InterfacesOf
<1>9. VerifyHistoryReplay(d)
  BY MainReplays DEF VerifyHistoryReplay
<1>10. ChainsRecorded(d)
  <2> SUFFICES ASSUME NEW h \in DOMAIN d.rows, Len(h) > 1
               PROVE  Prefix(h, Len(h) - 1) \in DOMAIN d.rows
    BY DEF ChainsRecorded
  <2>1. Len(h) - 1 \in 1 .. Len(h)
    BY <1>5
  <2> QED
    BY <1>5, <2>1 DEF RowSound
<1> QED
  BY <1>2, <1>3, <1>4, <1>6, <1>7, <1>8, <1>9, <1>10 DEF Verifies

-----------------------------------------------------------------------------
(***************************************************************************)
(* The steps.                                                              *)
(***************************************************************************)
\* A new database is sound: see NewDatabase.
LEMMA NewDatabaseSound ==
    Sound(NewDatabase) /\ NewDatabase.branches = Absent /\ DOMAIN NewDatabase.rows = {}
<1> DEFINE blank == [objects |-> {}, edges |-> {}, indexed |-> {}, rows |-> <<>>, branches |-> Absent]
           new == Builtins \cup {EmptyRoot}
           main == [root |-> EmptyRoot, history |-> <<>>]
<1>1. EmptyRoot \in Roots /\ new \in SUBSET Objects
  BY RootsAssumption, ObjectsAssumption
<1>2. main \in Branch /\ main # None
  <2>1. <<>> \in Seq(Recorded)
    OBVIOUS
  <2>2. main \in Branch
    BY <1>1, <2>1 DEF Branch
  <2> HIDE DEF main
  <2> QED
    BY <2>2, NoneAssumption DEF Branch
<1>3. /\ Absent \in [Branches -> Branch \cup {None}] /\ Absent[Main] = main
      /\ \A b \in Branches : Absent[b] # None => Absent[b] = main
  BY <1>2, BranchesAssumption DEF Absent
<1>4. <<>> \in Rows /\ DOMAIN <<>> = {}
  <2>1. {} \in SUBSET Seq(Recorded) /\ <<>> \in [{} -> People]
    OBVIOUS
  <2> QED
    BY <2>1 DEF Rows
<1>5. blank \in Database
  BY <1>3, <1>4 DEF Database
<1>6. /\ blank.objects = {} /\ blank.edges = {} /\ blank.indexed = {}
      /\ blank.rows = <<>> /\ blank.branches = Absent
  OBVIOUS
<1>7. Stored(blank)
  BY <1>6 DEF Stored, Closed, Edges, RootsIn, InterfacesOf
<1>8. Closed(blank.objects \cup new)
  BY <1>6, ReferencesAssumption DEF Closed
<1>9. NewDatabase = CHOOSE d \in StoreAndIndex(blank, new) : TRUE
  BY DEF NewDatabase
<1> HIDE DEF blank, main
<1>10. PICK e \in Database :
         /\ StoreAndIndex(blank, new) = {e} /\ Stored(e)
         /\ e.objects = blank.objects \cup new \cup InterfacesOf(new)
         /\ e.rows = blank.rows /\ e.branches = blank.branches
  <2> HIDE DEF new
  <2> QED
    BY <1>1, <1>5, <1>7, <1>8, StoreAndIndexSound
<1>11. NewDatabase = e
  BY <1>9, <1>10
<1>12. e.branches = Absent /\ DOMAIN e.rows = {} /\ EmptyRoot \in e.objects
  BY <1>4, <1>6, <1>10
<1>13. BranchSound(main, e) /\ MainSound(main)
  BY <1>12 DEF BranchSound, MainSound, main
<1> QED
  BY <1>2, <1>3, <1>10, <1>11, <1>12, <1>13 DEF Sound

\* A migration that goes on from a branch is recorded and the branch moves to
\* its output: see ApplyAndRecord.
LEMMA GoesOn ==
    ASSUME NEW d, Sound(d), NEW b \in Branches, d.branches[b] # None, NEW m \in Recorded,
           m.input = d.branches[b].root, Repeats(m),
           NEW e \in Perform(d, m.op, m.input), NEW agent \in People
    PROVE  LET history == Append(d.branches[b].history, m)
           IN  Sound(UpdateBranch(Record(e, history, agent), b, m.output, history))
<1> DEFINE s == d.branches[b]
           old == s.history
           h == Append(old, m)
           r == Record(e, h, agent)
           t == [root |-> m.output, history |-> h]
<1>1. s \in Branch /\ BranchSound(s, d) /\ d \in Database /\ Stored(d)
  BY DEF Sound, Database
<1>2. Grown(d, e) /\ m.output \in e.objects
  BY <1>1, PerformSound
<1>3. /\ Sound(e) /\ d.objects \subseteq e.objects /\ e.rows = d.rows
      /\ e.branches = d.branches
  BY <1>2, GrownSound DEF Grown
<1>4. old \in Seq(Recorded) /\ Repeatable(old)
  BY <1>1, HistoryIsPresentable DEF BranchSound
<1> HIDE DEF s
<1>5. m.input = s.root
  BY DEF s
<1>6. b = Main => MainSound(s)
  BY DEF Sound, s
<1> HIDE DEF old
<1>7. /\ h \in Seq(Recorded) /\ h # <<>>
      /\ Len(h) = Len(old) + 1 /\ h[Len(old) + 1] = m /\ Len(old) \in Nat
      /\ \A i \in 1 .. Len(old) : h[i] = old[i]
      /\ \A n \in 1 .. Len(old) : Prefix(h, n) = Prefix(old, n)
  BY <1>4, AppendIs
<1> HIDE DEF h
<1>8. Repeatable(h)
  BY <1>4, <1>7 DEF Repeatable
<1>9. old # <<>> => RowSound(old, d) /\ OutputRoot(old) = s.root
  BY <1>1 DEF BranchSound, Sound, old
<1>10. old # <<>> <=> Len(old) # 0
  BY <1>4
<1>11. Linked(h, e.objects)
  <2>1. m.input \in e.objects
    BY <1>1, <1>3, <1>5 DEF BranchSound
  <2>2. \A i \in 1 .. Len(old) : old[i].input \in e.objects /\ old[i].output \in e.objects
    BY <1>3, <1>9, <1>10 DEF RowSound, Linked, Chained
  <2>3. \A i \in 2 .. Len(old) : old[i].input = old[i - 1].output
    BY <1>9, <1>10 DEF RowSound, Linked, Chained
  <2>4. Len(old) # 0 => m.input = old[Len(old)].output
    BY <1>5, <1>9, <1>10 DEF OutputRoot
  <2>5. \A i \in 1 .. Len(h) : h[i].input \in e.objects /\ h[i].output \in e.objects
    BY <1>2, <1>7, <2>1, <2>2
  <2>6. ASSUME NEW i \in 2 .. Len(h) PROVE h[i].input = h[i - 1].output
    <3>1. CASE i = Len(old) + 1
      <4>1. Len(old) # 0 /\ i - 1 = Len(old) /\ i - 1 \in 1 .. Len(old)
        BY <1>7, <3>1
      <4> QED
        BY <1>7, <2>4, <3>1, <4>1
    <3>2. CASE i # Len(old) + 1
      <4>1. i \in 2 .. Len(old) /\ i \in 1 .. Len(old) /\ i - 1 \in 1 .. Len(old)
        BY <1>7, <3>2
      <4> QED
        BY <1>7, <2>3, <4>1
    <3> QED
      BY <3>1, <3>2
  <2> QED
    BY <2>5, <2>6 DEF Linked, Chained
<1>12. \A n \in 1 .. Len(h) : n < Len(h) => Prefix(h, n) \in DOMAIN e.rows
  <2> SUFFICES ASSUME NEW n \in 1 .. Len(old) PROVE Prefix(old, n) \in DOMAIN d.rows
    BY <1>3, <1>7
  <2> QED
    BY <1>7, <1>9, <1>10 DEF RowSound
<1>13. /\ Sound(r) /\ r.objects = e.objects /\ r.branches = e.branches
       /\ DOMAIN r.rows = DOMAIN e.rows \cup {h}
  BY <1>3, <1>7, <1>8, <1>11, <1>12, RecordSound
<1> HIDE DEF r
<1>14. OutputRoot(h) = m.output
  BY <1>7 DEF OutputRoot
<1>15. t \in Branch /\ BranchSound(t, r)
  <2>1. m.output \in Roots
    BY DEF Recorded
  <2> QED
    BY <1>2, <1>7, <1>13, <1>14, <2>1 DEF Branch, BranchSound
<1>16. b = Main => MainSound(t)
  <2> SUFFICES ASSUME b = Main PROVE h[1].input = EmptyRoot
    BY <1>7 DEF MainSound
  <2>1. CASE old = <<>>
    BY <1>5, <1>6, <1>7, <1>10, <2>1 DEF MainSound, old
  <2>2. CASE old # <<>>
    <3>1. h[1] = old[1] /\ old[1].input = EmptyRoot
      BY <1>6, <1>7, <1>10, <2>2 DEF MainSound, old
    <3> QED
      BY <3>1
  <2> QED
    BY <2>1, <2>2
<1>17. UpdateBranch(r, b, m.output, h) = [r EXCEPT !.branches[b] = t]
  BY DEF UpdateBranch
<1> HIDE DEF t
<1>18. Sound([r EXCEPT !.branches[b] = t])
  BY <1>13, <1>15, <1>16, UpdateSound
<1> QED
  BY <1>17, <1>18 DEF r, h, old, s

\* What is performed at a branch can be performed again: of an edit, it
\* applied; of a merge, it carries what the merged root adds.
LEMMA PerformedRepeats ==
    ASSUME NEW d \in Database, Stored(d), NEW input \in Roots, NEW op,
           \/ op \in Ops
           \/ /\ op \in MergeOps /\ op.source \in op.carried /\ Closed(op.carried)
              /\ Refs[op.merged] \cap d.objects \subseteq op.carried,
           NEW e \in Perform(d, op, input),
           NEW m, m = [op |-> op, input |-> input, output |-> Output(op, input)]
    PROVE  m \in Recorded /\ Repeats(m)
<1>1. CASE op \in Ops
  <2>1. ~IsMerge(op)
    BY <1>1, OperationsAssumption DEF IsMerge
  <2>2. Applies(op, input) /\ Output(op, input) = Effect[op][input]
    BY <2>1 DEF Perform, PerformEdit, Output
  <2>3. Output(op, input) \in Roots
    BY <1>1, <2>2, OpsAssumption DEF Applies
  <2> QED
    BY <1>1, <2>1, <2>2, <2>3 DEF Recorded, Repeats
<1>2. CASE /\ op \in MergeOps /\ op.source \in op.carried /\ Closed(op.carried)
           /\ Refs[op.merged] \cap d.objects \subseteq op.carried
  <2>1. IsMerge(op) /\ op.merged \in Roots
    BY <1>2 DEF IsMerge, MergeOps
  <2>2. e \in PerformMerge(d, op, input) /\ Output(op, input) = op.merged
    BY <2>1 DEF Perform, Output
  <2>3. Refs[op.merged] \subseteq
          d.objects \cup (op.carried \cup InterfacesOf(op.carried)) \cup {op.merged}
    BY <1>2, <2>2, MergePerforms
  <2>4. MergeIsWhole(op)
    BY <1>2, <2>3 DEF MergeIsWhole
  <2> QED
    BY <1>2, <2>1, <2>2, <2>4 DEF Recorded, Repeats
<1> QED
  BY <1>1, <1>2

\* Applying leaves all databases sound: see ApplyAndRecord.
LEMMA ApplySound ==
    ASSUME Inv, NEW d \in Databases, NEW b \in Branches, db[d].branches[b] # None, NEW op,
           \/ op \in Ops
           \/ /\ op \in MergeOps /\ op.source \in op.carried /\ Closed(op.carried)
              /\ Refs[op.merged] \cap db[d].objects \subseteq op.carried,
           ApplyAndRecord(d, b, op)
    PROVE  Inv'
<1> DEFINE x == db[d]
           input == x.branches[b].root
           output == Output(op, input)
           m == [op |-> op, input |-> input, output |-> output]
           history == Append(x.branches[b].history, m)
<1>1. Sound(x) /\ x \in Database /\ Stored(x)
  BY DEF Inv, Sound
<1>2. input \in Roots
  BY <1>1 DEF Database, Branch
<1>3. PICK e \in Perform(x, op, input) :
        db' = [db EXCEPT ![d] = UpdateBranch(Record(e, history, Agents[d]), b, output, history)]
  BY DEF ApplyAndRecord
<1> HIDE DEF x, input, output
<1>4. m \in Recorded /\ Repeats(m)
  BY <1>1, <1>2, <1>3, PerformedRepeats DEF x, output
<1>5. m.op = op /\ m.input = input /\ m.output = output
  OBVIOUS
<1> HIDE DEF m
<1>6. Agents[d] \in People
  BY DEF People
<1> DEFINE agent == Agents[d]
           y == UpdateBranch(Record(e, history, agent), b, output, history)
<1>7. Sound(y)
  <2> HIDE DEF agent
  <2>1. x.branches[b] # None /\ m.input = x.branches[b].root
    BY <1>5 DEF x, input
  <2>2. e \in Perform(x, m.op, m.input)
    BY <1>3, <1>5
  <2>3. agent \in People
    BY <1>6 DEF agent
  <2> QED
    BY <1>1, <1>4, <1>5, <2>1, <2>2, <2>3, GoesOn
<1> HIDE DEF y
<1>8. y \in Database
  BY <1>7 DEF Sound
<1>9. db' = [db EXCEPT ![d] = y] /\ sent' = sent
  BY <1>3 DEF y, ApplyAndRecord
<1> QED
  BY <1>7, <1>8, <1>9 DEF Inv

\* An edit leaves all databases sound: see Edit.
LEMMA EditSound ==
    ASSUME Inv, NEW d \in Databases, NEW b \in Branches, Edit(d, b)
    PROVE  Inv'
<1>1. PICK op \in Submitted[d][b] : ApplyAndRecord(d, b, op)
  BY DEF Edit
<1>2. op \in Ops /\ db[d].branches[b] # None
  BY <1>1, OperationsAssumption DEF Edit
<1> QED
  BY <1>1, <1>2, ApplySound

\* And so does a merge, which carries its source and what the merged root
\* names: see MergeBranch.
LEMMA MergeSound ==
    ASSUME Inv, NEW d \in Databases, NEW t \in Branches, NEW s \in Branches, MergeBranch(d, t, s)
    PROVE  Inv'
<1> DEFINE x == db[d]
           source == x.branches[s].root
           target == x.branches[t].root
<1>1. Sound(x) /\ x \in Database /\ x.branches[t] # None /\ x.branches[s] # None
  BY DEF Inv, Sound, MergeBranch
<1>2. /\ source \in Roots /\ target \in Roots /\ source \in x.objects
      /\ x.objects \subseteq Objects /\ Closed(x.objects)
  BY <1>1 DEF Sound, Database, Branch, BranchSound, Stored
<1>3. PICK merged \in Merged[<<target, source>>] :
        ApplyAndRecord(d, t, MergeOp(x, source, merged))
  BY DEF MergeBranch
<1>4. merged \in Roots
  BY <1>2, <1>3, OperationsAssumption
<1> DEFINE op == MergeOp(x, source, merged)
           from == {source} \cup (Refs[merged] \cap x.objects)
<1>5. Carried(x, source, merged) = Reach(StoredRefs(x), from)
  BY DEF Carried
<1>6. from \in SUBSET x.objects
  BY <1>2
<1> HIDE DEF x, source, target
<1>7. LET R == Carried(x, source, merged)
      IN  from \subseteq R /\ R \subseteq x.objects /\ Closed(R)
  <2> HIDE DEF from
  <2> QED
    BY <1>2, <1>5, <1>6, ReachStored
<1>8. /\ op.op = "merge_branch" /\ op.source = source /\ op.merged = merged
      /\ op.carried = Carried(x, source, merged)
  BY DEF MergeOp
<1>9. op \in MergeOps
  BY <1>2, <1>4, <1>7 DEF MergeOp, MergeOps
<1>10. /\ op.source \in op.carried /\ Closed(op.carried)
       /\ Refs[op.merged] \cap db[d].objects \subseteq op.carried
  BY <1>7, <1>8 DEF x
<1> HIDE DEF op
<1> QED
  BY <1>1, <1>3, <1>9, <1>10, ApplySound DEF op, x

\* A new branch is sound where it starts: see BranchSources.
LEMMA CreateSound ==
    ASSUME Inv, NEW d \in Databases, NEW b \in Branches, CreateBranch(d, b)
    PROVE  Inv'
<1> DEFINE x == db[d]
<1>1. Sound(x) /\ x \in Database /\ x.branches[b] = None
  BY DEF Inv, Sound, CreateBranch
<1>2. PICK s \in BranchSources(x) : db' = [db EXCEPT ![d].branches[b] = s]
  BY DEF CreateBranch
<1> HIDE DEF x
<1>3. s \in Branch /\ BranchSound(s, x)
  <2>1. CASE \E c \in Branches : x.branches[c] # None /\ s = x.branches[c]
    BY <1>1, <2>1 DEF Sound, Database
  <2>2. CASE \E h \in DOMAIN x.rows : s = [root |-> OutputRoot(h), history |-> h]
    <3>1. PICK h \in DOMAIN x.rows : s = [root |-> OutputRoot(h), history |-> h]
      BY <2>2
    <3>2. h \in Seq(Recorded) /\ RowSound(h, x) /\ h # <<>>
      BY <1>1, HistoryIsPresentable DEF Sound, RowSound
    <3>3. Len(h) \in 1 .. Len(h) /\ h[Len(h)] \in Recorded
      BY <3>2
    <3>4. OutputRoot(h) \in Roots /\ OutputRoot(h) \in x.objects
      BY <3>2, <3>3 DEF OutputRoot, Recorded, RowSound, Linked, Chained
    <3> QED
      BY <3>1, <3>2, <3>4 DEF Branch, BranchSound
  <2>3. CASE \E r \in RootsIn(x.objects) : s = [root |-> r, history |-> <<>>]
    <3>1. PICK r \in RootsIn(x.objects) : s = [root |-> r, history |-> <<>>]
      BY <2>3
    <3>2. r \in Roots /\ r \in x.objects
      BY <1>1, RootsAreObjects DEF Database
    <3>3. <<>> \in Seq(Recorded)
      OBVIOUS
    <3> QED
      BY <3>1, <3>2, <3>3 DEF Branch, BranchSound
  <2> QED
    BY <1>2, <2>1, <2>2, <2>3 DEF BranchSources
<1>4. b # Main
  BY <1>1 DEF Sound
<1> DEFINE y == [x EXCEPT !.branches[b] = s]
<1>5. Sound(y)
  BY <1>1, <1>3, <1>4, UpdateSound
<1>6. y \in Database
  BY <1>5 DEF Sound
<1>7. db' = [db EXCEPT ![d] = y] /\ sent' = sent
  BY <1>2 DEF CreateBranch, x
<1> HIDE DEF y
<1> QED
  BY <1>5, <1>6, <1>7 DEF Inv

\* A bundle is a document: see HistoryHeadForRoot and BundleDocument.
LEMMA BundleDocumentIs ==
    ASSUME NEW d, Sound(d), NEW root \in RootsIn(d.objects),
           NEW doc \in BundleDocuments(d, root)
    PROVE  Presentable(doc)
<1>1. PICK h \in HistoryHeadForRoot(d, root) : doc = BundleDocument(d, root, h)
  BY DEF BundleDocuments
<1>2. h = <<>> \/ (h \in DOMAIN d.rows /\ OutputRoot(h) = root)
  <2>1. \A b \in Branches : d.branches[b] # None /\ d.branches[b].history # <<>> =>
           /\ d.branches[b].history \in DOMAIN d.rows
           /\ OutputRoot(d.branches[b].history) = d.branches[b].root
    BY DEF Sound, BranchSound
  <2> DEFINE at == {b \in Branches : d.branches[b] # None /\ d.branches[b].root = root
                                       /\ d.branches[b].history # <<>>}
             recorded == {g \in DOMAIN d.rows : OutputRoot(g) = root}
             heads == {d.branches[b].history : b \in at}
  <2>2. heads \subseteq recorded
    BY <2>1
  <2>3. HistoryHeadForRoot(d, root) =
          CASE Main \in at -> {d.branches[Main].history}
            [] at \ {Main} # {} /\ Main \notin at -> heads
            [] at = {} /\ recorded # {} -> recorded
            [] OTHER -> {<<>>}
    BY DEF HistoryHeadForRoot
  <2>4. Main \in at => d.branches[Main].history \in heads
    OBVIOUS
  <2> HIDE DEF at, heads
  <2>5. \/ HistoryHeadForRoot(d, root) = {d.branches[Main].history} /\ Main \in at
        \/ HistoryHeadForRoot(d, root) = heads
        \/ HistoryHeadForRoot(d, root) = recorded
        \/ HistoryHeadForRoot(d, root) = {<<>>}
    BY <2>3
  <2> QED
    BY <1>1, <2>2, <2>4, <2>5
<1> DEFINE agents == AgentsOf(d, h)
           objects == Reach(StoredRefs(d), ClosureRoots(root, h))
<1>3. /\ h \in Seq(Recorded) /\ Repeatable(h) /\ Chained(h)
      /\ agents \in Seq(People) /\ Len(agents) = Len(h)
  BY <1>2, HistoryIsPresentable
<1>4. d.objects \in SUBSET Objects /\ Closed(d.objects)
  BY DEF Sound, Stored, Database
<1>5. root \in Roots /\ root \in d.objects
  BY <1>4, RootsAreObjects
<1>6. ClosureRoots(root, h) \in SUBSET d.objects
  <2>1. \A i \in 1 .. Len(h) : h[i].input \in d.objects /\ h[i].output \in d.objects
    <3>1. CASE h = <<>>
      BY <3>1
    <3>2. CASE h \in DOMAIN d.rows
      BY <3>2 DEF Sound, RowSound, Linked, Chained
    <3> QED
      BY <1>2, <3>1, <3>2
  <2>2. DOMAIN h = 1 .. Len(h)
    BY <1>3
  <2> QED
    BY <1>5, <2>1, <2>2 DEF ClosureRoots
<1>7. objects \in SUBSET Objects /\ objects = UNION {Below[r] : r \in ClosureRoots(root, h)}
  BY <1>4, <1>6, ReachStored
<1>8. doc = [kind |-> "bundle", branch |-> Main, root |-> root, history |-> h,
             agents |-> agents, objects |-> objects]
  BY <1>1 DEF BundleDocument
<1> HIDE DEF agents, objects
<1> QED
  BY <1>2, <1>3, <1>5, <1>7, <1>8, BranchesAssumption DEF Presentable, Document

\* Exporting changes no database: see Send.
LEMMA SendSound ==
    ASSUME Inv, NEW docs, \A doc \in docs : Presentable(doc), Send(docs)
    PROVE  Inv'
BY DEF Inv, Send

\* An import leaves all databases sound: see Import.
LEMMA ImportSound ==
    ASSUME Inv, NEW d \in Databases, Import(d)
    PROVE  Inv'
<1>1. PICK doc \in sent : \E x \in Imported(db[d], doc) : db' = [db EXCEPT ![d] = x]
  BY DEF Import
<1>2. PICK x \in Imported(db[d], doc) : db' = [db EXCEPT ![d] = x]
  BY <1>1
<1>3. Sound(db[d]) /\ Presentable(doc)
  BY DEF Inv
<1>4. Sound(x)
  BY <1>2, <1>3, ImportedSound
<1>5. x \in Database /\ sent' = sent
  BY <1>4 DEF Sound, Import
<1> QED
  BY <1>2, <1>4, <1>5 DEF Inv

\* Every step keeps every database sound.
LEMMA NextSound ==
    ASSUME Inv, [Next]_vars
    PROVE  Inv'
<1>1. CASE UNCHANGED vars
  BY <1>1 DEF Inv, vars
<1>2. CASE Next
  <2>1. PICK d \in Databases :
          \/ \E b \in Branches : Edit(d, b) \/ CreateBranch(d, b) \/ ExportHistory(d, b)
          \/ \E t \in Branches : \E s \in Branches \ {t} : MergeBranch(d, t, s)
          \/ ExportBundle(d) \/ Import(d)
    BY <1>2 DEF Next
  <2>2. CASE \E b \in Branches : Edit(d, b)
    BY <2>2, EditSound
  <2>3. CASE \E b \in Branches : CreateBranch(d, b)
    BY <2>3, CreateSound
  <2>4. CASE \E b \in Branches : ExportHistory(d, b)
    <3>1. PICK b \in Branches : db[d].branches[b] # None /\ Send({HistoryDocument(db[d], b)})
      BY <2>4 DEF ExportHistory
    <3>2. Presentable(HistoryDocument(db[d], b))
      BY <3>1, HistoryDocumentIs DEF Inv
    <3> QED
      BY <3>1, <3>2, SendSound
  <2>5. CASE \E t \in Branches : \E s \in Branches \ {t} : MergeBranch(d, t, s)
    BY <2>5, MergeSound
  <2>6. CASE ExportBundle(d)
    <3> DEFINE x == db[d]
               docs == UNION {BundleDocuments(x, r) : r \in RootsIn(x.objects)}
    <3>1. Sound(x) /\ Send(docs)
      BY <2>6 DEF ExportBundle, Inv
    <3> HIDE DEF x
    <3>2. \A doc \in docs : Presentable(doc)
      BY <3>1, BundleDocumentIs
    <3> HIDE DEF docs
    <3> QED
      BY <3>1, <3>2, SendSound
  <2>7. CASE Import(d)
    BY <2>7, ImportSound
  <2> QED
    BY <2>1, <2>2, <2>3, <2>4, <2>5, <2>6, <2>7
<1> QED
  BY <1>1, <1>2

\* Every database is always sound.
LEMMA InvHolds == Spec => []Inv
<1>1. Init => Inv
  <2> SUFFICES ASSUME Init PROVE Inv
    OBVIOUS
  <2>1. Sound(NewDatabase) /\ NewDatabase \in Database
    BY NewDatabaseSound DEF Sound
  <2> QED
    BY <2>1 DEF Init, Inv
<1>2. Inv /\ [Next]_vars => Inv'
  BY NextSound
<1> QED
  BY <1>1, <1>2, PTL DEF Spec

-----------------------------------------------------------------------------
(***************************************************************************)
(* What exports and imports give.                                          *)
(***************************************************************************)
\* All that the migrations of a document leave.
AllMade(doc) == UNION {Made(doc.history[n]) : n \in 1 .. Len(doc.history)}

\* What a replay from the empty root leaves: see Replayed.
LEMMA ReplayedIs ==
    ASSUME NEW d, Sound(d), NEW doc, Presentable(doc), NEW e \in Replayed(d, doc, EmptyRoot)
    PROVE  /\ Sound(e) /\ FromGenesis(doc) /\ e.branches = d.branches
           /\ e.rows = RowsAfter(d, doc, Len(doc.history))
           /\ e.objects = d.objects \cup AllMade(doc)
           /\ ClosureRoots(doc.root, doc.history) \subseteq e.objects
<1> DEFINE h == doc.history
           N == Len(h)
<1>1. h \in Seq(Recorded) /\ N \in Nat /\ DOMAIN h = 1 .. N
  BY DEF Presentable, Document
<1>2. EmptyRoot \in d.objects
  BY DEF Sound
<1>3. PICK s : s.db = e /\ s.root = doc.root /\ Reached(s, N, d, doc, EmptyRoot)
  BY <1>2, ReplayedSound
<1>4. /\ Sound(e) /\ e.branches = d.branches /\ doc.root \in e.objects
      /\ e.rows = RowsAfter(d, doc, N)
      /\ e.objects = d.objects \cup AllMade(doc)
  BY <1>3 DEF Reached, AllMade
<1>5. FromGenesis(doc)
  <2>1. CASE h = <<>>
    <3>1. N = 0
      BY <2>1
    <3> QED
      BY <1>3, <2>1, <3>1 DEF Reached, FromGenesis
  <2>2. CASE h # <<>>
    <3>1. N # 0
      BY <1>1, <2>2
    <3> QED
      BY <1>3, <2>2, <3>1 DEF Reached, FromGenesis
  <2> QED
    BY <2>1, <2>2
<1>6. \A i \in 1 .. N : h[i].input \in e.objects /\ h[i].output \in e.objects
  <2> SUFFICES ASSUME NEW i \in 1 .. N
               PROVE  h[i].input \in e.objects /\ h[i].output \in e.objects
    OBVIOUS
  <2>1. N \in 1 .. N /\ Prefix(h, N) = h
    BY <1>1, PrefixIs
  <2>2. h \in DOMAIN e.rows
    BY <1>4, <2>1 DEF RowsAfter
  <2> QED
    BY <1>4, <2>2 DEF Sound, RowSound, Linked
<1>7. ClosureRoots(doc.root, h) \subseteq e.objects
  BY <1>1, <1>4, <1>6 DEF ClosureRoots
<1> QED
  BY <1>4, <1>5, <1>7

\* The history of a bundle is a document too: see AsHistory.
LEMMA AsHistoryIs ==
    ASSUME NEW doc, Presentable(doc), doc.kind = "bundle"
    PROVE  LET e == AsHistory(doc)
           IN  /\ Presentable(e) /\ e.kind = "history" /\ e.branch = Main /\ e.root = doc.root
               /\ e.history = doc.history /\ e.agents = doc.agents
<1> DEFINE e == AsHistory(doc)
<1>1. doc \in Document /\ doc.branch = Main
  BY DEF Presentable
<1>2. /\ e \in Document /\ e.kind = "history" /\ e.branch = doc.branch /\ e.root = doc.root
      /\ e.history = doc.history /\ e.agents = doc.agents /\ e.objects = {}
  BY <1>1 DEF Document, AsHistory
<1> HIDE DEF e
<1>3. Presentable(e)
  BY <1>2 DEF Presentable
<1> QED
  BY <1>1, <1>2, <1>3 DEF e

\* A bundle brings nothing that its migrations do not leave: see
\* BundleDocument.
LEMMA BundleBringsMade ==
    ASSUME NEW d, Sound(d), NEW doc, Presentable(doc), doc.kind = "bundle", FromGenesis(doc)
    PROVE  doc.objects \cup InterfacesOf(doc.objects) \subseteq d.objects \cup AllMade(doc)
<1> DEFINE e == AsHistory(doc)
           roots == ClosureRoots(doc.root, doc.history)
<1>1. /\ Presentable(e) /\ e.kind = "history" /\ e.root = doc.root /\ e.history = doc.history
  BY AsHistoryIs
<1> HIDE DEF e
<1>2. FromGenesis(e)
  BY <1>1 DEF FromGenesis
<1>3. Replayed(d, e, EmptyRoot) # {}
  BY <1>1, <1>2, ReplaySucceeds
<1>4. PICK x \in Replayed(d, e, EmptyRoot) : TRUE
  BY <1>3
<1>5. Sound(x) /\ x.objects = d.objects \cup AllMade(e) /\ roots \subseteq x.objects
  BY <1>1, <1>4, ReplayedIs
<1>6. AllMade(e) = AllMade(doc)
  BY <1>1 DEF AllMade
<1>7. /\ Closed(x.objects) /\ InterfacesOf(x.objects) \subseteq x.objects
      /\ x.objects \subseteq Objects
  BY <1>5 DEF Sound, Stored, Database
<1>8. doc.objects = UNION {Below[r] : r \in roots}
  BY DEF Presentable
<1> HIDE DEF roots
<1>9. \A r \in roots : Below[r] \subseteq x.objects
  BY <1>5, <1>7, BelowIsClosure
<1>10. doc.objects \subseteq x.objects
  BY <1>8, <1>9
<1>11. InterfacesOf(doc.objects) \subseteq InterfacesOf(x.objects)
  BY <1>10 DEF InterfacesOf, RootsIn
<1> QED
  BY <1>5, <1>6, <1>7, <1>10, <1>11

\* What an import makes of a new database: see Imported.
LEMMA ImportedIs ==
    ASSUME NEW doc, Presentable(doc), NEW e \in Imported(NewDatabase, doc)
    PROVE  /\ Sound(e) /\ FromGenesis(doc) /\ doc.branch = Main
           /\ e.objects = NewDatabase.objects \cup AllMade(doc)
           /\ e.rows = RowsAfter(NewDatabase, doc, Len(doc.history))
           /\ e.branches = IF doc.history = <<>> THEN Absent
                           ELSE [Absent EXCEPT ![Main] = [root |-> doc.root, history |-> doc.history]]
           /\ ClosureRoots(doc.root, doc.history) \subseteq e.objects
<1> DEFINE new == NewDatabase
<1>1. Sound(new) /\ new.branches = Absent
  BY NewDatabaseSound
<1>2. Sound(e)
  BY <1>1, ImportedSound
<1> HIDE DEF new
<1>3. ASSUME NEW c, Sound(c), c.branches = Absent, c.rows = new.rows,
             NEW x \in Replayed(c, doc, EmptyRoot), e = MovedMain(x, doc)
      PROVE  /\ FromGenesis(doc) /\ e.objects = c.objects \cup AllMade(doc)
             /\ e.rows = RowsAfter(new, doc, Len(doc.history))
             /\ e.branches = IF doc.history = <<>> THEN Absent
                             ELSE [Absent EXCEPT ![Main] = [root |-> doc.root, history |-> doc.history]]
             /\ ClosureRoots(doc.root, doc.history) \subseteq e.objects
  <2>1. /\ Sound(x) /\ FromGenesis(doc) /\ x.branches = Absent
        /\ x.rows = RowsAfter(c, doc, Len(doc.history))
        /\ x.objects = c.objects \cup AllMade(doc)
        /\ ClosureRoots(doc.root, doc.history) \subseteq x.objects
    BY <1>3, ReplayedIs
  <2>2. x.rows = RowsAfter(new, doc, Len(doc.history))
    BY <1>3, <2>1 DEF RowsAfter
  <2>3. CASE doc.history = <<>>
    <3>1. e = x
      BY <1>3, <2>3 DEF MovedMain
    <3> QED
      BY <2>1, <2>2, <2>3, <3>1
  <2>4. CASE doc.history # <<>>
    <3> DEFINE branches == [x.branches EXCEPT ![Main] = [root |-> doc.root, history |-> doc.history]]
    <3>1. e = [x EXCEPT !.branches = branches] /\ x \in Database
      BY <1>3, <2>1, <2>4 DEF MovedMain, UpdateBranch, Sound, Database
    <3>2. branches = [Absent EXCEPT ![Main] = [root |-> doc.root, history |-> doc.history]]
      BY <2>1
    <3> HIDE DEF branches
    <3>3. e.objects = x.objects /\ e.rows = x.rows /\ e.branches = branches
      BY <3>1 DEF Database
    <3> QED
      BY <2>1, <2>2, <2>4, <3>2, <3>3
  <2> QED
    BY <2>3, <2>4
<1>4. CASE doc.kind = "bundle"
  <2>1. PICK c \in StoreAndIndex(new, doc.objects) :
          \E x \in Replayed(c, doc, EmptyRoot) : e = MovedMain(x, doc)
    BY <1>4 DEF Imported, ImportedBundle, new
  <2>2. PICK x \in Replayed(c, doc, EmptyRoot) : e = MovedMain(x, doc)
    BY <2>1
  <2>3. new \in Database /\ Stored(new) /\ doc.objects \in SUBSET Objects
    BY <1>1 DEF Sound, Presentable, Document
  <2>4. Closed(new.objects \cup doc.objects)
    BY <1>4, <2>3, BundleIsClosed DEF Closed, Stored
  <2>5. /\ Grown(new, c)
        /\ c.objects = new.objects \cup doc.objects \cup InterfacesOf(doc.objects)
    <3> DEFINE brought == doc.objects
    <3> HIDE DEF brought
    <3>1. /\ new \in Database /\ Stored(new) /\ brought \in SUBSET Objects
          /\ Closed(new.objects \cup brought) /\ c \in StoreAndIndex(new, brought)
      BY <2>1, <2>3, <2>4 DEF brought
    <3>2. PICK y \in Database :
            /\ StoreAndIndex(new, brought) = {y} /\ Stored(y)
            /\ y.objects = new.objects \cup brought \cup InterfacesOf(brought)
            /\ y.rows = new.rows /\ y.branches = new.branches
      BY ONLY <3>1, StoreAndIndexSound
    <3> QED
      BY <3>1, <3>2 DEF Grown, brought
  <2>6. Sound(c) /\ c.branches = Absent /\ c.rows = new.rows
    BY <1>1, <2>5, GrownSound DEF Grown
  <2>7. /\ FromGenesis(doc) /\ e.objects = c.objects \cup AllMade(doc)
        /\ e.rows = RowsAfter(new, doc, Len(doc.history))
        /\ e.branches = IF doc.history = <<>> THEN Absent
                        ELSE [Absent EXCEPT ![Main] = [root |-> doc.root, history |-> doc.history]]
        /\ ClosureRoots(doc.root, doc.history) \subseteq e.objects
    BY <1>3, <2>2, <2>6
  <2>8. doc.objects \cup InterfacesOf(doc.objects) \subseteq new.objects \cup AllMade(doc)
    BY <1>1, <1>4, <2>7, BundleBringsMade
  <2>9. e.objects = new.objects \cup AllMade(doc)
    BY <2>5, <2>7, <2>8
  <2>10. doc.branch = Main
    BY <1>4 DEF Presentable
  <2> QED
    BY <1>2, <2>7, <2>9, <2>10 DEF new
<1>5. CASE doc.kind # "bundle"
  <2>1. /\ new.branches[Main].history = <<>> /\ doc.branch = Main
        /\ \E x \in Replayed(new, doc, new.branches[Main].root) : e = MovedMain(x, doc)
    BY <1>5 DEF Imported, ImportedHistory, new
  <2>2. new.branches[Main].root = EmptyRoot
    BY <1>1, <2>1 DEF Sound, MainSound
  <2>3. PICK x \in Replayed(new, doc, EmptyRoot) : e = MovedMain(x, doc)
    BY <2>1, <2>2
  <2>4. /\ FromGenesis(doc) /\ e.objects = new.objects \cup AllMade(doc)
        /\ e.rows = RowsAfter(new, doc, Len(doc.history))
        /\ e.branches = IF doc.history = <<>> THEN Absent
                        ELSE [Absent EXCEPT ![Main] = [root |-> doc.root, history |-> doc.history]]
        /\ ClosureRoots(doc.root, doc.history) \subseteq e.objects
    BY <1>1, <1>3, <2>3
  <2> QED
    BY <1>2, <2>1, <2>4 DEF new
<1> QED
  BY <1>4, <1>5

\* Sound databases with the same objects, rows and branches are the same.
LEMMA SameDatabase ==
    ASSUME NEW d, Sound(d), NEW e, Sound(e),
           d.objects = e.objects, d.rows = e.rows, d.branches = e.branches
    PROVE  d = e
<1>1. d.edges = e.edges /\ d.indexed = e.indexed
  BY DEF Sound, Stored
<1>2. d \in Database /\ e \in Database
  BY DEF Sound
<1> QED
  BY <1>1, <1>2 DEF Database

\* A document can be imported where nothing keeps it out, when the check of a
\* bundle's closure follows all that there is below a root: see Imported.
LEMMA ImportSucceeds ==
    ASSUME FollowsAll, NEW d, Sound(d), NEW doc, Presentable(doc), FromGenesis(doc), Takes(d, doc)
    PROVE  Imported(d, doc) # {}
<1>1. CASE doc.kind = "bundle"
  <2> DEFINE brought == doc.objects
             roots == ClosureRoots(doc.root, doc.history)
  <2>1. roots \subseteq Roots
    BY <1>1, BundleIsClosed
  <2>2. UNION {BundleBelow[r] : r \in roots} = UNION {Below[r] : r \in roots}
    <3> HIDE DEF roots
    <3> QED
      BY <2>1 DEF FollowsAll
  <2>3. ClosureIsExact(doc)
    BY <1>1, <2>2 DEF ClosureIsExact, Presentable
  <2>4. d \in Database /\ Stored(d) /\ brought \in SUBSET Objects
    BY DEF Sound, Presentable, Document
  <2>5. Closed(d.objects \cup brought)
    BY <1>1, <2>4, BundleIsClosed DEF Closed, Stored
  <2>6. PICK c \in Database :
          /\ StoreAndIndex(d, brought) = {c} /\ Stored(c)
          /\ c.objects = d.objects \cup brought \cup InterfacesOf(brought)
          /\ c.rows = d.rows /\ c.branches = d.branches
    <3> HIDE DEF brought
    <3> QED
      BY ONLY <2>4, <2>5, StoreAndIndexSound
  <2>7. Sound(c)
    BY <2>6, GrownSound DEF Grown
  <2>8. \A i \in DOMAIN doc.history : ~Conflicts(c, doc, i)
    BY <1>1, <2>6 DEF Takes, Conflicts
  <2>9. Replayed(c, doc, EmptyRoot) # {}
    BY <2>7, <2>8, ReplaySucceeds
  <2> QED
    BY <1>1, <2>3, <2>6, <2>9 DEF Imported, ImportedBundle
<1>2. CASE doc.kind # "bundle"
  <2>1. doc.branch = Main /\ d.branches[Main].history = <<>>
    BY <1>2 DEF Takes
  <2>2. d.branches[Main].root = EmptyRoot
    BY <2>1 DEF Sound, MainSound
  <2>3. Replayed(d, doc, EmptyRoot) # {}
    BY <1>2, ReplaySucceeds
  <2> QED
    BY <1>2, <2>1, <2>2, <2>3 DEF Imported, ImportedHistory
<1> QED
  BY <1>1, <1>2

\* Who recorded the migrations of an imported document is as it says: see
\* AgentsOf.
LEMMA AgentsComeBack ==
    ASSUME NEW doc, Presentable(doc), NEW e,
           e.rows = RowsAfter(NewDatabase, doc, Len(doc.history))
    PROVE  AgentsOf(e, doc.history) = doc.agents
<1> DEFINE h == doc.history
           N == Len(h)
<1>1. /\ h \in Seq(Recorded) /\ N \in Nat /\ DOMAIN h = 1 .. N
      /\ doc.agents \in Seq(People) /\ Len(doc.agents) = N
  BY DEF Presentable, Document
<1>2. DOMAIN NewDatabase.rows = {}
  BY NewDatabaseSound
<1>3. \A i \in 1 .. N : e.rows[Prefix(h, i)] = doc.agents[i]
  <2> SUFFICES ASSUME NEW i \in 1 .. N PROVE e.rows[Prefix(h, i)] = doc.agents[i]
    OBVIOUS
  <2> DEFINE p == Prefix(h, i)
             ps == {Prefix(h, n) : n \in 1 .. N}
  <2>1. Len(p) = i
    BY <1>1, PrefixIs
  <2>2. p \in ps
    OBVIOUS
  <2>3. e.rows = [g \in DOMAIN NewDatabase.rows \cup ps |->
                    IF g \in DOMAIN NewDatabase.rows THEN NewDatabase.rows[g] ELSE doc.agents[Len(g)]]
    BY DEF RowsAfter
  <2> HIDE DEF p, ps
  <2>4. e.rows[p] = doc.agents[Len(p)]
    BY <1>2, <2>2, <2>3
  <2> QED
    BY <2>1, <2>4 DEF p
<1>4. AgentsOf(e, h) = [i \in 1 .. N |-> e.rows[Prefix(h, i)]]
  BY <1>1 DEF AgentsOf
<1>5. doc.agents = [i \in 1 .. N |-> doc.agents[i]]
  BY <1>1
<1> QED
  BY <1>3, <1>4, <1>5

\* A document is exported again from the new database that it was imported
\* into: see HistoryDocument and BundleDocument.
LEMMA ComesBack ==
    ASSUME NEW doc, Presentable(doc), NEW d \in Imported(NewDatabase, doc)
    PROVE  Again(d, doc) = {doc}
<1> DEFINE h == doc.history
           main == [root |-> doc.root, history |-> h]
           agents == AgentsOf(d, h)
<1>1. /\ Sound(d) /\ FromGenesis(doc) /\ doc.branch = Main
      /\ d.rows = RowsAfter(NewDatabase, doc, Len(h))
      /\ d.branches = IF h = <<>> THEN Absent ELSE [Absent EXCEPT ![Main] = main]
      /\ ClosureRoots(doc.root, h) \subseteq d.objects
  BY ImportedIs
<1>2. agents = doc.agents
  BY <1>1, AgentsComeBack
<1>3. doc \in Document
  BY DEF Presentable
<1>4. d.branches[Main] = main
  <2>1. CASE h = <<>>
    <3>1. d.branches[Main] = [root |-> EmptyRoot, history |-> <<>>]
      BY <1>1, <2>1, BranchesAssumption DEF Absent
    <3>2. doc.root = EmptyRoot
      BY <1>1, <2>1 DEF FromGenesis
    <3> QED
      BY <2>1, <3>1, <3>2
  <2>2. CASE h # <<>>
    BY <1>1, <2>2, BranchesAssumption DEF Absent
  <2> QED
    BY <2>1, <2>2
<1>5. \A b \in Branches \ {Main} : d.branches[b] = None
  BY <1>1 DEF Absent
<1>6. CASE doc.kind = "bundle"
  <2> DEFINE reached == Reach(StoredRefs(d), ClosureRoots(doc.root, h))
             at == {b \in Branches : d.branches[b] # None /\ d.branches[b].root = doc.root
                                       /\ d.branches[b].history # <<>>}
             recorded == {g \in DOMAIN d.rows : OutputRoot(g) = doc.root}
  <2>1. HistoryHeadForRoot(d, doc.root) =
          CASE Main \in at -> {d.branches[Main].history}
            [] at \ {Main} # {} /\ Main \notin at -> {d.branches[b].history : b \in at}
            [] at = {} /\ recorded # {} -> recorded
            [] OTHER -> {<<>>}
    BY DEF HistoryHeadForRoot
  <2>2. main # None
    BY <1>1, <1>4 DEF Sound
  <2>3. HistoryHeadForRoot(d, doc.root) = {h}
    <3>1. CASE h # <<>>
      <4>1. Main \in at
        BY <1>4, <2>2, <3>1, BranchesAssumption
      <4> HIDE DEF at, recorded
      <4>2. HistoryHeadForRoot(d, doc.root) = {d.branches[Main].history}
        BY <2>1, <4>1
      <4> QED
        BY <1>4, <4>2
    <3>2. CASE h = <<>>
      <4>1. at = {}
        BY <1>4, <1>5, <3>2
      <4>2. recorded = {}
        <5>1. DOMAIN NewDatabase.rows = {} /\ Len(h) = 0
          BY <3>2, NewDatabaseSound
        <5>2. DOMAIN d.rows = DOMAIN NewDatabase.rows \cup {Prefix(h, n) : n \in 1 .. Len(h)}
          BY <1>1 DEF RowsAfter
        <5> QED
          BY <5>1, <5>2
      <4> HIDE DEF at, recorded
      <4>3. HistoryHeadForRoot(d, doc.root) = {<<>>}
        BY <2>1, <4>1, <4>2
      <4> QED
        BY <3>2, <4>3
    <3> QED
      BY <3>1, <3>2
  <2>4. Again(d, doc) = {BundleDocument(d, doc.root, h)}
    BY <1>6, <2>3 DEF Again, BundleDocuments
  <2>5. reached = doc.objects
    <3>1. reached = UNION {Below[x] : x \in ClosureRoots(doc.root, h)}
      <4> DEFINE from == ClosureRoots(doc.root, h)
      <4>1. d.objects \subseteq Objects /\ Closed(d.objects) /\ from \in SUBSET d.objects
        BY <1>1 DEF Sound, Stored, Database
      <4> HIDE DEF from
      <4>2. Reach(StoredRefs(d), from) = UNION {Below[x] : x \in from}
        BY <4>1, ReachStored
      <4> QED
        BY <4>2 DEF from
    <3> QED
      BY <1>6, <3>1 DEF Presentable
  <2>6. BundleDocument(d, doc.root, h) =
          [kind |-> "bundle", branch |-> Main, root |-> doc.root, history |-> h,
           agents |-> agents, objects |-> reached]
    BY DEF BundleDocument
  <2> HIDE DEF reached, agents
  <2>7. BundleDocument(d, doc.root, h) = doc
    BY <1>1, <1>2, <1>3, <1>6, <2>5, <2>6 DEF Document
  <2> QED
    BY <2>4, <2>7
<1>7. CASE doc.kind # "bundle"
  <2>1. Again(d, doc) = {HistoryDocument(d, Main)}
    BY <1>7 DEF Again
  <2>2. doc.kind = "history" /\ doc.objects = {}
    BY <1>3, <1>7 DEF Presentable, Document
  <2>3. HistoryDocument(d, Main) =
          [kind |-> "history", branch |-> Main, root |-> doc.root, history |-> h,
           agents |-> agents, objects |-> {}]
    BY <1>4 DEF HistoryDocument
  <2> HIDE DEF agents
  <2>4. HistoryDocument(d, Main) = doc
    BY <1>1, <1>2, <1>3, <2>2, <2>3 DEF Document
  <2> QED
    BY <2>1, <2>4
<1> QED
  BY <1>6, <1>7

\* A bundle leaves in a new database what its history would: see Imported.
LEMMA LeavesTheSame ==
    ASSUME NEW doc, Presentable(doc), doc.kind = "bundle", NEW d \in Imported(NewDatabase, doc)
    PROVE  Imported(NewDatabase, AsHistory(doc)) = {d}
<1> DEFINE e == AsHistory(doc)
           new == NewDatabase
<1>1. /\ Presentable(e) /\ e.kind = "history" /\ e.branch = Main /\ e.root = doc.root
      /\ e.history = doc.history /\ e.agents = doc.agents
  BY AsHistoryIs
<1>2. /\ Sound(d) /\ FromGenesis(doc)
      /\ d.objects = new.objects \cup AllMade(doc)
      /\ d.rows = RowsAfter(new, doc, Len(doc.history))
      /\ d.branches = IF doc.history = <<>> THEN Absent
                      ELSE [Absent EXCEPT ![Main] = [root |-> doc.root, history |-> doc.history]]
  BY ImportedIs
<1>3. Sound(new) /\ new.branches = Absent
  BY NewDatabaseSound
<1> HIDE DEF e
<1>4. ASSUME NEW x \in Imported(NewDatabase, e) PROVE x = d
  <2>1. /\ Sound(x)
        /\ x.objects = new.objects \cup AllMade(e)
        /\ x.rows = RowsAfter(new, e, Len(e.history))
        /\ x.branches = IF e.history = <<>> THEN Absent
                        ELSE [Absent EXCEPT ![Main] = [root |-> e.root, history |-> e.history]]
    BY <1>1, ImportedIs
  <2> HIDE DEF new
  <2>2. AllMade(e) = AllMade(doc) /\ RowsAfter(new, e, Len(e.history)) = RowsAfter(new, doc, Len(doc.history))
    BY <1>1 DEF AllMade, RowsAfter
  <2>3. x.objects = d.objects /\ x.rows = d.rows /\ x.branches = d.branches
    BY <1>1, <1>2, <2>1, <2>2
  <2> QED
    BY <1>2, <2>1, <2>3, SameDatabase
<1>5. Imported(NewDatabase, e) # {}
  <2>1. FromGenesis(e)
    BY <1>1, <1>2 DEF FromGenesis
  <2>2. Replayed(new, e, EmptyRoot) # {}
    BY <1>1, <1>3, <2>1, ReplaySucceeds
  <2>3. new.branches[Main] = [root |-> EmptyRoot, history |-> <<>>]
    BY <1>3, BranchesAssumption DEF Absent
  <2> QED
    BY <1>1, <2>2, <2>3 DEF Imported, ImportedHistory
<1> QED
  BY <1>4, <1>5 DEF e

-----------------------------------------------------------------------------
(***************************************************************************)
(* The theorems.                                                           *)
(***************************************************************************)
\* `codedb verify` finds nothing wrong with a database, whatever was edited,
\* merged, exported and imported: its objects are complete, its edges and
\* indexes exact, its histories linked, and its main branch can be replayed
\* (verify.rs, verify).
THEOREM DatabasesVerify == Spec => []VerifyClean
<1>1. Inv => VerifyClean
  BY SoundVerifies DEF Inv, VerifyClean
<1> QED
  BY <1>1, InvHolds, PTL

\* Every document that starts where databases do can be imported into a new
\* database, and into any that nothing keeps from it, at any later time,
\* provided that the closure check follows every field through which a root
\* reaches an object (bundle.rs, import_bundle).
THEOREM ExportsImport ==
    ASSUME FollowsAll
    PROVE  Spec => []DocumentsImport
<1>1. Inv => DocumentsImport
  <2> SUFFICES ASSUME Inv, NEW doc \in sent, FromGenesis(doc),
                      NEW d \in {NewDatabase} \cup {db[x] : x \in Databases}, Takes(d, doc)
               PROVE  Imported(d, doc) # {}
    BY DEF DocumentsImport
  <2>1. Sound(d)
    BY NewDatabaseSound DEF Inv
  <2>2. Presentable(doc)
    BY DEF Inv
  <2> QED
    BY <2>1, <2>2, ImportSucceeds
<1> QED
  BY <1>1, InvHolds, PTL

\* Exporting again what was imported into a new database gives the document
\* back: the same migrations by the same agents, and the same objects
\* (migrations.rs, export_history; bundle.rs, export_bundle).
THEOREM ExportsComeBack == Spec => []RoundTrip
<1>1. Inv => RoundTrip
  BY ComesBack DEF Inv, RoundTrip
<1> QED
  BY <1>1, InvHolds, PTL

\* A bundle leaves in a new database exactly what its history would: the
\* objects that it brings are those that replaying makes (bundle.rs,
\* import_bundle; migrations.rs, import_history).
THEOREM BundlesAddNothing == Spec => []ImportsAgree
<1>1. Inv => ImportsAgree
  BY LeavesTheSame DEF Inv, ImportsAgree
<1> QED
  BY <1>1, InvHolds, PTL
=============================================================================
