----------------------------- MODULE Induction -----------------------------
(***************************************************************************)
(* Induction without a schema: the least element of a set of natural       *)
(* numbers, from the well-foundedness of the finite sets 0 .. n under      *)
(* inclusion, and what it says of functions defined by recursion.          *)
(***************************************************************************)
EXTENDS FiniteSetTheorems, WellFoundedInduction, TLAPS

(***************************************************************************)
(* The least-number principle.                                             *)
(***************************************************************************)
LEMMA LeastElement ==
    ASSUME NEW T \in SUBSET Nat, T # {}
    PROVE  \E x \in T : \A y \in T : x <= y
<1> DEFINE Below(n) == 0 .. n
           B == {Below(n) : n \in T}
           R == StrictSubsetOrdering(Nat)
           F == FiniteSubsetsOf(Nat)
<1>1. B \subseteq F
  <2>1. \A n \in T : Below(n) \in SUBSET Nat /\ IsFiniteSet(Below(n))
    BY FS_Interval
  <2> QED
    BY <2>1 DEF FiniteSubsetsOf
<1>2. B # {}
  OBVIOUS
<1>3. IsWellFoundedOn(R, F)
  BY FS_StrictSubsetOrderingWellFounded
<1> HIDE DEF R, F, B
<1>4. \E m \in B : \A b \in B : <<b, m>> \notin R
  BY <1>1, <1>2, <1>3, WFMin
<1>5. PICK x \in T : \A b \in B : <<b, Below(x)>> \notin R
  BY <1>4 DEF B
<1>6. ASSUME NEW y \in T, ~(x <= y) PROVE FALSE
  <2>1. Below(y) \in SUBSET Nat /\ Below(x) \in SUBSET Nat
    OBVIOUS
  <2>2. Below(y) \subseteq Below(x) /\ Below(y) # Below(x)
    BY <1>6
  <2>3. <<Below(y), Below(x)>> \in R
    BY <2>1, <2>2 DEF R, StrictSubsetOrdering
  <2> QED
    BY <1>5, <2>3 DEF B
<1> QED
  BY <1>6

(***************************************************************************)
(* What holds of 0, and of a number when it holds of the one before it,    *)
(* holds of every number up to n.  The property is the set S of the        *)
(* numbers that have it.                                                   *)
(***************************************************************************)
LEMMA BoundedInduction ==
    ASSUME NEW n \in Nat, NEW S, 0 \in S,
           \A k \in 1 .. n : k - 1 \in S => k \in S
    PROVE  \A k \in 0 .. n : k \in S
<1> DEFINE T == {k \in 0 .. n : k \notin S}
<1> SUFFICES ASSUME T # {} PROVE FALSE
  OBVIOUS
<1>0. T \in SUBSET Nat
  OBVIOUS
<1> HIDE DEF T
<1>1. PICK x \in T : \A y \in T : x <= y
  BY <1>0, LeastElement
<1> USE DEF T
<1>2. x \in 1 .. n /\ x - 1 \in 0 .. n /\ x - 1 \notin T
  BY <1>1
<1> QED
  BY <1>2

-----------------------------------------------------------------------------
(* Functions on the natural numbers, and what is collected along them.     *)

(***************************************************************************)
(* step can be carried out any number of times from start: there is a      *)
(* function that gives what comes of it.                                   *)
(***************************************************************************)
LEMMA Iteration ==
    ASSUME NEW U, NEW start \in U, NEW step \in [U -> U]
    PROVE  \E f \in [Nat -> U] :
              f[0] = start /\ \A n \in Nat : f[n + 1] = step[f[n]]
<1> DEFINE Upto(n, f) ==
             /\ f \in [0 .. n -> U]
             /\ f[0] = start
             /\ \A k \in 1 .. n : f[k] = step[f[k - 1]]
           S == {n \in Nat : \E f : Upto(n, f)}
<1>1. \A n \in Nat : n \in S
  <2> SUFFICES ASSUME NEW n \in Nat PROVE n \in S
    OBVIOUS
  <2>1. 0 \in S
    <3>1. Upto(0, [k \in 0 .. 0 |-> start])
      OBVIOUS
    <3> QED
      BY <3>1
  <2>2. \A k \in 1 .. n : k - 1 \in S => k \in S
    <3> SUFFICES ASSUME NEW k \in 1 .. n, k - 1 \in S PROVE k \in S
      OBVIOUS
    <3>1. PICK f : Upto(k - 1, f)
      OBVIOUS
    <3> DEFINE g == [j \in 0 .. k |-> IF j = k THEN step[f[k - 1]] ELSE f[j]]
    <3>2. f[k - 1] \in U
      BY <3>1
    <3>3. g \in [0 .. k -> U] /\ g[0] = start
      BY <3>1, <3>2
    <3>4. \A j \in 1 .. k : g[j] = step[g[j - 1]]
      BY <3>1
    <3> HIDE DEF g
    <3>5. Upto(k, g)
      BY <3>3, <3>4
    <3> HIDE DEF Upto
    <3> QED
      BY <3>5
  <2> HIDE DEF S
  <2> QED
    BY <2>1, <2>2, BoundedInduction
<1> DEFINE A == [n \in Nat |-> CHOOSE f : Upto(n, f)]
<1>2. \A n \in Nat : Upto(n, A[n])
  BY <1>1
<1> HIDE DEF A, S
<1>3. ASSUME NEW n \in Nat PROVE A[n + 1][n] = A[n][n]
  <2> DEFINE T == {k \in 0 .. n : A[n + 1][k] = A[n][k]}
  <2>0. n + 1 \in Nat
    OBVIOUS
  <2>1. Upto(n, A[n]) /\ Upto(n + 1, A[n + 1])
    BY <1>2, <2>0
  <2>2. 0 \in T
    BY <2>1
  <2>3. \A k \in 1 .. n : k - 1 \in T => k \in T
    BY <2>1
  <2>4. n \in T
    <3> HIDE DEF T
    <3> QED
      BY <2>2, <2>3, BoundedInduction
  <2> QED
    BY <2>4
<1> DEFINE F == [n \in Nat |-> A[n][n]]
<1>4. F \in [Nat -> U] /\ F[0] = start
  BY <1>2
<1>5. ASSUME NEW n \in Nat PROVE F[n + 1] = step[F[n]]
  <2>1. Upto(n + 1, A[n + 1]) /\ n + 1 \in 1 .. n + 1 /\ (n + 1) - 1 = n
    BY <1>2
  <2>2. A[n + 1][n + 1] = step[A[n + 1][n]]
    BY <2>1
  <2> QED
    BY <1>3, <2>2
<1> QED
  BY <1>4, <1>5
(***************************************************************************)
(* What a search finds that takes in all successors of what it has, one    *)
(* round after the other.                                                  *)
(***************************************************************************)
Rounds(D, start, succ, seen) ==
    /\ seen[0] = {start}
    /\ \A n \in Nat :
          seen[n] \subseteq D =>
              seen[n + 1] = seen[n] \cup UNION {succ[s] : s \in seen[n]}

(***************************************************************************)
(* There is such a search.                                                 *)
(***************************************************************************)
LEMMA SearchExists ==
    ASSUME NEW D, NEW start \in D, NEW succ \in [D -> SUBSET D]
    PROVE  \E seen \in [Nat -> SUBSET D] : Rounds(D, start, succ, seen)
<1> DEFINE U == SUBSET D
           round == [X \in U |-> X \cup UNION {succ[s] : s \in X}]
           first == {start}
<1>1. round \in [U -> U]
  OBVIOUS
<1>2. first \in U
  OBVIOUS
<1>3. PICK f \in [Nat -> U] :
        f[0] = first /\ \A n \in Nat : f[n + 1] = round[f[n]]
  <2> HIDE DEF U, round, first
  <2> QED
    BY <1>1, <1>2, Iteration
<1>4. \A n \in Nat : f[n] \in SUBSET D
  OBVIOUS
<1>5. \A n \in Nat : f[n + 1] = f[n] \cup UNION {succ[s] : s \in f[n]}
  BY <1>3, <1>4
<1> QED
  BY <1>3, <1>5 DEF Rounds

(***************************************************************************)
(* It stays in its domain and loses nothing.                               *)
(***************************************************************************)
LEMMA SearchTyped ==
    ASSUME NEW D, NEW start \in D, NEW succ \in [D -> SUBSET D],
           NEW seen, Rounds(D, start, succ, seen), NEW n \in Nat
    PROVE  /\ seen[n] \subseteq D
           /\ seen[n + 1] = seen[n] \cup UNION {succ[s] : s \in seen[n]}
<1> DEFINE S == {k \in Nat : seen[k] \subseteq D}
<1>1. 0 \in S
  BY DEF Rounds
<1>2. \A k \in 1 .. n : k - 1 \in S => k \in S
  <2> SUFFICES ASSUME NEW k \in 1 .. n, k - 1 \in S PROVE k \in S
    OBVIOUS
  <2>1. k - 1 \in Nat /\ (k - 1) + 1 = k /\ seen[k - 1] \subseteq D
    OBVIOUS
  <2>2. seen[k] = seen[k - 1] \cup UNION {succ[s] : s \in seen[k - 1]}
    BY <2>1 DEF Rounds
  <2>3. UNION {succ[s] : s \in seen[k - 1]} \subseteq D
    BY <2>1
  <2> QED
    BY <2>1, <2>2, <2>3
<1>3. n \in S
  <2> HIDE DEF S
  <2> QED
    BY <1>1, <1>2, BoundedInduction
<1> QED
  BY <1>3 DEF Rounds

(***************************************************************************)
(* After as many rounds as there are elements it has found all there is to *)
(* find, and nothing that is not to be found: its result is the least set  *)
(* with the start that is closed under succ.                               *)
(***************************************************************************)
LEMMA SearchIsLeastClosure ==
    ASSUME NEW D, IsFiniteSet(D), NEW start \in D, NEW succ \in [D -> SUBSET D],
           NEW seen, Rounds(D, start, succ, seen),
           NEW C, C = seen[Cardinality(D)]
    PROVE  /\ C \subseteq D
           /\ start \in C
           /\ \A s \in C : succ[s] \subseteq C
           /\ \A X : start \in X /\ (\A s \in X \cap C : succ[s] \subseteq X) => C \subseteq X
<1> DEFINE N == Cardinality(D)
<1>1. N \in Nat
  BY FS_CardinalityType
<1>2. \A n \in Nat :
         /\ seen[n] \subseteq D
         /\ seen[n + 1] = seen[n] \cup UNION {succ[s] : s \in seen[n]}
  BY SearchTyped
<1>3. seen[0] = {start}
  BY DEF Rounds
<1>4. \A n \in Nat : IsFiniteSet(seen[n]) /\ Cardinality(seen[n]) \in Nat
                    /\ Cardinality(seen[n]) <= N
  BY <1>2, FS_Subset, FS_CardinalityType
<1> HIDE DEF N
<1>5. seen[N + 1] = seen[N]
  <2> DEFINE S == {n \in Nat : seen[n + 1] = seen[n] \/ Cardinality(seen[n]) > n}
  <2>1. 0 \in S
    <3>1. Cardinality(seen[0]) = 1
      BY <1>3, FS_Singleton
    <3> QED
      BY <3>1
  <2>2. \A k \in 1 .. N : k - 1 \in S => k \in S
    <3> SUFFICES ASSUME NEW k \in 1 .. N, k - 1 \in S PROVE k \in S
      OBVIOUS
    <3>1. k \in Nat /\ k - 1 \in Nat /\ (k - 1) + 1 = k
      BY <1>1
    <3>2. CASE seen[k] = seen[k - 1]
      <4>1. seen[k + 1] = seen[(k - 1) + 1]
        BY <1>2, <3>1, <3>2
      <4> QED
        BY <3>1, <3>2, <4>1
    <3>3. CASE seen[k] # seen[k - 1]
      <4>1. Cardinality(seen[k - 1]) > k - 1
        BY <3>1, <3>3
      <4>2. seen[k - 1] \in SUBSET seen[k]
        BY <1>2, <3>1
      <4>3. /\ Cardinality(seen[k - 1]) <= Cardinality(seen[k])
            /\ Cardinality(seen[k]) # Cardinality(seen[k - 1])
        BY <1>4, <3>1, <3>3, <4>2, FS_Subset
      <4>4. Cardinality(seen[k]) \in Nat /\ Cardinality(seen[k - 1]) \in Nat
        BY <1>4, <3>1
      <4>5. Cardinality(seen[k]) > k
        BY <3>1, <4>1, <4>3, <4>4
      <4> QED
        BY <3>1, <4>5
    <3> QED
      BY <3>2, <3>3
  <2>3. N \in S
    <3> HIDE DEF S
    <3> QED
      BY <1>1, <2>1, <2>2, BoundedInduction
  <2> QED
    BY <1>1, <1>4, <2>3
<1>6. start \in C
  <2> DEFINE S == {n \in Nat : start \in seen[n]}
  <2>1. 0 \in S
    BY <1>3
  <2>2. \A k \in 1 .. N : k - 1 \in S => k \in S
    <3> SUFFICES ASSUME NEW k \in 1 .. N, k - 1 \in S PROVE k \in S
      OBVIOUS
    <3>1. k \in Nat /\ k - 1 \in Nat /\ (k - 1) + 1 = k
      BY <1>1
    <3> QED
      BY <1>2, <3>1
  <2>3. N \in S
    <3> HIDE DEF S
    <3> QED
      BY <1>1, <2>1, <2>2, BoundedInduction
  <2> QED
    BY <2>3 DEF N
<1>7. \A s \in C : succ[s] \subseteq C
  BY <1>1, <1>2, <1>5 DEF N
<1>8. ASSUME NEW X, start \in X, \A s \in X \cap C : succ[s] \subseteq X
      PROVE  C \subseteq X
  <2> DEFINE S == {n \in Nat : seen[n] \subseteq X \cap C}
  <2>1. 0 \in S
    BY <1>3, <1>6, <1>8
  <2>2. \A k \in 1 .. N : k - 1 \in S => k \in S
    <3> SUFFICES ASSUME NEW k \in 1 .. N, k - 1 \in S PROVE k \in S
      OBVIOUS
    <3>1. k \in Nat /\ k - 1 \in Nat /\ (k - 1) + 1 = k
      BY <1>1
    <3>2. seen[k] = seen[k - 1] \cup UNION {succ[s] : s \in seen[k - 1]}
      BY <1>2, <3>1
    <3>3. \A s \in seen[k - 1] : succ[s] \subseteq X \cap C
      BY <1>7, <1>8, <3>1
    <3> QED
      BY <3>1, <3>2, <3>3
  <2>3. N \in S
    <3> HIDE DEF S
    <3> QED
      BY <1>1, <2>1, <2>2, BoundedInduction
  <2> QED
    BY <2>3 DEF N
<1> QED
  BY <1>1, <1>2, <1>6, <1>7, <1>8 DEF N
=============================================================================
