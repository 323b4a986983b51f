------------------------------- MODULE Recursion -------------------------------
(***************************************************************************)
(* Induction over the numbers, and what it takes to reason about recursive *)
(* functions: that one exists, so that its definition, which chooses it,   *)
(* can be unfolded.  Sets and functions take the place of predicates and   *)
(* operators.                                                              *)
(***************************************************************************)
EXTENDS Integers, WellFoundedInduction, TLAPS

(* Every set of numbers has a least one. *)
LEMMA LeastNat ==
    ASSUME NEW T, T \subseteq Nat, T # {}
    PROVE  \E x \in T : \A y \in T : x <= y
<1> DEFINE R == OpToRel(<, Nat)
<1>1. IsWellFoundedOn(R, Nat)
  BY NatLessThanWellFounded
<1>2. \A x, y \in Nat : <<y, x>> \in R <=> y < x
  BY DEF OpToRel
<1> HIDE DEF R
<1>3. PICK x \in T : \A y \in T : ~ (<<y, x>> \in R)
  BY <1>1, WFMin
<1>4. \A y \in T : x \in Nat /\ y \in Nat
  OBVIOUS
<1>5. ASSUME NEW y \in T
      PROVE  x <= y
  <2>1. ~ (<<y, x>> \in R)
    BY <1>3
  <2>2. ~ (y < x)
    BY <1>2, <1>4, <2>1
  <2> QED
    BY <1>4, <2>2
<1> QED
  BY <1>5

(* A set with 0 and the successor of each of its numbers has all numbers. *)
LEMMA Induction ==
    ASSUME NEW S, 0 \in S, \A n \in Nat : n \in S => n + 1 \in S
    PROVE  Nat \subseteq S
<1> SUFFICES ASSUME Nat \ S # {} PROVE FALSE
  OBVIOUS
<1>1. PICK x \in Nat \ S : \A y \in Nat \ S : x <= y
  <2> DEFINE T == Nat \ S
  <2>1. T \subseteq Nat /\ T # {}
    OBVIOUS
  <2> HIDE DEF T
  <2>2. \E x \in T : \A y \in T : x <= y
    BY <2>1, LeastNat
  <2> QED
    BY <2>2 DEF T
<1>2. x # 0 /\ x - 1 \in Nat
  OBVIOUS
<1>3. x - 1 \in S
  BY <1>1, <1>2
<1> QED
  BY <1>2, <1>3

(* A recursive function exists: each step F[k] takes the value before it to
   the next one. *)
LEMMA RecursionExists ==
    ASSUME NEW V, NEW v0 \in V, NEW n \in Nat,
           NEW F \in [1..n -> [V -> V]]
    PROVE  \E f \in [0..n -> V] : f[0] = v0 /\ \A k \in 1..n : f[k] = F[k][f[k - 1]]
<1> DEFINE S == {m \in Nat : m <= n =>
                    \E f \in [0..m -> V] :
                        f[0] = v0 /\ \A k \in 1..m : f[k] = F[k][f[k - 1]]}
<1>1. 0 \in S
  <2> DEFINE f == [k \in 0..0 |-> v0]
  <2>1. f \in [0..0 -> V] /\ f[0] = v0 /\ \A k \in 1..0 : f[k] = F[k][f[k - 1]]
    OBVIOUS
  <2> HIDE DEF f
  <2> QED
    BY <2>1
<1>2. ASSUME NEW m \in Nat, m \in S
      PROVE  m + 1 \in S
  <2> SUFFICES ASSUME m + 1 <= n
               PROVE  \E g \in [0..(m + 1) -> V] :
                        g[0] = v0 /\ \A k \in 1..(m + 1) : g[k] = F[k][g[k - 1]]
    OBVIOUS
  <2>1. PICK f \in [0..m -> V] : f[0] = v0 /\ \A k \in 1..m : f[k] = F[k][f[k - 1]]
    BY <1>2
  <2> DEFINE last == F[m + 1][f[m]]
             g    == [k \in 0..(m + 1) |-> IF k = m + 1 THEN last ELSE f[k]]
  <2>2. last \in V
    OBVIOUS
  <2>3. g \in [0..(m + 1) -> V] /\ g[0] = v0
    BY <2>1, <2>2
  <2>4. ASSUME NEW k \in 1..(m + 1)
        PROVE  g[k] = F[k][g[k - 1]]
    <3>1. CASE k = m + 1
      BY <3>1
    <3>2. CASE k # m + 1
      <4>1. k \in 1..m /\ k - 1 \in 0..m /\ g[k] = f[k] /\ g[k - 1] = f[k - 1]
        BY <3>2
      <4> QED
        BY <2>1, <4>1
    <3> QED
      BY <3>1, <3>2
  <2> HIDE DEF g
  <2> QED
    BY <2>3, <2>4
<1> HIDE DEF S
<1>3. Nat \subseteq S
  BY <1>1, <1>2, Induction
<1> QED
  BY <1>3 DEF S

(* The same without what the provers know of functions, which keeps them
   from citing it: moves from a value to the next, and their runs. *)
Moves(n, V) == [1..n -> [V -> V]]
RunsOf(n, V) == [0..n -> V]
IsRun(f, n, v, F) == f[0] = v /\ \A k \in 1..n : f[k] = F[k][f[k - 1]]

(* Every sequence of moves has a run, from any value. *)
LEMMA RunExists ==
    \A V : \A v \in V : \A n \in Nat : \A F \in Moves(n, V) :
        \E f \in RunsOf(n, V) : IsRun(f, n, v, F)
<1> SUFFICES ASSUME NEW V, NEW v \in V, NEW n \in Nat, NEW F \in [1..n -> [V -> V]]
             PROVE  \E f \in [0..n -> V] :
                        f[0] = v /\ \A k \in 1..n : f[k] = F[k][f[k - 1]]
  BY DEF Moves, RunsOf, IsRun
<1> QED
  BY RecursionExists

(* The runs of moves that are numbered from 0. *)
IsStart(h, n, v, F) == h[0] = v /\ \A k \in 1..n : h[k] = F[k - 1][h[k - 1]]

(* Two of them are the same as far as both go. *)
LEMMA StartsAgree ==
    ASSUME NEW V, NEW v \in V, NEW F \in [Nat -> [V -> V]],
           NEW m \in Nat, NEW n \in Nat, m <= n,
           NEW f \in RunsOf(m, V), IsStart(f, m, v, F),
           NEW g \in RunsOf(n, V), IsStart(g, n, v, F)
    PROVE  \A k \in 0..m : f[k] = g[k]
<1> DEFINE S == {k \in Nat : k <= m => f[k] = g[k]}
<1>1. 0 \in S
  BY DEF IsStart
<1>2. ASSUME NEW k \in Nat, k \in S
      PROVE  k + 1 \in S
  <2> SUFFICES ASSUME k + 1 <= m
               PROVE  f[k + 1] = g[k + 1]
    OBVIOUS
  <2>1. f[k] = g[k]
    BY <1>2
  <2>2. k + 1 \in 1..m /\ k + 1 \in 1..n /\ (k + 1) - 1 = k
    OBVIOUS
  <2> QED
    BY <2>1, <2>2 DEF IsStart
<1> HIDE DEF S
<1>3. Nat \subseteq S
  BY <1>1, <1>2, Induction
<1> QED
  BY <1>3 DEF S

LEMMA StartExists ==
    ASSUME NEW V, NEW v \in V, NEW F \in [Nat -> [V -> V]], NEW n \in Nat
    PROVE  \E h \in RunsOf(n, V) : IsStart(h, n, v, F)
<1> DEFINE G == [k \in 1..n |-> F[k - 1]]
<1>1. G \in Moves(n, V)
  BY DEF Moves
<1>2. \A k \in 1..n : G[k] = F[k - 1]
  OBVIOUS
<1> HIDE DEF G
<1>3. PICK h \in RunsOf(n, V) : IsRun(h, n, v, G)
  BY <1>1, RunExists, Zenon
<1> QED
  BY <1>2, <1>3 DEF IsRun, IsStart

(* A recursive function over all numbers exists. *)
Steps(V)     == [Nat -> [V -> V]]
Functions(V) == [Nat -> V]
IsRecursive(f, v, F) == f[0] = v /\ \A k \in Nat : f[k + 1] = F[k][f[k]]

LEMMA FunctionExists ==
    \A V : \A v \in V : \A F \in Steps(V) : \E f \in Functions(V) : IsRecursive(f, v, F)
<1> SUFFICES ASSUME NEW V, NEW v \in V, NEW F \in [Nat -> [V -> V]]
             PROVE  \E f \in [Nat -> V] : f[0] = v /\ \A k \in Nat : f[k + 1] = F[k][f[k]]
  BY DEF Steps, Functions, IsRecursive
<1> DEFINE run == [n \in Nat |-> CHOOSE h \in RunsOf(n, V) : IsStart(h, n, v, F)]
           f == [n \in Nat |-> run[n][n]]
<1>1. ASSUME NEW n \in Nat
      PROVE  run[n] \in RunsOf(n, V) /\ IsStart(run[n], n, v, F)
  <2>1. run[n] = CHOOSE h \in RunsOf(n, V) : IsStart(h, n, v, F)
    OBVIOUS
  <2> QED
    BY <2>1, StartExists
<1> HIDE DEF run
<1>2. ASSUME NEW n \in Nat
      PROVE  /\ run[n] \in [0..n -> V] /\ run[n][0] = v
             /\ \A k \in 1..n : run[n][k] = F[k - 1][run[n][k - 1]]
  BY <1>1 DEF RunsOf, IsStart
<1>3. \A n \in Nat : f[n] = run[n][n]
  OBVIOUS
<1>4. f \in [Nat -> V]
  BY <1>2
<1> HIDE DEF f
<1>5. f[0] = v
  BY <1>2, <1>3
<1>6. ASSUME NEW k \in Nat
      PROVE  f[k + 1] = F[k][f[k]]
  <2>1. k + 1 \in Nat /\ k <= k + 1 /\ k + 1 \in 1..(k + 1) /\ k \in 0..k /\ (k + 1) - 1 = k
    OBVIOUS
  <2>2. run[k][k] = run[k + 1][k]
    <3>1. \A j \in 0..k : run[k][j] = run[k + 1][j]
      BY <1>1, <2>1, StartsAgree
    <3> QED
      BY <2>1, <3>1
  <2>3. run[k + 1][k + 1] = F[k][run[k + 1][k]]
    BY <1>2, <2>1
  <2> QED
    BY <1>3, <2>1, <2>2, <2>3
<1> QED
  BY <1>4, <1>5, <1>6
=============================================================================
