------------------------------- MODULE Induction -------------------------------
(***************************************************************************)
(* Induction and recursion over the natural numbers, as facts about sets   *)
(* and functions, from the well-foundedness of the subsets of a finite set *)
(* that the library proves. The proofs of the components use them for the  *)
(* loops of the code: the compositor that goes through the layers, the     *)
(* tags that are added one by one, the chunks of a list.                   *)
(***************************************************************************)
EXTENDS Integers, FiniteSetTheorems, WellFoundedInduction, TLAPS

(* A set of naturals that is not empty has a least element. *)
LEMMA LeastNatural ==
  ASSUME NEW T \in SUBSET Nat, T # {}
  PROVE  \E x \in T : \A y \in T : x <= y
<1> DEFINE Below == {1..x : x \in T}
           R == StrictSubsetOrdering(Nat)
<1>1. Below \subseteq FiniteSubsetsOf(Nat) /\ Below # {}
  <2>1. ASSUME NEW x \in T
        PROVE  1..x \in SUBSET Nat /\ IsFiniteSet(1..x)
    BY FS_Interval
  <2> QED
    BY <2>1 DEF FiniteSubsetsOf
<1>2. IsWellFoundedOn(R, FiniteSubsetsOf(Nat))
  BY FS_StrictSubsetOrderingWellFounded
<1>3. PICK S \in Below : \A U \in Below : ~ (<<U, S>> \in R)
  <2> HIDE DEF Below, R
  <2> QED
    BY <1>1, <1>2, WFMin
<1>4. PICK x \in T : S = 1..x
  OBVIOUS
<1>5. ASSUME NEW y \in T, y < x
      PROVE  FALSE
  <2>1. 1..y \subseteq 1..x /\ 1..y # 1..x /\ 1..y \in Below
    BY <1>5
  <2>2. <<1..y, 1..x>> \in R
    BY <2>1 DEF StrictSubsetOrdering
  <2> HIDE DEF R
  <2> QED
    BY <1>3, <1>4, <2>1, <2>2
<1> QED
  BY <1>5

(* A set that has 0 and, with every number up to n but n, its successor, has
   all the numbers up to n.                                                *)
LEMMA UpTo ==
  ASSUME NEW n \in Nat, NEW S, 0 \in S,
         \A k \in 0 .. n - 1 : k \in S => k + 1 \in S
  PROVE  0 .. n \subseteq S
<1> DEFINE T == (0 .. n) \ S
<1> SUFFICES ASSUME T # {} PROVE FALSE
  OBVIOUS
<1>1. T \in SUBSET Nat
  OBVIOUS
<1>2. PICK x \in T : \A y \in T : x <= y
  <2> HIDE DEF T
  <2> QED
    BY <1>1, LeastNatural
<1>3. x # 0 /\ x - 1 \in 0 .. n - 1
  OBVIOUS
<1>4. x - 1 \notin T
  BY <1>1, <1>2, <1>3
<1> QED
  BY <1>3, <1>4

(* g starts with base and goes from each number up to n to the next. *)
Iterates(g, n, T, base, step) ==
  /\ g \in [0 .. n -> T]
  /\ g[0] = base /\ \A k \in 1 .. n : g[k] = step[k][g[k - 1]]

(* There is a function that does, for any first value and steps. *)
LEMMA Recursion ==
  ASSUME NEW n \in Nat, NEW T, NEW base \in T, NEW step \in [1 .. n -> [T -> T]]
  PROVE  \E g : Iterates(g, n, T, base, step)
<1> DEFINE Next(g, k) == IF k = 0 THEN base ELSE step[k][g[k - 1]]
           Does(g, m) == g \in [0 .. m -> T] /\ \A k \in 0 .. m : g[k] = Next(g, k)
           Good == {m \in 0 .. n : \E g : Does(g, m)}
<1>1. 0 \in Good
  <2>1. Does([k \in 0 .. 0 |-> base], 0)
    OBVIOUS
  <2> HIDE DEF Does
  <2> QED
    BY <2>1
<1>2. ASSUME NEW m \in 0 .. n - 1, m \in Good
      PROVE  m + 1 \in Good
  <2>1. PICK g : Does(g, m)
    BY <1>2
  <2> DEFINE h == [k \in 0 .. m + 1 |-> Next(g, k)]
  <2>2. \A k \in 0 .. m + 1 : k # 0 => k - 1 \in 0 .. m /\ k \in 1 .. n
    OBVIOUS
  <2>3. h \in [0 .. m + 1 -> T]
    BY <2>1, <2>2
  <2>4. \A k \in 0 .. m : h[k] = g[k]
    BY <2>1
  <2>5. \A k \in 0 .. m + 1 : h[k] = Next(h, k)
    BY <2>2, <2>4
  <2>6. Does(h, m + 1)
    <3> HIDE DEF h
    <3> QED
      BY <2>3, <2>5
  <2> HIDE DEF h, Does
  <2> QED
    BY <2>6
<1>3. n \in Good
  <2> HIDE DEF Good
  <2>1. 0 .. n \subseteq Good
    BY <1>1, <1>2, UpTo
  <2> QED
    BY <2>1
<1>4. PICK g : Does(g, n)
  BY <1>3
<1>5. \A k \in 1 .. n : k \in 0 .. n /\ k # 0
  OBVIOUS
<1>6. g[0] = base /\ \A k \in 1 .. n : g[k] = step[k][g[k - 1]]
  BY <1>4, <1>5
<1> HIDE DEF Next
<1> QED
  BY <1>4, <1>6 DEF Iterates
================================================================================
