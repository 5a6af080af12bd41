---------------------------- MODULE SetInduction ----------------------------
(***************************************************************************)
(* Induction on the natural numbers, stated with sets, and functions that  *)
(* repeat a step, for what the other modules define with recursive         *)
(* functions: the walk of a pawn, the loop over the colours.               *)
(***************************************************************************)
EXTENDS Integers, WellFoundedInduction, TLAPS

(* A set of natural numbers that is not empty has a least element.          *)
THEOREM LeastNat ==
  ASSUME NEW T, T \subseteq Nat, T # {}
  PROVE  \E x \in T : \A y \in T : x <= y
<1>1. IsWellFoundedOn(OpToRel(<, Nat), Nat)
  BY NatLessThanWellFounded, Zenon
<1>2. PICK x \in T : \A y \in T : ~ (<<y, x>> \in OpToRel(<, Nat))
  BY <1>1, WFMin, Zenon
<1>3. \A y \in Nat : y < x => <<y, x>> \in OpToRel(<, Nat)
  BY Zenon DEF OpToRel
<1>4. \A y \in T : ~ (y < x)
  BY <1>2, <1>3
<1>5. x \in Nat /\ \A y \in T : y \in Nat
  OBVIOUS
<1> QED
  BY <1>4, <1>5

(* A set that has 0, and n + 1 whenever it has n, has every natural number. *)
THEOREM NatSetInduction ==
  ASSUME NEW T, 0 \in T, \A n \in Nat : n \in T => n + 1 \in T
  PROVE  \A n \in Nat : n \in T
<1> SUFFICES ASSUME Nat \ T # {} PROVE FALSE
  OBVIOUS
<1>1. PICK n \in Nat \ T : \A y \in Nat \ T : n <= y
  BY LeastNat
<1>2. n # 0 /\ n - 1 \in Nat /\ n - 1 < n /\ (n - 1) + 1 = n
  BY <1>1
<1>3. n - 1 \in T
  BY <1>1, <1>2
<1> QED
  BY <1>1, <1>2, <1>3

(* The iterates f of a step g from x, as far as n.                          *)
Iterates(f, g, x, n) ==
  f[0] = x /\ \A k \in 1 .. n : f[k] = g[f[k - 1]]

(* Every step can be repeated as often as one likes. *)
THEOREM IteratesExist ==
  ASSUME NEW S, NEW g \in [S -> S], NEW x \in S
  PROVE  \A n \in Nat : \E f \in [0 .. n -> S] : Iterates(f, g, x, n)
<1> DEFINE T == {n \in Nat : \E f \in [0 .. n -> S] : Iterates(f, g, x, n)}
<1>1. 0 \in T
  <2> DEFINE f == [k \in 0 .. 0 |-> x]
  <2>1. f \in [0 .. 0 -> S] /\ f[0] = x
    OBVIOUS
  <2>2. Iterates(f, g, x, 0)
    BY <2>1 DEF Iterates
  <2> QED
    BY <2>1, <2>2
<1>2. ASSUME NEW n \in Nat, n \in T PROVE n + 1 \in T
  <2>1. PICK f \in [0 .. n -> S] : Iterates(f, g, x, n)
    BY <1>2
  <2> DEFINE h == [k \in 0 .. n + 1 |-> IF k <= n THEN f[k] ELSE g[f[n]]]
  <2>2. h \in [0 .. n + 1 -> S]
    OBVIOUS
  <2>3. h[0] = x
    BY <2>1 DEF Iterates
  <2>4. ASSUME NEW k \in 1 .. n + 1 PROVE h[k] = g[h[k - 1]]
    <3>1. CASE k <= n
      <4>1. k \in 1 .. n /\ k - 1 \in 0 .. n /\ k \in 0 .. n + 1 /\ k - 1 \in 0 .. n + 1
        BY <3>1
      <4>2. f[k] = g[f[k - 1]]
        BY <2>1, <4>1 DEF Iterates
      <4> QED
        BY <3>1, <4>1, <4>2
    <3>2. CASE k = n + 1
      BY <3>2
    <3> QED
      BY <3>1, <3>2
  <2> HIDE DEF h
  <2>5. Iterates(h, g, x, n + 1)
    BY <2>3, <2>4 DEF Iterates
  <2> QED
    BY <2>2, <2>5
<1> HIDE DEF T
<1>3. \A n \in Nat : n \in T
  BY <1>1, <1>2, NatSetInduction
<1> QED
  BY <1>3 DEF T

(* What holds of a value and is kept by the step holds of every iterate.    *)
THEOREM IteratesIn ==
  ASSUME NEW S, NEW n \in Nat, NEW f, f[0] \in S,
         \A k \in 1 .. n : f[k - 1] \in S => f[k] \in S
  PROVE  \A k \in 0 .. n : f[k] \in S
<1> DEFINE T == {k \in Nat : k <= n => f[k] \in S}
<1>1. 0 \in T
  OBVIOUS
<1>2. ASSUME NEW k \in Nat, k \in T PROVE k + 1 \in T
  <2> SUFFICES ASSUME k + 1 <= n PROVE f[k + 1] \in S
    OBVIOUS
  <2>1. k + 1 \in 1 .. n /\ (k + 1) - 1 = k /\ k <= n
    OBVIOUS
  <2>2. f[k] \in S
    BY <1>2, <2>1
  <2> QED
    BY <2>1, <2>2
<1> HIDE DEF T
<1>3. \A k \in Nat : k \in T
  BY <1>1, <1>2, NatSetInduction
<1> QED
  BY <1>3 DEF T
=============================================================================
