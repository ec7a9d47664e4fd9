------------------------------ MODULE Extrema ------------------------------
(***************************************************************************)
(* Least and greatest elements of sets of natural numbers, for the proofs  *)
(* about what is first or last in a sequence.                              *)
(***************************************************************************)
EXTENDS Naturals, TLAPS, WellFoundedInduction

\* A set of natural numbers that is not empty has a least element.
LEMMA Minimum ==
  ASSUME NEW T, T \subseteq Nat, T # {}
  PROVE  \E x \in T : \A y \in T : x <= y
<1>1. PICK x \in T : \A y \in T : ~ (<<y, x>> \in OpToRel(<, Nat))
  BY WFMin, NatLessThanWellFounded, Zenon
<1>2. \A y \in T : ~ (y < x)
  BY <1>1, Zenon DEF OpToRel
<1> QED
  BY <1>2

\* A set of natural numbers that is bounded and not empty has a greatest one:
\* the last request of some kind, the last entry for some device.
LEMMA Maximum ==
  ASSUME NEW n \in Nat, NEW T, T \subseteq 0 .. n, T # {}
  PROVE  \E x \in T : \A y \in T : y <= x
<1> DEFINE U == {k \in Nat : k <= n /\ n - k \in T}
<1>1. PICK t \in T : TRUE
  OBVIOUS
<1>2. t \in Nat /\ t <= n
  BY <1>1
<1>3. n - t \in Nat /\ n - t <= n /\ n - (n - t) = t
  BY <1>2
<1>4. n - t \in U
  BY <1>1, <1>3
<1>5. PICK u \in U : \A v \in U : u <= v
  BY <1>4, Minimum
<1>6. ASSUME NEW y \in T PROVE y <= n - u
  <2>1. y \in Nat /\ y <= n
    OBVIOUS
  <2>2. n - y \in U
    BY <2>1
  <2>3. u <= n - y
    BY <2>2, <1>5
  <2>4. u \in Nat
    OBVIOUS
  <2> QED
    BY <2>1, <2>3, <2>4
<1>7. n - u \in T
  OBVIOUS
<1> QED
  BY <1>6, <1>7
=============================================================================
