--------------------------- MODULE Induction_proof ---------------------------
(***************************************************************************)
(* Induction on the natural numbers in terms of sets: a property of n is   *)
(* given as the set of the numbers that have it.  Stated this way it is a  *)
(* fact a proof can cite, with the set comprehension it needs.             *)
(***************************************************************************)
EXTENDS Integers, WellFoundedInduction, TLAPS

LEMMA LeastNat ==
  ASSUME NEW T, T \subseteq Nat, T # {}
  PROVE  \E m \in T : \A n \in T : m <= n
<1> DEFINE R == OpToRel(<, Nat)
<1>1. IsWellFoundedOn(R, Nat)
  BY NatLessThanWellFounded
<1>2. R = {ss \in Nat \X Nat : ss[1] < ss[2]}
  BY DEF OpToRel
<1> HIDE DEF R
<1>3. PICK m \in T : \A n \in T : ~ (<<n, m>> \in R)
  BY <1>1, WFMin
<1>4. \A n \in T : m <= n
  <2> TAKE n \in T
  <2>1. <<n, m>> \notin R /\ n \in Nat /\ m \in Nat
    BY <1>3
  <2>2. ~(n < m)
    BY <1>2, <2>1
  <2> QED
    BY <2>1, <2>2
<1> QED
  BY <1>3, <1>4

LEMMA GreatestBelow ==
  ASSUME NEW n \in Nat, NEW T, T \subseteq 0..n, T # {}
  PROVE  \E m \in T : \A k \in T : k <= m
<1> DEFINE U == {n - k : k \in T}
<1>1. U \subseteq Nat /\ U # {}
  <2>1. \A k \in T : n - k \in Nat
    OBVIOUS
  <2> QED
    BY <2>1
<1>2. PICK u \in U : \A v \in U : u <= v
  BY <1>1, LeastNat
<1>3. PICK m \in T : u = n - m
  BY <1>2
<1>4. \A k \in T : k <= m
  <2> TAKE k \in T
  <2>1. n - k \in U /\ k \in 0..n /\ m \in 0..n
    BY <1>3
  <2>2. u <= n - k
    BY <1>2, <2>1
  <2> QED
    BY <1>3, <2>1, <2>2
<1> QED
  BY <1>4

LEMMA NatSetInduction ==
  ASSUME NEW T, 0 \in T, \A n \in Nat : n \in T => n + 1 \in T
  PROVE  Nat \subseteq T
<1> DEFINE U == Nat \ T
<1>1. SUFFICES ASSUME U # {} PROVE FALSE
  OBVIOUS
<1>2. PICK m \in U : \A n \in U : m <= n
  BY <1>1, LeastNat
<1> QED
  BY <1>2

\* Induction along an interval.
LEMMA RangeInduction ==
  ASSUME NEW a \in Nat, NEW b \in Nat, NEW T, a \in T,
         \A n \in a..(b - 1) : n \in T => n + 1 \in T
  PROVE  a..b \subseteq T
<1> DEFINE U == {n \in Nat : a + n <= b => a + n \in T}
<1>1. 0 \in U
  OBVIOUS
<1>2. ASSUME NEW n \in Nat, n \in U PROVE n + 1 \in U
  <2> SUFFICES ASSUME a + (n + 1) <= b PROVE a + (n + 1) \in T
    OBVIOUS
  <2>1. a + n \in a..(b - 1) /\ a + n <= b
    OBVIOUS
  <2>2. a + n \in T
    BY <1>2, <2>1
  <2>3. (a + n) + 1 \in T
    BY <2>1, <2>2
  <2> QED
    BY <2>3
<1> HIDE DEF U
<1>3. Nat \subseteq U
  BY <1>1, <1>2, NatSetInduction
<1>4. ASSUME NEW p \in a..b PROVE p \in T
  <2>1. p - a \in Nat /\ a + (p - a) = p /\ p <= b
    OBVIOUS
  <2> QED
    BY <1>3, <2>1 DEF U
<1> QED
  BY <1>4
=============================================================================
