---------------------------- MODULE LisoHash_proof ----------------------------
(***************************************************************************)
(* The header table is a map, for every set of names, every hash function  *)
(* and every room in keys[]: its counter is exact, and what the chains     *)
(* hold for a name is what HeaderMap holds for it.                         *)
(*                                                                         *)
(* A walk along a chain is a recursive function.  What it is for a chain   *)
(* with a pair more or a pair less follows by induction along the chain,   *)
(* in the set form of Induction_proof.                                     *)
(***************************************************************************)
EXTENDS LisoHash, Induction_proof, FiniteSetTheorems, SequenceTheorems

\* The walk of ValuesOf, from every position of the chain on.
Walk(chain, name) ==
  CHOOSE f : f = [n \in 1..(Len(chain) + 1) |->
                    IF n > Len(chain) THEN <<>>
                    ELSE IF chain[n].key = name THEN <<chain[n].value>> \o f[n + 1]
                    ELSE f[n + 1]]

LEMMA ValuesAreWalked == \A c, k : ValuesOf(c, k) = Walk(c, k)[1]
  BY DEF ValuesOf, Walk

-----------------------------------------------------------------------------
(* Walks. *)

\* One step of a walk, given what it finds behind n.
Found(c, k, n, rest) ==
  IF n > Len(c) THEN <<>> ELSE IF c[n].key = k THEN <<c[n].value>> \o rest ELSE rest

LEMMA WalkExists ==
  ASSUME NEW c, NEW k, Len(c) \in Nat
  PROVE  \E f : f = [n \in 1..(Len(c) + 1) |-> Found(c, k, n, f[n + 1])]
<1> DEFINE L == Len(c)
           T == {m \in 0..L : \E g : g = [n \in (L + 1 - m)..(L + 1) |-> Found(c, k, n, g[n + 1])]}
<1>0. L \in Nat
  OBVIOUS
<1> HIDE DEF L
<1>1. 0 \in T
  <2> DEFINE g == [n \in (L + 1 - 0)..(L + 1) |-> <<>>]
  <2>1. \A n \in (L + 1 - 0)..(L + 1) : Found(c, k, n, g[n + 1]) = <<>>
    BY <1>0 DEF Found, L
  <2>2. g = [n \in (L + 1 - 0)..(L + 1) |-> Found(c, k, n, g[n + 1])]
    BY <2>1
  <2> QED
    BY <1>0, <2>2
<1>2. ASSUME NEW m \in 0..(L - 1), m \in T PROVE m + 1 \in T
  <2> DEFINE a == L - m
  <2>1. a \in Nat /\ a >= 1 /\ L + 1 - m = a + 1 /\ L + 1 - (m + 1) = a /\ a <= L /\ m + 1 \in 0..L
    BY <1>0
  <2>2. PICK g : g = [n \in (a + 1)..(L + 1) |-> Found(c, k, n, g[n + 1])]
    BY <1>2, <2>1
  <2> HIDE DEF a
  <2> DEFINE h == [n \in a..(L + 1) |-> IF n = a THEN Found(c, k, a, g[a + 1]) ELSE g[n]]
  <2>3. ASSUME NEW n \in a..(L + 1) PROVE h[n] = Found(c, k, n, h[n + 1])
    <3>1. CASE n = a
      <4>1. h[n + 1] = g[a + 1]
        BY <1>0, <2>1, <3>1
      <4> QED
        BY <3>1, <4>1
    <3>2. CASE n \in (a + 1)..L
      <4>1. h[n + 1] = g[n + 1] /\ h[n] = g[n]
        BY <1>0, <2>1, <3>2
      <4> QED
        BY <1>0, <2>1, <2>2, <3>2, <4>1
    <3>3. CASE n = L + 1
      <4>1. h[n] = g[n] /\ n \in (a + 1)..(L + 1)
        BY <1>0, <2>1, <3>3
      <4>2. g[n] = Found(c, k, n, g[n + 1])
        BY <2>2, <4>1
      <4>3. Found(c, k, n, g[n + 1]) = <<>> /\ Found(c, k, n, h[n + 1]) = <<>>
        BY <1>0, <3>3 DEF Found, L
      <4> QED
        BY <4>1, <4>2, <4>3
    <3>4. n = a \/ n \in (a + 1)..L \/ n = L + 1
      BY <1>0, <2>1
    <3> QED
      BY <3>1, <3>2, <3>3, <3>4
  <2>4. h = [n \in a..(L + 1) |-> Found(c, k, n, h[n + 1])]
    <3>1. h = [n \in a..(L + 1) |-> h[n]]
      OBVIOUS
    <3> HIDE DEF h
    <3> QED
      BY <2>3, <3>1
  <2>5. h = [n \in (L + 1 - (m + 1))..(L + 1) |-> Found(c, k, n, h[n + 1])]
    BY <2>1, <2>4
  <2> QED
    BY <2>1, <2>5
<1>3. 0..L \subseteq T
  <2> HIDE DEF T
  <2>1. \A m \in 0..(L - 1) : m \in T => m + 1 \in T
    BY <1>2
  <2>2. 0 \in Nat
    OBVIOUS
  <2> QED
    BY <1>0, <1>1, <2>1, <2>2, RangeInduction
<1>4. L \in T
  BY <1>0, <1>3
<1>5. L + 1 - L = 1
  BY <1>0
<1>6. \E g : g = [n \in 1..(L + 1) |-> Found(c, k, n, g[n + 1])]
  BY <1>4, <1>5
<1> QED
  BY <1>6 DEF L

LEMMA WalkIs ==
  ASSUME NEW c, NEW k, Len(c) \in Nat
  PROVE  Walk(c, k) = [n \in 1..(Len(c) + 1) |-> Found(c, k, n, Walk(c, k)[n + 1])]
<1>1. Walk(c, k) = CHOOSE f : f = [n \in 1..(Len(c) + 1) |-> Found(c, k, n, f[n + 1])]
  BY DEF Walk, Found
<1>2. \E f : f = [n \in 1..(Len(c) + 1) |-> Found(c, k, n, f[n + 1])]
  BY WalkExists, ZenonT(60)
<1> DEFINE w == CHOOSE f : f = [n \in 1..(Len(c) + 1) |-> Found(c, k, n, f[n + 1])]
<1>3. w = [n \in 1..(Len(c) + 1) |-> Found(c, k, n, w[n + 1])]
  BY <1>2, Zenon
<1> QED
  BY <1>1, <1>3, Zenon

\* The walk, step by step.
LEMMA WalkSteps ==
  ASSUME NEW c, NEW k, Len(c) \in Nat
  PROVE  /\ Walk(c, k)[Len(c) + 1] = <<>>
         /\ \A n \in 1..Len(c) :
              Walk(c, k)[n] = IF c[n].key = k THEN <<c[n].value>> \o Walk(c, k)[n + 1]
                              ELSE Walk(c, k)[n + 1]
<1> DEFINE w == Walk(c, k)
           L == Len(c)
<1>1. w = [n \in 1..(L + 1) |-> Found(c, k, n, w[n + 1])] /\ L \in Nat
  BY WalkIs
<1> HIDE DEF w
<1>2. w[L + 1] = Found(c, k, L + 1, w[L + 2]) /\ L + 1 > L
  <2>1. L + 1 \in 1..(L + 1) /\ (L + 1) + 1 = L + 2 /\ L + 1 > L
    BY <1>1
  <2> QED
    BY <1>1, <2>1
<1>3. ASSUME NEW n \in 1..L
      PROVE  w[n] = IF c[n].key = k THEN <<c[n].value>> \o w[n + 1] ELSE w[n + 1]
  <2>1. n \in 1..(L + 1) /\ ~(n > L)
    BY <1>1
  <2>2. w[n] = Found(c, k, n, w[n + 1])
    BY <1>1, <2>1
  <2> QED
    BY <2>1, <2>2 DEF Found
<1>4. w[L + 1] = <<>>
  BY <1>2 DEF Found
<1> QED
  BY <1>3, <1>4 DEF w

\* What is behind both of two chains is met alike.
LEMMA TailsAgree ==
  ASSUME NEW c, NEW d, NEW k, Len(c) \in Nat, Len(d) \in Nat,
         NEW m \in Nat, m <= Len(c), m <= Len(d),
         \A j \in 1..m : c[Len(c) + 1 - j] = d[Len(d) + 1 - j]
  PROVE  Walk(c, k)[Len(c) + 1 - m] = Walk(d, k)[Len(d) + 1 - m]
<1> DEFINE v == Walk(c, k)
           w == Walk(d, k)
           a == Len(c)
           b == Len(d)
           T == {j \in 0..m : v[a + 1 - j] = w[b + 1 - j]}
<1>1. /\ a \in Nat /\ b \in Nat /\ m <= a /\ m <= b
      /\ v[a + 1] = <<>> /\ w[b + 1] = <<>>
      /\ \A n \in 1..a : v[n] = IF c[n].key = k THEN <<c[n].value>> \o v[n + 1] ELSE v[n + 1]
      /\ \A n \in 1..b : w[n] = IF d[n].key = k THEN <<d[n].value>> \o w[n + 1] ELSE w[n + 1]
      /\ \A j \in 1..m : c[a + 1 - j] = d[b + 1 - j]
  BY WalkSteps
<1> HIDE DEF v, w, a, b
<1>2. 0 \in T
  <2>1. a + 1 - 0 = a + 1 /\ b + 1 - 0 = b + 1 /\ 0 \in 0..m
    BY <1>1
  <2> QED
    BY <1>1, <2>1
<1>3. ASSUME NEW j \in 0..(m - 1), j \in T PROVE j + 1 \in T
  <2> DEFINE x == a - j
             y == b - j
  <2>1. /\ j + 1 \in 1..m /\ x \in 1..a /\ y \in 1..b
        /\ a + 1 - (j + 1) = x /\ b + 1 - (j + 1) = y /\ a + 1 - j = x + 1 /\ b + 1 - j = y + 1
    BY <1>1
  <2> HIDE DEF x, y
  <2>2. c[x] = d[y] /\ v[x + 1] = w[y + 1]
    <3>1. c[a + 1 - (j + 1)] = d[b + 1 - (j + 1)]
      BY <1>1, <2>1
    <3>2. v[a + 1 - j] = w[b + 1 - j]
      BY <1>3
    <3> QED
      BY <2>1, <3>1, <3>2
  <2>3. v[x] = w[y]
    BY <1>1, <2>1, <2>2
  <2>4. v[a + 1 - (j + 1)] = w[b + 1 - (j + 1)] /\ j + 1 \in 0..m
    BY <2>1, <2>3
  <2> QED
    BY <2>4
<1>4. 0..m \subseteq T
  <2> HIDE DEF T
  <2>1. \A j \in 0..(m - 1) : j \in T => j + 1 \in T
    BY <1>3
  <2>2. 0 \in Nat
    OBVIOUS
  <2> QED
    BY <1>2, <2>1, <2>2, RangeInduction
<1>5. m \in T
  BY <1>4
<1> QED
  BY <1>5 DEF v, w, a, b

\* Pairs of other names are passed.
LEMMA OthersPassed ==
  ASSUME NEW c, NEW k, Len(c) \in Nat, NEW q \in 1..(Len(c) + 1),
         \A n \in 1..(q - 1) : c[n].key # k
  PROVE  Walk(c, k)[1] = Walk(c, k)[q]
<1> DEFINE w == Walk(c, k)
           T == {n \in 1..q : w[1] = w[n]}
<1>1. \A n \in 1..Len(c) : w[n] = IF c[n].key = k THEN <<c[n].value>> \o w[n + 1] ELSE w[n + 1]
  BY WalkSteps
<1> HIDE DEF w
<1>2. 1 \in T
  OBVIOUS
<1>3. ASSUME NEW n \in 1..(q - 1), n \in T PROVE n + 1 \in T
  <2>1. n \in 1..Len(c) /\ n + 1 \in 1..q
    OBVIOUS
  <2>2. w[n] = w[n + 1]
    BY <1>1, <2>1
  <2> QED
    BY <1>3, <2>1, <2>2
<1>4. 1..q \subseteq T
  <2> HIDE DEF T
  <2>1. \A n \in 1..(q - 1) : n \in T => n + 1 \in T
    BY <1>3
  <2>2. 1 \in Nat /\ q \in Nat
    OBVIOUS
  <2> QED
    BY <1>2, <2>1, <2>2, RangeInduction
<1>5. q \in T
  BY <1>4
<1> QED
  BY <1>5 DEF w

\* Two chains that begin alike: what is met behind decides.
LEMMA FrontsAgree ==
  ASSUME NEW c, NEW d, NEW k, Len(c) \in Nat, Len(d) \in Nat,
         NEW q \in Nat, q <= Len(c), q <= Len(d),
         \A n \in 1..q : c[n] = d[n],
         Walk(c, k)[q + 1] = Walk(d, k)[q + 1]
  PROVE  Walk(c, k)[1] = Walk(d, k)[1]
<1> DEFINE v == Walk(c, k)
           w == Walk(d, k)
           T == {j \in 0..q : v[q + 1 - j] = w[q + 1 - j]}
<1>1. /\ \A n \in 1..q : v[n] = IF c[n].key = k THEN <<c[n].value>> \o v[n + 1] ELSE v[n + 1]
      /\ \A n \in 1..q : w[n] = IF d[n].key = k THEN <<d[n].value>> \o w[n + 1] ELSE w[n + 1]
      /\ v[q + 1] = w[q + 1]
  <2>1. \A n \in 1..q : n \in 1..Len(c) /\ n \in 1..Len(d)
    OBVIOUS
  <2> QED
    BY <2>1, WalkSteps
<1> HIDE DEF v, w
<1>2. 0 \in T
  <2>1. q + 1 - 0 = q + 1 /\ 0 \in 0..q
    OBVIOUS
  <2> QED
    BY <1>1, <2>1
<1>3. ASSUME NEW j \in 0..(q - 1), j \in T PROVE j + 1 \in T
  <2> DEFINE x == q - j
  <2>1. x \in 1..q /\ q + 1 - (j + 1) = x /\ q + 1 - j = x + 1 /\ j + 1 \in 0..q
    OBVIOUS
  <2> HIDE DEF x
  <2>2. v[x + 1] = w[x + 1]
    <3>1. v[q + 1 - j] = w[q + 1 - j]
      BY <1>3
    <3> QED
      BY <2>1, <3>1
  <2>3. v[x] = w[x]
    BY <1>1, <2>1, <2>2
  <2>4. v[q + 1 - (j + 1)] = w[q + 1 - (j + 1)]
    BY <2>1, <2>3
  <2> QED
    BY <2>1, <2>4
<1>4. 0..q \subseteq T
  <2> HIDE DEF T
  <2>1. \A j \in 0..(q - 1) : j \in T => j + 1 \in T
    BY <1>3
  <2>2. 0 \in Nat
    OBVIOUS
  <2> QED
    BY <1>2, <2>1, <2>2, RangeInduction
<1>5. q \in T /\ q + 1 - q = 1
  BY <1>4
<1>6. v[q + 1 - q] = w[q + 1 - q]
  BY <1>5
<1> QED
  BY <1>5, <1>6 DEF v, w

\* d is c with a pair in front.
Extends(d, c) ==
  Len(c) \in Nat /\ Len(d) = Len(c) + 1 /\ \A n \in 1..Len(c) : d[n + 1] = c[n]

\* A pair put in front comes first, for its own name; for the others nothing changes.
LEMMA WalkPrepended ==
  ASSUME NEW c, NEW d, NEW k, Extends(d, c)
  PROVE  ValuesOf(d, k) = IF d[1].key = k THEN <<d[1].value>> \o ValuesOf(c, k)
                            ELSE ValuesOf(c, k)
<1> DEFINE m == Len(c)
<1>1. m \in Nat /\ Len(d) = m + 1
  BY DEF Extends
<1>2. \A j \in 1..m : c[Len(c) + 1 - j] = d[Len(d) + 1 - j]
  <2> TAKE j \in 1..m
  <2>1. m + 1 - j \in 1..m /\ (m + 1) + 1 - j = (m + 1 - j) + 1
    BY <1>1
  <2> QED
    BY <1>1, <2>1 DEF Extends
<1>3. m <= Len(c) /\ m <= Len(d) /\ Len(d) \in Nat /\ Len(c) \in Nat
  BY <1>1
<1>7. Walk(c, k)[Len(c) + 1 - m] = Walk(d, k)[Len(d) + 1 - m]
  <2> HIDE DEF m
  <2> QED
    BY <1>1, <1>2, <1>3, TailsAgree, SMTT(60)
<1>4. m + 1 - m = 1 /\ (m + 1) + 1 - m = 1 + 1 /\ 1 \in 1..Len(d) /\ Len(d) \in Nat
  BY <1>1
<1>5. Walk(c, k)[1] = Walk(d, k)[1 + 1]
  BY <1>1, <1>4, <1>7
<1>6. Walk(d, k)[1] = IF d[1].key = k THEN <<d[1].value>> \o Walk(d, k)[1 + 1]
                      ELSE Walk(d, k)[1 + 1]
  BY <1>4, WalkSteps
<1> QED
  BY <1>5, <1>6, ValuesAreWalked

\* d is c without its q-th pair.
Removed(d, c, q) ==
  /\ Len(c) \in Nat /\ q \in 1..Len(c) /\ Len(d) = Len(c) - 1
  /\ \A n \in 1..(q - 1) : d[n] = c[n]
  /\ \A n \in q..(Len(c) - 1) : d[n] = c[n + 1]

\* What is behind the pair that goes is met as before.
LEMMA BehindRemoved ==
  ASSUME NEW c, NEW d, NEW k, NEW q, Removed(d, c, q)
  PROVE  /\ Walk(c, k)[q + 1] = Walk(d, k)[q]
         /\ Walk(c, k)[q] = IF c[q].key = k THEN <<c[q].value>> \o Walk(d, k)[q] ELSE Walk(d, k)[q]
<1> DEFINE m == Len(c) - q
<1>1. /\ Len(c) \in Nat /\ q \in 1..Len(c) /\ Len(d) = Len(c) - 1
      /\ \A n \in q..(Len(c) - 1) : d[n] = c[n + 1]
  BY DEF Removed
<1>2. /\ m \in Nat /\ m <= Len(c) /\ m <= Len(d) /\ Len(d) \in Nat
      /\ Len(c) + 1 - m = q + 1 /\ Len(d) + 1 - m = q
  BY <1>1
<1>3. \A j \in 1..m : c[Len(c) + 1 - j] = d[Len(d) + 1 - j]
  <2> TAKE j \in 1..m
  <2> DEFINE n == Len(c) - j
  <2>1. n \in q..(Len(c) - 1) /\ Len(c) + 1 - j = n + 1 /\ Len(d) + 1 - j = n
    BY <1>1
  <2> HIDE DEF n
  <2> QED
    BY <1>1, <2>1
<1>4. Len(c) \in Nat /\ q \in 1..Len(c)
  BY <1>1
<1> HIDE DEF m
<1>5. Walk(c, k)[Len(c) + 1 - m] = Walk(d, k)[Len(d) + 1 - m]
  BY <1>2, <1>3, <1>4, TailsAgree
<1>6. Walk(c, k)[q + 1] = Walk(d, k)[q]
  BY <1>2, <1>5
<1> QED
  BY <1>4, <1>6, WalkSteps

\* The first pair of a name goes: the rest of its values stay.  A pair of another name
\* goes: nothing changes.
LEMMA WalkRemoved ==
  ASSUME NEW c, NEW d, NEW k, NEW q, Removed(d, c, q)
  PROVE  /\ c[q].key = k /\ (\A n \in 1..(q - 1) : c[n].key # k)
              => ValuesOf(c, k) = <<c[q].value>> \o ValuesOf(d, k)
         /\ c[q].key # k => ValuesOf(c, k) = ValuesOf(d, k)
<1>1. /\ Walk(c, k)[q + 1] = Walk(d, k)[q]
      /\ Walk(c, k)[q] = IF c[q].key = k THEN <<c[q].value>> \o Walk(d, k)[q] ELSE Walk(d, k)[q]
  BY BehindRemoved
<1>2. CASE c[q].key = k /\ \A n \in 1..(q - 1) : c[n].key # k
  <2>1. /\ Len(c) \in Nat /\ Len(d) \in Nat /\ q \in 1..(Len(c) + 1) /\ q \in 1..(Len(d) + 1)
        /\ \A n \in 1..(q - 1) : d[n].key # k
    BY <1>2 DEF Removed
  <2>2. Walk(c, k)[1] = Walk(c, k)[q]
    BY <1>2, <2>1, OthersPassed
  <2>3. Walk(d, k)[1] = Walk(d, k)[q]
    BY <2>1, OthersPassed
  <2> QED
    BY <1>1, <1>2, <2>2, <2>3, ValuesAreWalked
<1>3. CASE c[q].key # k
  <2> DEFINE p == q - 1
  <2>1. /\ Len(c) \in Nat /\ Len(d) \in Nat /\ p \in Nat /\ p + 1 = q
        /\ p <= Len(c) /\ p <= Len(d)
        /\ \A n \in 1..p : c[n] = d[n]
    BY DEF Removed
  <2>2. Walk(c, k)[q] = Walk(d, k)[q]
    BY <1>1, <1>3
  <2> HIDE DEF p
  <2>3. Walk(c, k)[p + 1] = Walk(d, k)[p + 1]
    BY <2>1, <2>2
  <2>4. Walk(c, k)[1] = Walk(d, k)[1]
    BY <2>1, <2>3, FrontsAgree
  <2> QED
    BY <1>3, <2>4, ValuesAreWalked
<1> QED
  BY <1>2, <1>3

-----------------------------------------------------------------------------
(* Chains. *)

LEMMA ValuesType ==
  ASSUME NEW c \in Seq(Pair), NEW k, NEW i \in 1..(Len(c) + 1)
  PROVE  Walk(c, k)[i] \in Seq(Values)
<1> DEFINE w == Walk(c, k)
           L == Len(c)
           T == {m \in 0..L : w[L + 1 - m] \in Seq(Values)}
<1>1. /\ L \in Nat /\ w[L + 1] = <<>>
      /\ \A n \in 1..L : w[n] = IF c[n].key = k THEN <<c[n].value>> \o w[n + 1] ELSE w[n + 1]
  BY WalkSteps
<1>2. \A n \in 1..L : c[n].value \in Values
  <2>1. \A n \in 1..L : c[n] \in Pair
    OBVIOUS
  <2> QED
    BY <2>1 DEF Pair
<1>3. i \in 1..(L + 1) /\ L \in Nat
  OBVIOUS
<1> HIDE DEF w, L
<1>4. 0 \in T
  <2>1. L + 1 - 0 = L + 1 /\ 0 \in 0..L
    BY <1>3
  <2>2. w[L + 1 - 0] \in Seq(Values)
    <3>1. <<>> \in Seq(Values)
      OBVIOUS
    <3> QED
      BY <1>1, <2>1, <3>1
  <2> QED
    BY <2>1, <2>2
<1>5. ASSUME NEW m \in 0..(L - 1), m \in T PROVE m + 1 \in T
  <2> DEFINE x == L - m
  <2>1. x \in 1..L /\ L + 1 - (m + 1) = x /\ L + 1 - m = x + 1 /\ m + 1 \in 0..L
    BY <1>3
  <2> HIDE DEF x
  <2>2. w[x + 1] \in Seq(Values)
    <3>1. w[L + 1 - m] \in Seq(Values)
      BY <1>5
    <3> QED
      BY <2>1, <3>1
  <2>3. w[x] \in Seq(Values)
    <3>1. <<c[x].value>> \in Seq(Values)
      BY <1>2, <2>1
    <3>2. <<c[x].value>> \o w[x + 1] \in Seq(Values)
      BY <2>2, <3>1, ConcatProperties
    <3> QED
      BY <1>1, <2>1, <2>2, <3>2
  <2>4. w[L + 1 - (m + 1)] \in Seq(Values)
    BY <2>1, <2>3
  <2> QED
    BY <2>1, <2>4
<1>6. 0..L \subseteq T
  <2> HIDE DEF T
  <2>1. \A m \in 0..(L - 1) : m \in T => m + 1 \in T
    BY <1>5
  <2>2. 0 \in Nat
    OBVIOUS
  <2> QED
    BY <1>1, <1>4, <2>1, <2>2, RangeInduction
<1>7. L + 1 - i \in T /\ L + 1 - (L + 1 - i) = i
  <2>1. L + 1 - i \in 0..L /\ L + 1 - (L + 1 - i) = i
    BY <1>3
  <2> HIDE DEF T
  <2> QED
    BY <1>6, <2>1
<1>8. w[L + 1 - (L + 1 - i)] \in Seq(Values)
  BY <1>7
<1> QED
  BY <1>7, <1>8 DEF w

LEMMA FirstPosition ==
  ASSUME NEW c \in Seq(Pair), NEW k, Positions(c, k) # {}
  PROVE  /\ FirstOf(c, k) \in 1..Len(c) /\ c[FirstOf(c, k)].key = k
         /\ \A n \in 1..(FirstOf(c, k) - 1) : c[n].key # k
<1> DEFINE S == Positions(c, k)
<1>1. S \subseteq 1..Len(c) /\ Len(c) \in Nat
  BY DEF Positions
<1>2. \A n \in S : c[n].key = k
  BY DEF Positions
<1>3. \A n \in 1..Len(c) : c[n].key = k => n \in S
  BY DEF Positions
<1> HIDE DEF S
<1>4. S \subseteq Nat /\ S # {}
  BY <1>1 DEF S
<1>5. \E m \in S : \A n \in S : m <= n
  BY <1>4, LeastNat
<1> DEFINE q == CHOOSE m \in S : \A n \in S : m <= n
<1>6. q \in S /\ \A n \in S : q <= n
  BY <1>5
<1>7. FirstOf(c, k) = q
  BY DEF FirstOf, Min, S
<1> HIDE DEF q
<1>8. q \in 1..Len(c) /\ c[q].key = k
  BY <1>1, <1>2, <1>6
<1>9. \A n \in 1..(q - 1) : c[n].key # k
  <2> TAKE n \in 1..(q - 1)
  <2>1. n \in 1..Len(c) /\ ~(q <= n)
    BY <1>1, <1>8
  <2> QED
    BY <1>3, <1>6, <2>1
<1> QED
  BY <1>7, <1>8, <1>9

\* The values a chain holds for a name: none without a pair of that name, and the first
\* pair's is the first one.
LEMMA NoValues ==
  ASSUME NEW c \in Seq(Pair), NEW k, Positions(c, k) = {}
  PROVE  ValuesOf(c, k) = <<>>
<1>1. Len(c) \in Nat /\ \A n \in 1..Len(c) : c[n].key # k
  BY DEF Positions
<1>2. Len(c) + 1 \in 1..(Len(c) + 1) /\ (Len(c) + 1) - 1 = Len(c)
  BY <1>1
<1>3. \A n \in 1..((Len(c) + 1) - 1) : c[n].key # k
  BY <1>1, <1>2
<1>4. Walk(c, k)[1] = Walk(c, k)[Len(c) + 1]
  BY <1>1, <1>2, <1>3, OthersPassed
<1> QED
  BY <1>1, <1>4, WalkSteps, ValuesAreWalked

LEMMA SomeValues ==
  ASSUME NEW c \in Seq(Pair), NEW k, Positions(c, k) # {}
  PROVE  ValuesOf(c, k) # <<>> /\ Head(ValuesOf(c, k)) = c[FirstOf(c, k)].value
<1> DEFINE q == FirstOf(c, k)
<1>1. q \in 1..Len(c) /\ c[q].key = k /\ \A n \in 1..(q - 1) : c[n].key # k
  BY FirstPosition
<1> HIDE DEF q
<1>2. Len(c) \in Nat /\ q \in 1..(Len(c) + 1) /\ q + 1 \in 1..(Len(c) + 1)
  BY <1>1
<1>3. Walk(c, k)[1] = Walk(c, k)[q]
  BY <1>1, <1>2, OthersPassed
<1>4. Walk(c, k)[q] = <<c[q].value>> \o Walk(c, k)[q + 1]
  BY <1>1, <1>2, WalkSteps
<1> DEFINE rest == Walk(c, k)[q + 1]
           v == c[q].value
<1>5. rest \in Seq(Values) /\ v \in Values
  <2>1. c[q] \in Pair
    BY <1>1
  <2>2. v \in Values
    BY <2>1 DEF Pair
  <2>3. rest \in Seq(Values)
    BY <1>2, ValuesType
  <2> QED
    BY <2>2, <2>3
<1> HIDE DEF rest, v
<1>6. <<v>> \o rest # <<>> /\ Head(<<v>> \o rest) = v
  BY <1>5
<1> QED
  BY <1>3, <1>4, <1>6, ValuesAreWalked DEF q, rest, v

LEMMA Prepending ==
  ASSUME NEW c \in Seq(Pair), NEW e \in Pair
  PROVE  /\ <<e>> \o c \in Seq(Pair) /\ (<<e>> \o c)[1] = e /\ Extends(<<e>> \o c, c)
<1> DEFINE d == <<e>> \o c
<1>1. d \in Seq(Pair) /\ Len(d) = Len(c) + 1 /\ d[1] = e /\ Len(c) \in Nat
  OBVIOUS
<1>2. \A n \in 1..Len(c) : d[n + 1] = c[n]
  OBVIOUS
<1> QED
  BY <1>1, <1>2 DEF Extends

LEMMA Removing ==
  ASSUME NEW c \in Seq(Pair), NEW q \in 1..Len(c)
  PROVE  RemoveAt(c, q) \in Seq(Pair) /\ Removed(RemoveAt(c, q), c, q)
<1> DEFINE s == SubSeq(c, 1, q - 1)
           u == SubSeq(c, q + 1, Len(c))
           d == s \o u
<1>1. Len(c) \in Nat /\ RemoveAt(c, q) = d
  BY DEF RemoveAt
<1>2. /\ s \in Seq(Pair) /\ Len(s) = q - 1 /\ \A n \in 1..(q - 1) : s[n] = c[n]
  OBVIOUS
<1>3. /\ u \in Seq(Pair) /\ Len(u) = Len(c) - q /\ \A n \in 1..(Len(c) - q) : u[n] = c[q + n]
  <2>1. CASE q = Len(c)
    BY <2>1
  <2>2. CASE q < Len(c)
    BY <2>2
  <2> QED
    BY <2>1, <2>2
<1> HIDE DEF s, u
<1>4. /\ d \in Seq(Pair) /\ Len(d) = Len(s) + Len(u)
      /\ \A n \in 1..(Len(s) + Len(u)) : d[n] = IF n <= Len(s) THEN s[n] ELSE u[n - Len(s)]
  BY <1>2, <1>3, ConcatProperties
<1> HIDE DEF d
<1>5. Len(d) = Len(c) - 1
  <2> DEFINE l == Len(c)
  <2>1. l \in Nat /\ q \in 1..l /\ Len(d) = (q - 1) + (l - q)
    BY <1>1, <1>2, <1>3, <1>4
  <2> HIDE DEF l
  <2>2. Len(d) = l - 1
    BY <2>1
  <2> QED
    BY <2>2 DEF l
<1>6. \A n \in 1..(q - 1) : d[n] = c[n]
  <2> TAKE n \in 1..(q - 1)
  <2>1. n \in 1..(Len(s) + Len(u)) /\ n <= Len(s)
    BY <1>1, <1>2, <1>3
  <2> QED
    BY <1>2, <1>4, <2>1
<1>7. \A n \in q..(Len(c) - 1) : d[n] = c[n + 1]
  <2> TAKE n \in q..(Len(c) - 1)
  <2> DEFINE j == n - (q - 1)
  <2>1. j \in 1..(Len(c) - q) /\ q + j = n + 1 /\ n \in 1..(Len(s) + Len(u)) /\ ~(n <= Len(s))
        /\ n - Len(s) = j
    BY <1>1, <1>2, <1>3
  <2> HIDE DEF j
  <2> QED
    BY <1>3, <1>4, <2>1
<1> QED
  BY <1>1, <1>4, <1>5, <1>6, <1>7 DEF Removed

-----------------------------------------------------------------------------
(* The table. *)

Places(h) == UNION {{b} \X DOMAIN h[b] : b \in Buckets}

IInv ==
  /\ TypeOK /\ CounterIsTotal /\ CrashNeedsCollision
  /\ IsFiniteSet(Places(hash))

LEMMA NameFacts ==
  /\ \A n \in Names : Lower[n] \in Keys /\ Bucket[n] \in Buckets
  /\ \A k \in Keys : k \in Names /\ Lower[k] = k /\ Bucket[k] \in Buckets
  /\ LengthKey \in Keys
  /\ \A v \in Values : v # NULL
  BY HashAssumption DEF HashAssumption, Keys, Buckets, NULL

\* A table with a pair more has a place more.
LEMMA PlaceMore ==
  ASSUME NEW h \in [Buckets -> Seq(Pair)], NEW g \in [Buckets -> Seq(Pair)], NEW b \in Buckets,
         Len(g[b]) = Len(h[b]) + 1, \A c \in Buckets \ {b} : g[c] = h[c]
  PROVE  /\ IsFiniteSet(Places(h)) <=> IsFiniteSet(Places(g))
         /\ IsFiniteSet(Places(h)) => Cardinality(Places(g)) = Cardinality(Places(h)) + 1
<1> DEFINE m == Len(h[b])
           x == <<b, m + 1>>
           P == Places(h)
           Q == Places(g)
<1>1. m \in Nat /\ DOMAIN h[b] = 1..m /\ DOMAIN g[b] = 1..(m + 1)
  <2>1. h[b] \in Seq(Pair) /\ g[b] \in Seq(Pair)
    OBVIOUS
  <2> QED
    BY <2>1
<1>2. ASSUME NEW y
      PROVE  /\ y \in P <=> \E c \in Buckets : \E n \in DOMAIN h[c] : y = <<c, n>>
             /\ y \in Q <=> \E c \in Buckets : \E n \in DOMAIN g[c] : y = <<c, n>>
  BY DEF Places
<1>3. \A n : n \in DOMAIN g[b] <=> n \in DOMAIN h[b] \/ n = m + 1
  BY <1>1
<1>4. m + 1 \notin DOMAIN h[b]
  BY <1>1
<1> HIDE DEF P, Q, m
<1>5. ASSUME NEW y PROVE y \in Q <=> y \in P \/ y = x
  <2>1. ASSUME y \in Q PROVE y \in P \/ y = x
    <3>1. PICK c \in Buckets : \E n \in DOMAIN g[c] : y = <<c, n>>
      BY <1>2, <2>1
    <3>2. CASE c = b
      BY <1>2, <1>3, <3>1, <3>2
    <3>3. CASE c # b
      BY <1>2, <3>1, <3>3
    <3> QED
      BY <3>2, <3>3
  <2>2. ASSUME y \in P PROVE y \in Q
    <3>1. PICK c \in Buckets : \E n \in DOMAIN h[c] : y = <<c, n>>
      BY <1>2, <2>2
    <3>2. CASE c = b
      BY <1>2, <1>3, <3>1, <3>2
    <3>3. CASE c # b
      BY <1>2, <3>1, <3>3
    <3> QED
      BY <3>2, <3>3
  <2>3. ASSUME y = x PROVE y \in Q
    BY <1>2, <1>3, <2>3
  <2> QED
    BY <2>1, <2>2, <2>3
<1>6. x \notin P
  <2> SUFFICES ASSUME x \in P PROVE FALSE
    OBVIOUS
  <2>1. PICK c \in Buckets : \E n \in DOMAIN h[c] : x = <<c, n>>
    BY <1>2
  <2> QED
    BY <1>4, <2>1
<1> HIDE DEF x
<1>7. Q = P \cup {x} /\ P \subseteq Q
  BY <1>5
<1>8. IsFiniteSet(P) => IsFiniteSet(Q) /\ Cardinality(Q) = Cardinality(P) + 1
  <2>1. IsFiniteSet(P) => IsFiniteSet(P \cup {x}) /\ Cardinality(P \cup {x}) = Cardinality(P) + 1
    BY <1>6, FS_AddElement
  <2> QED
    BY <1>7, <2>1
<1>9. IsFiniteSet(Q) => IsFiniteSet(P)
  BY <1>7, FS_Subset
<1> QED
  BY <1>8, <1>9 DEF P, Q

LEMMA EmptyTable ==
  ASSUME NEW h, h = NoChains
  PROVE  IsFiniteSet(Places(h)) /\ Cardinality(Places(h)) = 0 /\ h \in [Buckets -> Seq(Pair)]
<1>1. Places(h) = {}
  BY DEF Places, NoChains
<1>2. h \in [Buckets -> Seq(Pair)]
  BY DEF NoChains
<1> QED
  BY <1>1, <1>2, FS_EmptySet

\* A chain in use is counted.
LEMMA Counted ==
  ASSUME IInv, process = "up", NEW b \in Buckets, hash[b] # <<>>
  PROVE  num_headers # 0
<1>1. hash[b] \in Seq(Pair)
  BY DEF IInv, TypeOK
<1>2. <<b, 1>> \in Places(hash)
  <2>1. 1 \in DOMAIN hash[b]
    <3> DEFINE c == hash[b]
    <3>1. c \in Seq(Pair) /\ c # <<>>
      BY <1>1
    <3> HIDE DEF c
    <3>2. 1 \in DOMAIN c
      BY <3>1
    <3> QED
      BY <3>2 DEF c
  <2> QED
    BY <2>1 DEF Places
<1>3. Cardinality(Places(hash)) # 0
  BY <1>2, FS_EmptySet DEF IInv
<1> QED
  BY <1>3 DEF IInv, CounterIsTotal, Stored, Places

\* A lookup finds a value exactly when the chain has a pair of that name.
LEMMA Lookup ==
  ASSUME IInv, process = "up", NEW k \in Names
  PROVE  /\ get_value(k) # NULL <=> Positions(hash[Bucket[k]], k) # {}
         /\ get_value(k) # NULL => k \in Keys /\ get_value(k) \in Values
                                   /\ get_value(k) = Head(ValuesOf(hash[Bucket[k]], k))
<1> DEFINE c == hash[Bucket[k]]
<1>1. Bucket[k] \in Buckets /\ c \in Seq(Pair)
  BY NameFacts DEF IInv, TypeOK
<1>2. get_value(k) = IF num_headers = 0 \/ Positions(c, k) = {} THEN NULL ELSE c[FirstOf(c, k)].value
  BY DEF get_value
<1>3. c # <<>> => num_headers # 0
  BY <1>1, Counted
<1> HIDE DEF c
<1>4. CASE Positions(c, k) = {}
  BY <1>2, <1>4 DEF c
<1>5. CASE Positions(c, k) # {}
  <2>1. FirstOf(c, k) \in 1..Len(c) /\ c[FirstOf(c, k)].key = k
    BY <1>1, <1>5, FirstPosition
  <2>2. c # <<>>
    BY <1>5 DEF Positions
  <2>3. c[FirstOf(c, k)] \in Pair
    BY <1>1, <2>1
  <2>4. c[FirstOf(c, k)].value \in Values /\ k \in Keys
    BY <2>1, <2>3 DEF Pair
  <2>5. get_value(k) = c[FirstOf(c, k)].value
    BY <1>2, <1>3, <1>5, <2>2
  <2>6. Head(ValuesOf(c, k)) = c[FirstOf(c, k)].value
    BY <1>1, <1>5, SomeValues
  <2> QED
    BY <1>5, <2>4, <2>5, <2>6, NameFacts DEF c
<1> QED
  BY <1>4, <1>5

-----------------------------------------------------------------------------
(* The invariant. *)

\* The chains are changed in one bucket only, by a pair more in front or one less.
AddsPair(b, e) ==
  /\ hash' \in [Buckets -> Seq(Pair)] /\ b \in Buckets
  /\ Extends(hash'[b], hash[b]) /\ hash'[b][1] = e
  /\ \A c \in Buckets \ {b} : hash'[c] = hash[c]
DropsPair(b, q) ==
  /\ hash' \in [Buckets -> Seq(Pair)] /\ b \in Buckets
  /\ Removed(hash'[b], hash[b], q)
  /\ \A c \in Buckets \ {b} : hash'[c] = hash[c]

LEMMA AddIs ==
  ASSUME TypeOK, NEW n \in Names, NEW v \in Values, hash' = Prepended(n, v)
  PROVE  AddsPair(Bucket[Lower[n]], [key |-> Lower[n], value |-> v])
<1> DEFINE k == Lower[n]
           b == Bucket[k]
           e == [key |-> k, value |-> v]
<1>1. k \in Keys /\ b \in Buckets
  BY NameFacts
<1>2. e \in Pair
  BY <1>1 DEF Pair
<1>3. hash \in [Buckets -> Seq(Pair)]
  BY DEF TypeOK
<1>4. hash' = [hash EXCEPT ![b] = <<e>> \o @]
  BY DEF Prepended
<1> HIDE DEF e, b
<1>5. hash'[b] = <<e>> \o hash[b] /\ \A c \in Buckets \ {b} : hash'[c] = hash[c]
  BY <1>1, <1>3, <1>4
<1>6. hash[b] \in Seq(Pair)
  BY <1>1, <1>3
<1>7. <<e>> \o hash[b] \in Seq(Pair) /\ (<<e>> \o hash[b])[1] = e /\ Extends(<<e>> \o hash[b], hash[b])
  BY <1>2, <1>6, Prepending
<1>8. hash' \in [Buckets -> Seq(Pair)]
  BY <1>3, <1>4, <1>7
<1> QED
  BY <1>1, <1>5, <1>7, <1>8 DEF AddsPair, e, b

LEMMA RemoveIs ==
  ASSUME IInv, NEW n \in Names, TakesOut(n)
  PROVE  /\ n \in Keys
         /\ DropsPair(Bucket[n], FirstOf(hash[Bucket[n]], n))
         /\ Positions(hash[Bucket[n]], n) # {}
<1> DEFINE b == Bucket[n]
           q == FirstOf(hash[b], n)
<1>1. b \in Buckets /\ hash \in [Buckets -> Seq(Pair)] /\ hash[b] \in Seq(Pair)
  BY NameFacts DEF IInv, TypeOK
<1>2. get_value(n) # NULL /\ process = "up"
  BY DEF TakesOut
<1>3. n \in Keys /\ Positions(hash[b], n) # {}
  BY <1>2, Lookup
<1>4. hash' = [hash EXCEPT ![b] = Remaining(@, n)]
  BY DEF TakesOut
<1>5. q \in 1..Len(hash[b])
  BY <1>1, <1>3, FirstPosition
<1>6. Remaining(hash[b], n) = RemoveAt(hash[b], q)
  BY DEF Remaining
<1> HIDE DEF b, q
<1>7. RemoveAt(hash[b], q) \in Seq(Pair) /\ Removed(RemoveAt(hash[b], q), hash[b], q)
  BY <1>1, <1>5, Removing
<1>8. hash'[b] = RemoveAt(hash[b], q) /\ \A c \in Buckets \ {b} : hash'[c] = hash[c]
  BY <1>1, <1>4, <1>6
<1>9. hash' \in [Buckets -> Seq(Pair)]
  BY <1>1, <1>4, <1>6, <1>7
<1>10. DropsPair(b, q)
  BY <1>1, <1>7, <1>8, <1>9 DEF DropsPair
<1> QED
  BY <1>3, <1>10 DEF b, q

\* Every pair is in the bucket of its name.
Placed(h) == \A b \in Buckets : \A n \in DOMAIN h[b] : Bucket[h[b][n].key] = b

Exact(p, m, c) == /\ p \in {"up", "crashed"} => m = c
                  /\ p = "overrun" <=> c > NUMHEADERS

LEMMA CounterIs ==
  CounterIsTotal <=> Exact(process, num_headers, Cardinality(Places(hash))) /\ Placed(hash)
  BY DEF CounterIsTotal, Stored, Places, Placed, Exact

LEMMA CounterWillBe ==
  CounterIsTotal' <=> Exact(process', num_headers', Cardinality(Places(hash'))) /\ Placed(hash')
  BY DEF CounterIsTotal, Stored, Places, Placed, Exact

\* The chains with a pair more.
LEMMA ChainGrows ==
  ASSUME IInv, NEW n \in Names, NEW v \in Values, hash' = Prepended(n, v)
  PROVE  /\ hash' \in [Buckets -> Seq(Pair)] /\ Placed(hash') /\ IsFiniteSet(Places(hash'))
         /\ Cardinality(Places(hash)) \in Nat
         /\ Cardinality(Places(hash')) = Cardinality(Places(hash)) + 1
<1> DEFINE k == Lower[n]
           b == Bucket[k]
           e == [key |-> k, value |-> v]
<1>1. TypeOK /\ CounterIsTotal /\ IsFiniteSet(Places(hash))
  BY DEF IInv
<1>2. AddsPair(b, e) /\ k \in Keys /\ e.key = k
  BY <1>1, AddIs, NameFacts
<1>b. b = Bucket[e.key]
  OBVIOUS
<1> HIDE DEF b, e, k
<1>4. /\ hash' \in [Buckets -> Seq(Pair)] /\ hash \in [Buckets -> Seq(Pair)] /\ b \in Buckets
      /\ \A c \in Buckets \ {b} : hash'[c] = hash[c]
  BY <1>1, <1>2 DEF AddsPair, TypeOK
<1>e. Extends(hash'[b], hash[b]) /\ hash'[b][1] = e
  BY <1>2 DEF AddsPair
<1>5. Len(hash'[b]) = Len(hash[b]) + 1
  BY <1>e DEF Extends
<1>6. IsFiniteSet(Places(hash')) /\ Cardinality(Places(hash')) = Cardinality(Places(hash)) + 1
  BY <1>1, <1>4, <1>5, PlaceMore
<1>7. Placed(hash')
  <2> SUFFICES ASSUME NEW c \in Buckets, NEW m \in DOMAIN hash'[c]
               PROVE  Bucket[hash'[c][m].key] = c
    BY DEF Placed
  <2>1. \A d \in Buckets : \A j \in DOMAIN hash[d] : Bucket[hash[d][j].key] = d
    BY <1>1, CounterIs DEF Placed
  <2>2. CASE c # b
    BY <1>4, <2>1, <2>2
  <2>3. CASE c = b /\ m = 1
    BY <1>b, <1>e, <2>3
  <2>4. CASE c = b /\ m # 1
    <3> DEFINE j == m - 1
    <3>1. hash[b] \in Seq(Pair) /\ hash'[b] \in Seq(Pair)
      BY <1>4
    <3>2. m \in 1..(Len(hash[b]) + 1) /\ Len(hash[b]) \in Nat /\ DOMAIN hash[b] = 1..Len(hash[b])
      BY <1>5, <2>4, <3>1
    <3>3. j \in DOMAIN hash[b] /\ j + 1 = m
      BY <2>4, <3>2
    <3> HIDE DEF j
    <3>4. hash'[b][j + 1] = hash[b][j]
      BY <1>e, <3>2, <3>3 DEF Extends
    <3> QED
      BY <1>4, <2>1, <2>4, <3>3, <3>4
  <2> QED
    BY <2>2, <2>3, <2>4
<1> QED
  BY <1>1, <1>4, <1>6, <1>7, FS_CardinalityType

LEMMA AddKeeps ==
  ASSUME IInv, NEW n \in Names, NEW v \in Values, hash_add(n, v)
  PROVE  IInv'
<1>1. TypeOK /\ CounterIsTotal /\ process = "up" /\ process' = "up" /\ verdict' = verdict
  BY DEF IInv, hash_add
<1>2. /\ num_headers < NUMHEADERS /\ num_headers' = num_headers + 1
      /\ keys' = [keys EXCEPT ![num_headers] = Lower[n]] /\ hash' = Prepended(n, v)
  BY DEF hash_add
<1>3. num_headers \in Nat /\ NUMHEADERS \in Nat
  BY <1>1, HashAssumption DEF TypeOK, HashAssumption
<1>4. /\ hash' \in [Buckets -> Seq(Pair)] /\ Placed(hash') /\ IsFiniteSet(Places(hash'))
      /\ Cardinality(Places(hash')) = Cardinality(Places(hash)) + 1
  BY <1>2, ChainGrows
<1>5. num_headers = Cardinality(Places(hash))
  BY <1>1, CounterIs DEF Exact
<1>6. Exact(process', num_headers', Cardinality(Places(hash')))
  BY <1>1, <1>2, <1>3, <1>4, <1>5 DEF Exact
<1>7. CounterIsTotal'
  BY <1>4, <1>6, CounterWillBe
<1>8. TypeOK'
  <2>1. keys' \in [0..(NUMHEADERS - 1) -> Keys \cup {""}]
    BY <1>1, <1>2, NameFacts DEF TypeOK
  <2>2. num_headers' \in Nat
    BY <1>2, <1>3
  <2> QED
    BY <1>1, <1>4, <2>1, <2>2 DEF TypeOK
<1>9. CrashNeedsCollision'
  BY <1>1 DEF CrashNeedsCollision
<1> QED
  BY <1>4, <1>7, <1>8, <1>9 DEF IInv

\* The field that does not fit is the one after NUMHEADERS.
LEMMA OverrunKeeps ==
  ASSUME IInv, NEW n \in Names, NEW v \in Values, hash_add_overruns(n, v)
  PROVE  IInv'
<1>1. TypeOK /\ CounterIsTotal /\ process = "up" /\ process' = "overrun" /\ verdict' = verdict
  BY DEF IInv, hash_add_overruns
<1>2. /\ num_headers = NUMHEADERS /\ num_headers' = Packed[Lower[n]] + 1 /\ keys' = keys
      /\ hash' = Prepended(n, v)
  BY DEF hash_add_overruns
<1>3. NUMHEADERS \in Nat /\ num_headers' \in Nat
  <2>1. Packed[Lower[n]] \in Nat
    BY NameFacts, HashAssumption DEF HashAssumption
  <2> QED
    BY <1>2, <2>1, HashAssumption DEF HashAssumption
<1>4. /\ hash' \in [Buckets -> Seq(Pair)] /\ Placed(hash') /\ IsFiniteSet(Places(hash'))
      /\ Cardinality(Places(hash')) = Cardinality(Places(hash)) + 1
  BY <1>2, ChainGrows
<1>5. num_headers = Cardinality(Places(hash))
  BY <1>1, CounterIs DEF Exact
<1>6. Exact(process', num_headers', Cardinality(Places(hash')))
  BY <1>1, <1>2, <1>3, <1>4, <1>5 DEF Exact
<1>7. CounterIsTotal'
  BY <1>4, <1>6, CounterWillBe
<1>8. TypeOK'
  BY <1>1, <1>2, <1>3, <1>4 DEF TypeOK
<1>9. CrashNeedsCollision'
  BY <1>1 DEF CrashNeedsCollision
<1> QED
  BY <1>4, <1>7, <1>8, <1>9 DEF IInv

\* What hash_remove leaves of the counter, and of the process.
Outcome(p, m) == \/ p = "up" /\ m = num_headers - 1
                 \/ p = "cleared" /\ m \in {num_headers - 1, 0}

LEMMA RemoveKeeps ==
  ASSUME IInv, NEW n \in Names, TakesOut(n), Outcome(process', num_headers')
  PROVE  IInv'
<1> DEFINE b == Bucket[n]
           q == FirstOf(hash[b], n)
<1>1. TypeOK /\ CounterIsTotal /\ IsFiniteSet(Places(hash))
  BY DEF IInv
<1>2. DropsPair(b, q)
  BY RemoveIs
<1>3. /\ num_headers \in Nat /\ NUMHEADERS \in Nat
      /\ keys' = Forgotten(n) /\ process = "up" /\ verdict' = verdict
  BY <1>1, HashAssumption DEF TakesOut, TypeOK, HashAssumption
<1> HIDE DEF b, q
<1>4. /\ hash' \in [Buckets -> Seq(Pair)] /\ hash \in [Buckets -> Seq(Pair)] /\ b \in Buckets
      /\ \A c \in Buckets \ {b} : hash'[c] = hash[c]
      /\ Removed(hash'[b], hash[b], q)
  BY <1>1, <1>2 DEF DropsPair, TypeOK
<1>5. Len(hash[b]) = Len(hash'[b]) + 1
  BY <1>4 DEF Removed
<1>6. /\ IsFiniteSet(Places(hash')) <=> IsFiniteSet(Places(hash))
      /\ IsFiniteSet(Places(hash')) => Cardinality(Places(hash)) = Cardinality(Places(hash')) + 1
  <2>1. \A c \in Buckets \ {b} : hash[c] = hash'[c]
    BY <1>4
  <2> QED
    BY <1>4, <1>5, <2>1, PlaceMore
<1>7. /\ IsFiniteSet(Places(hash')) /\ Cardinality(Places(hash')) \in Nat
      /\ Cardinality(Places(hash)) = Cardinality(Places(hash')) + 1
  BY <1>1, <1>6, FS_CardinalityType
<1>8. Placed(hash')
  <2> SUFFICES ASSUME NEW c \in Buckets, NEW m \in DOMAIN hash'[c]
               PROVE  Bucket[hash'[c][m].key] = c
    BY DEF Placed
  <2>1. \A d \in Buckets : \A j \in DOMAIN hash[d] : Bucket[hash[d][j].key] = d
    BY <1>1, CounterIs DEF Placed
  <2>2. CASE c # b
    BY <1>4, <2>1, <2>2
  <2>3. CASE c = b
    <3>1. hash[b] \in Seq(Pair) /\ hash'[b] \in Seq(Pair)
      BY <1>4
    <3>2. /\ Len(hash[b]) \in Nat /\ DOMAIN hash[b] = 1..Len(hash[b])
          /\ m \in 1..(Len(hash[b]) - 1) /\ q \in 1..Len(hash[b])
      BY <1>4, <1>5, <2>3, <3>1 DEF Removed
    <3>3. CASE m \in 1..(q - 1)
      <4>1. hash'[b][m] = hash[b][m] /\ m \in DOMAIN hash[b]
        BY <1>4, <3>2, <3>3 DEF Removed
      <4> QED
        BY <1>4, <2>1, <2>3, <4>1
    <3>4. CASE m \in q..(Len(hash[b]) - 1)
      <4>1. hash'[b][m] = hash[b][m + 1] /\ m + 1 \in DOMAIN hash[b]
        BY <1>4, <3>2, <3>4 DEF Removed
      <4> QED
        BY <1>4, <2>1, <2>3, <4>1
    <3>5. m \in 1..(q - 1) \/ m \in q..(Len(hash[b]) - 1)
      BY <3>2
    <3> QED
      BY <3>3, <3>4, <3>5
  <2> QED
    BY <2>2, <2>3
<1>9. num_headers = Cardinality(Places(hash)) /\ ~(Cardinality(Places(hash)) > NUMHEADERS)
  BY <1>1, <1>3, CounterIs DEF Exact
<1>10. process' \in {"up", "cleared"} /\ num_headers' \in Nat
       /\ (process' = "up" => num_headers' = Cardinality(Places(hash')))
  BY <1>3, <1>7, <1>9 DEF Outcome
<1>11. Exact(process', num_headers', Cardinality(Places(hash')))
  BY <1>3, <1>7, <1>9, <1>10 DEF Exact
<1>12. CounterIsTotal'
  BY <1>8, <1>11, CounterWillBe
<1>13. TypeOK'
  <2>1. keys' \in [0..(NUMHEADERS - 1) -> Keys \cup {""}]
    BY <1>1, <1>3 DEF TypeOK, Forgotten
  <2> QED
    BY <1>1, <1>3, <1>4, <1>10, <2>1 DEF TypeOK
<1>14. CrashNeedsCollision'
  BY <1>10 DEF CrashNeedsCollision
<1> QED
  BY <1>7, <1>12, <1>13, <1>14 DEF IInv

\* A request that has no length is judged through NULL only because of another name.
LEMMA JudgeKeeps ==
  ASSUME IInv, determine_status
  PROVE  IInv'
<1>1. /\ TypeOK /\ CounterIsTotal /\ IsFiniteSet(Places(hash)) /\ UNCHANGED table
      /\ process = "up" /\ process' \in {"up", "crashed"}
  BY DEF IInv, determine_status
<1>2. hash' = hash /\ keys' = keys /\ num_headers' = num_headers
  BY <1>1 DEF table
<1>3. TypeOK'
  BY <1>1, <1>2 DEF TypeOK, determine_status, LengthVerdict
<1>4. CounterIsTotal' /\ IsFiniteSet(Places(hash'))
  BY <1>1, <1>2, CounterIs, CounterWillBe DEF Exact
<1>5. CrashNeedsCollision'
  <2>1. CASE process' # "crashed"
    BY <2>1 DEF CrashNeedsCollision
  <2>2. CASE process' = "crashed"
    <3> DEFINE b == Bucket[LengthKey]
               c == hash[b]
               k == c[1].key
    <3>1. contains_key(LengthKey) /\ get_value(LengthKey) = NULL
      BY <2>2 DEF determine_status
    <3>2. c # <<>> /\ b \in Buckets /\ c \in Seq(Pair)
      BY <1>1, <3>1, NameFacts DEF contains_key, TypeOK
    <3>3. Positions(c, LengthKey) = {}
      BY <1>1, <3>1, Lookup, NameFacts
    <3> HIDE DEF c
    <3>4. 1 \in DOMAIN c
      BY <3>2
    <3>5. c[1] \in Pair
      BY <3>2, <3>4
    <3>6. k \in Keys /\ k # LengthKey
      BY <3>3, <3>4, <3>5 DEF Pair, Positions
    <3>7. Bucket[k] = b
      BY <1>1, <3>2, <3>4, CounterIs DEF Placed, c
    <3>8. Positions(c, k) # {}
      BY <3>4 DEF Positions
    <3>9. PICK j \in Keys \ {LengthKey} : Bucket[j] = b /\ Positions(c, j) # {}
      BY <3>6, <3>7, <3>8
    <3>10. get_value(j) # NULL
      <4>1. j \in Names
        BY <3>9, NameFacts
      <4>2. get_value(j) # NULL <=> Positions(hash[Bucket[j]], j) # {}
        BY <1>1, <4>1, Lookup
      <4> QED
        BY <3>9, <4>2 DEF c
    <3>11. get_value(j)' = get_value(j) /\ get_value(LengthKey)' = get_value(LengthKey)
      BY <1>2 DEF get_value
    <3> QED
      BY <3>1, <3>9, <3>10, <3>11 DEF CrashNeedsCollision
  <2> QED
    BY <2>1, <2>2
<1> QED
  BY <1>3, <1>4, <1>5 DEF IInv

LEMMA Emptied ==
  ASSUME hash' = NoChains, keys' = NoKeys, num_headers' = 0, process' = "up", verdict' = "none"
  PROVE  IInv'
<1>1. IsFiniteSet(Places(hash')) /\ Cardinality(Places(hash')) = 0
        /\ hash' \in [Buckets -> Seq(Pair)]
  BY EmptyTable
<1>2. Placed(hash')
  BY DEF Placed, NoChains
<1>3. CounterIsTotal'
  BY <1>1, <1>2, CounterWillBe, HashAssumption DEF Exact, HashAssumption
<1>4. TypeOK'
  <2>1. NoKeys \in [0..(NUMHEADERS - 1) -> Keys \cup {""}]
    BY DEF NoKeys
  <2> QED
    BY <1>1, <2>1 DEF TypeOK
<1>5. CrashNeedsCollision'
  BY DEF CrashNeedsCollision
<1> QED
  BY <1>1, <1>3, <1>4, <1>5 DEF IInv

LEMMA InitHolds == Init => IInv
<1> SUFFICES ASSUME Init PROVE IInv
  OBVIOUS
<1>0. hash = NoChains /\ keys = NoKeys /\ num_headers = 0 /\ verdict = "none" /\ process = "up"
  BY DEF Init
<1>1. IsFiniteSet(Places(hash)) /\ Cardinality(Places(hash)) = 0 /\ hash \in [Buckets -> Seq(Pair)]
  BY <1>0, EmptyTable
<1>2. Placed(hash)
  BY <1>0 DEF Placed, NoChains
<1>3. CounterIsTotal
  BY <1>0, <1>1, <1>2, CounterIs, HashAssumption DEF Exact, HashAssumption
<1>4. TypeOK
  <2>1. NoKeys \in [0..(NUMHEADERS - 1) -> Keys \cup {""}]
    BY DEF NoKeys
  <2> QED
    BY <1>0, <1>1, <2>1 DEF TypeOK
<1>5. CrashNeedsCollision
  BY <1>0 DEF CrashNeedsCollision
<1> QED
  BY <1>1, <1>3, <1>4, <1>5 DEF IInv

LEMMA Unchanged ==
  ASSUME IInv, UNCHANGED vars
  PROVE  IInv'
<1>1. /\ hash' = hash /\ keys' = keys /\ num_headers' = num_headers /\ verdict' = verdict
      /\ process' = process
  BY DEF vars, table
<1>2. TypeOK'
  BY <1>1 DEF IInv, TypeOK
<1>3. CounterIsTotal' /\ IsFiniteSet(Places(hash'))
  BY <1>1, CounterIs, CounterWillBe DEF IInv
<1>4. CrashNeedsCollision'
  BY <1>1 DEF IInv, CrashNeedsCollision, get_value
<1> QED
  BY <1>2, <1>3, <1>4 DEF IInv

LEMMA StepKeeps ==
  ASSUME IInv, [Next]_vars PROVE IInv'
<1>1. CASE UNCHANGED vars
  BY <1>1, Unchanged
<1>2. ASSUME NEW n \in Names, NEW v \in Values, hash_add(n, v) PROVE IInv'
  BY <1>2, AddKeeps
<1>3. ASSUME NEW n \in Names, NEW v \in Values, hash_add_overruns(n, v) PROVE IInv'
  BY <1>3, OverrunKeeps
<1>4. ASSUME NEW n \in Names, hash_remove(n) \/ hash_remove_overruns(n) PROVE IInv'
  <2>1. TakesOut(n)
    BY <1>4 DEF hash_remove, hash_remove_overruns
  <2>2. process = "up"
    BY <2>1 DEF TakesOut
  <2>3. Outcome(process', num_headers')
    BY <1>4, <2>2 DEF hash_remove, hash_remove_overruns, Outcome
  <2> QED
    BY <2>1, <2>3, RemoveKeeps
<1>5. CASE determine_status
  BY <1>5, JudgeKeeps
<1>6. CASE get_ready_for_pipeline
  BY <1>6, Emptied DEF get_ready_for_pipeline, Collapsed
<1> QED
  BY <1>1, <1>2, <1>3, <1>4, <1>5, <1>6 DEF Next

-----------------------------------------------------------------------------
(* The map. *)

Fields == [k \in Keys |-> ValuesOf(hash[Bucket[k]], k)]

\* hash_add puts a value in front of those of its name.
LEMMA AddPuts ==
  ASSUME IInv, NEW n \in Names, NEW v \in Values, hash' = Prepended(n, v)
  PROVE  Fields' = [Fields EXCEPT ![Lower[n]] = <<v>> \o @]
<1> DEFINE k == Lower[n]
           b == Bucket[k]
           e == [key |-> k, value |-> v]
<1>1. AddsPair(b, e) /\ k \in Keys /\ e.key = k /\ e.value = v
  BY AddIs, NameFacts DEF IInv
<1>2. b = Bucket[k]
  OBVIOUS
<1> HIDE DEF b, e, k
<1>3. b \in Buckets /\ \A c \in Buckets \ {b} : hash'[c] = hash[c]
  BY <1>1 DEF AddsPair
<1>4. Extends(hash'[b], hash[b])
  BY <1>1 DEF AddsPair
<1>5. hash'[b][1].key = k /\ hash'[b][1].value = v
  BY <1>1 DEF AddsPair
<1>6. ASSUME NEW j \in Keys
      PROVE  ValuesOf(hash'[Bucket[j]], j) =
               IF j = k THEN <<v>> \o ValuesOf(hash[Bucket[j]], j) ELSE ValuesOf(hash[Bucket[j]], j)
  <2>1. CASE Bucket[j] = b
    <3>1. ValuesOf(hash'[b], j) = IF hash'[b][1].key = j THEN <<hash'[b][1].value>> \o ValuesOf(hash[b], j)
                                  ELSE ValuesOf(hash[b], j)
      <4> DEFINE d == hash'[b]
                 c == hash[b]
      <4>1. Extends(d, c)
        BY <1>4
      <4> HIDE DEF d, c
      <4>2. ValuesOf(d, j) = IF d[1].key = j THEN <<d[1].value>> \o ValuesOf(c, j)
                             ELSE ValuesOf(c, j)
        BY <4>1, WalkPrepended
      <4> QED
        BY <4>2 DEF d, c
    <3> QED
      BY <1>5, <2>1, <3>1
  <2>2. CASE Bucket[j] # b
    <3>1. Bucket[j] \in Buckets
      BY NameFacts
    <3> QED
      BY <1>2, <1>3, <2>2, <3>1
  <2> QED
    BY <2>1, <2>2
<1>7. Fields' = [j \in Keys |-> IF j = k THEN <<v>> \o Fields[k] ELSE Fields[j]]
  BY <1>6 DEF Fields
<1>8. [Fields EXCEPT ![k] = <<v>> \o @] = [j \in Keys |-> IF j = k THEN <<v>> \o Fields[k] ELSE Fields[j]]
  BY DEF Fields
<1> QED
  BY <1>7, <1>8 DEF k

\* hash_remove takes the latest value of its name away.
LEMMA RemoveDrops ==
  ASSUME IInv, NEW n \in Names, TakesOut(n)
  PROVE  n \in Keys /\ Fields[n] # <<>> /\ Fields' = [Fields EXCEPT ![n] = Tail(@)]
<1> DEFINE b == Bucket[n]
           q == FirstOf(hash[b], n)
<1>1. n \in Keys /\ DropsPair(b, q) /\ Positions(hash[b], n) # {}
  BY RemoveIs
<1>2. hash[b] \in Seq(Pair) /\ b \in Buckets
  BY NameFacts DEF IInv, TypeOK
<1>3. q \in 1..Len(hash[b]) /\ hash[b][q].key = n /\ \A i \in 1..(q - 1) : hash[b][i].key # n
  BY <1>1, <1>2, FirstPosition
<1>4. b = Bucket[n]
  OBVIOUS
<1> HIDE DEF b, q
<1>5. Removed(hash'[b], hash[b], q) /\ (\A c \in Buckets \ {b} : hash'[c] = hash[c])
        /\ hash' \in [Buckets -> Seq(Pair)]
  BY <1>1 DEF DropsPair
<1>6. ASSUME NEW j \in Keys
      PROVE  /\ j = n => ValuesOf(hash[Bucket[j]], j) = <<hash[b][q].value>> \o ValuesOf(hash'[Bucket[j]], j)
             /\ j # n => ValuesOf(hash[Bucket[j]], j) = ValuesOf(hash'[Bucket[j]], j)
  <2>1. CASE Bucket[j] = b
    <3>0. Removed(hash'[b], hash[b], q)
      BY <1>5
    <3>1. /\ hash[b][q].key = j /\ (\A i \in 1..(q - 1) : hash[b][i].key # j)
               => ValuesOf(hash[b], j) = <<hash[b][q].value>> \o ValuesOf(hash'[b], j)
          /\ hash[b][q].key # j => ValuesOf(hash[b], j) = ValuesOf(hash'[b], j)
      BY <3>0, WalkRemoved
    <3> QED
      BY <1>3, <2>1, <3>1
  <2>2. CASE Bucket[j] # b
    <3>1. Bucket[j] \in Buckets
      BY NameFacts
    <3> QED
      BY <1>4, <1>5, <2>2, <3>1
  <2> QED
    BY <2>1, <2>2
<1>7. hash[b][q].value \in Values
  <2>1. hash[b][q] \in Pair
    BY <1>2, <1>3
  <2> QED
    BY <2>1 DEF Pair
<1>8. ValuesOf(hash'[b], n) \in Seq(Values)
  <2>1. hash'[b] \in Seq(Pair)
    BY <1>2, <1>5
  <2> DEFINE d == hash'[b]
  <2>2. d \in Seq(Pair) /\ 1 \in 1..(Len(d) + 1)
    BY <2>1
  <2> HIDE DEF d
  <2>3. Walk(d, n)[1] \in Seq(Values)
    BY <2>2, ValuesType
  <2> QED
    BY <2>3, ValuesAreWalked DEF d
<1>9. ValuesOf(hash[b], n) = <<hash[b][q].value>> \o ValuesOf(hash'[b], n)
  BY <1>1, <1>4, <1>6
<1>10. ValuesOf(hash[b], n) # <<>> /\ Tail(ValuesOf(hash[b], n)) = ValuesOf(hash'[b], n)
  <2> DEFINE x == hash[b][q].value
             s == ValuesOf(hash'[b], n)
  <2>1. x \in Values /\ s \in Seq(Values)
    BY <1>7, <1>8
  <2> HIDE DEF x, s
  <2>2. <<x>> \o s # <<>> /\ Tail(<<x>> \o s) = s
    BY <2>1
  <2> QED
    BY <1>9, <2>2 DEF x, s
<1>11. Fields[n] = ValuesOf(hash[b], n)
  BY <1>1, <1>4 DEF Fields
<1>12. Fields' = [j \in Keys |-> IF j = n THEN Tail(Fields[n]) ELSE Fields[j]]
  <2>1. ASSUME NEW j \in Keys
        PROVE  ValuesOf(hash'[Bucket[j]], j) = IF j = n THEN Tail(Fields[n]) ELSE Fields[j]
    <3>1. CASE j = n
      BY <1>4, <1>10, <1>11, <3>1
    <3>2. CASE j # n
      BY <1>6, <3>2 DEF Fields
    <3> QED
      BY <3>1, <3>2
  <2> QED
    BY <2>1 DEF Fields
<1>13. [Fields EXCEPT ![n] = Tail(@)] = [j \in Keys |-> IF j = n THEN Tail(Fields[n]) ELSE Fields[j]]
  BY DEF Fields
<1> QED
  BY <1>1, <1>10, <1>11, <1>12, <1>13

\* determine_status finds the length that was declared last, or that there is none.
LEMMA JudgeIs ==
  ASSUME IInv, determine_status
  PROVE  \/ Fields' = Fields /\ verdict' = verdict
         \/ /\ Fields' = Fields
            /\ verdict' = IF Fields[LengthKey] = <<>> THEN "411" ELSE LengthVerdict(Head(Fields[LengthKey]))
<1> DEFINE c == hash[Bucket[LengthKey]]
<1>1. hash' = hash /\ process = "up"
  BY DEF determine_status, table
<1>2. Fields' = Fields
  BY <1>1 DEF Fields
<1>3. LengthKey \in Names /\ LengthKey \in Keys /\ Bucket[LengthKey] \in Buckets
  BY NameFacts
<1>4. Fields[LengthKey] = ValuesOf(c, LengthKey) /\ c \in Seq(Pair)
  BY <1>3 DEF Fields, IInv, TypeOK
<1>5. CASE ~contains_key(LengthKey)
  <2>1. c = <<>>
    BY <1>1, <1>3, <1>5, Counted DEF contains_key
  <2>2. Positions(c, LengthKey) = {}
    BY <2>1 DEF Positions
  <2>3. Fields[LengthKey] = <<>>
    BY <1>4, <2>2, NoValues
  <2>4. verdict' = "411"
    BY <1>5 DEF determine_status
  <2> QED
    BY <1>2, <2>3, <2>4
<1>6. CASE contains_key(LengthKey) /\ get_value(LengthKey) # NULL
  <2>1. verdict' = LengthVerdict(get_value(LengthKey))
    BY <1>6 DEF determine_status
  <2>2. Positions(c, LengthKey) # {} /\ get_value(LengthKey) = Head(ValuesOf(c, LengthKey))
    BY <1>1, <1>3, <1>6, Lookup
  <2>3. Fields[LengthKey] # <<>>
    BY <1>4, <2>2, SomeValues
  <2> QED
    BY <1>2, <1>4, <2>1, <2>2, <2>3
<1>7. CASE contains_key(LengthKey) /\ get_value(LengthKey) = NULL
  <2>1. verdict' = verdict
    BY <1>7 DEF determine_status
  <2> QED
    BY <1>2, <2>1
<1> QED
  BY <1>5, <1>6, <1>7

LEMMA EmptyFields ==
  ASSUME NEW h, h = NoChains
  PROVE  [k \in Keys |-> ValuesOf(h[Bucket[k]], k)] = [k \in Keys |-> <<>>]
<1>1. ASSUME NEW k \in Keys PROVE ValuesOf(h[Bucket[k]], k) = <<>>
  <2>1. h[Bucket[k]] = <<>>
    BY NameFacts DEF NoChains
  <2>2. <<>> \in Seq(Pair) /\ Positions(<<>>, k) = {}
    BY DEF Positions
  <2> QED
    BY <2>1, <2>2, NoValues
<1> QED
  BY <1>1

LEMMA InitMaps == Init => Promise!Init
<1> SUFFICES ASSUME Init PROVE Promise!Init
  OBVIOUS
<1>1. hash = NoChains /\ verdict = "none"
  BY DEF Init
<1> QED
  BY <1>1, EmptyFields DEF Promise!Init, Promise!Empty

LEMMA StepMaps ==
  ASSUME IInv, [Next]_vars PROVE [Promise!Next]_(Promise!vars)
<1>1. ASSUME Fields' = Fields, verdict' = verdict PROVE UNCHANGED Promise!vars
  BY <1>1 DEF Promise!vars, Fields
<1>2. CASE UNCHANGED vars
  BY <1>1, <1>2 DEF vars, table, Fields
<1>3. ASSUME NEW n \in Names, NEW v \in Values, hash_add(n, v) \/ hash_add_overruns(n, v)
      PROVE  Promise!Next
  <2>0. hash' = Prepended(n, v) /\ verdict' = verdict
    BY <1>3 DEF hash_add, hash_add_overruns
  <2>1. Fields' = [Fields EXCEPT ![Lower[n]] = <<v>> \o @]
    BY <2>0, AddPuts
  <2>2. Promise!Put(Lower[n], v)
    BY <2>0, <2>1 DEF Promise!Put, Fields
  <2>3. Lower[n] \in Keys
    BY NameFacts
  <2> QED
    BY <2>2, <2>3 DEF Promise!Next
<1>5. ASSUME NEW n \in Names, hash_remove(n) \/ hash_remove_overruns(n) PROVE Promise!Next
  <2>0. TakesOut(n)
    BY <1>5 DEF hash_remove, hash_remove_overruns
  <2>1. n \in Keys /\ Fields[n] # <<>> /\ Fields' = [Fields EXCEPT ![n] = Tail(@)]
    BY <2>0, RemoveDrops
  <2>2. verdict' = verdict
    BY <2>0 DEF TakesOut
  <2>3. Promise!Drop(n)
    BY <2>1, <2>2 DEF Promise!Drop, Fields
  <2> QED
    BY <2>1, <2>3 DEF Promise!Next
<1>6. CASE determine_status
  <2>1. \/ Fields' = Fields /\ verdict' = verdict
        \/ /\ Fields' = Fields
           /\ verdict' = IF Fields[LengthKey] = <<>> THEN "411"
                         ELSE LengthVerdict(Head(Fields[LengthKey]))
    BY <1>6, JudgeIs
  <2>2. CASE Fields' = Fields /\ verdict' = verdict
    BY <1>1, <2>2
  <2>3. CASE /\ Fields' = Fields
             /\ verdict' = IF Fields[LengthKey] = <<>> THEN "411"
                           ELSE LengthVerdict(Head(Fields[LengthKey]))
    <3>1. Promise!Judge
      BY <2>3 DEF Promise!Judge, Fields
    <3> QED
      BY <3>1 DEF Promise!Next
  <2> QED
    BY <2>1, <2>2, <2>3
<1>7. CASE get_ready_for_pipeline
  <2>1. hash' = NoChains /\ verdict' = "none"
    BY <1>7 DEF get_ready_for_pipeline, Collapsed
  <2>2. Fields' = [k \in Keys |-> <<>>]
    BY <2>1, EmptyFields DEF Fields
  <2>3. Promise!Clear
    BY <2>1, <2>2 DEF Promise!Clear, Promise!Empty, Fields
  <2> QED
    BY <2>3 DEF Promise!Next
<1> QED
  BY <1>2, <1>3, <1>5, <1>6, <1>7 DEF Next

-----------------------------------------------------------------------------
(* The theorems. *)

LEMMA Invariance == Spec => []IInv
<1>1. IInv /\ [Next]_vars => IInv'
  BY StepKeeps
<1> QED
  BY <1>1, InitHolds, PTL DEF Spec

\* The chains hold pairs, keys[] holds names, and the counter is a number.
THEOREM TypeCorrect == Spec => []TypeOK
<1>1. IInv => TypeOK
  BY DEF IInv
<1> QED
  BY <1>1, Invariance, PTL

\* num_headers is the number of pairs in the chains until a field comes for which keys[] has
\* no room, which is the one after NUMHEADERS, and every pair is where the lookups search
\* for it, for every hash function and after every sequence of operations.
THEOREM CounterExact == Spec => []CounterIsTotal
<1>1. IInv => CounterIsTotal
  BY DEF IInv
<1> QED
  BY <1>1, Invariance, PTL

\* determine_status reads a length through NULL only where contains_key was misled by
\* another name in content-length's bucket.
THEOREM CrashesByCollision == Spec => []CrashNeedsCollision
<1>1. IInv => CrashNeedsCollision
  BY DEF IInv
<1> QED
  BY <1>1, Invariance, PTL

\* The chained table is the map HeaderMap: lookups, additions, removals and the judgement of
\* a POST are those of a map from names to values, however the names share the buckets.
THEOREM TableIsMap == Spec => ImplementsHeaderMap
<1>1. IInv /\ [Next]_vars => [Promise!Next]_(Promise!vars)
  BY StepMaps
<1> QED
  BY <1>1, InitMaps, Invariance, PTL DEF Spec, ImplementsHeaderMap, Promise!Spec
=============================================================================
