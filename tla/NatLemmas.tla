------------------------------ MODULE NatLemmas ------------------------------
(***************************************************************************)
(* Least numbers and induction over the natural numbers, stated with SETS  *)
(* of numbers where the library's theorems take a predicate.  They rest on *)
(* the well-foundedness of the strict subset ordering of finite sets: n is *)
(* below m when 1 .. n is a strict subset of 1 .. m.                       *)
(* Then the facts about division and sequences that several proofs need.   *)
(***************************************************************************)
EXTENDS Naturals, SequencesExt, FiniteSetTheorems, TLAPS

-----------------------------------------------------------------------------

\* A set of numbers that is not empty has a least one.
LEMMA LeastExists ==
  ASSUME NEW S \in SUBSET Nat, S # {}
  PROVE  \E x \in S : \A y \in S : x <= y
<1> DEFINE R == StrictSubsetOrdering(Nat)
           F == FiniteSubsetsOf(Nat)
           T == {1 .. x : x \in S}
<1>1. T \subseteq F /\ T # {}
  <2>1. \A x \in Nat : 1 .. x \in SUBSET Nat /\ IsFiniteSet(1 .. x)
    BY FS_Interval
  <2> QED BY <2>1 DEF FiniteSubsetsOf
<1>2. IsWellFoundedOn(R, F)
  BY FS_StrictSubsetOrderingWellFounded
<1> HIDE DEF R, F, T
<1>3. PICK t \in T : \A u \in T : ~(<<u, t>> \in R)
  BY <1>1, <1>2, WFMin
<1>4. PICK x \in S : t = 1 .. x
  BY <1>3 DEF T
<1>5. ASSUME NEW y \in S, y < x PROVE FALSE
  <2>1. 1 .. y \in T /\ 1 .. y \in SUBSET Nat /\ 1 .. x \in SUBSET Nat
    BY DEF T
  <2>2. 1 .. y \subseteq 1 .. x /\ x \in 1 .. x /\ x \notin 1 .. y
    BY <1>5
  <2>3. <<1 .. y, 1 .. x>> \in R
    BY <2>1, <2>2 DEF R, StrictSubsetOrdering
  <2> QED BY <1>3, <1>4, <2>1, <2>3
<1> QED BY <1>5

\* Min finds it.
LEMMA LeastOf ==
  ASSUME NEW S \in SUBSET Nat, S # {}
  PROVE  Min(S) \in S /\ \A y \in S : Min(S) <= y
BY LeastExists DEF Min

\* Induction.
LEMMA SetInduction ==
  ASSUME NEW S \in SUBSET Nat, 0 \in S, \A n \in S : n + 1 \in S
  PROVE  S = Nat
<1> SUFFICES ASSUME Nat \ S # {} PROVE FALSE
  OBVIOUS
<1>1. PICK x \in Nat \ S : \A y \in Nat \ S : x <= y
  BY LeastExists
<1>2. x # 0 /\ x - 1 \in Nat /\ x - 1 \notin Nat \ S
  BY <1>1
<1>3. (x - 1) + 1 \in S
  BY <1>2
<1> QED BY <1>1, <1>3

-----------------------------------------------------------------------------
(* Division.                                                               *)

\* A remainder is the only one of its division.
LEMMA Remainder ==
  ASSUME NEW m \in Nat \ {0}, NEW q \in Int, NEW r \in 0 .. m - 1
  PROVE  (m * q + r) % m = r
OBVIOUS

\* Counting up and down modulo m, also past its ends.
LEMMA ModSteps ==
  ASSUME NEW m \in Nat \ {0}, NEW n \in Nat
  PROVE  /\ ((n % m) + 1) % m = (n + 1) % m
         /\ n # 0 => ((n % m) + m - (1 % m)) % m = (n - 1) % m
<1> DEFINE q == n \div m
           r == n % m
<1>1. q \in Int /\ r \in 0 .. m - 1 /\ n = m * q + r
  OBVIOUS
<1>2. m * (q + 1) = m * q + m /\ m * (q - 1) = m * q - m /\ m * 1 = m /\ m * 0 = 0
  BY <1>1
<1> HIDE DEF q, r
<1>3. ASSUME r + 1 < m PROVE (r + 1) % m = (n + 1) % m
  <2>1. (r + 1) % m = r + 1
    BY <1>1, <1>3
  <2>2. (m * q + (r + 1)) % m = r + 1
    BY <1>1, <1>3, Remainder
  <2>3. n + 1 = m * q + (r + 1)
    BY <1>1
  <2> QED BY <2>1, <2>2, <2>3
<1>4. ASSUME r + 1 = m PROVE (r + 1) % m = (n + 1) % m
  <2>1. (m * (q + 1) + 0) % m = 0 /\ (m * 1 + 0) % m = 0
    BY <1>1, Remainder
  <2>2. n + 1 = m * (q + 1) + 0 /\ r + 1 = m * 1 + 0
    BY <1>1, <1>2, <1>4
  <2> QED BY <2>1, <2>2
<1>5. (r + 1) % m = (n + 1) % m
  BY <1>1, <1>3, <1>4
<1>6. ASSUME m = 1 PROVE (r + m - (1 % m)) % m = (n - 1) % m
  <2>1. \A x \in Int : x % m = 0
    BY <1>6
  <2> QED BY <1>1, <1>6, <2>1
<1>7. ASSUME m # 1 /\ r # 0 PROVE (r + m - (1 % m)) % m = (n - 1) % m
  <2>1. 1 % m = 1
    BY <1>7
  <2>2. (m * q + (r - 1)) % m = r - 1 /\ (m * 1 + (r - 1)) % m = r - 1
    BY <1>1, <1>7, Remainder
  <2>3. n - 1 = m * q + (r - 1) /\ r + m - 1 = m * 1 + (r - 1)
    BY <1>1, <1>2
  <2> QED BY <2>1, <2>2, <2>3
<1>8. ASSUME m # 1 /\ r = 0 PROVE (r + m - (1 % m)) % m = (n - 1) % m
  <2>1. 1 % m = 1
    BY <1>8
  <2>2. (m * (q - 1) + (m - 1)) % m = m - 1 /\ (m - 1) % m = m - 1
    BY <1>1, Remainder
  <2>3. n - 1 = m * (q - 1) + (m - 1)  /\ r + m - 1 = m - 1
    BY <1>1, <1>2, <1>8
  <2> QED BY <2>1, <2>2, <2>3
<1>9. (r + m - (1 % m)) % m = (n - 1) % m
  BY <1>6, <1>7, <1>8
<1> QED BY <1>5, <1>9 DEF r

\* How often m must be taken to reach n, and by how much that exceeds n.
LEMMA RoundUp ==
  ASSUME NEW m \in Nat \ {0}, NEW n \in Nat
  PROVE  LET q == (n + m - 1) \div m
         IN q \in Nat /\ q * m \in Nat /\ n <= q * m /\ q * m <= n + m - 1
<1> DEFINE a == n + m - 1
           q == a \div m
           r == a % m
<1>1. a \in Nat
  OBVIOUS
<1> HIDE DEF a
<1>2. q \in Nat /\ r \in 0 .. m - 1 /\ a = m * q + r
  BY <1>1
<1> HIDE DEF q, r
<1>3. q * m = m * q /\ q * m \in Nat
  BY <1>2
<1>4. n <= q * m /\ q * m <= a
  BY <1>2, <1>3 DEF a
<1> QED BY <1>2, <1>3, <1>4 DEF a, q

-----------------------------------------------------------------------------
(* Sequences.                                                              *)

\* A function on 1 .. n is a sequence of length n.
LEMMA FunctionIsSeq ==
  ASSUME NEW S, NEW n \in Nat, NEW f \in [1 .. n -> S]
  PROVE  f \in Seq(S) /\ Len(f) = n
OBVIOUS

=============================================================================
