------------------------------ MODULE Numbers ------------------------------
(***************************************************************************)
(* Facts about natural numbers that several proofs need in place of        *)
(* induction: a set of numbers has a least one, and one with a bound has a *)
(* greatest one.                                                           *)
(***************************************************************************)
EXTENDS Integers, WellFoundedInduction, TLAPS

\* A nonempty set of numbers has a least one.
LEMMA Least ==
  ASSUME NEW S, S \subseteq Nat, S # {}
  PROVE  \E m \in S : \A s \in S : m <= s
<1> DEFINE Less == { ss \in Nat \X Nat : ss[1] < ss[2] }
<1>1. IsWellFoundedOn(Less, Nat)
  BY NatLessThanWellFounded DEF OpToRel
<1> HIDE DEF Less
<1>2. PICK m \in S : \A s \in S : ~ (<<s, m>> \in Less)
  BY <1>1, WFMin, Zenon
<1>3. \A s \in S : ~ (s < m)
  BY <1>2 DEF Less
<1> QED
  BY <1>3

\* A set of numbers up to n has a greatest one.
LEMMA Greatest ==
  ASSUME NEW n \in Nat, NEW S, S \subseteq 1 .. n, S # {}
  PROVE  \E m \in S : \A s \in S : s <= m
<1> DEFINE T == { n - s : s \in S }
<1>1. T \subseteq Nat /\ T # {}
  <2>1. \A s \in S : n - s \in Nat
    OBVIOUS
  <2>2. PICK s \in S : n - s \in T
    OBVIOUS
  <2> QED
    BY <2>1, <2>2
<1> DEFINE Less == { ss \in Nat \X Nat : ss[1] < ss[2] }
<1>2. IsWellFoundedOn(Less, Nat)
  BY NatLessThanWellFounded DEF OpToRel
<1> HIDE DEF T, Less
<1>3. PICK t \in T : \A u \in T : ~ (<<u, t>> \in Less)
  BY <1>1, <1>2, WFMin, Zenon
<1> USE DEF T
<1>4. \A u \in T : ~ (u < t)
  BY <1>1, <1>3 DEF Less
<1>5. PICK m \in S : t = n - m
  OBVIOUS
<1>6. ASSUME NEW s \in S PROVE s <= m
  <2>1. ~ (n - s < n - m)
    BY <1>4, <1>5
  <2> QED
    BY <1>5, <2>1
<1> QED
  BY <1>5, <1>6

\* Induction downwards from n + 1, about a set.
LEMMA Downwards ==
  ASSUME NEW n \in Nat, NEW P, n + 1 \in P, \A s \in 1 .. n : s + 1 \in P => s \in P
  PROVE  1 .. n + 1 \subseteq P
<1> SUFFICES ASSUME (1 .. n + 1) \ P # {} PROVE FALSE
  OBVIOUS
<1>1. PICK m \in (1 .. n + 1) \ P : \A s \in (1 .. n + 1) \ P : s <= m
  <2>1. n + 1 \in Nat /\ (1 .. n + 1) \ P \subseteq 1 .. n + 1
    OBVIOUS
  <2> QED
    BY <2>1, Greatest
<1>2. m \in 1 .. n /\ m + 1 \in 1 .. n + 1 /\ ~ (m + 1 <= m)
  BY <1>1
<1> QED
  BY <1>1, <1>2
=============================================================================
