---------------------------- MODULE Induction_proofs ----------------------------
(***************************************************************************)
(* Induction over the natural numbers, stated with sets: the theorems of   *)
(* the library take an operator, which no prover here can instantiate; the *)
(* well-foundedness of < does not need one.                                *)
(***************************************************************************)
EXTENDS Integers, WellFoundedInduction, TLAPS

\* A set of numbers that is not empty has a least one.
LEMMA Least == ASSUME NEW T, T \subseteq Nat, T # {} PROVE \E x \in T : \A y \in T : x <= y
<1> DEFINE R == {p \in Nat \X Nat : p[1] < p[2]}
<1>1. IsWellFoundedOn(R, Nat)
  BY NatLessThanWellFounded DEF OpToRel
<1>2. \A x, y \in Nat : <<y, x>> \in R <=> y < x
  OBVIOUS
<1> HIDE DEF R
<1>3. PICK x \in T : \A y \in T : ~(<<y, x>> \in R)
  BY <1>1, WFMin
<1>4. ASSUME NEW y \in T PROVE x <= y
  <2>1. x \in Nat /\ y \in Nat /\ ~(y < x)
    BY <1>2, <1>3
  <2> QED
    BY <2>1
<1> QED
  BY <1>4

\* A bounded set of numbers has a greatest one.
LEMMA Greatest ==
  ASSUME NEW T, NEW m \in Nat, T \subseteq 0 .. m, T # {}
  PROVE  \E x \in T : \A y \in T : y <= x
<1> DEFINE U == {n \in Nat : \A y \in T : y <= n}
<1>1. U \subseteq Nat /\ m \in U
  OBVIOUS
<1>2. PICK n \in U : \A k \in U : n <= k
  <2> HIDE DEF U
  <2> QED
    BY <1>1, Least
<1>3. n \in T
  <2> SUFFICES ASSUME n \notin T PROVE FALSE
    OBVIOUS
  <2>1. \A y \in T : y \in Nat /\ y < n
    BY <1>2
  <2> PICK z \in T : TRUE
    OBVIOUS
  <2>2. n \in Nat /\ n # 0
    BY <1>2, <2>1
  <2>3. n - 1 \in Nat /\ \A y \in T : y <= n - 1
    BY <2>1, <2>2
  <2>4. n - 1 \in U
    BY <2>3
  <2> QED
    BY <1>2, <2>2, <2>4
<1> QED
  BY <1>3

\* Of an interval, a set with its first number and with every next one has all.
LEMMA Upward ==
  ASSUME NEW S, NEW a \in Nat, NEW b \in Nat, a \in S,
         \A n \in a .. b - 1 : n \in S => n + 1 \in S
  PROVE  a .. b \subseteq S
<1> DEFINE T == {n \in a .. b : n \notin S}
<1> SUFFICES ASSUME T # {} PROVE FALSE
  OBVIOUS
<1>1. T \subseteq Nat
  OBVIOUS
<1>2. PICK x \in T : \A y \in T : x <= y
  <2> HIDE DEF T
  <2> QED
    BY <1>1, Least
<1>3. x # a /\ x \in a .. b /\ x - 1 \in a .. b - 1
  BY <1>2
<1>4. x - 1 \notin T
  BY <1>2, <1>3
<1>5. x - 1 \in S /\ x - 1 + 1 = x
  BY <1>3, <1>4
<1> QED
  BY <1>2, <1>3, <1>5

\* The same downwards.
LEMMA Downward ==
  ASSUME NEW S, NEW a \in Nat, NEW b \in Nat, b \in S,
         \A n \in a .. b - 1 : n + 1 \in S => n \in S
  PROVE  a .. b \subseteq S
<1> DEFINE T == {n \in a .. b : n \notin S}
<1> SUFFICES ASSUME T # {} PROVE FALSE
  OBVIOUS
<1>1. T \subseteq 0 .. b
  OBVIOUS
<1>2. PICK x \in T : \A y \in T : y <= x
  <2> HIDE DEF T
  <2> QED
    BY <1>1, Greatest
<1>3. x # b /\ x \in a .. b - 1 /\ x + 1 \in a .. b
  BY <1>2
<1>4. x + 1 \notin T
  BY <1>2, <1>3
<1>5. x + 1 \in S
  BY <1>3, <1>4
<1> QED
  BY <1>2, <1>3, <1>5
=============================================================================
