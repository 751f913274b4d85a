------------------------------ MODULE Induction ------------------------------
(* Induction without operator parameters: what holds at 0 and is passed on   *)
(* from each number to the next, and what a definition by recursion over an  *)
(* initial segment of the naturals describes.                                *)
EXTENDS Integers, WellFoundedInduction, TLAPS

(* Every non-empty set of naturals has a least member.                     *)
LEMMA LeastMember ==
  ASSUME NEW S \in SUBSET Nat, S # {}
  PROVE  \E m \in S : \A j \in S : m <= j
<1> DEFINE R == OpToRel(<, Nat)
<1>1. IsWellFoundedOn(R, Nat)
  BY NatLessThanWellFounded, Zenon
<1>2. \A a, b \in Nat : a < b => <<a, b>> \in R
  BY DEF OpToRel
<1> HIDE DEF R
<1> S \subseteq Nat
  OBVIOUS
<1>3. PICK m \in S : \A j \in S : <<j, m>> \notin R
  BY <1>1, WFMin, Zenon
<1>4. ASSUME NEW j \in S PROVE m <= j
  <2>1. ~(j < m)
    BY <1>2, <1>3
  <2> QED BY <2>1
<1> QED BY <1>4

(* What holds at 0 and is passed on from each number to the next holds up  *)
(* to n.                                                                   *)
LEMMA StepByStep ==
  ASSUME NEW n \in Nat, NEW S,
         0 \in S,
         \A i \in 1..n : i - 1 \in S => i \in S
  PROVE  0..n \subseteq S
<1> SUFFICES ASSUME NEW k \in 0..n, k \notin S PROVE FALSE
  OBVIOUS
<1> DEFINE T == {i \in 0..n : i \notin S}
<1>1. T \in SUBSET Nat /\ T # {}
  OBVIOUS
<1>2. PICK m \in T : \A j \in T : m <= j
  <2> HIDE DEF T
  <2> QED BY <1>1, LeastMember, Zenon
<1>3. m \in Nat /\ m - 1 \in T /\ ~(m <= m - 1)
  OBVIOUS
<1> QED BY <1>2, <1>3

(* A definition by recursion over 0..n describes a function.               *)
HasSolution(n, X, x0, G) ==
  \E f \in [0..n -> X] : f[0] = x0 /\ \A i \in 1..n : f[i] = G[i][f[i - 1]]

LEMMA RecursionDefines ==
  ASSUME NEW n \in Nat, NEW X, NEW x0 \in X, NEW G \in [1..n -> [X -> X]]
  PROVE  HasSolution(n, X, x0, G)
<1> DEFINE Good(k, f) == f[0] = x0 /\ \A i \in 1..k : f[i] = G[i][f[i - 1]]
           S == {k \in 0..n : \E f \in [0..k -> X] : Good(k, f)}
<1>1. 0 \in S
  <2> DEFINE f == [i \in 0..0 |-> x0]
  <2>1. f \in [0..0 -> X] /\ Good(0, f)
    OBVIOUS
  <2> HIDE DEF f, Good
  <2>2. \E h \in [0..0 -> X] : Good(0, h)
    BY <2>1
  <2> QED BY <2>2
<1>2. ASSUME NEW k \in 1..n, k - 1 \in S PROVE k \in S
  <2>1. PICK f \in [0..(k - 1) -> X] : Good(k - 1, f)
    BY <1>2
  <2> DEFINE g == [i \in 0..k |-> IF i = k THEN G[k][f[k - 1]] ELSE f[i]]
  <2>2. g \in [0..k -> X]
    OBVIOUS
  <2>3. g[0] = x0
    BY <2>1
  <2>4. ASSUME NEW i \in 1..k PROVE g[i] = G[i][g[i - 1]]
    BY <2>1
  <2>5. Good(k, g)
    BY <2>3, <2>4
  <2> HIDE DEF g, Good
  <2>6. \E h \in [0..k -> X] : Good(k, h)
    BY <2>2, <2>5
  <2> QED BY <2>6
<1>3. n \in S
  <2>1. \A k \in 1..n : k - 1 \in S => k \in S
    BY <1>2
  <2> HIDE DEF S
  <2>2. 0..n \subseteq S
    BY <1>1, <2>1, StepByStep, Zenon
  <2> QED BY <2>2
<1>4. PICK f \in [0..n -> X] : Good(n, f)
  BY <1>3
<1> QED BY <1>4 DEF HasSolution

(* A recursively defined function has its values where one step keeps      *)
(* them.                                                                   *)
LEMMA RecursionStaysIn ==
  ASSUME NEW n \in Nat, NEW X, NEW f,
         f[0] \in X,
         \A i \in 1..n : f[i - 1] \in X => f[i] \in X
  PROVE  f[n] \in X
<1> DEFINE S == {i \in 0..n : f[i] \in X}
<1>1. 0 \in S /\ \A i \in 1..n : i - 1 \in S => i \in S
  OBVIOUS
<1>2. 0..n \subseteq S
  <2> HIDE DEF S
  <2> QED BY <1>1, StepByStep, Zenon
<1> QED BY <1>2

=============================================================================
