------------------------------- MODULE WellOrder -------------------------------
(***************************************************************************)
(* The well-ordering of the natural numbers as a fact about sets.  The     *)
(* proofs use it where they need induction: the set of the counterexamples *)
(* has no least element, so it is empty.                                   *)
(***************************************************************************)
EXTENDS Integers, TLAPS, WellFoundedInduction

(* In a relation that is < on the naturals, every nonempty set of naturals *)
(* has a least element.                                                    *)
LEMMA LeastOfRelation ==
  ASSUME NEW R, IsWellFoundedOn(R, Nat),
         \A y, x \in Nat : <<y, x>> \in R <=> y < x,
         NEW T, T \subseteq Nat, T # {}
  PROVE  \E x \in T : \A y \in T : x <= y
<1>1. \E x \in T : \A y \in T : ~ (<<y, x>> \in R)
  <2>1. \A S : IsWellFoundedOn(R, S) =>
          \A U : U \subseteq S /\ U # {} =>
            \E x \in U : \A y \in U : ~ (<<y, x>> \in R)
    BY WFMin
  <2>2. \A U : U \subseteq Nat /\ U # {} =>
          \E x \in U : \A y \in U : ~ (<<y, x>> \in R)
    BY <2>1
  <2>3. T \subseteq Nat /\ T # {}
    OBVIOUS
  <2>4. QED
    BY ONLY <2>2, <2>3, ZenonT(20)
<1>2. PICK x \in T : \A y \in T : ~ (<<y, x>> \in R)
  BY <1>1
<1>3. ASSUME NEW y \in T PROVE x <= y
  <2>1. x \in Nat /\ y \in Nat
    OBVIOUS
  <2>2. ~ (y < x)
    BY <1>2, <2>1
  <2>3. QED
    BY <2>1, <2>2
<1>4. QED
  BY <1>3

(* Every nonempty set of naturals has a least element.                     *)
LEMMA LeastElement ==
  ASSUME NEW T, T \subseteq Nat, T # {}
  PROVE  \E x \in T : \A y \in T : x <= y
<1>1. IsWellFoundedOn(OpToRel(<, Nat), Nat)
  BY NatLessThanWellFounded
<1>2. \A y, x \in Nat : <<y, x>> \in OpToRel(<, Nat) <=> y < x
  BY DEF OpToRel
<1>3. QED
  BY <1>1, <1>2, LeastOfRelation

(* Every nonempty set of naturals with an upper bound has a greatest       *)
(* element.                                                                *)
LEMMA GreatestElement ==
  ASSUME NEW T, T \subseteq Nat, T # {},
         NEW b \in Nat, \A y \in T : y <= b
  PROVE  \E x \in T : \A y \in T : y <= x
<1> DEFINE D == {d \in Nat : b - d \in T}
<1>1. D \subseteq Nat /\ D # {}
  <2>1. PICK y \in T : TRUE
    OBVIOUS
  <2>2. y \in Nat /\ y <= b
    BY <2>1
  <2>3. b - y \in Nat /\ b - (b - y) = y
    BY <2>2
  <2>4. b - y \in D
    BY <2>1, <2>3
  <2>5. QED
    BY <2>4
<1>2. PICK d \in D : \A e \in D : d <= e
  <2> HIDE DEF D
  <2>1. QED
    BY <1>1, LeastElement
<1>3. ASSUME NEW y \in T PROVE y <= b - d
  <2>1. y \in Nat /\ y <= b
    OBVIOUS
  <2>2. b - y \in Nat /\ b - (b - y) = y
    BY <2>1
  <2>3. b - y \in D
    BY <2>2
  <2>4. d <= b - y /\ d \in Nat
    BY <1>2, <2>3
  <2>5. QED
    BY <2>1, <2>4
<1>4. QED
  BY <1>2, <1>3
(* A recursion over naturals below a bound that only goes to smaller ones  *)
(* has a solution: step says how the value at a number is made of others.  *)
Recurs(step, S, V, b) ==
  /\ S \subseteq Nat /\ b \in Nat /\ V # {}
  /\ \A p \in S : p < b
  /\ step \in [[S -> V] -> [S -> V]]
  /\ \A f, g \in [S -> V] : \A p \in S :
       (\A q \in S : q < p => f[q] = g[q]) => step[f][p] = step[g][p]

Solvable(step, S, V) == \E f \in [S -> V] : step[f] = f

LEMMA RecursionSolved ==
  ASSUME NEW S, NEW V, NEW b, NEW step, Recurs(step, S, V, b)
  PROVE  Solvable(step, S, V)
<1> USE DEF Recurs
<1> DEFINE Solves(f, k) == \A p \in S : p < k => step[f][p] = f[p]
           Bad == {k \in Nat : \A f \in [S -> V] : ~Solves(f, k)}
<1>1. Bad = {}
  <2>1. SUFFICES ASSUME Bad # {} PROVE FALSE
    OBVIOUS
  <2>2. PICK k \in Bad : \A j \in Bad : k <= j
    <3>1. Bad \subseteq Nat
      OBVIOUS
    <3> HIDE DEF Bad
    <3>2. QED
      BY <2>1, <3>1, LeastElement
  <2>3. CASE k = 0
    <3>1. PICK v : v \in V
      OBVIOUS
    <3> DEFINE f == [p \in S |-> v]
    <3>2. f \in [S -> V] /\ Solves(f, 0)
      BY <3>1
    <3>3. QED
      BY <2>3, <3>2
  <2>4. CASE k # 0
    <3>1. k - 1 \in Nat /\ ~(k <= k - 1)
      BY <2>4
    <3>2. PICK f \in [S -> V] : Solves(f, k - 1)
      BY <2>2, <3>1
    <3> DEFINE g == step[f]
    <3>3. g \in [S -> V]
      OBVIOUS
    <3>4. ASSUME NEW p \in S, p < k PROVE step[g][p] = g[p]
      <4>1. \A q \in S : q < p => q < k - 1
        BY <2>4, <3>4
      <4>2. \A q \in S : q < p => g[q] = f[q]
        BY <3>2, <4>1
      <4>3. QED
        BY <3>3, <4>2
    <3>5. Solves(g, k)
      BY <3>4
    <3>6. QED
      BY <3>3, <3>5
  <2>5. QED
    BY <2>3, <2>4
<1>2. PICK f \in [S -> V] : Solves(f, b)
  BY <1>1
<1>3. \A p \in S : step[f][p] = f[p]
  BY <1>2
<1> DEFINE g == step[f]
<1>4. g \in [S -> V]
  OBVIOUS
<1>5. g = f
  <2>1. \A p \in S : g[p] = f[p]
    BY <1>3
  <2> HIDE DEF g
  <2>2. g = [p \in S |-> g[p]] /\ f = [p \in S |-> f[p]]
    BY <1>4
  <2>3. [p \in S |-> g[p]] = [p \in S |-> f[p]]
    BY ONLY <2>1
  <2>4. QED
    BY ONLY <2>2, <2>3
<1>6. QED
  BY <1>5 DEF Solvable
================================================================================
