---------------------------- MODULE LimiterLemmas ----------------------------
(***************************************************************************)
(* Arithmetic and typing facts that the proofs about the two gates share:  *)
(* they count requests by client and window.                               *)
(***************************************************************************)
EXTENDS Integers, FiniteSets, FiniteSetTheorems, TLAPS

LEMMA ProductIsNat == ASSUME NEW m \in Nat, NEW n \in Nat PROVE m * n \in Nat
  OBVIOUS

LEMMA DivisionLemma ==
  ASSUME NEW x \in Nat, NEW d \in Nat \ {0}
  PROVE  /\ x \div d \in Nat
         /\ d * (x \div d) <= x
         /\ x < d * (x \div d) + d
  OBVIOUS

(* The windows of two moments are in the order of the moments.             *)
LEMMA QuotientInRange ==
  ASSUME NEW max \in Nat, NEW d \in Nat \ {0}, NEW x \in 0 .. max
  PROVE  x \div d \in 0 .. max \div d
<1>. DEFINE a == x \div d
            b == max \div d
<1>1. a \in Nat /\ b \in Nat /\ d * a <= x /\ max < d * b + d
  BY DivisionLemma
<1>2. ~(b < a)
  <2>. SUFFICES ASSUME b + 1 <= a PROVE FALSE
    BY <1>1
  <2>1. PICK k \in Nat : a = b + 1 + k
    BY <1>1, a - (b + 1) \in Nat
  <2>. HIDE DEF a, b
  <2>2. d * a = d * b + d + d * k
    BY <1>1, <2>1
  <2>. QED BY <1>1, <2>2, ProductIsNat
<1>. HIDE DEF a, b
<1>3. a \in 0 .. b
  BY <1>1, <1>2
<1>. QED BY <1>3 DEF a, b

(* Writing one cell of a table keeps its type.                             *)
LEMMA CellUpdateType ==
  ASSUME NEW C, NEW W, NEW table \in [C -> [W -> Nat]], NEW c \in C, NEW w \in W, NEW v \in Nat
  PROVE  [table EXCEPT ![c][w] = v] \in [C -> [W -> Nat]]
  OBVIOUS

(* A TTL set at or after a moment of a window outlives the window.         *)
LEMMA WindowEndBound ==
  ASSUME NEW w \in Nat \ {0}, NEW at \in Nat, NEW now \in Nat, at <= now
  PROVE  (at \div w + 1) * w \in Nat /\ (at \div w + 1) * w <= now + w
<1>. DEFINE b == at \div w
<1>1. b \in Nat /\ w * b <= at
  BY DivisionLemma
<1>. HIDE DEF b
<1>2. (b + 1) * w = w * b + w /\ w * b \in Nat
  BY <1>1, ProductIsNat
<1>3. (b + 1) * w \in Nat /\ (b + 1) * w <= now + w
  BY <1>1, <1>2
<1>. QED BY <1>3 DEF b

(* Cardinalities of finite sets of requests, when one is counted.          *)
LEMMA OneMore ==
  ASSUME NEW S, IsFiniteSet(S), NEW T \in SUBSET S, NEW x \in S \ T
  PROVE  /\ Cardinality(T) \in Nat
         /\ Cardinality(T \cup {x}) = Cardinality(T) + 1
<1>1. IsFiniteSet(T)
  BY FS_Subset
<1>. QED BY <1>1, FS_CardinalityType, FS_AddElement

LEMMA OneLess ==
  ASSUME NEW S, IsFiniteSet(S), NEW T \in SUBSET S, NEW x \in T
  PROVE  /\ Cardinality(T) \in Nat
         /\ Cardinality(T \ {x}) = Cardinality(T) - 1
<1>1. IsFiniteSet(T)
  BY FS_Subset
<1>. QED BY <1>1, FS_CardinalityType, FS_RemoveElement

LEMMA CardinalityIsNat ==
  ASSUME NEW S, IsFiniteSet(S), NEW T \in SUBSET S
  PROVE  Cardinality(T) \in Nat
  BY FS_Subset, FS_CardinalityType
===============================================================================
