-------------------------------- MODULE Sums --------------------------------
(***************************************************************************)
(* Facts about sums over finite sets: SumFunctionOnSet(f, S) adds f[x] for *)
(* the x in S.                                                             *)
(*                                                                         *)
(* The sum is a recursive function on the subsets of S.  Induction over    *)
(* them is stated with a family of sets instead of a predicate             *)
(* (SubsetInduction): no smallest set can be missing from the family.      *)
(* NaturalInduction is the same for the numbers.                           *)
(*                                                                         *)
(* At the end: where a quotient lies, and how far three of them, one after *)
(* the other, can take a price from the one without roundings.             *)
(***************************************************************************)
EXTENDS Integers, FiniteSets, Functions, FiniteSetTheorems, WellFoundedInduction, TLAPS

(* A non-empty set of naturals has a least element. *)
LEMMA Least ==
    ASSUME NEW T, T \subseteq Nat, T # {}
    PROVE  \E x \in T : \A y \in T : x <= y
<1>. DEFINE R == OpToRel(<, Nat)
<1>1. \A x, y \in Nat : x < y => <<x, y>> \in R
  BY DEF OpToRel
<1>2. IsWellFoundedOn(R, Nat)
  BY NatLessThanWellFounded
<1>. HIDE DEF R
<1>3. PICK x \in T : \A y \in T : ~(<<y, x>> \in R)
  BY <1>2, WFMin
<1>4. \A y \in T : ~(y < x)
  BY <1>1, <1>3
<1>. QED
  BY <1>3, <1>4

(* A family that has zero and, with every number, the next, has every natural. *)
LEMMA NaturalInduction ==
    ASSUME NEW F, 0 \in F, \A n \in Nat : n \in F => n + 1 \in F
    PROVE  Nat \subseteq F
<1> DEFINE Missing == Nat \ F
<1>1. CASE Missing = {}
  BY <1>1
<1>2. CASE Missing # {}
  <2>1. PICK n \in Missing : \A m \in Missing : n <= m
    BY <1>2, Least
  <2>2. n \in Nat /\ n # 0 /\ n - 1 \in Nat
    BY <2>1
  <2>3. n - 1 \in F
    BY <2>1, <2>2
  <2>4. QED
    BY <2>1, <2>2, <2>3
<1>3. QED
  BY <1>1, <1>2

(* A family that has every set whose smaller subsets it has, has every set. *)
LEMMA SubsetInduction ==
    ASSUME NEW S, IsFiniteSet(S), NEW F,
           \A T \in SUBSET S : (\A U \in SUBSET T : U # T => U \in F) => T \in F
    PROVE  \A T \in SUBSET S : T \in F
<1> SUFFICES ASSUME NEW T0 \in SUBSET S, T0 \notin F
             PROVE  FALSE
  OBVIOUS
<1> DEFINE Missing == {n \in Nat : \E T \in SUBSET S : T \notin F /\ Cardinality(T) = n}
<1>1. \A T \in SUBSET S : IsFiniteSet(T) /\ Cardinality(T) \in Nat
  BY FS_Subset, FS_CardinalityType
<1>2. Missing # {} /\ Missing \subseteq Nat
  BY <1>1
<1>3. PICK n \in Missing : \A m \in Missing : n <= m
  <2> HIDE DEF Missing
  <2>1. QED
    BY <1>2, Least
<1>4. PICK T \in SUBSET S : T \notin F /\ Cardinality(T) = n
  BY <1>3
<1>5. ASSUME NEW U \in SUBSET T, U # T
      PROVE  U \in F
  <2>1. Cardinality(U) < Cardinality(T)
    BY <1>1, <1>5, FS_Subset
  <2>2. Cardinality(U) \notin Missing
    <3> HIDE DEF Missing
    <3>1. n \in Nat /\ Cardinality(U) \in Nat
      BY <1>1, <1>2
    <3>2. QED
      BY <2>1, <1>3, <1>4, <3>1
  <2>3. QED
    BY <2>2, <1>1
<1>6. QED
  BY <1>4, <1>5

----------------------------------------------------------------------------

Element(T) == CHOOSE x \in T : TRUE

IsSum(g, f, S) ==
    g = [T \in SUBSET S |-> IF T = {} THEN 0 ELSE f[Element(T)] + g[T \ {Element(T)}]]

Iterated(f, S) == CHOOSE g : IsSum(g, f, S)

LEMMA SumIsIterated ==
    ASSUME NEW f, NEW S
    PROVE  SumFunctionOnSet(f, S) = Iterated(f, S)[S]
BY DEF SumFunctionOnSet, FoldFunctionOnSet, MapThenFoldSet, Iterated, IsSum, Element

LEMMA ElementIn ==
    ASSUME NEW T, T # {}
    PROVE  Element(T) \in T
BY DEF Element

LEMMA IsSumAt ==
    ASSUME NEW S, NEW f, NEW g, IsSum(g, f, S), NEW T \in SUBSET S
    PROVE  /\ T = {} => g[T] = 0
           /\ T # {} => g[T] = f[Element(T)] + g[T \ {Element(T)}]
BY DEF IsSum

(* Two solutions agree wherever both are defined and add the same values. *)
LEMMA SumUnique ==
    ASSUME NEW S1, NEW S2, NEW f1, NEW f2, NEW g1, NEW g2, IsSum(g1, f1, S1), IsSum(g2, f2, S2),
           NEW S, S \subseteq S1, S \subseteq S2, IsFiniteSet(S), \A x \in S : f1[x] = f2[x]
    PROVE  g1[S] = g2[S]
<1> DEFINE F == {T \in SUBSET S : g1[T] = g2[T]}
<1>1. ASSUME NEW T \in SUBSET S, \A U \in SUBSET T : U # T => U \in F
      PROVE  T \in F
  <2>1. CASE T = {}
    <3>1. T \in SUBSET S1 /\ T \in SUBSET S2
      OBVIOUS
    <3>2. g1[T] = 0
      BY <2>1, <3>1 DEF IsSum
    <3>3. g2[T] = 0
      BY <2>1, <3>1 DEF IsSum
    <3>4. QED
      BY <3>2, <3>3
  <2>2. CASE T # {}
    <3>1. Element(T) \in T
      BY <2>2, ElementIn
    <3>2. g1[T \ {Element(T)}] = g2[T \ {Element(T)}]
      BY <1>1, <3>1
    <3>3. T \in SUBSET S1 /\ T \in SUBSET S2 /\ f1[Element(T)] = f2[Element(T)]
      BY <3>1
    <3>4. g1[T] = g2[T]
      BY <3>2, <3>3, <2>2, IsSumAt
    <3>5. QED
      BY <3>4
  <2>3. QED
    BY <2>1, <2>2
<1>2. \A T \in SUBSET S : T \in F
  <2> HIDE DEF F
  <2>1. QED
    BY <1>1, SubsetInduction
<1>3. QED
  BY <1>2

(* The recursion has a solution on the subsets of any finite set. *)
LEMMA SumExists ==
    ASSUME NEW f, NEW S0, IsFiniteSet(S0)
    PROVE  IsSum(Iterated(f, S0), f, S0)
<1> DEFINE F == {S \in SUBSET S0 : \E g : IsSum(g, f, S)}
<1>1. ASSUME NEW S \in SUBSET S0, \A U \in SUBSET S : U # S => U \in F
      PROVE  S \in F
  <2> DEFINE h == [T \in SUBSET S |->
                     IF T = {} THEN 0
                     ELSE f[Element(T)] + Iterated(f, T \ {Element(T)})[T \ {Element(T)}]]
  <2>1. ASSUME NEW U \in SUBSET S, U # S
        PROVE  IsSum(Iterated(f, U), f, U)
    BY <1>1, <2>1 DEF Iterated
  <2>2. ASSUME NEW U \in SUBSET S, U # S
        PROVE  h[U] = Iterated(f, U)[U]
    <3>1. CASE U = {}
      <4>1. IsSum(Iterated(f, U), f, U) /\ U \in SUBSET U
        BY <2>1, <2>2
      <4>2. Iterated(f, U)[U] = 0
        BY <3>1, <4>1, IsSumAt
      <4>3. QED
        BY <3>1, <4>2
    <3>2. CASE U # {}
      <4> DEFINE V == U \ {Element(U)}
      <4>1. Element(U) \in U
        BY <3>2, ElementIn
      <4>2. V \in SUBSET S /\ V # S /\ V \subseteq U
        BY <4>1
      <4>3. IsFiniteSet(V)
        BY <4>2, FS_Subset
      <4>4. Iterated(f, U)[V] = Iterated(f, V)[V]
        <5>1. IsSum(Iterated(f, U), f, U) /\ IsSum(Iterated(f, V), f, V)
          BY <2>1, <2>2, <4>2
        <5> HIDE DEF V
        <5>2. QED
          BY <5>1, <4>2, <4>3, SumUnique
      <4>5. Iterated(f, U)[U] = f[Element(U)] + Iterated(f, U)[V]
        BY <2>1, <2>2, <3>2, IsSumAt
      <4>6. h[U] = f[Element(U)] + Iterated(f, V)[V]
        BY <3>2
      <4>7. QED
        BY <4>4, <4>5, <4>6
    <3>3. QED
      BY <3>1, <3>2
  <2>3. ASSUME NEW T \in SUBSET S
        PROVE  h[T] = IF T = {} THEN 0 ELSE f[Element(T)] + h[T \ {Element(T)}]
    <3>1. CASE T = {}
      BY <3>1
    <3>2. CASE T # {}
      <4>1. Element(T) \in T
        BY <3>2, ElementIn
      <4>2. h[T \ {Element(T)}] = Iterated(f, T \ {Element(T)})[T \ {Element(T)}]
        <5> HIDE DEF h
        <5>1. QED
          BY <2>2, <4>1
      <4>3. h[T] = f[Element(T)] + Iterated(f, T \ {Element(T)})[T \ {Element(T)}]
        BY <3>2
      <4>4. QED
        BY <3>2, <4>2, <4>3
    <3>3. QED
      BY <3>1, <3>2
  <2>4. IsSum(h, f, S)
    <3>1. h = [T \in SUBSET S |-> h[T]]
      OBVIOUS
    <3> HIDE DEF h
    <3>2. QED
      BY <2>3, <3>1 DEF IsSum
  <2>5. QED
    BY <2>4
<1>2. S0 \in F
  <2> HIDE DEF F
  <2>1. QED
    BY <1>1, SubsetInduction
<1>3. QED
  BY <1>2 DEF Iterated

----------------------------------------------------------------------------

(* Nothing adds up to nothing. *)
LEMMA SumEmpty ==
    ASSUME NEW f
    PROVE  SumFunctionOnSet(f, {}) = 0
<1>1. IsSum(Iterated(f, {}), f, {}) /\ {} \in SUBSET {}
  BY SumExists, FS_EmptySet
<1>2. Iterated(f, {})[{}] = 0
  BY <1>1, IsSumAt
<1>3. QED
  BY <1>2, SumIsIterated

(* The recursion of the sum. *)
LEMMA SumStep ==
    ASSUME NEW f, NEW S, IsFiniteSet(S), S # {}
    PROVE  SumFunctionOnSet(f, S) = f[Element(S)] + SumFunctionOnSet(f, S \ {Element(S)})
<1> DEFINE V == S \ {Element(S)}
<1>1. IsSum(Iterated(f, S), f, S)
  BY SumExists
<1>2. Iterated(f, S)[S] = f[Element(S)] + Iterated(f, S)[V]
  BY <1>1, IsSumAt
<1>3. IsFiniteSet(V) /\ V \subseteq S
  BY FS_Subset
<1>4. IsSum(Iterated(f, V), f, V)
  BY <1>3, SumExists
<1>5. Iterated(f, S)[V] = Iterated(f, V)[V]
  <2> HIDE DEF V
  <2>1. QED
    BY <1>1, <1>3, <1>4, SumUnique
<1>6. QED
  BY <1>2, <1>5, SumIsIterated

(* Only the values on the set count. *)
LEMMA SumSame ==
    ASSUME NEW f, NEW g, NEW S, IsFiniteSet(S), \A x \in S : f[x] = g[x]
    PROVE  SumFunctionOnSet(f, S) = SumFunctionOnSet(g, S)
<1>1. IsSum(Iterated(f, S), f, S) /\ IsSum(Iterated(g, S), g, S)
  BY SumExists
<1>2. Iterated(f, S)[S] = Iterated(g, S)[S]
  BY <1>1, SumUnique
<1>3. QED
  BY <1>2, SumIsIterated

(* A sum of integers is an integer. *)
LEMMA SumInt ==
    ASSUME NEW f, NEW S, IsFiniteSet(S), \A x \in S : f[x] \in Int
    PROVE  SumFunctionOnSet(f, S) \in Int
<1> DEFINE F == {T \in SUBSET S : SumFunctionOnSet(f, T) \in Int}
<1>1. ASSUME NEW T \in SUBSET S, \A U \in SUBSET T : U # T => U \in F
      PROVE  T \in F
  <2>1. CASE T = {}
    BY <2>1, SumEmpty
  <2>2. CASE T # {}
    <3>1. IsFiniteSet(T) /\ Element(T) \in T
      BY <2>2, ElementIn, FS_Subset
    <3>2. SumFunctionOnSet(f, T \ {Element(T)}) \in Int /\ f[Element(T)] \in Int
      BY <1>1, <3>1
    <3>3. QED
      BY <2>2, <3>1, <3>2, SumStep
  <2>3. QED
    BY <2>1, <2>2
<1>2. \A T \in SUBSET S : T \in F
  <2> HIDE DEF F
  <2>1. QED
    BY <1>1, SubsetInduction
<1>3. QED
  BY <1>2

(* Any member may be taken out first. *)
LEMMA SumTake ==
    ASSUME NEW f, NEW S, IsFiniteSet(S), \A x \in S : f[x] \in Int, NEW y \in S
    PROVE  SumFunctionOnSet(f, S) = f[y] + SumFunctionOnSet(f, S \ {y})
<1> DEFINE F == {T \in SUBSET S : \A x \in T : SumFunctionOnSet(f, T) = f[x] + SumFunctionOnSet(f, T \ {x})}
<1>1. ASSUME NEW T \in SUBSET S, \A U \in SUBSET T : U # T => U \in F
      PROVE  T \in F
  <2> SUFFICES ASSUME NEW x \in T
               PROVE  SumFunctionOnSet(f, T) = f[x] + SumFunctionOnSet(f, T \ {x})
    OBVIOUS
  <2> DEFINE e == Element(T)
  <2>1. IsFiniteSet(T) /\ e \in T
    BY ElementIn, FS_Subset
  <2>2. SumFunctionOnSet(f, T) = f[e] + SumFunctionOnSet(f, T \ {e})
    BY <2>1, SumStep
  <2>3. CASE x = e
    BY <2>2, <2>3
  <2>4. CASE x # e
    <3>1. T \ {e} \in F /\ T \ {x} \in F
      BY <1>1, <2>1
    <3>2. SumFunctionOnSet(f, T \ {e}) = f[x] + SumFunctionOnSet(f, (T \ {e}) \ {x})
      BY <3>1, <2>4
    <3>3. SumFunctionOnSet(f, T \ {x}) = f[e] + SumFunctionOnSet(f, (T \ {x}) \ {e})
      BY <3>1, <2>4, <2>1
    <3>4. (T \ {x}) \ {e} = (T \ {e}) \ {x}
      OBVIOUS
    <3>5. SumFunctionOnSet(f, (T \ {e}) \ {x}) \in Int /\ f[x] \in Int /\ f[e] \in Int
      BY <2>1, SumInt, FS_Subset
    <3> DEFINE R == SumFunctionOnSet(f, (T \ {e}) \ {x})
    <3>6. SumFunctionOnSet(f, T) = f[e] + (f[x] + R)
      BY <2>2, <3>2
    <3>7. SumFunctionOnSet(f, T \ {x}) = f[e] + R
      BY <3>3, <3>4
    <3> HIDE DEF R, e, F
    <3>8. R \in Int
      BY <3>5 DEF R
    <3>9. QED
      BY <3>5, <3>6, <3>7, <3>8
  <2>5. QED
    BY <2>3, <2>4
<1>2. S \in F
  <2> HIDE DEF F
  <2>1. QED
    BY <1>1, SubsetInduction
<1>3. QED
  BY <1>2

(* A member more. *)
LEMMA SumAdd ==
    ASSUME NEW f, NEW S, IsFiniteSet(S), NEW y, y \notin S, \A x \in S \cup {y} : f[x] \in Int
    PROVE  SumFunctionOnSet(f, S \cup {y}) = f[y] + SumFunctionOnSet(f, S)
<1>1. IsFiniteSet(S \cup {y})
  BY FS_AddElement
<1>2. (S \cup {y}) \ {y} = S
  OBVIOUS
<1>3. SumFunctionOnSet(f, S \cup {y}) = f[y] + SumFunctionOnSet(f, (S \cup {y}) \ {y})
  BY <1>1, SumTake
<1>4. QED
  BY <1>2, <1>3

(* A single member. *)
LEMMA SumOne ==
    ASSUME NEW f, NEW y, f[y] \in Int
    PROVE  SumFunctionOnSet(f, {y}) = f[y]
<1>1. SumFunctionOnSet(f, {} \cup {y}) = f[y] + SumFunctionOnSet(f, {})
  BY SumAdd, FS_EmptySet
<1>2. {} \cup {y} = {y}
  OBVIOUS
<1>3. SumFunctionOnSet(f, {y}) = f[y] + 0
  BY <1>1, <1>2, SumEmpty
<1>4. QED
  BY <1>3

(* Four members. *)
LEMMA SumOfFour ==
    ASSUME NEW f, NEW w, NEW x, NEW y, NEW z,
           w # x, w # y, w # z, x # y, x # z, y # z,
           f[w] \in Int, f[x] \in Int, f[y] \in Int, f[z] \in Int
    PROVE  SumFunctionOnSet(f, {w, x, y, z}) = f[w] + f[x] + f[y] + f[z]
<1> DEFINE S1 == {z}
           S2 == S1 \cup {y}
           S3 == S2 \cup {x}
           S4 == S3 \cup {w}
<1>1. IsFiniteSet(S1) /\ IsFiniteSet(S2) /\ IsFiniteSet(S3)
  BY FS_Singleton, FS_AddElement
<1>2. y \notin S1 /\ x \notin S2 /\ w \notin S3
  OBVIOUS
<1>3. \A k \in S4 : f[k] \in Int
  OBVIOUS
<1>4. S4 = {w, x, y, z}
  OBVIOUS
<1>5. S2 = S1 \cup {y} /\ S3 = S2 \cup {x} /\ S4 = S3 \cup {w}
  OBVIOUS
<1>6. SumFunctionOnSet(f, S1) = f[z]
  BY SumOne
<1> HIDE DEF S1, S2, S3, S4
<1>7. SumFunctionOnSet(f, S2) = f[y] + SumFunctionOnSet(f, S1)
  BY <1>1, <1>2, <1>3, <1>5, SumAdd
<1>8. SumFunctionOnSet(f, S3) = f[x] + SumFunctionOnSet(f, S2)
  BY <1>1, <1>2, <1>3, <1>5, SumAdd
<1>9. SumFunctionOnSet(f, S4) = f[w] + SumFunctionOnSet(f, S3)
  BY <1>1, <1>2, <1>3, <1>5, SumAdd
<1>10. SumFunctionOnSet(f, S4) = f[w] + f[x] + f[y] + f[z]
  BY <1>6, <1>7, <1>8, <1>9
<1>11. QED
  BY <1>4, <1>10

(* A sum of naturals is a natural. *)
LEMMA SumNat ==
    ASSUME NEW f, NEW S, IsFiniteSet(S), \A x \in S : f[x] \in Nat
    PROVE  SumFunctionOnSet(f, S) \in Nat
<1> DEFINE F == {T \in SUBSET S : SumFunctionOnSet(f, T) \in Nat}
<1>1. ASSUME NEW T \in SUBSET S, \A U \in SUBSET T : U # T => U \in F
      PROVE  T \in F
  <2>1. CASE T = {}
    BY <2>1, SumEmpty
  <2>2. CASE T # {}
    <3>1. IsFiniteSet(T) /\ Element(T) \in T
      BY <2>2, ElementIn, FS_Subset
    <3>2. SumFunctionOnSet(f, T \ {Element(T)}) \in Nat /\ f[Element(T)] \in Nat
      BY <1>1, <3>1
    <3>3. QED
      BY <2>2, <3>1, <3>2, SumStep
  <2>3. QED
    BY <2>1, <2>2
<1>2. \A T \in SUBSET S : T \in F
  <2> HIDE DEF F
  <2>1. QED
    BY <1>1, SubsetInduction
<1>3. QED
  BY <1>2

(* Two sets without a common member. *)
LEMMA SumUnion ==
    ASSUME NEW f, NEW R, NEW S, IsFiniteSet(R), IsFiniteSet(S), R \cap S = {},
           \A x \in R \cup S : f[x] \in Int
    PROVE  SumFunctionOnSet(f, R \cup S) = SumFunctionOnSet(f, R) + SumFunctionOnSet(f, S)
<1> DEFINE F == {T \in SUBSET S :
                   SumFunctionOnSet(f, R \cup T) = SumFunctionOnSet(f, R) + SumFunctionOnSet(f, T)}
<1>1. ASSUME NEW T \in SUBSET S, \A U \in SUBSET T : U # T => U \in F
      PROVE  T \in F
  <2>1. CASE T = {}
    <3>1. SumFunctionOnSet(f, R) \in Int
      BY SumInt
    <3>2. R \cup T = R
      BY <2>1
    <3>3. SumFunctionOnSet(f, T) = 0
      BY <2>1, SumEmpty
    <3>4. SumFunctionOnSet(f, R \cup T) = SumFunctionOnSet(f, R)
      BY <3>2
    <3>5. SumFunctionOnSet(f, R \cup T) = SumFunctionOnSet(f, R) + SumFunctionOnSet(f, T)
      BY <3>1, <3>3, <3>4
    <3>6. QED
      BY <3>5
  <2>2. CASE T # {}
    <3> DEFINE e == Element(T)
    <3>1. IsFiniteSet(T) /\ e \in T /\ IsFiniteSet(R \cup T)
      BY <2>2, ElementIn, FS_Subset, FS_Union
    <3> HIDE DEF e
    <3>2. SumFunctionOnSet(f, R \cup (T \ {e})) = SumFunctionOnSet(f, R) + SumFunctionOnSet(f, T \ {e})
      BY <1>1, <3>1
    <3>3. SumFunctionOnSet(f, T) = f[e] + SumFunctionOnSet(f, T \ {e})
      BY <3>1, SumTake
    <3>4. SumFunctionOnSet(f, R \cup T) = f[e] + SumFunctionOnSet(f, (R \cup T) \ {e})
      BY <3>1, SumTake
    <3>5. (R \cup T) \ {e} = R \cup (T \ {e})
      BY <3>1
    <3>6. SumFunctionOnSet(f, R) \in Int /\ SumFunctionOnSet(f, T \ {e}) \in Int /\ f[e] \in Int
      BY <3>1, SumInt, FS_Subset
    <3>7. SumFunctionOnSet(f, R \cup T) = f[e] + (SumFunctionOnSet(f, R) + SumFunctionOnSet(f, T \ {e}))
      BY <3>2, <3>4, <3>5
    <3>8. SumFunctionOnSet(f, R \cup T) = SumFunctionOnSet(f, R) + SumFunctionOnSet(f, T)
      BY <3>3, <3>6, <3>7
    <3>9. QED
      BY <3>8
  <2>3. QED
    BY <2>1, <2>2
<1>2. S \in F
  <2> HIDE DEF F
  <2>1. QED
    BY <1>1, SubsetInduction
<1>3. QED
  BY <1>2

(* A part and the rest. *)
LEMMA SumSplit ==
    ASSUME NEW f, NEW S, IsFiniteSet(S), NEW R, R \subseteq S, \A x \in S : f[x] \in Int
    PROVE  SumFunctionOnSet(f, S) = SumFunctionOnSet(f, R) + SumFunctionOnSet(f, S \ R)
<1>1. IsFiniteSet(R) /\ IsFiniteSet(S \ R) /\ R \cap (S \ R) = {}
  BY FS_Subset
<1>2. R \cup (S \ R) = S
  OBVIOUS
<1>3. SumFunctionOnSet(f, R \cup (S \ R)) = SumFunctionOnSet(f, R) + SumFunctionOnSet(f, S \ R)
  BY <1>1, SumUnion
<1>4. QED
  BY <1>2, <1>3

(* Of naturals, a part never adds up to more. *)
LEMMA SumPart ==
    ASSUME NEW f, NEW S, IsFiniteSet(S), NEW R, R \subseteq S, \A x \in S : f[x] \in Nat
    PROVE  SumFunctionOnSet(f, R) <= SumFunctionOnSet(f, S)
<1>1. IsFiniteSet(R) /\ IsFiniteSet(S \ R)
  BY FS_Subset
<1>2. SumFunctionOnSet(f, S) = SumFunctionOnSet(f, R) + SumFunctionOnSet(f, S \ R)
  BY SumSplit
<1>3. SumFunctionOnSet(f, R) \in Nat /\ SumFunctionOnSet(f, S \ R) \in Nat
  BY <1>1, SumNat
<1>4. QED
  BY <1>2, <1>3

(* Value by value. *)
LEMMA SumOfSums ==
    ASSUME NEW f, NEW g, NEW h, NEW S, IsFiniteSet(S),
           \A x \in S : f[x] \in Int /\ g[x] \in Int /\ h[x] = f[x] + g[x]
    PROVE  SumFunctionOnSet(h, S) = SumFunctionOnSet(f, S) + SumFunctionOnSet(g, S)
<1> DEFINE F == {T \in SUBSET S :
                   SumFunctionOnSet(h, T) = SumFunctionOnSet(f, T) + SumFunctionOnSet(g, T)}
<1>1. ASSUME NEW T \in SUBSET S, \A U \in SUBSET T : U # T => U \in F
      PROVE  T \in F
  <2>1. CASE T = {}
    <3>1. SumFunctionOnSet(h, T) = 0 /\ SumFunctionOnSet(f, T) = 0 /\ SumFunctionOnSet(g, T) = 0
      BY <2>1, SumEmpty
    <3>2. QED
      BY <3>1
  <2>2. CASE T # {}
    <3> DEFINE e == Element(T)
               R == T \ {e}
    <3>1. IsFiniteSet(T) /\ IsFiniteSet(R) /\ e \in T
      BY <2>2, ElementIn, FS_Subset
    <3>2. R \in F
      BY <1>1, <3>1
    <3>3. /\ SumFunctionOnSet(h, T) = h[e] + SumFunctionOnSet(h, R)
          /\ SumFunctionOnSet(f, T) = f[e] + SumFunctionOnSet(f, R)
          /\ SumFunctionOnSet(g, T) = g[e] + SumFunctionOnSet(g, R)
      BY <2>2, <3>1, SumStep
    <3>4. /\ SumFunctionOnSet(f, R) \in Int /\ SumFunctionOnSet(g, R) \in Int
          /\ f[e] \in Int /\ g[e] \in Int /\ h[e] = f[e] + g[e]
      BY <3>1, SumInt
    <3>5. SumFunctionOnSet(h, R) = SumFunctionOnSet(f, R) + SumFunctionOnSet(g, R)
      BY <3>2
    <3> HIDE DEF e, R, F
    <3>6. SumFunctionOnSet(h, T) = SumFunctionOnSet(f, T) + SumFunctionOnSet(g, T)
      BY <3>3, <3>4, <3>5
    <3>7. QED
      BY <3>6 DEF F
  <2>3. QED
    BY <2>1, <2>2
<1>2. S \in F
  <2> HIDE DEF F
  <2>1. QED
    BY <1>1, SubsetInduction
<1>3. QED
  BY <1>2

(* One value changes, and the sum by the difference. *)
LEMMA SumChange ==
    ASSUME NEW f, NEW g, NEW S, IsFiniteSet(S), NEW y \in S,
           \A x \in S : f[x] \in Int /\ g[x] \in Int, \A x \in S \ {y} : g[x] = f[x]
    PROVE  SumFunctionOnSet(g, S) = SumFunctionOnSet(f, S) + (g[y] - f[y])
<1>1. SumFunctionOnSet(f, S) = f[y] + SumFunctionOnSet(f, S \ {y})
  BY SumTake
<1>2. SumFunctionOnSet(g, S) = g[y] + SumFunctionOnSet(g, S \ {y})
  BY SumTake
<1>3. IsFiniteSet(S \ {y})
  BY FS_Subset
<1>4. SumFunctionOnSet(g, S \ {y}) = SumFunctionOnSet(f, S \ {y})
  BY <1>3, SumSame
<1>5. SumFunctionOnSet(f, S \ {y}) \in Int /\ f[y] \in Int /\ g[y] \in Int
  BY <1>3, SumInt
<1>6. QED
  BY <1>1, <1>2, <1>4, <1>5

(* Zeros add up to zero. *)
LEMMA SumZero ==
    ASSUME NEW f, NEW S, IsFiniteSet(S), \A x \in S : f[x] = 0
    PROVE  SumFunctionOnSet(f, S) = 0
<1> DEFINE F == {T \in SUBSET S : SumFunctionOnSet(f, T) = 0}
<1>1. ASSUME NEW T \in SUBSET S, \A U \in SUBSET T : U # T => U \in F
      PROVE  T \in F
  <2>1. CASE T = {}
    BY <2>1, SumEmpty
  <2>2. CASE T # {}
    <3>1. IsFiniteSet(T) /\ Element(T) \in T
      BY <2>2, ElementIn, FS_Subset
    <3>2. SumFunctionOnSet(f, T \ {Element(T)}) = 0 /\ f[Element(T)] = 0
      BY <1>1, <3>1
    <3>3. QED
      BY <2>2, <3>1, <3>2, SumStep
  <2>3. QED
    BY <2>1, <2>2
<1>2. S \in F
  <2> HIDE DEF F
  <2>1. QED
    BY <1>1, SubsetInduction
<1>3. QED
  BY <1>2


(* A constant factor comes out of a sum. *)
LEMMA SumTimes ==
    ASSUME NEW f, NEW g, NEW S, IsFiniteSet(S), NEW c \in Int,
           \A x \in S : f[x] \in Int /\ g[x] = c * f[x]
    PROVE  SumFunctionOnSet(g, S) = c * SumFunctionOnSet(f, S)
<1> DEFINE F == {T \in SUBSET S : SumFunctionOnSet(g, T) = c * SumFunctionOnSet(f, T)}
<1>1. ASSUME NEW T \in SUBSET S, \A U \in SUBSET T : U # T => U \in F
      PROVE  T \in F
  <2>1. CASE T = {}
    <3>1. SumFunctionOnSet(g, T) = 0 /\ SumFunctionOnSet(f, T) = 0
      BY <2>1, SumEmpty
    <3>2. QED
      BY <3>1
  <2>2. CASE T # {}
    <3>1. PICK e, R : e = Element(T) /\ R = T \ {e} /\ e \in T /\ IsFiniteSet(T) /\ IsFiniteSet(R)
      BY <2>2, ElementIn, FS_Subset
    <3>2. SumFunctionOnSet(g, R) = c * SumFunctionOnSet(f, R)
      BY <1>1, <3>1
    <3>3. SumFunctionOnSet(g, T) = g[e] + SumFunctionOnSet(g, R) /\ SumFunctionOnSet(f, T) = f[e] + SumFunctionOnSet(f, R)
      BY <2>2, <3>1, SumStep
    <3>4. PICK v \in Int, s \in Int : v = f[e] /\ s = SumFunctionOnSet(f, R)
      BY <3>1, SumInt
    <3>5. g[e] = c * v
      BY <3>1, <3>4
    <3>6. c * v + c * s = c * (v + s)
      OBVIOUS
    <3>7. QED
      BY <3>2, <3>3, <3>4, <3>5, <3>6
  <2>3. QED
    BY <2>1, <2>2
<1>2. S \in F
  <2> HIDE DEF F
  <2>1. QED
    BY <1>1, SubsetInduction
<1>3. QED
  BY <1>2

(* Terms of at most c add up to at most c times their number. *)
LEMMA SumAtMost ==
    ASSUME NEW f, NEW S, IsFiniteSet(S), NEW c \in Int, \A x \in S : f[x] \in Int /\ f[x] <= c
    PROVE  SumFunctionOnSet(f, S) <= c * Cardinality(S)
<1> DEFINE F == {T \in SUBSET S : SumFunctionOnSet(f, T) <= c * Cardinality(T)}
<1>1. ASSUME NEW T \in SUBSET S, \A U \in SUBSET T : U # T => U \in F
      PROVE  T \in F
  <2>1. CASE T = {}
    <3>1. SumFunctionOnSet(f, T) = 0 /\ Cardinality(T) = 0
      BY <2>1, SumEmpty, FS_EmptySet
    <3>2. QED
      BY <3>1
  <2>2. CASE T # {}
    <3>1. PICK e, R : e = Element(T) /\ R = T \ {e} /\ e \in T /\ IsFiniteSet(T) /\ IsFiniteSet(R)
      BY <2>2, ElementIn, FS_Subset
    <3>2. SumFunctionOnSet(f, R) <= c * Cardinality(R)
      BY <1>1, <3>1
    <3>3. SumFunctionOnSet(f, T) = f[e] + SumFunctionOnSet(f, R)
      BY <2>2, <3>1, SumStep
    <3>4. PICK v \in Int, s \in Int : v = f[e] /\ s = SumFunctionOnSet(f, R)
      BY <3>1, SumInt
    <3>5. PICK n \in Nat : n = Cardinality(R) /\ Cardinality(T) = n + 1
      BY <3>1, FS_CardinalityType, FS_RemoveElement
    <3>6. v <= c
      BY <3>1, <3>4
    <3>7. c * n + c = c * (n + 1)
      OBVIOUS
    <3>8. QED
      BY <3>2, <3>3, <3>4, <3>5, <3>6, <3>7
  <2>3. QED
    BY <2>1, <2>2
<1>2. S \in F
  <2> HIDE DEF F
  <2>1. QED
    BY <1>1, SubsetInduction
<1>3. QED
  BY <1>2

(* Ones add up to their number. *)
LEMMA SumOnes ==
    ASSUME NEW f, NEW S, IsFiniteSet(S), \A x \in S : f[x] = 1
    PROVE  SumFunctionOnSet(f, S) = Cardinality(S)
<1> DEFINE F == {T \in SUBSET S : SumFunctionOnSet(f, T) = Cardinality(T)}
<1>1. ASSUME NEW T \in SUBSET S, \A U \in SUBSET T : U # T => U \in F
      PROVE  T \in F
  <2>1. CASE T = {}
    BY <2>1, SumEmpty, FS_EmptySet
  <2>2. CASE T # {}
    <3>1. PICK e, R : e = Element(T) /\ R = T \ {e} /\ e \in T /\ IsFiniteSet(T) /\ IsFiniteSet(R)
      BY <2>2, ElementIn, FS_Subset
    <3>2. SumFunctionOnSet(f, R) = Cardinality(R) /\ f[e] = 1
      BY <1>1, <3>1
    <3>3. SumFunctionOnSet(f, T) = f[e] + SumFunctionOnSet(f, R)
      BY <2>2, <3>1, SumStep
    <3>4. Cardinality(T) = 1 + Cardinality(R)
      <4>1. Cardinality(R) \in Nat /\ Cardinality(T) \in Nat /\ Cardinality(R) = Cardinality(T) - 1
        BY <3>1, FS_CardinalityType, FS_RemoveElement
      <4>2. QED
        BY <4>1
    <3>5. QED
      BY <3>2, <3>3, <3>4
  <2>3. QED
    BY <2>1, <2>2
<1>2. S \in F
  <2> HIDE DEF F
  <2>1. QED
    BY <1>1, SubsetInduction
<1>3. QED
  BY <1>2

(* Terms that are one in a part of the set and zero in the rest. *)
LEMMA SumIndicator ==
    ASSUME NEW f, NEW S, IsFiniteSet(S), NEW T, T \subseteq S,
           \A x \in S : f[x] = IF x \in T THEN 1 ELSE 0
    PROVE  SumFunctionOnSet(f, S) = Cardinality(T)
<1>1. IsFiniteSet(T) /\ IsFiniteSet(S \ T) /\ Cardinality(T) \in Nat
  BY FS_Subset, FS_CardinalityType
<1>2. SumFunctionOnSet(f, S) = SumFunctionOnSet(f, T) + SumFunctionOnSet(f, S \ T)
  BY SumSplit
<1>3. SumFunctionOnSet(f, T) = Cardinality(T)
  BY <1>1, SumOnes
<1>4. SumFunctionOnSet(f, S \ T) = 0
  BY <1>1, SumZero
<1>5. QED
  BY <1>1, <1>2, <1>3, <1>4

----------------------------------------------------------------------------
(* Rankings: by a key, the largest first, ties to the lower number. *)

Outranks(key, i, j) == key[i] > key[j] \/ (key[i] = key[j] /\ i < j)
Ahead(key, S, i) == {j \in S : Outranks(key, j, i)}
FirstBy(key, S, k) == {i \in S : Cardinality(Ahead(key, S, i)) < k}

(* A ranking is a strict order of all of a set. *)
LEMMA OutranksIsStrict ==
    ASSUME NEW S, S \subseteq Int, NEW key, \A i \in S : key[i] \in Int,
           NEW i \in S, NEW j \in S, NEW k \in S
    PROVE  /\ ~Outranks(key, i, i)
           /\ i # j => Outranks(key, i, j) \/ Outranks(key, j, i)
           /\ Outranks(key, i, j) /\ Outranks(key, j, k) => Outranks(key, i, k)
<1>1. PICK a \in Int, b \in Int, c \in Int : a = key[i] /\ b = key[j] /\ c = key[k]
  OBVIOUS
<1>2. i \in Int /\ j \in Int /\ k \in Int
  OBVIOUS
<1>3. QED
  BY ONLY <1>1, <1>2 DEF Outranks

(* Who is ahead of another has fewer ahead of it. *)
LEMMA AheadHasFewer ==
    ASSUME NEW S, S \subseteq Int, IsFiniteSet(S), NEW key, \A i \in S : key[i] \in Int,
           NEW i \in S
    PROVE  /\ Cardinality(Ahead(key, S, i)) \in 0 .. Cardinality(S) - 1
           /\ \A j \in S : Outranks(key, i, j) => Cardinality(Ahead(key, S, i)) < Cardinality(Ahead(key, S, j))
<1>1. i \notin Ahead(key, S, i)
  BY OutranksIsStrict DEF Ahead
<1>2. ASSUME NEW k \in S
      PROVE  IsFiniteSet(Ahead(key, S, k)) /\ Ahead(key, S, k) \subseteq S /\ Cardinality(Ahead(key, S, k)) \in Nat
  <2>1. Ahead(key, S, k) \subseteq S
    BY DEF Ahead
  <2>2. QED
    BY <2>1, FS_Subset, FS_CardinalityType
<1>3. Cardinality(S) \in Nat /\ Cardinality(Ahead(key, S, i)) < Cardinality(S)
  BY <1>1, <1>2, FS_Subset, FS_CardinalityType
<1>4. ASSUME NEW j \in S, Outranks(key, i, j)
      PROVE  Cardinality(Ahead(key, S, i)) < Cardinality(Ahead(key, S, j))
  <2>1. Ahead(key, S, i) \subseteq Ahead(key, S, j) /\ i \in Ahead(key, S, j)
    BY <1>4, OutranksIsStrict DEF Ahead
  <2>2. QED
    BY <1>1, <1>2, <2>1, FS_Subset
<1>5. QED
  BY <1>2, <1>3, <1>4

(* As many are first as are asked for, or all. *)
LEMMA FirstByCount ==
    ASSUME NEW S, S \subseteq Int, IsFiniteSet(S), NEW key, \A i \in S : key[i] \in Int, NEW k \in Nat
    PROVE  /\ IsFiniteSet(FirstBy(key, S, k)) /\ FirstBy(key, S, k) \subseteq S
           /\ Cardinality(FirstBy(key, S, k)) <= k
           /\ k <= Cardinality(S) => Cardinality(FirstBy(key, S, k)) = k
<1> DEFINE rank(i) == Cardinality(Ahead(key, S, i))
           n == Cardinality(S)
           First == FirstBy(key, S, k)
           Image == {rank(i) : i \in S}
           Low == {rank(i) : i \in First}
<1>1. n \in Nat /\ \A i \in S : rank(i) \in 0 .. n - 1
  BY AheadHasFewer, FS_CardinalityType
<1>2. \A i, j \in S : rank(i) = rank(j) => i = j
  <2> SUFFICES ASSUME NEW i \in S, NEW j \in S, i # j
               PROVE  rank(i) # rank(j)
    OBVIOUS
  <2>1. Outranks(key, i, j) \/ Outranks(key, j, i)
    BY OutranksIsStrict
  <2>2. rank(i) < rank(j) \/ rank(j) < rank(i)
    BY <2>1, AheadHasFewer
  <2>3. PICK a \in Int, b \in Int : a = rank(i) /\ b = rank(j)
    BY <1>1
  <2> HIDE DEF rank
  <2>4. QED
    BY <2>2, <2>3
<1>3. First \subseteq S /\ \A i \in S : i \in First <=> rank(i) < k
  BY DEF FirstBy
<1> HIDE DEF rank, First
<1>4. IsFiniteSet(First)
  BY <1>3, FS_Subset
<1>5. Cardinality(Image) = n /\ Image \subseteq 0 .. n - 1
  <2>1. Image \subseteq 0 .. n - 1
    BY <1>1
  <2>2. [i \in S |-> rank(i)] \in Bijection(S, Image)
    BY <1>2 DEF Bijection, Injection, Surjection, IsInjective
  <2> HIDE DEF Image
  <2>3. ExistsBijection(S, Image)
    BY <2>2 DEF ExistsBijection
  <2>4. QED
    BY <2>1, <2>3, FS_Bijection
<1>6. Image = 0 .. n - 1
  <2> HIDE DEF Image
  <2>1. IsFiniteSet(0 .. n - 1) /\ Cardinality(0 .. n - 1) = n
    BY <1>1, FS_Interval
  <2>2. QED
    BY <1>5, <2>1, FS_Subset
<1>7. Cardinality(First) = Cardinality(Low)
  <2>1. [i \in First |-> rank(i)] \in Bijection(First, Low)
    BY <1>2, <1>3 DEF Bijection, Injection, Surjection, IsInjective
  <2> HIDE DEF Low
  <2>2. ExistsBijection(First, Low)
    BY <2>1 DEF ExistsBijection
  <2>3. QED
    BY <1>4, <2>2, FS_Bijection
<1>8. Low \subseteq 0 .. k - 1 /\ (k <= n => Low = 0 .. k - 1)
  <2>1. Low \subseteq 0 .. k - 1
    BY <1>1, <1>3
  <2>2. ASSUME k <= n, NEW r \in 0 .. k - 1
        PROVE  r \in Low
    <3>1. r \in 0 .. n - 1 /\ r < k
      BY <1>1, <2>2
    <3>2. PICK i \in S : rank(i) = r
      BY <1>6, <3>1
    <3>3. QED
      BY <1>3, <3>1, <3>2
  <2>3. QED
    BY <2>1, <2>2
<1> HIDE DEF Low, Image
<1>9. IsFiniteSet(0 .. k - 1) /\ Cardinality(0 .. k - 1) = k
  BY FS_Interval
<1>10. Cardinality(Low) <= k /\ (k <= n => Cardinality(Low) = k)
  <2>1. Cardinality(Low) <= k
    <3>1. PICK R : R = 0 .. k - 1
      OBVIOUS
    <3>2. IsFiniteSet(R) /\ Cardinality(R) = k /\ Low \subseteq R
      BY <1>8, <1>9, <3>1
    <3>3. QED
      BY <3>2, FS_Subset
  <2>2. k <= n => Cardinality(Low) = k
    BY <1>8, <1>9
  <2>3. QED
    BY <2>1, <2>2
<1>11. QED
  BY <1>3, <1>4, <1>7, <1>10 DEF First, n

(* A ranking puts its members in a sequence. *)
LEMMA RankingInOrder ==
    ASSUME NEW S, S \subseteq Int, IsFiniteSet(S), NEW key, \A i \in S : key[i] \in Int
    PROVE  \E f \in [1 .. Cardinality(S) -> S] : \A a, b \in 1 .. Cardinality(S) : a < b => Outranks(key, f[a], f[b])
<1> DEFINE rank(i) == Cardinality(Ahead(key, S, i))
           n == Cardinality(S)
           order == [a \in 1 .. n |-> CHOOSE i \in S : rank(i) = a - 1]
<1>1. n \in Nat /\ \A i \in S : rank(i) \in 0 .. n - 1
  BY AheadHasFewer, FS_CardinalityType
<1>2. ASSUME NEW a \in 1 .. n
      PROVE  \E i \in S : rank(i) = a - 1
  <2>1. a \in Nat /\ a - 1 \in Nat /\ a <= n /\ a - 1 <= n
    BY <1>1
  <2>2. /\ Cardinality(FirstBy(key, S, a)) = a /\ Cardinality(FirstBy(key, S, a - 1)) = a - 1
        /\ FirstBy(key, S, a) \subseteq S
    BY <2>1, FirstByCount
  <2>3. FirstBy(key, S, a) # FirstBy(key, S, a - 1) /\ FirstBy(key, S, a - 1) \subseteq FirstBy(key, S, a)
    <3>1. \A i \in S : rank(i) < a - 1 => rank(i) < a
      BY <1>1, <2>1
    <3>2. FirstBy(key, S, a - 1) \subseteq FirstBy(key, S, a)
      <4> HIDE DEF rank
      <4>1. \A i \in S : rank(i) < a - 1 => rank(i) < a
        BY <3>1
      <4>2. FirstBy(key, S, a - 1) = {i \in S : rank(i) < a - 1} /\ FirstBy(key, S, a) = {i \in S : rank(i) < a}
        BY DEF FirstBy, rank
      <4>3. QED
        BY <4>1, <4>2
    <3>3. a # a - 1
      BY <2>1
    <3>4. QED
      BY <2>2, <3>2, <3>3
  <2>4. PICK i \in S : rank(i) < a /\ ~(rank(i) < a - 1)
    BY <2>2, <2>3 DEF FirstBy
  <2>5. PICK r \in Int : r = rank(i)
    BY <1>1
  <2> HIDE DEF rank
  <2>6. QED
    BY <2>1, <2>4, <2>5
<1>3. \A a \in 1 .. n : order[a] \in S /\ rank(order[a]) = a - 1
  <2>1. \A a \in 1 .. n : order[a] = CHOOSE i \in S : rank(i) = a - 1
    OBVIOUS
  <2> HIDE DEF rank, n, order
  <2>2. QED
    BY <1>2, <2>1
<1>4. order \in [1 .. n -> S]
  <2>1. order = [a \in 1 .. n |-> order[a]]
    OBVIOUS
  <2> HIDE DEF order, n, rank
  <2>2. QED
    BY <1>3, <2>1
<1>5. ASSUME NEW a \in 1 .. n, NEW b \in 1 .. n, a < b
      PROVE  Outranks(key, order[a], order[b])
  <2>1. order[a] \in S /\ order[b] \in S /\ rank(order[a]) = a - 1 /\ rank(order[b]) = b - 1
    BY <1>3
  <2> HIDE DEF order
  <2>2. a \in Int /\ b \in Int
    BY <1>1
  <2>3. rank(order[a]) < rank(order[b])
    BY <1>5, <2>1, <2>2
  <2>4. order[a] # order[b] /\ ~(rank(order[b]) < rank(order[a]))
    BY <1>5, <2>1, <2>2
  <2>5. ~Outranks(key, order[b], order[a])
    BY <2>1, <2>4, AheadHasFewer
  <2>6. QED
    BY <2>1, <2>4, <2>5, OutranksIsStrict
<1>6. QED
  BY <1>4, <1>5

----------------------------------------------------------------------------
(* Shares rounded down, and one more for the largest remainders. *)

Floors(total, w, S) == [i \in S |-> (total * w[i]) \div SumFunctionOnSet(w, S)]
Remainders(total, w, S) == [i \in S |-> (total * w[i]) % SumFunctionOnSet(w, S)]
LeftOver(total, w, S) == total - SumFunctionOnSet(Floors(total, w, S), S)
Apportioned(total, w, S) ==
    [i \in S |-> Floors(total, w, S)[i]
                    + (IF i \in FirstBy(Remainders(total, w, S), S, LeftOver(total, w, S)) THEN 1 ELSE 0)]

Apportioning(total, w, S) ==
    /\ S \subseteq Int /\ IsFiniteSet(S) /\ S # {} /\ total \in Nat
    /\ \A i \in S : w[i] \in Nat /\ w[i] > 0

(* What is shared and among whom. *)
LEMMA ApportioningHas ==
    ASSUME NEW total, NEW w, NEW S, Apportioning(total, w, S)
    PROVE  /\ S \subseteq Int /\ IsFiniteSet(S) /\ total \in Nat
           /\ \A i \in S : w[i] \in Nat /\ w[i] \in Int
BY DEF Apportioning

(* A share is its floor and what is left of it. *)
LEMMA FloorsAndRemainders ==
    ASSUME NEW total, NEW w, NEW S, Apportioning(total, w, S)
    PROVE  /\ SumFunctionOnSet(w, S) \in Nat /\ SumFunctionOnSet(w, S) > 0
           /\ \A i \in S : /\ w[i] <= SumFunctionOnSet(w, S)
                           /\ Floors(total, w, S)[i] \in Nat /\ Remainders(total, w, S)[i] \in Nat
                           /\ Remainders(total, w, S)[i] < SumFunctionOnSet(w, S)
                           /\ total * w[i] = SumFunctionOnSet(w, S) * Floors(total, w, S)[i] + Remainders(total, w, S)[i]
<1>1. PICK all : all = SumFunctionOnSet(w, S)
  OBVIOUS
<1> IsFiniteSet(S) /\ total \in Nat /\ \A x \in S : w[x] \in Nat /\ w[x] \in Int
  BY DEF Apportioning
<1>2. all \in Nat /\ \A i \in S : w[i] <= all
  <2>1. all \in Nat
    BY <1>1, SumNat
  <2>2. ASSUME NEW i \in S
        PROVE  w[i] <= all
    <3>1. all = w[i] + SumFunctionOnSet(w, S \ {i})
      BY <1>1, SumTake
    <3>2. SumFunctionOnSet(w, S \ {i}) \in Nat
      <4>1. IsFiniteSet(S \ {i}) /\ \A x \in S \ {i} : w[x] \in Nat
        BY FS_Subset
      <4>2. QED
        BY <4>1, SumNat
    <3>3. PICK v \in Nat, t \in Nat : v = w[i] /\ t = SumFunctionOnSet(w, S \ {i})
      BY <3>2
    <3>4. all = v + t
      BY <3>1, <3>3
    <3>5. QED
      BY <3>3, <3>4
  <2>3. QED
    BY <2>1, <2>2
<1>3. all > 0
  <2>1. PICK i \in S : w[i] \in Nat /\ w[i] > 0
    BY DEF Apportioning
  <2>2. QED
    BY <1>2, <2>1
<1>4. ASSUME NEW i \in S
      PROVE  /\ Floors(total, w, S)[i] \in Nat /\ Remainders(total, w, S)[i] \in Nat
             /\ Remainders(total, w, S)[i] < all
             /\ total * w[i] = all * Floors(total, w, S)[i] + Remainders(total, w, S)[i]
  <2>1. PICK x \in Nat : x = total * w[i]
    <3>1. PICK v \in Nat : v = w[i]
      OBVIOUS
    <3>2. total * v \in Nat
      OBVIOUS
    <3>3. QED
      BY <3>1, <3>2
  <2>2. Floors(total, w, S)[i] = x \div all /\ Remainders(total, w, S)[i] = x % all
    BY <1>1, <2>1 DEF Floors, Remainders
  <2>3. x \div all \in Nat /\ x % all \in Nat /\ x % all < all /\ x = all * (x \div all) + (x % all)
    BY <1>2, <1>3
  <2>4. QED
    BY <2>1, <2>2, <2>3
<1>5. QED
  BY <1>1, <1>2, <1>3, <1>4

(* What rounding leaves over is what the remainders add up to. *)
LEMMA LeftOverIsRemainders ==
    ASSUME NEW total, NEW w, NEW S, Apportioning(total, w, S)
    PROVE  /\ SumFunctionOnSet(Floors(total, w, S), S) \in Nat
           /\ SumFunctionOnSet(Remainders(total, w, S), S) \in Nat
           /\ LeftOver(total, w, S) \in Int
           /\ SumFunctionOnSet(w, S) * LeftOver(total, w, S) = SumFunctionOnSet(Remainders(total, w, S), S)
<1>1. PICK all, floor, rest : /\ all = SumFunctionOnSet(w, S)
                              /\ floor = Floors(total, w, S) /\ rest = Remainders(total, w, S)
  OBVIOUS
<1>2. all \in Nat /\ all \in Int /\ all > 0 /\ total \in Nat /\ total \in Int /\ IsFiniteSet(S)
  <2>1. all \in Nat /\ all > 0
    BY <1>1, FloorsAndRemainders
  <2>2. total \in Nat /\ IsFiniteSet(S)
    BY ApportioningHas
  <2>3. QED
    BY <2>1, <2>2
<1>3. \A i \in S : /\ w[i] \in Int /\ floor[i] \in Nat /\ floor[i] \in Int /\ rest[i] \in Nat /\ rest[i] < all
                   /\ total * w[i] = all * floor[i] + rest[i]
  <2>1. \A i \in S : /\ floor[i] \in Nat /\ rest[i] \in Nat /\ rest[i] < all
                     /\ total * w[i] = all * floor[i] + rest[i]
    BY <1>1, FloorsAndRemainders
  <2>2. \A i \in S : w[i] \in Int
    BY ApportioningHas
  <2>3. QED
    BY <2>1, <2>2
<1> DEFINE scaled == [i \in S |-> total * w[i]]
           whole == [i \in S |-> all * floor[i]]
<1>4. SumFunctionOnSet(scaled, S) = total * all
  <2>1. \A i \in S : w[i] \in Int /\ scaled[i] = total * w[i]
    BY <1>3
  <2> HIDE DEF scaled
  <2>2. QED
    BY <1>1, <1>2, <2>1, SumTimes
<1>5. SumFunctionOnSet(whole, S) = all * SumFunctionOnSet(floor, S)
  <2>1. \A i \in S : floor[i] \in Int /\ whole[i] = all * floor[i]
    BY <1>3
  <2> HIDE DEF whole
  <2>2. QED
    BY <1>2, <2>1, SumTimes
<1>6. SumFunctionOnSet(scaled, S) = SumFunctionOnSet(whole, S) + SumFunctionOnSet(rest, S)
  <2>1. \A i \in S : whole[i] \in Int /\ rest[i] \in Int /\ scaled[i] = whole[i] + rest[i]
    <3> SUFFICES ASSUME NEW i \in S
                 PROVE  whole[i] \in Int /\ rest[i] \in Int /\ scaled[i] = whole[i] + rest[i]
      OBVIOUS
    <3>1. PICK f \in Nat : f = floor[i]
      BY <1>3
    <3>2. all * f \in Int
      BY <1>2
    <3>3. QED
      BY <1>3, <3>1, <3>2
  <2> HIDE DEF scaled, whole
  <2>2. QED
    BY <1>2, <2>1, SumOfSums
<1>7. PICK s \in Nat, r \in Nat : s = SumFunctionOnSet(floor, S) /\ r = SumFunctionOnSet(rest, S)
  BY <1>2, <1>3, SumNat
<1>8. total * all = all * s + r
  BY <1>4, <1>5, <1>6, <1>7
<1>9. all * (total - s) = r
  BY ONLY <1>2, <1>7, <1>8
<1>10. QED
  BY <1>1, <1>2, <1>7, <1>9 DEF LeftOver

(* It is not negative, and no more than there are remainders. *)
WithRemainders(total, w, S) == {i \in S : Remainders(total, w, S)[i] > 0}

LEMMA LeftOverFits ==
    ASSUME NEW total, NEW w, NEW S, Apportioning(total, w, S)
    PROVE  /\ LeftOver(total, w, S) \in 0 .. Cardinality(WithRemainders(total, w, S))
           /\ Cardinality(WithRemainders(total, w, S)) \in Nat
           /\ Cardinality(WithRemainders(total, w, S)) <= Cardinality(S)
<1>1. PICK all, rest, N : /\ all = SumFunctionOnSet(w, S) /\ rest = Remainders(total, w, S)
                          /\ N = WithRemainders(total, w, S)
  OBVIOUS
<1>2. /\ all \in Nat /\ all > 0 /\ IsFiniteSet(S)
      /\ \A i \in S : rest[i] \in Nat /\ rest[i] \in Int /\ rest[i] < all
  <2>1. all \in Nat /\ all > 0 /\ \A i \in S : rest[i] \in Nat /\ rest[i] < all
    BY <1>1, FloorsAndRemainders
  <2>2. IsFiniteSet(S)
    BY ApportioningHas
  <2>3. QED
    BY <2>1, <2>2
<1>3. N \subseteq S /\ \A i \in S : i \in N <=> rest[i] > 0
  BY <1>1 DEF WithRemainders
<1>4. IsFiniteSet(N) /\ IsFiniteSet(S \ N) /\ Cardinality(N) \in Nat /\ Cardinality(N) <= Cardinality(S)
  BY <1>2, <1>3, FS_Subset, FS_CardinalityType
<1>5. SumFunctionOnSet(rest, S) = SumFunctionOnSet(rest, N)
  <2>1. SumFunctionOnSet(rest, S) = SumFunctionOnSet(rest, N) + SumFunctionOnSet(rest, S \ N)
    BY <1>2, <1>3, SumSplit
  <2>2. \A i \in S \ N : rest[i] = 0
    BY <1>2, <1>3
  <2>3. SumFunctionOnSet(rest, S \ N) = 0
    BY <1>4, <2>2, SumZero
  <2>4. \A i \in N : rest[i] \in Int
    BY <1>2, <1>3
  <2>5. SumFunctionOnSet(rest, N) \in Int
    BY <1>4, <2>4, SumInt
  <2>6. QED
    BY <2>1, <2>3, <2>5
<1>6. PICK n \in Nat, r \in Nat, left \in Int : /\ n = Cardinality(N) /\ r = SumFunctionOnSet(rest, S)
                                                /\ left = LeftOver(total, w, S) /\ all * left = r
  BY <1>1, <1>4, LeftOverIsRemainders
<1>7. r <= (all - 1) * n
  <2>1. all - 1 \in Int /\ \A i \in N : rest[i] \in Int /\ rest[i] <= all - 1
    BY <1>2, <1>3
  <2>2. QED
    BY <1>4, <1>5, <1>6, <2>1, SumAtMost
<1>8. (all - 1) * n <= all * n
  BY ONLY <1>2, <1>6
<1>9. left >= 0
  BY ONLY <1>2, <1>6
<1>10. left <= n
  <2>1. all * left <= all * n
    BY ONLY <1>2, <1>6, <1>7, <1>8
  <2>2. QED
    BY ONLY <1>2, <1>6, <2>1
<1>11. QED
  BY <1>1, <1>4, <1>6, <1>9, <1>10

(* Only shares that were rounded down get one more. *)
LEMMA FirstHaveRests ==
    ASSUME NEW total, NEW w, NEW S, Apportioning(total, w, S),
           NEW i \in FirstBy(Remainders(total, w, S), S, LeftOver(total, w, S))
    PROVE  Remainders(total, w, S)[i] > 0
<1>1. PICK rest, N, left, A : /\ rest = Remainders(total, w, S) /\ N = WithRemainders(total, w, S)
                              /\ left = LeftOver(total, w, S) /\ A = Ahead(rest, S, i)
  OBVIOUS
<1>2. i \in S /\ IsFiniteSet(S) /\ \A j \in S : rest[j] \in Nat
  BY <1>1, FloorsAndRemainders DEF Apportioning, FirstBy
<1>3. Cardinality(A) < left /\ left \in 0 .. Cardinality(N) /\ Cardinality(N) \in Nat
  BY <1>1, LeftOverFits DEF FirstBy
<1>4. SUFFICES ASSUME rest[i] = 0
               PROVE  FALSE
  BY <1>1, <1>2
<1>5. N \subseteq A /\ A \subseteq S
  BY <1>1, <1>2, <1>4 DEF WithRemainders, Ahead, Outranks
<1>6. IsFiniteSet(A) /\ Cardinality(A) \in Nat /\ Cardinality(N) <= Cardinality(A)
  BY <1>2, <1>5, FS_Subset, FS_CardinalityType
<1>7. QED
  BY <1>3, <1>6

(* Who outranks one of the first is one of them. *)
LEMMA FirstAreClosed ==
    ASSUME NEW S, S \subseteq Int, IsFiniteSet(S), NEW key, \A i \in S : key[i] \in Int, NEW k \in Int,
           NEW j \in FirstBy(key, S, k), NEW i \in S, Outranks(key, i, j)
    PROVE  i \in FirstBy(key, S, k)
<1>1. j \in S
  BY DEF FirstBy
<1>2. Cardinality(Ahead(key, S, i)) < Cardinality(Ahead(key, S, j))
  BY <1>1, AheadHasFewer
<1>3. \A m \in S : Cardinality(Ahead(key, S, m)) \in Int
  <2> SUFFICES ASSUME NEW m \in S
               PROVE  Cardinality(Ahead(key, S, m)) \in Int
    OBVIOUS
  <2>1. Ahead(key, S, m) \subseteq S
    BY DEF Ahead
  <2>2. QED
    BY <2>1, FS_Subset, FS_CardinalityType
<1>4. Cardinality(Ahead(key, S, j)) < k
  BY DEF FirstBy
<1>5. PICK a \in Int, b \in Int : a = Cardinality(Ahead(key, S, i)) /\ b = Cardinality(Ahead(key, S, j))
  BY <1>1, <1>3
<1>6. a < k
  BY ONLY k \in Int, <1>2, <1>4, <1>5
<1>7. QED
  BY <1>5, <1>6 DEF FirstBy

(* The shares are the whole. *)
LEMMA SharesAddUp ==
    ASSUME NEW total, NEW w, NEW S, Apportioning(total, w, S)
    PROVE  SumFunctionOnSet(Apportioned(total, w, S), S) = total
<1>1. PICK floor, rest, left : /\ floor = Floors(total, w, S) /\ rest = Remainders(total, w, S)
                               /\ left = LeftOver(total, w, S)
  OBVIOUS
<1>2. /\ total \in Nat /\ IsFiniteSet(S) /\ S \subseteq Int
      /\ \A i \in S : floor[i] \in Int /\ rest[i] \in Int
  <2>1. \A i \in S : floor[i] \in Int /\ rest[i] \in Int
    BY <1>1, FloorsAndRemainders
  <2>2. QED
    BY <2>1, ApportioningHas
<1>3. left \in Nat /\ left <= Cardinality(S)
  <2>1. PICK n \in Nat : n = Cardinality(WithRemainders(total, w, S)) /\ n <= Cardinality(S) /\ left \in 0 .. n
    BY <1>1, LeftOverFits
  <2>2. Cardinality(S) \in Nat
    BY <1>2, FS_CardinalityType
  <2>3. QED
    BY <2>1, <2>2
<1>4. PICK T : T = FirstBy(rest, S, left)
  OBVIOUS
<1>5. T \subseteq S /\ Cardinality(T) = left
  BY <1>2, <1>3, <1>4, FirstByCount
<1> DEFINE one == [i \in S |-> IF i \in T THEN 1 ELSE 0]
<1>6. SumFunctionOnSet(one, S) = left
  <2>1. \A i \in S : one[i] = IF i \in T THEN 1 ELSE 0
    OBVIOUS
  <2> HIDE DEF one
  <2>2. QED
    BY <1>2, <1>5, <2>1, SumIndicator
<1>7. PICK share : share = Apportioned(total, w, S)
  OBVIOUS
<1>8. \A i \in S : floor[i] \in Int /\ one[i] \in Int /\ share[i] = floor[i] + one[i]
  BY <1>1, <1>2, <1>4, <1>7 DEF Apportioned
<1> HIDE DEF one
<1>9. SumFunctionOnSet(share, S) = SumFunctionOnSet(floor, S) + SumFunctionOnSet(one, S)
  <2>1. IsFiniteSet(S)
    BY <1>2
  <2>2. QED
    BY <2>1, <1>8, SumOfSums
<1>10. left = total - SumFunctionOnSet(floor, S) /\ SumFunctionOnSet(floor, S) \in Nat
  BY <1>1, LeftOverIsRemainders DEF LeftOver
<1>11. QED
  BY <1>2, <1>6, <1>7, <1>9, <1>10

(* Each share is less than one away from the exact one. *)
LEMMA SharesAreClose ==
    ASSUME NEW total, NEW w, NEW S, Apportioning(total, w, S), NEW i \in S
    PROVE  /\ Apportioned(total, w, S)[i] \in 0 .. total
           /\ Apportioned(total, w, S)[i] * SumFunctionOnSet(w, S) < total * w[i] + SumFunctionOnSet(w, S)
           /\ total * w[i] < (Apportioned(total, w, S)[i] + 1) * SumFunctionOnSet(w, S)
<1>1. PICK all, T : all = SumFunctionOnSet(w, S) /\ T = FirstBy(Remainders(total, w, S), S, LeftOver(total, w, S))
  OBVIOUS
<1>2. PICK f \in Nat, r \in Nat, v \in Nat : f = Floors(total, w, S)[i] /\ r = Remainders(total, w, S)[i] /\ v = w[i]
  BY FloorsAndRemainders DEF Apportioning
<1>3. /\ total \in Nat /\ all \in Nat /\ all > 0 /\ r < all /\ total * v = all * f + r /\ v <= all
  BY <1>1, <1>2, FloorsAndRemainders DEF Apportioning
<1>4. PICK a \in Nat : a = Apportioned(total, w, S)[i] /\ (a = f \/ (a = f + 1 /\ i \in T))
  BY <1>1, <1>2 DEF Apportioned
<1>5. a = f \/ (a = f + 1 /\ r > 0)
  BY <1>1, <1>2, <1>4, FirstHaveRests
<1>6. a * all < total * v + all /\ total * v < (a + 1) * all
  <2>1. CASE a = f
    <3>1. f * all = all * f /\ (f + 1) * all = all * f + all
      BY ONLY <1>2, <1>3
    <3>2. QED
      BY ONLY <1>2, <1>3, <2>1, <3>1
  <2>2. CASE a = f + 1 /\ r > 0
    <3>1. (f + 1) * all = all * f + all /\ (f + 1 + 1) * all = all * f + all + all
      BY ONLY <1>2, <1>3
    <3>2. QED
      BY ONLY <1>2, <1>3, <2>2, <3>1
  <2>3. QED
    BY <1>5, <2>1, <2>2
<1>7. a <= total
  <2>1. total * v <= total * all
    BY ONLY <1>2, <1>3
  <2>2. CASE a = f
    <3>1. all * f <= all * total
      BY ONLY <1>2, <1>3, <2>1
    <3>2. QED
      BY ONLY <1>2, <1>3, <2>2, <3>1
  <2>3. CASE a = f + 1 /\ r > 0
    <3>1. all * f < all * total
      BY ONLY <1>2, <1>3, <2>1, <2>3
    <3>2. f < total
      BY ONLY <1>2, <1>3, <3>1
    <3>3. QED
      BY ONLY <1>2, <1>3, <2>3, <3>2
  <2>4. QED
    BY <1>5, <2>2, <2>3
<1>8. QED
  BY <1>1, <1>2, <1>3, <1>4, <1>6, <1>7

(* A larger weight never gets the smaller share, nor the lower number of a tie. *)
LEMMA SharesFollowWeights ==
    ASSUME NEW total, NEW w, NEW S, Apportioning(total, w, S), NEW i \in S, NEW j \in S, Outranks(w, i, j)
    PROVE  Apportioned(total, w, S)[i] >= Apportioned(total, w, S)[j]
<1>1. PICK all, rest, left, T : /\ all = SumFunctionOnSet(w, S) /\ rest = Remainders(total, w, S)
                                /\ left = LeftOver(total, w, S) /\ T = FirstBy(rest, S, left)
  OBVIOUS
<1>2. PICK f \in Nat, r \in Nat, v \in Nat : f = Floors(total, w, S)[i] /\ r = rest[i] /\ v = w[i]
  BY <1>1, FloorsAndRemainders DEF Apportioning
<1>3. PICK g \in Nat, q \in Nat, u \in Nat : g = Floors(total, w, S)[j] /\ q = rest[j] /\ u = w[j]
  BY <1>1, FloorsAndRemainders DEF Apportioning
<1>4. /\ total \in Nat /\ all \in Nat /\ all > 0 /\ i \in Int /\ j \in Int
      /\ r < all /\ total * v = all * f + r /\ q < all /\ total * u = all * g + q
  BY <1>1, <1>2, <1>3, FloorsAndRemainders DEF Apportioning
<1>5. v > u \/ (v = u /\ i < j)
  BY <1>2, <1>3 DEF Outranks
<1>6. f >= g
  <2>1. total * v >= total * u
    BY ONLY <1>2, <1>3, <1>4, <1>5
  <2>2. all * f + all > all * g
    BY ONLY <1>2, <1>3, <1>4, <2>1
  <2>3. all * (f + 1) > all * g
    BY ONLY <1>2, <1>3, <1>4, <2>2
  <2>4. QED
    BY ONLY <1>2, <1>3, <1>4, <2>3
<1>7. f = g /\ j \in T => i \in T
  <2> SUFFICES ASSUME f = g, j \in T
               PROVE  i \in T
    OBVIOUS
  <2>1. q > 0
    BY <1>1, <1>3, FirstHaveRests
  <2>2. total > 0
    <3>1. CASE total = 0
      <4>1. 0 = all * g + q
        BY ONLY <1>3, <1>4, <3>1
      <4>2. all * g >= 0
        BY ONLY <1>3, <1>4
      <4>3. QED
        BY ONLY <1>3, <1>4, <2>1, <4>1, <4>2
    <3>2. QED
      BY ONLY <1>4, <3>1
  <2>3. r > q \/ (r = q /\ i < j)
    <3>1. CASE v = u /\ i < j
      <4>1. PICK x \in Int, m \in Int : x = total * v /\ m = all * f
        BY ONLY <1>2, <1>4
      <4>2. x = m + r /\ x = m + q
        BY ONLY <1>4, <3>1, <4>1, f = g
      <4>3. r = q
        BY ONLY <1>2, <1>3, <4>1, <4>2
      <4>4. QED
        BY <3>1, <4>3
    <3>2. CASE v > u
      <4>1. total * v > total * u
        BY ONLY <1>2, <1>3, <1>4, <2>2, <3>2
      <4>2. QED
        BY ONLY <1>2, <1>3, <1>4, <4>1, f = g
    <3>3. QED
      BY <1>5, <3>1, <3>2
  <2>4. Outranks(rest, i, j)
    BY <1>2, <1>3, <2>3 DEF Outranks
  <2>5. S \subseteq Int /\ IsFiniteSet(S) /\ (\A k \in S : rest[k] \in Int) /\ left \in Int
    <3>1. \A k \in S : rest[k] \in Int
      BY <1>1, FloorsAndRemainders
    <3>2. left \in Int
      BY <1>1, LeftOverIsRemainders
    <3>3. QED
      BY <3>1, <3>2, ApportioningHas
  <2>6. QED
    BY <1>1, <2>4, <2>5, FirstAreClosed
<1>8. /\ Apportioned(total, w, S)[i] = f + (IF i \in T THEN 1 ELSE 0)
      /\ Apportioned(total, w, S)[j] = g + (IF j \in T THEN 1 ELSE 0)
  BY <1>1, <1>2, <1>3 DEF Apportioned
<1>9. QED
  BY <1>2, <1>3, <1>6, <1>7, <1>8

----------------------------------------------------------------------------
(* Quotients, and the roundings of a quote. *)

(* What a quotient is. *)
LEMMA QuotientIs ==
    ASSUME NEW f \in Nat, NEW b \in Nat, b > 0, NEW q \in Nat
    PROVE  q = f \div b <=> q * b <= f /\ f < (q + 1) * b
<1>1. PICK d \in Int, r \in Nat : d = f \div b /\ f = b * d + r /\ r < b
  <2>1. f \div b \in Int /\ f % b \in Nat /\ f % b < b /\ f = b * (f \div b) + (f % b)
    OBVIOUS
  <2>2. QED
    BY <2>1
<1>2. d * b = b * d /\ (d + 1) * b = b * d + b
  OBVIOUS
<1>3. d * b <= f /\ f < (d + 1) * b
  BY <1>1, <1>2
<1>4. q < d => (q + 1) * b <= d * b
  OBVIOUS
<1>5. d < q => (d + 1) * b <= q * b
  OBVIOUS
<1>6. ASSUME q * b <= f, f < (q + 1) * b PROVE q = d
  BY <1>3, <1>4, <1>5, <1>6
<1>7. QED
  BY <1>1, <1>3, <1>6

(* What a division leaves. *)
LEMMA DivisionIs ==
    ASSUME NEW f \in Nat, NEW b \in Nat, b > 0
    PROVE  f \div b \in Nat /\ f = b * (f \div b) + (f % b)
OBVIOUS

(* How many of a size hold all. *)
LEMMA CeilingIs ==
    ASSUME NEW n \in Nat, NEW b \in Nat, b > 0, NEW z \in Nat, (z - 1) * b < n, n <= z * b
    PROVE  (n + b - 1) \div b = z
<1>1. (z - 1) * b = z * b - b /\ (z + 1) * b = z * b + b
  OBVIOUS
<1>2. PICK y \in Int : y = z * b
  OBVIOUS
<1>3. y - b < n /\ n <= y
  BY <1>1, <1>2
<1>4. PICK m \in Nat : m = n + b - 1
  OBVIOUS
<1>5. y <= m /\ m < y + b
  BY <1>3, <1>4
<1>6. z * b <= m /\ m < (z + 1) * b
  BY <1>1, <1>2, <1>5
<1>7. z = m \div b
  BY <1>6, QuotientIs
<1>8. QED
  BY <1>4, <1>7

(* Where a quotient lies. *)
LEMMA QuotientLies ==
    ASSUME NEW a \in Nat, NEW b \in Nat, b > 0
    PROVE  \E q \in Nat : q = a \div b /\ q * b <= a /\ a < (q + 1) * b
<1>1. PICK q \in Nat : q = a \div b
  BY DivisionIs
<1>2. QED
  BY <1>1, QuotientIs

(* Factors and order. *)
LEMMA Factors ==
    ASSUME NEW a \in Int, NEW b \in Int, NEW c \in Nat
    PROVE  /\ a <= b => a * c <= b * c
           /\ c > 0 => (a * c <= b * c => a <= b) /\ (a < b => a * c < b * c) /\ (a * c < b * c => a < b)
<1>1. a <= b => a * c <= b * c
  OBVIOUS
<1>2. b <= a => b * c <= a * c
  OBVIOUS
<1>3. c > 0 /\ a < b => a * c < b * c
  OBVIOUS
<1>4. c > 0 /\ b < a => b * c < a * c
  OBVIOUS
<1>5. PICK m \in Int, n \in Int : m = a * c /\ n = b * c
  OBVIOUS
<1>6. QED
  BY <1>1, <1>2, <1>3, <1>4, <1>5

(* Hundredths of ten thousandths. *)
Whole == 100 * 10000
TenThousandths == {n \in Nat : 1 <= n /\ n <= 10000}

(***************************************************************************)
(* What a quote is worth.  The pool, its fee and the transfer fee round    *)
(* down one after the other, f parts of a hundred and u of ten thousand    *)
(* being left; all in all less than three units are lost.                  *)
(***************************************************************************)
QuoteIsWithin(p, d, x, f, u) ==
    \E o \in Nat :
       /\ o = (((((p * x * d) \div (d + x)) * f) \div 100) * u) \div 10000
       /\ o * (Whole * (d + x)) <= (p * d * (f * u)) * x
       /\ (p * d * (f * u)) * x < (o + 3) * (Whole * (d + x))

LEMMA QuoteLies ==
    ASSUME NEW p \in Nat, NEW d \in Nat, NEW x \in Nat, d > 0, NEW f \in 1 .. 100, NEW u \in TenThousandths
    PROVE  QuoteIsWithin(p, d, x, f, u)
<1> SUFFICES ASSUME u \in Nat, 1 <= u, u <= 10000
             PROVE  QuoteIsWithin(p, d, x, f, u)
  BY DEF TenThousandths
<1>1. PICK y \in Nat : y = p * x * d
  OBVIOUS
<1>2. PICK z \in Nat : z = d + x /\ z > 0
  OBVIOUS
<1>3. PICK A \in Nat : A = y \div z /\ A * z <= y /\ y < (A + 1) * z
  BY <1>2, QuotientLies
<1>4. PICK h \in Nat : h = A * f
  OBVIOUS
<1>5. PICK g \in Nat : g = h \div 100 /\ g * 100 <= h /\ h < (g + 1) * 100
  BY QuotientLies
<1>6. PICK v \in Nat : v = g * u
  OBVIOUS
<1>7. PICK w \in Nat : w = v \div 10000 /\ w * 10000 <= v /\ v < (w + 1) * 10000
  BY QuotientLies
<1>8. w = (((((p * x * d) \div (d + x)) * f) \div 100) * u) \div 10000
  BY <1>1, <1>2, <1>3, <1>4, <1>5, <1>6, <1>7
<1>9. PICK W \in Nat : W = Whole /\ W = 100 * 10000
  BY DEF Whole
<1>10. PICK k \in Nat : k = f * u
  OBVIOUS
<1>11. k > 0 /\ k <= W
  <2>1. 1 * u <= f * u /\ f * u <= 100 * u
    BY Factors
  <2>2. u <= k /\ k <= 100 * u /\ u >= 1 /\ u <= 10000
    BY <1>10, <2>1
  <2>3. 100 * u <= 100 * 10000
    BY <2>2
  <2>4. QED
    BY <1>9, <2>2, <2>3
<1>12. PICK t \in Nat : t = h * u
  OBVIOUS
<1>13. W * w <= t /\ t < W * (w + 2)
  <2>1. (g * 100) * u <= h * u /\ h * u <= (g * 100 + 99) * u
    <3>1. g * 100 <= h /\ h <= g * 100 + 99
      BY <1>5
    <3>2. g * 100 \in Int /\ g * 100 + 99 \in Int
      OBVIOUS
    <3>3. QED
      BY <3>1, <3>2, Factors
  <2>2. PICK m \in Int, n \in Int : m = (g * 100) * u /\ n = (g * 100 + 99) * u
    OBVIOUS
  <2>3. m <= t /\ t <= n
    BY <1>12, <2>1, <2>2
  <2>4. m = 100 * v /\ n = 100 * v + 99 * u
    BY <1>6, <2>2
  <2>5. w * 10000 <= v /\ v <= w * 10000 + 9999
    BY <1>7
  <2>6. 100 * v <= t /\ t <= 100 * v + 99 * u
    BY <2>3, <2>4
  <2>7. PICK c \in Nat : c = 10000
    OBVIOUS
  <2>8. 100 * (w * c) <= t /\ t < 100 * (w * c) + 200 * c
    <3>1. PICK e \in Nat : e = w * c
      OBVIOUS
    <3>2. e <= v /\ v <= e + 9999
      BY <2>5, <2>7, <3>1
    <3>3. u \in Nat /\ u <= c
      BY <2>7
    <3>4. QED
      BY <2>6, <2>7, <3>1, <3>2, <3>3
  <2>9. W * w = 100 * (w * c) /\ W * (w + 2) = 100 * (w * c) + 200 * c
    <3>1. W = 100 * c
      BY <1>9, <2>7
    <3>2. (100 * c) * w = 100 * (w * c) /\ (100 * c) * (w + 2) = 100 * (w * c) + 200 * c
      OBVIOUS
    <3>3. QED
      BY <3>1, <3>2
  <2>10. QED
    BY <2>8, <2>9
<1>14. t = A * k
  BY <1>4, <1>10, <1>12
<1>15. (A * z) * k <= y * k /\ y * k < ((A + 1) * z) * k
  <2>1. PICK m \in Int, n \in Int : m = A * z /\ n = (A + 1) * z
    OBVIOUS
  <2>2. QED
    BY <1>3, <1>11, <2>1, Factors
<1>16. (A * z) * k = t * z /\ ((A + 1) * z) * k = t * z + k * z
  BY <1>14
<1>17. (W * w) * z <= t * z /\ t * z <= (W * (w + 2)) * z /\ k * z <= W * z
  <2>1. PICK m \in Int, n \in Int : m = W * w /\ n = W * (w + 2)
    OBVIOUS
  <2>2. QED
    BY <1>11, <1>13, <2>1, Factors
<1>18. (W * w) * z = w * (W * z) /\ (W * (w + 2)) * z + W * z = (w + 3) * (W * z)
  OBVIOUS
<1>19. y * k = (p * d * k) * x
  BY <1>1
<1>20. PICK a \in Int, b \in Int, c \in Int, e \in Int, l \in Int :
          a = t * z /\ b = k * z /\ c = y * k /\ e = (W * (w + 2)) * z /\ l = W * z
  OBVIOUS
<1>21. w * l <= c /\ c < (w + 3) * l
  <2>1. (W * w) * z <= a /\ a <= e /\ b <= l
    BY <1>17, <1>20
  <2>2. a <= c /\ c < a + b
    BY <1>15, <1>16, <1>20
  <2>3. (W * w) * z = w * l /\ e + l = (w + 3) * l
    BY <1>18, <1>20
  <2>4. QED
    BY <2>1, <2>2, <2>3
<1>22. Whole * (d + x) = l /\ (p * d * (f * u)) * x = c
  <2>1. Whole * (d + x) = W * z
    BY <1>2, <1>9
  <2>2. (p * d * (f * u)) * x = y * k
    BY <1>10, <1>19
  <2>3. QED
    BY <1>20, <2>1, <2>2
<1>23. QED
  BY <1>8, <1>21, <1>22 DEF QuoteIsWithin

(***************************************************************************)
(* The rate of the buy against the rate of the reference quote, in parts   *)
(* of ten thousand, against the same of the pool without roundings: q and  *)
(* r are the quotes, E and e the depths at X and x.                        *)
(***************************************************************************)
LEMMA RatesLie ==
    ASSUME NEW P \in Nat, NEW X \in Nat, NEW x \in Nat, 0 < x, x < X, NEW E \in Nat, NEW e \in Nat, e < E,
           NEW q \in Nat, NEW r \in Nat, r > 0,
           q * E <= P * X, P * X < (q + 3) * E, r * e <= P * x, P * x < (r + 3) * e,
           NEW rate \in Nat, rate * (X * r) <= q * x * 10000, q * x * 10000 < (rate + 1) * (X * r),
           NEW f \in Nat, f * E <= e * 10000, e * 10000 < (f + 1) * E,
           NEW s \in Nat, s * r <= 30000, 30000 < (s + 1) * r
    PROVE  f < 10000 /\ rate <= f + s + 1 /\ f <= rate + s + 1
<1>0. E > 0 /\ X > 0
  OBVIOUS
<1>1. f < 10000
  <2>1. f * E < 10000 * E
    <3>1. PICK m \in Int : m = f * E
      OBVIOUS
    <3>2. QED
      BY <3>1
  <2>2. QED
    BY <1>0, <2>1, Factors
<1>2. rate <= f + s + 1
  <2>1. (rate * r * E) * X <= (10000 * (P * x)) * X
    <3>1. (rate * (X * r)) * E <= (q * x * 10000) * E
      BY Factors
    <3>2. (q * E) * (10000 * x) <= (P * X) * (10000 * x)
      BY Factors
    <3>3. (rate * (X * r)) * E = (rate * r * E) * X
      OBVIOUS
    <3>4. (q * x * 10000) * E = (q * E) * (10000 * x)
      OBVIOUS
    <3>5. (P * X) * (10000 * x) = (10000 * (P * x)) * X
      OBVIOUS
    <3>6. QED
      BY <3>1, <3>2, <3>3, <3>4, <3>5
  <2>2. rate * r * E <= 10000 * (P * x)
    <3>1. PICK m \in Int, n \in Int : m = rate * r * E /\ n = 10000 * (P * x)
      OBVIOUS
    <3>2. QED
      BY <1>0, <2>1, <3>1, Factors
  <2>3. 10000 * (P * x) <= 10000 * ((r + 3) * e)
    <3>1. PICK m \in Int, n \in Int : m = P * x /\ n = (r + 3) * e
      OBVIOUS
    <3>2. QED
      BY <3>1
  <2>4. (e * 10000) * (r + 3) < ((f + 1) * E) * (r + 3)
    <3>1. PICK m \in Int, n \in Int, c \in Nat : m = e * 10000 /\ n = (f + 1) * E /\ c = r + 3 /\ c > 0
      OBVIOUS
    <3>2. QED
      BY <3>1, Factors
  <2>5. 10000 * ((r + 3) * e) = (e * 10000) * (r + 3) /\ ((f + 1) * E) * (r + 3) = ((f + 1) * (r + 3)) * E
    OBVIOUS
  <2>6. (rate * r) * E < ((f + 1) * (r + 3)) * E
    <3>1. (rate * r) * E = rate * r * E
      OBVIOUS
    <3>2. QED
      BY <2>2, <2>3, <2>4, <2>5, <3>1
  <2>7. rate * r < (f + 1) * (r + 3)
    <3>1. PICK m \in Int, n \in Int : m = rate * r /\ n = (f + 1) * (r + 3)
      OBVIOUS
    <3>2. QED
      BY <1>0, <2>6, <3>1, Factors
  <2>8. (f + 1) * (r + 3) = (f + 1) * r + 3 * (f + 1) /\ (f + 1) * r + (s + 1) * r = (f + s + 2) * r
    OBVIOUS
  <2>9. rate * r < (f + s + 2) * r
    BY <1>1, <2>7, <2>8
  <2>10. rate < f + s + 2
    BY <2>9, Factors
  <2>11. QED
    BY <2>10
<1>3. f <= rate + s + 1
  <2>1. (q * x * 10000) * E < ((rate + 1) * (X * r)) * E
    <3>1. PICK m \in Int, n \in Int : m = q * x * 10000 /\ n = (rate + 1) * (X * r)
      OBVIOUS
    <3>2. QED
      BY <1>0, <3>1, Factors
  <2>2. (P * X) * (10000 * x) <= ((q + 3) * E) * (10000 * x)
    <3>1. PICK m \in Int, n \in Int : m = P * X /\ n = (q + 3) * E
      OBVIOUS
    <3>2. QED
      BY <3>1, Factors
  <2>3. (r * e) * (10000 * X) <= (P * x) * (10000 * X)
    BY Factors
  <2>4. x * (30000 * E) <= X * (30000 * E)
    BY Factors
  <2>5. (q * x * 10000) * E + x * (30000 * E) = ((q + 3) * E) * (10000 * x)
    OBVIOUS
  <2>6. (P * x) * (10000 * X) = (P * X) * (10000 * x)
    OBVIOUS
  <2>7. ((rate + 1) * (X * r)) * E + X * (30000 * E) = (((rate + 1) * r + 30000) * E) * X
    OBVIOUS
  <2>8. (r * e) * (10000 * X) = (r * (e * 10000)) * X
    OBVIOUS
  <2>9. (r * (e * 10000)) * X < (((rate + 1) * r + 30000) * E) * X
    BY <2>1, <2>2, <2>3, <2>4, <2>5, <2>6, <2>7, <2>8
  <2>10. r * (e * 10000) < ((rate + 1) * r + 30000) * E
    <3>1. PICK m \in Int, n \in Int : m = r * (e * 10000) /\ n = ((rate + 1) * r + 30000) * E
      OBVIOUS
    <3>2. QED
      BY <1>0, <2>9, <3>1, Factors
  <2>11. (f * E) * r <= (e * 10000) * r
    BY Factors
  <2>12. (f * E) * r = (f * r) * E /\ (e * 10000) * r = r * (e * 10000)
    OBVIOUS
  <2>13. (f * r) * E < ((rate + 1) * r + 30000) * E
    BY <2>10, <2>11, <2>12
  <2>14. f * r < (rate + 1) * r + 30000
    <3>1. PICK m \in Int, n \in Int : m = f * r /\ n = (rate + 1) * r + 30000
      OBVIOUS
    <3>2. QED
      BY <1>0, <2>13, <3>1, Factors
  <2>15. (rate + 1) * r + (s + 1) * r = (rate + s + 2) * r
    OBVIOUS
  <2>16. f * r < (rate + s + 2) * r
    BY <2>14, <2>15
  <2>17. f < rate + s + 2
    BY <2>16, Factors
  <2>18. QED
    BY <2>17
<1>4. QED
  BY <1>1, <1>2, <1>3
=============================================================================
