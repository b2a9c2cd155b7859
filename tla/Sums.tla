-------------------------------- MODULE Sums --------------------------------
(***************************************************************************)
(* What proofs need to know of SumFunctionOnSet and SumFunction of the     *)
(* community modules.  They are defined by a recursive function on the     *)
(* subsets of the set; induction over these is put as the choice of a      *)
(* minimal counterexample.                                                 *)
(***************************************************************************)
EXTENDS Integers, FiniteSets, Functions, FiniteSetTheorems, WellFoundedInduction, TLAPS

Pick(s) == CHOOSE x \in s : TRUE

\* The equation of the sum at s, given what it is at smaller sets.
Value(f, g, s) == IF s = {} THEN 0 ELSE f[Pick(s)] + g[s \ {Pick(s)}]

Solves(f, D, g) == g = [s \in D |-> Value(f, g, s)]

\* The recursive function of the definition
Iter(f, S) == CHOOSE g : Solves(f, SUBSET S, g)

LEMMA SumIsIter == ASSUME NEW f, NEW S PROVE SumFunctionOnSet(f, S) = Iter(f, S)[S]
  BY DEF SumFunctionOnSet, FoldFunctionOnSet, MapThenFoldSet, Iter, Solves, Value, Pick

LEMMA PickIn == ASSUME NEW s, s # {} PROVE Pick(s) \in s
  BY DEF Pick

-----------------------------------------------------------------------------
(* Minimal counterexamples *)

LEMMA MinimalSet ==
    ASSUME NEW S, NEW B \in SUBSET FiniteSubsetsOf(S), B # {}
    PROVE  \E b \in B : \A c \in B : c \subseteq b => c = b
  <1>1. PICK b \in B : \A c \in B : ~(<<c, b>> \in StrictSubsetOrdering(S))
    BY FS_StrictSubsetOrderingWellFounded, WFMin
  <1> QED
    BY <1>1 DEF StrictSubsetOrdering, FiniteSubsetsOf

LEMMA MinimalSubset ==
    ASSUME NEW S, IsFiniteSet(S), NEW B \in SUBSET SUBSET S, B # {}
    PROVE  \E b \in B : \A c \in B : c \subseteq b => c = b
  BY MinimalSet, FS_Subset DEF FiniteSubsetsOf

LEMMA LeastNumber ==
    ASSUME NEW T \in SUBSET Nat, T # {}
    PROVE  \E n \in T : \A m \in T : n <= m
  <1> DEFINE B == {0 .. n : n \in T}
  <1>1. \A n \in Nat : IsFiniteSet(0 .. n)
    BY FS_Interval
  <1>2. B \in SUBSET FiniteSubsetsOf(Nat) /\ B # {}
    <2>1. \A n \in T : 0 .. n \in SUBSET Nat /\ IsFiniteSet(0 .. n)
      BY <1>1
    <2>2. \A b \in B : b \in FiniteSubsetsOf(Nat)
      BY <2>1 DEF FiniteSubsetsOf
    <2>3. PICK n \in T : TRUE
      OBVIOUS
    <2>4. 0 .. n \in B
      OBVIOUS
    <2> QED
      BY <2>2, <2>4
  <1> HIDE DEF B
  <1>3. PICK b \in B : \A c \in B : c \subseteq b => c = b
    BY <1>2, MinimalSet
  <1>4. PICK n \in T : b = 0 .. n
    BY <1>3 DEF B
  <1>5. ASSUME NEW m \in T, m < n PROVE FALSE
    <2>1. 0 .. m \in B /\ 0 .. m \subseteq b /\ n \in b /\ n \notin 0 .. m
      BY <1>4, <1>5 DEF B
    <2> QED
      BY <2>1, <1>3
  <1> QED
    BY <1>4, <1>5

-----------------------------------------------------------------------------
(* The recursive function exists *)

Layer(S, n) == {s \in SUBSET S : Cardinality(s) <= n}

LEMMA Smaller ==
    ASSUME NEW S, IsFiniteSet(S), NEW s \in SUBSET S, NEW x \in s
    PROVE  /\ IsFiniteSet(s) /\ s \ {x} \in SUBSET S
           /\ Cardinality(s) \in Nat /\ Cardinality(s \ {x}) = Cardinality(s) - 1
  BY FS_Subset, FS_RemoveElement, FS_CardinalityType

LEMMA LayersSolved ==
    ASSUME NEW f, NEW S, IsFiniteSet(S), NEW n \in Nat
    PROVE  \E g : Solves(f, Layer(S, n), g)
  <1> DEFINE T == {k \in Nat : ~\E g : Solves(f, Layer(S, k), g)}
  <1> SUFFICES ASSUME T # {} PROVE FALSE
    OBVIOUS
  <1>1. PICK k \in T : \A m \in T : k <= m
    BY LeastNumber
  <1>2. CASE k = 0
    <2>1. Layer(S, 0) = {{}}
      <3>1. \A s \in SUBSET S : Cardinality(s) <= 0 <=> s = {}
        BY FS_Subset, FS_EmptySet, FS_CardinalityType
      <3> QED
        BY <3>1 DEF Layer
    <2>2. Solves(f, Layer(S, 0), [s \in {{}} |-> 0])
      BY <2>1 DEF Solves, Value
    <2> QED
      BY <2>2, <1>1, <1>2
  <1>3. CASE k # 0
    <2>1. k - 1 \in Nat /\ k - 1 \notin T
      BY <1>1, <1>3
    <2>2. PICK g : Solves(f, Layer(S, k - 1), g)
      BY <2>1
    <2> DEFINE h == [s \in Layer(S, k) |-> Value(f, g, s)]
    <2>3. ASSUME NEW s \in Layer(S, k) PROVE Value(f, h, s) = Value(f, g, s)
      <3>1. CASE s = {}
        BY <3>1 DEF Value
      <3>2. CASE s # {}
        <4> DEFINE r == s \ {Pick(s)}
        <4>1. Pick(s) \in s /\ s \in SUBSET S
          BY <3>2, PickIn DEF Layer
        <4>2. r \in Layer(S, k - 1) /\ r \in Layer(S, k)
          BY <4>1, Smaller DEF Layer
        <4>3. h[r] = g[r]
          BY <4>2, <2>2 DEF Solves
        <4> QED
          BY <4>3, <3>2 DEF Value
      <3> QED
        BY <3>1, <3>2
    <2>4. Solves(f, Layer(S, k), h)
      BY <2>3 DEF Solves
    <2> QED
      BY <2>4, <1>1
  <1> QED
    BY <1>2, <1>3

LEMMA IterSolves ==
    ASSUME NEW f, NEW S, IsFiniteSet(S)
    PROVE  Solves(f, SUBSET S, Iter(f, S))
  <1>1. Cardinality(S) \in Nat /\ Layer(S, Cardinality(S)) = SUBSET S
    BY FS_Subset, FS_CardinalityType DEF Layer
  <1>2. \E g : Solves(f, Layer(S, Cardinality(S)), g)
    BY <1>1, LayersSolved
  <1>3. \E g : Solves(f, SUBSET S, g)
    BY <1>1, <1>2
  <1> QED
    BY <1>3 DEF Iter

LEMMA IterAt ==
    ASSUME NEW f, NEW S, IsFiniteSet(S), NEW s \in SUBSET S
    PROVE  /\ s = {} => Iter(f, S)[s] = 0
           /\ s # {} => /\ Pick(s) \in s
                        /\ Iter(f, S)[s] = f[Pick(s)] + Iter(f, S)[s \ {Pick(s)}]
  <1> DEFINE I == Iter(f, S)
  <1>1. I = [t \in SUBSET S |-> Value(f, I, t)]
    <2>1. Solves(f, SUBSET S, I)
      BY IterSolves
    <2> HIDE DEF I
    <2> QED
      BY <2>1 DEF Solves
  <1> HIDE DEF I
  <1>2. I[s] = Value(f, I, s)
    BY <1>1
  <1> QED
    BY <1>2, PickIn DEF Value, I

LEMMA IterEmpty == ASSUME NEW f, NEW S, IsFiniteSet(S) PROVE Iter(f, S)[{}] = 0
  <1>1. {} \in SUBSET S
    OBVIOUS
  <1> QED
    BY <1>1, IterAt

\* It depends on f at the elements only, and not on the set around.
LEMMA IterSame ==
    ASSUME NEW f, NEW g, NEW U, IsFiniteSet(U), NEW S \in SUBSET U, \A x \in S : f[x] = g[x]
    PROVE  \A s \in SUBSET S : Iter(f, S)[s] = Iter(g, U)[s]
  <1>0. IsFiniteSet(S)
    BY FS_Subset
  <1>a. \A t \in SUBSET U : t # {} => Iter(g, U)[t] = g[Pick(t)] + Iter(g, U)[t \ {Pick(t)}]
    BY IterAt
  <1> DEFINE B == {s \in SUBSET S : Iter(f, S)[s] # Iter(g, U)[s]}
  <1> SUFFICES ASSUME B # {} PROVE FALSE
    OBVIOUS
  <1>1. PICK b \in B : \A c \in B : c \subseteq b => c = b
    <2>1. B \in SUBSET SUBSET S
      OBVIOUS
    <2> HIDE DEF B
    <2> QED
      BY <2>1, <1>0, MinimalSubset
  <1>2. b \in SUBSET S /\ b \in SUBSET U /\ Iter(f, S)[b] # Iter(g, U)[b]
    BY <1>1
  <1>3. CASE b = {}
    BY <1>0, <1>3, IterEmpty
  <1>4. CASE b # {}
    <2>1. Pick(b) \in b /\ b \ {Pick(b)} \in SUBSET S /\ b \ {Pick(b)} # b
      BY <1>4, PickIn
    <2>2. Iter(f, S)[b \ {Pick(b)}] = Iter(g, U)[b \ {Pick(b)}]
      BY <1>1, <2>1
    <2>3. Iter(f, S)[b] = f[Pick(b)] + Iter(f, S)[b \ {Pick(b)}]
      BY <1>0, <1>2, <1>4, IterAt
    <2>4. Iter(g, U)[b] = g[Pick(b)] + Iter(g, U)[b \ {Pick(b)}]
      BY <1>a, <1>2, <1>4
    <2>5. f[Pick(b)] = g[Pick(b)]
      BY <1>2, <2>1
    <2> QED
      BY <1>2, <2>2, <2>3, <2>4, <2>5
  <1> QED
    BY <1>3, <1>4

LEMMA IterType ==
    ASSUME NEW f, NEW S, IsFiniteSet(S), \A x \in S : f[x] \in Int
    PROVE  \A s \in SUBSET S : Iter(f, S)[s] \in Int
  <1> DEFINE B == {s \in SUBSET S : Iter(f, S)[s] \notin Int}
  <1> SUFFICES ASSUME B # {} PROVE FALSE
    OBVIOUS
  <1>1. PICK b \in B : \A c \in B : c \subseteq b => c = b
    <2>1. B \in SUBSET SUBSET S
      OBVIOUS
    <2> HIDE DEF B
    <2> QED
      BY <2>1, MinimalSubset
  <1>2. CASE b = {}
    BY <1>1, <1>2, IterEmpty
  <1>3. CASE b # {}
    <2>1. Pick(b) \in b /\ b \ {Pick(b)} \in SUBSET S /\ b \ {Pick(b)} # b
      BY <1>3, PickIn
    <2>2. Iter(f, S)[b \ {Pick(b)}] \in Int
      BY <1>1, <2>1
    <2>3. Iter(f, S)[b] = f[Pick(b)] + Iter(f, S)[b \ {Pick(b)}]
      BY <1>3, IterAt
    <2> QED
      BY <2>1, <2>2, <2>3
  <1> QED
    BY <1>2, <1>3

\* The order in which the elements are taken does not matter.
LEMMA IterRemove ==
    ASSUME NEW f, NEW S, IsFiniteSet(S), \A x \in S : f[x] \in Int
    PROVE  \A s \in SUBSET S : \A x \in s : Iter(f, S)[s] = f[x] + Iter(f, S)[s \ {x}]
  <1> DEFINE I == Iter(f, S)
             Bad(s) == \E x \in s : I[s] # f[x] + I[s \ {x}]
             B == {s \in SUBSET S : Bad(s)}
  <1> SUFFICES ASSUME B # {} PROVE FALSE
    OBVIOUS
  <1> HIDE DEF I
  <1>1. PICK b \in B : \A c \in B : c \subseteq b => c = b
    <2>1. B \in SUBSET SUBSET S
      OBVIOUS
    <2> HIDE DEF B
    <2> QED
      BY <2>1, MinimalSubset
  <1>2. PICK x \in b : I[b] # f[x] + I[b \ {x}]
    OBVIOUS
  <1> DEFINE y == Pick(b)
             r == b \ {y}
  <1>3. y \in b /\ I[b] = f[y] + I[r]
    BY <1>2, IterAt DEF I
  <1>4. x # y
    BY <1>2, <1>3
  <1> HIDE DEF y
  <1>5. \A c \in SUBSET S : c \subseteq b /\ c # b => ~Bad(c)
    BY <1>1
  <1>6. I[r] = f[x] + I[r \ {x}]
    BY <1>5, <1>3, <1>4
  <1>7. I[b \ {x}] = f[y] + I[(b \ {x}) \ {y}]
    BY <1>5, <1>3, <1>4
  <1>8. r \ {x} = (b \ {x}) \ {y}
    OBVIOUS
  <1>9. f[x] \in Int /\ f[y] \in Int /\ I[r \ {x}] \in Int
    BY <1>3, IterType DEF I
  <1>10. I[b \ {x}] = f[y] + I[r \ {x}]
    BY <1>7, <1>8
  <1> HIDE DEF r
  <1> QED
    BY <1>2, <1>3, <1>6, <1>9, <1>10

-----------------------------------------------------------------------------
(* Sums *)

\* A sum is an integer, and natural if what is added is.
THEOREM SumType ==
    ASSUME NEW f, NEW S, IsFiniteSet(S), \A x \in S : f[x] \in Int
    PROVE  SumFunctionOnSet(f, S) \in Int
  BY SumIsIter, IterType

THEOREM SumEmpty == \A f : SumFunctionOnSet(f, {}) = 0
  <1> SUFFICES ASSUME NEW f PROVE SumFunctionOnSet(f, {}) = 0
    OBVIOUS
  <1> QED
    BY SumIsIter, IterAt, FS_EmptySet

\* Sums of functions that agree on the set are the same.
THEOREM SumSame ==
    ASSUME NEW f, NEW g, NEW S, IsFiniteSet(S), \A x \in S : f[x] = g[x]
    PROVE  SumFunctionOnSet(f, S) = SumFunctionOnSet(g, S)
  BY SumIsIter, IterSame

THEOREM SumRemove ==
    ASSUME NEW f, NEW S, IsFiniteSet(S), \A y \in S : f[y] \in Int, NEW x \in S
    PROVE  SumFunctionOnSet(f, S) = f[x] + SumFunctionOnSet(f, S \ {x})
  <1>1. Iter(f, S)[S] = f[x] + Iter(f, S)[S \ {x}]
    BY IterRemove
  <1>2. Iter(f, S \ {x})[S \ {x}] = Iter(f, S)[S \ {x}]
    BY IterSame
  <1> QED
    BY <1>1, <1>2, SumIsIter

THEOREM SumAdd ==
    ASSUME NEW f, NEW S, IsFiniteSet(S), NEW x, x \notin S, \A y \in S \union {x} : f[y] \in Int
    PROVE  SumFunctionOnSet(f, S \union {x}) = f[x] + SumFunctionOnSet(f, S)
  <1>1. IsFiniteSet(S \union {x}) /\ (S \union {x}) \ {x} = S
    BY FS_AddElement
  <1> QED
    BY <1>1, SumRemove

\* A sum changes by as much as one of its terms.
THEOREM SumUpdate ==
    ASSUME NEW f, NEW g, NEW S, IsFiniteSet(S), NEW x \in S,
           \A y \in S : f[y] \in Int /\ g[y] \in Int,
           \A y \in S \ {x} : g[y] = f[y]
    PROVE  SumFunctionOnSet(g, S) = SumFunctionOnSet(f, S) + (g[x] - f[x])
  <1>1. IsFiniteSet(S \ {x})
    BY FS_RemoveElement
  <1>2. SumFunctionOnSet(g, S \ {x}) = SumFunctionOnSet(f, S \ {x})
    BY <1>1, SumSame
  <1>3. SumFunctionOnSet(f, S) = f[x] + SumFunctionOnSet(f, S \ {x})
    BY SumRemove
  <1>4. SumFunctionOnSet(g, S) = g[x] + SumFunctionOnSet(g, S \ {x})
    BY SumRemove
  <1>5. SumFunctionOnSet(f, S \ {x}) \in Int
    BY <1>1, SumType
  <1> QED
    BY <1>2, <1>3, <1>4, <1>5

THEOREM SumZero ==
    ASSUME NEW f, NEW S, IsFiniteSet(S), \A x \in S : f[x] = 0
    PROVE  SumFunctionOnSet(f, S) = 0
  <1> DEFINE B == {s \in SUBSET S : Iter(f, S)[s] # 0}
  <1> SUFFICES ASSUME B # {} PROVE FALSE
    BY SumIsIter
  <1>1. PICK b \in B : \A c \in B : c \subseteq b => c = b
    <2>1. B \in SUBSET SUBSET S
      OBVIOUS
    <2> HIDE DEF B
    <2> QED
      BY <2>1, MinimalSubset
  <1>2. b # {} /\ b \in SUBSET S
    BY <1>1, IterEmpty
  <1>3. Pick(b) \in b /\ b \ {Pick(b)} \in SUBSET S /\ b \ {Pick(b)} # b
    BY <1>2, PickIn
  <1>4. Iter(f, S)[b \ {Pick(b)}] = 0
    BY <1>1, <1>3
  <1>5. Iter(f, S)[b] = f[Pick(b)] + Iter(f, S)[b \ {Pick(b)}]
    BY <1>2, IterAt
  <1> QED
    BY <1>3, <1>4, <1>5

THEOREM SumNat ==
    ASSUME NEW f, NEW S, IsFiniteSet(S), \A x \in S : f[x] \in Nat
    PROVE  SumFunctionOnSet(f, S) \in Nat
  <1> DEFINE B == {s \in SUBSET S : Iter(f, S)[s] \notin Nat}
  <1> SUFFICES ASSUME B # {} PROVE FALSE
    BY SumIsIter
  <1>1. PICK b \in B : \A c \in B : c \subseteq b => c = b
    <2>1. B \in SUBSET SUBSET S
      OBVIOUS
    <2> HIDE DEF B
    <2> QED
      BY <2>1, MinimalSubset
  <1>2. b # {} /\ b \in SUBSET S
    <2>1. Iter(f, S)[{}] \in Nat
      BY IterEmpty
    <2> QED
      BY <2>1
  <1>3. Pick(b) \in b /\ b \ {Pick(b)} \in SUBSET S /\ b \ {Pick(b)} # b
    BY <1>2, PickIn
  <1>4. Iter(f, S)[b \ {Pick(b)}] \in Nat
    BY <1>1, <1>3
  <1>5. Iter(f, S)[b] = f[Pick(b)] + Iter(f, S)[b \ {Pick(b)}]
    BY <1>2, IterAt
  <1> QED
    BY <1>3, <1>4, <1>5

\* A sum of smaller terms is no larger.
THEOREM SumLess ==
    ASSUME NEW f, NEW g, NEW S, IsFiniteSet(S),
           \A x \in S : f[x] \in Int /\ g[x] \in Int /\ f[x] <= g[x]
    PROVE  SumFunctionOnSet(f, S) <= SumFunctionOnSet(g, S)
  <1> DEFINE I == Iter(f, S)
             J == Iter(g, S)
             B == {s \in SUBSET S : ~(I[s] <= J[s])}
  <1>0. \A s \in SUBSET S : I[s] \in Int /\ J[s] \in Int
    BY IterType
  <1>a. \A s \in SUBSET S : s # {} => /\ I[s] = f[Pick(s)] + I[s \ {Pick(s)}]
                                   /\ J[s] = g[Pick(s)] + J[s \ {Pick(s)}]
    <2>1. \A s \in SUBSET S : s # {} => Iter(f, S)[s] = f[Pick(s)] + Iter(f, S)[s \ {Pick(s)}]
      BY IterAt
    <2>2. \A s \in SUBSET S : s # {} => Iter(g, S)[s] = g[Pick(s)] + Iter(g, S)[s \ {Pick(s)}]
      BY IterAt
    <2> QED
      BY <2>1, <2>2
  <1> SUFFICES ASSUME B # {} PROVE FALSE
    BY SumIsIter
  <1>1. PICK b \in B : \A c \in B : c \subseteq b => c = b
    <2>1. B \in SUBSET SUBSET S
      OBVIOUS
    <2> HIDE DEF B
    <2> QED
      BY <2>1, MinimalSubset
  <1>2. b # {} /\ b \in SUBSET S
    <2>1. I[{}] = 0 /\ J[{}] = 0
      BY IterEmpty
    <2> QED
      BY <2>1
  <1>3. Pick(b) \in b /\ b \ {Pick(b)} \in SUBSET S /\ b \ {Pick(b)} # b
    BY <1>2, PickIn
  <1>4. I[b \ {Pick(b)}] <= J[b \ {Pick(b)}]
    BY <1>1, <1>3
  <1>5. I[b] = f[Pick(b)] + I[b \ {Pick(b)}] /\ J[b] = g[Pick(b)] + J[b \ {Pick(b)}]
    BY <1>2, <1>a
  <1>6. Pick(b) \in S
    BY <1>3
  <1> HIDE DEF I, J
  <1>7. I[b] <= J[b]
    <2> DEFINE p == Pick(b)
               r == b \ {p}
    <2>1. /\ f[p] \in Int /\ g[p] \in Int /\ f[p] <= g[p]
          /\ I[r] \in Int /\ J[r] \in Int /\ I[r] <= J[r]
          /\ I[b] = f[p] + I[r] /\ J[b] = g[p] + J[r]
      BY <1>0, <1>3, <1>4, <1>5, <1>6
    <2> HIDE DEF r, p
    <2> QED
      BY <2>1
  <1> QED
    BY <1>7

=============================================================================
