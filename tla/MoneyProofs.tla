----------------------------- MODULE MoneyProofs ------------------------------
(***************************************************************************)
(* Proofs about amounts that add up (the limit that the cases of one buyer *)
(* share, receipts, instalments) and about the papers next to them.  They  *)
(* start from what a sum over a finite set is.                             *)
(***************************************************************************)
EXTENDS MCCustomers, SequenceTheorems, FiniteSetTheorems, FunctionTheorems, WellFoundedInduction, TLAPS

(***************************************************************************)
(* Induction.  The principle is stated of a set where the library's takes  *)
(* an operator, which the provers cannot be handed.                        *)
(***************************************************************************)
LEMMA NatSet ==
  ASSUME NEW G, 0 \in G, \A n \in Nat : n \in G => n + 1 \in G
  PROVE  Nat \subseteq G
<1> DEFINE bad == Nat \ G
<1> SUFFICES ASSUME bad # {} PROVE FALSE
  OBVIOUS
<1>1. IsWellFoundedOn(OpToRel(<, Nat), Nat)
  BY NatLessThanWellFounded
<1>2. PICK n \in bad : \A m \in bad : ~(<<m, n>> \in OpToRel(<, Nat))
  <2>1. bad \subseteq Nat /\ bad # {}
    OBVIOUS
  <2> HIDE DEF bad
  <2> QED BY <1>1, <2>1, WFMin
<1>3. n \in Nat /\ n # 0
  OBVIOUS
<1>4. n - 1 \in Nat /\ n - 1 < n /\ (n - 1) + 1 = n
  BY <1>3
<1>5. n - 1 \in G
  BY <1>2, <1>3, <1>4 DEF OpToRel
<1> QED BY <1>4, <1>5

(* A family that holds a set as soon as it holds it without any one of its *)
(* elements holds every finite set.                                        *)
LEMMA FiniteSetIn ==
  ASSUME NEW S, IsFiniteSet(S), NEW G,
         \A T \in SUBSET S : (\A x \in T : T \ {x} \in G) => T \in G
  PROVE  S \in G
<1> DEFINE H == {n \in Nat : \A T \in SUBSET S : Cardinality(T) <= n => T \in G}
<1>fin. \A T \in SUBSET S : IsFiniteSet(T) /\ Cardinality(T) \in Nat
  BY FS_Subset, FS_CardinalityType
<1>1. 0 \in H
  <2> SUFFICES ASSUME NEW T \in SUBSET S, Cardinality(T) <= 0 PROVE T \in G
    OBVIOUS
  <2>1. T = {}
    BY <1>fin, FS_EmptySet
  <2> QED BY <2>1
<1>2. ASSUME NEW n \in Nat, n \in H PROVE n + 1 \in H
  <2> SUFFICES ASSUME NEW T \in SUBSET S, Cardinality(T) <= n + 1 PROVE T \in G
    OBVIOUS
  <2>1. ASSUME NEW x \in T PROVE T \ {x} \in G
    <3>1. IsFiniteSet(T) /\ Cardinality(T) \in Nat
      BY <1>fin
    <3>2. Cardinality(T \ {x}) = Cardinality(T) - 1
      BY <3>1, FS_RemoveElement
    <3>3. T \ {x} \in SUBSET S /\ Cardinality(T \ {x}) <= n
      BY <3>1, <3>2
    <3> QED BY <1>2, <3>3
  <2> QED BY <2>1
<1>3. Nat \subseteq H
  <2> HIDE DEF H
  <2> QED BY <1>1, <1>2, NatSet
<1>4. Cardinality(S) \in H
  BY <1>3, FS_CardinalityType
<1> QED BY <1>4, <1>fin

(***************************************************************************)
(* Sums.  MapThenSumSet is a CHOOSE of a recursive function on the subsets *)
(* of the set; there is one, and whichever element goes first it says the  *)
(* same.                                                                   *)
(***************************************************************************)
Pick(s) == CHOOSE x \in s : TRUE
SumTo(g, f, D) == [s \in D |-> IF s = {} THEN 0 ELSE f[Pick(s)] + g[s \ {Pick(s)}]]
SumFcn(f, S) == CHOOSE g : g = SumTo(g, f, SUBSET S)
SumOf(f, S) == SumFcn(f, S)[S]

LEMMA PickOne == \A s : s # {} => Pick(s) \in s
BY DEF Pick

LEMMA SumIsSumOf ==
  ASSUME NEW f, NEW S
  PROVE  MapThenSumSet(LAMBDA x : f[x], S) = SumOf(f, S)
BY DEF MapThenSumSet, MapThenFoldSet, SumOf, SumFcn, SumTo, Pick

LEMMA SumFcnExists ==
  ASSUME NEW f, NEW S, IsFiniteSet(S)
  PROVE  SumFcn(f, S) = SumTo(SumFcn(f, S), f, SUBSET S)
<1> DEFINE Small(n) == {s \in SUBSET S : Cardinality(s) <= n}
           H == {n \in Nat : \E g : g = SumTo(g, f, Small(n))}
<1>fin. \A T \in SUBSET S : IsFiniteSet(T) /\ Cardinality(T) \in Nat /\ Cardinality(T) <= Cardinality(S)
  BY FS_Subset, FS_CardinalityType
<1>1. 0 \in H
  <2>1. Small(0) = {{}}
    BY <1>fin, FS_EmptySet
  <2> DEFINE g0 == [s \in {{}} |-> 0]
  <2>2. g0 = SumTo(g0, f, {{}})
    BY DEF SumTo
  <2> QED BY <2>1, <2>2
<1>2. ASSUME NEW n \in Nat, n \in H PROVE n + 1 \in H
  <2>1. PICK g : g = SumTo(g, f, Small(n))
    BY <1>2
  <2> DEFINE h == SumTo(g, f, Small(n + 1))
  <2>2. ASSUME NEW s \in Small(n) PROVE h[s] = g[s]
    <3>1. s \in Small(n + 1)
      BY <1>fin
    <3> QED BY <2>1, <3>1 DEF SumTo
  <2>3. ASSUME NEW s \in Small(n + 1), s # {} PROVE s \ {Pick(s)} \in Small(n)
    <3>1. Pick(s) \in s /\ IsFiniteSet(s) /\ Cardinality(s) \in Nat
      BY <2>3, <1>fin, PickOne
    <3>2. Cardinality(s \ {Pick(s)}) = Cardinality(s) - 1
      BY <3>1, FS_RemoveElement
    <3> QED BY <3>1, <3>2
  <2>4. h = SumTo(h, f, Small(n + 1))
    <3> HIDE DEF Small
    <3> QED BY <2>2, <2>3 DEF SumTo
  <2> QED BY <2>4
<1>3. Nat \subseteq H
  <2> HIDE DEF H
  <2> QED BY <1>1, <1>2, NatSet
<1>4. Cardinality(S) \in H
  BY <1>3, FS_CardinalityType
<1>5. Small(Cardinality(S)) = SUBSET S
  BY <1>fin
<1>6. \E g : g = SumTo(g, f, SUBSET S)
  BY <1>4, <1>5
<1> QED BY <1>6 DEF SumFcn

LEMMA SumOfEmpty == \A f : SumOf(f, {}) = 0
<1> SUFFICES ASSUME NEW f PROVE SumOf(f, {}) = 0
  OBVIOUS
<1>1. IsFiniteSet({})
  BY FS_EmptySet
<1>2. SumFcn(f, {}) = SumTo(SumFcn(f, {}), f, SUBSET {})
  BY <1>1, SumFcnExists
<1>3. SumTo(SumFcn(f, {}), f, SUBSET {})[{}] = 0
  BY DEF SumTo
<1> QED BY <1>2, <1>3 DEF SumOf

(* The function for a set also sums up its subsets.                        *)
LEMMA SumFcnBelow ==
  ASSUME NEW f, NEW S, IsFiniteSet(S), NEW T \in SUBSET S
  PROVE  SumFcn(f, S)[T] = SumOf(f, T)
<1> DEFINE G == {U \in SUBSET S : \A V \in SUBSET S : U \subseteq V => SumFcn(f, V)[U] = SumFcn(f, U)[U]}
<1>1. ASSUME NEW U \in SUBSET T, \A x \in U : U \ {x} \in G PROVE U \in G
  <2> SUFFICES ASSUME NEW V \in SUBSET S, U \subseteq V PROVE SumFcn(f, V)[U] = SumFcn(f, U)[U]
    OBVIOUS
  <2>1. IsFiniteSet(U) /\ IsFiniteSet(V)
    BY FS_Subset
  <2>2. /\ SumFcn(f, V) = SumTo(SumFcn(f, V), f, SUBSET V)
        /\ SumFcn(f, U) = SumTo(SumFcn(f, U), f, SUBSET U)
    BY <2>1, SumFcnExists
  <2>3. CASE U = {}
    BY <2>2, <2>3 DEF SumTo
  <2>4. CASE U # {}
    <3>1. Pick(U) \in U
      BY <2>4, PickOne
    <3>2. U \ {Pick(U)} \in G
      BY <1>1, <3>1
    <3> DEFINE W == U \ {Pick(U)}
    <3>3. SumFcn(f, V)[W] = SumFcn(f, W)[W] /\ SumFcn(f, U)[W] = SumFcn(f, W)[W]
      BY <3>2
    <3>4. /\ SumFcn(f, V)[U] = f[Pick(U)] + SumFcn(f, V)[W]
          /\ SumFcn(f, U)[U] = f[Pick(U)] + SumFcn(f, U)[W]
      BY <2>2, <2>4 DEF SumTo
    <3> QED BY <3>3, <3>4
  <2> QED BY <2>3, <2>4
<1>2. IsFiniteSet(T)
  BY FS_Subset
<1>3. T \in G
  <2> HIDE DEF G
  <2> QED BY <1>1, <1>2, FiniteSetIn
<1> QED BY <1>3 DEF SumOf

LEMMA SumOfPick ==
  ASSUME NEW f, NEW S, IsFiniteSet(S), S # {}
  PROVE  SumOf(f, S) = f[Pick(S)] + SumOf(f, S \ {Pick(S)})
<1>1. SumFcn(f, S)[S] = f[Pick(S)] + SumFcn(f, S)[S \ {Pick(S)}]
  <2>1. SumFcn(f, S) = SumTo(SumFcn(f, S), f, SUBSET S)
    BY SumFcnExists
  <2>2. \A g : SumTo(g, f, SUBSET S)[S] = f[Pick(S)] + g[S \ {Pick(S)}]
    BY DEF SumTo
  <2> QED BY <2>1, <2>2
<1>2. SumFcn(f, S)[S \ {Pick(S)}] = SumOf(f, S \ {Pick(S)})
  BY SumFcnBelow
<1> QED BY <1>1, <1>2 DEF SumOf

LEMMA SumOfInt ==
  ASSUME NEW f, NEW S, IsFiniteSet(S), \A x \in S : f[x] \in Int
  PROVE  SumOf(f, S) \in Int
<1> DEFINE G == {T \in SUBSET S : SumOf(f, T) \in Int}
<1>1. ASSUME NEW T \in SUBSET S, \A x \in T : T \ {x} \in G PROVE T \in G
  <2>1. CASE T = {}
    BY <2>1, SumOfEmpty
  <2>2. CASE T # {}
    <3>1. SumOf(f, T) = f[Pick(T)] + SumOf(f, T \ {Pick(T)})
      BY <2>2, SumOfPick, FS_Subset
    <3>2. Pick(T) \in T
      BY <2>2, PickOne
    <3>3. T \ {Pick(T)} \in G /\ f[Pick(T)] \in Int
      BY <1>1, <3>2
    <3> QED BY <3>1, <3>3
  <2> QED BY <2>1, <2>2
<1>2. S \in G
  <2> HIDE DEF G
  <2> QED BY <1>1, FiniteSetIn
<1> QED BY <1>2

(* Any element may go first.                                               *)
LEMMA SumOfTake ==
  ASSUME NEW f, NEW S, IsFiniteSet(S), \A x \in S : f[x] \in Int, NEW x \in S
  PROVE  SumOf(f, S) = f[x] + SumOf(f, S \ {x})
<1> DEFINE G == {T \in SUBSET S : \A y \in T : SumOf(f, T) = f[y] + SumOf(f, T \ {y})}
<1>fin. \A T \in SUBSET S : IsFiniteSet(T) /\ SumOf(f, T) \in Int
  BY FS_Subset, SumOfInt
<1>1. ASSUME NEW T \in SUBSET S, \A y \in T : T \ {y} \in G PROVE T \in G
  <2> SUFFICES ASSUME NEW y \in T PROVE SumOf(f, T) = f[y] + SumOf(f, T \ {y})
    OBVIOUS
  <2> DEFINE p == Pick(T)
  <2>1. p \in T /\ SumOf(f, T) = f[p] + SumOf(f, T \ {p})
    BY PickOne, SumOfPick, <1>fin
  <2> HIDE DEF p
  <2>2. CASE y = p
    BY <2>1, <2>2
  <2>3. CASE y # p
    <3>1. SumOf(f, T \ {p}) = f[y] + SumOf(f, (T \ {p}) \ {y})
      BY <1>1, <2>1, <2>3
    <3>2. SumOf(f, T \ {y}) = f[p] + SumOf(f, (T \ {y}) \ {p})
      BY <1>1, <2>1, <2>3
    <3>3. (T \ {p}) \ {y} = (T \ {y}) \ {p} /\ (T \ {y}) \ {p} \in SUBSET S
      OBVIOUS
    <3>4. f[p] \in Int /\ f[y] \in Int /\ SumOf(f, (T \ {y}) \ {p}) \in Int
      BY <1>fin, <2>1, <3>3
    <3>5. PICK n \in Int : n = SumOf(f, (T \ {y}) \ {p})
      BY <3>4
    <3>6. SumOf(f, T) = f[p] + (f[y] + n)
      BY <2>1, <3>1, <3>3, <3>5
    <3>7. SumOf(f, T \ {y}) = f[p] + n
      BY <3>2, <3>5
    <3> QED BY <3>4, <3>6, <3>7
  <2> QED BY <2>2, <2>3
<1>2. S \in G
  <2> HIDE DEF G
  <2> QED BY <1>1, FiniteSetIn
<1> QED BY <1>2

(* Functions that agree on the set have the same sum.                      *)
LEMMA SumOfSame ==
  ASSUME NEW f, NEW g, NEW S, IsFiniteSet(S), \A x \in S : f[x] = g[x]
  PROVE  SumOf(f, S) = SumOf(g, S)
<1> DEFINE G == {T \in SUBSET S : SumOf(f, T) = SumOf(g, T)}
<1>1. ASSUME NEW T \in SUBSET S, \A x \in T : T \ {x} \in G PROVE T \in G
  <2>1. CASE T = {}
    BY <2>1, SumOfEmpty
  <2>2. CASE T # {}
    <3>1. /\ SumOf(f, T) = f[Pick(T)] + SumOf(f, T \ {Pick(T)})
          /\ SumOf(g, T) = g[Pick(T)] + SumOf(g, T \ {Pick(T)})
      BY <2>2, SumOfPick, FS_Subset
    <3>2. Pick(T) \in T
      BY <2>2, PickOne
    <3>3. T \ {Pick(T)} \in G /\ f[Pick(T)] = g[Pick(T)]
      BY <1>1, <3>2
    <3> QED BY <3>1, <3>3
  <2> QED BY <2>1, <2>2
<1>2. S \in G
  <2> HIDE DEF G
  <2> QED BY <1>1, FiniteSetIn
<1> QED BY <1>2

(* The larger terms have the larger sum.                                   *)
LEMMA SumOfAtMost ==
  ASSUME NEW f, NEW g, NEW S, IsFiniteSet(S), \A x \in S : f[x] \in Int /\ g[x] \in Int /\ f[x] <= g[x]
  PROVE  SumOf(f, S) <= SumOf(g, S)
<1> DEFINE G == {T \in SUBSET S : SumOf(f, T) <= SumOf(g, T)}
<1>1. ASSUME NEW T \in SUBSET S, \A x \in T : T \ {x} \in G PROVE T \in G
  <2>1. CASE T = {}
    BY <2>1, SumOfEmpty
  <2>2. CASE T # {}
    <3> DEFINE p == Pick(T)
    <3>1. p \in T
      BY <2>2, PickOne
    <3> HIDE DEF p
    <3>2. IsFiniteSet(T) /\ IsFiniteSet(T \ {p})
      BY FS_Subset
    <3>3. /\ SumOf(f, T) = f[p] + SumOf(f, T \ {p})
          /\ SumOf(g, T) = g[p] + SumOf(g, T \ {p})
      BY <3>1, <3>2, SumOfTake
    <3>4. SumOf(f, T \ {p}) \in Int /\ SumOf(g, T \ {p}) \in Int
      BY <3>2, SumOfInt
    <3>5. SumOf(f, T \ {p}) <= SumOf(g, T \ {p}) /\ f[p] <= g[p] /\ f[p] \in Int /\ g[p] \in Int
      BY <1>1, <3>1
    <3> QED BY <3>3, <3>4, <3>5
  <2> QED BY <2>1, <2>2
<1>2. S \in G
  <2> HIDE DEF G
  <2> QED BY <1>1, FiniteSetIn
<1> QED BY <1>2

LEMMA SumOfNat ==
  ASSUME NEW f, NEW S, IsFiniteSet(S), \A x \in S : f[x] \in Nat
  PROVE  SumOf(f, S) \in Nat
<1> DEFINE G == {T \in SUBSET S : SumOf(f, T) \in Nat}
<1>1. ASSUME NEW T \in SUBSET S, \A x \in T : T \ {x} \in G PROVE T \in G
  <2>1. CASE T = {}
    BY <2>1, SumOfEmpty
  <2>2. CASE T # {}
    <3>1. SumOf(f, T) = f[Pick(T)] + SumOf(f, T \ {Pick(T)})
      BY <2>2, SumOfPick, FS_Subset
    <3>2. Pick(T) \in T
      BY <2>2, PickOne
    <3>3. T \ {Pick(T)} \in G /\ f[Pick(T)] \in Nat
      BY <1>1, <3>2
    <3> QED BY <3>1, <3>3
  <2> QED BY <2>1, <2>2
<1>2. S \in G
  <2> HIDE DEF G
  <2> QED BY <1>1, FiniteSetIn
<1> QED BY <1>2

(* What more elements add, where no term is negative, is not less.         *)
LEMMA SumOfMore ==
  ASSUME NEW f, NEW S, IsFiniteSet(S), \A x \in S : f[x] \in Nat, NEW U \in SUBSET S
  PROVE  SumOf(f, U) <= SumOf(f, S)
<1> DEFINE G == {T \in SUBSET S : \A V \in SUBSET T : SumOf(f, V) <= SumOf(f, T)}
<1>nat. \A T \in SUBSET S : IsFiniteSet(T) /\ SumOf(f, T) \in Nat
  BY FS_Subset, SumOfNat
<1>1. ASSUME NEW T \in SUBSET S, \A x \in T : T \ {x} \in G PROVE T \in G
  <2> SUFFICES ASSUME NEW V \in SUBSET T PROVE SumOf(f, V) <= SumOf(f, T)
    OBVIOUS
  <2>1. CASE V = T
    BY <2>1, <1>nat
  <2>2. CASE V # T
    <3>1. PICK x \in T : x \notin V
      BY <2>2
    <3>2. SumOf(f, T) = f[x] + SumOf(f, T \ {x})
      <4>1. IsFiniteSet(T) /\ \A y \in T : f[y] \in Int
        BY <1>nat
      <4> QED BY <3>1, <4>1, SumOfTake
    <3>3. SumOf(f, V) <= SumOf(f, T \ {x})
      BY <1>1, <3>1
    <3>4. f[x] \in Nat /\ SumOf(f, T \ {x}) \in Nat /\ SumOf(f, V) \in Nat
      BY <1>nat, <3>1
    <3> QED BY <3>2, <3>3, <3>4
  <2> QED BY <2>1, <2>2
<1>2. S \in G
  <2> HIDE DEF G
  <2> QED BY <1>1, FiniteSetIn
<1> QED BY <1>2

LEMMA SumOfOne ==
  ASSUME NEW f, NEW x, f[x] \in Int
  PROVE  SumOf(f, {x}) = f[x]
<1>1. IsFiniteSet({x}) /\ \A y \in {x} : f[y] \in Int
  BY FS_Singleton
<1>2. SumOf(f, {x}) = f[x] + SumOf(f, {x} \ {x})
  BY <1>1, SumOfTake
<1>3. {x} \ {x} = {}
  OBVIOUS
<1> QED BY <1>2, <1>3, SumOfEmpty

(* Terms that are zero may be left out.                                    *)
LEMMA SumOfRest ==
  ASSUME NEW f, NEW S, IsFiniteSet(S), NEW U \in SUBSET S,
         \A x \in S : f[x] \in Int /\ (x \notin U => f[x] = 0)
  PROVE  SumOf(f, S) = SumOf(f, U)
<1> DEFINE G == {T \in SUBSET S : SumOf(f, T) = SumOf(f, T \cap U)}
<1>1. ASSUME NEW T \in SUBSET S, \A x \in T : T \ {x} \in G PROVE T \in G
  <2>1. CASE T \subseteq U
    <3>1. T \cap U = T
      BY <2>1
    <3> QED BY <3>1
  <2>2. ASSUME NEW x \in T, x \notin U PROVE T \in G
    <3>1. SumOf(f, T) = f[x] + SumOf(f, T \ {x})
      BY SumOfTake, FS_Subset
    <3>2. SumOf(f, T \ {x}) = SumOf(f, (T \ {x}) \cap U) /\ (T \ {x}) \cap U = T \cap U
      BY <1>1, <2>2
    <3>3. SumOf(f, T \cap U) \in Int /\ f[x] = 0
      <4>1. IsFiniteSet(T \cap U) /\ \A y \in T \cap U : f[y] \in Int
        BY FS_Subset
      <4> QED BY <2>2, <4>1, SumOfInt
    <3>4. PICK n \in Int : n = SumOf(f, T \cap U)
      BY <3>3
    <3>5. SumOf(f, T) = 0 + n
      BY <3>1, <3>2, <3>3, <3>4
    <3> QED BY <3>4, <3>5
  <2> QED BY <2>1, <2>2
<1>2. S \in G
  <2> HIDE DEF G
  <2> QED BY <1>1, FiniteSetIn
<1>3. S \cap U = U
  OBVIOUS
<1> QED BY <1>2, <1>3

(* The sum of a sum.                                                       *)
LEMMA SumOfPlus ==
  ASSUME NEW f, NEW g, NEW h, NEW S, IsFiniteSet(S),
         \A x \in S : f[x] \in Int /\ g[x] \in Int /\ h[x] = f[x] + g[x]
  PROVE  SumOf(h, S) = SumOf(f, S) + SumOf(g, S)
<1> DEFINE G == {T \in SUBSET S : SumOf(h, T) = SumOf(f, T) + SumOf(g, T)}
<1>1. ASSUME NEW T \in SUBSET S, \A x \in T : T \ {x} \in G PROVE T \in G
  <2>1. CASE T = {}
    BY <2>1, SumOfEmpty
  <2>2. CASE T # {}
    <3> DEFINE p == Pick(T)
    <3>1. p \in T
      BY <2>2, PickOne
    <3>2. IsFiniteSet(T) /\ IsFiniteSet(T \ {p})
      BY FS_Subset
    <3>3. /\ SumOf(f, T) = f[p] + SumOf(f, T \ {p})
          /\ SumOf(g, T) = g[p] + SumOf(g, T \ {p})
          /\ SumOf(h, T) = h[p] + SumOf(h, T \ {p})
      BY <2>2, <3>2, SumOfPick
    <3> HIDE DEF p
    <3>4. PICK m \in Int, n \in Int : m = SumOf(f, T \ {p}) /\ n = SumOf(g, T \ {p})
      BY <3>2, SumOfInt
    <3>5. SumOf(h, T \ {p}) = m + n
      BY <1>1, <3>1, <3>4
    <3>6. f[p] \in Int /\ g[p] \in Int /\ h[p] = f[p] + g[p]
      BY <3>1
    <3>7. SumOf(f, T) = f[p] + m /\ SumOf(g, T) = g[p] + n /\ SumOf(h, T) = (f[p] + g[p]) + (m + n)
      BY <3>3, <3>4, <3>5, <3>6
    <3> QED BY <3>6, <3>7
  <2> QED BY <2>1, <2>2
<1>2. S \in G
  <2> HIDE DEF G
  <2> QED BY <1>1, FiniteSetIn
<1> QED BY <1>2

(* The same terms under other names.                                       *)
LEMMA SumOfRenamed ==
  ASSUME NEW f, NEW g, NEW S, NEW T, IsFiniteSet(S), IsFiniteSet(T), NEW b \in Bijection(S, T),
         \A x \in S : f[x] \in Int /\ f[x] = g[b[x]]
  PROVE  SumOf(f, S) = SumOf(g, T)
<1> DEFINE Img(U) == {b[x] : x \in U}
           G == {U \in SUBSET S : SumOf(f, U) = SumOf(g, Img(U))}
<1>b. /\ \A x \in S : b[x] \in T
      /\ \A x, y \in S : b[x] = b[y] => x = y
      /\ T = Img(S)
  BY DEF Bijection, Injection, Surjection, IsInjective
<1>1. ASSUME NEW U \in SUBSET S, \A x \in U : U \ {x} \in G PROVE U \in G
  <2>1. CASE U = {}
    <3>1. Img(U) = {}
      BY <2>1
    <3> QED BY <2>1, <3>1, SumOfEmpty
  <2>2. CASE U # {}
    <3>1. PICK p \in U : TRUE
      BY <2>2
    <3>2. IsFiniteSet(U) /\ \A x \in U : f[x] \in Int
      BY FS_Subset
    <3>3. SumOf(f, U) = f[p] + SumOf(f, U \ {p})
      BY <3>1, <3>2, SumOfTake
    <3>4. IsFiniteSet(Img(U)) /\ \A y \in Img(U) : g[y] \in Int
      <4>1. IsFiniteSet(Img(U))
        BY <1>b, FS_Subset
      <4> QED BY <4>1
    <3>5. SumOf(g, Img(U)) = g[b[p]] + SumOf(g, Img(U) \ {b[p]})
      <4>1. b[p] \in Img(U)
        BY <3>1
      <4> HIDE DEF Img
      <4> QED BY <3>4, <4>1, SumOfTake
    <3>6. Img(U) \ {b[p]} = Img(U \ {p})
      BY <1>b, <3>1
    <3>7. SumOf(f, U \ {p}) = SumOf(g, Img(U \ {p}))
      BY <1>1, <3>1
    <3>8. f[p] = g[b[p]]
      BY <3>1
    <3> QED BY <3>3, <3>5, <3>6, <3>7, <3>8
  <2> QED BY <2>1, <2>2
<1>2. S \in G
  <2> HIDE DEF G
  <2> QED BY <1>1, FiniteSetIn
<1> QED BY <1>2, <1>b

(* The parts of a contract add up to what is unpaid of it.                 *)
LEMMA PortionsAddUp ==
  ASSUME NEW total \in Int, NEW rows, IsFiniteSet(DOMAIN rows),
         \A i \in DOMAIN rows : rows[i].amount \in Int /\ rows[i].received \in Nat
  PROVE  LET p == ContractOccupancyPortions(total, rows)
             sum == SumOf([i \in DOMAIN rows |-> rows[i].received], DOMAIN rows)
         IN /\ sum \in Nat /\ p.received = sum
            /\ p.open \in Nat /\ p.fulfilled \in Nat
            /\ p.open + p.fulfilled = UnpaidFenOf(total, sum)
<1> DEFINE I == DOMAIN rows
           f == [i \in I |-> rows[i].received]
           g == [i \in I |-> IF rows[i].shipped THEN UnpaidFenOf(rows[i].amount, rows[i].received) ELSE 0]
<1>1. Total(rows, LAMBDA b : b.received) = SumOf(f, I)
  BY DEF Total, MapThenSumSet, MapThenFoldSet, SumOf, SumFcn, SumTo, Pick
<1>2. Total(rows, LAMBDA b : IF b.shipped THEN UnpaidFenOf(b.amount, b.received) ELSE 0) = SumOf(g, I)
  BY DEF Total, MapThenSumSet, MapThenFoldSet, SumOf, SumFcn, SumTo, Pick
<1>3. (\A i \in I : f[i] \in Nat) /\ (\A i \in I : g[i] \in Nat)
  BY DEF UnpaidFenOf, AtLeastZero
<1> HIDE DEF f, g
<1>4. SumOf(f, I) \in Nat /\ SumOf(g, I) \in Nat
  BY <1>3, SumOfNat
<1>5. PICK m \in Nat, n \in Nat : m = SumOf(f, I) /\ n = SumOf(g, I)
  BY <1>4
<1>6. ContractOccupancyPortions(total, rows) =
        [received |-> m, open |-> UnpaidFenOf(total, m) - Least(UnpaidFenOf(total, m), n),
         fulfilled |-> Least(UnpaidFenOf(total, m), n)]
  BY <1>1, <1>2, <1>5 DEF ContractOccupancyPortions
<1>7. UnpaidFenOf(total, m) \in Nat
  BY DEF UnpaidFenOf, AtLeastZero
<1>8. SumOf([i \in DOMAIN rows |-> rows[i].received], DOMAIN rows) = m
  BY <1>5 DEF f
<1> QED BY <1>6, <1>7, <1>8 DEF Least

-----------------------------------------------------------------------------
Unpaid == [c \in Cases |-> UnpaidFenOf(amount[c], received[c])]

LEMMA OwedIsSum ==
  ASSUME NEW T \in SUBSET Cases
  PROVE  Owed(T, LAMBDA c : amount[c]) = SumOf(Unpaid, T)
<1> DEFINE u == [c \in T |-> UnpaidFenOf(amount[c], received[c])]
<1>1. MapThenSumSet(LAMBDA c : UnpaidFenOf(amount[c], received[c]), T) = SumOf(u, T)
  BY DEF MapThenSumSet, MapThenFoldSet, SumOf, SumFcn, SumTo, Pick
<1>2. SumOf(u, T) = SumOf(Unpaid, T)
  <2>1. IsFiniteSet(T)
    BY QuotaAssumption, FS_Subset DEF QuotaAssumption
  <2>2. \A c \in T : u[c] = Unpaid[c]
    BY DEF Unpaid
  <2> HIDE DEF u
  <2> QED BY <2>1, <2>2, SumOfSame
<1> QED BY <1>1, <1>2 DEF Owed

Split == [open : Int, fulfilled : Int]
Gate ==
  [step : {"idle", "share", "judge"}, case : Cases \cup {"none"}, node : {"N3", "N4"}, total : Nat,
   nodes : [Codes -> {"OPEN", "PASSED"}], settled : BOOLEAN, split : Split, calm : BOOLEAN, moved : BOOLEAN]

QuotaTyped ==
  /\ node \in [Cases -> {"N2", "N3", "N4", "N5", "N6", "N7"}]
  /\ nodes \in [Cases -> [Codes -> {"OPEN", "PASSED"}]]
  /\ amount \in [Cases -> Nat] /\ change \in [Cases -> Nat]
  /\ applied \in [Cases -> BOOLEAN]
  /\ received \in [Cases -> Nat]
  /\ req \in [Requests -> Gate]
  /\ judged \in [Cases -> BOOLEAN]
  /\ writes \in Nat

LEMMA RowAddsUp ==
  ASSUME QuotaTyped, NEW c \in Cases
  PROVE  /\ Row(c).open \in Nat /\ Row(c).fulfilled \in Nat
         /\ Row(c).open + Row(c).fulfilled = Unpaid[c]
         /\ Row(c).hasContract = (amount[c] > 0) /\ Row(c).usd = TRUE
<1> DEFINE b == [amount |-> amount[c], received |-> received[c], shipped |-> Passed(nodes[c], "N6")]
<1>1. DOMAIN <<b>> = {1} /\ <<b>>[1] = b
  OBVIOUS
<1>2. b.amount \in Int /\ b.received \in Nat /\ b.received = received[c] /\ amount[c] \in Int
  BY DEF QuotaTyped
<1>3. Row(c) = [hasContract |-> amount[c] > 0, usd |-> TRUE,
                open |-> ContractOccupancyPortions(amount[c], <<b>>).open,
                fulfilled |-> ContractOccupancyPortions(amount[c], <<b>>).fulfilled]
  BY DEF Row
<1> HIDE DEF b
<1> DEFINE bs == <<b>>
           f == [i \in DOMAIN bs |-> bs[i].received]
<1>4. IsFiniteSet(DOMAIN bs) /\ \A i \in DOMAIN bs : bs[i].amount \in Int /\ bs[i].received \in Nat
  BY <1>1, <1>2, FS_Singleton
<1>5. f[1] = received[c] /\ DOMAIN bs = {1} /\ f[1] \in Int
  BY <1>1, <1>2
<1>6. Row(c) = [hasContract |-> amount[c] > 0, usd |-> TRUE,
                open |-> ContractOccupancyPortions(amount[c], bs).open,
                fulfilled |-> ContractOccupancyPortions(amount[c], bs).fulfilled]
  BY <1>3
<1> HIDE DEF bs
<1>7. /\ ContractOccupancyPortions(amount[c], bs).open \in Nat
      /\ ContractOccupancyPortions(amount[c], bs).fulfilled \in Nat
      /\ ContractOccupancyPortions(amount[c], bs).open + ContractOccupancyPortions(amount[c], bs).fulfilled
           = UnpaidFenOf(amount[c], SumOf(f, DOMAIN bs))
  BY <1>2, <1>4, PortionsAddUp
<1>8. SumOf(f, DOMAIN bs) = received[c]
  <2> HIDE DEF f
  <2> QED BY <1>5, SumOfOne
<1> QED BY <1>6, <1>7, <1>8 DEF Unpaid

LEMMA UnpaidNat ==
  ASSUME QuotaTyped
  PROVE  \A c \in Cases : Unpaid[c] \in Nat /\ Unpaid[c] <= amount[c] /\ (amount[c] = 0 => Unpaid[c] = 0)
BY DEF QuotaTyped, Unpaid, UnpaidFenOf, AtLeastZero

(* The shared figures are what is unpaid of the cases they count.          *)
LEMMA SplitAddsUp ==
  ASSUME QuotaTyped, NEW skip
  PROVE  LET split == SplitOccupancy([d \in Cases |-> Row(d)], skip)
         IN /\ split \in Split
            /\ split.open + split.fulfilled = SumOf(Unpaid, Cases \ {skip})
<1> DEFINE rows == [d \in Cases |-> Row(d)]
           counted == {c \in DOMAIN rows : c # skip /\ rows[c].hasContract /\ rows[c].usd}
           f == [c \in counted |-> rows[c].open]
           g == [c \in counted |-> rows[c].fulfilled]
<1>1. MapThenSumSet(LAMBDA c : rows[c].open, counted) = SumOf(f, counted)
  <2> HIDE DEF rows
  <2> QED BY DEF MapThenSumSet, MapThenFoldSet, SumOf, SumFcn, SumTo, Pick
<1>2. MapThenSumSet(LAMBDA c : rows[c].fulfilled, counted) = SumOf(g, counted)
  <2> HIDE DEF rows
  <2> QED BY DEF MapThenSumSet, MapThenFoldSet, SumOf, SumFcn, SumTo, Pick
<1>3. SplitOccupancy(rows, skip) = [open |-> SumOf(f, counted), fulfilled |-> SumOf(g, counted)]
  <2> HIDE DEF rows, f, g
  <2> QED BY <1>1, <1>2 DEF SplitOccupancy
<1>4. counted = {c \in Cases : c # skip /\ amount[c] > 0}
  BY RowAddsUp
<1>5. \A c \in counted : f[c] \in Nat /\ g[c] \in Nat /\ Unpaid[c] = f[c] + g[c]
  <2>1. \A c \in counted : f[c] = Row(c).open /\ g[c] = Row(c).fulfilled
    OBVIOUS
  <2> HIDE DEF f, g
  <2> QED BY <1>4, <2>1, RowAddsUp
<1>6. IsFiniteSet(Cases) /\ IsFiniteSet(counted) /\ IsFiniteSet(Cases \ {skip})
  <2> HIDE DEF counted
  <2> QED BY <1>4, QuotaAssumption, FS_Subset DEF QuotaAssumption
<1> HIDE DEF f, g, rows, counted
<1>7. SumOf(Unpaid, counted) = SumOf(f, counted) + SumOf(g, counted)
  BY <1>5, <1>6, SumOfPlus
<1>8. SumOf(f, counted) \in Int /\ SumOf(g, counted) \in Int
  BY <1>5, <1>6, SumOfInt
<1>9. SumOf(Unpaid, Cases \ {skip}) = SumOf(Unpaid, counted)
  <2>1. /\ counted \in SUBSET (Cases \ {skip})
        /\ \A c \in Cases \ {skip} : Unpaid[c] \in Int /\ (c \notin counted => Unpaid[c] = 0)
    BY <1>4, UnpaidNat DEF QuotaTyped
  <2> QED BY <1>6, <2>1, SumOfRest
<1> QED BY <1>3, <1>7, <1>8, <1>9 DEF Split, rows

-----------------------------------------------------------------------------
(* The order in which overlapping gates count each other.                  *)
OccupancySeen(q) == q.split.open + q.split.fulfilled + q.total

CountedBy(U, J, K, q) ==
  \A S \in SUBSET J, R \in SUBSET K :
    LET T == S \cup {q[r].case : r \in R}
    IN \/ SumOf(U, T) - Limit < UltraMin
       \/ \E r \in R : OccupancySeen(q[r]) >= SumOf(U, T)

FreshGate(r) == At(r, "judge") /\ req[r].calm /\ req[r].total = amount[req[r].case]
JudgedCases == {c \in Cases : judged[c]}
FreshGates == {r \in Requests : FreshGate(r)}

GatesGood ==
  \A r \in Requests : ~At(r, "idle") =>
    /\ req[r].case \in Cases
    /\ req[r].nodes[req[r].node] = "OPEN"
    /\ req[r].calm => req[r].total = ContractTotal(req[r].case, req[r].node)
    /\ ~req[r].moved => node[req[r].case] = req[r].node /\ nodes[req[r].case] = req[r].nodes

QuotaInv ==
  /\ QuotaTyped
  /\ GatesGood
  /\ CountedBy(Unpaid, JudgedCases, FreshGates, req)

LEMMA FewerCounted ==
  ASSUME NEW U, NEW V, NEW J, NEW J2, NEW K, NEW K2, NEW q, NEW p,
         CountedBy(U, J, K, q), J \subseteq Cases, J2 \subseteq J, K2 \subseteq K,
         \A r \in K2 : /\ q[r].case \in Cases /\ p[r].case = q[r].case
                       /\ OccupancySeen(q[r]) \in Int /\ OccupancySeen(p[r]) = OccupancySeen(q[r]),
         \A c \in Cases : U[c] \in Nat /\ V[c] \in Nat,
         \A c \in J2 \cup {q[r].case : r \in K2} : V[c] <= U[c]
  PROVE  CountedBy(V, J2, K2, p)
<1> SUFFICES ASSUME NEW S \in SUBSET J2, NEW R \in SUBSET K2
             PROVE  LET T == S \cup {p[r].case : r \in R}
                    IN \/ SumOf(V, T) - Limit < UltraMin
                       \/ \E r \in R : OccupancySeen(p[r]) >= SumOf(V, T)
  BY DEF CountedBy
<1> DEFINE T == S \cup {q[r].case : r \in R}
<1>1. T = S \cup {p[r].case : r \in R}
  OBVIOUS
<1>2. \/ SumOf(U, T) - Limit < UltraMin
      \/ \E r \in R : OccupancySeen(q[r]) >= SumOf(U, T)
  BY DEF CountedBy
<1>3. T \subseteq Cases /\ \A c \in T : V[c] <= U[c]
  OBVIOUS
<1> HIDE DEF T
<1>4. IsFiniteSet(T)
  BY <1>3, QuotaAssumption, FS_Subset DEF QuotaAssumption
<1>5. SumOf(U, T) \in Int /\ SumOf(V, T) \in Int /\ SumOf(V, T) <= SumOf(U, T)
  <2>1. \A c \in T : V[c] \in Int /\ U[c] \in Int /\ V[c] <= U[c]
    BY <1>3
  <2> QED BY <1>4, <2>1, SumOfAtMost, SumOfInt
<1>6. PICK m \in Int, n \in Int : m = SumOf(U, T) /\ n = SumOf(V, T)
  BY <1>5
<1>7. CASE SumOf(U, T) - Limit < UltraMin
  <2>1. n - Limit < UltraMin
    BY <1>5, <1>6, <1>7, QuotaAssumption, ExposureAssumption DEF QuotaAssumption, ExposureAssumption
  <2> QED BY <1>1, <1>6, <2>1
<1>8. ASSUME NEW r \in R, OccupancySeen(q[r]) >= SumOf(U, T)
      PROVE  OccupancySeen(p[r]) >= SumOf(V, T)
  BY <1>5, <1>6, <1>8
<1> QED BY <1>1, <1>2, <1>7, <1>8

LEMMA GateCounts ==
  ASSUME NEW U, NEW J, NEW K, NEW q, NEW p, CountedBy(U, J, K, q), J \subseteq Cases,
         NEW r, r \notin K, p[r].case \in Cases,
         \A s \in K : q[s].case \in Cases /\ p[s] = q[s],
         \A c \in Cases : U[c] \in Nat,
         OccupancySeen(p[r]) \in Int, OccupancySeen(p[r]) >= SumOf(U, Cases)
  PROVE  CountedBy(U, J, K \cup {r}, p)
<1> SUFFICES ASSUME NEW S \in SUBSET J, NEW R \in SUBSET (K \cup {r})
             PROVE  LET T == S \cup {p[s].case : s \in R}
                    IN \/ SumOf(U, T) - Limit < UltraMin
                       \/ \E s \in R : OccupancySeen(p[s]) >= SumOf(U, T)
  BY DEF CountedBy
<1>1. CASE r \notin R
  <2>1. R \in SUBSET K /\ {p[s].case : s \in R} = {q[s].case : s \in R}
    BY <1>1
  <2> QED BY <2>1 DEF CountedBy
<1>2. CASE r \in R
  <2> DEFINE T == S \cup {p[s].case : s \in R}
  <2>1. T \in SUBSET Cases
    OBVIOUS
  <2> HIDE DEF T
  <2>2. IsFiniteSet(Cases) /\ IsFiniteSet(T)
    BY <2>1, QuotaAssumption, FS_Subset DEF QuotaAssumption
  <2>3. SumOf(U, T) <= SumOf(U, Cases)
    BY <2>1, <2>2, SumOfMore
  <2>4. PICK m \in Int, n \in Int : m = SumOf(U, T) /\ n = SumOf(U, Cases)
    <3>1. SumOf(U, T) \in Nat /\ SumOf(U, Cases) \in Nat
      BY <2>1, <2>2, SumOfNat
    <3> QED BY <3>1
  <2>5. OccupancySeen(p[r]) >= SumOf(U, T)
    BY <2>3, <2>4
  <2> QED BY <1>2, <2>5 DEF T
<1> QED BY <1>1, <1>2

LEMMA GatePasses ==
  ASSUME NEW U, NEW J, NEW K, NEW q, NEW p, CountedBy(U, J, K, q), J \subseteq Cases,
         NEW r \in K, OccupancySeen(q[r]) - Limit < UltraMin, OccupancySeen(q[r]) \in Int,
         \A s \in K : q[s].case \in Cases,
         \A s \in K \ {r} : p[s].case = q[s].case /\ OccupancySeen(p[s]) = OccupancySeen(q[s]),
         \A c \in Cases : U[c] \in Nat
  PROVE  CountedBy(U, J \cup {q[r].case}, K \ {r}, p)
<1> SUFFICES ASSUME NEW S \in SUBSET (J \cup {q[r].case}), NEW R \in SUBSET (K \ {r})
             PROVE  LET T == S \cup {p[s].case : s \in R}
                    IN \/ SumOf(U, T) - Limit < UltraMin
                       \/ \E s \in R : OccupancySeen(p[s]) >= SumOf(U, T)
  BY DEF CountedBy
<1> DEFINE T == S \cup {q[s].case : s \in R}
<1>1. T = S \cup {p[s].case : s \in R}
  OBVIOUS
<1>2. CASE S \in SUBSET J
  BY <1>1, <1>2 DEF CountedBy
<1>3. CASE S \notin SUBSET J
  <2>1. q[r].case \in S /\ S \ {q[r].case} \in SUBSET J /\ R \cup {r} \in SUBSET K
    BY <1>3
  <2>2. T = (S \ {q[r].case}) \cup {q[s].case : s \in R \cup {r}}
    BY <2>1
  <2>3. T \in SUBSET Cases
    OBVIOUS
  <2> HIDE DEF T
  <2>4. \/ SumOf(U, T) - Limit < UltraMin
        \/ \E s \in R \cup {r} : OccupancySeen(q[s]) >= SumOf(U, T)
    BY <2>1, <2>2 DEF CountedBy
  <2>5. PICK n \in Int : n = SumOf(U, T)
    <3>1. IsFiniteSet(T) /\ \A c \in T : U[c] \in Int
      BY <2>3, QuotaAssumption, FS_Subset DEF QuotaAssumption
    <3>2. SumOf(U, T) \in Int
      BY <3>1, SumOfInt
    <3> QED BY <3>2
  <2>6. OccupancySeen(q[r]) >= SumOf(U, T) => SumOf(U, T) - Limit < UltraMin
    <3> DEFINE o == OccupancySeen(q[r])
    <3> HIDE DEF o
    <3>1. o \in Int /\ o - Limit < UltraMin
      BY DEF o
    <3>2. o >= n => n - Limit < UltraMin
      BY <3>1, QuotaAssumption, ExposureAssumption DEF QuotaAssumption, ExposureAssumption
    <3> QED BY <2>5, <3>2 DEF o
  <2> QED BY <1>1, <2>4, <2>6
<1> QED BY <1>2, <1>3

LEMMA JudgementIs ==
  ASSUME QuotaTyped, GatesGood, NEW r \in Requests, ~At(r, "idle")
  PROVE  /\ OccupancySeen(req[r]) \in Int
         /\ Judgement(r).occupancy = OccupancySeen(req[r])
         /\ \A approved : MayPass(r, approved) => OccupancySeen(req[r]) - Limit < UltraMin
<1>1. req[r] \in Gate /\ req[r].nodes[req[r].node] = "OPEN"
  BY DEF QuotaTyped, GatesGood
<1>2. req[r].split.open \in Int /\ req[r].split.fulfilled \in Int /\ req[r].total \in Nat
  BY <1>1 DEF Gate, Split
<1>3. NewContractFenForNode(req[r].node, req[r].nodes, req[r].total) = req[r].total
  BY <1>1, <1>2 DEF NewContractFenForNode, Passed, AtLeastZero
<1>4. Judgement(r).occupancy = OccupancySeen(req[r])
  BY <1>3 DEF Judgement, EvaluateOccupancy, OccupancySeen
<1>5. PICK o \in Int : o = OccupancySeen(req[r])
  BY <1>2 DEF OccupancySeen
<1>6. Judgement(r).band = BandOfExcessFen(o - Limit)
  BY <1>3, <1>5, QuotaAssumption DEF Judgement, EvaluateOccupancy, OccupancySeen, QuotaAssumption
<1>7. ASSUME o - Limit >= UltraMin PROVE BandOfExcessFen(o - Limit) = "ULTRA_HIGH"
  BY <1>7, QuotaAssumption, ExposureAssumption DEF QuotaAssumption, ExposureAssumption, BandOfExcessFen
<1>8. ASSUME NEW approved, MayPass(r, approved) PROVE o - Limit < UltraMin
  <2>1. Judgement(r).band # "ULTRA_HIGH"
    BY <1>8 DEF MayPass, GateDecisionOfBand
  <2> QED BY <1>6, <1>7, <2>1, QuotaAssumption, ExposureAssumption DEF QuotaAssumption, ExposureAssumption
<1> QED BY <1>4, <1>5, <1>8

LEMMA QuotaInit == Init => QuotaInv
<1> SUFFICES ASSUME Init PROVE QuotaInv
  OBVIOUS
<1>1. QuotaTyped
  BY QuotaAssumption DEF Init, QuotaTyped, Gate, Split, Idle, NoSplit, QuotaAssumption, Codes
<1>2. GatesGood
  BY DEF Init, GatesGood, Idle, At
<1>3. JudgedCases = {} /\ FreshGates = {}
  BY DEF Init, JudgedCases, FreshGates, FreshGate, Idle, At
<1>4. CountedBy(Unpaid, {}, {}, req)
  <2>1. 0 - Limit < UltraMin
    BY QuotaAssumption, ExposureAssumption DEF QuotaAssumption, ExposureAssumption
  <2>2. \A S \in SUBSET {}, R \in SUBSET {} : S \cup {req[r].case : r \in R} = {}
    OBVIOUS
  <2> QED BY <2>1, <2>2, SumOfEmpty DEF CountedBy
<1> QED BY <1>1, <1>2, <1>3, <1>4 DEF QuotaInv

LEMMA GateWrites ==
  ASSUME NEW g \in Gate
  PROVE  /\ [g EXCEPT !.calm = FALSE] \in Gate /\ [g EXCEPT !.moved = TRUE] \in Gate
         /\ \A s \in Split : [g EXCEPT !.step = "judge", !.split = s] \in Gate
BY DEF Gate

LEMMA TypedStep == QuotaTyped /\ GatesGood /\ Next => QuotaTyped'
<1> SUFFICES ASSUME QuotaTyped, GatesGood, Next PROVE QuotaTyped'
  OBVIOUS
<1>a. \A a \in Amounts : a \in Nat
  BY QuotaAssumption DEF QuotaAssumption
<1>b. \A c \in Cases : Disturb(c) => req' \in [Requests -> Gate] /\ judged' \in [Cases -> BOOLEAN]
  <2> SUFFICES ASSUME NEW c \in Cases, Disturb(c)
               PROVE  req' \in [Requests -> Gate] /\ judged' \in [Cases -> BOOLEAN]
    OBVIOUS
  <2>1. \A r \in Requests : req[r] \in Gate /\ [req[r] EXCEPT !.calm = FALSE] \in Gate
    BY GateWrites DEF QuotaTyped
  <2> QED BY <2>1 DEF QuotaTyped, Disturb
<1>1. ASSUME NEW c \in Cases, NEW a \in Amounts, SaveContract(c, a) PROVE QuotaTyped'
  BY <1>1, <1>a, <1>b DEF QuotaTyped, SaveContract
<1>2. ASSUME NEW c \in Cases, NEW a \in Amounts, CreateChange(c, a) PROVE QuotaTyped'
  BY <1>2, <1>a, <1>b DEF QuotaTyped, CreateChange
<1>3. ASSUME NEW c \in Cases, ApplyChange(c) PROVE QuotaTyped'
  BY <1>3, <1>b DEF QuotaTyped, ApplyChange
<1>4. ASSUME NEW c \in Cases, PassElsewhere(c) PROVE QuotaTyped'
  <2>1. node' \in [Cases -> {"N2", "N3", "N4", "N5", "N6", "N7"}]
    BY <1>4 DEF QuotaTyped, PassElsewhere
  <2>2. nodes' \in [Cases -> [Codes -> {"OPEN", "PASSED"}]]
    <3>1. nodes' = nodes \/ nodes' = [nodes EXCEPT ![c]["N6"] = "PASSED"]
      BY <1>4 DEF PassElsewhere
    <3> QED BY <3>1 DEF QuotaTyped, Codes
  <2> QED BY <1>4, <2>1, <2>2 DEF QuotaTyped, PassElsewhere
<1>5. ASSUME NEW c \in Cases, Receive(c) PROVE QuotaTyped'
  BY <1>5 DEF QuotaTyped, Receive
<1>6. ASSUME NEW r \in Requests, NEW c \in Cases, ReadCase(r, c) PROVE QuotaTyped'
  <2> DEFINE q == [Idle EXCEPT !.step = "share", !.case = c, !.node = node[c], !.nodes = nodes[c],
                               !.total = ContractTotal(c, node[c]), !.settled = applied[c]]
  <2>1. q \in Gate
    <3>1. /\ node[c] \in {"N3", "N4"} /\ nodes[c] \in [Codes -> {"OPEN", "PASSED"}]
          /\ ContractTotal(c, node[c]) \in Nat /\ applied[c] \in BOOLEAN
      BY <1>6 DEF QuotaTyped, ReadCase, ContractTotal
    <3>2. NoSplit \in Split
      BY DEF Split, NoSplit
    <3> QED BY <3>1, <3>2 DEF Gate, Idle
  <2>2. req' = [req EXCEPT ![r] = q]
    BY <1>6 DEF ReadCase
  <2> HIDE DEF q
  <2> QED BY <1>6, <2>1, <2>2 DEF QuotaTyped, ReadCase
<1>7. ASSUME NEW r \in Requests, ReadShared(r) PROVE QuotaTyped'
  <2> DEFINE s == OccupancyForCase(req[r].case)
  <2>1. s \in Split
    BY SplitAddsUp DEF OccupancyForCase
  <2>2. req' = [req EXCEPT ![r].step = "judge", ![r].split = s]
    BY <1>7 DEF ReadShared
  <2> HIDE DEF s
  <2>3. req' \in [Requests -> Gate]
    <3>1. [req[r] EXCEPT !.step = "judge", !.split = s] \in Gate
      BY <2>1, GateWrites DEF QuotaTyped
    <3> QED BY <2>2, <3>1 DEF QuotaTyped
  <2> QED BY <1>7, <2>3 DEF QuotaTyped, ReadShared
<1>8. ASSUME NEW r \in Requests, Judge(r) PROVE QuotaTyped'
  <2>1. At(r, "judge") /\ req[r].case \in Cases /\ req[r] \in Gate
    BY <1>8 DEF Judge, At, GatesGood, QuotaTyped
  <2>2. req' \in [Requests -> Gate]
    <3>1. Idle \in Gate
      BY DEF Idle, Gate, Split, NoSplit, Codes
    <3>2. \A q \in Requests : req[q] \in Gate /\ [req[q] EXCEPT !.moved = TRUE] \in Gate
      BY GateWrites DEF QuotaTyped
    <3> QED BY <1>8, <3>1, <3>2 DEF Judge
  <2>3. node' \in [Cases -> {"N2", "N3", "N4", "N5", "N6", "N7"}]
    BY <1>8, <2>1 DEF Judge, QuotaTyped, Gate, NextNode
  <2>4. nodes' \in [Cases -> [Codes -> {"OPEN", "PASSED"}]]
    <3>1. \E v \in {"OPEN", "PASSED"} : nodes' = [nodes EXCEPT ![req[r].case][req[r].node] = v]
      BY <1>8 DEF Judge
    <3> QED BY <2>1, <3>1 DEF QuotaTyped, Gate, Codes
  <2>5. judged' \in [Cases -> BOOLEAN]
    BY <1>8, <2>1 DEF Judge, QuotaTyped, Gate
  <2> QED BY <1>8, <2>2, <2>3, <2>4, <2>5 DEF Judge, QuotaTyped
<1> QED BY <1>1, <1>2, <1>3, <1>4, <1>5, <1>6, <1>7, <1>8 DEF Next

LEMMA GatesStep == QuotaTyped /\ GatesGood /\ Next => GatesGood'
<1> SUFFICES ASSUME QuotaTyped, GatesGood, Next,
                    NEW r \in Requests, ~At(r, "idle")'
             PROVE  /\ req'[r].case \in Cases
                    /\ req'[r].nodes[req'[r].node] = "OPEN"
                    /\ req'[r].calm => req'[r].total = ContractTotal(req[r].case, req[r].node)'
                    /\ ~req'[r].moved => node'[req'[r].case] = req'[r].node /\ nodes'[req'[r].case] = req'[r].nodes
  BY DEF GatesGood
<1> DEFINE Good == /\ req'[r].case \in Cases
                   /\ req'[r].nodes[req'[r].node] = "OPEN"
                   /\ req'[r].calm => req'[r].total = ContractTotal(req[r].case, req[r].node)'
                   /\ ~req'[r].moved => node'[req'[r].case] = req'[r].node /\ nodes'[req'[r].case] = req'[r].nodes
<1> SUFFICES Good
  OBVIOUS
<1>typ. req \in [Requests -> Gate] /\ req' \in [Requests -> Gate]
  BY TypedStep DEF QuotaTyped
<1>old. ~At(r, "idle") =>
          /\ req[r].case \in Cases
          /\ req[r].nodes[req[r].node] = "OPEN"
          /\ req[r].calm => req[r].total = ContractTotal(req[r].case, req[r].node)
          /\ ~req[r].moved => node[req[r].case] = req[r].node /\ nodes[req[r].case] = req[r].nodes
  BY DEF GatesGood
<1>1. ASSUME NEW c \in Cases, Disturb(c), UNCHANGED <<node, nodes>>,
             \A d \in Cases \ {c} : amount'[d] = amount[d] /\ change'[d] = change[d]
      PROVE  Good
  <2>1. req'[r] = IF Reading(r, c) THEN [req[r] EXCEPT !.calm = FALSE] ELSE req[r]
    BY <1>1 DEF Disturb
  <2>2. req[r] \in Gate
    BY <1>typ
  <2>3. ~At(r, "idle")
    BY <2>1, <2>2 DEF At, Gate
  <2>4. CASE Reading(r, c)
    BY <1>1, <1>old, <2>1, <2>2, <2>3, <2>4 DEF Gate
  <2>5. CASE ~Reading(r, c)
    <3>1. req'[r] = req[r] /\ req[r].case # c
      BY <2>1, <2>3, <2>5 DEF Reading
    <3>3. amount'[req[r].case] = amount[req[r].case] /\ change'[req[r].case] = change[req[r].case]
      BY <1>1, <1>old, <2>3, <3>1
    <3>4. ContractTotal(req[r].case, req[r].node)' = ContractTotal(req[r].case, req[r].node)
      BY <3>1, <3>3 DEF ContractTotal
    <3> QED BY <1>1, <1>old, <2>3, <3>1, <3>4
  <2> QED BY <2>4, <2>5
<1>2. ASSUME NEW c \in Cases, NEW a \in Amounts, SaveContract(c, a) PROVE Good
  BY <1>1, <1>2 DEF SaveContract, QuotaTyped
<1>3. ASSUME NEW c \in Cases, NEW a \in Amounts, CreateChange(c, a) PROVE Good
  BY <1>1, <1>3 DEF CreateChange, QuotaTyped
<1>4. ASSUME NEW c \in Cases, ApplyChange(c) PROVE Good
  BY <1>1, <1>4 DEF ApplyChange, QuotaTyped
<1>5. ASSUME NEW c \in Cases, PassElsewhere(c) PROVE Good
  <2>1. UNCHANGED <<amount, change, req>> /\ ~At(r, "idle")
    BY <1>5 DEF PassElsewhere, At
  <2>2. ContractTotal(req[r].case, req[r].node)' = ContractTotal(req[r].case, req[r].node)
    BY <2>1 DEF ContractTotal
  <2>3. \A d \in Cases : node[d] \in {"N3", "N4"} => node'[d] = node[d] /\ nodes'[d] = nodes[d]
    <3>1. CASE node[c] = "N2" /\ node' = [node EXCEPT ![c] = "N3"] /\ UNCHANGED nodes
      BY <3>1 DEF QuotaTyped
    <3>2. CASE node[c] = "N5" /\ node' = [node EXCEPT ![c] = "N6"] /\ UNCHANGED nodes
      BY <3>2 DEF QuotaTyped
    <3>3. CASE node[c] = "N6" /\ node' = [node EXCEPT ![c] = "N7"] /\ nodes' = [nodes EXCEPT ![c]["N6"] = "PASSED"]
      <4>1. \A d \in Cases \ {c} : node'[d] = node[d] /\ nodes'[d] = nodes[d]
        BY <3>3 DEF QuotaTyped
      <4> QED BY <3>3, <4>1
    <3> QED BY <1>5, <3>1, <3>2, <3>3 DEF PassElsewhere
  <2>4. req[r].node \in {"N3", "N4"}
    BY <1>typ DEF Gate
  <2> QED BY <1>old, <2>1, <2>2, <2>3, <2>4
<1>6. ASSUME NEW c \in Cases, Receive(c) PROVE Good
  <2>1. UNCHANGED <<amount, change, req, node, nodes>> /\ ~At(r, "idle")
    BY <1>6 DEF Receive, At
  <2>2. ContractTotal(req[r].case, req[r].node)' = ContractTotal(req[r].case, req[r].node)
    BY <2>1 DEF ContractTotal
  <2> QED BY <1>old, <2>1, <2>2
<1>7. ASSUME NEW q \in Requests, NEW c \in Cases, ReadCase(q, c) PROVE Good
  <2>1. UNCHANGED <<amount, change, node, nodes>>
    BY <1>7 DEF ReadCase
  <2>2. CASE q # r
    <3>1. req'[r] = req[r] /\ ~At(r, "idle")
      BY <1>7, <1>typ, <2>2 DEF ReadCase, At
    <3>2. ContractTotal(req[r].case, req[r].node)' = ContractTotal(req[r].case, req[r].node)
      BY <2>1, <3>1 DEF ContractTotal
    <3> QED BY <1>old, <2>1, <3>1, <3>2
  <2>3. CASE q = r
    <3>1. /\ req'[r].case = c /\ req'[r].node = node[c] /\ req'[r].nodes = nodes[c]
          /\ req'[r].total = ContractTotal(c, node[c])
      BY <1>7, <1>typ, <2>3 DEF ReadCase, Idle
    <3>2. ContractTotal(req[r].case, req[r].node)' = ContractTotal(c, node[c])
      BY <2>1, <3>1 DEF ContractTotal
    <3>3. nodes[c][node[c]] = "OPEN"
      BY <1>7 DEF ReadCase, QuotaTyped, Passed, Codes
    <3> QED BY <2>1, <3>1, <3>2, <3>3
  <2> QED BY <2>2, <2>3
<1>8. ASSUME NEW q \in Requests, ReadShared(q) PROVE Good
  <2>1. UNCHANGED <<amount, change, node, nodes>>
    BY <1>8 DEF ReadShared
  <2>2. /\ ~At(r, "idle")
        /\ req'[r].case = req[r].case /\ req'[r].node = req[r].node /\ req'[r].nodes = req[r].nodes
        /\ req'[r].total = req[r].total /\ req'[r].calm = req[r].calm /\ req'[r].moved = req[r].moved
    <3>1. CASE q # r
      BY <1>8, <1>typ, <3>1 DEF ReadShared, At
    <3>2. CASE q = r
      <4>1. PICK s : req' = [req EXCEPT ![r].step = "judge", ![r].split = s]
        BY <1>8, <3>2 DEF ReadShared
      <4>2. req'[r] = [req[r] EXCEPT !.step = "judge", !.split = s] /\ req[r] \in Gate
        BY <1>typ, <4>1
      <4>3. At(r, "share")
        BY <1>8, <3>2 DEF ReadShared
      <4> QED BY <4>2, <4>3 DEF At, Gate
    <3> QED BY <3>1, <3>2
  <2>3. ContractTotal(req[r].case, req[r].node)' = ContractTotal(req[r].case, req[r].node)
    BY <2>1, <2>2 DEF ContractTotal
  <2> QED BY <1>old, <2>1, <2>2, <2>3
<1>9. ASSUME NEW q \in Requests, Judge(q) PROVE Good
  <2>1. UNCHANGED <<amount, change>>
    BY <1>9 DEF Judge
  <2>2. q # r
    BY <1>9 DEF Judge, At, Idle
  <2>3. req'[r] = IF Reading(r, req[q].case) THEN [req[r] EXCEPT !.moved = TRUE] ELSE req[r]
    BY <1>9, <2>2 DEF Judge
  <2>4. /\ req[r] \in Gate /\ ~At(r, "idle")
        /\ req'[r].case = req[r].case /\ req'[r].node = req[r].node /\ req'[r].nodes = req[r].nodes
        /\ req'[r].total = req[r].total /\ req'[r].calm = req[r].calm
        /\ ~req'[r].moved => ~Reading(r, req[q].case) /\ ~req[r].moved
    BY <1>typ, <2>3 DEF Gate, At
  <2>5. ContractTotal(req[r].case, req[r].node)' = ContractTotal(req[r].case, req[r].node)
    BY <2>1, <2>4 DEF ContractTotal
  <2>6. \A d \in Cases : d # req[q].case => node'[d] = node[d] /\ nodes'[d] = nodes[d]
    BY <1>9 DEF Judge, QuotaTyped
  <2>7. ~req'[r].moved => req[r].case # req[q].case
    BY <2>4 DEF Reading
  <2> QED BY <1>old, <2>4, <2>5, <2>6, <2>7
<1> QED BY <1>2, <1>3, <1>4, <1>5, <1>6, <1>7, <1>8, <1>9 DEF Next

(* A step that makes nothing more unpaid, judges nothing and reads nothing.*)
LEMMA CalmStep ==
  ASSUME QuotaInv, QuotaTyped', JudgedCases' \subseteq JudgedCases, FreshGates' \subseteq FreshGates,
         \A r \in FreshGates' : req'[r].case = req[r].case /\ OccupancySeen(req'[r]) = OccupancySeen(req[r]),
         \A c \in JudgedCases' \cup {req[r].case : r \in FreshGates'} : Unpaid'[c] <= Unpaid[c]
  PROVE  CountedBy(Unpaid, JudgedCases, FreshGates, req)'
<1>1. \A c \in Cases : Unpaid[c] \in Nat /\ Unpaid'[c] \in Nat
  <2>1. (\A c \in Cases : Unpaid[c] \in Nat) /\ (\A c \in Cases : Unpaid'[c] \in Nat)
    BY DEF QuotaInv, QuotaTyped, Unpaid, UnpaidFenOf, AtLeastZero
  <2> QED BY <2>1
<1>2. \A r \in FreshGates : req[r].case \in Cases /\ OccupancySeen(req[r]) \in Int
  BY JudgementIs DEF QuotaInv, GatesGood, FreshGates, FreshGate, At
<1>3. CountedBy(Unpaid, JudgedCases, FreshGates, req) /\ JudgedCases \subseteq Cases
  BY DEF QuotaInv, JudgedCases
<1>u. PICK u : u = Unpaid'
  OBVIOUS
<1>j. PICK j : j = JudgedCases'
  OBVIOUS
<1>k. PICK k : k = FreshGates'
  OBVIOUS
<1>4. CountedBy(u, j, k, req')
  BY <1>1, <1>2, <1>3, <1>u, <1>j, <1>k, FewerCounted
<1> QED BY <1>4, <1>u, <1>j, <1>k DEF CountedBy

LEMMA CountedStep ==
  QuotaInv /\ QuotaTyped' /\ GatesGood' /\ Next => CountedBy(Unpaid, JudgedCases, FreshGates, req)'
<1> SUFFICES ASSUME QuotaInv, QuotaTyped', GatesGood', Next
             PROVE  CountedBy(Unpaid, JudgedCases, FreshGates, req)'
  OBVIOUS
<1>typ. QuotaTyped /\ GatesGood /\ req \in [Requests -> Gate]
  BY DEF QuotaInv, QuotaTyped
<1>nat. \A c \in Cases : Unpaid[c] \in Nat
  BY <1>typ, UnpaidNat
<1>1. ASSUME NEW c \in Cases, Disturb(c), UNCHANGED received, \A d \in Cases \ {c} : amount'[d] = amount[d]
      PROVE  CountedBy(Unpaid, JudgedCases, FreshGates, req)'
  <2>1. \A d \in Cases \ {c} : Unpaid'[d] = Unpaid[d]
    BY <1>1 DEF Unpaid
  <2>2. JudgedCases' \subseteq JudgedCases /\ c \notin JudgedCases'
    BY <1>1, <1>typ DEF JudgedCases, Disturb, QuotaTyped
  <2>3. ASSUME NEW r \in FreshGates' PROVE r \in FreshGates /\ req'[r] = req[r] /\ req[r].case \in Cases \ {c}
    <3>1. r \in Requests /\ req[r] \in Gate /\ req'[r] = IF Reading(r, c) THEN [req[r] EXCEPT !.calm = FALSE] ELSE req[r]
      BY <1>1, <1>typ, <2>3 DEF FreshGates, Disturb
    <3>2. req'[r].calm /\ req'[r].step = "judge" /\ req'[r].total = amount'[req'[r].case]
      BY <2>3 DEF FreshGates, FreshGate, At
    <3>3. ~Reading(r, c) /\ req'[r] = req[r]
      BY <3>1, <3>2 DEF Gate
    <3>4. At(r, "judge") /\ req[r].case # c /\ req[r].case \in Cases
      BY <1>typ, <3>1, <3>2, <3>3 DEF Reading, At, GatesGood
    <3>5. amount'[req[r].case] = amount[req[r].case]
      BY <1>1, <3>4
    <3> QED BY <3>1, <3>2, <3>3, <3>4, <3>5 DEF FreshGates, FreshGate
  <2>4. \A d \in JudgedCases' \cup {req[r].case : r \in FreshGates'} : d \in Cases \ {c}
    BY <2>2, <2>3 DEF JudgedCases
  <2> QED BY <1>nat, <2>1, <2>2, <2>3, <2>4, CalmStep
<1>2. ASSUME NEW c \in Cases, NEW a \in Amounts, SaveContract(c, a)
      PROVE CountedBy(Unpaid, JudgedCases, FreshGates, req)'
  BY <1>1, <1>2, <1>typ DEF SaveContract, QuotaTyped
<1>3. ASSUME NEW c \in Cases, NEW a \in Amounts, CreateChange(c, a)
      PROVE CountedBy(Unpaid, JudgedCases, FreshGates, req)'
  BY <1>1, <1>3, <1>typ DEF CreateChange, QuotaTyped
<1>4. ASSUME NEW c \in Cases, ApplyChange(c)
      PROVE CountedBy(Unpaid, JudgedCases, FreshGates, req)'
  BY <1>1, <1>4, <1>typ DEF ApplyChange, QuotaTyped
<1>5. ASSUME UNCHANGED <<amount, req, judged>>, \A c \in Cases : Unpaid'[c] <= Unpaid[c]
      PROVE CountedBy(Unpaid, JudgedCases, FreshGates, req)'
  <2>1. JudgedCases' = JudgedCases /\ FreshGates' = FreshGates
    BY <1>5 DEF JudgedCases, FreshGates, FreshGate, At
  <2>2. JudgedCases \cup {req[r].case : r \in FreshGates} \subseteq Cases
    BY <1>typ DEF JudgedCases, FreshGates, FreshGate, At, GatesGood
  <2> QED BY <1>5, <2>1, <2>2, CalmStep
<1>6. ASSUME NEW c \in Cases, PassElsewhere(c)
      PROVE CountedBy(Unpaid, JudgedCases, FreshGates, req)'
  <2>1. UNCHANGED <<amount, req, judged, received>>
    BY <1>6 DEF PassElsewhere
  <2>2. \A d \in Cases : Unpaid'[d] <= Unpaid[d]
    BY <1>nat, <2>1 DEF Unpaid
  <2> QED BY <1>5, <2>1, <2>2
<1>7. ASSUME NEW c \in Cases, Receive(c)
      PROVE CountedBy(Unpaid, JudgedCases, FreshGates, req)'
  <2>1. UNCHANGED <<amount, req, judged>> /\ received[c] < amount[c] /\ received' = [received EXCEPT ![c] = amount[c]]
    BY <1>7 DEF Receive
  <2>2. \A d \in Cases : Unpaid'[d] <= Unpaid[d]
    BY <1>typ, <2>1 DEF Unpaid, UnpaidFenOf, AtLeastZero, QuotaTyped
  <2> QED BY <1>5, <2>1, <2>2
<1>8. ASSUME NEW r \in Requests, NEW c \in Cases, ReadCase(r, c)
      PROVE CountedBy(Unpaid, JudgedCases, FreshGates, req)'
  <2>1. UNCHANGED <<amount, received, judged>> /\ req'[r].step = "share" /\ \A q \in Requests \ {r} : req'[q] = req[q]
    BY <1>8, <1>typ DEF ReadCase, Idle
  <2>2. JudgedCases' = JudgedCases /\ \A d \in Cases : Unpaid'[d] <= Unpaid[d]
    BY <1>nat, <2>1 DEF JudgedCases, Unpaid
  <2>3. \A q \in FreshGates' : q \in FreshGates /\ req'[q] = req[q] /\ req[q].case \in Cases
    BY <1>typ, <2>1 DEF FreshGates, FreshGate, At, GatesGood
  <2> QED BY <2>2, <2>3, CalmStep DEF JudgedCases
<1>9. ASSUME NEW r \in Requests, ReadShared(r)
      PROVE CountedBy(Unpaid, JudgedCases, FreshGates, req)'
  <2> DEFINE s == OccupancyForCase(req[r].case)
  <2>1. PICK t : t = s
    OBVIOUS
  <2> HIDE DEF s
  <2>2. /\ UNCHANGED <<amount, received, judged>> /\ req[r] \in Gate /\ At(r, "share")
        /\ req'[r] = [req[r] EXCEPT !.step = "judge", !.split = t]
        /\ \A q \in Requests \ {r} : req'[q] = req[q]
    BY <1>9, <1>typ, <2>1 DEF ReadShared, s
  <2>3. /\ t \in Split
        /\ \E skip : t.open + t.fulfilled = SumOf(Unpaid, Cases \ {skip}) /\ (skip = req[r].case \/ skip \notin Cases)
    <3>1. PICK skip : /\ s = SplitOccupancy([d \in Cases |-> Row(d)], skip)
                      /\ skip = req[r].case \/ skip \notin Cases
      BY QuotaAssumption DEF s, OccupancyForCase, QuotaAssumption
    <3> QED BY <1>typ, <2>1, <3>1, SplitAddsUp
  <2>4. req[r].case \in Cases
    BY <1>typ, <2>2 DEF GatesGood, At
  <2>5. JudgedCases' = JudgedCases /\ Unpaid' = Unpaid
    BY <2>2 DEF JudgedCases, Unpaid
  <2>6. \A q \in Requests \ {r} : (q \in FreshGates') <=> (q \in FreshGates)
    BY <2>2 DEF FreshGates, FreshGate, At
  <2>7. r \notin FreshGates
    BY <2>2 DEF FreshGates, FreshGate, At
  <2>8. CASE r \notin FreshGates'
    <3>1. FreshGates' = FreshGates
      BY <2>6, <2>7, <2>8 DEF FreshGates
    <3>2. \A q \in FreshGates' : req'[q] = req[q] /\ req[q].case \in Cases
      BY <1>typ, <2>2, <2>7, <3>1 DEF FreshGates, FreshGate, At, GatesGood
    <3>3. \A d \in JudgedCases' \cup {req[q].case : q \in FreshGates'} : d \in Cases
      BY <3>2 DEF JudgedCases
    <3> QED BY <1>nat, <2>5, <3>1, <3>2, <3>3, CalmStep
  <2>9. CASE r \in FreshGates'
    <3>1. /\ req'[r].calm /\ req'[r].total = amount[req[r].case] /\ req'[r].case = req[r].case
          /\ req'[r].split = t
      BY <2>2, <2>9 DEF FreshGates, FreshGate, Gate
    <3>2. OccupancySeen(req'[r]) = t.open + t.fulfilled + amount[req[r].case] /\ OccupancySeen(req'[r]) \in Int
      BY <1>typ, <2>3, <2>4, <3>1 DEF OccupancySeen, Split, QuotaTyped
    <3>3. IsFiniteSet(Cases) /\ \A skip : IsFiniteSet(Cases \ {skip})
      BY QuotaAssumption, FS_Subset DEF QuotaAssumption
    <3>4. SumOf(Unpaid, Cases) = Unpaid[req[r].case] + SumOf(Unpaid, Cases \ {req[r].case})
      BY <1>nat, <2>4, <3>3, SumOfTake
    <3>5. PICK skip : t.open + t.fulfilled = SumOf(Unpaid, Cases \ {skip}) /\ (skip = req[r].case \/ skip \notin Cases)
      BY <2>3
    <3>6. PICK m \in Int, n \in Int, x \in Int :
            /\ m = SumOf(Unpaid, Cases) /\ n = SumOf(Unpaid, Cases \ {req[r].case}) /\ x = amount[req[r].case]
      <4>1. SumOf(Unpaid, Cases) \in Int /\ SumOf(Unpaid, Cases \ {req[r].case}) \in Int
        BY <1>nat, <3>3, SumOfInt
      <4> QED BY <1>typ, <2>4, <4>1 DEF QuotaTyped
    <3>7. Unpaid[req[r].case] \in Nat /\ Unpaid[req[r].case] <= x /\ x \in Nat
      BY <1>typ, <2>4, <3>6, UnpaidNat DEF QuotaTyped
    <3>8. OccupancySeen(req'[r]) >= SumOf(Unpaid, Cases)
      <4>1. CASE skip = req[r].case
        BY <3>2, <3>4, <3>5, <3>6, <3>7, <4>1
      <4>2. CASE skip \notin Cases
        <5>1. Cases \ {skip} = Cases
          BY <4>2
        <5> QED BY <3>2, <3>5, <3>6, <3>7, <5>1
      <4> QED BY <3>5, <4>1, <4>2
    <3>9. FreshGates' = FreshGates \cup {r}
      BY <2>6, <2>9 DEF FreshGates
    <3>10. \A q \in FreshGates : req[q].case \in Cases /\ req'[q] = req[q]
      BY <1>typ, <2>2, <2>7 DEF FreshGates, FreshGate, At, GatesGood
    <3>11. CountedBy(Unpaid, JudgedCases, FreshGates, req) /\ JudgedCases \subseteq Cases
      BY DEF QuotaInv, JudgedCases
    <3>12. CountedBy(Unpaid, JudgedCases, FreshGates \cup {r}, req')
      BY <1>nat, <2>4, <2>7, <3>1, <3>2, <3>8, <3>10, <3>11, GateCounts
    <3> QED BY <2>5, <3>9, <3>12 DEF CountedBy
  <2> QED BY <2>8, <2>9
<1>10. ASSUME NEW r \in Requests, Judge(r)
       PROVE CountedBy(Unpaid, JudgedCases, FreshGates, req)'
  <2>1. UNCHANGED <<amount, received>> /\ Unpaid' = Unpaid /\ req[r].case \in Cases /\ ~At(r, "idle")
    BY <1>10, <1>typ DEF Judge, Unpaid, At, GatesGood
  <2>2. ASSUME NEW q \in FreshGates'
        PROVE  /\ q \in FreshGates \ {r} /\ req[q].case \in Cases
               /\ req'[q].case = req[q].case /\ OccupancySeen(req'[q]) = OccupancySeen(req[q])
    <3>1. q \in Requests /\ req[q] \in Gate /\ req'[q].step = "judge" /\ req'[q].calm
          /\ req'[q].total = amount[req'[q].case]
      BY <1>typ, <2>1 DEF FreshGates, FreshGate, At
    <3>2. q # r
      BY <1>10, <3>1 DEF Judge, Idle
    <3>3. req'[q] = req[q] \/ req'[q] = [req[q] EXCEPT !.moved = TRUE]
      BY <1>10, <3>1, <3>2 DEF Judge
    <3>4. /\ req'[q].case = req[q].case /\ req'[q].split = req[q].split /\ req'[q].total = req[q].total
          /\ req[q].step = "judge" /\ req[q].calm
      BY <3>1, <3>3 DEF Gate
    <3> QED BY <1>typ, <3>1, <3>2, <3>4 DEF FreshGates, FreshGate, At, OccupancySeen, GatesGood
  <2>3. CASE JudgedCases' \subseteq JudgedCases
    <3>1. \A d \in JudgedCases' \cup {req[q].case : q \in FreshGates'} : d \in Cases
      BY <2>2 DEF JudgedCases
    <3> QED BY <1>nat, <2>1, <2>2, <2>3, <3>1, CalmStep
  <2>4. CASE ~(JudgedCases' \subseteq JudgedCases)
    <3>1. /\ \E approved \in BOOLEAN : MayPass(r, approved)
          /\ r \in FreshGates /\ JudgedCases' = JudgedCases \cup {req[r].case}
      <4>1. /\ \E approved \in BOOLEAN : MayPass(r, approved)
            /\ judged' = [judged EXCEPT ![req[r].case] = req[r].calm /\ req[r].total = amount[req[r].case]]
        BY <1>10, <2>4 DEF Judge, JudgedCases
      <4>2. req[r].calm /\ req[r].total = amount[req[r].case]
        BY <1>typ, <2>4, <4>1 DEF JudgedCases, QuotaTyped
      <4>3. judged' = [judged EXCEPT ![req[r].case] = TRUE]
        BY <4>1, <4>2
      <4>4. r \in FreshGates
        BY <1>10, <4>2 DEF Judge, FreshGates, FreshGate
      <4>5. \A d \in Cases : judged'[d] <=> (d = req[r].case \/ judged[d])
        BY <1>typ, <4>3 DEF QuotaTyped
      <4> QED BY <2>1, <4>1, <4>4, <4>5 DEF JudgedCases
    <3>2. OccupancySeen(req[r]) \in Int /\ OccupancySeen(req[r]) - Limit < UltraMin
      BY <1>typ, <2>1, <3>1, JudgementIs
    <3>3. \A q \in FreshGates : req[q].case \in Cases
      BY <1>typ DEF FreshGates, FreshGate, At, GatesGood
    <3>4. CountedBy(Unpaid, JudgedCases, FreshGates, req) /\ JudgedCases \subseteq Cases
      BY DEF QuotaInv, JudgedCases
    <3>5. \A q \in FreshGates \ {r} : req'[q].case = req[q].case /\ OccupancySeen(req'[q]) = OccupancySeen(req[q])
      <4> SUFFICES ASSUME NEW q \in FreshGates \ {r}
                   PROVE  req'[q].case = req[q].case /\ OccupancySeen(req'[q]) = OccupancySeen(req[q])
        OBVIOUS
      <4>1. q \in Requests /\ req[q] \in Gate
        BY <1>typ DEF FreshGates
      <4>2. req'[q] = req[q] \/ req'[q] = [req[q] EXCEPT !.moved = TRUE]
        BY <1>10, <4>1 DEF Judge
      <4> QED BY <4>1, <4>2 DEF Gate, OccupancySeen
    <3>6. CountedBy(Unpaid, JudgedCases \cup {req[r].case}, FreshGates \ {r}, req')
      BY <1>nat, <3>1, <3>2, <3>3, <3>4, <3>5, GatePasses
    <3>7. FreshGates' \subseteq FreshGates \ {r}
      BY <2>2
    <3>8. CountedBy(Unpaid, JudgedCases', FreshGates', req')
      BY <3>1, <3>6, <3>7 DEF CountedBy
    <3> QED BY <2>1, <3>8 DEF CountedBy
  <2> QED BY <2>3, <2>4
<1> QED BY <1>2, <1>3, <1>4, <1>6, <1>7, <1>8, <1>9, <1>10 DEF Next

LEMMA QuotaStep == QuotaInv /\ [Next]_vars => QuotaInv'
<1>1. QuotaInv /\ Next => QuotaInv'
  BY TypedStep, GatesStep, CountedStep DEF QuotaInv
<1>2. QuotaInv /\ UNCHANGED vars => QuotaInv'
  <2> SUFFICES ASSUME QuotaInv, UNCHANGED vars PROVE QuotaInv'
    OBVIOUS
  <2>1. QuotaTyped'
    BY DEF QuotaInv, QuotaTyped, vars
  <2>2. GatesGood'
    BY DEF QuotaInv, GatesGood, vars, At, ContractTotal
  <2>3. Unpaid' = Unpaid /\ JudgedCases' = JudgedCases /\ FreshGates' = FreshGates /\ req' = req
    BY DEF vars, Unpaid, JudgedCases, FreshGates, FreshGate, At
  <2>4. CountedBy(Unpaid, JudgedCases, FreshGates, req)'
    <3>1. \A c \in Cases : Unpaid[c] \in Nat
      BY UnpaidNat DEF QuotaInv
    <3>2. JudgedCases \cup {req[r].case : r \in FreshGates} \subseteq Cases
      BY DEF QuotaInv, JudgedCases, FreshGates, FreshGate, At, GatesGood
    <3> QED BY <2>1, <2>3, <3>1, <3>2, CalmStep
  <2> QED BY <2>1, <2>2, <2>4 DEF QuotaInv
<1> QED BY <1>1, <1>2

LEMMA QuotaFollows == QuotaInv => SharedLimitHolds
<1> SUFFICES ASSUME QuotaInv PROVE SharedLimitHolds
  OBVIOUS
<1>1. JudgedCases \in SUBSET Cases
  BY DEF JudgedCases
<1>2. Owed(JudgedCases, LAMBDA c : amount[c]) = SumOf(Unpaid, JudgedCases)
  BY <1>1, OwedIsSum
<1>3. SumOf(Unpaid, JudgedCases) - Limit < UltraMin
  <2>1. JudgedCases \cup {req[r].case : r \in {}} = JudgedCases
    OBVIOUS
  <2>2. JudgedCases \in SUBSET JudgedCases /\ {} \in SUBSET FreshGates
    OBVIOUS
  <2> QED BY <2>1, <2>2 DEF QuotaInv, CountedBy
<1> QED BY <1>2, <1>3 DEF SharedLimitHolds, JudgedCases, Owed

LEMMA OwnOnceStep ==
  ASSUME QuotaInv, QuotaInv', [Next]_vars, NEW r \in Requests,
         At(r, "share"), At(r, "judge")', req[r].calm, ~req[r].moved
  PROVE  Judgement(r)'.occupancy = Owed(Cases \ {req[r].case}, LAMBDA c : amount[c])
                                     + ContractTotal(req[r].case, req[r].node)
<1>typ. QuotaTyped /\ GatesGood /\ req[r] \in Gate
  BY DEF QuotaInv, QuotaTyped
<1>1. ReadShared(r)
  <2>1. ASSUME NEW c \in Cases, Disturb(c) PROVE FALSE
    BY <1>typ, <2>1 DEF Disturb, At, Gate
  <2>2. req' # req
    BY DEF At
  <2>3. ASSUME NEW q \in Requests, NEW c \in Cases, ReadCase(q, c) PROVE FALSE
    BY <1>typ, <2>3 DEF ReadCase, At, Idle, QuotaInv, QuotaTyped
  <2>4. ASSUME NEW q \in Requests, Judge(q) PROVE FALSE
    BY <1>typ, <2>4 DEF Judge, At, Idle, Gate
  <2>5. ASSUME NEW q \in Requests, ReadShared(q) PROVE q = r
    BY <1>typ, <2>5 DEF ReadShared, At, QuotaInv, QuotaTyped
  <2> QED BY <2>1, <2>2, <2>3, <2>4, <2>5 DEF Next, SaveContract, CreateChange, ApplyChange, PassElsewhere, Receive, vars
<1> DEFINE c == req[r].case
           s == OccupancyForCase(c)
<1>2. /\ c \in Cases /\ node[c] = req[r].node /\ nodes[c] = req[r].nodes /\ req[r].nodes[req[r].node] = "OPEN"
      /\ req[r].total = ContractTotal(c, req[r].node)
  BY <1>typ DEF GatesGood, At
<1>3. s = SplitOccupancy([d \in Cases |-> Row(d)], c)
  BY <1>typ, <1>2 DEF OccupancyForCase, ShouldTreatAsNewContract, Passed, Gate
<1>4. s.open + s.fulfilled = SumOf(Unpaid, Cases \ {c})
  BY <1>typ, <1>3, SplitAddsUp
<1>5. PICK t : t = s
  OBVIOUS
<1> HIDE DEF s
<1>6. req'[r] = [req[r] EXCEPT !.step = "judge", !.split = t]
  BY <1>1, <1>5, <1>typ DEF ReadShared, s, QuotaInv, QuotaTyped
<1>7. req'[r].split = t /\ req'[r].total = req[r].total
  BY <1>6, <1>typ DEF Gate
<1>8. Judgement(r)'.occupancy = OccupancySeen(req'[r])
  <2>1. QuotaTyped' /\ GatesGood' /\ ~At(r, "idle")'
    BY DEF QuotaInv, At
  <2>2. QuotaTyped /\ GatesGood /\ ~At(r, "idle") => Judgement(r).occupancy = OccupancySeen(req[r])
    BY JudgementIs
  <2>3. (QuotaTyped /\ GatesGood /\ ~At(r, "idle") => Judgement(r).occupancy = OccupancySeen(req[r]))'
    BY JudgementIs, PTL
  <2> QED BY <2>1, <2>3
<1>9. OccupancySeen(req'[r]) = SumOf(Unpaid, Cases \ {c}) + req[r].total
  BY <1>4, <1>5, <1>7 DEF OccupancySeen
<1>10. Owed(Cases \ {c}, LAMBDA d : amount[d]) = SumOf(Unpaid, Cases \ {c})
  BY OwedIsSum
<1> QED BY <1>2, <1>8, <1>9, <1>10

(* However requests overlap, and for any number of cases of one buyer: the *)
(* contracts that passed the gate fit the limit together, up to what a     *)
(* desk may approve (evaluateNode, sinosure-exposure.ts).                  *)
THEOREM QuotaHolds == Spec => []SharedLimitHolds
<1>1. Spec => []QuotaInv
  BY QuotaInit, QuotaStep, PTL DEF Spec
<1> QED BY <1>1, QuotaFollows, PTL

(* A gate whose own case nothing else writes counts what the other cases   *)
(* owe and its own contract once (occupancyForCase, splitOccupancy).       *)
THEOREM OwnContractHolds == Spec => OwnContractOnce
<1>1. Spec => []QuotaInv
  BY QuotaInit, QuotaStep, PTL DEF Spec
<1>2. QuotaInv /\ QuotaInv' /\ [Next]_vars =>
        [\A r \in Requests :
          (At(r, "share") /\ At(r, "judge")' /\ req[r].calm /\ ~req[r].moved) =>
            Judgement(r)'.occupancy = Owed(Cases \ {req[r].case}, LAMBDA c : amount[c])
                                        + ContractTotal(req[r].case, req[r].node)]_vars
  BY OwnOnceStep
<1> QED BY <1>1, <1>2, PTL DEF Spec, OwnContractOnce

-----------------------------------------------------------------------------
(* Files.                                                                  *)
Key == [case : FileCases, id : Nat \ {0}]
Kinds == {"DOC", "SINOSURE_POLICY", "SINOSURE_CONFIRM"}
EvidenceRow == [case : FileCases, kind : Kinds, key : Key \cup {Files!NoKey}, source : Nat]
PolicyRow == [case : FileCases, node : {"N3", "N4"}, evidence : Nat, limit : Nat, confirmed : BOOLEAN]
FileRequest ==
  [step : {"idle", "writing", "row", "copy", "policy"}, case : FileCases \cup {"none"}, node : {"N3", "N4"},
   kind : Kinds, key : Key \cup {Files!NoKey}, source : Nat, limit : Nat]

FilesTyped ==
  /\ drawn \in Nat
  /\ evidence \in Seq(EvidenceRow)
  /\ policies \in Seq(PolicyRow)
  /\ uploads \in [Uploaders -> FileRequest]

(* What a request has in hand at the step it has come to.                  *)
InHand(q, rows, disk) ==
  /\ q.step = "writing" => q.case \in FileCases /\ q.key \in Key /\ q.key.case = q.case /\ q.source = 0
  /\ q.step = "row" => q.case \in FileCases /\ q.key \in Key /\ q.key.case = q.case /\ q.source = 0 /\ q.key \in disk
  /\ q.step = "copy" => q.case \in FileCases /\ IF q.source = 0 THEN q.key = Files!NoKey
                        ELSE q.source \in DOMAIN rows /\ rows[q.source].case = q.case
                             /\ rows[q.source].key = q.key
  /\ q.step = "policy" => q.case \in FileCases /\ q.source \in DOMAIN rows /\ rows[q.source].case = q.case

RowsGood ==
  \A i \in DOMAIN evidence :
    /\ evidence[i].key # Files!NoKey => evidence[i].key \in files /\ evidence[i].key.case = evidence[i].case
    /\ evidence[i].source # 0 => /\ evidence[i].source \in DOMAIN evidence
                                 /\ evidence[evidence[i].source].key = evidence[i].key

PoliciesGood ==
  \A i \in DOMAIN policies :
    /\ policies[i].evidence \in DOMAIN evidence
    /\ evidence[policies[i].evidence].case = policies[i].case

FilesInv == FilesTyped /\ (\A r \in Uploaders : InHand(uploads[r], evidence, files)) /\ RowsGood /\ PoliciesGood

LEMMA FilesFollow == FilesInv => StoredFileOpens /\ FilesStayInCase
BY DEF FilesInv, RowsGood, PoliciesGood, StoredFileOpens, FilesStayInCase, Files!StoredFileOpens,
   Files!FilesStayInCase, Files!ParseStoredFile, Files!OpenEvidenceFile

LEMMA StoppedRequest ==
  /\ Files!Stopped \in FileRequest /\ Files!Stopped.step = "idle"
  /\ \A rows, disk : InHand(Files!Stopped, rows, disk)
BY DEF Files!Stopped, FileRequest, Kinds, InHand

(* Rows are only added, files only stored: what a request has in hand      *)
(* stays there.                                                            *)
LEMMA InHandStays ==
  ASSUME NEW q, NEW rows, NEW disk, NEW rows2, NEW disk2, InHand(q, rows, disk), disk \subseteq disk2,
         \A i \in DOMAIN rows : i \in DOMAIN rows2 /\ rows2[i] = rows[i]
  PROVE  InHand(q, rows2, disk2)
BY DEF InHand

LEMMA FilesInit == Files!Init => FilesInv
<1> SUFFICES ASSUME Files!Init PROVE FilesInv
  OBVIOUS
<1>1. FilesTyped
  BY StoppedRequest DEF Files!Init, FilesTyped
<1>2. \A r \in Uploaders : InHand(uploads[r], evidence, files)
  BY StoppedRequest DEF Files!Init
<1>3. RowsGood /\ PoliciesGood
  BY DEF Files!Init, RowsGood, PoliciesGood
<1> QED
  BY <1>1, <1>2, <1>3 DEF FilesInv

(* A bounded set of numbers that is not empty has a last one.              *)
LEMMA LastExists ==
  ASSUME NEW n \in Nat, NEW places, places \subseteq 0..n, places # {}
  PROVE  \E i \in places : \A j \in places : j <= i
<1> DEFINE T == {k \in Nat : n - k \in places}
<1>1. T \subseteq Nat /\ T # {}
  <2>1. PICK i \in places : TRUE
    OBVIOUS
  <2>2. n - i \in Nat /\ n - (n - i) = i
    BY <2>1
  <2> QED BY <2>2
<1>2. IsWellFoundedOn(OpToRel(<, Nat), Nat)
  BY NatLessThanWellFounded
<1>3. PICK x \in T : \A y \in T : ~(<<y, x>> \in OpToRel(<, Nat))
  <2> HIDE DEF T
  <2> QED BY <1>1, <1>2, WFMin
<1>4. \A y \in T : ~(y < x)
  BY <1>1, <1>3 DEF OpToRel
<1>5. ASSUME NEW j \in places PROVE j <= n - x
  <2>1. n - j \in T
    BY <1>5
  <2>2. ~(n - j < x) /\ x \in Nat
    <3> HIDE DEF T
    <3> QED BY <2>1, <1>1, <1>3, <1>4
  <2> QED BY <2>2, <1>5
<1> QED
  BY <1>3, <1>5

LEMMA FilesStep ==
  ASSUME FilesInv, Files!Next
  PROVE  FilesInv'
<1>typ. /\ drawn \in Nat /\ evidence \in Seq(EvidenceRow) /\ policies \in Seq(PolicyRow)
        /\ uploads \in [Uploaders -> FileRequest]
        /\ Len(evidence) \in Nat /\ DOMAIN evidence = 1..Len(evidence)
        /\ Len(policies) \in Nat /\ DOMAIN policies = 1..Len(policies)
        /\ \A i \in DOMAIN evidence : evidence[i] \in EvidenceRow
        /\ \A i \in DOMAIN policies : policies[i] \in PolicyRow
  BY DEF FilesInv, FilesTyped
<1>uploads. uploads \in [Uploaders -> FileRequest]
  BY <1>typ
<1>inv. (\A r \in Uploaders : InHand(uploads[r], evidence, files)) /\ RowsGood /\ PoliciesGood
  BY DEF FilesInv
<1>one. ASSUME NEW r \in Uploaders, NEW q \in FileRequest, uploads' = [uploads EXCEPT ![r] = q],
               InHand(q, evidence', files'), files \subseteq files',
               \A i \in DOMAIN evidence : i \in DOMAIN evidence' /\ evidence'[i] = evidence[i]
        PROVE  /\ uploads' \in [Uploaders -> FileRequest]
               /\ \A s \in Uploaders : InHand(uploads'[s], evidence', files')
  <2>1. \A s \in Uploaders : s # r => InHand(uploads'[s], evidence', files')
    BY <1>one, <1>inv, <1>uploads, InHandStays
  <2> QED BY <2>1, <1>one, <1>uploads
<1>still. ASSUME UNCHANGED <<evidence, policies>>, files \subseteq files', drawn' \in Nat,
                 uploads' \in [Uploaders -> FileRequest], \A s \in Uploaders : InHand(uploads'[s], evidence', files')
          PROVE  FilesInv'
  <2>1. FilesTyped'
    BY <1>still, <1>typ DEF FilesTyped
  <2>2. RowsGood' /\ PoliciesGood'
    BY <1>still, <1>inv DEF RowsGood, PoliciesGood
  <2> QED BY <2>1, <2>2, <1>still DEF FilesInv
<1>added. ASSUME NEW r \in Uploaders, NEW row \in EvidenceRow, evidence' = Append(evidence, row),
                 row.key # Files!NoKey => row.key \in files /\ row.key.case = row.case,
                 row.source # 0 => row.source \in DOMAIN evidence /\ evidence[row.source].key = row.key,
                 UNCHANGED <<files, drawn, policies>>,
                 NEW q \in FileRequest, uploads' = [uploads EXCEPT ![r] = q], InHand(q, evidence', files)
          PROVE  FilesInv'
  <2>1. /\ evidence' \in Seq(EvidenceRow) /\ DOMAIN evidence' = 1..(Len(evidence) + 1)
        /\ \A i \in DOMAIN evidence : i \in DOMAIN evidence' /\ evidence'[i] = evidence[i]
        /\ evidence'[Len(evidence) + 1] = row
    BY <1>added, <1>typ, AppendProperties, LenProperties
  <2>2. uploads' \in [Uploaders -> FileRequest] /\ \A s \in Uploaders : InHand(uploads'[s], evidence', files')
    BY <2>1, <1>added, <1>one
  <2>3. FilesTyped'
    BY <2>1, <2>2, <1>added, <1>typ DEF FilesTyped
  <2>4. \A i \in DOMAIN evidence' : i \in DOMAIN evidence \/ i = Len(evidence) + 1
    BY <2>1, <1>typ
  <2>5. RowsGood'
    BY <2>1, <2>4, <1>added, <1>inv DEF RowsGood
  <2>6. PoliciesGood'
    BY <2>1, <1>added, <1>inv DEF PoliciesGood
  <2> QED BY <2>2, <2>3, <2>5, <2>6 DEF FilesInv
<1>1. ASSUME NEW r \in Uploaders, NEW c \in FileCases, NEW kind \in {"SINOSURE_POLICY", "DOC"}, Files!Write(r, c, kind)
      PROVE  FilesInv'
  <2> DEFINE q == [Files!Stopped EXCEPT !.step = "writing", !.case = c, !.kind = kind, !.key = Files!NewKey(c)]
  <2>1. Files!NewKey(c) \in Key /\ Files!NewKey(c).case = c
    BY <1>typ DEF Files!NewKey, Key
  <2>2. q \in FileRequest /\ InHand(q, evidence', files')
    BY <2>1 DEF Files!Stopped, FileRequest, Kinds, InHand
  <2>3. uploads' = [uploads EXCEPT ![r] = q] /\ UNCHANGED <<files, evidence, policies>> /\ drawn' = drawn + 1
    BY <1>1 DEF Files!Write
  <2> HIDE DEF q
  <2>4. uploads' \in [Uploaders -> FileRequest] /\ \A s \in Uploaders : InHand(uploads'[s], evidence', files')
    BY <2>2, <2>3, <1>one
  <2>5. drawn' \in Nat
    BY <2>3, <1>typ
  <2> QED BY <2>3, <2>4, <2>5, <1>still
<1>2. ASSUME NEW r \in Uploaders, Files!Written(r) PROVE FilesInv'
  <2> DEFINE q == [uploads[r] EXCEPT !.step = "row"]
  <2>1. q \in FileRequest /\ InHand(q, evidence', files')
    BY <1>2, <1>uploads, <1>inv DEF Files!Written, Files!At, FileRequest, InHand
  <2>2. uploads' = [uploads EXCEPT ![r] = q] /\ UNCHANGED <<drawn, evidence, policies>> /\ files \subseteq files'
    BY <1>2, <1>uploads DEF Files!Written
  <2> HIDE DEF q
  <2>3. uploads' \in [Uploaders -> FileRequest] /\ \A s \in Uploaders : InHand(uploads'[s], evidence', files')
    BY <2>1, <2>2, <1>one
  <2>4. UNCHANGED <<evidence, policies>> /\ drawn' \in Nat
    BY <2>2, <1>typ
  <2> QED BY <2>2, <2>3, <2>4, <1>still
<1>3. ASSUME NEW r \in Uploaders, Files!WriteFails(r) PROVE FilesInv'
  BY <1>3, <1>typ, <1>one, <1>still, StoppedRequest DEF Files!WriteFails, Files!Stop
<1>4. ASSUME NEW r \in Uploaders, Files!AddEvidence(r) PROVE FilesInv'
  <2> DEFINE row == [case |-> uploads[r].case, kind |-> uploads[r].kind, key |-> uploads[r].key, source |-> uploads[r].source]
  <2>1. InHand(uploads[r], evidence, files) /\ uploads[r].step = "row" /\ uploads[r] \in FileRequest
    BY <1>4, <1>uploads, <1>inv DEF Files!AddEvidence, Files!At
  <2>2. /\ row \in EvidenceRow /\ row.source = 0 /\ row.key \in files /\ row.key.case = row.case
    BY <2>1 DEF InHand, FileRequest, EvidenceRow
  <2>3. evidence' = Append(evidence, row) /\ uploads' = [uploads EXCEPT ![r] = Files!Stopped] /\ UNCHANGED <<files, drawn, policies>>
    BY <1>4 DEF Files!AddEvidence, Files!Stop
  <2> HIDE DEF row
  <2> QED BY <2>2, <2>3, <1>added, StoppedRequest
<1>5. ASSUME NEW r \in Uploaders, Files!CopyEvidence(r) PROVE FilesInv'
  <2> DEFINE row == [case |-> uploads[r].case, kind |-> uploads[r].kind, key |-> uploads[r].key, source |-> uploads[r].source]
             n == Len(evidence) + 1
             q == [uploads[r] EXCEPT !.step = "policy", !.source = n]
  <2>1. InHand(uploads[r], evidence, files) /\ uploads[r].step = "copy" /\ uploads[r] \in FileRequest
    BY <1>5, <1>uploads, <1>inv DEF Files!CopyEvidence, Files!At
  <2>2. row \in EvidenceRow
    BY <2>1 DEF InHand, FileRequest, EvidenceRow
  <2>3. row.source # 0 => row.source \in DOMAIN evidence /\ evidence[row.source].key = row.key
    BY <2>1 DEF InHand
  <2>4. row.key # Files!NoKey => row.key \in files /\ row.key.case = row.case
    BY <2>1, <1>inv DEF InHand, RowsGood
  <2>a. evidence' = Append(evidence, row) /\ UNCHANGED <<files, drawn, policies>>
    BY <1>5 DEF Files!CopyEvidence
  <2>6. row.case = uploads[r].case
    OBVIOUS
  <2> HIDE DEF row
  <2>b. Len(evidence') = n /\ n \in Nat /\ n \in DOMAIN evidence' /\ evidence'[n] = row
    BY <2>2, <2>a, <1>typ, AppendProperties, LenProperties
  <2>5. uploads' = [uploads EXCEPT ![r] = q]
    BY <2>b, <1>5, <1>uploads DEF Files!CopyEvidence
  <2> HIDE DEF n
  <2>7. q \in FileRequest /\ InHand(q, evidence', files)
    BY <2>b, <2>1, <2>6 DEF FileRequest, InHand
  <2> HIDE DEF q
  <2> QED BY <2>2, <2>3, <2>4, <2>5, <2>7, <2>a, <1>added
<1>6. ASSUME NEW r \in Uploaders, Files!CreatePolicy(r) PROVE FilesInv'
  <2> DEFINE row == [case |-> uploads[r].case, node |-> uploads[r].node, evidence |-> uploads[r].source,
                     limit |-> uploads[r].limit, confirmed |-> uploads[r].kind = "SINOSURE_CONFIRM"]
  <2>1. InHand(uploads[r], evidence, files) /\ uploads[r].step = "policy" /\ uploads[r] \in FileRequest
    BY <1>6, <1>uploads, <1>inv DEF Files!CreatePolicy, Files!At
  <2>2. /\ row \in PolicyRow /\ row.evidence \in DOMAIN evidence /\ evidence[row.evidence].case = row.case
    BY <2>1 DEF InHand, FileRequest, PolicyRow
  <2>3. policies' = Append(policies, row) /\ uploads' = [uploads EXCEPT ![r] = Files!Stopped] /\ UNCHANGED <<files, drawn, evidence>>
    BY <1>6 DEF Files!CreatePolicy, Files!Stop
  <2> HIDE DEF row
  <2>4. /\ policies' \in Seq(PolicyRow) /\ DOMAIN policies' = 1..(Len(policies) + 1)
        /\ \A i \in DOMAIN policies : policies'[i] = policies[i]
        /\ policies'[Len(policies) + 1] = row
    BY <2>2, <2>3, <1>typ, AppendProperties, LenProperties
  <2>5. uploads' \in [Uploaders -> FileRequest] /\ \A s \in Uploaders : InHand(uploads'[s], evidence', files')
    BY <2>3, <1>one, StoppedRequest
  <2>6. FilesTyped'
    BY <2>3, <2>4, <2>5, <1>typ DEF FilesTyped
  <2>7. \A i \in DOMAIN policies' : i \in DOMAIN policies \/ i = Len(policies) + 1
    BY <2>4, <1>typ
  <2>8. PoliciesGood'
    BY <2>2, <2>3, <2>4, <2>7, <1>inv DEF PoliciesGood
  <2>9. RowsGood'
    BY <2>3, <1>inv DEF RowsGood
  <2> QED BY <2>5, <2>6, <2>8, <2>9 DEF FilesInv
<1>7. ASSUME NEW r \in Uploaders, NEW c \in FileCases, NEW code \in {"N3", "N4"}, NEW form \in Files!Forms,
             Files!ReadPolicy(r, c, code, form)
      PROVE  FilesInv'
  <2>2. form.evidence \in Nat /\ form.limit \in Nat
    <3>1. PICK n \in Nat : n = Len(evidence)
      BY <1>typ
    <3>2. form.evidence \in 0..n
      BY <3>1 DEF Files!Forms
    <3>3. form.limit \in FileLimits
      BY DEF Files!Forms
    <3>4. FileLimits \subseteq Nat
      BY PapersAssumption DEF PapersAssumption
    <3>5. form.evidence \in Nat
      BY <3>2
    <3>6. form.limit \in Nat
      BY <3>3, <3>4
    <3> QED BY <3>5, <3>6
  <2> DEFINE prior == Files!Prior(c)
             link  == IF form.confirmed /\ form.evidence = 0 THEN policies[Files!Newest(prior)].evidence ELSE form.evidence
             limit == IF form.confirmed /\ form.limit = 0 THEN policies[Files!Newest(prior)].limit ELSE form.limit
             q == [step |-> "copy", case |-> c, node |-> code, limit |-> limit, source |-> link,
                   kind |-> IF form.confirmed THEN "SINOSURE_CONFIRM" ELSE "SINOSURE_POLICY",
                   key |-> IF link = 0 THEN Files!NoKey ELSE evidence[link].key]
  <2>1. form.confirmed => Files!Newest(prior) \in DOMAIN policies
    <3>1. PICK n \in Nat : n = Len(policies)
      BY <1>typ
    <3>2. prior \subseteq 1..n /\ (form.confirmed => prior # {})
      BY <1>7, <1>typ, <3>1 DEF Files!ReadPolicy, Files!Prior
    <3>3. DOMAIN policies = 1..n
      BY <1>typ, <3>1
    <3> HIDE DEF prior
    <3>4. prior \subseteq 0..n
      BY <3>2
    <3>5. prior # {} => \E i \in prior : \A j \in prior : j <= i
      BY <3>4, LastExists
    <3>6. prior # {} => Files!Newest(prior) \in prior
      BY <3>5 DEF Files!Newest
    <3> QED BY <3>2, <3>3, <3>6
  <2>3. link \in Nat /\ limit \in Nat
    BY <2>1, <2>2, <1>typ DEF PolicyRow
  <2>4. link # 0 => link \in Files!Linkable(c, code, form.confirmed)
    BY <1>7 DEF Files!ReadPolicy
  <2>5. uploads' = [uploads EXCEPT ![r] = q] /\ UNCHANGED <<files, drawn, evidence, policies>>
    BY <1>7 DEF Files!ReadPolicy
  <2> HIDE DEF link, limit
  <2>6. link # 0 => link \in DOMAIN evidence /\ evidence[link].case = c
    BY <2>4 DEF Files!Linkable
  <2>7. q \in FileRequest
    BY <2>3, <2>6, <1>typ DEF FileRequest, Kinds, EvidenceRow
  <2>8. InHand(q, evidence', files')
    BY <2>5, <2>6 DEF InHand
  <2> HIDE DEF q
  <2> QED BY <2>5, <2>7, <2>8, <1>typ, <1>one, <1>still
<1>8. CASE Files!Restart
  BY <1>8, <1>typ, <1>still, StoppedRequest DEF Files!Restart
<1> QED
  BY <1>1, <1>2, <1>3, <1>4, <1>5, <1>6, <1>7, <1>8 DEF Files!Next

-----------------------------------------------------------------------------
(* Vouchers.                                                               *)
SaleInv == DOMAIN contract = ContractFields /\ reworded \in BOOLEAN /\ VouchersOnlyInAdvance

(* The form's fields are the contract's, and cleaning them loses none.     *)
LEMMA SanitizedFields ==
  ASSUME NEW form, DOMAIN form = ContractFields
  PROVE  DOMAIN Papers!SanitizeSalesContractModeFields(form) = ContractFields
BY DEF Papers!SanitizeSalesContractModeFields

LEMMA FormFields ==
  ASSUME NEW form \in ContractForms
  PROVE  DOMAIN form = ContractFields
BY PapersAssumption DEF PapersAssumption

LEMMA SaleInit == Papers!Init => SaleInv
<1> SUFFICES ASSUME Papers!Init PROVE SaleInv
  OBVIOUS
<1>1. PICK a : contract = [incoterms |-> "CIF", timing |-> Papers!Blank, terms |-> "OPEN", port |-> Papers!Blank,
                           date |-> Papers!Blank, fobDate |-> Papers!Blank, share |-> FALSE, days |-> FALSE,
                           vouchers |-> Papers!Blank, amount |-> a, pickedUp |-> FALSE]
  BY DEF Papers!Init
<1>2. DOMAIN contract = ContractFields /\ contract.vouchers = Papers!Blank /\ reworded = FALSE
  BY <1>1 DEF ContractFields, Papers!Init
<1> QED
  BY <1>2 DEF SaleInv, VouchersOnlyInAdvance, Papers!VouchersOnlyInAdvance

(* A contract that keeps its terms and its vouchers, or has none.          *)
LEMMA SameTerms ==
  ASSUME SaleInv, DOMAIN contract' = ContractFields, contract'.vouchers = contract.vouchers,
         contract'.timing = contract.timing, contract'.terms = contract.terms,
         contract'.incoterms = contract.incoterms, reworded' = reworded
  PROVE  SaleInv'
BY DEF SaleInv, VouchersOnlyInAdvance, Papers!VouchersOnlyInAdvance

LEMMA SaleStep ==
  ASSUME SaleInv, NEW ports, NEW dates, NEW wordings, NEW amounts,
         Papers!Agree \/ Papers!Change(wordings, amounts) \/ Papers!Ship(ports, dates) \/ Papers!Collect
  PROVE  SaleInv'
<1>fields. DOMAIN contract = ContractFields /\ reworded \in BOOLEAN
  BY DEF SaleInv
<1>late. contract.vouchers # Papers!Blank => contract.timing # "AFTER"
  BY DEF SaleInv, VouchersOnlyInAdvance, Papers!VouchersOnlyInAdvance
<1>1. ASSUME NEW form \in ContractForms, Papers!SaveContract(form) PROVE SaleInv'
  <2> DEFINE asked == [form EXCEPT !.port = Papers!MergeOmitted(@, contract.port),
                                   !.date = Papers!MergeOmitted(Papers!ParseDate(@), contract.date),
                                   !.fobDate = Papers!MergeOmitted(@, contract.fobDate)]
             mode == Papers!SanitizeSalesContractModeFields(asked)
             vouchers == IF mode.timing = "ADVANCE" THEN Papers!MergeOmitted(mode.vouchers, contract.vouchers) ELSE Papers!Blank
  <2>1. DOMAIN asked = ContractFields
    BY FormFields
  <2>2. contract' = [mode EXCEPT !.vouchers = vouchers]
    BY <1>1 DEF Papers!SaveContract
  <2> HIDE DEF asked
  <2>3. DOMAIN mode = ContractFields
    BY <2>1, SanitizedFields
  <2> HIDE DEF mode
  <2>4. contract'.vouchers = vouchers /\ contract'.timing = mode.timing /\ DOMAIN contract' = ContractFields
    BY <2>2, <2>3 DEF ContractFields
  <2>5. contract'.vouchers # Papers!Blank => contract'.timing = "ADVANCE"
    BY <2>4
  <2>6. \A terms, incoterms : Papers!ResolveTtTiming("ADVANCE", terms, incoterms) = "ADVANCE"
    BY DEF Papers!ResolveTtTiming, Papers!Blank, Papers!Omitted
  <2>7. VouchersOnlyInAdvance'
    BY <2>5, <2>6 DEF VouchersOnlyInAdvance, Papers!VouchersOnlyInAdvance
  <2>8. reworded' = FALSE
    BY <1>1 DEF Papers!SaveContract
  <2> QED BY <2>4, <2>7, <2>8 DEF SaleInv
<1>2. ASSUME NEW vouchers, Papers!SaveAdvanceVouchers(vouchers) PROVE SaleInv'
  <2>1. contract' = [contract EXCEPT !.vouchers = vouchers]
    BY <1>2 DEF Papers!SaveAdvanceVouchers
  <2>2. /\ DOMAIN contract' = ContractFields
        /\ contract'.timing = contract.timing /\ contract'.terms = contract.terms
        /\ contract'.incoterms = contract.incoterms
    BY <2>1, <1>fields DEF ContractFields
  <2>3. Papers!ResolveTtTiming(contract.timing, contract.terms, contract.incoterms) = "ADVANCE" /\ reworded' = FALSE
    BY <1>2 DEF Papers!SaveAdvanceVouchers, Papers!PaysInAdvance
  <2>4. \A terms, incoterms : Papers!ResolveTtTiming("AFTER", terms, incoterms) = "AFTER"
    BY DEF Papers!ResolveTtTiming, Papers!Blank, Papers!Omitted
  <2>5. contract.timing # "AFTER"
    BY <2>3, <2>4
  <2> QED BY <2>2, <2>3, <2>5 DEF SaleInv, VouchersOnlyInAdvance, Papers!VouchersOnlyInAdvance
<1>3. ASSUME NEW i, NEW incoterms, NEW port, NEW date, NEW bl, Papers!SaveShipment(i, incoterms, port, date, bl)
      PROVE  SaleInv'
  <2>1. UNCHANGED contract \/ \E p, d : contract' = [contract EXCEPT !.port = p, !.date = d]
    BY <1>3 DEF Papers!SaveShipment
  <2>0. UNCHANGED reworded
    BY <1>3 DEF Papers!SaveShipment
  <2>2. CASE UNCHANGED contract
    BY <2>0, <2>2, <1>fields, SameTerms
  <2>3. ASSUME NEW p, NEW d, contract' = [contract EXCEPT !.port = p, !.date = d] PROVE SaleInv'
    <3>1. /\ DOMAIN contract' = ContractFields /\ contract'.vouchers = contract.vouchers
          /\ contract'.timing = contract.timing /\ contract'.terms = contract.terms
          /\ contract'.incoterms = contract.incoterms
      BY <2>3, <1>fields DEF ContractFields
    <3> QED BY <2>0, <3>1, SameTerms
  <2> QED BY <2>1, <2>2, <2>3
<1>4. CASE UNCHANGED <<contract, reworded>>
  BY <1>4, <1>fields, SameTerms
<1>5. Papers!Collect => UNCHANGED <<contract, reworded>>
  BY DEF Papers!Collect, Papers!SaveSettlement, Papers!SaveTaxRebate, Papers!DeclareTaxRebate
<1>6. ASSUME NEW terms, NEW price, Papers!ApplyChange(terms, price) PROVE SaleInv'
  <2>1. \E t, a : contract' = [contract EXCEPT !.terms = t, !.amount = a] /\ (terms = Papers!Omitted => t = contract.terms)
    BY <1>6 DEF Papers!ApplyChange, Papers!MergeOmitted
  <2>2. /\ DOMAIN contract' = ContractFields /\ contract'.vouchers = contract.vouchers
        /\ contract'.timing = contract.timing /\ contract'.incoterms = contract.incoterms
        /\ terms = Papers!Omitted => contract'.terms = contract.terms
    BY <2>1, <1>fields DEF ContractFields
  <2>3. reworded' = (reworded \/ terms # Papers!Omitted)
    BY <1>6 DEF Papers!ApplyChange
  <2>4. CASE terms = Papers!Omitted
    BY <2>2, <2>3, <2>4, <1>fields, SameTerms
  <2>5. CASE terms # Papers!Omitted
    BY <2>2, <2>3, <2>5, <1>late DEF SaleInv, VouchersOnlyInAdvance, Papers!VouchersOnlyInAdvance
  <2> QED BY <2>4, <2>5
<1> QED
  BY <1>1, <1>2, <1>3, <1>4, <1>5, <1>6 DEF Papers!Agree, Papers!Change, Papers!Ship

-----------------------------------------------------------------------------
(* Receipts.                                                               *)
(* A set put in order: each element once.                                  *)
LEMMA OrderIsBijection ==
  ASSUME NEW T, IsFiniteSet(T)
  PROVE  /\ Papers!SetToSeq(T) \in Bijection(1..Cardinality(T), T)
         /\ DOMAIN Papers!SetToSeq(T) = 1..Cardinality(T)
<1>1. Papers!Cardinality(T) = Cardinality(T)
  BY DEF Papers!Cardinality, Cardinality
<1>2. Cardinality(T) \in Nat /\ ExistsBijection(1..Cardinality(T), T)
  BY FS_CardinalityType
<1>3. PICK g : g \in Bijection(1..Cardinality(T), T)
  BY <1>2 DEF ExistsBijection
<1>4. g \in [1..Cardinality(T) -> T] /\ \A a, b \in 1..Cardinality(T) : g[a] = g[b] => a = b
  BY <1>3, Fun_BijectionProperties
<1> DEFINE h == Papers!SetToSeq(T)
<1>5. h \in [1..Cardinality(T) -> T] /\ \A a, b \in DOMAIN h : h[a] = h[b] => a = b
  <2>1. g \in [1..Papers!Cardinality(T) -> T] /\ Papers!IsInjective(g)
    BY <1>1, <1>4 DEF Papers!IsInjective
  <2>2. h \in [1..Papers!Cardinality(T) -> T] /\ Papers!IsInjective(h)
    BY <2>1 DEF Papers!SetToSeq
  <2> QED BY <1>1, <2>2 DEF Papers!IsInjective
<1> HIDE DEF h
<1>6. DOMAIN h = 1..Cardinality(T) /\ h \in Injection(1..Cardinality(T), T)
  BY <1>5, Fun_IsInj
<1>7. h \in Surjection(1..Cardinality(T), T)
  <2>1. Cardinality(1..Cardinality(T)) = Cardinality(T)
    BY <1>2, FS_Interval
  <2> QED BY <1>6, <2>1, FS_Injection
<1>8. h \in Bijection(1..Cardinality(T), T)
  BY <1>6, <1>7, Fun_IsBij
<1> QED BY <1>6, <1>8 DEF h

(* A sale takes nothing of the limit exactly when it is shown as paid.     *)
Settlement == [memo : BOOLEAN, arrived : BOOLEAN, amount : Nat \cup {NoAmount}]
Batch(b) ==
  /\ DOMAIN b = {"amount", "port", "date", "bl", "settlement"}
  /\ b.amount \in Nat \cup {NoAmount} /\ b.settlement \in Settlement
SalePaid ==
  /\ DOMAIN contract = ContractFields /\ contract.amount \in Nat \ {0}
  /\ IsFiniteSet(DOMAIN batches)
  /\ \A i \in DOMAIN batches : Batch(batches[i])

LEMMA ReceivedNat ==
  ASSUME SalePaid, NEW i \in DOMAIN batches
  PROVE  Papers!Received(i) \in Nat
<1>1. /\ batches[i].amount \in Nat \cup {NoAmount} /\ batches[i].settlement \in Settlement
      /\ contract.amount \in Nat
  BY DEF SalePaid, Batch
<1> QED BY <1>1 DEF Settlement, Papers!Received, Papers!ReceivedFenForBatch, Papers!ReceivedFenOf, Papers!NoAmount, NoAmount

(* The amounts a sale has received, in whatever order they are added.      *)
LEMMA ReceiptsAddUp ==
  ASSUME SalePaid
  PROVE  /\ Papers!AggregateRemittance.amount \in Nat
         /\ Papers!PortionsOf.open + Papers!PortionsOf.fulfilled
              = UnpaidFenOf(contract.amount, Papers!AggregateRemittance.amount)
<1> DEFINE I == DOMAIN batches
           f == [i \in I |-> Papers!Received(i)]
           order == Papers!SetToSeq(I)
           row(i) == [amount |-> batches[i].amount, received |-> Papers!Received(i),
                      shipped |-> Papers!BatchCountsAsShipped(batches[i])]
           rows == [n \in DOMAIN order |-> row(order[n])]
           g == [n \in DOMAIN rows |-> rows[n].received]
<1>1. Papers!AggregateRemittance.amount = SumOf(f, I)
  <2>1. Papers!MapThenSumSet(Papers!Received, I) = SumOf(f, I)
    BY DEF Papers!MapThenSumSet, Papers!MapThenFoldSet, SumOf, SumFcn, SumTo, Pick
  <2> HIDE DEF f, I
  <2> QED BY <2>1 DEF Papers!AggregateRemittance, I
<1>2. IsFiniteSet(I)
  BY DEF SalePaid
<1>3. order \in Bijection(1..Cardinality(I), I) /\ DOMAIN order = 1..Cardinality(I)
  BY <1>2, OrderIsBijection
<1> HIDE DEF order
<1>4. IsFiniteSet(DOMAIN order) /\ Cardinality(I) \in Nat
  BY <1>2, <1>3, FS_CardinalityType, FS_Interval
<1>5. \A n \in DOMAIN order : order[n] \in I
  <2>1. order \in [1..Cardinality(I) -> I]
    BY <1>3 DEF Bijection, Injection
  <2> QED BY <1>3, <2>1
<1>6. \A n \in DOMAIN rows : rows[n].amount \in Int /\ rows[n].received \in Nat
  BY <1>5, ReceivedNat DEF SalePaid, Batch, NoAmount
<1>7. SumOf(g, DOMAIN rows) = SumOf(f, I)
  <2>1. \A n \in DOMAIN order : g[n] \in Int /\ g[n] = f[order[n]]
    <3> SUFFICES ASSUME NEW n \in DOMAIN order PROVE g[n] \in Int /\ g[n] = f[order[n]]
      OBVIOUS
    <3>1. n \in DOMAIN rows /\ g[n] = rows[n].received
      OBVIOUS
    <3>2. rows[n].received = Papers!Received(order[n])
      OBVIOUS
    <3>3. f[order[n]] = Papers!Received(order[n])
      BY <1>5
    <3>4. rows[n].received \in Nat
      BY <1>6, <3>1
    <3> HIDE DEF g, f, rows
    <3> QED BY <3>1, <3>2, <3>3, <3>4
  <2>2. DOMAIN rows = DOMAIN order
    OBVIOUS
  <2> HIDE DEF g, f, rows
  <2> QED BY <2>1, <2>2, <1>2, <1>3, <1>4, SumOfRenamed
<1>8. Papers!PortionsOf = Papers!ContractOccupancyPortions(contract.amount, rows)
  BY DEF Papers!PortionsOf, order
<1>9. Papers!ContractOccupancyPortions(contract.amount, rows) = ContractOccupancyPortions(contract.amount, rows)
  BY DEF Papers!ContractOccupancyPortions, ContractOccupancyPortions, Papers!Total, Total, Papers!UnpaidFenOf,
         UnpaidFenOf, Papers!AtLeastZero, AtLeastZero, Papers!Least, Least, Papers!MapThenSumSet, MapThenSumSet,
         Papers!MapThenFoldSet, MapThenFoldSet
<1>10. contract.amount \in Int /\ IsFiniteSet(DOMAIN rows)
  BY <1>4 DEF SalePaid
<1> HIDE DEF rows
<1>11. /\ SumOf(g, DOMAIN rows) \in Nat
       /\ ContractOccupancyPortions(contract.amount, rows).open
            + ContractOccupancyPortions(contract.amount, rows).fulfilled
            = UnpaidFenOf(contract.amount, SumOf(g, DOMAIN rows))
  BY <1>6, <1>10, PortionsAddUp
<1> HIDE DEF g, f
<1> QED BY <1>1, <1>7, <1>8, <1>9, <1>11

LEMMA PaidFollows == SalePaid => RemittanceAgreesWithOccupancy
<1> SUFFICES ASSUME SalePaid PROVE RemittanceAgreesWithOccupancy
  OBVIOUS
<1>1. PICK sum \in Nat : sum = Papers!AggregateRemittance.amount
  BY ReceiptsAddUp
<1>2. Papers!PortionsOf.open + Papers!PortionsOf.fulfilled = UnpaidFenOf(contract.amount, sum)
  BY <1>1, ReceiptsAddUp
<1>3. contract.amount \in Nat \ {0}
  BY DEF SalePaid
<1>4. Papers!IsSalesRemittanceComplete <=> sum > 0 /\ UnpaidFenOf(contract.amount, sum) = 0
  <2>1. Papers!IsSalesRemittanceComplete <=>
          Papers!IsSettlementPaid([arrived |-> sum > 0, memo |-> sum > 0, amount |-> sum], contract.amount)
    BY <1>1 DEF Papers!IsSalesRemittanceComplete
  <2>2. (sum > 0) = TRUE \/ (sum > 0) = FALSE
    OBVIOUS
  <2>3. Papers!UnpaidFenOf(contract.amount, sum) = UnpaidFenOf(contract.amount, sum)
    BY DEF Papers!UnpaidFenOf, UnpaidFenOf, Papers!AtLeastZero, AtLeastZero
  <2>4. CASE (sum > 0) = TRUE
    <3>1. Papers!IsSalesRemittanceComplete <=>
            Papers!IsSettlementPaid([arrived |-> TRUE, memo |-> TRUE, amount |-> sum], contract.amount)
      BY <2>1, <2>4
    <3> QED BY <3>1, <2>3, <2>4 DEF Papers!IsSettlementPaid, Papers!ReceivedFenOf, Papers!NoAmount
  <2>5. CASE (sum > 0) = FALSE
    <3>1. Papers!IsSalesRemittanceComplete <=>
            Papers!IsSettlementPaid([arrived |-> FALSE, memo |-> FALSE, amount |-> sum], contract.amount)
      BY <2>1, <2>5
    <3> QED BY <3>1, <2>5 DEF Papers!IsSettlementPaid
  <2> QED BY <2>2, <2>4, <2>5
<1> QED BY <1>2, <1>3, <1>4 DEF RemittanceAgreesWithOccupancy, Papers!RemittanceAgreesWithOccupancy, UnpaidFenOf, AtLeastZero

LEMMA PaidInit == Papers!Init => SalePaid
<1> SUFFICES ASSUME Papers!Init PROVE SalePaid
  OBVIOUS
<1>1. PICK ids \in BatchSets, a \in SaleAmounts :
        /\ \E own \in [ids -> IF Papers!Cardinality(ids) = 1 THEN {a} ELSE {a, Portion, Papers!NoAmount}] :
             batches = [i \in ids |-> [amount |-> own[i], port |-> Papers!Blank, date |-> Papers!Blank, bl |-> FALSE,
                                       settlement |-> Papers!NoSettlement]]
        /\ contract = [incoterms |-> "CIF", timing |-> Papers!Blank, terms |-> "OPEN", port |-> Papers!Blank,
                       date |-> Papers!Blank, fobDate |-> Papers!Blank, share |-> FALSE, days |-> FALSE,
                       vouchers |-> Papers!Blank, amount |-> a, pickedUp |-> FALSE]
  BY DEF Papers!Init
<1>6. PICK own : /\ \A i \in ids : own[i] \in {a, Portion, Papers!NoAmount}
                 /\ batches = [i \in ids |-> [amount |-> own[i], port |-> Papers!Blank, date |-> Papers!Blank,
                                              bl |-> FALSE, settlement |-> Papers!NoSettlement]]
  BY <1>1
<1>2. a \in Nat \ {0} /\ Portion \in Nat /\ IsFiniteSet(ids)
  BY PapersAssumption DEF PapersAssumption
<1>3. Papers!NoSettlement \in Settlement
  BY DEF Papers!NoSettlement, Settlement, Papers!NoAmount, NoAmount
<1>4. DOMAIN contract = ContractFields /\ contract.amount = a
  BY <1>1 DEF ContractFields
<1>5. DOMAIN batches = ids /\ \A i \in ids : Batch(batches[i])
  BY <1>2, <1>3, <1>6 DEF Batch, Papers!NoAmount, NoAmount
<1> QED BY <1>2, <1>4, <1>5 DEF SalePaid

LEMMA PaidStep ==
  ASSUME SalePaid, NEW ports, NEW dates, NEW wordings, NEW amounts \in SUBSET SaleAmounts,
         Papers!Agree \/ Papers!Change(wordings, amounts) \/ Papers!Ship(ports, dates) \/ Papers!Collect
  PROVE  SalePaid'
<1>typ. /\ DOMAIN contract = ContractFields /\ contract.amount \in Nat \ {0}
        /\ IsFiniteSet(DOMAIN batches)
        /\ \A i \in DOMAIN batches : Batch(batches[i])
  BY DEF SalePaid
<1> DEFINE Rows == \E i \in DOMAIN batches : \E b : Batch(b) /\ batches' = [batches EXCEPT ![i] = b]
<1>rows. Rows => IsFiniteSet(DOMAIN batches') /\ \A i \in DOMAIN batches' : Batch(batches'[i])
  <2> SUFFICES ASSUME NEW i \in DOMAIN batches, NEW b, Batch(b), batches' = [batches EXCEPT ![i] = b]
               PROVE  IsFiniteSet(DOMAIN batches') /\ \A j \in DOMAIN batches' : Batch(batches'[j])
    OBVIOUS
  <2>1. DOMAIN batches' = DOMAIN batches
    OBVIOUS
  <2>2. \A j \in DOMAIN batches : batches'[j] = IF j = i THEN b ELSE batches[j]
    OBVIOUS
  <2> QED BY <2>1, <2>2, <1>typ
<1>sole. ASSUME NEW total \in Nat, Papers!SyncSoleBatchFromContract(total)
         PROVE  IsFiniteSet(DOMAIN batches') /\ \A i \in DOMAIN batches' : Batch(batches'[i])
  <2>1. CASE UNCHANGED batches
    BY <2>1, <1>typ
  <2>2. CASE batches' = [i \in DOMAIN batches |-> [batches[i] EXCEPT !.amount = total]]
    <3>1. DOMAIN batches' = DOMAIN batches
      BY <2>2
    <3>2. ASSUME NEW i \in DOMAIN batches PROVE Batch(batches'[i])
      <4>1. batches'[i] = [batches[i] EXCEPT !.amount = total]
        BY <2>2
      <4> QED BY <4>1, <1>typ DEF Batch
    <3> QED BY <3>1, <3>2, <1>typ
  <2> QED BY <1>sole, <2>1, <2>2 DEF Papers!SyncSoleBatchFromContract
<1>1. ASSUME NEW form \in ContractForms, Papers!SaveContract(form) PROVE SalePaid'
  <2> DEFINE asked == [form EXCEPT !.port = Papers!MergeOmitted(@, contract.port),
                                   !.date = Papers!MergeOmitted(Papers!ParseDate(@), contract.date),
                                   !.fobDate = Papers!MergeOmitted(@, contract.fobDate)]
             mode == Papers!SanitizeSalesContractModeFields(asked)
  <2>1. DOMAIN form = ContractFields /\ form.amount \in Nat \ {0}
    BY PapersAssumption DEF PapersAssumption
  <2>2. DOMAIN asked = ContractFields /\ asked.amount = form.amount
    BY <2>1 DEF ContractFields
  <2>3. (\E v : contract' = [mode EXCEPT !.vouchers = v]) /\ Papers!SyncSoleBatchFromContract(mode.amount)
    BY <1>1 DEF Papers!SaveContract
  <2> HIDE DEF asked
  <2>4. DOMAIN mode = ContractFields /\ mode.amount = form.amount
    <3>1. DOMAIN mode = ContractFields
      BY <2>2, SanitizedFields
    <3>2. mode.amount = asked.amount
      BY <2>2 DEF Papers!SanitizeSalesContractModeFields, ContractFields
    <3> QED BY <3>1, <3>2, <2>2
  <2> HIDE DEF mode
  <2>5. DOMAIN contract' = ContractFields /\ contract'.amount = form.amount
    BY <2>3, <2>4 DEF ContractFields
  <2>6. IsFiniteSet(DOMAIN batches') /\ \A i \in DOMAIN batches' : Batch(batches'[i])
    BY <2>1, <2>3, <2>4, <1>sole
  <2> QED BY <2>1, <2>5, <2>6 DEF SalePaid
<1>2. ASSUME NEW vouchers, Papers!SaveAdvanceVouchers(vouchers) PROVE SalePaid'
  <2>1. contract' = [contract EXCEPT !.vouchers = vouchers] /\ UNCHANGED batches
    BY <1>2 DEF Papers!SaveAdvanceVouchers
  <2>2. DOMAIN contract' = ContractFields /\ contract'.amount = contract.amount
    BY <2>1, <1>typ DEF ContractFields
  <2> QED BY <2>1, <2>2, <1>typ DEF SalePaid
<1>3. ASSUME NEW i \in DOMAIN batches, NEW incoterms, NEW port, NEW date, NEW bl,
             Papers!SaveShipment(i, incoterms, port, date, bl)
      PROVE  SalePaid'
  <2>1. PICK p, d : batches' = [batches EXCEPT ![i].bl = bl, ![i].port = p, ![i].date = d]
    BY <1>3 DEF Papers!SaveShipment
  <2>2. UNCHANGED contract \/ \E p1, d1 : contract' = [contract EXCEPT !.port = p1, !.date = d1]
    BY <1>3 DEF Papers!SaveShipment
  <2>3. DOMAIN contract' = ContractFields /\ contract'.amount = contract.amount
    BY <2>2, <1>typ DEF ContractFields
  <2> DEFINE b == [[[batches[i] EXCEPT !.bl = bl] EXCEPT !.port = p] EXCEPT !.date = d]
  <2>4. batches' = [batches EXCEPT ![i] = b]
    BY <2>1
  <2>5. Batch(b)
    BY <1>typ DEF Batch
  <2> QED BY <2>3, <2>4, <2>5, <1>rows, <1>typ DEF SalePaid
<1>4. ASSUME NEW i \in DOMAIN batches, NEW memo \in BOOLEAN, NEW arrived \in BOOLEAN,
             NEW amt \in SaleAmounts \cup {Papers!NoAmount}, Papers!SaveSettlement(i, memo, arrived, amt)
      PROVE  SalePaid'
  <2> DEFINE st == batches[i].settlement
             s1 == [memo |-> memo, arrived |-> arrived \/ st.arrived \/ memo,
                    amount |-> IF amt = Papers!NoAmount THEN st.amount ELSE amt]
             b == [batches[i] EXCEPT !.settlement = s1]
  <2>1. batches' = [batches EXCEPT ![i] = b] /\ UNCHANGED contract
    BY <1>4 DEF Papers!SaveSettlement
  <2>2. s1 \in Settlement
    <3>1. st \in Settlement
      BY <1>typ DEF Batch
    <3>2. amt = Papers!NoAmount \/ amt \in Nat
      BY PapersAssumption DEF PapersAssumption
    <3>3. (arrived \/ st.arrived \/ memo) \in BOOLEAN
      OBVIOUS
    <3> QED BY <3>1, <3>2, <3>3 DEF Settlement
  <2> HIDE DEF s1
  <2>3. Batch(b)
    BY <2>2, <1>typ DEF Batch
  <2> QED BY <2>1, <2>3, <1>rows, <1>typ DEF SalePaid
<1>5. CASE UNCHANGED <<contract, batches>>
  BY <1>5, <1>typ DEF SalePaid
<1>6. ASSUME NEW terms, NEW total \in amounts \cup {Papers!NoAmount}, Papers!ApplyChange(terms, total) PROVE SalePaid'
  <2> DEFINE a == IF total = Papers!NoAmount THEN contract.amount ELSE total
  <2>1. a \in Nat \ {0}
    BY <1>typ, PapersAssumption DEF PapersAssumption
  <2>2. \E t : contract' = [contract EXCEPT !.terms = t, !.amount = a]
    BY <1>6 DEF Papers!ApplyChange
  <2> HIDE DEF a
  <2>3. DOMAIN contract' = ContractFields /\ contract'.amount = a
    BY <2>2, <1>typ DEF ContractFields
  <2>4. Papers!SyncSoleBatchFromContract(a)
    BY <1>6, <2>3 DEF Papers!ApplyChange
  <2>5. IsFiniteSet(DOMAIN batches') /\ \A i \in DOMAIN batches' : Batch(batches'[i])
    BY <2>1, <2>4, <1>sole
  <2> QED BY <2>1, <2>3, <2>5 DEF SalePaid
<1> QED
  BY <1>1, <1>2, <1>3, <1>4, <1>5, <1>6 DEF Papers!Agree, Papers!Change, Papers!Ship, Papers!Collect, Papers!SaveTaxRebate, Papers!DeclareTaxRebate

-----------------------------------------------------------------------------
(* A list of instalments, as a form or a stored plan holds it.             *)
ItemFields == {"seq", "bps", "amount", "due", "inWords", "paid", "paidAt"}
Item(r) ==
  /\ DOMAIN r = ItemFields
  /\ r.seq \in Nat /\ r.bps \in NatOrBlank /\ r.amount \in NatOrBlank /\ r.due \in Nat /\ r.paid \in NatOrBlank
Items(rows) == \E n \in Nat : DOMAIN rows = 1..n /\ rows \in Seq(Range(rows)) /\ \A i \in 1..n : Item(rows[i])

LEMMA LenIs ==
  ASSUME NEW n \in Nat, NEW f, f \in Seq(Range(f)), DOMAIN f = 1..n
  PROVE  Len(f) = n
OBVIOUS

LEMMA ListOf ==
  ASSUME NEW n \in Nat, NEW f, f = [i \in 1..n |-> f[i]]
  PROVE  f \in Seq(Range(f)) /\ Len(f) = n /\ DOMAIN f = 1..n
<1>1. f \in [1..n -> Range(f)]
  BY DEF Range
<1>2. f \in Seq(Range(f))
  BY <1>1
<1>3. DOMAIN f = 1..n
  BY <1>1
<1> QED BY <1>2, <1>3

(* The order of the rows: a row has one place, and every place has a row.  *)
Before(items, j, i) == items[j].seq < items[i].seq \/ (items[j].seq = items[i].seq /\ j <= i)
Place(items, i) == Cardinality({j \in DOMAIN items : Before(items, j, i)})

LEMMA PlacesTaken ==
  ASSUME NEW n \in Nat, NEW items, DOMAIN items = 1..n, \A i \in 1..n : items[i].seq \in Nat
  PROVE  \A k \in 1..n : \E i \in 1..n : Place(items, i) = k
<1> DEFINE D == 1..n
           Up(i) == {j \in D : Before(items, j, i)}
           p == [i \in D |-> Place(items, i)]
<1>1. IsFiniteSet(D) /\ Cardinality(D) = n
  BY FS_Interval
<1>2. ASSUME NEW i \in D
      PROVE  IsFiniteSet(Up(i)) /\ Cardinality(Up(i)) \in 1..n /\ p[i] = Cardinality(Up(i))
  <2>1. Up(i) \subseteq D /\ i \in Up(i)
    BY DEF Before
  <2>2. IsFiniteSet(Up(i)) /\ Cardinality(Up(i)) <= n /\ Cardinality(Up(i)) \in Nat
    BY <1>1, <2>1, FS_Subset, FS_CardinalityType
  <2>3. Cardinality(Up(i)) # 0
    BY <2>1, <2>2, FS_EmptySet
  <2>4. p[i] = Cardinality(Up(i))
    BY DEF Place
  <2> QED BY <2>2, <2>3, <2>4
<1>3. ASSUME NEW i \in D, NEW j \in D, i # j, Before(items, i, j)
      PROVE  p[i] # p[j]
  <2>1. Up(i) \subseteq Up(j) /\ j \in Up(j) /\ j \notin Up(i)
    BY <1>3 DEF Before
  <2>2. Cardinality(Up(i)) < Cardinality(Up(j))
    <3>1. Up(i) # Up(j) /\ Up(i) \in SUBSET Up(j)
      BY <2>1
    <3> HIDE DEF Up
    <3> QED BY <1>2, <3>1, FS_Subset
  <2>3. /\ p[i] = Cardinality(Up(i)) /\ Cardinality(Up(i)) \in 1..n
        /\ p[j] = Cardinality(Up(j)) /\ Cardinality(Up(j)) \in 1..n
    BY <1>2
  <2> HIDE DEF p, Up
  <2> QED BY <2>2, <2>3
<1>4. \A i, j \in D : i # j => Before(items, i, j) \/ Before(items, j, i)
  BY DEF Before
<1>5. \A i, j \in D : p[i] = p[j] => i = j
  BY <1>3, <1>4
<1>6. p \in Injection(D, D)
  <2>1. p \in [D -> D]
    BY <1>2
  <2> HIDE DEF p, D
  <2> QED BY <1>5, <2>1, Fun_IsInj
<1>7. p \in Surjection(D, D)
  BY <1>1, <1>6, FS_Injection
<1>8. \A k \in D : \E i \in D : p[i] = k
  BY <1>7 DEF Surjection
<1> QED BY <1>8

LEMMA InOrderIs ==
  ASSUME NEW items
  PROVE  Purchase!InOrder(items) =
           [k \in 1..Len(items) |-> items[CHOOSE i \in DOMAIN items : Place(items, i) = k]]
BY DEF Purchase!InOrder, Place, Before, Purchase!Cardinality, Cardinality

LEMMA OrderKeepsItems ==
  ASSUME NEW items, Items(items)
  PROVE  /\ Items(Purchase!InOrder(items)) /\ Len(Purchase!InOrder(items)) = Len(items)
         /\ Len(items) \in Nat /\ DOMAIN items = 1..Len(items)
         /\ \A k \in 1..Len(items) : \E i \in 1..Len(items) : Purchase!InOrder(items)[k] = items[i]
         /\ (\A i \in 1..Len(items) : items[i].seq = i) => Purchase!InOrder(items) = items
<1>1. PICK n \in Nat : DOMAIN items = 1..n /\ items \in Seq(Range(items)) /\ \A i \in 1..n : Item(items[i])
  BY DEF Items
<1>2. Len(items) = n
  BY <1>1
<1>3. \A k \in 1..n : \E i \in 1..n : Place(items, i) = k
  <2>1. \A i \in 1..n : items[i].seq \in Nat
    BY <1>1 DEF Item
  <2> QED BY <1>1, <2>1, PlacesTaken
<1> DEFINE rows == Purchase!InOrder(items)
           at(k) == CHOOSE i \in DOMAIN items : Place(items, i) = k
<1>4. rows = [k \in 1..n |-> items[at(k)]]
  BY <1>2, InOrderIs
<1>5. ASSUME NEW k \in 1..n PROVE at(k) \in 1..n /\ Place(items, at(k)) = k
  BY <1>1, <1>3
<1> HIDE DEF rows
<1>6. rows \in Seq(Range(rows)) /\ Len(rows) = n /\ DOMAIN rows = 1..n
  <2>1. rows = [k \in 1..n |-> rows[k]]
    BY <1>4
  <2> QED BY <2>1, ListOf
<1>7. \A k \in 1..n : Item(rows[k])
  BY <1>1, <1>4, <1>5
<1>8. ASSUME \A i \in 1..n : items[i].seq = i PROVE rows = items
  <2>1. \A i \in 1..n : Place(items, i) = i
    <3> SUFFICES ASSUME NEW i \in 1..n PROVE Place(items, i) = i
      OBVIOUS
    <3>1. {j \in DOMAIN items : Before(items, j, i)} = 1..i
      BY <1>1, <1>8 DEF Before
    <3>2. Place(items, i) = Cardinality(1..i)
      BY <3>1 DEF Place
    <3>3. i \in Int /\ 1 \in Int /\ ~(1 > i) /\ i - 1 + 1 = i
      OBVIOUS
    <3>4. Cardinality(1..i) = i - 1 + 1
      BY <3>3, FS_Interval
    <3> QED BY <3>2, <3>3, <3>4
  <2>2. \A k \in 1..n : at(k) = k
    BY <1>5, <2>1
  <2>3. items = [k \in 1..n |-> items[k]]
    BY <1>1
  <2> QED BY <1>4, <2>2, <2>3
<1>9. Items(rows)
  BY <1>6, <1>7 DEF Items
<1>10. \A k \in 1..n : \E i \in 1..n : rows[k] = items[i]
  BY <1>4, <1>5
<1> QED BY <1>1, <1>2, <1>6, <1>8, <1>9, <1>10 DEF rows

(* What a row is due, all by itself or as the last of its list.            *)
Alone(total, row) ==
  CASE row.bps # Blank /\ total > 0 -> Rounded(total * row.bps, Whole)
    [] (row.bps = Blank \/ total <= 0) /\ row.amount # Blank -> NotNegative(row.amount)
    [] OTHER -> 0
Others(total, rows, n) == [j \in 1..(n - 1) |-> Alone(total, rows[j])]
Due(total, rows, n, i) ==
  IF i = n /\ total > 0 THEN NotNegative(total - SumOf(Others(total, rows, n), 1..(n - 1))) ELSE Alone(total, rows[i])
Resolved(total, row, i, due) ==
  [row EXCEPT !.seq = i, !.amount = due, !.paid = NotNegative(@),
              !.bps = IF @ # Blank THEN @ ELSE IF total > 0 THEN Rounded(due * Whole, total) ELSE Blank]

LEMMA ScheduleIs ==
  ASSUME NEW total \in Int, NEW items, Items(items)
  PROVE  LET n == Len(items)
             rows == Purchase!InOrder(items)
         IN Purchase!ResolveSchedule(total, items)
              = [i \in 1..n |-> Resolved(total, rows[i], i, Due(total, rows, n, i))]
<1> DEFINE n == Len(items)
           rows == Purchase!InOrder(items)
           sub == SubSeq(rows, 1, Len(rows) - 1)
           g == [j \in DOMAIN sub |-> Alone(total, sub[j])]
           given(i) == IF i = n /\ total > 0 THEN NotNegative(total - SumOf(g, DOMAIN sub)) ELSE Alone(total, rows[i])
<1>1. n \in Nat /\ Len(rows) = n /\ rows \in Seq(Range(rows)) /\ DOMAIN rows = 1..n
  BY OrderKeepsItems DEF Items
<1> HIDE DEF rows, n
<1>2. Purchase!ResolveSchedule(total, items) = [i \in 1..n |-> Resolved(total, rows[i], i, given(i))]
  <2>1. Purchase!MapThenSumSet(LAMBDA j : Alone(total, sub[j]), DOMAIN sub) = SumOf(g, DOMAIN sub)
    <3> HIDE DEF sub
    <3> QED BY DEF Purchase!MapThenSumSet, Purchase!MapThenFoldSet, SumOf, SumFcn, SumTo, Pick
  <2>2. Purchase!TotalOf(sub, LAMBDA row : Alone(total, row)) = SumOf(g, DOMAIN sub)
    <3> HIDE DEF sub, g
    <3> QED BY <2>1 DEF Purchase!TotalOf
  <2> HIDE DEF g
  <2>3. Purchase!ResolveSchedule(total, items) =
          LET due(i) == IF i = Len(rows) /\ total > 0
                        THEN NotNegative(total - Purchase!TotalOf(sub, LAMBDA row : Alone(total, row)))
                        ELSE Alone(total, rows[i])
          IN [i \in 1..Len(rows) |-> Resolved(total, rows[i], i, due(i))]
    BY DEF Purchase!ResolveSchedule, rows, Resolved, Alone, Purchase!Rounded, Rounded, Purchase!NotNegative,
           NotNegative, Purchase!Blank, Blank, Purchase!Whole, Whole, Purchase!TotalOf, Purchase!MapThenSumSet,
           Purchase!MapThenFoldSet
  <2> HIDE DEF sub
  <2> QED BY <2>2, <2>3, <1>1
<1>3. ASSUME NEW i \in 1..n PROVE given(i) = Due(total, rows, n, i)
  <2>1. DOMAIN sub = 1..(n - 1) /\ \A j \in 1..(n - 1) : sub[j] = rows[j]
    BY <1>1
  <2>2. SumOf(g, 1..(n - 1)) = SumOf(Others(total, rows, n), 1..(n - 1))
    <3>1. \A j \in 1..(n - 1) : g[j] = Others(total, rows, n)[j]
      BY <2>1 DEF Others
    <3>2. IsFiniteSet(1..(n - 1))
      BY <1>1, FS_Interval
    <3> HIDE DEF g, sub
    <3> QED BY <3>1, <3>2, SumOfSame
  <2> HIDE DEF g, sub
  <2> QED BY <2>1, <2>2 DEF Due
<1> HIDE DEF given
<1> QED BY <1>2, <1>3 DEF rows, n

LEMMA RoundedNat ==
  ASSUME NEW n \in Nat, NEW d \in Nat \ {0}
  PROVE  Rounded(n, d) \in Nat
<1> DEFINE a == 2 * n + d
           b == 2 * d
<1>1. a \in Nat /\ b \in Nat /\ b > 0
  OBVIOUS
<1> HIDE DEF a, b
<1>2. a \div b \in Nat
  BY <1>1
<1> QED BY <1>2 DEF a, b, Rounded

LEMMA AloneNat ==
  ASSUME NEW total \in Int, NEW row, Item(row)
  PROVE  Alone(total, row) \in Nat
<1>1. row.bps \in NatOrBlank /\ row.amount \in NatOrBlank
  BY DEF Item
<1>2. CASE row.bps # Blank /\ total > 0
  <2>1. row.bps \in Nat /\ total \in Nat
    BY <1>1, <1>2 DEF NatOrBlank
  <2>2. total * row.bps \in Nat
    BY <2>1
  <2>3. Rounded(total * row.bps, Whole) \in Nat
    BY <2>2, RoundedNat DEF Whole
  <2> QED BY <1>2, <2>3 DEF Alone
<1>3. CASE ~(row.bps # Blank /\ total > 0)
  BY <1>1, <1>3 DEF Alone, NatOrBlank, NotNegative, Blank
<1> QED BY <1>2, <1>3

DuesNat(total, rows, n) ==
  /\ \A i \in 1..n : Due(total, rows, n, i) \in Nat
  /\ SumOf(Others(total, rows, n), 1..(n - 1)) \in Nat

LEMMA DueNat ==
  ASSUME NEW total \in Int, NEW n \in Nat, NEW rows, \A i \in 1..n : Item(rows[i])
  PROVE  DuesNat(total, rows, n)
<1>1. \A j \in 1..(n - 1) : Others(total, rows, n)[j] \in Nat
  BY AloneNat DEF Others
<1>2. IsFiniteSet(1..(n - 1))
  BY FS_Interval
<1>3. SumOf(Others(total, rows, n), 1..(n - 1)) \in Nat
  BY <1>1, <1>2, SumOfNat
<1>4. \A i \in 1..n : Alone(total, rows[i]) \in Nat
  BY AloneNat
<1>5. PICK m \in Nat : m = SumOf(Others(total, rows, n), 1..(n - 1))
  BY <1>3
<1> QED BY <1>4, <1>5 DEF DuesNat, Due, NotNegative

(* A stored list: numbered, every amount what resolving it again makes it, *)
(* every row with a share unless it is alone.                              *)
Shared(rows) == Len(rows) > 1 => \A i \in DOMAIN rows : rows[i].bps # Blank
Stored(total, rows) ==
  /\ Items(rows) /\ Shared(rows)
  /\ \A i \in DOMAIN rows :
       /\ rows[i].seq = i /\ rows[i].paid \in Nat
       /\ rows[i].amount \in Nat /\ rows[i].amount = Due(total, rows, Len(rows), i)

RowIs(r, row, i, due) ==
  /\ Item(r) /\ r.seq = i /\ r.amount = due /\ r.paid = NotNegative(row.paid) /\ r.paid \in Nat
  /\ r.due = row.due /\ (row.bps # Blank => r.bps = row.bps)

LEMMA ResolvedRow ==
  ASSUME NEW total \in Int, NEW row, Item(row), NEW i \in Nat, NEW due \in Nat,
         NEW r, r = Resolved(total, row, i, due)
  PROVE  RowIs(r, row, i, due)
<1> DEFINE bps == IF row.bps # Blank THEN row.bps ELSE IF total > 0 THEN Rounded(due * Whole, total) ELSE Blank
<1>1. row.paid \in NatOrBlank /\ row.bps \in NatOrBlank /\ row.due \in Nat
  BY DEF Item
<1>2. bps \in NatOrBlank
  <2>1. CASE row.bps = Blank /\ total > 0
    <3>1. due * Whole \in Nat /\ total \in Nat \ {0}
      BY <2>1 DEF Whole
    <3> QED BY <2>1, <3>1, RoundedNat DEF NatOrBlank
  <2>2. CASE ~(row.bps = Blank /\ total > 0)
    BY <2>2, <1>1 DEF NatOrBlank
  <2> QED BY <2>1, <2>2
<1>3. /\ DOMAIN r = ItemFields /\ r.seq = i /\ r.amount = due /\ r.paid = NotNegative(row.paid)
      /\ r.due = row.due /\ r.bps = bps
  BY DEF Resolved, Item, ItemFields
<1>4. r.paid \in Nat
  BY <1>1, <1>3 DEF NotNegative, NatOrBlank, Blank
<1>5. Item(r)
  <2> HIDE DEF bps
  <2> QED BY <1>1, <1>2, <1>3, <1>4 DEF Item, NatOrBlank
<1>6. row.bps # Blank => r.bps = row.bps
  BY <1>3
<1> QED BY <1>3, <1>4, <1>5, <1>6 DEF RowIs

LEMMA ResolvedIsStored ==
  ASSUME NEW total \in Int, NEW items, Items(items), Shared(items)
  PROVE  LET rows == Purchase!ResolveSchedule(total, items)
         IN /\ Stored(total, rows) /\ Len(rows) = Len(items)
            /\ (\A i \in 1..Len(items) : items[i].seq = i) =>
                 \A i \in 1..Len(items) : rows[i].paid = NotNegative(items[i].paid) /\ rows[i].due = items[i].due
<1> DEFINE n == Len(items)
           sorted == Purchase!InOrder(items)
           rows == Purchase!ResolveSchedule(total, items)
<1>1. /\ Items(sorted) /\ Len(sorted) = n /\ n \in Nat /\ DOMAIN items = 1..n
      /\ \A k \in 1..n : \E i \in 1..n : sorted[k] = items[i]
      /\ (\A i \in 1..n : items[i].seq = i) => sorted = items
  BY OrderKeepsItems
<1>2. rows = [i \in 1..n |-> Resolved(total, sorted[i], i, Due(total, sorted, n, i))]
  BY ScheduleIs
<1> HIDE DEF rows, sorted, n
<1>3. rows \in Seq(Range(rows)) /\ Len(rows) = n /\ DOMAIN rows = 1..n
  <2>1. rows = [k \in 1..n |-> rows[k]]
    BY <1>2
  <2> QED BY <1>1, <2>1, ListOf
<1>4. \A i \in 1..n : Item(sorted[i])
  BY <1>1 DEF Items
<1>5. ASSUME NEW i \in 1..n
      PROVE  /\ Item(rows[i]) /\ rows[i].seq = i /\ rows[i].amount = Due(total, sorted, n, i) /\ rows[i].amount \in Nat
             /\ rows[i].paid = NotNegative(sorted[i].paid) /\ rows[i].paid \in Nat /\ rows[i].due = sorted[i].due
             /\ (sorted[i].bps # Blank => rows[i].bps = sorted[i].bps)
  <2>1. Due(total, sorted, n, i) \in Nat
    BY <1>1, <1>4, DueNat DEF DuesNat
  <2>2. Item(sorted[i]) /\ i \in Nat
    BY <1>4
  <2>3. rows[i] = Resolved(total, sorted[i], i, Due(total, sorted, n, i))
    BY <1>2
  <2>4. RowIs(rows[i], sorted[i], i, Due(total, sorted, n, i))
    BY <2>1, <2>2, <2>3, ResolvedRow
  <2> QED BY <2>1, <2>4 DEF RowIs
<1>6. n > 1 => \A i \in 1..n : sorted[i].bps # Blank /\ rows[i].bps = sorted[i].bps
  <2>1. n > 1 => \A k \in 1..n : items[k].bps # Blank
    BY <1>1 DEF Shared, n
  <2> SUFFICES ASSUME n > 1, NEW i \in 1..n PROVE sorted[i].bps # Blank /\ rows[i].bps = sorted[i].bps
    OBVIOUS
  <2>2. PICK k \in 1..n : sorted[i] = items[k]
    BY <1>1
  <2>3. sorted[i].bps # Blank
    BY <2>1, <2>2
  <2>4. sorted[i].bps # Blank => rows[i].bps = sorted[i].bps
    BY <1>5
  <2> QED BY <2>3, <2>4
<1>7. Items(rows) /\ Shared(rows)
  BY <1>1, <1>3, <1>5, <1>6 DEF Items, Shared
<1>8. ASSUME NEW i \in 1..n, i < n \/ total <= 0 PROVE Alone(total, rows[i]) = Alone(total, sorted[i])
  <2>1. CASE total > 0
    <3>1. n > 1
      BY <1>1, <1>8, <2>1
    <3>2. sorted[i].bps # Blank /\ rows[i].bps = sorted[i].bps
      BY <1>6, <3>1
    <3>3. \A row : row.bps # Blank => Alone(total, row) = Rounded(total * row.bps, Whole)
      BY <2>1 DEF Alone
    <3> QED BY <3>2, <3>3
  <2>2. CASE total <= 0
    <3>1. rows[i].amount = Alone(total, sorted[i])
      BY <1>5, <2>2 DEF Due
    <3>2. Alone(total, rows[i]) = rows[i].amount
      BY <1>5, <2>2 DEF Alone, NotNegative, Blank
    <3> QED BY <3>1, <3>2
  <2> QED BY <2>1, <2>2
<1>9. SumOf(Others(total, rows, n), 1..(n - 1)) = SumOf(Others(total, sorted, n), 1..(n - 1))
  <2>1. \A j \in 1..(n - 1) : Others(total, rows, n)[j] = Others(total, sorted, n)[j]
    BY <1>1, <1>8 DEF Others
  <2>2. IsFiniteSet(1..(n - 1))
    BY <1>1, FS_Interval
  <2> QED BY <2>1, <2>2, SumOfSame
<1>10. \A i \in 1..n : Due(total, rows, n, i) = Due(total, sorted, n, i)
  BY <1>1, <1>8, <1>9 DEF Due
<1>11. Stored(total, rows)
  BY <1>3, <1>5, <1>7, <1>10 DEF Stored
<1> QED BY <1>1, <1>3, <1>5, <1>11 DEF rows, n

(* The rows of a stored list cover the total.                              *)
RowAmounts(rows) == [i \in DOMAIN rows |-> rows[i].amount]
Paids(rows) == [i \in DOMAIN rows |-> rows[i].paid]

LEMMA StoredCovers ==
  ASSUME NEW total \in Nat, NEW rows, Stored(total, rows), rows # <<>>
  PROVE  SumOf(RowAmounts(rows), DOMAIN rows) >= total /\ SumOf(RowAmounts(rows), DOMAIN rows) \in Nat
<1>1. PICK n \in Nat : DOMAIN rows = 1..n /\ rows \in Seq(Range(rows)) /\ \A i \in 1..n : Item(rows[i])
  BY DEF Stored, Items
<1>2. Len(rows) = n /\ n # 0
  BY <1>1
<1> DEFINE f == RowAmounts(rows)
<1>3. \A i \in 1..n : f[i] \in Nat /\ f[i] = Due(total, rows, n, i)
  BY <1>1, <1>2 DEF Stored, RowAmounts
<1>4. IsFiniteSet(1..n) /\ IsFiniteSet(1..(n - 1))
  BY FS_Interval
<1>5. SumOf(f, 1..n) \in Nat
  BY <1>3, <1>4, SumOfNat
<1>6. SumOf(f, 1..n) = f[n] + SumOf(f, 1..(n - 1))
  <2>1. n \in 1..n /\ (1..n) \ {n} = 1..(n - 1)
    BY <1>2
  <2> HIDE DEF f
  <2>2. SumOf(f, 1..n) = f[n] + SumOf(f, (1..n) \ {n})
    BY <1>3, <1>4, <2>1, SumOfTake
  <2> QED BY <2>1, <2>2
<1>7. SumOf(f, 1..(n - 1)) = SumOf(Others(total, rows, n), 1..(n - 1))
  <2>1. \A j \in 1..(n - 1) : f[j] = Others(total, rows, n)[j]
    <3> SUFFICES ASSUME NEW j \in 1..(n - 1) PROVE f[j] = Others(total, rows, n)[j]
      OBVIOUS
    <3>1. j \in 1..n /\ j # n
      OBVIOUS
    <3>2. f[j] = Due(total, rows, n, j)
      BY <1>3, <3>1
    <3> HIDE DEF f
    <3> QED BY <3>1, <3>2 DEF Due, Others
  <2> HIDE DEF f
  <2> QED BY <1>4, <2>1, SumOfSame
<1>8. PICK m \in Nat : m = SumOf(Others(total, rows, n), 1..(n - 1))
  <2>1. n \in 1..n
    BY <1>2
  <2>2. Due(total, rows, n, n) \in Nat /\ SumOf(Others(total, rows, n), 1..(n - 1)) \in Nat
    <3>1. DuesNat(total, rows, n)
      BY <1>1, DueNat
    <3> QED BY <2>1, <3>1 DEF DuesNat
  <2> QED BY <2>2
<1>9. f[n] = Due(total, rows, n, n)
  BY <1>2, <1>3
<1> HIDE DEF f
<1>10. CASE total > 0
  <2>1. f[n] = NotNegative(total - m)
    BY <1>8, <1>9, <1>10 DEF Due
  <2>2. SumOf(f, 1..n) = NotNegative(total - m) + m
    BY <1>6, <1>7, <1>8, <2>1
  <2> QED BY <1>1, <1>5, <2>2 DEF NotNegative, f
<1>11. CASE total = 0
  BY <1>1, <1>5, <1>11 DEF f
<1> QED BY <1>10, <1>11

LEMMA LeastExists ==
  ASSUME NEW D, D \subseteq Nat, D # {}
  PROVE  Purchase!Min(D) \in D
<1>1. IsWellFoundedOn(OpToRel(<, Nat), Nat)
  BY NatLessThanWellFounded
<1>2. PICK n \in D : \A m \in D : ~(<<m, n>> \in OpToRel(<, Nat))
  BY <1>1, WFMin
<1>3. \A m \in D : n <= m
  <2> SUFFICES ASSUME NEW m \in D, ~(n <= m) PROVE FALSE
    OBVIOUS
  <2>1. m \in Nat /\ n \in Nat /\ m < n
    OBVIOUS
  <2> QED BY <1>2, <2>1 DEF OpToRel
<1> QED BY <1>3 DEF Purchase!Min

(* What the plan row repeats of a stored list.                             *)
Owing(rows) == {i \in DOMAIN rows : rows[i].paid < rows[i].amount}
Repeats(paid, due, rows) ==
  /\ paid = SumOf(Paids(rows), DOMAIN rows) /\ paid \in Nat
  /\ due \in Nat
  /\ (due # NoDay /\ Owing(rows) # {}) => \E i \in Owing(rows) : rows[i].due = due

LEMMA PaidsNat ==
  ASSUME NEW total, NEW rows, Stored(total, rows)
  PROVE  IsFiniteSet(DOMAIN rows) /\ SumOf(Paids(rows), DOMAIN rows) \in Nat
<1>1. IsFiniteSet(DOMAIN rows)
  <2>1. PICK n \in Nat : DOMAIN rows = 1..n
    BY DEF Stored, Items
  <2> QED BY <2>1, FS_Interval
<1>2. \A i \in DOMAIN rows : Paids(rows)[i] \in Nat
  BY DEF Stored, Paids
<1> QED BY <1>1, <1>2, SumOfNat

LEMMA PaidTotal ==
  ASSUME NEW rows
  PROVE  Purchase!TotalOf(rows, LAMBDA r : r.paid) = SumOf(Paids(rows), DOMAIN rows)
BY DEF Purchase!TotalOf, Purchase!MapThenSumSet, Purchase!MapThenFoldSet, SumOf, SumFcn, SumTo, Pick, Paids

LEMMA RollupRepeats ==
  ASSUME NEW total, NEW rows, Stored(total, rows)
  PROVE  Repeats(Purchase!RollupPaymentFields(rows).paid, Purchase!RollupPaymentFields(rows).due, rows)
<1> DEFINE from == IF Owing(rows) = {} THEN DOMAIN rows ELSE Owing(rows)
           dues == {rows[i].due : i \in from} \ {NoDay}
           roll == Purchase!RollupPaymentFields(rows)
<1>1. roll.paid = SumOf(Paids(rows), DOMAIN rows)
  <2>1. roll.paid = Purchase!TotalOf(rows, LAMBDA r : r.paid)
    BY DEF Purchase!RollupPaymentFields
  <2> QED BY <2>1, PaidTotal
<1>2. roll.due = IF dues = {} THEN NoDay ELSE Purchase!Min(dues)
  BY DEF Purchase!RollupPaymentFields, Owing, Purchase!NoDay, NoDay
<1>3. roll.paid \in Nat
  BY <1>1, PaidsNat
<1>4. dues \subseteq Nat /\ NoDay = 0
  BY DEF Stored, Items, Item, Owing, NoDay
<1> HIDE DEF roll
<1>5. CASE dues = {}
  BY <1>1, <1>2, <1>3, <1>4, <1>5 DEF Repeats, roll
<1>6. CASE dues # {}
  <2>1. roll.due \in dues
    <3> HIDE DEF dues
    <3> QED BY <1>2, <1>4, <1>6, LeastExists
  <2>2. roll.due \in Nat /\ (Owing(rows) # {} => \E i \in Owing(rows) : rows[i].due = roll.due)
    BY <1>4, <2>1
  <2> QED BY <1>1, <1>3, <2>2 DEF Repeats, roll
<1> QED BY <1>5, <1>6 DEF roll

PlanFields == {"sale", "mode", "amount", "due", "paid", "paidAt", "rows"}
PlanGood ==
  /\ DOMAIN plan = PlanFields /\ plan.amount \in Nat
  /\ Stored(plan.amount, plan.rows) /\ Repeats(plan.paid, plan.due, plan.rows)
PlanInv == plan = Purchase!NoPlan \/ PlanGood

LEMMA SingleRow ==
  ASSUME NEW amt \in NatOrBlank, NEW due \in Nat, NEW paid \in NatOrBlank, NEW day
  PROVE  LET rows == Purchase!SynthesizeFullInstallment(amt, due, paid, day)
         IN /\ Items(rows) /\ Shared(rows) /\ Len(rows) \in {0, 1}
            /\ \A i \in 1..Len(rows) : rows[i].seq = i /\ rows[i].paid = paid /\ rows[i].due = due
            /\ Len(rows) = 0 => paid = 0
<1> DEFINE rows == Purchase!SynthesizeFullInstallment(amt, due, paid, day)
           row == [seq |-> 1, bps |-> Whole, amount |-> IF amt = 0 THEN Blank ELSE amt, due |-> due,
                   inWords |-> TRUE, paid |-> paid, paidAt |-> day]
<1>1. (rows = <<>> /\ paid = 0) \/ rows = <<row>>
  <2>1. rows = IF amt = 0 /\ paid = 0 /\ due = Purchase!NoDay THEN <<>> ELSE <<row>>
    BY DEF Purchase!SynthesizeFullInstallment, Purchase!Whole, Whole, Purchase!Blank, Blank
  <2> HIDE DEF row, rows
  <2> QED BY <2>1
<1>2. row.seq = 1 /\ row.paid = paid /\ row.due = due /\ Item(row)
  BY DEF Item, ItemFields, Whole, NatOrBlank, Blank
<1> HIDE DEF row, rows
<1>3. CASE rows = <<>> /\ paid = 0
  <2>1. DOMAIN rows = 1..0 /\ rows \in Seq(Range(rows)) /\ Len(rows) = 0
    BY <1>3
  <2>2. Items(rows)
    BY <2>1 DEF Items
  <2> QED BY <1>3, <2>1, <2>2 DEF Shared, rows
<1>4. CASE rows = <<row>>
  <2>1. DOMAIN rows = 1..1 /\ Len(rows) = 1 /\ rows[1] = row
    BY <1>4
  <2>2. rows \in Seq(Range(rows))
    BY <1>4, <2>1 DEF Range
  <2>3. Items(rows)
    BY <1>2, <2>1, <2>2 DEF Items
  <2> QED BY <1>2, <2>1, <2>3 DEF Shared, rows
<1> QED BY <1>1, <1>3, <1>4

LEMMA PlanTyped ==
  ASSUME PlanInv
  PROVE  /\ DOMAIN plan = PlanFields /\ plan.amount \in NatOrBlank /\ plan.paid \in NatOrBlank /\ plan.due \in Nat
         /\ Items(plan.rows) /\ Shared(plan.rows)
         /\ plan.rows # <<>> => PlanGood
<1>1. CASE plan = Purchase!NoPlan
  <2>1. /\ DOMAIN plan = PlanFields /\ plan.amount = Blank /\ plan.paid = Blank /\ plan.due = 0 /\ plan.rows = <<>>
    BY <1>1 DEF Purchase!NoPlan, PlanFields, Purchase!Blank, Blank, Purchase!NoDay
  <2>2. DOMAIN plan.rows = 1..0 /\ plan.rows \in Seq(Range(plan.rows)) /\ Len(plan.rows) = 0
    BY <2>1
  <2>3. Items(plan.rows)
    BY <2>2 DEF Items
  <2> QED BY <2>1, <2>2, <2>3 DEF Shared, NatOrBlank
<1>2. CASE PlanGood
  BY <1>2 DEF PlanGood, Stored, Repeats, NatOrBlank
<1> QED BY <1>1, <1>2 DEF PlanInv

(* A form's payment as one row, and the rows a save starts from.           *)
InOne(form) ==
  Purchase!SynthesizeFullInstallment(Purchase!AmountOf(form), Purchase!OrDay(form.due, plan.due),
    Purchase!OrElse(form.paid, Purchase!OrElse(plan.paid, 0)), Purchase!OrDay(form.paidAt, plan.paidAt))
Asked(form) ==
  Purchase!InferPaymentMode(form.mode, Len(IF form.rows # <<>> THEN form.rows ELSE plan.rows), plan.mode)
Given(form) ==
  CASE Asked(form) = "FULL" -> InOne(form)
    [] Asked(form) = "STAGED" /\ form.rows # <<>> -> form.rows
    [] OTHER -> IF plan.rows # <<>> THEN plan.rows ELSE InOne(form)

LEMMA BuiltIs ==
  ASSUME PlanInv, NEW form
  PROVE  LET rows == Purchase!ResolveSchedule(Purchase!AmountOf(form), Given(form))
         IN Purchase!Built(form) = [mode |-> Asked(form), rows |-> rows, rollup |-> Purchase!RollupPaymentFields(rows)]
<1> DEFINE before == [plan EXCEPT !.paid = Purchase!OrElse(@, 0)]
<1>1. /\ before.rows = plan.rows /\ before.mode = plan.mode /\ before.due = plan.due /\ before.paidAt = plan.paidAt
      /\ before.paid = Purchase!OrElse(plan.paid, 0)
  BY PlanTyped DEF PlanFields
<1>2. Purchase!Built(form) = Purchase!BuildInstallmentRecords(form, Purchase!AmountOf(form), before)
  BY DEF Purchase!Built
<1> HIDE DEF before
<1> QED BY <1>1, <1>2 DEF Purchase!BuildInstallmentRecords, Given, Asked, InOne

LEMMA FormTyped ==
  ASSUME PlanInv, NEW form \in PurchaseForms
  PROVE  /\ form \in PlanForm /\ Purchase!AmountOf(form) \in Nat
         /\ Items(InOne(form)) /\ Shared(InOne(form)) /\ Len(InOne(form)) \in {0, 1}
         /\ Items(form.rows)
<1>1. form \in PlanForm
  BY PapersAssumption DEF PapersAssumption
<1>2. form.amount \in NatOrBlank /\ form.paid \in NatOrBlank /\ form.due \in Nat /\ form.rows \in Seq(FormRow)
  BY <1>1 DEF PlanForm
<1>3. Purchase!AmountOf(form) \in Nat
  BY <1>2, PlanTyped DEF Purchase!AmountOf, Purchase!OrElse, Purchase!Blank, Blank, NatOrBlank
<1> DEFINE day == Purchase!OrDay(form.due, plan.due)
           sum == Purchase!OrElse(form.paid, Purchase!OrElse(plan.paid, 0))
<1>4. day \in Nat /\ sum \in NatOrBlank
  BY <1>2, PlanTyped DEF Purchase!OrDay, Purchase!OrElse, Purchase!Blank, Blank, NatOrBlank
<1>5. Items(InOne(form)) /\ Shared(InOne(form)) /\ Len(InOne(form)) \in {0, 1}
  <2> HIDE DEF day, sum
  <2>1. Purchase!AmountOf(form) \in NatOrBlank
    BY <1>3 DEF NatOrBlank
  <2>2. InOne(form) = Purchase!SynthesizeFullInstallment(Purchase!AmountOf(form), day, sum, Purchase!OrDay(form.paidAt, plan.paidAt))
    BY DEF InOne, day, sum
  <2> QED BY <2>1, <2>2, <1>4, SingleRow
<1>6. Items(form.rows)
  <2> DEFINE rows == form.rows
  <2>1. rows \in Seq(FormRow)
    BY <1>2
  <2> HIDE DEF rows
  <2>2. Len(rows) \in Nat /\ DOMAIN rows = 1..Len(rows) /\ \A i \in 1..Len(rows) : rows[i] \in FormRow
    BY <2>1
  <2>3. \A r \in FormRow : Item(r)
    BY DEF FormRow, Item, ItemFields, NatOrBlank
  <2>4. rows \in Seq(Range(rows))
    BY <2>1, <2>2 DEF Range
  <2>5. Items(rows)
    BY <2>2, <2>3, <2>4 DEF Items
  <2> QED BY <2>5 DEF rows
<1> QED BY <1>1, <1>3, <1>5, <1>6

LEMMA GivenShared ==
  ASSUME PlanInv, NEW form \in PurchaseForms, Purchase!Staged(form) => Purchase!ValidStaged(form.rows)
  PROVE  Items(Given(form)) /\ Shared(Given(form))
<1>1. form \in PlanForm /\ Items(InOne(form)) /\ Shared(InOne(form)) /\ Items(form.rows)
  BY FormTyped
<1>2. Items(plan.rows) /\ Shared(plan.rows)
  BY PlanTyped
<1>3. ASSUME Asked(form) = "STAGED", form.rows # <<>> PROVE Shared(form.rows)
  <2>1. CASE Purchase!Staged(form)
    BY <2>1 DEF Purchase!ValidStaged, Shared, Purchase!Blank, Blank
  <2>2. CASE ~Purchase!Staged(form)
    <3>1. form.mode \in {"", "FULL", "STAGED"}
      BY <1>1 DEF PlanForm
    <3>2. ~(Len(form.rows) > 1)
      BY <1>3, <2>2, <3>1 DEF Purchase!Staged, Asked, Purchase!InferPaymentMode
    <3> QED BY <3>2 DEF Shared
  <2> QED BY <2>1, <2>2
<1> QED BY <1>1, <1>2, <1>3 DEF Given

LEMMA PlanStep ==
  ASSUME PlanInv, NEW form \in PurchaseForms, Purchase!SavePlan(form)
  PROVE  PlanInv'
<1> DEFINE total == Purchase!AmountOf(form)
           rows == Purchase!ResolveSchedule(total, Given(form))
           roll == Purchase!RollupPaymentFields(rows)
<1>1. Purchase!Staged(form) => Purchase!ValidStaged(form.rows)
  BY DEF Purchase!SavePlan
<1>2. total \in Nat /\ Items(Given(form)) /\ Shared(Given(form))
  BY <1>1, FormTyped, GivenShared
<1>3. Purchase!Built(form).rows = rows /\ Purchase!Built(form).rollup = roll
  BY BuiltIs
<1>4. /\ DOMAIN plan' = PlanFields /\ plan'.amount = total /\ plan'.rows = rows
      /\ plan'.paid = roll.paid /\ plan'.due = roll.due
  BY <1>3 DEF Purchase!SavePlan, PlanFields
<1> HIDE DEF total
<1>5. Stored(total, rows)
  BY <1>2, ResolvedIsStored
<1> HIDE DEF rows
<1>6. Repeats(roll.paid, roll.due, rows)
  BY <1>5, RollupRepeats
<1> HIDE DEF roll
<1> QED BY <1>2, <1>4, <1>5, <1>6 DEF PlanInv, PlanGood

(* Resolving a stored list again changes none of its money.                *)
SameMoney(new, old) ==
  /\ Len(new) = Len(old) /\ DOMAIN new = 1..Len(old) /\ DOMAIN old = 1..Len(old) /\ Len(old) \in Nat
  /\ \A i \in 1..Len(old) : new[i].amount = old[i].amount /\ new[i].paid = old[i].paid /\ new[i].due = old[i].due

LEMMA StoredStays ==
  ASSUME NEW total \in Int, NEW rows, Stored(total, rows)
  PROVE  SameMoney(Purchase!ResolveSchedule(total, rows), rows)
<1> DEFINE n == Len(rows)
           new == Purchase!ResolveSchedule(total, rows)
<1>1. Items(rows) /\ Shared(rows)
  BY DEF Stored
<1>2. n \in Nat /\ DOMAIN rows = 1..n
  BY <1>1, OrderKeepsItems
<1>3. \A i \in 1..n : rows[i].seq = i /\ rows[i].paid \in Nat /\ rows[i].amount = Due(total, rows, n, i)
  BY <1>2 DEF Stored
<1>4. Purchase!InOrder(rows) = rows
  BY <1>1, <1>3, OrderKeepsItems
<1>5. new = [i \in 1..n |-> Resolved(total, rows[i], i, Due(total, rows, n, i))]
  BY <1>1, <1>4, ScheduleIs
<1> HIDE DEF new
<1>6. \A i \in 1..n : new[i] = Resolved(total, rows[i], i, rows[i].amount) /\ Item(rows[i])
  BY <1>1, <1>2, <1>3, <1>5 DEF Items
<1>7. \A i \in 1..n : new[i].amount = rows[i].amount /\ new[i].paid = rows[i].paid /\ new[i].due = rows[i].due
  <2> SUFFICES ASSUME NEW i \in 1..n
               PROVE  new[i].amount = rows[i].amount /\ new[i].paid = rows[i].paid /\ new[i].due = rows[i].due
    OBVIOUS
  <2>1. PICK due \in Nat : due = rows[i].amount
    BY <1>2 DEF Stored
  <2>2. RowIs(new[i], rows[i], i, due)
    BY <1>6, <2>1, ResolvedRow
  <2> QED BY <1>3, <2>1, <2>2 DEF RowIs, NotNegative
<1>8. Len(new) = n /\ DOMAIN new = 1..n
  <2>1. new = [k \in 1..n |-> new[k]]
    BY <1>5
  <2> QED BY <1>2, <2>1, ListOf
<1> QED BY <1>2, <1>7, <1>8 DEF SameMoney, new

LEMMA ShownIs ==
  ASSUME PlanInv
  PROVE  \E rows :
           /\ Stored(plan.amount, rows)
           /\ plan.rows # <<>> => rows = Purchase!ResolveSchedule(plan.amount, plan.rows)
           /\ Purchase!Shown.paid = SumOf(Paids(rows), DOMAIN rows)
           /\ Purchase!Shown.unpaid = NotNegative(plan.amount - SumOf(Paids(rows), DOMAIN rows))
           /\ Purchase!Shown.statuses = {Purchase!EvaluateInstallment(rows[i], today) : i \in DOMAIN rows}
           /\ Purchase!Shown.payment =
                Purchase!SummarizeRemittance({Purchase!TimingOf(rows[i], today) : i \in DOMAIN rows})
<1> DEFINE one == Purchase!SynthesizeFullInstallment(plan.amount, plan.due, plan.paid, plan.paidAt)
           raw == IF plan.rows # <<>> THEN plan.rows ELSE one
           rows == Purchase!ResolveSchedule(plan.amount, raw)
<1>1. Items(one) /\ Shared(one)
  BY PlanTyped, SingleRow
<1>2. Items(raw) /\ Shared(raw)
  <2> HIDE DEF one
  <2> QED BY <1>1, PlanTyped
<1>3. plan.amount \in Int
  BY PlanTyped DEF NatOrBlank, Blank
<1>4. /\ Purchase!Shown.paid = Purchase!TotalOf(rows, LAMBDA r : r.paid)
      /\ Purchase!Shown.unpaid = NotNegative(plan.amount - Purchase!Shown.paid)
      /\ Purchase!Shown.statuses = {Purchase!EvaluateInstallment(rows[i], today) : i \in DOMAIN rows}
      /\ Purchase!Shown.payment =
           Purchase!SummarizeRemittance({Purchase!TimingOf(rows[i], today) : i \in DOMAIN rows})
  BY DEF Purchase!Shown, Purchase!PresentPlanPayment, Purchase!NotNegative, NotNegative
<1> HIDE DEF raw
<1>5. Stored(plan.amount, rows)
  BY <1>2, <1>3, ResolvedIsStored
<1>6. plan.rows # <<>> => rows = Purchase!ResolveSchedule(plan.amount, plan.rows)
  BY DEF raw
<1> HIDE DEF rows
<1>7. Purchase!TotalOf(rows, LAMBDA r : r.paid) = SumOf(Paids(rows), DOMAIN rows)
  BY PaidTotal
<1> QED BY <1>4, <1>5, <1>6, <1>7

LEMMA OpenOfOne ==
  ASSUME NEW owed \in Int, NEW paid \in Int
  PROVE  Purchase!MoneyBuckets(<<[amount |-> owed, paid |-> paid]>>).open = NotNegative(owed - paid)
<1> DEFINE r1 == [amount |-> owed, paid |-> paid]
           list == <<r1>>
           f == [i \in DOMAIN list |-> NotNegative(list[i].amount - list[i].paid)]
<1>1. Purchase!TotalOf(list, LAMBDA r : NotNegative(r.amount - r.paid)) = SumOf(f, DOMAIN list)
  <2> HIDE DEF list
  <2> QED BY DEF Purchase!TotalOf, Purchase!MapThenSumSet, Purchase!MapThenFoldSet, SumOf, SumFcn, SumTo, Pick
<1>2. Purchase!MoneyBuckets(list).open = Purchase!TotalOf(list, LAMBDA r : NotNegative(r.amount - r.paid))
  <2> HIDE DEF list
  <2> QED BY DEF Purchase!MoneyBuckets, Purchase!NotNegative, NotNegative, Purchase!TotalOf, Purchase!MapThenSumSet,
                 Purchase!MapThenFoldSet
<1>3. DOMAIN list = {1} /\ list[1].amount = owed /\ list[1].paid = paid
  OBVIOUS
<1> HIDE DEF list
<1>4. f[1] = NotNegative(owed - paid) /\ f[1] \in Int
  BY <1>3 DEF NotNegative
<1> HIDE DEF f
<1>5. SumOf(f, DOMAIN list) = f[1]
  BY <1>3, <1>4, SumOfOne
<1> QED BY <1>1, <1>2, <1>4, <1>5 DEF list

LEMMA PageFollows == PlanInv => PlanPageAgrees
<1> SUFFICES ASSUME PlanInv PROVE PlanPageAgrees
  OBVIOUS
<1>1. PICK rows :
        /\ Stored(plan.amount, rows)
        /\ plan.rows # <<>> => rows = Purchase!ResolveSchedule(plan.amount, plan.rows)
        /\ Purchase!Shown.paid = SumOf(Paids(rows), DOMAIN rows)
        /\ Purchase!Shown.unpaid = NotNegative(plan.amount - SumOf(Paids(rows), DOMAIN rows))
        /\ Purchase!Shown.statuses = {Purchase!EvaluateInstallment(rows[i], today) : i \in DOMAIN rows}
        /\ Purchase!Shown.payment =
             Purchase!SummarizeRemittance({Purchase!TimingOf(rows[i], today) : i \in DOMAIN rows})
  BY ShownIs
<1>2. plan.amount \in NatOrBlank
  BY PlanTyped
<1>3. \A i \in DOMAIN rows : rows[i].amount \in Nat /\ rows[i].paid \in Nat
  BY <1>1 DEF Stored
<1>4. IsFiniteSet(DOMAIN rows) /\ SumOf(Paids(rows), DOMAIN rows) \in Nat
  BY <1>1, PaidsNat
<1>5. PICK paid \in Nat : paid = SumOf(Paids(rows), DOMAIN rows)
  BY <1>4
<1>6. ASSUME Purchase!Shown.statuses = {"PAID"} PROVE Purchase!Shown.unpaid = 0 /\ Purchase!Payable.open = 0
  <2>1. rows # <<>>
    <3>1. DOMAIN rows # {}
      BY <1>1, <1>6
    <3> QED BY <3>1
  <2>2. \A i \in DOMAIN rows : rows[i].amount <= rows[i].paid
    <3> SUFFICES ASSUME NEW i \in DOMAIN rows PROVE rows[i].amount <= rows[i].paid
      OBVIOUS
    <3>1. Purchase!EvaluateInstallment(rows[i], today) = "PAID"
      BY <1>1, <1>6
    <3>2. Purchase!UnpaidOf(rows[i]) = 0
      BY <3>1 DEF Purchase!EvaluateInstallment
    <3> QED BY <1>3, <3>2 DEF Purchase!UnpaidOf, Purchase!NotNegative
  <2>3. SumOf(RowAmounts(rows), DOMAIN rows) <= paid
    <3>1. \A i \in DOMAIN rows : RowAmounts(rows)[i] \in Int /\ Paids(rows)[i] \in Int /\ RowAmounts(rows)[i] <= Paids(rows)[i]
      BY <1>3, <2>2 DEF RowAmounts, Paids
    <3> QED BY <1>4, <1>5, <3>1, SumOfAtMost
  <2>4. NotNegative(plan.amount - paid) = 0
    <3>1. CASE plan.amount \in Nat
      <4>1. PICK m \in Nat : m = SumOf(RowAmounts(rows), DOMAIN rows) /\ m >= plan.amount
        BY <1>1, <2>1, <3>1, StoredCovers
      <4> QED BY <2>3, <3>1, <4>1 DEF NotNegative
    <3>2. CASE plan.amount = Blank
      BY <3>2 DEF NotNegative, Blank
    <3> QED BY <1>2, <3>1, <3>2 DEF NatOrBlank
  <2>5. Purchase!Payable.open = NotNegative(plan.amount - paid)
    <3>1. plan.amount \in Int /\ paid \in Int
      BY <1>2 DEF NatOrBlank, Blank
    <3>2. Purchase!Payable = Purchase!MoneyBuckets(<<[amount |-> plan.amount, paid |-> paid]>>)
      BY <1>1, <1>5 DEF Purchase!Payable
    <3> QED BY <3>1, <3>2, OpenOfOne
  <2> QED BY <1>1, <1>5, <2>4, <2>5
<1>7. ASSUME NEW j \in DOMAIN plan.rows, Purchase!UnpaidOf(plan.rows[j]) > 0,
             plan.due # Purchase!NoDay, today > plan.due
      PROVE  Purchase!Shown.payment = "OVERDUE"
  <2>1. plan.rows # <<>> /\ PlanGood
    BY <1>7, PlanTyped
  <2>2. Stored(plan.amount, plan.rows) /\ Repeats(plan.paid, plan.due, plan.rows)
    BY <2>1 DEF PlanGood
  <2>3. j \in Owing(plan.rows)
    BY <1>7, <2>2 DEF Owing, Stored, Purchase!UnpaidOf, Purchase!NotNegative
  <2>4. PICK i \in Owing(plan.rows) : plan.rows[i].due = plan.due
    BY <1>7, <2>2, <2>3 DEF Repeats, NoDay, Purchase!NoDay
  <2>5. SameMoney(rows, plan.rows)
    BY <1>1, <1>2, <2>1, <2>2, StoredStays DEF NatOrBlank, Blank
  <2>6. /\ i \in DOMAIN rows /\ rows[i].due = plan.due /\ rows[i].paid < rows[i].amount
    BY <2>4, <2>5 DEF Owing, SameMoney
  <2>7. Purchase!UnpaidOf(rows[i]) > 0 /\ rows[i].amount # 0
    BY <1>3, <2>6 DEF Purchase!UnpaidOf, Purchase!NotNegative
  <2>8. Purchase!TimingOf(rows[i], today) = "OVERDUE"
    <3>1. PICK left : left = Purchase!UnpaidOf(rows[i]) /\ left > 0
      BY <2>7
    <3>2. Purchase!TimingOf(rows[i], today) = Purchase!EvaluateSchedule(rows[i].due, rows[i].paidAt, left, today)
      BY <2>7, <3>1 DEF Purchase!TimingOf
    <3> QED BY <1>7, <2>6, <3>1, <3>2 DEF Purchase!EvaluateSchedule, Purchase!NoDay
  <2> QED BY <1>1, <2>6, <2>8 DEF Purchase!SummarizeRemittance
<1> QED BY <1>6, <1>7 DEF PlanPageAgrees, Purchase!PlanPageAgrees, Purchase!AllPaidMeansNothingOwed, Purchase!OverdueShows

LEMMA PaidFollowsPlan == PlanInv => Purchase!PaidKept
<1> SUFFICES ASSUME PlanInv, plan # Purchase!NoPlan, NEW form \in PurchaseForms,
                    form.paid = Blank, form.rows = <<>>, ~Purchase!Staged(form)
             PROVE  Purchase!Built(form).rollup.paid = plan.paid
  BY DEF Purchase!PaidKept, Purchase!Blank, Blank
<1> DEFINE total == Purchase!AmountOf(form)
           rows == Purchase!ResolveSchedule(total, Given(form))
<1>1. total \in Nat /\ PlanGood
  BY FormTyped DEF PlanInv
<1>2. plan.paid = SumOf(Paids(plan.rows), DOMAIN plan.rows) /\ plan.paid \in Nat /\ Stored(plan.amount, plan.rows)
  BY <1>1 DEF PlanGood, Repeats
<1>3. Items(Given(form)) /\ Shared(Given(form))
  BY GivenShared
<1>4. Purchase!Built(form).rollup.paid = SumOf(Paids(rows), DOMAIN rows)
  <2>1. Purchase!Built(form).rollup = Purchase!RollupPaymentFields(rows)
    BY BuiltIs
  <2>2. Stored(total, rows)
    BY <1>1, <1>3, ResolvedIsStored
  <2> HIDE DEF rows
  <2>3. Repeats(Purchase!RollupPaymentFields(rows).paid, Purchase!RollupPaymentFields(rows).due, rows)
    BY <2>2, RollupRepeats
  <2> QED BY <2>1, <2>3 DEF Repeats
<1>5. CASE Given(form) = InOne(form)
  <2> DEFINE one == InOne(form)
  <2>1. /\ Items(one) /\ Shared(one) /\ Len(one) \in {0, 1}
        /\ \A i \in 1..Len(one) : one[i].seq = i /\ one[i].paid = plan.paid
        /\ Len(one) = 0 => plan.paid = 0
    <3>1. Purchase!OrElse(form.paid, Purchase!OrElse(plan.paid, 0)) = plan.paid
      BY <1>2 DEF Purchase!OrElse, Purchase!Blank, Blank
    <3>2. Purchase!OrDay(form.due, plan.due) \in Nat
      <4>1. form.due \in Nat
        BY FormTyped DEF PlanForm
      <4> QED BY <4>1, PlanTyped DEF Purchase!OrDay
    <3>3. one = Purchase!SynthesizeFullInstallment(total, Purchase!OrDay(form.due, plan.due), plan.paid,
                                                   Purchase!OrDay(form.paidAt, plan.paidAt))
      BY <3>1 DEF InOne
    <3>4. total \in NatOrBlank /\ plan.paid \in NatOrBlank
      BY <1>1, <1>2 DEF NatOrBlank
    <3> HIDE DEF one, total
    <3> QED BY <3>2, <3>3, <3>4, SingleRow
  <2>2. rows = Purchase!ResolveSchedule(total, one)
    BY <1>5
  <2> HIDE DEF one, rows, total
  <2>3. /\ Stored(total, rows) /\ Len(rows) = Len(one)
        /\ \A i \in 1..Len(one) : rows[i].paid = NotNegative(one[i].paid)
    BY <1>1, <2>1, <2>2, ResolvedIsStored
  <2>4. DOMAIN rows = 1..Len(rows)
    BY <2>3, OrderKeepsItems DEF Stored
  <2>5. CASE Len(one) = 0
    <3>1. DOMAIN rows = {}
      BY <2>3, <2>4, <2>5
    <3> QED BY <1>4, <2>1, <2>5, <3>1, SumOfEmpty DEF rows, total
  <2>6. CASE Len(one) = 1
    <3>1. DOMAIN rows = {1} /\ Paids(rows)[1] = plan.paid
      BY <1>2, <2>1, <2>3, <2>4, <2>6 DEF Paids, NotNegative
    <3>2. SumOf(Paids(rows), {1}) = plan.paid
      <4>1. Paids(rows)[1] \in Int
        BY <1>2, <3>1
      <4> QED BY <3>1, <4>1, SumOfOne
    <3> QED BY <1>4, <3>1, <3>2 DEF rows, total
  <2> QED BY <2>1, <2>5, <2>6
<1>6. CASE Given(form) = plan.rows
  <2>1. rows = Purchase!ResolveSchedule(total, plan.rows)
    BY <1>6
  <2>2. Items(plan.rows) /\ Shared(plan.rows) /\ DOMAIN plan.rows = 1..Len(plan.rows) /\ Len(plan.rows) \in Nat
    BY <1>2, OrderKeepsItems DEF Stored
  <2>3. \A i \in 1..Len(plan.rows) : plan.rows[i].seq = i /\ plan.rows[i].paid \in Nat
    BY <1>2, <2>2 DEF Stored
  <2> HIDE DEF rows, total
  <2>4. /\ Stored(total, rows) /\ Len(rows) = Len(plan.rows)
        /\ \A i \in 1..Len(plan.rows) : rows[i].paid = NotNegative(plan.rows[i].paid)
    BY <1>1, <2>1, <2>2, <2>3, ResolvedIsStored
  <2>5. DOMAIN rows = DOMAIN plan.rows
    BY <2>2, <2>4, OrderKeepsItems DEF Stored
  <2>6. \A i \in DOMAIN rows : Paids(rows)[i] = Paids(plan.rows)[i]
    BY <2>2, <2>3, <2>4, <2>5 DEF Paids, NotNegative
  <2>7. SumOf(Paids(rows), DOMAIN rows) = SumOf(Paids(plan.rows), DOMAIN rows)
    <3>1. IsFiniteSet(DOMAIN rows)
      BY <2>4, PaidsNat
    <3> QED BY <2>6, <3>1, SumOfSame
  <2> QED BY <1>2, <1>4, <2>5, <2>7 DEF rows, total
<1> QED BY <1>5, <1>6 DEF Given

LEMMA PlanNext == PlanInv /\ Purchase!Next => PlanInv'
<1>1. UNCHANGED plan /\ PlanInv => PlanInv'
  BY DEF PlanInv, PlanGood
<1> QED BY <1>1, PlanStep DEF Purchase!Next, Purchase!SaveSalesContract, Purchase!AdvanceN3, Purchase!NextDay

LEMMA PlanInit == Purchase!Init => PlanInv
BY DEF Purchase!Init, PlanInv

-----------------------------------------------------------------------------
(***************************************************************************)
(* The customer pages.  What a page has loaded is typed; no receipt is of  *)
(* a day to come, and a contract not signed holds nothing.                 *)
(***************************************************************************)
Deal == [signed : BOOLEAN, amount : Nat, usd : BOOLEAN, due : Nat]
SettlementRow == [day : Nat, memo : BOOLEAN, amount : Nat \cup {NoAmount}]
Cover == [case : Sold, limit : Nat, usd : BOOLEAN]
Settled(rows, c, now) ==
  /\ DOMAIN rows = DOMAIN BatchAmounts[c]
  /\ \A i \in DOMAIN rows : rows[i] \in SettlementRow /\ rows[i].day <= now
LoadedGood(db) ==
  /\ db.now \in Nat \ {0} /\ db.reached \in SUBSET Sold
  /\ db.contract \in [Sold -> Deal]
  /\ \A c \in Sold : ~db.contract[c].signed => db.contract[c] = Pages!NoContract
  /\ DOMAIN db.settlements = Sold
  /\ \A c \in Sold : Settled(db.settlements[c], c, db.now)
  /\ db.cost \in [Sold -> Nat]
  /\ db.policies \in Seq(Cover)
PagesInv == LoadedGood(Pages!LoadCustomers)

CaseCode(db, c) == Pages!CaseRemittance(db, c, Pages!MoneyOf(db, c).unpaid)
SliceOf(db, c) ==
  [case |-> c, amount |-> db.contract[c].amount, unpaid |-> Pages!MoneyOf(db, c).unpaid,
   signed |-> db.contract[c].signed, usd |-> db.contract[c].usd, cost |-> db.cost[c],
   due |-> db.contract[c].due, code |-> CaseCode(db, c)]

LEMMA SlicesAre ==
  ASSUME NEW db, NEW b
  PROVE  Pages!Slices(db, b) = {SliceOf(db, c) : c \in Pages!CasesOf(db, b)}
BY DEF Pages!Slices, SliceOf, CaseCode, Pages!MoneyOf

LEMMA CasesFinite ==
  ASSUME NEW db, LoadedGood(db), NEW b
  PROVE  IsFiniteSet(Pages!CasesOf(db, b)) /\ Pages!CasesOf(db, b) \subseteq Sold
BY PagesAssumption, FS_Subset DEF LoadedGood, Pages!CasesOf

(* As many slices have a code as cases.                                    *)
Coded(db, b, code) == {c \in Pages!CasesOf(db, b) : CaseCode(db, c) = code}
LEMMA CodedAre ==
  ASSUME NEW db, LoadedGood(db), NEW b, NEW code
  PROVE  /\ IsFiniteSet(Coded(db, b, code))
         /\ Cardinality({s \in Pages!Slices(db, b) : s.code = code}) = Cardinality(Coded(db, b, code))
<1> DEFINE S == Coded(db, b, code)
           T == {s \in Pages!Slices(db, b) : s.code = code}
           f == [c \in S |-> SliceOf(db, c)]
<1>1. IsFiniteSet(S)
  BY CasesFinite, FS_Subset DEF Coded
<1>2. T = {SliceOf(db, c) : c \in S}
  BY SlicesAre DEF Coded, SliceOf
<1>3. f \in Bijection(S, T)
  <2>1. \A c, d \in S : SliceOf(db, c) = SliceOf(db, d) => c = d
    BY DEF SliceOf
  <2> HIDE DEF S, T
  <2> QED BY <1>2, <2>1 DEF Bijection, Injection, Surjection, IsInjective
<1>4. ExistsBijection(S, T)
  BY <1>3 DEF ExistsBijection
<1> HIDE DEF S, T
<1>5. Cardinality(T) = Cardinality(S)
  BY <1>1, <1>4, FS_Bijection
<1> QED BY <1>1, <1>5 DEF S, T

LEMMA FactsAre ==
  ASSUME NEW db, NEW b
  PROVE  Pages!FactsOf(db, b) =
           Pages!FactsFromCases(Pages!Slices(db, b),
             Pages!OccupancyFromCases(Pages!Slices(db, b), Pages!LatestSinosure(db, b)),
             Pages!LatestSinosure(db, b), db.now)
BY DEF Pages!FactsOf

(* What the facts say of codes and of ages.                                *)
Older(db, b, days) ==
  \E c \in Pages!CasesOf(db, b) : /\ Pages!MoneyOf(db, c).unpaid > 0 /\ db.contract[c].due # Pages!NoDay
                                  /\ db.now - db.contract[c].due > days
LEMMA CodesAndAges ==
  ASSUME NEW db, LoadedGood(db), NEW b
  PROVE  /\ Pages!FactsOf(db, b).onTime = Cardinality(Coded(db, b, "ON_TIME"))
         /\ Pages!FactsOf(db, b).overdue = Cardinality(Coded(db, b, "OVERDUE"))
         /\ Pages!FactsOf(db, b).aging.long <=> Older(db, b, LongDue)
         /\ Pages!FactsOf(db, b).aging.veryLong <=> Older(db, b, VeryLongDue)
<1> DEFINE S == Pages!Slices(db, b)
           A == Pages!AgingUnpaid(S, db.now)
<1>1. /\ Pages!FactsOf(db, b).onTime = Pages!Cardinality({s \in S : s.code = "ON_TIME"})
      /\ Pages!FactsOf(db, b).overdue = Pages!Cardinality({s \in S : s.code = "OVERDUE"})
      /\ Pages!FactsOf(db, b).aging = A
  <2> HIDE DEF S, A
  <2> QED BY FactsAre DEF Pages!FactsFromCases, Pages!MapThenSumSet, Pages!MapThenFoldSet, S, A
<1>2. \A T : Pages!Cardinality(T) = Cardinality(T)
  BY DEF Pages!Cardinality, Cardinality
<1>3. ASSUME NEW days PROVE (\E s \in S : s.unpaid > 0 /\ s.due # Pages!NoDay /\ db.now - s.due > days) <=> Older(db, b, days)
  <2>1. \A c : SliceOf(db, c).unpaid = Pages!MoneyOf(db, c).unpaid /\ SliceOf(db, c).due = db.contract[c].due
    BY DEF SliceOf
  <2> QED BY <2>1, SlicesAre DEF Older
<1>4. /\ A.long = (\E s \in S : s.unpaid > 0 /\ s.due # Pages!NoDay /\ db.now - s.due > LongDue)
      /\ A.veryLong = (\E s \in S : s.unpaid > 0 /\ s.due # Pages!NoDay /\ db.now - s.due > VeryLongDue)
  <2> HIDE DEF S
  <2> QED BY DEF Pages!AgingUnpaid, A
<1> HIDE DEF S, A
<1>5. A.long <=> Older(db, b, LongDue)
  BY <1>3, <1>4, Zenon
<1>6. A.veryLong <=> Older(db, b, VeryLongDue)
  BY <1>3, <1>4, Zenon
<1>7. Pages!FactsOf(db, b).onTime = Cardinality(Coded(db, b, "ON_TIME"))
  BY <1>1, <1>2, CodedAre DEF S
<1>8. Pages!FactsOf(db, b).overdue = Cardinality(Coded(db, b, "OVERDUE"))
  BY <1>1, <1>2, CodedAre DEF S
<1> QED BY <1>1, <1>5, <1>6, <1>7, <1>8

(* The peers a buyer is compared with.                                     *)
PeersOf(db, b) ==
  IF Pages!PeerFacts(db) = {} THEN {<<b, Pages!FactsOf(db, b)>>} ELSE Pages!PeerFacts(db)
LEMMA EvaluateIs ==
  ASSUME NEW db, NEW b
  PROVE  Pages!EvaluateBuyer(db, b) = Pages!Evaluate(Pages!FactsOf(db, b), PeersOf(db, b))
BY DEF Pages!EvaluateBuyer, PeersOf

LEMMA TagsMean ==
  ASSUME NEW facts, NEW peers
  PROVE  /\ "GOOD_REMIT" \in Pages!Evaluate(facts, peers).tags => facts.onTime > 0 /\ facts.overdue = 0
         /\ "LONG_AR" \in Pages!Evaluate(facts, peers).tags => facts.aging.long \/ facts.aging.veryLong
<1> DEFINE E == Pages!Evaluate(facts, peers)
           tag(name, earned) == IF earned THEN {name} ELSE {}
           grade == E.grade
<1>1. E.tags = UNION {tag("NO_LIMIT", Pages!Unregistered(facts)), tag("LOW_LIMIT", Pages!LowUsdLimit(facts)),
                      tag("LONG_AR", facts.aging.long \/ facts.aging.veryLong),
                      tag("THIN_MARGIN", Pages!ValueScore(facts, peers).thin),
                      tag("GOOD_REMIT", facts.onTime > 0 /\ facts.overdue = 0 /\ grade > 0)}
  BY DEF Pages!Evaluate
<1> HIDE DEF E, grade
<1>2. "GOOD_REMIT" \in E.tags => facts.onTime > 0 /\ facts.overdue = 0
  BY <1>1
<1>3. "LONG_AR" \in E.tags => facts.aging.long \/ facts.aging.veryLong
  BY <1>1
<1> QED BY <1>2, <1>3 DEF E

(* A receivable that has been due for long is coded overdue.               *)
LEMMA OldIsOverdue ==
  ASSUME NEW db, LoadedGood(db), NEW b, NEW c \in Pages!CasesOf(db, b), NEW days \in Nat,
         Pages!MoneyOf(db, c).unpaid > 0, db.contract[c].due # Pages!NoDay,
         db.now - db.contract[c].due > days
  PROVE  c \in Coded(db, b, "OVERDUE")
<1>1. c \in Sold /\ db.contract[c] \in Deal /\ db.now \in Nat
  BY CasesFinite DEF LoadedGood
<1>2. db.contract[c].signed = TRUE
  BY <1>1 DEF LoadedGood, Deal, Pages!NoContract
<1>3. db.contract[c].due \in Nat /\ db.now > db.contract[c].due
  BY <1>1 DEF Deal
<1>4. CaseCode(db, c) = Pages!EvaluateSchedule(db.contract[c].due, Pages!LatestReceivedAt(db, c), Pages!MoneyOf(db, c).unpaid, db.now)
  BY <1>2 DEF CaseCode, Pages!CaseRemittance
<1>5. \A due, day, left, now : left > 0 /\ due # Pages!NoDay /\ now > due => Pages!EvaluateSchedule(due, day, left, now) = "OVERDUE"
  BY DEF Pages!EvaluateSchedule
<1> QED BY <1>3, <1>4, <1>5 DEF Coded

LEMMA PraiseIsEarned ==
  ASSUME NEW db, LoadedGood(db), NEW b
  PROVE  Pages!PraisedOwesNothingLate(Pages!Page(db, b))
<1> DEFINE facts == Pages!FactsOf(db, b)
           E == Pages!Evaluate(facts, PeersOf(db, b))
           codes == {s.code : s \in Pages!Slices(db, b)}
<1>1. Pages!Page(db, b) = [evaluation |-> E, remittance |-> Pages!SummarizeRemittance(codes)]
  BY EvaluateIs DEF Pages!Page
<1>2. codes = {CaseCode(db, c) : c \in Pages!CasesOf(db, b)}
  <2>1. \A c : SliceOf(db, c).code = CaseCode(db, c)
    BY DEF SliceOf
  <2> QED BY <2>1, SlicesAre
<1> SUFFICES ASSUME "GOOD_REMIT" \in E.tags
             PROVE  Pages!SummarizeRemittance(codes) = "ON_TIME" /\ "LONG_AR" \notin E.tags
  BY <1>1 DEF Pages!PraisedOwesNothingLate
<1>3. facts.onTime > 0 /\ facts.overdue = 0
  BY TagsMean
<1>4. Cardinality(Coded(db, b, "ON_TIME")) > 0 /\ Cardinality(Coded(db, b, "OVERDUE")) = 0
  BY <1>3, CodesAndAges
<1>5. Coded(db, b, "ON_TIME") # {} /\ Coded(db, b, "OVERDUE") = {}
  <2>1. IsFiniteSet(Coded(db, b, "ON_TIME")) /\ IsFiniteSet(Coded(db, b, "OVERDUE"))
    BY CodedAre
  <2>2. \A S : IsFiniteSet(S) => (Cardinality(S) = 0 <=> S = {})
    BY FS_EmptySet
  <2>3. Cardinality(Coded(db, b, "ON_TIME")) # 0
    BY <1>4
  <2> QED BY <1>4, <2>1, <2>2, <2>3
<1>6. "ON_TIME" \in codes /\ "OVERDUE" \notin codes
  BY <1>2, <1>5 DEF Coded
<1>7. Pages!SummarizeRemittance(codes) = "ON_TIME"
  BY <1>6 DEF Pages!SummarizeRemittance
<1>8. \A days \in Nat : ~Older(db, b, days)
  BY <1>5, OldIsOverdue DEF Older
<1>9. ~facts.aging.long /\ ~facts.aging.veryLong
  BY <1>8, CodesAndAges, PagesAssumption
<1> QED BY <1>7, <1>9, TagsMean

(***************************************************************************)
(* The facts stay typed.                                                   *)
(***************************************************************************)
LEMMA LoadedIs ==
  /\ Pages!LoadCustomers = [reached |-> reached, contract |-> deals, settlements |-> settlements,
                            cost |-> cost, policies |-> covers, now |-> today]
  /\ Pages!LoadCustomers' = [reached |-> reached', contract |-> deals', settlements |-> settlements',
                             cost |-> cost', policies |-> covers', now |-> today']
BY DEF Pages!LoadCustomers

LEMMA PagesInitGood == Pages!Init => PagesInv
<1> SUFFICES ASSUME Pages!Init PROVE LoadedGood(Pages!LoadCustomers)
  BY DEF PagesInv
<1>1. \A c \in Sold : Settled(settlements[c], c, 1)
  BY DEF Pages!Init, Settled, SettlementRow, Pages!NoReceipt, Pages!NoDay, Pages!NoAmount, NoAmount
<1>2. covers \in Seq(Cover)
  BY DEF Pages!Init
<1> QED BY <1>1, <1>2, LoadedIs DEF Pages!Init, LoadedGood, Deal, Pages!NoContract, Pages!NoDay

LEMMA PageReaches == ASSUME PagesInv, NEW c \in Sold, Pages!ReachN3(c) PROVE PagesInv'
BY LoadedIs DEF PagesInv, LoadedGood, Pages!ReachN3

LEMMA PageSigns ==
  ASSUME PagesInv, NEW c, NEW a \in Nat, NEW usd \in BOOLEAN, NEW due \in Nat, Pages!SaveContract(c, a, usd, due)
  PROVE  PagesInv'
<1>1. deals' \in [Sold -> Deal]
  BY LoadedIs DEF PagesInv, LoadedGood, Pages!SaveContract, Deal
<1>2. \A d \in Sold : ~deals'[d].signed => deals'[d] = Pages!NoContract
  BY LoadedIs DEF PagesInv, LoadedGood, Pages!SaveContract, Deal
<1> QED BY <1>1, <1>2, LoadedIs DEF PagesInv, LoadedGood, Pages!SaveContract

LEMMA PagePlans == ASSUME PagesInv, NEW c, NEW a \in Nat, Pages!SavePlan(c, a) PROVE PagesInv'
<1>1. cost' \in [Sold -> Nat]
  BY LoadedIs DEF PagesInv, LoadedGood, Pages!SavePlan
<1> QED BY <1>1, LoadedIs DEF PagesInv, LoadedGood, Pages!SavePlan

LEMMA PageCollects ==
  ASSUME PagesInv, NEW c \in Sold, NEW i \in DOMAIN settlements[c], NEW r \in Pages!Receipts,
         Pages!SaveSettlement(c, i, r)
  PROVE  PagesInv'
<1>1. r \in SettlementRow /\ r.day <= today
  <2>1. today \in Nat \ {0} /\ Parts \subseteq Nat
    BY PagesAssumption, LoadedIs DEF PagesInv, LoadedGood
  <2>2. CASE r \in [day : {today}, memo : {FALSE}, amount : {NoAmount}]
    <3>1. PICK a \in {NoAmount} : r = [day |-> today, memo |-> FALSE, amount |-> a]
      BY <2>2
    <3> QED BY <2>1, <3>1 DEF SettlementRow
  <2>3. CASE r \in [day : {0, today}, memo : {TRUE}, amount : {NoAmount} \cup Parts]
    <3>1. PICK d \in {0, today}, a \in {NoAmount} \cup Parts : r = [day |-> d, memo |-> TRUE, amount |-> a]
      BY <2>3
    <3>2. d \in Nat /\ d <= today
      BY <2>1
    <3>3. a \in Nat \cup {NoAmount}
      BY <2>1
    <3> QED BY <3>1, <3>2, <3>3 DEF SettlementRow
  <2> QED BY <2>2, <2>3 DEF Pages!Receipts, Pages!NoDay, Pages!NoAmount, NoAmount
<1>2. \A d \in Sold : Settled(settlements'[d], d, today)
  <2>1. \A d \in Sold : Settled(settlements[d], d, today)
    BY LoadedIs DEF PagesInv, LoadedGood
  <2> QED BY <1>1, <2>1, LoadedIs DEF Settled, Pages!SaveSettlement, PagesInv, LoadedGood
<1> QED BY <1>2, LoadedIs DEF PagesInv, LoadedGood, Pages!SaveSettlement

LEMMA PageInsures ==
  ASSUME PagesInv, NEW c \in Sold, NEW l \in Nat, NEW usd \in BOOLEAN, Pages!SaveSinosure(c, l, usd)
  PROVE  PagesInv'
<1>1. covers' \in Seq(Cover)
  BY LoadedIs DEF PagesInv, LoadedGood, Pages!SaveSinosure, Cover
<1> QED BY <1>1, LoadedIs DEF PagesInv, LoadedGood, Pages!SaveSinosure

LEMMA PageWaits == ASSUME PagesInv, Pages!LaterDay PROVE PagesInv'
<1>1. today' \in Nat \ {0} /\ today' >= today
  <2>1. today \in Nat /\ Calendar \subseteq Nat /\ today' \in Calendar /\ today' > today
    BY PagesAssumption, LoadedIs DEF Pages!LaterDay, PagesInv, LoadedGood
  <2> QED BY <2>1
<1>2. \A d \in Sold : Settled(settlements[d], d, today')
  BY <1>1, LoadedIs DEF PagesInv, LoadedGood, Settled, SettlementRow
<1> QED BY <1>1, <1>2, LoadedIs DEF PagesInv, LoadedGood, Pages!LaterDay

LEMMA PagesIdle == ASSUME PagesInv, UNCHANGED <<pageVars, today>> PROVE PagesInv'
BY LoadedIs DEF PagesInv, LoadedGood, pageVars

LEMMA PagesNextDay == ASSUME PagesInv, Purchase!NextDay, UNCHANGED pageVars PROVE PagesInv'
<1>1. today' \in Nat \ {0} /\ today' >= today
  BY LoadedIs DEF Purchase!NextDay, PagesInv, LoadedGood
<1>2. \A d \in Sold : Settled(settlements[d], d, today')
  BY <1>1, LoadedIs DEF PagesInv, LoadedGood, Settled, SettlementRow
<1> QED BY <1>1, <1>2, LoadedIs DEF PagesInv, LoadedGood, pageVars

LEMMA PagesStay == PagesInv /\ [Pages!Next]_Pages!vars => PagesInv'
<1>1. PagesInv /\ Pages!Next => PagesInv'
  <2> SUFFICES ASSUME PagesInv, Pages!Next PROVE PagesInv'
    OBVIOUS
  <2>1. /\ \A c \in Sold : DOMAIN settlements[c] = DOMAIN BatchAmounts[c]
        /\ Pages!NoDay \in Nat
    BY LoadedIs DEF PagesInv, LoadedGood, Settled, Pages!NoDay
  <2> QED BY <2>1, PagesAssumption, PapersAssumption, PageReaches, PageSigns, PagePlans, PageCollects, PageInsures, PageWaits
      DEF Pages!Next
<1>2. PagesInv /\ UNCHANGED Pages!vars => PagesInv'
  BY PagesIdle DEF Pages!vars, pageVars
<1> QED BY <1>1, <1>2

LEMMA LanesInitGood == PagesInit /\ today = 1 => PagesInv
<1> SUFFICES ASSUME PagesInit, today = 1 PROVE LoadedGood(Pages!LoadCustomers)
  BY DEF PagesInv
<1>1. \A c \in Sold : Settled(settlements[c], c, 1)
  BY DEF PagesInit, Settled, SettlementRow, Pages!NoReceipt, Pages!NoDay, Pages!NoAmount, NoAmount
<1>2. covers \in Seq(Cover)
  BY LanesAssumption DEF PagesInit, Cover, FourSold
<1>3. deals \in [Sold -> Deal] /\ \A c \in Sold : ~deals[c].signed => deals[c] = Pages!NoContract
  <2> DEFINE menu == {Pages!NoContract, SaleOf(3, 1), SaleOf(4, 1), SaleOf(4, Pages!NoDay)}
  <2>1. \A d \in menu : d \in Deal /\ (~d.signed => d = Pages!NoContract)
    <3>1. \A d \in menu : d = [signed |-> FALSE, amount |-> 0, usd |-> TRUE, due |-> 0]
                          \/ \E a \in {3, 4}, due \in {0, 1} : d = [signed |-> TRUE, amount |-> a, usd |-> TRUE, due |-> due]
      BY DEF SaleOf, Pages!NoContract, Pages!NoDay
    <3> HIDE DEF menu
    <3> SUFFICES ASSUME NEW d \in menu PROVE d \in Deal /\ (~d.signed => d = Pages!NoContract)
      OBVIOUS
    <3>2. CASE d = [signed |-> FALSE, amount |-> 0, usd |-> TRUE, due |-> 0]
      BY <3>2 DEF Deal, Pages!NoContract, Pages!NoDay
    <3>3. ASSUME NEW a \in {3, 4}, NEW due \in {0, 1}, d = [signed |-> TRUE, amount |-> a, usd |-> TRUE, due |-> due]
          PROVE  d \in Deal /\ d.signed
      BY <3>3 DEF Deal
    <3> QED BY <3>1, <3>2, <3>3
  <2>2. deals \in [Sold -> menu]
    BY DEF PagesInit
  <2> HIDE DEF menu
  <2> QED BY <2>1, <2>2
<1>4. reached \in SUBSET Sold /\ cost \in [Sold -> Nat]
  BY LanesAssumption DEF PagesInit, FourSold
<1> QED BY <1>1, <1>2, <1>3, <1>4, LoadedIs DEF PagesInit, LoadedGood

LEMMA LanesStay == PagesInv /\ PagesNext => PagesInv'
<1> SUFFICES ASSUME PagesInv, PagesNext PROVE PagesInv'
  OBVIOUS
<1>1. reached \in SUBSET Sold /\ Pages!NoDay \in Nat /\ "a2" \in Sold /\ "a3" \in Sold
  BY LanesAssumption, LoadedIs DEF PagesInv, LoadedGood, Pages!NoDay, FourSold
<1>2. CASE CollectPage
  BY <1>1, <1>2, PageCollects DEF CollectPage
<1>3. ASSUME NEW usd \in BOOLEAN, PageTerms(usd) PROVE PagesInv'
  BY <1>1, <1>3, PagesAssumption, PapersAssumption, PageSigns, PagePlans, PageInsures DEF PageTerms
<1> QED BY <1>1, <1>2, <1>3, PageWaits, PageReaches DEF PagesNext

(***************************************************************************)
(* The scores.  A larger share is not rounded to less.                     *)
(***************************************************************************)
LEMMA RoundedGrows ==
  ASSUME NEW n \in Nat, NEW d \in Nat \ {0}, NEW m \in Nat, NEW e \in Nat \ {0}, n * e <= m * d
  PROVE  /\ Pages!Rounded(n, d) \in Nat /\ Pages!Rounded(m, e) \in Nat
         /\ Pages!Rounded(n, d) <= Pages!Rounded(m, e)
<1> DEFINE a == 2 * n + d
           b == 2 * d
           k == 2 * m + e
           l == 2 * e
<1>1. a \in Nat /\ b \in Nat \ {0} /\ k \in Nat /\ l \in Nat \ {0}
  OBVIOUS
<1>2. a * l <= k * b
  <2>1. a * l = 4 * (n * e) + 2 * (d * e)
    OBVIOUS
  <2>2. k * b = 4 * (m * d) + 2 * (d * e)
    OBVIOUS
  <2>3. PICK x \in Int, y \in Int, z \in Int : x = n * e /\ y = m * d /\ z = d * e
    OBVIOUS
  <2> QED BY <2>1, <2>2, <2>3
<1>3. Pages!Rounded(n, d) = a \div b /\ Pages!Rounded(m, e) = k \div l
  BY DEF Pages!Rounded
<1> HIDE DEF a, b, k, l
<1>4. PICK q \in Int, p \in Int : q = a \div b /\ p = k \div l
  BY <1>1
<1>5. b * q <= a /\ k < l * (p + 1) /\ q >= 0 /\ p >= 0
  BY <1>1, <1>4
<1>6. q <= p
  <2> SUFFICES ASSUME q >= p + 1 PROVE FALSE
    BY <1>4
  <2>1. b * (p + 1) <= b * q
    BY <1>1, <1>4
  <2>2. b * (p + 1) <= a
    BY <2>1, <1>1, <1>4, <1>5
  <2>3. (b * (p + 1)) * l <= a * l
    BY <2>2, <1>1, <1>4
  <2>4. k * b < (l * (p + 1)) * b
    BY <1>1, <1>4, <1>5
  <2>5. (l * (p + 1)) * b = (b * (p + 1)) * l
    BY <1>1, <1>4
  <2>6. PICK x \in Int, y \in Int, z \in Int, w \in Int :
          x = a * l /\ y = k * b /\ z = (b * (p + 1)) * l /\ w = (l * (p + 1)) * b
    BY <1>1, <1>4
  <2> QED BY <1>2, <2>3, <2>4, <2>5, <2>6
<1> QED BY <1>3, <1>4, <1>5, <1>6

(* Facts of which the second differ from the first by what was paid only,  *)
(* and are no worse.                                                       *)
Graded(f) ==
  /\ f.sales \in Int /\ f.gross \in Int /\ f.onTime \in Nat /\ f.overdue \in Nat
  /\ f.limit \in Nat /\ f.remaining \in Nat /\ (f.limit = 0 => f.band = "NONE")
Alike(f, g) ==
  /\ f.sales = g.sales /\ f.gross = g.gross /\ (f.profitKnown <=> g.profitKnown)
  /\ f.limit = g.limit /\ (f.limitUsd <=> g.limitUsd)
OccupancyPoints(band) ==
  CASE band = "NONE" -> 4
    [] band = "WITHIN_LIMIT" -> 8
    [] band \in {"BELOW_MEDIUM", "MEDIUM"} -> 5
    [] band = "HIGH" -> 2
    [] OTHER -> 0
NoWorse(f, g) ==
  /\ f.onTime <= g.onTime /\ g.overdue <= f.overdue
  /\ g.aging.long => f.aging.long
  /\ g.aging.veryLong => f.aging.veryLong
  /\ OccupancyPoints(f.band) <= OccupancyPoints(g.band)
  /\ f.remaining <= g.remaining

OnTimePoints(on, late) == IF on + late = 0 THEN 6 ELSE Pages!Rounded(12 * on, on + late)
LEMMA OnTimeGrows ==
  ASSUME NEW m \in Nat, NEW n \in Nat, NEW k \in Nat, NEW l \in Nat, m <= n, l <= k
  PROVE  OnTimePoints(m, k) \in Nat /\ OnTimePoints(n, l) \in Nat /\ OnTimePoints(m, k) <= OnTimePoints(n, l)
<1>1. CASE m + k = 0 /\ n + l = 0
  BY <1>1 DEF OnTimePoints
<1>2. CASE m + k = 0 /\ n + l # 0
  <2>1. m = 0 /\ k = 0 /\ l = 0 /\ n \in Nat \ {0}
    BY <1>2
  <2>2. OnTimePoints(n, l) = Pages!Rounded(12 * n, n)
    BY <2>1 DEF OnTimePoints
  <2>3. Pages!Rounded(12, 1) <= Pages!Rounded(12 * n, n) /\ Pages!Rounded(12 * n, n) \in Nat
    BY <2>1, RoundedGrows
  <2>4. Pages!Rounded(12, 1) = 12
    BY DEF Pages!Rounded
  <2> QED BY <1>2, <2>2, <2>3, <2>4 DEF OnTimePoints
<1>3. CASE m + k # 0 /\ n + l = 0
  <2>1. m = 0 /\ n = 0 /\ l = 0 /\ k \in Nat \ {0}
    BY <1>3
  <2>2. OnTimePoints(m, k) = Pages!Rounded(0, k)
    BY <2>1 DEF OnTimePoints
  <2>3. Pages!Rounded(0, k) <= Pages!Rounded(6, 1) /\ Pages!Rounded(0, k) \in Nat
    BY <2>1, RoundedGrows
  <2>4. Pages!Rounded(6, 1) = 6
    BY DEF Pages!Rounded
  <2> QED BY <1>3, <2>2, <2>3, <2>4 DEF OnTimePoints
<1>4. CASE m + k # 0 /\ n + l # 0
  <2>1. (12 * m) * (n + l) <= (12 * n) * (m + k)
    <3>1. m * l <= n * l /\ n * l <= n * k
      OBVIOUS
    <3>2. (12 * m) * (n + l) = 12 * (m * n) + 12 * (m * l) /\ (12 * n) * (m + k) = 12 * (m * n) + 12 * (n * k)
      OBVIOUS
    <3>3. PICK x \in Int, y \in Int, z \in Int, w \in Int : x = m * n /\ y = m * l /\ z = n * l /\ w = n * k
      OBVIOUS
    <3> QED BY <3>1, <3>2, <3>3
  <2>2. 12 * m \in Nat /\ 12 * n \in Nat /\ m + k \in Nat \ {0} /\ n + l \in Nat \ {0}
    BY <1>4
  <2> QED BY <1>4, <2>1, <2>2, RoundedGrows DEF OnTimePoints
<1> QED BY <1>1, <1>2, <1>3, <1>4

LEMMA RiskGrows ==
  ASSUME NEW f, NEW g, Graded(f), Graded(g), Alike(f, g), NoWorse(f, g)
  PROVE  Pages!RiskScore(f) \in Int /\ Pages!RiskScore(g) \in Int /\ Pages!RiskScore(f) <= Pages!RiskScore(g)
<1> DEFINE aging(h) == IF h.aging.veryLong THEN 0 ELSE IF h.aging.long THEN 4 ELSE 10
           band(h) == OccupancyPoints(h.band)
<1>1. ASSUME NEW h, h.limit = 0 => h.band = "NONE"
      PROVE  Pages!RiskScore(h) = OnTimePoints(h.onTime, h.overdue) + aging(h) + band(h)
  BY <1>1 DEF Pages!RiskScore, OnTimePoints, OccupancyPoints, Pages!Unregistered
<1>2. aging(f) <= aging(g) /\ aging(f) \in Int /\ aging(g) \in Int
  BY DEF NoWorse
<1>3. band(f) <= band(g) /\ band(f) \in Int /\ band(g) \in Int
  BY DEF NoWorse, Alike, OccupancyPoints
<1>4. PICK m \in Nat, n \in Nat : /\ m = OnTimePoints(f.onTime, f.overdue) /\ n = OnTimePoints(g.onTime, g.overdue)
                                  /\ m <= n
  <2>1. f.onTime \in Nat /\ f.overdue \in Nat /\ g.onTime \in Nat /\ g.overdue \in Nat
        /\ f.onTime <= g.onTime /\ g.overdue <= f.overdue
    BY DEF Graded, NoWorse
  <2>2. PICK a \in Nat, b \in Nat, c \in Nat, d \in Nat :
          a = f.onTime /\ b = f.overdue /\ c = g.onTime /\ d = g.overdue /\ a <= c /\ d <= b
    BY <2>1
  <2>3. OnTimePoints(a, b) \in Nat /\ OnTimePoints(c, d) \in Nat /\ OnTimePoints(a, b) <= OnTimePoints(c, d)
    BY <2>2, OnTimeGrows
  <2> QED BY <2>2, <2>3
<1> HIDE DEF aging, band
<1>5. Pages!RiskScore(f) = m + aging(f) + band(f) /\ Pages!RiskScore(g) = n + aging(g) + band(g)
  BY <1>1, <1>4 DEF Graded
<1> QED BY <1>2, <1>3, <1>4, <1>5

(* A percentile is a fraction.                                             *)
Fraction(p) == p.num \in Nat /\ p.den \in Nat \ {0}
LEMMA PercentileIs ==
  ASSUME NEW v, NEW values, IsFiniteSet(values)
  PROVE  Fraction(Pages!Percentile(v, values))
<1> DEFINE less == {p \in values : p[2] < v}
           equal == {p \in values : p[2] = v}
<1>1. \A T : Pages!Cardinality(T) = Cardinality(T)
  BY DEF Pages!Cardinality, Cardinality
<1>2. CASE values = {}
  BY <1>2 DEF Pages!Percentile, Fraction
<1>3. CASE values # {}
  <2>1. Pages!Percentile(v, values) =
          [num |-> 2 * Cardinality(less) + Cardinality(equal), den |-> 2 * Cardinality(values)]
    BY <1>1, <1>3 DEF Pages!Percentile
  <2> HIDE DEF less, equal
  <2>2. Cardinality(less) \in Nat /\ Cardinality(equal) \in Nat /\ Cardinality(values) \in Nat
    <3>1. less \subseteq values /\ equal \subseteq values
      BY DEF less, equal
    <3> QED BY <3>1, FS_Subset, FS_CardinalityType
  <2>3. Cardinality(values) # 0
    BY <1>3, FS_EmptySet
  <2> QED BY <2>1, <2>2, <2>3 DEF Fraction
<1> QED BY <1>2, <1>3

SalesOf(peers) == {<<p[1], p[2].sales>> : p \in peers}
KnownOf(peers) == {<<p[1], p[2].gross>> : p \in {q \in peers : q[2].profitKnown}}
LimitsOf(peers) == {<<p[1], p[2].limit>> : p \in {q \in peers : q[2].limit > 0}}

LEMMA ScoreOfFractions ==
  ASSUME NEW p, NEW q, Fraction(p), Fraction(q)
  PROVE  /\ Pages!Rounded(35 * p.num * q.den + 15 * q.num * p.den, p.den * q.den) \in Nat
         /\ Pages!Rounded(15 * q.num, q.den) \in Nat
<1>1. PICK a \in Nat, b \in Nat \ {0}, c \in Nat, d \in Nat \ {0} : a = p.num /\ b = p.den /\ c = q.num /\ d = q.den
  BY DEF Fraction
<1>2. 35 * a * d + 15 * c * b \in Nat /\ b * d \in Nat \ {0} /\ 15 * c \in Nat
  <2>1. PICK x \in Nat, y \in Nat, z \in Nat \ {0} : x = a * d /\ y = c * b /\ z = b * d
    OBVIOUS
  <2>2. 35 * a * d = 35 * x /\ 15 * c * b = 15 * y
    BY <2>1
  <2> QED BY <2>1, <2>2
<1>3. \A n \in Nat, m \in Nat \ {0} : Pages!Rounded(n, m) \in Nat
  <2> SUFFICES ASSUME NEW n \in Nat, NEW m \in Nat \ {0} PROVE Pages!Rounded(n, m) \in Nat
    OBVIOUS
  <2>1. n * m <= n * m
    OBVIOUS
  <2> QED BY <2>1, RoundedGrows
<1> QED BY <1>1, <1>2, <1>3

LEMMA ValueStays ==
  ASSUME NEW f, NEW g, Alike(f, g), NEW P, NEW Q,
         SalesOf(P) = SalesOf(Q), KnownOf(P) = KnownOf(Q), IsFiniteSet(SalesOf(P)), IsFiniteSet(KnownOf(P))
  PROVE  /\ Pages!ValueScore(f, P).score \in Nat
         /\ Pages!ValueScore(f, P).score = Pages!ValueScore(g, Q).score
         /\ Pages!ValueScore(f, P).low <=> Pages!ValueScore(g, Q).low
<1> DEFINE sold == Pages!Percentile(f.sales, SalesOf(P))
           won == Pages!Percentile(f.gross, Pages!OrSelf(KnownOf(P), f.gross))
<1> HIDE DEF sold, won
<1>1. ASSUME NEW h, NEW R, SalesOf(R) = SalesOf(P), KnownOf(R) = KnownOf(P), h.sales = f.sales, h.gross = f.gross,
             h.profitKnown <=> f.profitKnown
      PROVE  /\ Pages!ValueScore(h, R).score = IF f.profitKnown
                THEN Pages!Rounded(35 * won.num * sold.den + 15 * sold.num * won.den, won.den * sold.den)
                ELSE Pages!Rounded(15 * sold.num, sold.den)
             /\ Pages!ValueScore(h, R).low <=> (f.profitKnown => won.num * 100 < 40 * won.den)
  BY <1>1 DEF Pages!ValueScore, SalesOf, KnownOf, sold, won
<1>2. Fraction(sold) /\ Fraction(won)
  <2>1. IsFiniteSet(Pages!OrSelf(KnownOf(P), f.gross))
    BY FS_Singleton DEF Pages!OrSelf
  <2> QED BY <2>1, PercentileIs DEF sold, won
<1>3. /\ Pages!Rounded(35 * won.num * sold.den + 15 * sold.num * won.den, won.den * sold.den) \in Nat
      /\ Pages!Rounded(15 * sold.num, sold.den) \in Nat
  BY <1>2, ScoreOfFractions
<1> QED BY <1>1, <1>3 DEF Alike

LEMMA CreditGrows ==
  ASSUME NEW f, NEW g, Graded(f), Graded(g), Alike(f, g), NoWorse(f, g), NEW P, NEW Q,
         LimitsOf(P) = LimitsOf(Q), IsFiniteSet(LimitsOf(P))
  PROVE  /\ Pages!CreditScore(f, P) \in Int /\ Pages!CreditScore(g, Q) \in Int
         /\ Pages!CreditScore(f, P) <= Pages!CreditScore(g, Q)
<1> DEFINE share == Pages!Percentile(f.limit, Pages!OrSelf(LimitsOf(P), f.limit))
           tenths == IF Pages!LowUsdLimit(f) THEN 9 ELSE 10
           points(h) == Pages!Rounded(tenths * (12 * share.num * f.limit + 8 * h.remaining * share.den), 10 * share.den * f.limit)
<1>1. Fraction(share)
  <2>1. IsFiniteSet(Pages!OrSelf(LimitsOf(P), f.limit))
    BY FS_Singleton DEF Pages!OrSelf
  <2> QED BY <2>1, PercentileIs
<1> HIDE DEF share
<1>2. (Pages!LowUsdLimit(f) <=> Pages!LowUsdLimit(g)) /\ (Pages!Unregistered(f) <=> f.limit = 0)
      /\ (Pages!Unregistered(g) <=> f.limit = 0)
  BY DEF Pages!LowUsdLimit, Pages!Unregistered, Alike
<1> HIDE DEF tenths
<1>t. tenths \in {9, 10} /\ tenths = IF Pages!LowUsdLimit(g) THEN 9 ELSE 10
  BY <1>2 DEF tenths
<1>3. CASE f.limit = 0
  BY <1>2, <1>3 DEF Pages!CreditScore
<1>4. CASE f.limit # 0
  <2>1. Pages!CreditScore(f, P) = points(f)
    BY <1>2, <1>4 DEF Pages!CreditScore, share, tenths, LimitsOf
  <2>2. Pages!CreditScore(g, Q) = points(g)
    BY <1>2, <1>4, <1>t DEF Pages!CreditScore, share, LimitsOf, Alike
  <2>3. PICK a \in Nat, b \in Nat \ {0}, l \in Nat \ {0}, r \in Nat, s \in Nat, t \in Nat :
          a = share.num /\ b = share.den /\ l = f.limit /\ r = f.remaining /\ s = g.remaining /\ t = tenths /\ r <= s
    BY <1>1, <1>4, <1>t DEF Fraction, Graded, NoWorse
  <2> DEFINE n == t * (12 * a * l + 8 * r * b)
             m == t * (12 * a * l + 8 * s * b)
             d == 10 * b * l
  <2>4. n \in Nat /\ m \in Nat /\ d \in Nat \ {0} /\ n <= m
    <3>1. PICK x \in Nat, y \in Nat, z \in Nat, w \in Nat \ {0} : x = a * l /\ y = r * b /\ z = s * b /\ w = b * l
      OBVIOUS
    <3>2. y <= z
      BY <2>3, <3>1
    <3>3. n = t * (12 * x + 8 * y) /\ m = t * (12 * x + 8 * z) /\ d = 10 * w
      BY <3>1
    <3>4. PICK u \in Nat, v \in Nat : u = 12 * x + 8 * y /\ v = 12 * x + 8 * z /\ u <= v
      BY <3>2
    <3>5. t * u \in Nat /\ t * v \in Nat /\ t * u <= t * v
      BY <3>4
    <3> QED BY <3>1, <3>3, <3>4, <3>5
  <2> HIDE DEF n, m, d
  <2>5. n * d <= m * d
    BY <2>4
  <2>6. Pages!Rounded(n, d) \in Nat /\ Pages!Rounded(m, d) \in Nat /\ Pages!Rounded(n, d) <= Pages!Rounded(m, d)
    BY <2>4, <2>5, RoundedGrows
  <2>7. points(f) = Pages!Rounded(n, d) /\ points(g) = Pages!Rounded(m, d)
    BY <2>3 DEF n, m, d
  <2> HIDE DEF points
  <2> QED BY <2>1, <2>2, <2>6, <2>7
<1> QED BY <1>3, <1>4

LEMMA CapsKeepOrder ==
  ASSUME NEW m \in Int, NEW n \in Int, m <= n, NEW f, NEW g, Alike(f, g), NEW low, NEW poor, low <=> poor
  PROVE  Pages!ApplyGradeCaps(m, f, low) <= Pages!ApplyGradeCaps(n, g, poor)
<1> DEFINE bars(k) == {bar \in {40, 55, 70, 85} : k >= bar}
<1>1. \A T : Pages!Cardinality(T) = Cardinality(T)
  BY DEF Pages!Cardinality, Cardinality
<1>2. PICK a \in Nat, b \in Nat : a = Cardinality(bars(m)) /\ b = Cardinality(bars(n)) /\ a <= b
  <2>1. IsFiniteSet({40, 55, 70, 85})
    <3> PICK a \in Int, b \in Int : a = 40 /\ b = 85
      OBVIOUS
    <3>1. IsFiniteSet(a..b)
      BY FS_Interval
    <3>2. {40, 55, 70, 85} \subseteq a..b
      OBVIOUS
    <3> QED BY <3>1, <3>2, FS_Subset
  <2>2. bars(m) \subseteq bars(n) /\ bars(n) \subseteq {40, 55, 70, 85}
    OBVIOUS
  <2> HIDE DEF bars
  <2>3. IsFiniteSet(bars(n)) /\ IsFiniteSet(bars(m))
    BY <2>1, <2>2, FS_Subset
  <2>4. Cardinality(bars(m)) <= Cardinality(bars(n))
    BY <2>2, <2>3, FS_Subset
  <2> QED BY <2>3, <2>4, FS_CardinalityType
<1>3. ASSUME NEW k, NEW h, NEW c
      PROVE  Pages!ApplyGradeCaps(k, h, c) =
               CASE Pages!Unregistered(h) -> 0
                 [] ~Pages!Unregistered(h) /\ (c \/ Pages!LowUsdLimit(h)) -> Pages!Least(Cardinality(bars(k)), 2)
                 [] OTHER -> Cardinality(bars(k))
  BY <1>1 DEF Pages!ApplyGradeCaps
<1>4. (Pages!LowUsdLimit(f) <=> Pages!LowUsdLimit(g)) /\ (Pages!Unregistered(f) <=> Pages!Unregistered(g))
  BY DEF Pages!LowUsdLimit, Pages!Unregistered, Alike
<1> HIDE DEF bars
<1> QED BY <1>2, <1>3, <1>4 DEF Pages!Least

Comparable(P, Q) ==
  /\ SalesOf(P) = SalesOf(Q) /\ KnownOf(P) = KnownOf(Q) /\ LimitsOf(P) = LimitsOf(Q)
  /\ IsFiniteSet(SalesOf(P)) /\ IsFiniteSet(KnownOf(P)) /\ IsFiniteSet(LimitsOf(P))

(* Of two buyers who differ in what was paid only, the one who is no worse *)
(* has no lower grade.                                                     *)
LEMMA GradeGrows ==
  ASSUME NEW f, NEW g, Graded(f), Graded(g), Alike(f, g), NoWorse(f, g), NEW P, NEW Q, Comparable(P, Q)
  PROVE  Pages!Evaluate(f, P).grade <= Pages!Evaluate(g, Q).grade
<1> DEFINE total(h, R) == Pages!ValueScore(h, R).score + Pages!RiskScore(h) + Pages!CreditScore(h, R)
<1>1. \A h, R : Pages!Evaluate(h, R).grade = Pages!ApplyGradeCaps(total(h, R), h, Pages!ValueScore(h, R).low)
  BY DEF Pages!Evaluate
<1>2. /\ Pages!ValueScore(f, P).score \in Nat
      /\ Pages!ValueScore(f, P).score = Pages!ValueScore(g, Q).score
      /\ Pages!ValueScore(f, P).low <=> Pages!ValueScore(g, Q).low
  BY ValueStays DEF Comparable
<1>3. /\ Pages!CreditScore(f, P) \in Int /\ Pages!CreditScore(g, Q) \in Int
      /\ Pages!CreditScore(f, P) <= Pages!CreditScore(g, Q)
  BY CreditGrows DEF Comparable
<1>4. Pages!RiskScore(f) \in Int /\ Pages!RiskScore(g) \in Int /\ Pages!RiskScore(f) <= Pages!RiskScore(g)
  BY RiskGrows
<1>5. PICK m \in Int, n \in Int : m = total(f, P) /\ n = total(g, Q) /\ m <= n
  BY <1>2, <1>3, <1>4
<1> HIDE DEF total
<1>6. Pages!ApplyGradeCaps(m, f, Pages!ValueScore(f, P).low) <= Pages!ApplyGradeCaps(n, g, Pages!ValueScore(g, Q).low)
  BY <1>2, <1>5, CapsKeepOrder
<1> QED BY <1>1, <1>5, <1>6

(***************************************************************************)
(* The facts the scores are made of, as sums over cases.                   *)
(***************************************************************************)
SalesRows(S) == {s \in S : s.amount > 0 /\ s.usd}
SoldCases(db, b) == {c \in Pages!CasesOf(db, b) : db.contract[c].amount > 0 /\ db.contract[c].usd}
AmountsOf(db) == [c \in Sold |-> db.contract[c].amount]

LEMMA SalesSums ==
  ASSUME NEW S, NEW sino, NEW limit, NEW now
  PROVE  LET T == SalesRows(S)
             F == Pages!FactsFromCases(S, sino, limit, now)
         IN /\ F.sales = SumOf([s \in T |-> s.amount], T)
            /\ F.gross = SumOf([s \in T |-> s.amount], T) - SumOf([s \in T |-> s.cost], T)
            /\ F.profitKnown <=> (T # {} /\ \A s \in T : s.cost > 0)
<1> DEFINE T == SalesRows(S)
           sold == {s \in S : s.amount > 0 /\ s.usd}
<1>0. sold = T
  BY DEF SalesRows
<1>1. Pages!MapThenSumSet(LAMBDA s : s.amount, T) = SumOf([s \in T |-> s.amount], T)
  <2> HIDE DEF T
  <2> QED BY DEF Pages!MapThenSumSet, Pages!MapThenFoldSet, SumOf, SumFcn, SumTo, Pick
<1>2. Pages!MapThenSumSet(LAMBDA s : s.cost, T) = SumOf([s \in T |-> s.cost], T)
  <2> HIDE DEF T
  <2> QED BY DEF Pages!MapThenSumSet, Pages!MapThenFoldSet, SumOf, SumFcn, SumTo, Pick
<1>3. Pages!FactsFromCases(S, sino, limit, now) =
        [sales |-> Pages!MapThenSumSet(LAMBDA s : s.amount, sold),
         profitKnown |-> sold # {} /\ \A s \in sold : s.cost > 0,
         gross |-> Pages!MapThenSumSet(LAMBDA s : s.amount, sold) - Pages!MapThenSumSet(LAMBDA s : s.cost, sold),
         onTime |-> Pages!Cardinality({s \in S : s.code = "ON_TIME"}),
         overdue |-> Pages!Cardinality({s \in S : s.code = "OVERDUE"}),
         aging |-> Pages!AgingUnpaid(S, now),
         limit |-> limit.limit, limitUsd |-> limit.usd,
         remaining |-> sino.remaining, band |-> sino.band]
  <2> HIDE DEF T
  <2> QED BY DEF Pages!FactsFromCases, Pages!MapThenSumSet, Pages!MapThenFoldSet
<1> DEFINE a == SumOf([s \in T |-> s.amount], T)
           k == SumOf([s \in T |-> s.cost], T)
<1>4. Pages!FactsFromCases(S, sino, limit, now) =
        [sales |-> a, profitKnown |-> T # {} /\ \A s \in T : s.cost > 0, gross |-> a - k,
         onTime |-> Pages!Cardinality({s \in S : s.code = "ON_TIME"}),
         overdue |-> Pages!Cardinality({s \in S : s.code = "OVERDUE"}),
         aging |-> Pages!AgingUnpaid(S, now),
         limit |-> limit.limit, limitUsd |-> limit.usd,
         remaining |-> sino.remaining, band |-> sino.band]
  <2> HIDE DEF T, sold
  <2>1. Pages!MapThenSumSet(LAMBDA s : s.amount, sold) = a
    BY <1>0, <1>1
  <2>2. Pages!MapThenSumSet(LAMBDA s : s.cost, sold) = k
    BY <1>0, <1>2
  <2> HIDE DEF a, k
  <2> QED BY <1>0, <1>3, <2>1, <2>2, Zenon
<1> HIDE DEF a, k
<1> DEFINE F == Pages!FactsFromCases(S, sino, limit, now)
<1> HIDE DEF T, F
<1>5. F.sales = a /\ F.gross = a - k
  BY <1>4 DEF F
<1>6. F.profitKnown = (T # {} /\ \A s \in T : s.cost > 0)
  BY <1>4 DEF F
<1> QED BY <1>5, <1>6 DEF a, k, T, F

(* A buyer's sales are the amounts of the cases sold, whatever is paid.    *)
LEMMA SoldIs ==
  ASSUME NEW db, LoadedGood(db), NEW b
  PROVE  LET U == SoldCases(db, b)
             F == Pages!FactsOf(db, b)
         IN /\ IsFiniteSet(U)
            /\ F.sales = SumOf(AmountsOf(db), U) /\ F.sales \in Int
            /\ F.gross = SumOf(AmountsOf(db), U) - SumOf(db.cost, U) /\ F.gross \in Int
            /\ F.profitKnown <=> (U # {} /\ \A c \in U : db.cost[c] > 0)
<1> DEFINE U == SoldCases(db, b)
           T == SalesRows(Pages!Slices(db, b))
           F == Pages!FactsOf(db, b)
           r == [c \in U |-> SliceOf(db, c)]
           fa == [s \in T |-> s.amount]
           fc == [s \in T |-> s.cost]
<1>1. IsFiniteSet(U) /\ U \subseteq Sold
  BY CasesFinite, FS_Subset DEF SoldCases
<1>2. \A c : /\ SliceOf(db, c).amount = db.contract[c].amount /\ SliceOf(db, c).usd = db.contract[c].usd
             /\ SliceOf(db, c).cost = db.cost[c] /\ SliceOf(db, c).case = c
  BY DEF SliceOf
<1>3. T = {SliceOf(db, c) : c \in U}
  BY <1>2, SlicesAre DEF SalesRows, SoldCases
<1> HIDE DEF T, U
<1>4. r \in Bijection(U, T)
  <2>1. \A c, d \in U : SliceOf(db, c) = SliceOf(db, d) => c = d
    BY <1>2
  <2> QED BY <1>3, <2>1 DEF Bijection, Injection, Surjection, IsInjective
<1>5. IsFiniteSet(T)
  <2>1. ExistsBijection(U, T)
    BY <1>4 DEF ExistsBijection
  <2> QED BY <1>1, <2>1, FS_Bijection
<1>6. \A c \in U : r[c] = SliceOf(db, c) /\ SliceOf(db, c) \in T
  BY <1>3
<1> HIDE DEF r
<1>7. \A c \in U : db.contract[c].amount \in Int /\ db.cost[c] \in Int
  BY <1>1 DEF LoadedGood, Deal
<1>8. \A c \in U : AmountsOf(db)[c] \in Int /\ AmountsOf(db)[c] = fa[r[c]]
  BY <1>1, <1>2, <1>6, <1>7 DEF AmountsOf
<1>9. \A c \in U : db.cost[c] \in Int /\ db.cost[c] = fc[r[c]]
  BY <1>1, <1>2, <1>6, <1>7
<1> HIDE DEF fa, fc
<1>10. SumOf(AmountsOf(db), U) = SumOf(fa, T)
  BY <1>1, <1>4, <1>5, <1>8, SumOfRenamed
<1>11. SumOf(db.cost, U) = SumOf(fc, T)
  BY <1>1, <1>4, <1>5, <1>9, SumOfRenamed
<1>12. SumOf(AmountsOf(db), U) \in Int /\ SumOf(db.cost, U) \in Int
  BY <1>1, <1>8, <1>9, SumOfInt
<1>13. F.sales = SumOf(fa, T) /\ F.gross = SumOf(fa, T) - SumOf(fc, T)
       /\ (F.profitKnown <=> (T # {} /\ \A s \in T : s.cost > 0))
  BY SalesSums, FactsAre DEF T, fa, fc
<1>14. (T # {} /\ \A s \in T : s.cost > 0) <=> (U # {} /\ \A c \in U : db.cost[c] > 0)
  BY <1>2, <1>3
<1> HIDE DEF F
<1>15. PICK m \in Int, n \in Int : m = SumOf(AmountsOf(db), U) /\ n = SumOf(db.cost, U)
  BY <1>12
<1>16. F.sales = m /\ F.gross = m - n
  BY <1>10, <1>11, <1>13, <1>15
<1>17. F.sales \in Int /\ F.gross \in Int
  BY <1>16
<1>18. F.profitKnown <=> (U # {} /\ \A c \in U : db.cost[c] > 0)
  BY <1>13, <1>14
<1> QED BY <1>1, <1>15, <1>16, <1>17, <1>18 DEF F, U

(***************************************************************************)
(* What is unpaid of a case.                                               *)
(***************************************************************************)
LEMMA UnpaidIs ==
  ASSUME NEW db, LoadedGood(db), NEW c \in Sold
  PROVE  /\ Pages!MoneyOf(db, c).unpaid \in Nat
         /\ db.contract[c].amount = 0 => Pages!MoneyOf(db, c).unpaid = 0
<1> DEFINE total == db.contract[c].amount
           sole == Len(BatchAmounts[c]) = 1
           got(i) == Pages!ReceivedFenForBatch(Pages!Receipt(db, c, i), total, sole)
           rows == [i \in DOMAIN BatchAmounts[c] |->
                     [amount |-> Pages!AtLeastZero(BatchAmounts[c][i]), shipped |-> FALSE, received |-> got(i)]]
<1>1. total \in Nat /\ BatchAmounts[c] \in Seq(Nat \cup {NoAmount})
  BY PagesAssumption DEF LoadedGood, Deal
<1>2. \A i \in DOMAIN BatchAmounts[c] : db.settlements[c][i] \in SettlementRow
  <2>1. Settled(db.settlements[c], c, db.now)
    BY DEF LoadedGood
  <2> QED BY <2>1 DEF Settled
<1>3. \A i \in DOMAIN BatchAmounts[c] : BatchAmounts[c][i] \in Nat \cup {NoAmount}
  BY <1>1
<1>4. \A i \in DOMAIN BatchAmounts[c] : got(i) \in Nat
  <2> SUFFICES ASSUME NEW i \in DOMAIN BatchAmounts[c] PROVE got(i) \in Nat
    OBVIOUS
  <2>1. db.settlements[c][i].amount \in Nat \cup {NoAmount}
    BY <1>2 DEF SettlementRow
  <2> QED BY <1>1, <1>3, <2>1 DEF Pages!ReceivedFenForBatch, Pages!ReceivedFenOf, Pages!Receipt, Pages!NoAmount, NoAmount
<1>5. \A i \in DOMAIN BatchAmounts[c] : Pages!AtLeastZero(BatchAmounts[c][i]) \in Nat
  BY <1>3 DEF Pages!AtLeastZero, NoAmount
<1>6. DOMAIN rows = DOMAIN BatchAmounts[c]
  OBVIOUS
<1>7. \A i \in DOMAIN rows : rows[i].amount \in Int /\ rows[i].received \in Nat
  <2> HIDE DEF got
  <2> QED BY <1>4, <1>5
<1>8. IsFiniteSet(DOMAIN rows)
  <2>1. PICK n \in Nat : DOMAIN BatchAmounts[c] = 1..n
    BY <1>1
  <2> QED BY <1>6, <2>1, FS_Interval
<1>9. Pages!PortionsOf(db, c) = Pages!ContractOccupancyPortions(total, rows)
  BY DEF Pages!PortionsOf
<1> HIDE DEF rows
<1>10. Pages!ContractOccupancyPortions(total, rows) = ContractOccupancyPortions(total, rows)
  BY DEF Pages!ContractOccupancyPortions, ContractOccupancyPortions, Pages!Total, Total, Pages!UnpaidFenOf,
         UnpaidFenOf, Pages!AtLeastZero, AtLeastZero, Pages!Least, Least, Pages!MapThenSumSet, MapThenSumSet,
         Pages!MapThenFoldSet, MapThenFoldSet
<1>11. LET p == ContractOccupancyPortions(total, rows)
       IN /\ p.open \in Nat /\ p.fulfilled \in Nat /\ p.open + p.fulfilled \in Nat
          /\ total = 0 => p.open + p.fulfilled = 0
  <2> PICK t \in Int : t = total
    BY <1>1
  <2> DEFINE p == ContractOccupancyPortions(t, rows)
             taken == SumOf([i \in DOMAIN rows |-> rows[i].received], DOMAIN rows)
  <2>1. taken \in Nat /\ p.open \in Nat /\ p.fulfilled \in Nat /\ p.open + p.fulfilled = UnpaidFenOf(t, taken)
    BY <1>7, <1>8, PortionsAddUp
  <2> HIDE DEF taken, p
  <2>2. UnpaidFenOf(t, taken) \in Nat /\ (t = 0 => UnpaidFenOf(t, taken) = 0)
    BY <2>1 DEF UnpaidFenOf, AtLeastZero
  <2>3. p.open + p.fulfilled \in Nat /\ (t = 0 => p.open + p.fulfilled = 0)
    BY <2>1, <2>2
  <2> QED BY <2>1, <2>3 DEF p
<1>12. Pages!MoneyOf(db, c).unpaid = Pages!PortionsOf(db, c).open + Pages!PortionsOf(db, c).fulfilled
  BY DEF Pages!MoneyOf
<1>13. Pages!MoneyOf(db, c).unpaid = ContractOccupancyPortions(total, rows).open + ContractOccupancyPortions(total, rows).fulfilled
  BY <1>9, <1>10, <1>12
<1> QED BY <1>11, <1>13

(***************************************************************************)
(* The occupancy of a buyer is what is unpaid of the cases signed in US    *)
(* dollars.                                                                *)
(***************************************************************************)
CountedCases(db, b) ==
  {c \in Pages!CasesOf(db, b) : c # "none" /\ db.contract[c].signed /\ db.contract[c].usd}
UnpaidsOf(db) == [c \in Sold |-> Pages!MoneyOf(db, c).unpaid]
LimitOf(db, b) == Pages!LatestSinosure(db, b)

LEMMA OccupancyIs ==
  ASSUME NEW db, LoadedGood(db), NEW b
  PROVE  LET n == SumOf(UnpaidsOf(db), CountedCases(db, b))
             limit == LimitOf(db, b)
             F == Pages!FactsOf(db, b)
         IN /\ n \in Nat
            /\ F.remaining = IF limit.limit > 0 THEN AtLeastZero(limit.limit - n) ELSE 0
            /\ F.band = IF limit.limit > 0 /\ limit.usd THEN BandOfExcessFen(n - limit.limit) ELSE "NONE"
            /\ F.limit = limit.limit /\ F.limitUsd = limit.usd
<1> DEFINE S == Pages!Slices(db, b)
           C == Pages!CasesOf(db, b)
           U == CountedCases(db, b)
           row(s) == [hasContract |-> s.signed, usd |-> s.usd, open |-> s.unpaid, fulfilled |-> 0]
           rows == [c \in {s.case : s \in S} |-> row(CHOOSE s \in S : s.case = c)]
           limit == LimitOf(db, b)
           n == SumOf(UnpaidsOf(db), U)
<1>1. Pages!OccupancyFromCases(S, limit) =
        Pages!EvaluateOccupancy(Pages!SplitOccupancy(rows, "none"), 0, TRUE, limit.limit, limit.usd)
  BY DEF Pages!OccupancyFromCases
<1>2. \A c : SliceOf(db, c).case = c
  BY DEF SliceOf
<1>3. {s.case : s \in S} = C
  BY <1>2, SlicesAre
<1>4. \A c \in C : (CHOOSE s \in S : s.case = c) = SliceOf(db, c)
  BY <1>2, SlicesAre
<1>5. \A c \in C : /\ rows[c].open = Pages!MoneyOf(db, c).unpaid /\ rows[c].fulfilled = 0
                   /\ rows[c].hasContract = db.contract[c].signed /\ rows[c].usd = db.contract[c].usd
  <2>1. \A c \in C : rows[c] = row(SliceOf(db, c))
    BY <1>3, <1>4
  <2>2. \A c : /\ SliceOf(db, c).signed = db.contract[c].signed /\ SliceOf(db, c).usd = db.contract[c].usd
               /\ SliceOf(db, c).unpaid = Pages!MoneyOf(db, c).unpaid
    BY DEF SliceOf
  <2> SUFFICES ASSUME NEW c \in C
               PROVE  /\ rows[c].open = Pages!MoneyOf(db, c).unpaid /\ rows[c].fulfilled = 0
                      /\ rows[c].hasContract = db.contract[c].signed /\ rows[c].usd = db.contract[c].usd
    OBVIOUS
  <2>3. rows[c] = row(SliceOf(db, c))
    BY <2>1
  <2> HIDE DEF rows, C
  <2> QED BY <2>2, <2>3
<1>6. DOMAIN rows = C
  BY <1>3
<1> HIDE DEF rows
<1> DEFINE counted == {c \in DOMAIN rows : c # "none" /\ rows[c].hasContract /\ rows[c].usd}
           f == [c \in counted |-> rows[c].open]
           g == [c \in counted |-> rows[c].fulfilled]
<1>7. Pages!MapThenSumSet(LAMBDA c : rows[c].open, counted) = SumOf(f, counted)
  BY DEF Pages!MapThenSumSet, Pages!MapThenFoldSet, SumOf, SumFcn, SumTo, Pick
<1>8. Pages!MapThenSumSet(LAMBDA c : rows[c].fulfilled, counted) = SumOf(g, counted)
  BY DEF Pages!MapThenSumSet, Pages!MapThenFoldSet, SumOf, SumFcn, SumTo, Pick
<1>9. Pages!SplitOccupancy(rows, "none") = [open |-> SumOf(f, counted), fulfilled |-> SumOf(g, counted)]
  <2> HIDE DEF f, g
  <2> QED BY <1>7, <1>8 DEF Pages!SplitOccupancy
<1>10. counted = U
  BY <1>5, <1>6 DEF CountedCases
<1>11. IsFiniteSet(U) /\ U \subseteq Sold /\ U \subseteq C
  BY CasesFinite, FS_Subset DEF CountedCases
<1>12. \A c \in U : f[c] = UnpaidsOf(db)[c] /\ UnpaidsOf(db)[c] \in Nat /\ g[c] = 0
  BY <1>5, <1>10, <1>11, UnpaidIs DEF UnpaidsOf
<1> HIDE DEF f, g, counted, U
<1>13. SumOf(f, counted) = n /\ n \in Nat
  BY <1>10, <1>11, <1>12, SumOfSame, SumOfNat
<1>14. SumOf(g, counted) = 0
  <2>1. \A c \in U : g[c] \in Int /\ (c \notin {} => g[c] = 0)
    BY <1>12
  <2>2. SumOf(g, U) = SumOf(g, {})
    BY <1>11, <2>1, SumOfRest
  <2> QED BY <1>10, <2>2, SumOfEmpty
<1> HIDE DEF n, S, limit
<1>15. Pages!SplitOccupancy(rows, "none") = [open |-> n, fulfilled |-> 0]
  BY <1>9, <1>13, <1>14
<1> DEFINE E == Pages!OccupancyFromCases(S, limit)
<1>16. /\ E.remaining = IF limit.limit > 0 THEN AtLeastZero(limit.limit - n) ELSE 0
       /\ E.band = IF limit.limit > 0 /\ limit.usd THEN BandOfExcessFen(n - limit.limit) ELSE "NONE"
  <2>1. E = Pages!EvaluateOccupancy([open |-> n, fulfilled |-> 0], 0, TRUE, limit.limit, limit.usd)
    BY <1>1, <1>15
  <2>2. n + 0 + 0 = n
    BY <1>13
  <2> HIDE DEF E
  <2> QED BY <2>1, <2>2 DEF Pages!EvaluateOccupancy, Pages!AtLeastZero, AtLeastZero, Pages!BandOfExcessFen, BandOfExcessFen
<1> HIDE DEF E
<1>17. Pages!FactsOf(db, b) = Pages!FactsFromCases(S, E, limit, db.now)
  BY FactsAre DEF E, S, limit, LimitOf
<1>18. /\ Pages!FactsOf(db, b).remaining = E.remaining /\ Pages!FactsOf(db, b).band = E.band
       /\ Pages!FactsOf(db, b).limit = limit.limit /\ Pages!FactsOf(db, b).limitUsd = limit.usd
  <2> DEFINE G == Pages!FactsFromCases(S, E, limit, db.now)
  <2>1. G.limit = limit.limit /\ G.limitUsd = limit.usd /\ G.remaining = E.remaining /\ G.band = E.band
    BY DEF Pages!FactsFromCases, Pages!MapThenSumSet, Pages!MapThenFoldSet
  <2> HIDE DEF G
  <2> QED BY <1>17, <2>1 DEF G
<1> QED BY <1>13, <1>16, <1>18 DEF n, limit, U

LEMMA LargestExists ==
  ASSUME NEW n \in Nat, NEW S, S \subseteq 0..n, S # {}
  PROVE  Pages!Max(S) \in S
<1>1. PICK m \in S : \A y \in S : y <= m
  BY LastExists
<1>2. \A y \in S : m >= y
  BY <1>1
<1> QED BY <1>2 DEF Pages!Max

(***************************************************************************)
(* Two loads of the same cases, before and after money or days.            *)
(***************************************************************************)
SameDeals(db, to) ==
  db.reached = to.reached /\ db.contract = to.contract /\ db.cost = to.cost /\ db.policies = to.policies

LEMMA LimitIs ==
  ASSUME NEW db, LoadedGood(db), NEW b
  PROVE  LimitOf(db, b).limit \in Nat
<1> DEFINE own == {i \in DOMAIN db.policies : db.policies[i].case \in Pages!CasesOf(db, b)}
<1>1. CASE own = {}
  BY <1>1 DEF LimitOf, Pages!LatestSinosure
<1>2. CASE own # {}
  <2>1. PICK n \in Nat : DOMAIN db.policies = 1..n
    BY DEF LoadedGood
  <2>2. own \subseteq 0..n
    BY <2>1
  <2>3. Pages!Max(own) \in own
    <3> HIDE DEF own
    <3> QED BY <1>2, <2>2, LargestExists
  <2>4. LimitOf(db, b) = db.policies[Pages!Max(own)]
    BY <1>2 DEF LimitOf, Pages!LatestSinosure
  <2>5. \A i \in own : db.policies[i].limit \in Nat
    <3>1. \A i \in DOMAIN db.policies : db.policies[i] \in Cover
      BY DEF LoadedGood
    <3> QED BY <3>1 DEF Cover
  <2> HIDE DEF own
  <2> QED BY <2>3, <2>4, <2>5
<1> QED BY <1>1, <1>2

LEMMA FactsGraded ==
  ASSUME NEW db, LoadedGood(db), NEW b
  PROVE  Graded(Pages!FactsOf(db, b))
<1> DEFINE F == Pages!FactsOf(db, b)
<1>1. F.sales \in Int /\ F.gross \in Int
  BY SoldIs
<1>2. F.onTime \in Nat /\ F.overdue \in Nat
  <2>1. F.onTime = Cardinality(Coded(db, b, "ON_TIME")) /\ F.overdue = Cardinality(Coded(db, b, "OVERDUE"))
    BY CodesAndAges
  <2>2. IsFiniteSet(Coded(db, b, "ON_TIME")) /\ IsFiniteSet(Coded(db, b, "OVERDUE"))
    BY CodedAre
  <2> QED BY <2>1, <2>2, FS_CardinalityType
<1> DEFINE n == SumOf(UnpaidsOf(db), CountedCases(db, b))
           limit == LimitOf(db, b)
<1>3. /\ n \in Nat
      /\ F.remaining = IF limit.limit > 0 THEN AtLeastZero(limit.limit - n) ELSE 0
      /\ F.band = IF limit.limit > 0 /\ limit.usd THEN BandOfExcessFen(n - limit.limit) ELSE "NONE"
      /\ F.limit = limit.limit
  BY OccupancyIs
<1>4. limit.limit \in Nat
  BY LimitIs
<1> HIDE DEF F, n, limit
<1>5. F.remaining \in Nat /\ F.limit \in Nat /\ (F.limit = 0 => F.band = "NONE")
  BY <1>3, <1>4 DEF AtLeastZero
<1> QED BY <1>1, <1>2, <1>5 DEF Graded, F

LEMMA SameCases ==
  ASSUME NEW db, NEW to, SameDeals(db, to), NEW b
  PROVE  /\ Pages!CasesOf(to, b) = Pages!CasesOf(db, b)
         /\ SoldCases(to, b) = SoldCases(db, b) /\ AmountsOf(to) = AmountsOf(db)
         /\ CountedCases(to, b) = CountedCases(db, b) /\ LimitOf(to, b) = LimitOf(db, b)
BY DEF SameDeals, Pages!CasesOf, SoldCases, AmountsOf, CountedCases, LimitOf, Pages!LatestSinosure

LEMMA FactsAlike ==
  ASSUME NEW db, NEW to, LoadedGood(db), LoadedGood(to), SameDeals(db, to), NEW b
  PROVE  Alike(Pages!FactsOf(db, b), Pages!FactsOf(to, b))
<1> DEFINE F == Pages!FactsOf(db, b)
           G == Pages!FactsOf(to, b)
           U == SoldCases(db, b)
<1>1. /\ F.sales = SumOf(AmountsOf(db), U) /\ F.gross = SumOf(AmountsOf(db), U) - SumOf(db.cost, U)
      /\ F.profitKnown <=> (U # {} /\ \A c \in U : db.cost[c] > 0)
  BY SoldIs
<1>2. /\ G.sales = SumOf(AmountsOf(to), SoldCases(to, b))
      /\ G.gross = SumOf(AmountsOf(to), SoldCases(to, b)) - SumOf(to.cost, SoldCases(to, b))
      /\ G.profitKnown <=> (SoldCases(to, b) # {} /\ \A c \in SoldCases(to, b) : to.cost[c] > 0)
  BY SoldIs
<1>3. SoldCases(to, b) = U /\ AmountsOf(to) = AmountsOf(db) /\ LimitOf(to, b) = LimitOf(db, b) /\ to.cost = db.cost
  BY SameCases DEF SameDeals
<1>4. F.limit = LimitOf(db, b).limit /\ F.limitUsd = LimitOf(db, b).usd
  BY OccupancyIs
<1>5. G.limit = LimitOf(to, b).limit /\ G.limitUsd = LimitOf(to, b).usd
  BY OccupancyIs
<1> HIDE DEF F, G, U
<1>6. F.sales = G.sales /\ F.gross = G.gross
  BY <1>1, <1>2, <1>3
<1>7. F.profitKnown <=> G.profitKnown
  BY <1>1, <1>2, <1>3
<1>8. F.limit = G.limit /\ F.limitUsd = G.limitUsd
  BY <1>3, <1>4, <1>5
<1> QED BY <1>6, <1>7, <1>8 DEF Alike, F, G

(* The peers' sales, profits and limits are the same.                      *)
Peers(db, b) == LET rated == {d \in Buyers : Pages!CasesOf(db, d) # {}} IN IF rated = {} THEN {b} ELSE rated

LEMMA PeersAre ==
  ASSUME NEW db, NEW b
  PROVE  PeersOf(db, b) = {<<d, Pages!FactsOf(db, d)>> : d \in Peers(db, b)}
<1> DEFINE rated == {d \in Buyers : Pages!CasesOf(db, d) # {}}
<1>1. Pages!PeerFacts(db) = {<<d, Pages!FactsOf(db, d)>> : d \in rated}
  BY DEF Pages!PeerFacts
<1>2. Pages!PeerFacts(db) = {} <=> rated = {}
  <2> HIDE DEF rated
  <2> QED BY <1>1
<1> HIDE DEF rated
<1>3. CASE rated = {}
  BY <1>2, <1>3 DEF PeersOf, Peers, rated
<1>4. CASE rated # {}
  BY <1>1, <1>2, <1>4 DEF PeersOf, Peers, rated
<1> QED BY <1>3, <1>4

LEMMA PairsFinite ==
  ASSUME NEW D, IsFiniteSet(D), NEW f
  PROVE  IsFiniteSet({<<d, f[d]>> : d \in D})
<1> DEFINE T == {<<d, f[d]>> : d \in D}
           g == [d \in D |-> <<d, f[d]>>]
<1>1. g \in Surjection(D, T)
  BY DEF Surjection
<1> QED BY <1>1, FS_Surjection

Paired(D, f) == {<<d, f[d]>> : d \in D}

LEMMA SalesPairs ==
  ASSUME NEW D, NEW f
  PROVE  SalesOf(Paired(D, f)) = {<<d, f[d].sales>> : d \in D}
<1> DEFINE P == Paired(D, f)
<1>1. ASSUME NEW d \in D PROVE <<d, f[d]>>[1] = d /\ <<d, f[d]>>[2] = f[d] /\ <<d, f[d]>> \in P
  BY DEF Paired
<1> HIDE DEF P
<1>2. ASSUME NEW d \in D PROVE <<d, f[d].sales>> \in SalesOf(P)
  BY <1>1 DEF SalesOf
<1>3. ASSUME NEW x \in SalesOf(P) PROVE x \in {<<d, f[d].sales>> : d \in D}
  <2>1. PICK p \in P : x = <<p[1], p[2].sales>>
    BY DEF SalesOf
  <2>2. PICK d \in D : p = <<d, f[d]>>
    BY DEF Paired, P
  <2> QED BY <1>1, <2>1, <2>2
<1> QED BY <1>2, <1>3 DEF P

LEMMA KnownPairs ==
  ASSUME NEW D, NEW f
  PROVE  KnownOf(Paired(D, f)) = {<<d, f[d].gross>> : d \in {e \in D : f[e].profitKnown}}
<1> DEFINE P == Paired(D, f)
<1>1. ASSUME NEW d \in D PROVE <<d, f[d]>>[1] = d /\ <<d, f[d]>>[2] = f[d] /\ <<d, f[d]>> \in P
  BY DEF Paired
<1> HIDE DEF P
<1>2. ASSUME NEW d \in {e \in D : f[e].profitKnown} PROVE <<d, f[d].gross>> \in KnownOf(P)
  BY <1>1 DEF KnownOf
<1>3. ASSUME NEW x \in KnownOf(P) PROVE x \in {<<d, f[d].gross>> : d \in {e \in D : f[e].profitKnown}}
  <2>1. PICK p \in P : x = <<p[1], p[2].gross>> /\ p[2].profitKnown
    BY DEF KnownOf
  <2>2. PICK d \in D : p = <<d, f[d]>>
    BY DEF Paired, P
  <2> QED BY <1>1, <2>1, <2>2
<1> QED BY <1>2, <1>3 DEF P

LEMMA LimitsPairs ==
  ASSUME NEW D, NEW f
  PROVE  LimitsOf(Paired(D, f)) = {<<d, f[d].limit>> : d \in {e \in D : f[e].limit > 0}}
<1> DEFINE P == Paired(D, f)
<1>1. ASSUME NEW d \in D PROVE <<d, f[d]>>[1] = d /\ <<d, f[d]>>[2] = f[d] /\ <<d, f[d]>> \in P
  BY DEF Paired
<1> HIDE DEF P
<1>2. ASSUME NEW d \in {e \in D : f[e].limit > 0} PROVE <<d, f[d].limit>> \in LimitsOf(P)
  BY <1>1 DEF LimitsOf
<1>3. ASSUME NEW x \in LimitsOf(P) PROVE x \in {<<d, f[d].limit>> : d \in {e \in D : f[e].limit > 0}}
  <2>1. PICK p \in P : x = <<p[1], p[2].limit>> /\ p[2].limit > 0
    BY DEF LimitsOf
  <2>2. PICK d \in D : p = <<d, f[d]>>
    BY DEF Paired, P
  <2> QED BY <1>1, <2>1, <2>2
<1> QED BY <1>2, <1>3 DEF P

LEMMA PeersComparable ==
  ASSUME NEW db, NEW to, LoadedGood(db), LoadedGood(to), SameDeals(db, to), NEW b
  PROVE  Comparable(PeersOf(db, b), PeersOf(to, b)) /\ Comparable(PeersOf(to, b), PeersOf(db, b))
<1> DEFINE D == Peers(db, b)
           F(d) == Pages!FactsOf(db, d)
           G(d) == Pages!FactsOf(to, d)
           K == {d \in D : F(d).profitKnown}
           L == {d \in D : F(d).limit > 0}
<1>1. Peers(to, b) = D
  BY SameCases DEF Peers
<1>2. \A d : /\ F(d).sales = G(d).sales /\ F(d).gross = G(d).gross /\ F(d).limit = G(d).limit
             /\ F(d).profitKnown <=> G(d).profitKnown
  BY FactsAlike DEF Alike
<1>3. PeersOf(db, b) = {<<d, F(d)>> : d \in D} /\ PeersOf(to, b) = {<<d, G(d)>> : d \in D}
  BY <1>1, PeersAre
<1> HIDE DEF D, F, G
<1> DEFINE f == [d \in D |-> F(d)]
           g == [d \in D |-> G(d)]
<1>f. PeersOf(db, b) = Paired(D, f) /\ PeersOf(to, b) = Paired(D, g)
  BY <1>3 DEF Paired
<1>g. \A d \in D : f[d] = F(d) /\ g[d] = G(d)
  OBVIOUS
<1> HIDE DEF f, g
<1>4. SalesOf(PeersOf(db, b)) = {<<d, F(d).sales>> : d \in D}
  <2>1. SalesOf(PeersOf(db, b)) = {<<d, f[d].sales>> : d \in D}
    BY <1>f, SalesPairs
  <2> QED BY <1>g, <2>1
<1>a. SalesOf(PeersOf(to, b)) = {<<d, F(d).sales>> : d \in D}
  <2>1. SalesOf(PeersOf(to, b)) = {<<d, g[d].sales>> : d \in D}
    BY <1>f, SalesPairs
  <2> QED BY <1>2, <1>g, <2>1
<1>5. KnownOf(PeersOf(db, b)) = {<<d, F(d).gross>> : d \in K}
  <2>1. KnownOf(PeersOf(db, b)) = {<<d, f[d].gross>> : d \in {e \in D : f[e].profitKnown}}
    BY <1>f, KnownPairs
  <2> QED BY <1>g, <2>1
<1>b. KnownOf(PeersOf(to, b)) = {<<d, F(d).gross>> : d \in K}
  <2>1. KnownOf(PeersOf(to, b)) = {<<d, g[d].gross>> : d \in {e \in D : g[e].profitKnown}}
    BY <1>f, KnownPairs
  <2> QED BY <1>2, <1>g, <2>1
<1>6. LimitsOf(PeersOf(db, b)) = {<<d, F(d).limit>> : d \in L}
  <2>1. LimitsOf(PeersOf(db, b)) = {<<d, f[d].limit>> : d \in {e \in D : f[e].limit > 0}}
    BY <1>f, LimitsPairs
  <2> QED BY <1>g, <2>1
<1>c. LimitsOf(PeersOf(to, b)) = {<<d, F(d).limit>> : d \in L}
  <2>1. LimitsOf(PeersOf(to, b)) = {<<d, g[d].limit>> : d \in {e \in D : g[e].limit > 0}}
    BY <1>f, LimitsPairs
  <2> QED BY <1>2, <1>g, <2>1
<1>7. IsFiniteSet(D) /\ IsFiniteSet(K) /\ IsFiniteSet(L)
  <2>1. IsFiniteSet(D)
    BY PagesAssumption, FS_Subset, FS_Singleton DEF D, Peers
  <2> QED BY <2>1, FS_Subset
<1> HIDE DEF K, L
<1>8. IsFiniteSet({<<d, F(d).sales>> : d \in D})
  <2> DEFINE h == [d \in D |-> F(d).sales]
  <2>1. {<<d, F(d).sales>> : d \in D} = {<<d, h[d]>> : d \in D}
    OBVIOUS
  <2> HIDE DEF h
  <2> QED BY <1>7, <2>1, PairsFinite
<1>9. IsFiniteSet({<<d, F(d).gross>> : d \in K})
  <2> DEFINE h == [d \in K |-> F(d).gross]
  <2>1. {<<d, F(d).gross>> : d \in K} = {<<d, h[d]>> : d \in K}
    OBVIOUS
  <2> HIDE DEF h
  <2> QED BY <1>7, <2>1, PairsFinite
<1>10. IsFiniteSet({<<d, F(d).limit>> : d \in L})
  <2> DEFINE h == [d \in L |-> F(d).limit]
  <2>1. {<<d, F(d).limit>> : d \in L} = {<<d, h[d]>> : d \in L}
    OBVIOUS
  <2> HIDE DEF h
  <2> QED BY <1>7, <2>1, PairsFinite
<1> QED BY <1>4, <1>5, <1>6, <1>8, <1>9, <1>10, <1>a, <1>b, <1>c DEF Comparable

(* The larger the excess, the worse the band.                              *)
LEMMA BandFalls ==
  ASSUME NEW m \in Int, NEW n \in Int, m <= n
  PROVE  OccupancyPoints(BandOfExcessFen(n)) <= OccupancyPoints(BandOfExcessFen(m))
BY ExposureAssumption DEF OccupancyPoints, BandOfExcessFen

(* A buyer who owes less has more left of the limit.                       *)
LEMMA OwingLess ==
  ASSUME NEW db, NEW to, LoadedGood(db), LoadedGood(to), SameDeals(db, to), NEW b,
         \A c \in Pages!CasesOf(db, b) : Pages!MoneyOf(to, c).unpaid <= Pages!MoneyOf(db, c).unpaid
  PROVE  /\ Pages!FactsOf(db, b).remaining <= Pages!FactsOf(to, b).remaining
         /\ OccupancyPoints(Pages!FactsOf(db, b).band) <= OccupancyPoints(Pages!FactsOf(to, b).band)
<1> DEFINE F == Pages!FactsOf(db, b)
           G == Pages!FactsOf(to, b)
           U == CountedCases(db, b)
           limit == LimitOf(db, b)
           k == SumOf(UnpaidsOf(db), U)
           l == SumOf(UnpaidsOf(to), U)
<1>1. CountedCases(to, b) = U /\ LimitOf(to, b) = limit
  BY SameCases
<1>2. /\ k \in Nat
      /\ F.remaining = IF limit.limit > 0 THEN AtLeastZero(limit.limit - k) ELSE 0
      /\ F.band = IF limit.limit > 0 /\ limit.usd THEN BandOfExcessFen(k - limit.limit) ELSE "NONE"
  BY OccupancyIs
<1>3. /\ l \in Nat
      /\ G.remaining = IF limit.limit > 0 THEN AtLeastZero(limit.limit - l) ELSE 0
      /\ G.band = IF limit.limit > 0 /\ limit.usd THEN BandOfExcessFen(l - limit.limit) ELSE "NONE"
  BY <1>1, OccupancyIs
<1>4. l <= k
  <2>1. IsFiniteSet(U) /\ U \subseteq Sold /\ U \subseteq Pages!CasesOf(db, b)
    BY CasesFinite, FS_Subset DEF CountedCases
  <2>2. \A c \in U : /\ UnpaidsOf(to)[c] \in Int /\ UnpaidsOf(db)[c] \in Int
                     /\ UnpaidsOf(to)[c] <= UnpaidsOf(db)[c]
    BY <2>1, UnpaidIs DEF UnpaidsOf
  <2> HIDE DEF U
  <2> QED BY <2>1, <2>2, SumOfAtMost
<1>5. limit.limit \in Nat
  BY LimitIs
<1> HIDE DEF F, G, k, l, limit
<1>6. F.remaining <= G.remaining
  BY <1>2, <1>3, <1>4, <1>5 DEF AtLeastZero
<1>7. OccupancyPoints(F.band) <= OccupancyPoints(G.band)
  <2>1. CASE limit.limit > 0 /\ limit.usd
    <3> PICK m \in Int, n \in Int : m = l - limit.limit /\ n = k - limit.limit /\ m <= n
      BY <1>2, <1>3, <1>4, <1>5
    <3>1. OccupancyPoints(BandOfExcessFen(n)) <= OccupancyPoints(BandOfExcessFen(m))
      BY BandFalls
    <3> QED BY <1>2, <1>3, <2>1, <3>1
  <2>2. CASE ~(limit.limit > 0 /\ limit.usd)
    <3>1. F.band = "NONE" /\ G.band = "NONE"
      BY <1>2, <1>3, <2>2
    <3> QED BY <3>1 DEF OccupancyPoints
  <2> QED BY <2>1, <2>2
<1> QED BY <1>6, <1>7 DEF F, G

(* What the codes and the ages have to say for nothing to be worse.        *)
LEMMA FactsNoWorse ==
  ASSUME NEW db, NEW to, LoadedGood(db), LoadedGood(to), SameDeals(db, to), NEW b,
         \A c \in Pages!CasesOf(db, b) : Pages!MoneyOf(to, c).unpaid <= Pages!MoneyOf(db, c).unpaid,
         \A c \in Pages!CasesOf(db, b) : CaseCode(db, c) = "ON_TIME" => CaseCode(to, c) = "ON_TIME",
         \A c \in Pages!CasesOf(db, b) : CaseCode(to, c) = "OVERDUE" => CaseCode(db, c) = "OVERDUE",
         to.now <= db.now
  PROVE  NoWorse(Pages!FactsOf(db, b), Pages!FactsOf(to, b))
<1>1. Pages!CasesOf(to, b) = Pages!CasesOf(db, b) /\ Pages!CasesOf(db, b) \subseteq Sold /\ to.contract = db.contract
  BY SameCases, CasesFinite DEF SameDeals
<1>2. /\ Coded(db, b, "ON_TIME") \subseteq Coded(to, b, "ON_TIME")
      /\ Coded(to, b, "OVERDUE") \subseteq Coded(db, b, "OVERDUE")
  BY <1>1 DEF Coded
<1>3. /\ Cardinality(Coded(db, b, "ON_TIME")) <= Cardinality(Coded(to, b, "ON_TIME"))
      /\ Cardinality(Coded(to, b, "OVERDUE")) <= Cardinality(Coded(db, b, "OVERDUE"))
  BY <1>2, CodedAre, FS_Subset
<1>4. ASSUME NEW days, Older(to, b, days), days \in Nat PROVE Older(db, b, days)
  <2>1. PICK c \in Pages!CasesOf(db, b) : /\ Pages!MoneyOf(to, c).unpaid > 0 /\ to.contract[c].due # Pages!NoDay
                                          /\ to.now - to.contract[c].due > days
    BY <1>1, <1>4 DEF Older
  <2>2. Pages!MoneyOf(to, c).unpaid \in Nat /\ Pages!MoneyOf(db, c).unpaid \in Nat
        /\ Pages!MoneyOf(to, c).unpaid <= Pages!MoneyOf(db, c).unpaid
    BY <1>1, UnpaidIs
  <2>3. db.contract[c].due \in Nat /\ db.now \in Nat /\ to.now \in Nat
    BY <1>1 DEF LoadedGood, Deal
  <2>4. Pages!MoneyOf(db, c).unpaid > 0
    BY <2>1, <2>2
  <2>5. db.now - db.contract[c].due > days
    BY <1>1, <1>4, <2>1, <2>3
  <2> QED BY <1>1, <2>1, <2>4, <2>5 DEF Older
<1>5. /\ Pages!FactsOf(db, b).onTime <= Pages!FactsOf(to, b).onTime
      /\ Pages!FactsOf(to, b).overdue <= Pages!FactsOf(db, b).overdue
  BY <1>3, CodesAndAges
<1>6. /\ Pages!FactsOf(to, b).aging.long => Pages!FactsOf(db, b).aging.long
      /\ Pages!FactsOf(to, b).aging.veryLong => Pages!FactsOf(db, b).aging.veryLong
  BY <1>4, CodesAndAges, PagesAssumption
<1>7. /\ Pages!FactsOf(db, b).remaining <= Pages!FactsOf(to, b).remaining
      /\ OccupancyPoints(Pages!FactsOf(db, b).band) <= OccupancyPoints(Pages!FactsOf(to, b).band)
  BY OwingLess
<1> QED BY <1>5, <1>6, <1>7 DEF NoWorse

LEMMA GradeIsNoLower ==
  ASSUME NEW db, NEW to, LoadedGood(db), LoadedGood(to), SameDeals(db, to), NEW b,
         NoWorse(Pages!FactsOf(db, b), Pages!FactsOf(to, b))
  PROVE  Pages!GradeOf(db, b) <= Pages!GradeOf(to, b)
<1>1. Graded(Pages!FactsOf(db, b)) /\ Graded(Pages!FactsOf(to, b))
  BY FactsGraded
<1>2. Alike(Pages!FactsOf(db, b), Pages!FactsOf(to, b))
  BY FactsAlike
<1>3. Comparable(PeersOf(db, b), PeersOf(to, b))
  BY PeersComparable
<1>4. Pages!Evaluate(Pages!FactsOf(db, b), PeersOf(db, b)).grade <= Pages!Evaluate(Pages!FactsOf(to, b), PeersOf(to, b)).grade
  BY <1>1, <1>2, <1>3, GradeGrows
<1> QED BY <1>4, EvaluateIs DEF Pages!GradeOf

(***************************************************************************)
(* Money that comes in.                                                    *)
(***************************************************************************)
LEMMA LatestIs ==
  ASSUME NEW db, LoadedGood(db), NEW c \in Sold
  PROVE  Pages!LatestReceivedAt(db, c) \in Nat /\ Pages!LatestReceivedAt(db, c) <= db.now
<1> DEFINE days == {db.settlements[c][i].day : i \in DOMAIN BatchAmounts[c]}
<1>1. PICK n \in Nat : n = db.now
  BY DEF LoadedGood
<1>2. days \subseteq 0..n
  <2>1. Settled(db.settlements[c], c, db.now)
    BY DEF LoadedGood
  <2> QED BY <1>1, <2>1 DEF Settled, SettlementRow
<1>3. days # {}
  <2>1. BatchAmounts[c] \in Seq(Nat \cup {NoAmount}) /\ BatchAmounts[c] # <<>>
    BY PagesAssumption
  <2>2. 1 \in DOMAIN BatchAmounts[c]
    BY <2>1
  <2> QED BY <2>2
<1>4. Pages!LatestReceivedAt(db, c) = Pages!Max(days)
  BY DEF Pages!LatestReceivedAt
<1> HIDE DEF days
<1>5. Pages!Max(days) \in days
  BY <1>2, <1>3, LargestExists
<1>6. Pages!Max(days) \in 0..n
  BY <1>2, <1>5
<1> QED BY <1>1, <1>4, <1>6

LEMMA CodeIs ==
  ASSUME NEW db, NEW c
  PROVE  CaseCode(db, c) = Pages!EvaluateSchedule(db.contract[c].due, Pages!LatestReceivedAt(db, c),
                             IF db.contract[c].signed THEN Pages!MoneyOf(db, c).unpaid ELSE Pages!Blank, db.now)
BY DEF CaseCode, Pages!CaseRemittance

Code(due, day, left, now) == Pages!EvaluateSchedule(due, day, left, now)
Waits(due, day, left, now, later) ==
  /\ Code(due, day, left, now) = "ON_TIME" <=> Code(due, day, left, later) = "ON_TIME"
  /\ Code(due, day, left, now) = "OVERDUE" => Code(due, day, left, later) = "OVERDUE"
Pays(due, day, left, later, less, now) ==
  /\ Code(due, day, left, now) # "ON_TIME"
  /\ Code(due, later, less, now) = "OVERDUE" => Code(due, day, left, now) = "OVERDUE"

LEMMA ScheduleWaits ==
  ASSUME NEW due \in Nat, NEW day \in Nat, NEW left \in Int, NEW now \in Nat, NEW later \in Nat, now # 0, now <= later
  PROVE  Waits(due, day, left, now, later)
BY DEF Waits, Code, Pages!EvaluateSchedule, Pages!OrDay, Pages!NoDay

LEMMA SchedulePays ==
  ASSUME NEW due \in Nat, NEW day \in Nat, NEW left \in Nat, NEW now \in Nat, NEW later \in Nat, NEW less \in Nat,
         now # 0, left > 0, later <= now
  PROVE  Pays(due, day, left, later, less, now)
BY DEF Pays, Code, Pages!EvaluateSchedule, Pages!OrDay, Pages!NoDay

LEMMA CollectingHelps ==
  ASSUME NEW db, NEW to, LoadedGood(db), LoadedGood(to), SameDeals(db, to), to.now = db.now, Pages!MoneyCameIn(db, to), NEW b
  PROVE  Pages!GradeOf(db, b) <= Pages!GradeOf(to, b)
<1>1. /\ Pages!CasesOf(db, b) \subseteq Sold /\ to.contract = db.contract
      /\ \A c \in Pages!CasesOf(db, b) : c \in db.reached
  BY CasesFinite DEF SameDeals, Pages!CasesOf
<1>2. ASSUME NEW c \in Pages!CasesOf(db, b)
      PROVE  /\ Pages!MoneyOf(to, c).unpaid <= Pages!MoneyOf(db, c).unpaid
             /\ CaseCode(db, c) = "ON_TIME" => CaseCode(to, c) = "ON_TIME"
             /\ CaseCode(to, c) = "OVERDUE" => CaseCode(db, c) = "OVERDUE"
  <2>1. /\ Pages!MoneyOf(to, c).unpaid <= Pages!MoneyOf(db, c).unpaid
        /\ Pages!MoneyOf(db, c).unpaid = 0 => to.settlements[c] = db.settlements[c]
    BY <1>1 DEF Pages!MoneyCameIn
  <2>2. /\ Pages!MoneyOf(db, c).unpaid \in Nat /\ Pages!MoneyOf(to, c).unpaid \in Nat
        /\ db.contract[c].amount = 0 => Pages!MoneyOf(db, c).unpaid = 0
    BY <1>1, UnpaidIs
  <2>3. CASE Pages!MoneyOf(db, c).unpaid = 0
    <3>1. to.settlements[c] = db.settlements[c]
      BY <2>1, <2>3
    <3>2. Pages!LatestReceivedAt(to, c) = Pages!LatestReceivedAt(db, c)
      BY <3>1 DEF Pages!LatestReceivedAt
    <3>3. Pages!MoneyOf(to, c).unpaid = Pages!MoneyOf(db, c).unpaid
      BY <2>1, <2>2, <2>3
    <3>4. CaseCode(to, c) = CaseCode(db, c)
      BY <1>1, <3>2, <3>3, CodeIs
    <3> QED BY <2>1, <3>4
  <2>4. CASE Pages!MoneyOf(db, c).unpaid # 0
    <3>1. db.contract[c].signed = TRUE /\ db.contract[c].due \in Nat /\ db.now \in Nat \ {0}
      BY <1>1, <2>2, <2>4 DEF LoadedGood, Deal, Pages!NoContract
    <3>2. /\ Pages!LatestReceivedAt(db, c) \in Nat
          /\ Pages!LatestReceivedAt(to, c) \in Nat /\ Pages!LatestReceivedAt(to, c) <= db.now
      BY <1>1, LatestIs
    <3> DEFINE due == db.contract[c].due
               day == Pages!LatestReceivedAt(db, c)
               left == Pages!MoneyOf(db, c).unpaid
               now == db.now
               later == Pages!LatestReceivedAt(to, c)
               less == Pages!MoneyOf(to, c).unpaid
    <3>3. /\ due \in Nat /\ day \in Nat /\ left \in Nat /\ now \in Nat /\ later \in Nat /\ less \in Nat
          /\ now # 0 /\ left > 0 /\ later <= now
      BY <2>2, <2>4, <3>1, <3>2
    <3>4. CaseCode(db, c) = Code(due, day, left, now)
      BY <3>1, CodeIs DEF Code
    <3>5. CaseCode(to, c) = Code(due, later, less, now)
      BY <1>1, <3>1, CodeIs DEF Code
    <3> HIDE DEF due, day, left, now, later, less
    <3>6. Pays(due, day, left, later, less, now)
      BY <3>3, SchedulePays
    <3> QED BY <2>1, <3>4, <3>5, <3>6 DEF Pays
  <2> QED BY <2>3, <2>4
<1>3. to.now <= db.now
  BY DEF LoadedGood
<1> QED BY <1>2, <1>3, FactsNoWorse, GradeIsNoLower

(***************************************************************************)
(* Days that pass.                                                         *)
(***************************************************************************)
LEMMA WaitingHurts ==
  ASSUME NEW db, NEW to, LoadedGood(db), LoadedGood(to), SameDeals(db, to), db.settlements = to.settlements,
         db.now <= to.now, NEW b
  PROVE  Pages!GradeOf(to, b) <= Pages!GradeOf(db, b)
<1>1. SameDeals(to, db) /\ to.contract = db.contract
  BY DEF SameDeals
<1>2. Pages!CasesOf(to, b) \subseteq Sold
  BY CasesFinite
<1>3. ASSUME NEW c \in Pages!CasesOf(to, b)
      PROVE  /\ Pages!MoneyOf(db, c).unpaid <= Pages!MoneyOf(to, c).unpaid
             /\ CaseCode(to, c) = "ON_TIME" => CaseCode(db, c) = "ON_TIME"
             /\ CaseCode(db, c) = "OVERDUE" => CaseCode(to, c) = "OVERDUE"
  <2>1. Pages!MoneyOf(to, c) = Pages!MoneyOf(db, c) /\ Pages!LatestReceivedAt(to, c) = Pages!LatestReceivedAt(db, c)
    BY <1>1 DEF Pages!MoneyOf, Pages!PortionsOf, Pages!Receipt, Pages!LatestReceivedAt
  <2>2. Pages!MoneyOf(db, c).unpaid \in Nat
    BY <1>2, UnpaidIs
  <2>3. db.contract[c].due \in Nat /\ db.now \in Nat \ {0} /\ to.now \in Nat \ {0} /\ Pages!LatestReceivedAt(db, c) \in Nat
    BY <1>2, LatestIs DEF LoadedGood, Deal
  <2> DEFINE due == db.contract[c].due
             day == Pages!LatestReceivedAt(db, c)
             left == IF db.contract[c].signed THEN Pages!MoneyOf(db, c).unpaid ELSE Pages!Blank
             now == db.now
             later == to.now
  <2>4. /\ due \in Nat /\ day \in Nat /\ left \in Int /\ now \in Nat /\ later \in Nat
        /\ now # 0 /\ now <= later
    BY <2>2, <2>3 DEF Pages!Blank
  <2>5. CaseCode(db, c) = Code(due, day, left, now)
    BY CodeIs DEF Code
  <2>6. CaseCode(to, c) = Code(due, day, left, later)
    BY <1>1, <2>1, CodeIs DEF Code
  <2> HIDE DEF due, day, left, now, later
  <2>7. Waits(due, day, left, now, later)
    BY <2>4, ScheduleWaits
  <2> QED BY <2>1, <2>2, <2>5, <2>6, <2>7 DEF Waits
<1> QED BY <1>1, <1>3, FactsNoWorse, GradeIsNoLower

(* A step that changes receipts changes nothing else, and so does a day.   *)
MovesAlone ==
  /\ settlements' # settlements => UNCHANGED <<reached, deals, cost, covers, today>>
  /\ today' # today => UNCHANGED <<reached, deals, settlements, cost, covers>> /\ today' > today

LEMMA ActionsMoveAlone ==
  /\ \A c : Pages!ReachN3(c) => MovesAlone
  /\ \A c, a, usd, due : Pages!SaveContract(c, a, usd, due) => MovesAlone
  /\ \A c, a : Pages!SavePlan(c, a) => MovesAlone
  /\ \A c, i, r : Pages!SaveSettlement(c, i, r) => MovesAlone
  /\ \A c, l, usd : Pages!SaveSinosure(c, l, usd) => MovesAlone
  /\ Pages!LaterDay => MovesAlone
BY DEF MovesAlone, Pages!ReachN3, Pages!SaveContract, Pages!SavePlan, Pages!SaveSettlement, Pages!SaveSinosure,
       Pages!LaterDay

LEMMA StepsKeepGrades ==
  ASSUME PagesInv, PagesInv', MovesAlone
  PROVE  /\ settlements' # settlements /\ Pages!MoneyCameIn(Pages!LoadCustomers, Pages!LoadCustomers')
              => \A b \in Buyers : Pages!GradeOf(Pages!LoadCustomers', b) >= Pages!GradeOf(Pages!LoadCustomers, b)
         /\ today' # today
              => \A b \in Buyers : Pages!GradeOf(Pages!LoadCustomers', b) <= Pages!GradeOf(Pages!LoadCustomers, b)
<1>1. PICK db : db = Pages!LoadCustomers
  OBVIOUS
<1>2. PICK to : to = Pages!LoadCustomers'
  OBVIOUS
<1>3. LoadedGood(db) /\ LoadedGood(to)
  BY <1>1, <1>2 DEF PagesInv
<1>4. /\ settlements' # settlements => SameDeals(db, to) /\ to.now = db.now
      /\ today' # today => SameDeals(db, to) /\ db.settlements = to.settlements /\ db.now <= to.now
  <2>1. db.now \in Nat /\ to.now \in Nat
    BY <1>3 DEF LoadedGood
  <2> QED BY <1>1, <1>2, <2>1, LoadedIs DEF MovesAlone, SameDeals
<1>5. ASSUME settlements' # settlements, Pages!MoneyCameIn(db, to), NEW b
      PROVE  Pages!GradeOf(db, b) <= Pages!GradeOf(to, b)
  BY <1>3, <1>4, <1>5, CollectingHelps
<1>6. ASSUME today' # today, NEW b
      PROVE  Pages!GradeOf(to, b) <= Pages!GradeOf(db, b)
  BY <1>3, <1>4, <1>6, WaitingHurts
<1> QED BY <1>1, <1>2, <1>5, <1>6

-----------------------------------------------------------------------------
(* What the modules promise, and what the lanes together do.               *)

(* Wherever the server stops, a row that names a file can be opened, and   *)
(* what a case's rows and policies show was uploaded for that case: for    *)
(* every number of requests, cases and rows (uploadSinosureFile,           *)
(* uploadNodeDocument, saveSinosure).                                      *)
THEOREM FilesHold == Files!Spec => [](StoredFileOpens /\ FilesStayInCase)
<1>1. FilesInv /\ [Files!Next]_Files!vars => FilesInv'
  <2>1. FilesInv /\ Files!Next => FilesInv'
    BY FilesStep
  <2>2. FilesInv /\ UNCHANGED Files!vars => FilesInv'
    BY DEF Files!vars, FilesInv, FilesTyped, RowsGood, PoliciesGood
  <2> QED BY <2>1, <2>2
<1>2. Files!Spec => []FilesInv
  BY <1>1, FilesInit, PTL DEF Files!Spec
<1> QED
  BY <1>2, FilesFollow, PTL

(* Vouchers of an advance payment stay on file only while the contract is  *)
(* paid in advance or a change order has reworded its terms since, whatever*)
(* is saved and in whatever order; a contract timed after shipment has     *)
(* none (saveContract, saveAdvanceVouchers, applyChange).                  *)
THEOREM VouchersHold == Papers!Spec => []VouchersOnlyInAdvance
<1>1. SaleInv /\ [Papers!Next]_Papers!vars => SaleInv'
  <2>1. SaleInv /\ Papers!Next => SaleInv'
    BY SaleStep DEF Papers!Next
  <2>2. SaleInv /\ UNCHANGED Papers!vars => SaleInv'
    BY SameTerms DEF Papers!vars, SaleInv
  <2> QED BY <2>1, <2>2
<1>2. Papers!Spec => []SaleInv
  BY <1>1, SaleInit, PTL DEF Papers!Spec
<1>3. SaleInv => VouchersOnlyInAdvance
  BY DEF SaleInv
<1> QED
  BY <1>2, <1>3, PTL

(* A sale is shown as paid exactly when it takes nothing of the limit,     *)
(* however many batches it has and in whatever order their receipts are    *)
(* added (isSalesRemittanceComplete, contractOccupancyPortions).           *)
THEOREM ReceiptsAgree == Papers!Spec => []RemittanceAgreesWithOccupancy
<1>1. SalePaid /\ [Papers!Next]_Papers!vars => SalePaid'
  <2>1. SalePaid /\ Papers!Next => SalePaid'
    BY PaidStep, SaleAmounts \in SUBSET SaleAmounts DEF Papers!Next
  <2>2. SalePaid /\ UNCHANGED Papers!vars => SalePaid'
    BY DEF Papers!vars, SalePaid
  <2> QED BY <2>1, <2>2
<1>2. Papers!Spec => []SalePaid
  BY <1>1, PaidInit, PTL DEF Papers!Spec
<1> QED BY <1>2, PaidFollows, PTL

LEMMA PlanAlways == Purchase!Spec => []PlanInv
<1>1. PlanInv /\ [Purchase!Next]_Purchase!vars => PlanInv'
  <2>1. PlanInv /\ UNCHANGED Purchase!vars => PlanInv'
    BY DEF Purchase!vars, PlanInv, PlanGood
  <2> QED BY <2>1, PlanNext
<1> QED BY <1>1, PlanInit, PTL DEF Purchase!Spec

(* No cent of a purchase is lost, in however many instalments: the page    *)
(* marks all paid only when nothing is owed, and says overdue when the     *)
(* plan's own date is past (resolveSchedule, presentPlanPayment).          *)
THEOREM InstalmentsAgree == Purchase!Spec => []PlanPageAgrees
BY PlanAlways, PageFollows, PTL

(* A save that carries no payment keeps what was paid, in one amount or in *)
(* any number of instalments (buildInstallmentRecords, savePlan).          *)
THEOREM PaymentsStay == Purchase!Spec => []Purchase!PaidKept
BY PlanAlways, PaidFollowsPlan, PTL

(* The same of the lanes the run checks: files, vouchers, receipts and     *)
(* instalments side by side, beside the limit and the customer pages.      *)
THEOREM LanesHold ==
  MCSpec => [](StoredFileOpens /\ FilesStayInCase /\ VouchersOnlyInAdvance /\ RemittanceAgreesWithOccupancy
                /\ PlanPageAgrees /\ PaidKept)
<1> DEFINE Inv == FilesInv /\ SaleInv /\ SalePaid /\ PlanInv
<1>1. MCInit => Inv
  BY FilesInit, SaleInit, PaidInit, PlanInit DEF MCInit, PapersStart
<1>2. Inv /\ [MCNext]_<<vars, pageVars, lane, SaleVars, PlanVars, FileVars>> => Inv'
  <2> SUFFICES ASSUME FilesInv, SaleInv, SalePaid, PlanInv,
                      [MCNext]_<<vars, pageVars, lane, SaleVars, PlanVars, FileVars>>
               PROVE  FilesInv' /\ SaleInv' /\ SalePaid' /\ PlanInv'
    OBVIOUS
  <2>1. UNCHANGED FileVars => FilesInv'
    BY DEF FileVars, FilesInv, FilesTyped, RowsGood, PoliciesGood
  <2>2. UNCHANGED SaleVars => SaleInv' /\ SalePaid'
    <3>1. UNCHANGED SaleVars => SaleInv'
      BY SameTerms DEF SaleVars, SaleInv
    <3>2. UNCHANGED SaleVars => SalePaid'
      BY DEF SaleVars, SalePaid
    <3> QED BY <3>1, <3>2
  <2>3. UNCHANGED plan => PlanInv'
    BY DEF PlanInv, PlanGood
  <2>4. Files!Next => FilesInv'
    BY FilesStep
  <2>5. /\ \A ports, dates : Papers!Agree \/ Papers!Ship(ports, dates) \/ Papers!Collect => SaleInv' /\ SalePaid'
        /\ \A wordings : \A amounts \in SUBSET SaleAmounts : Papers!Change(wordings, amounts) => SaleInv' /\ SalePaid'
    BY SaleStep, PaidStep, {} \in SUBSET SaleAmounts
  <2>6. {} \in SUBSET SaleAmounts /\ SaleAmounts \in SUBSET SaleAmounts
    OBVIOUS
  <2>7. Purchase!Next => PlanInv'
    BY PlanNext
  <2>8. PapersNext => FilesInv' /\ SaleInv' /\ SalePaid' /\ PlanInv'
    BY <2>1, <2>2, <2>3, <2>4, <2>5, <2>6, <2>7 DEF PapersNext, FilesNext, PlanVars
  <2> QED BY <2>1, <2>2, <2>3, <2>8 DEF MCNext, PlanVars
<1>3. Inv => /\ StoredFileOpens /\ FilesStayInCase /\ VouchersOnlyInAdvance
             /\ RemittanceAgreesWithOccupancy /\ PlanPageAgrees /\ PaidKept
  BY FilesFollow, PaidFollows, PageFollows, PaidFollowsPlan DEF SaleInv, PaidKept
<1> QED
  BY <1>1, <1>2, <1>3, PTL DEF MCSpec

(* A buyer praised for paying well owes nothing late, money that comes in  *)
(* never costs a buyer its grade, and days alone never raise it: of any    *)
(* number of buyers, cases, batches, receipts and policies (buildTags,     *)
(* riskScore, creditScore, agingUnpaidFen).                                *)
THEOREM PagesFair ==
  Pages!Spec => /\ []Pages!GoodRemitOwesNothingLate
                /\ Pages!CollectingNeverDowngrades /\ Pages!WaitingNeverUpgrades
<1>1. Pages!Spec => []PagesInv
  BY PagesInitGood, PagesStay, PTL DEF Pages!Spec
<1>2. PagesInv => Pages!GoodRemitOwesNothingLate
  BY PraiseIsEarned DEF PagesInv, Pages!GoodRemitOwesNothingLate
<1>3. Pages!Next => MovesAlone
  BY ActionsMoveAlone DEF Pages!Next
<1>4. PagesInv /\ PagesInv' /\ [Pages!Next]_Pages!vars =>
        /\ [settlements' # settlements /\ Pages!MoneyCameIn(Pages!LoadCustomers, Pages!LoadCustomers')
              => \A b \in Buyers : Pages!GradeOf(Pages!LoadCustomers', b) >= Pages!GradeOf(Pages!LoadCustomers, b)]_Pages!vars
        /\ [today' # today
              => \A b \in Buyers : Pages!GradeOf(Pages!LoadCustomers', b) <= Pages!GradeOf(Pages!LoadCustomers, b)]_Pages!vars
  BY <1>3, StepsKeepGrades
<1> QED BY <1>1, <1>2, <1>4, PTL DEF Pages!Spec, Pages!CollectingNeverDowngrades, Pages!WaitingNeverUpgrades

LEMMA LanesAlways == MCSpec => []PagesInv
<1>1. MCInit => PagesInv
  BY LanesInitGood DEF MCInit, PapersStart, Purchase!Init
<1>2. PagesInv /\ [MCNext]_<<vars, pageVars, lane, SaleVars, PlanVars, FileVars>> => PagesInv'
  <2>1. PagesInv /\ UNCHANGED <<pageVars, today>> => PagesInv'
    BY PagesIdle
  <2>2. PagesInv /\ PapersNext /\ UNCHANGED pageVars => PagesInv'
    BY <2>1, PagesNextDay DEF PapersNext, PlanVars, Purchase!Next, Purchase!SaveSalesContract, Purchase!AdvanceN3,
                              Purchase!SavePlan
  <2> QED BY <2>1, <2>2, LanesStay DEF MCNext, PlanVars
<1> QED BY <1>1, <1>2, PTL DEF MCSpec

LEMMA LanesMoveAlone ==
  PagesInv /\ [MCNext]_<<vars, pageVars, lane, SaleVars, PlanVars, FileVars>> => MovesAlone
<1>1. PagesNext => MovesAlone
  BY ActionsMoveAlone DEF PagesNext, CollectPage, PageTerms
<1>2. UNCHANGED <<pageVars, today>> => MovesAlone
  BY DEF pageVars, MovesAlone
<1>3. PagesInv /\ Purchase!NextDay /\ UNCHANGED pageVars => MovesAlone
  BY LoadedIs DEF Purchase!NextDay, pageVars, MovesAlone, PagesInv, LoadedGood
<1>4. PagesInv /\ PapersNext /\ UNCHANGED pageVars => MovesAlone
  BY <1>2, <1>3 DEF PapersNext, PlanVars, Purchase!Next, Purchase!SaveSalesContract, Purchase!AdvanceN3, Purchase!SavePlan
<1> QED BY <1>1, <1>2, <1>4 DEF MCNext, PlanVars

(* The same in the lanes of the run, which start with part of the facts:   *)
(* praise is earned (buildTags, toListItem),                               *)
THEOREM PraiseHolds == MCSpec => []GoodRemitOwesNothingLate
<1>1. PagesInv => GoodRemitOwesNothingLate
  BY PraiseIsEarned DEF PagesInv, Pages!GoodRemitOwesNothingLate, GoodRemitOwesNothingLate
<1> QED BY <1>1, LanesAlways, PTL

(* collecting never lowers a grade (riskScore, creditScore),               *)
THEOREM CollectingHolds == MCSpec => CollectingNeverDowngrades
<1>1. PagesInv /\ PagesInv' /\ [MCNext]_<<vars, pageVars, lane, SaleVars, PlanVars, FileVars>> =>
        [settlements' # settlements /\ Pages!MoneyCameIn(Pages!LoadCustomers, Pages!LoadCustomers')
           => \A b \in Buyers : Pages!GradeOf(Pages!LoadCustomers', b) >= Pages!GradeOf(Pages!LoadCustomers, b)]_Pages!vars
  BY LanesMoveAlone, StepsKeepGrades
<1> QED BY <1>1, LanesAlways, PTL DEF MCSpec, CollectingNeverDowngrades, Pages!CollectingNeverDowngrades

(* and waiting never raises one (agingUnpaidFen).                          *)
THEOREM WaitingHolds == MCSpec => WaitingNeverUpgrades
<1>1. PagesInv /\ PagesInv' /\ [MCNext]_<<vars, pageVars, lane, SaleVars, PlanVars, FileVars>> =>
        [today' # today
           => \A b \in Buyers : Pages!GradeOf(Pages!LoadCustomers', b) <= Pages!GradeOf(Pages!LoadCustomers, b)]_Pages!vars
  BY LanesMoveAlone, StepsKeepGrades
<1> QED BY <1>1, LanesAlways, PTL DEF MCSpec, WaitingNeverUpgrades, Pages!WaitingNeverUpgrades
=============================================================================
