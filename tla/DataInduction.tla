---------------------------- MODULE DataInduction ----------------------------
(***************************************************************************)
(* Induction over the subsets of a finite set, and with it what the        *)
(* operators that the models take from the community modules compute: the  *)
(* largest element of a finite set, the smallest of a set of naturals, and *)
(* SumFunctionOnSet, the sum of a function's values over a finite set that *)
(* the movements of a wallet are made of.                                  *)
(***************************************************************************)
EXTENDS Integers, FiniteSets, Functions, FiniteSetTheorems, WellFoundedInduction, TLAPS

\* Q, a set, takes the place of a predicate: what holds of T whenever it holds
\* of all smaller subsets holds of S.
LEMMA FiniteInduction ==
  ASSUME NEW S, IsFiniteSet(S), NEW Q,
         \A T \in SUBSET S : (\A U \in SUBSET T : U # T => U \in Q) => T \in Q
  PROVE  S \in Q
<1> DEFINE Bad == {T \in SUBSET S : T \notin Q}
<1>1. SUFFICES ASSUME S \notin Q PROVE FALSE
  OBVIOUS
<1>2. Bad # {} /\ Bad \subseteq FiniteSubsetsOf(S)
  BY <1>1, FS_Subset DEF FiniteSubsetsOf
<1>3. IsWellFoundedOn(StrictSubsetOrdering(S), FiniteSubsetsOf(S))
  BY FS_StrictSubsetOrderingWellFounded
<1> HIDE DEF Bad
<1>4. PICK T \in Bad : \A U \in Bad : ~ (<<U, T>> \in StrictSubsetOrdering(S))
  BY <1>2, <1>3, WFMin
<1> USE DEF Bad
<1>5. \A U \in SUBSET T : U # T => U \in Q
  BY <1>4 DEF StrictSubsetOrdering
<1> QED BY <1>4, <1>5

\* What the sum takes out of a set first, and what it adds to the sum of the rest.
Pick(s) == CHOOSE x \in s : TRUE
Sum1(f, g, s) == IF s = {} THEN 0 ELSE f[Pick(s)] + g[s \ {Pick(s)}]

\* g gives the sum of every subset of S.
Sums(f, g, S) == g = [s \in SUBSET S |-> Sum1(f, g, s)]

LEMMA Picked == ASSUME NEW s, s # {} PROVE Pick(s) \in s
  BY DEF Pick

LEMMA SumsUnique ==
  ASSUME NEW S, IsFiniteSet(S), NEW f, NEW T \in SUBSET S, NEW g, Sums(f, g, S), NEW h, Sums(f, h, T)
  PROVE  g[T] = h[T]
<1> DEFINE Q == {U \in SUBSET T : g[U] = h[U]}
<1>1. ASSUME NEW U \in SUBSET T, \A V \in SUBSET U : V # U => V \in Q
      PROVE  U \in Q
  <2>1. g[U] = Sum1(f, g, U) /\ h[U] = Sum1(f, h, U)
    BY DEF Sums
  <2>2. U # {} => g[U \ {Pick(U)}] = h[U \ {Pick(U)}]
    BY <1>1, Picked
  <2> QED BY <2>1, <2>2 DEF Sum1
<1>2. IsFiniteSet(T)
  BY FS_Subset
<1> HIDE DEF Q
<1>3. T \in Q
  BY <1>1, <1>2, FiniteInduction
<1> QED BY <1>3 DEF Q

LEMMA SumsExist ==
  ASSUME NEW S, IsFiniteSet(S), NEW f PROVE \E g : Sums(f, g, S)
<1> DEFINE Q == {T \in SUBSET S : \E g : Sums(f, g, T)}
           G(T) == CHOOSE g : Sums(f, g, T)
<1>1. ASSUME NEW T \in SUBSET S, \A U \in SUBSET T : U # T => U \in Q
      PROVE  T \in Q
  <2> DEFINE rest(s) == s \ {Pick(s)}
             h == [s \in SUBSET T |-> IF s = {} THEN 0 ELSE f[Pick(s)] + G(rest(s))[rest(s)]]
  <2>1. \A U \in SUBSET T : U # T => Sums(f, G(U), U)
    BY <1>1
  <2>2. \A U \in SUBSET T : U # T => h[U] = G(U)[U]
    <3> SUFFICES ASSUME NEW U \in SUBSET T, U # T PROVE h[U] = G(U)[U]
      OBVIOUS
    <3>1. Sums(f, G(U), U)
      BY <2>1
    <3>2. G(U)[U] = Sum1(f, G(U), U)
      BY <3>1 DEF Sums
    <3>3. CASE U = {}
      BY <3>2, <3>3 DEF Sum1
    <3>4. CASE U # {}
      <4>1. rest(U) \in SUBSET U /\ rest(U) # U /\ rest(U) # T
        BY <3>4, Picked
      <4>2. IsFiniteSet(U)
        BY FS_Subset
      <4>3. Sums(f, G(rest(U)), rest(U))
        BY <2>1, <4>1
      <4> HIDE DEF G, rest
      <4>4. G(U)[rest(U)] = G(rest(U))[rest(U)]
        BY <3>1, <4>1, <4>2, <4>3, SumsUnique
      <4>5. G(U)[U] = f[Pick(U)] + G(U)[rest(U)]
        BY <3>2, <3>4 DEF Sum1, rest
      <4> QED BY <3>4, <4>4, <4>5
    <3> QED BY <3>3, <3>4
  <2>3. \A s \in SUBSET T : h[s] = Sum1(f, h, s)
    <3> SUFFICES ASSUME NEW s \in SUBSET T PROVE h[s] = Sum1(f, h, s)
      OBVIOUS
    <3>1. CASE s = {}
      BY <3>1 DEF Sum1
    <3>2. CASE s # {}
      <4>1. rest(s) \in SUBSET T /\ rest(s) # T
        BY <3>2, Picked
      <4>2. h[rest(s)] = G(rest(s))[rest(s)]
        BY <2>2, <4>1
      <4>3. h[s] = f[Pick(s)] + G(rest(s))[rest(s)]
        BY <3>2
      <4> HIDE DEF G, h
      <4> QED BY <3>2, <4>2, <4>3 DEF Sum1
    <3> QED BY <3>1, <3>2
  <2>4. h = [s \in SUBSET T |-> h[s]]
    OBVIOUS
  <2> HIDE DEF h
  <2>5. Sums(f, h, T)
    BY <2>3, <2>4 DEF Sums
  <2> QED BY <2>5
<1> HIDE DEF Q
<1>2. S \in Q
  BY <1>1, FiniteInduction
<1> QED BY <1>2 DEF Q

\* The definition of SumFunctionOnSet, unfolded.
LEMMA SumChoice ==
  ASSUME NEW S, NEW f
  PROVE  SumFunctionOnSet(f, S) = (CHOOSE g : Sums(f, g, S))[S]
  BY DEF SumFunctionOnSet, FoldFunctionOnSet, MapThenFoldSet, Sums, Sum1, Pick

LEMMA SumsOf ==
  ASSUME NEW S, IsFiniteSet(S), NEW f, NEW g, Sums(f, g, S), NEW T \in SUBSET S
  PROVE  SumFunctionOnSet(f, T) = g[T]
<1> DEFINE h == CHOOSE h : Sums(f, h, T)
<1>1. IsFiniteSet(T)
  BY FS_Subset
<1>2. Sums(f, h, T)
  BY <1>1, SumsExist
<1> HIDE DEF h
<1>3. h[T] = g[T]
  BY <1>2, SumsUnique
<1> QED BY <1>3, SumChoice DEF h

LEMMA SumEmpty == ASSUME NEW f PROVE SumFunctionOnSet(f, {}) = 0
<1>1. IsFiniteSet({})
  BY FS_EmptySet
<1>2. PICK g : Sums(f, g, {})
  BY <1>1, SumsExist
<1>3. g[{}] = 0
  BY <1>2 DEF Sums, Sum1
<1> QED BY <1>1, <1>2, <1>3, SumsOf

\* One element first, in the order of the definition.
LEMMA SumPicked ==
  ASSUME NEW S, IsFiniteSet(S), S # {}, NEW f
  PROVE  SumFunctionOnSet(f, S) = f[Pick(S)] + SumFunctionOnSet(f, S \ {Pick(S)})
<1>1. PICK g : Sums(f, g, S)
  BY SumsExist
<1>2. SumFunctionOnSet(f, S) = g[S] /\ SumFunctionOnSet(f, S \ {Pick(S)}) = g[S \ {Pick(S)}]
  BY <1>1, SumsOf
<1> QED BY <1>1, <1>2 DEF Sums, Sum1

\* A sum of integers is one.
LEMMA SumInt ==
  ASSUME NEW S, IsFiniteSet(S), NEW f, \A x \in S : f[x] \in Int
  PROVE  SumFunctionOnSet(f, S) \in Int
<1> DEFINE Q == {T \in SUBSET S : SumFunctionOnSet(f, T) \in Int}
<1>1. ASSUME NEW T \in SUBSET S, \A U \in SUBSET T : U # T => U \in Q
      PROVE  T \in Q
  <2>1. CASE T = {}
    BY <2>1, SumEmpty
  <2>2. CASE T # {}
    <3>1. T \ {Pick(T)} \in Q /\ Pick(T) \in T /\ IsFiniteSet(T)
      BY <1>1, <2>2, Picked, FS_Subset
    <3>2. SumFunctionOnSet(f, T) = f[Pick(T)] + SumFunctionOnSet(f, T \ {Pick(T)})
      BY <2>2, <3>1, SumPicked
    <3>3. f[Pick(T)] \in Int
      BY <3>1
    <3> QED BY <3>1, <3>2, <3>3
  <2> QED BY <2>1, <2>2
<1> HIDE DEF Q
<1>2. S \in Q
  BY <1>1, FiniteInduction
<1> QED BY <1>2 DEF Q

\* A sum of naturals is one.
LEMMA SumNat ==
  ASSUME NEW S, IsFiniteSet(S), NEW f, \A x \in S : f[x] \in Nat
  PROVE  SumFunctionOnSet(f, S) \in Nat
<1> DEFINE Q == {T \in SUBSET S : SumFunctionOnSet(f, T) \in Nat}
<1>1. ASSUME NEW T \in SUBSET S, \A U \in SUBSET T : U # T => U \in Q
      PROVE  T \in Q
  <2>1. CASE T = {}
    BY <2>1, SumEmpty
  <2>2. CASE T # {}
    <3>1. T \ {Pick(T)} \in Q /\ Pick(T) \in T /\ IsFiniteSet(T)
      BY <1>1, <2>2, Picked, FS_Subset
    <3>2. SumFunctionOnSet(f, T) = f[Pick(T)] + SumFunctionOnSet(f, T \ {Pick(T)})
      BY <2>2, <3>1, SumPicked
    <3>3. f[Pick(T)] \in Nat
      BY <3>1
    <3> QED BY <3>1, <3>2, <3>3
  <2> QED BY <2>1, <2>2
<1> HIDE DEF Q
<1>2. S \in Q
  BY <1>1, FiniteInduction
<1> QED BY <1>2 DEF Q

\* Any element first: the order does not matter.
LEMMA SumElement ==
  ASSUME NEW S, IsFiniteSet(S), NEW f, \A x \in S : f[x] \in Int, NEW a \in S
  PROVE  SumFunctionOnSet(f, S) = f[a] + SumFunctionOnSet(f, S \ {a})
<1> DEFINE Q == {T \in SUBSET S :
                    \A x \in T : SumFunctionOnSet(f, T) = f[x] + SumFunctionOnSet(f, T \ {x})}
<1>1. ASSUME NEW T \in SUBSET S, \A U \in SUBSET T : U # T => U \in Q
      PROVE  T \in Q
  <2> SUFFICES ASSUME NEW x \in T
               PROVE  SumFunctionOnSet(f, T) = f[x] + SumFunctionOnSet(f, T \ {x})
    OBVIOUS
  <2> DEFINE y == Pick(T)
  <2>1. /\ y \in T /\ \A U \in SUBSET S : IsFiniteSet(U)
        /\ \A U \in SUBSET S : SumFunctionOnSet(f, U) \in Int
    <3>1. \A U \in SUBSET S : IsFiniteSet(U)
      BY FS_Subset
    <3> QED BY <3>1, Picked, SumInt
  <2>2. SumFunctionOnSet(f, T) = f[y] + SumFunctionOnSet(f, T \ {y})
    BY <2>1, SumPicked
  <2> HIDE DEF y
  <2>3. CASE x = y
    BY <2>2, <2>3
  <2>4. CASE x # y
    <3>1. T \ {y} \in Q /\ T \ {x} \in Q
      BY <1>1, <2>1
    <3>2. /\ SumFunctionOnSet(f, T \ {y}) = f[x] + SumFunctionOnSet(f, (T \ {y}) \ {x})
          /\ SumFunctionOnSet(f, T \ {x}) = f[y] + SumFunctionOnSet(f, (T \ {x}) \ {y})
      BY <2>1, <2>4, <3>1
    <3>3. PICK rest \in Int : /\ SumFunctionOnSet(f, (T \ {y}) \ {x}) = rest
                             /\ SumFunctionOnSet(f, (T \ {x}) \ {y}) = rest
      <4>1. (T \ {y}) \ {x} = (T \ {x}) \ {y} /\ (T \ {x}) \ {y} \in SUBSET S
        OBVIOUS
      <4> QED BY <2>1, <4>1
    <3>4. f[x] \in Int /\ f[y] \in Int
      BY <2>1
    <3> QED BY <2>2, <3>2, <3>3, <3>4
  <2> QED BY <2>3, <2>4
<1> HIDE DEF Q
<1>2. S \in Q
  BY <1>1, FiniteInduction
<1> QED BY <1>2 DEF Q

LEMMA SumSingleton == ASSUME NEW x, NEW f, f[x] \in Int PROVE SumFunctionOnSet(f, {x}) = f[x]
<1>1. IsFiniteSet({x}) /\ {x} \ {x} = {}
  BY FS_Singleton
<1> QED BY <1>1, SumElement, SumEmpty

\* One more element.
LEMMA SumAdd ==
  ASSUME NEW S, IsFiniteSet(S), NEW a, a \notin S, NEW f, \A x \in S \cup {a} : f[x] \in Int
  PROVE  SumFunctionOnSet(f, S \cup {a}) = f[a] + SumFunctionOnSet(f, S)
<1>1. IsFiniteSet(S \cup {a}) /\ (S \cup {a}) \ {a} = S
  BY FS_AddElement
<1> QED BY <1>1, SumElement

\* Only the values on the set count.
LEMMA SumSame ==
  ASSUME NEW S, IsFiniteSet(S), NEW f, NEW g, \A x \in S : f[x] = g[x]
  PROVE  SumFunctionOnSet(f, S) = SumFunctionOnSet(g, S)
<1> DEFINE Q == {T \in SUBSET S : SumFunctionOnSet(f, T) = SumFunctionOnSet(g, T)}
<1>1. ASSUME NEW T \in SUBSET S, \A U \in SUBSET T : U # T => U \in Q
      PROVE  T \in Q
  <2>1. CASE T = {}
    BY <2>1, SumEmpty
  <2>2. CASE T # {}
    <3>1. T \ {Pick(T)} \in Q /\ Pick(T) \in T /\ IsFiniteSet(T)
      BY <1>1, <2>2, Picked, FS_Subset
    <3>2. /\ SumFunctionOnSet(f, T) = f[Pick(T)] + SumFunctionOnSet(f, T \ {Pick(T)})
          /\ SumFunctionOnSet(g, T) = g[Pick(T)] + SumFunctionOnSet(g, T \ {Pick(T)})
      BY <2>2, <3>1, SumPicked
    <3>3. f[Pick(T)] = g[Pick(T)]
      BY <3>1
    <3> QED BY <3>1, <3>2, <3>3
  <2> QED BY <2>1, <2>2
<1> HIDE DEF Q
<1>2. S \in Q
  BY <1>1, FiniteInduction
<1> QED BY <1>2 DEF Q

\* Two parts of a set.
LEMMA SumUnion ==
  ASSUME NEW S, IsFiniteSet(S), NEW T, IsFiniteSet(T), S \cap T = {},
         NEW f, \A x \in S \cup T : f[x] \in Int
  PROVE  SumFunctionOnSet(f, S \cup T) = SumFunctionOnSet(f, S) + SumFunctionOnSet(f, T)
<1> DEFINE Q == {U \in SUBSET T :
                    SumFunctionOnSet(f, S \cup U) = SumFunctionOnSet(f, S) + SumFunctionOnSet(f, U)}
<1>1. ASSUME NEW U \in SUBSET T, \A V \in SUBSET U : V # U => V \in Q
      PROVE  U \in Q
  <2>0. SumFunctionOnSet(f, S) \in Int
    BY SumInt
  <2>1. CASE U = {}
    <3>1. S \cup U = S /\ SumFunctionOnSet(f, U) = 0
      BY <2>1, SumEmpty
    <3>2. ASSUME NEW n \in Int PROVE n = n + 0
      OBVIOUS
    <3>3. SumFunctionOnSet(f, S \cup U) = SumFunctionOnSet(f, S) + SumFunctionOnSet(f, U)
      BY <2>0, <3>1, <3>2
    <3> QED BY <1>1, <3>3
  <2>2. CASE U # {}
    <3>1. PICK a \in U : TRUE
      BY <2>2
    <3> DEFINE V == U \ {a}
    <3>2. V \in Q /\ V \in SUBSET T /\ a \notin V /\ a \notin S \cup V
      BY <1>1, <3>1
    <3>3. IsFiniteSet(V) /\ IsFiniteSet(S \cup V)
      BY <3>2, FS_Subset, FS_Union
    <3>4. U = V \cup {a} /\ S \cup U = (S \cup V) \cup {a} /\ U \in SUBSET T
      BY <3>1
    <3>5. f[a] \in Int /\ \A x \in S \cup U : f[x] \in Int
      BY <3>1
    <3>6. SumFunctionOnSet(f, S \cup V) = SumFunctionOnSet(f, S) + SumFunctionOnSet(f, V)
      BY <3>2
    <3> HIDE DEF V
    <3>7. SumFunctionOnSet(f, U) = f[a] + SumFunctionOnSet(f, V)
      BY <3>2, <3>3, <3>4, <3>5, SumAdd
    <3>8. SumFunctionOnSet(f, S \cup U) = f[a] + SumFunctionOnSet(f, S \cup V)
      BY <3>2, <3>3, <3>4, <3>5, SumAdd
    <3>9. SumFunctionOnSet(f, V) \in Int
      BY <3>3, <3>4, <3>5, SumInt
    <3> QED BY <2>0, <3>4, <3>5, <3>6, <3>7, <3>8, <3>9
  <2> QED BY <2>1, <2>2
<1> HIDE DEF Q
<1>2. T \in Q
  BY <1>1, FiniteInduction
<1> QED BY <1>2 DEF Q

\* The same value for every element.
LEMMA SumConstant ==
  ASSUME NEW S, IsFiniteSet(S), NEW f, NEW v \in Int, \A x \in S : f[x] = v
  PROVE  SumFunctionOnSet(f, S) = Cardinality(S) * v
<1> DEFINE Q == {T \in SUBSET S : SumFunctionOnSet(f, T) = Cardinality(T) * v}
<1>1. ASSUME NEW T \in SUBSET S, \A U \in SUBSET T : U # T => U \in Q
      PROVE  T \in Q
  <2>1. CASE T = {}
    <3>1. SumFunctionOnSet(f, T) = 0 /\ Cardinality(T) = 0
      BY <2>1, SumEmpty, FS_EmptySet
    <3> QED BY <3>1
  <2>2. CASE T # {}
    <3>1. T \ {Pick(T)} \in Q /\ Pick(T) \in T /\ IsFiniteSet(T)
      BY <1>1, <2>2, Picked, FS_Subset
    <3>2. SumFunctionOnSet(f, T) = f[Pick(T)] + SumFunctionOnSet(f, T \ {Pick(T)})
      BY <2>2, <3>1, SumPicked
    <3>3. f[Pick(T)] = v
      BY <3>1
    <3>4. Cardinality(T \ {Pick(T)}) = Cardinality(T) - 1 /\ Cardinality(T) \in Nat
      BY <3>1, FS_RemoveElement, FS_CardinalityType
    <3>5. ASSUME NEW n \in Nat PROVE v + (n - 1) * v = n * v
      OBVIOUS
    <3> QED BY <3>1, <3>2, <3>3, <3>4, <3>5
  <2> QED BY <2>1, <2>2
<1> HIDE DEF Q
<1>2. S \in Q
  BY <1>1, FiniteInduction
<1> QED BY <1>2 DEF Q

-----------------------------------------------------------------------------
(* Largest and smallest elements.                                          *)

\* What a function makes of a finite set is finite.
LEMMA FiniteImage ==
  ASSUME NEW S, IsFiniteSet(S), NEW f, DOMAIN f = S, f = [x \in S |-> f[x]]
  PROVE  IsFiniteSet({f[x] : x \in S})
<1> DEFINE T == {f[x] : x \in S}
<1>1. f \in [S -> T]
  OBVIOUS
<1>2. \A y \in T : \E x \in S : f[x] = y
  OBVIOUS
<1>3. f \in Surjection(S, T)
  BY <1>1, <1>2 DEF Surjection
<1> QED BY <1>3, FS_Surjection

LEMMA FiniteMax ==
  ASSUME NEW S, IsFiniteSet(S), S # {}, S \subseteq Int
  PROVE  \E m \in S : \A x \in S : m >= x
<1> DEFINE Q == {T \in SUBSET S : T = {} \/ \E m \in T : \A x \in T : m >= x}
<1>1. ASSUME NEW T \in SUBSET S, \A U \in SUBSET T : U # T => U \in Q
      PROVE  T \in Q
  <2>1. CASE T = {}
    BY <2>1
  <2>2. CASE T # {}
    <3>1. PICK y \in T : TRUE
      BY <2>2
    <3>2. T \ {y} \in Q
      BY <1>1, <3>1
    <3>3. CASE T \ {y} = {}
      <4>1. y \in Int /\ \A x \in T : x = y
        BY <3>1, <3>3
      <4> QED BY <3>1, <4>1
    <3>4. CASE T \ {y} # {}
      <4>1. PICK m \in T \ {y} : \A x \in T \ {y} : m >= x
        BY <3>2, <3>4
      <4>2. CASE m >= y
        BY <4>1, <4>2
      <4>3. CASE ~ m >= y
        <5>1. m \in Int /\ y \in Int /\ \A x \in T : x \in Int
          BY <3>1, <4>1
        <5>2. \A x \in T : y >= x
          BY <4>1, <4>3, <5>1
        <5> QED BY <3>1, <5>2
      <4> QED BY <4>2, <4>3
    <3> QED BY <3>3, <3>4
  <2> QED BY <2>1, <2>2
<1> HIDE DEF Q
<1>2. S \in Q
  BY <1>1, FiniteInduction
<1> QED BY <1>2 DEF Q

LEMMA NatMin ==
  ASSUME NEW S \in SUBSET Nat, S # {}
  PROVE  \E m \in S : \A x \in S : m <= x
<1>1. PICK n \in S : TRUE
  OBVIOUS
<1> DEFINE T == {0 - x : x \in {y \in S : y <= n}}
<1>2. {y \in S : y <= n} \in SUBSET Nat /\ n \in Nat
  OBVIOUS
<1>3. IsFiniteSet(0 .. n)
  BY <1>2, FS_Interval
<1> DEFINE B == {y \in S : y <= n}
           f == [x \in B |-> 0 - x]
<1>4. B \in SUBSET (0 .. n)
  BY <1>2
<1>5. IsFiniteSet(B)
  BY <1>3, <1>4, FS_Subset
<1>6. f \in Surjection(B, T)
  BY DEF Surjection
<1>7. IsFiniteSet(T)
  BY <1>5, <1>6, FS_Surjection
<1>8. T # {} /\ T \subseteq Int
  BY <1>1, <1>2
<1> HIDE DEF T
<1>9. PICK m \in T : \A x \in T : m >= x
  BY <1>7, <1>8, FiniteMax
<1> USE DEF T
<1>10. PICK k \in B : m = 0 - k
  BY <1>9
<1>11. \A x \in B : k <= x
  <2> SUFFICES ASSUME NEW x \in B PROVE k <= x
    OBVIOUS
  <2>1. m >= 0 - x /\ k \in Nat /\ x \in Nat
    BY <1>2, <1>9, <1>10
  <2> QED BY <1>10, <2>1
<1>12. \A x \in S : k <= x
  <2> SUFFICES ASSUME NEW x \in S PROVE k <= x
    OBVIOUS
  <2>1. x \in Nat /\ k \in Nat /\ k <= n /\ n \in Nat
    BY <1>2, <1>10
  <2> QED BY <1>11, <2>1
<1> QED BY <1>10, <1>12
=============================================================================
