----------------------------- MODULE SumLemmas -----------------------------
(***************************************************************************)
(* Facts about the sums of the community modules (SumFunctionOnSet), for   *)
(* the proofs about modules that add up rows.  A sum is defined by         *)
(* recursion on subsets; that the recursion has a solution, and what       *)
(* follows for the sum, is proved here by induction.  The library states   *)
(* induction for an operator; here it is stated for a set.                 *)
(***************************************************************************)
EXTENDS Integers, Functions, FiniteSetTheorems, WellFoundedInduction, TLAPS

-----------------------------------------------------------------------------
(* Induction *)

\* A set of natural numbers with 0 and the successor of each of its members has
\* all of them.
LEMMA NaturalsByInduction ==
  ASSUME NEW Good, 0 \in Good, \A n \in Nat : n \in Good => n + 1 \in Good
  PROVE  Nat \subseteq Good
<1> DEFINE Bad == Nat \ Good
<1>1. SUFFICES ASSUME Bad # {} PROVE FALSE
  OBVIOUS
<1>2. Bad \subseteq Nat
  OBVIOUS
<1>3. IsWellFoundedOn(OpToRel(<, Nat), Nat)
  BY NatLessThanWellFounded
<1>4. PICK n \in Bad : \A m \in Bad : ~(<<m, n>> \in OpToRel(<, Nat))
  <2> HIDE DEF Bad
  <2>1. QED
    BY <1>1, <1>2, <1>3, WFMin
<1>5. \A m \in Bad : ~(m < n)
  BY <1>4 DEF OpToRel
<1>6. n # 0 /\ n - 1 \in Nat
  OBVIOUS
<1>7. n - 1 \in Good
  BY <1>5, <1>6
<1>8. QED
  BY <1>6, <1>7

\* A finite set belongs to a family that has every set all of whose smaller
\* subsets it has.
LEMMA FiniteSetByInduction ==
  ASSUME NEW S, IsFiniteSet(S), NEW Good,
         \A T \in SUBSET S : (\A U \in (SUBSET T) \ {T} : U \in Good) => T \in Good
  PROVE  S \in Good
<1> DEFINE Bad == (SUBSET S) \ Good
<1>1. SUFFICES ASSUME Bad # {} PROVE FALSE
  OBVIOUS
<1>2. IsWellFoundedOn(StrictSubsetOrdering(S), FiniteSubsetsOf(S))
  BY FS_StrictSubsetOrderingWellFounded
<1>3. Bad \subseteq FiniteSubsetsOf(S)
  BY FS_FiniteSubsetsOfFinite
<1>4. PICK T \in Bad : \A U \in Bad : ~(<<U, T>> \in StrictSubsetOrdering(S))
  <2> HIDE DEF Bad
  <2>1. QED
    BY <1>1, <1>2, <1>3, WFMin
<1>5. \A U \in Bad : ~(U \subseteq T /\ U # T)
  BY <1>4 DEF StrictSubsetOrdering
<1>6. QED
  BY <1>5

-----------------------------------------------------------------------------
(* The recursion *)

Some(s) == CHOOSE x \in s : TRUE

\* g is a solution of the recursion that defines the sum of f over S.
Adds(g, f, S) ==
    g = [s \in SUBSET S |-> IF s = {} THEN 0 ELSE f[Some(s)] + g[s \ {Some(s)}]]

\* The sum is the value of a solution, if there is one.
LEMMA SumIsSolution ==
  ASSUME NEW f, NEW S, \E g : Adds(g, f, S)
  PROVE  \E g : Adds(g, f, S) /\ SumFunctionOnSet(f, S) = g[S]
  BY DEF Adds, Some, SumFunctionOnSet, FoldFunctionOnSet, MapThenFoldSet

\* Over a finite set there is a solution.
LEMMA SolutionExists ==
  ASSUME NEW f, NEW S, IsFiniteSet(S) PROVE \E g : Adds(g, f, S)
<1> DEFINE Small(n) == {s \in SUBSET S : Cardinality(s) <= n}
           Solves(g, n) == g = [s \in Small(n) |->
                                  IF s = {} THEN 0 ELSE f[Some(s)] + g[s \ {Some(s)}]]
           Good == {n \in Nat : \E g : Solves(g, n)}
<1>1. \A s \in SUBSET S : IsFiniteSet(s) /\ Cardinality(s) \in Nat
  BY FS_Subset, FS_CardinalityType
<1>2. \A s \in SUBSET S : s # {} => /\ Some(s) \in s
                                    /\ Cardinality(s \ {Some(s)}) = Cardinality(s) - 1
  BY <1>1, FS_RemoveElement DEF Some
<1>3. 0 \in Good
  <2>1. \A s \in Small(0) : s = {}
    BY <1>1, FS_EmptySet
  <2>2. Solves([s \in Small(0) |-> 0], 0)
    BY <2>1
  <2>3. QED
    BY <2>2
<1>4. ASSUME NEW n \in Nat, n \in Good PROVE n + 1 \in Good
  <2>1. PICK g : Solves(g, n)
    BY <1>4
  <2> DEFINE h == [s \in Small(n + 1) |->
                     IF s \in Small(n) THEN g[s] ELSE f[Some(s)] + g[s \ {Some(s)}]]
  <2>2. ASSUME NEW s \in Small(n + 1), s # {}
        PROVE  /\ s \ {Some(s)} \in Small(n) /\ s \ {Some(s)} \in Small(n + 1)
               /\ h[s] = f[Some(s)] + g[s \ {Some(s)}]
    <3>1. s \ {Some(s)} \in Small(n) /\ s \ {Some(s)} \in Small(n + 1)
      BY <1>1, <1>2, <2>2
    <3>2. h[s] = IF s \in Small(n) THEN g[s] ELSE f[Some(s)] + g[s \ {Some(s)}]
      <4> HIDE DEF Small
      <4>1. QED
        BY <2>2
    <3>3. s \in Small(n) => g[s] = f[Some(s)] + g[s \ {Some(s)}]
      <4> HIDE DEF Small
      <4>1. QED
        BY <2>1, <2>2
    <3>4. h[s] = f[Some(s)] + g[s \ {Some(s)}]
      <4> HIDE DEF Small, h
      <4>1. QED
        BY <3>2, <3>3
    <3>5. QED
      BY <3>1, <3>4
  <2>3. ASSUME {} \in Small(n + 1) PROVE h[{}] = 0
    <3>1. {} \in Small(n)
      BY FS_EmptySet
    <3>2. QED
      BY <2>1, <2>3, <3>1
  <2>4. ASSUME NEW s \in Small(n + 1)
        PROVE  h[s] = IF s = {} THEN 0 ELSE f[Some(s)] + h[s \ {Some(s)}]
    <3>1. CASE s = {}
      BY <2>3, <3>1
    <3>2. CASE s # {}
      <4>1. h[s \ {Some(s)}] = g[s \ {Some(s)}]
        BY <2>2, <3>2
      <4>2. QED
        BY <2>2, <3>2, <4>1
    <3>3. QED
      BY <3>1, <3>2
  <2>5. Solves(h, n + 1)
    <3> DEFINE hh == [s \in Small(n + 1) |->
                        IF s = {} THEN 0 ELSE f[Some(s)] + h[s \ {Some(s)}]]
    <3>1. h = hh
      BY <2>4
    <3>2. QED
      BY <3>1
  <2>6. QED
    <3> HIDE DEF Solves, h
    <3>1. QED
      BY <2>5
<1>5. Cardinality(S) \in Good
  <2> HIDE DEF Good
  <2>1. QED
    BY <1>1, <1>3, <1>4, NaturalsByInduction
<1>6. PICK g : Solves(g, Cardinality(S))
  BY <1>5
<1>7. Small(Cardinality(S)) = SUBSET S
  BY FS_Subset
<1>8. Adds(g, f, S)
  BY <1>6, <1>7 DEF Adds
<1>9. QED
  BY <1>8

\* Two solutions agree wherever both are defined.
LEMMA SolutionUnique ==
  ASSUME NEW f, NEW S, NEW T, NEW g, NEW h, Adds(g, f, S), Adds(h, f, T),
         IsFiniteSet(S), NEW V \in SUBSET S, V \in SUBSET T
  PROVE  g[V] = h[V]
<1> DEFINE Good == {U \in SUBSET V : g[U] = h[U]}
<1>1. ASSUME NEW U \in SUBSET V, \A W \in (SUBSET U) \ {U} : W \in Good PROVE U \in Good
  <2>1. CASE U = {}
    BY <2>1 DEF Adds
  <2>2. CASE U # {}
    <3>1. Some(U) \in U
      BY <2>2 DEF Some
    <3>2. g[U \ {Some(U)}] = h[U \ {Some(U)}]
      BY <1>1, <3>1
    <3>3. g[U] = f[Some(U)] + g[U \ {Some(U)}]
      BY <2>2 DEF Adds
    <3>4. h[U] = f[Some(U)] + h[U \ {Some(U)}]
      BY <2>2 DEF Adds
    <3>5. QED
      BY <3>2, <3>3, <3>4
  <2>3. QED
    BY <2>1, <2>2
<1>2. IsFiniteSet(V)
  BY FS_Subset
<1>3. V \in Good
  <2> HIDE DEF Good
  <2>1. QED
    BY <1>1, <1>2, FiniteSetByInduction
<1>4. QED
  BY <1>3

\* The sum as its definition unfolds it.
LEMMA SumUnfolds ==
  ASSUME NEW f, NEW S, IsFiniteSet(S)
  PROVE  /\ S = {} => SumFunctionOnSet(f, S) = 0
         /\ S # {} => SumFunctionOnSet(f, S)
                        = f[Some(S)] + SumFunctionOnSet(f, S \ {Some(S)})
<1>1. PICK g : Adds(g, f, S) /\ SumFunctionOnSet(f, S) = g[S]
  BY SolutionExists, SumIsSolution
<1>2. CASE S = {}
  BY <1>1, <1>2 DEF Adds
<1>3. CASE S # {}
  <2> DEFINE R == S \ {Some(S)}
  <2>1. IsFiniteSet(R)
    BY FS_Subset
  <2>2. PICK h : Adds(h, f, R) /\ SumFunctionOnSet(f, R) = h[R]
    BY <2>1, SolutionExists, SumIsSolution
  <2>3. g[R] = h[R]
    BY <1>1, <2>2, SolutionUnique
  <2>4. g[S] = f[Some(S)] + g[R]
    BY <1>1, <1>3 DEF Adds
  <2>5. QED
    BY <1>1, <1>3, <2>2, <2>3, <2>4
<1>4. QED
  BY <1>2, <1>3

-----------------------------------------------------------------------------
(* What a sum is, and how it changes *)

\* A sum of integers is an integer, one of natural numbers a natural number.
LEMMA SumType ==
  ASSUME NEW f, NEW S, IsFiniteSet(S)
  PROVE  /\ (\A x \in S : f[x] \in Int) => SumFunctionOnSet(f, S) \in Int
         /\ (\A x \in S : f[x] \in Nat) => SumFunctionOnSet(f, S) \in Nat
<1> DEFINE Good == {T \in SUBSET S :
                      /\ (\A x \in T : f[x] \in Int) => SumFunctionOnSet(f, T) \in Int
                      /\ (\A x \in T : f[x] \in Nat) => SumFunctionOnSet(f, T) \in Nat}
<1>1. ASSUME NEW T \in SUBSET S, \A U \in (SUBSET T) \ {T} : U \in Good PROVE T \in Good
  <2>1. IsFiniteSet(T)
    BY FS_Subset
  <2>2. CASE T = {}
    BY <2>1, <2>2, SumUnfolds
  <2>3. CASE T # {}
    <3>1. Some(T) \in T
      BY <2>3 DEF Some
    <3>2. SumFunctionOnSet(f, T) = f[Some(T)] + SumFunctionOnSet(f, T \ {Some(T)})
      BY <2>1, <2>3, SumUnfolds
    <3>3. T \ {Some(T)} \in Good
      BY <1>1, <3>1
    <3>4. QED
      BY <3>1, <3>2, <3>3
  <2>4. QED
    BY <2>2, <2>3
<1>2. S \in Good
  <2> HIDE DEF Good
  <2>1. QED
    BY <1>1, FiniteSetByInduction
<1>3. QED
  BY <1>2

\* A sum depends on the values it adds up, and on nothing else.
LEMMA SumSame ==
  ASSUME NEW f, NEW h, NEW S, IsFiniteSet(S), \A x \in S : f[x] = h[x]
  PROVE  SumFunctionOnSet(f, S) = SumFunctionOnSet(h, S)
<1> DEFINE Good == {T \in SUBSET S : SumFunctionOnSet(f, T) = SumFunctionOnSet(h, T)}
<1>1. ASSUME NEW T \in SUBSET S, \A U \in (SUBSET T) \ {T} : U \in Good PROVE T \in Good
  <2>1. IsFiniteSet(T)
    BY FS_Subset
  <2>2. CASE T = {}
    BY <2>1, <2>2, SumUnfolds
  <2>3. CASE T # {}
    <3>1. Some(T) \in T
      BY <2>3 DEF Some
    <3>2. SumFunctionOnSet(f, T) = f[Some(T)] + SumFunctionOnSet(f, T \ {Some(T)})
      BY <2>1, <2>3, SumUnfolds
    <3>3. SumFunctionOnSet(h, T) = h[Some(T)] + SumFunctionOnSet(h, T \ {Some(T)})
      BY <2>1, <2>3, SumUnfolds
    <3>4. T \ {Some(T)} \in Good
      BY <1>1, <3>1
    <3>5. QED
      BY <3>1, <3>2, <3>3, <3>4
  <2>4. QED
    BY <2>2, <2>3
<1>2. S \in Good
  <2> HIDE DEF Good
  <2>1. QED
    BY <1>1, FiniteSetByInduction
<1>3. QED
  BY <1>2

\* Zeros add up to zero.
LEMMA SumOfZeros ==
  ASSUME NEW f, NEW S, IsFiniteSet(S), \A x \in S : f[x] = 0
  PROVE  SumFunctionOnSet(f, S) = 0
<1> DEFINE Good == {T \in SUBSET S : SumFunctionOnSet(f, T) = 0}
<1>1. ASSUME NEW T \in SUBSET S, \A U \in (SUBSET T) \ {T} : U \in Good PROVE T \in Good
  <2>1. IsFiniteSet(T)
    BY FS_Subset
  <2>2. CASE T = {}
    BY <2>1, <2>2, SumUnfolds
  <2>3. CASE T # {}
    <3>1. Some(T) \in T
      BY <2>3 DEF Some
    <3>2. SumFunctionOnSet(f, T) = f[Some(T)] + SumFunctionOnSet(f, T \ {Some(T)})
      BY <2>1, <2>3, SumUnfolds
    <3>3. T \ {Some(T)} \in Good
      BY <1>1, <3>1
    <3>4. QED
      BY <3>1, <3>2, <3>3
  <2>4. QED
    BY <2>2, <2>3
<1>2. S \in Good
  <2> HIDE DEF Good
  <2>1. QED
    BY <1>1, FiniteSetByInduction
<1>3. QED
  BY <1>2

\* A number that is added for each member of the set.
LEMMA SumOfEquals ==
  ASSUME NEW f, NEW S, IsFiniteSet(S), NEW c \in Nat, \A x \in S : f[x] = c
  PROVE  SumFunctionOnSet(f, S) = c * Cardinality(S)
<1> DEFINE Good == {T \in SUBSET S : SumFunctionOnSet(f, T) = c * Cardinality(T)}
<1>1. ASSUME NEW T \in SUBSET S, \A U \in (SUBSET T) \ {T} : U \in Good PROVE T \in Good
  <2>1. IsFiniteSet(T)
    BY FS_Subset
  <2>2. CASE T = {}
    <3>1. SumFunctionOnSet(f, T) = 0
      BY <2>1, <2>2, SumUnfolds
    <3>2. Cardinality(T) = 0
      BY <2>2, FS_EmptySet
    <3>3. QED
      BY <3>1, <3>2
  <2>3. CASE T # {}
    <3>1. Some(T) \in T
      BY <2>3 DEF Some
    <3> DEFINE rest == T \ {Some(T)}
               n == Cardinality(rest)
    <3>2. SumFunctionOnSet(f, T) = f[Some(T)] + SumFunctionOnSet(f, rest)
      BY <2>1, <2>3, SumUnfolds
    <3>3. rest \in Good
      BY <1>1, <3>1
    <3>4. n \in Nat /\ Cardinality(T) = n + 1
      <4>1. IsFiniteSet(rest)
        BY <2>1, FS_Subset
      <4>2. n \in Nat /\ Cardinality(T) \in Nat
        BY <2>1, <4>1, FS_CardinalityType
      <4>3. n = Cardinality(T) - 1
        BY <2>1, <3>1, FS_RemoveElement
      <4>4. QED
        BY <4>2, <4>3
    <3> HIDE DEF n
    <3>5. SumFunctionOnSet(f, rest) = c * n
      BY <3>3 DEF n
    <3>6. f[Some(T)] = c
      BY <3>1
    <3>7. c + c * n = c * (n + 1)
      BY <3>4
    <3>8. QED
      BY <3>2, <3>4, <3>5, <3>6, <3>7
  <2>4. QED
    BY <2>2, <2>3
<1>2. S \in Good
  <2> HIDE DEF Good
  <2>1. QED
    BY <1>1, FiniteSetByInduction
<1>3. QED
  BY <1>2

\* Any member of the set may be the one that is added last.
LEMMA SumSplits ==
  ASSUME NEW f, NEW S, IsFiniteSet(S), \A x \in S : f[x] \in Int, NEW a \in S
  PROVE  SumFunctionOnSet(f, S) = f[a] + SumFunctionOnSet(f, S \ {a})
<1> DEFINE Good == {T \in SUBSET S : \A x \in T :
                      SumFunctionOnSet(f, T) = f[x] + SumFunctionOnSet(f, T \ {x})}
<1>1. ASSUME NEW T \in SUBSET S, \A U \in (SUBSET T) \ {T} : U \in Good PROVE T \in Good
  <2> SUFFICES ASSUME NEW x \in T
               PROVE  SumFunctionOnSet(f, T) = f[x] + SumFunctionOnSet(f, T \ {x})
    OBVIOUS
  <2> DEFINE y == Some(T)
             R == (T \ {x}) \ {y}
  <2>1. y \in T
    BY DEF Some
  <2>2. IsFiniteSet(T) /\ IsFiniteSet(R)
    BY FS_Subset
  <2>3. SumFunctionOnSet(f, T) = f[y] + SumFunctionOnSet(f, T \ {y})
    BY <2>2, SumUnfolds
  <2>4. CASE x = y
    BY <2>3, <2>4
  <2>5. CASE x # y
    <3>1. T \ {y} \in Good /\ T \ {x} \in Good
      BY <1>1, <2>1
    <3>2. (T \ {y}) \ {x} = R
      OBVIOUS
    <3>3. SumFunctionOnSet(f, T \ {y}) = f[x] + SumFunctionOnSet(f, R)
      <4>1. x \in T \ {y}
        BY <2>5
      <4>2. QED
        BY <3>1, <3>2, <4>1
    <3>4. SumFunctionOnSet(f, T \ {x}) = f[y] + SumFunctionOnSet(f, R)
      <4>1. y \in T \ {x}
        BY <2>1, <2>5
      <4>2. QED
        BY <3>1, <4>1
    <3>5. f[x] \in Int /\ f[y] \in Int /\ SumFunctionOnSet(f, R) \in Int
      BY <2>1, <2>2, SumType
    <3>6. QED
      BY <2>3, <3>3, <3>4, <3>5
  <2>6. QED
    BY <2>4, <2>5
<1>2. S \in Good
  <2> HIDE DEF Good
  <2>1. QED
    BY <1>1, FiniteSetByInduction
<1>3. QED
  BY <1>2

\* A row that changes changes the sum by as much.
LEMMA SumOneChanged ==
  ASSUME NEW f, NEW h, NEW S, IsFiniteSet(S), NEW a \in S,
         \A x \in S : f[x] \in Int, h[a] \in Int, \A x \in S \ {a} : h[x] = f[x]
  PROVE  SumFunctionOnSet(h, S) = SumFunctionOnSet(f, S) - f[a] + h[a]
<1>1. IsFiniteSet(S \ {a})
  BY FS_Subset
<1>2. SumFunctionOnSet(f, S) = f[a] + SumFunctionOnSet(f, S \ {a})
  BY SumSplits
<1>3. \A x \in S : h[x] \in Int
  OBVIOUS
<1>4. SumFunctionOnSet(h, S) = h[a] + SumFunctionOnSet(h, S \ {a})
  BY <1>3, SumSplits
<1>5. SumFunctionOnSet(f, S \ {a}) = SumFunctionOnSet(h, S \ {a})
  BY <1>1, SumSame
<1>6. SumFunctionOnSet(f, S \ {a}) \in Int
  BY <1>1, SumType
<1>7. QED
  BY <1>2, <1>4, <1>5, <1>6

\* A row that comes in adds what it holds.
LEMMA SumOneMore ==
  ASSUME NEW f, NEW S, IsFiniteSet(S), NEW a, a \notin S, \A x \in S \cup {a} : f[x] \in Int
  PROVE  SumFunctionOnSet(f, S \cup {a}) = SumFunctionOnSet(f, S) + f[a]
<1>1. IsFiniteSet(S \cup {a})
  BY FS_AddElement
<1>2. (S \cup {a}) \ {a} = S
  OBVIOUS
<1>3. SumFunctionOnSet(f, S \cup {a}) = f[a] + SumFunctionOnSet(f, S)
  BY <1>1, <1>2, SumSplits
<1>4. SumFunctionOnSet(f, S) \in Int /\ f[a] \in Int
  BY SumType
<1>5. QED
  BY <1>3, <1>4

\* Amounts that are nowhere larger do not add up to more, nor do fewer of them.
LEMMA SumAtMost ==
  ASSUME NEW f, NEW h, NEW S, IsFiniteSet(S), NEW T \in SUBSET S,
         \A x \in S : f[x] \in Nat /\ h[x] \in Nat /\ f[x] <= h[x]
  PROVE  SumFunctionOnSet(f, T) <= SumFunctionOnSet(h, S)
<1> DEFINE Good == {U \in SUBSET S :
                      SumFunctionOnSet(f, T \cap U) <= SumFunctionOnSet(h, U)}
<1>1. ASSUME NEW U \in SUBSET S, \A V \in (SUBSET U) \ {U} : V \in Good PROVE U \in Good
  <2>1. IsFiniteSet(U)
    BY FS_Subset
  <2>2. CASE U = {}
    <3>1. SumFunctionOnSet(f, {}) = 0 /\ SumFunctionOnSet(h, {}) = 0
      BY FS_EmptySet, SumUnfolds
    <3>2. T \cap U = {}
      BY <2>2
    <3>3. QED
      BY <2>2, <3>1, <3>2
  <2>3. CASE U # {}
    <3>1. PICK a \in U : TRUE
      BY <2>3
    <3> DEFINE V == U \ {a}
    <3>2. V \in Good /\ IsFiniteSet(V) /\ IsFiniteSet(T \cap V) /\ IsFiniteSet(T \cap U)
      BY <1>1, <3>1, FS_Subset
    <3>3. SumFunctionOnSet(h, U) = h[a] + SumFunctionOnSet(h, V)
      BY <2>1, SumSplits
    <3>4. SumFunctionOnSet(f, T \cap V) \in Nat /\ SumFunctionOnSet(h, V) \in Nat
      <4>1. (\A x \in T \cap V : f[x] \in Nat) /\ (\A x \in V : h[x] \in Nat)
        OBVIOUS
      <4>2. QED
        BY <3>2, <4>1, SumType
    <3>5. CASE a \in T
      <4>1. (T \cap U) \ {a} = T \cap V /\ a \in T \cap U
        BY <3>5
      <4>2. \A x \in T \cap U : f[x] \in Int
        OBVIOUS
      <4>3. SumFunctionOnSet(f, T \cap U) = f[a] + SumFunctionOnSet(f, T \cap V)
        BY <3>2, <4>1, <4>2, SumSplits
      <4>4. f[a] \in Nat /\ h[a] \in Nat /\ f[a] <= h[a]
        OBVIOUS
      <4>5. SumFunctionOnSet(f, T \cap V) <= SumFunctionOnSet(h, V)
        BY <3>2
      <4>6. QED
        BY <3>3, <3>4, <4>3, <4>4, <4>5
    <3>6. CASE a \notin T
      <4>1. T \cap U = T \cap V
        BY <3>6
      <4>2. SumFunctionOnSet(f, T \cap U) <= SumFunctionOnSet(h, V)
        BY <3>2, <4>1
      <4>3. SumFunctionOnSet(f, T \cap U) \in Nat /\ h[a] \in Nat
        BY <3>4, <4>1
      <4>4. QED
        BY <3>3, <3>4, <4>2, <4>3
    <3>7. QED
      BY <3>5, <3>6
  <2>4. QED
    BY <2>2, <2>3
<1>2. S \in Good
  <2> HIDE DEF Good
  <2>1. QED
    BY <1>1, FiniteSetByInduction
<1>3. T \cap S = T
  OBVIOUS
<1>4. QED
  BY <1>2, <1>3

\* Amounts that are sums themselves add up to the sum of the sums.
LEMMA SumOfSums ==
  ASSUME NEW f, NEW g, NEW h, NEW S, IsFiniteSet(S),
         \A x \in S : f[x] \in Int /\ g[x] \in Int /\ h[x] = f[x] + g[x]
  PROVE  SumFunctionOnSet(h, S) = SumFunctionOnSet(f, S) + SumFunctionOnSet(g, S)
<1> DEFINE Good == {T \in SUBSET S : SumFunctionOnSet(h, T)
                                      = SumFunctionOnSet(f, T) + SumFunctionOnSet(g, T)}
<1>1. ASSUME NEW T \in SUBSET S, \A U \in (SUBSET T) \ {T} : U \in Good PROVE T \in Good
  <2>1. IsFiniteSet(T)
    BY FS_Subset
  <2>2. CASE T = {}
    <3>1. /\ SumFunctionOnSet(f, {}) = 0 /\ SumFunctionOnSet(g, {}) = 0
          /\ SumFunctionOnSet(h, {}) = 0
      BY FS_EmptySet, SumUnfolds
    <3>2. QED
      BY <2>2, <3>1
  <2>3. CASE T # {}
    <3>1. PICK a \in T : TRUE
      BY <2>3
    <3> DEFINE U == T \ {a}
    <3>2. U \in Good /\ IsFiniteSet(U)
      BY <1>1, <2>1, <3>1, FS_Subset
    <3>3. /\ SumFunctionOnSet(f, T) = f[a] + SumFunctionOnSet(f, U)
          /\ SumFunctionOnSet(g, T) = g[a] + SumFunctionOnSet(g, U)
          /\ SumFunctionOnSet(h, T) = h[a] + SumFunctionOnSet(h, U)
      BY <2>1, SumSplits
    <3>4. SumFunctionOnSet(f, U) \in Int /\ SumFunctionOnSet(g, U) \in Int
      BY <3>2, SumType
    <3>5. f[a] \in Int /\ g[a] \in Int /\ h[a] = f[a] + g[a]
      OBVIOUS
    <3>6. QED
      BY <3>2, <3>3, <3>4, <3>5
  <2>4. QED
    BY <2>2, <2>3
<1>2. S \in Good
  <2> HIDE DEF Good
  <2>1. QED
    BY <1>1, FiniteSetByInduction
<1>3. QED
  BY <1>2

\* A sum over some rows is the sum over all of what only those rows hold.
LEMMA SumOfSome ==
  ASSUME NEW f, NEW h, NEW S, IsFiniteSet(S), NEW T \in SUBSET S,
         \A x \in T : f[x] \in Int /\ h[x] = f[x], \A x \in S \ T : h[x] = 0
  PROVE  SumFunctionOnSet(f, T) = SumFunctionOnSet(h, S)
<1> DEFINE Good == {U \in SUBSET S :
                      SumFunctionOnSet(f, T \cap U) = SumFunctionOnSet(h, U)}
<1>1. ASSUME NEW U \in SUBSET S, \A V \in (SUBSET U) \ {U} : V \in Good PROVE U \in Good
  <2>1. IsFiniteSet(U) /\ IsFiniteSet(T \cap U)
    BY FS_Subset
  <2>2. CASE U = {}
    <3>1. SumFunctionOnSet(f, {}) = 0 /\ SumFunctionOnSet(h, {}) = 0
      BY FS_EmptySet, SumUnfolds
    <3>2. T \cap U = {}
      BY <2>2
    <3>3. QED
      BY <2>2, <3>1, <3>2
  <2>3. CASE U # {}
    <3>1. PICK a \in U : TRUE
      BY <2>3
    <3> DEFINE V == U \ {a}
    <3>2. V \in Good /\ IsFiniteSet(V)
      BY <1>1, <2>1, <3>1, FS_Subset
    <3>3. \A x \in U : h[x] \in Int
      OBVIOUS
    <3>4. SumFunctionOnSet(h, U) = h[a] + SumFunctionOnSet(h, V)
      BY <2>1, <3>3, SumSplits
    <3>5. CASE a \in T
      <4>1. (T \cap U) \ {a} = T \cap V /\ a \in T \cap U
        BY <3>5
      <4>2. \A x \in T \cap U : f[x] \in Int
        OBVIOUS
      <4>3. SumFunctionOnSet(f, T \cap U) = f[a] + SumFunctionOnSet(f, T \cap V)
        BY <2>1, <4>1, <4>2, SumSplits
      <4>4. h[a] = f[a]
        BY <3>5
      <4>5. QED
        BY <3>2, <3>4, <4>3, <4>4
    <3>6. CASE a \notin T
      <4>1. T \cap U = T \cap V /\ h[a] = 0
        BY <3>6
      <4>2. SumFunctionOnSet(h, V) \in Int
        BY <3>2, <3>3, SumType
      <4>3. QED
        BY <3>2, <3>4, <4>1, <4>2
    <3>7. QED
      BY <3>5, <3>6
  <2>4. QED
    BY <2>2, <2>3
<1>2. S \in Good
  <2> HIDE DEF Good
  <2>1. QED
    BY <1>1, FiniteSetByInduction
<1>3. T \cap S = T
  OBVIOUS
<1>4. QED
  BY <1>2, <1>3
=============================================================================
