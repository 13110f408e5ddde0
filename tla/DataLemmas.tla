----------------------------- MODULE DataLemmas -----------------------------
(***************************************************************************)
(* Facts about minima, sums over finite sets and the order of slices that  *)
(* the proofs of the components share.  An induction is the choice of a    *)
(* least counterexample, so that it needs no operator as a parameter.      *)
(***************************************************************************)
EXTENDS Integers, Sequences, FiniteSets, FiniteSetsExt, Functions, Slices,
        TLAPS, FiniteSetTheorems, SequenceTheorems, WellFoundedInduction

-----------------------------------------------------------------------------
(* Minima and maxima *)

\* A nonempty set of naturals has a least element, and Min is it.
LEMMA MinOfNats ==
    ASSUME NEW S \in SUBSET Nat, S # {}
    PROVE  /\ Min(S) \in S
           /\ \A y \in S : Min(S) <= y
<1>1. PICK x \in S : \A y \in S : ~ (<<y, x>> \in OpToRel(<, Nat))
  BY NatLessThanWellFounded, WFMin
<1>2. \A y \in S : x <= y
  <2> SUFFICES ASSUME NEW y \in S PROVE x <= y
    OBVIOUS
  <2>1. (<<y, x>> \in OpToRel(<, Nat)) <=> y < x
    BY SMT DEF OpToRel
  <2>2. ~ (y < x)
    BY <1>1, <2>1, Zenon
  <2> QED
    BY <2>2
<1> QED
  BY <1>2 DEF Min

\* So has a nonempty set of indexes a greatest one, and Max is it.
LEMMA MaxOfIndexes ==
    ASSUME NEW n \in Nat, NEW S \in SUBSET (1..n), S # {}
    PROVE  /\ Max(S) \in S
           /\ \A y \in S : Max(S) >= y
<1> DEFINE T == {k \in Nat : n - k \in S}
<1>1. T # {}
  <2>1. PICK y \in S : TRUE
    OBVIOUS
  <2>2. n - y \in T
    BY <2>1
  <2> QED
    BY <2>2
<1>2. /\ Min(T) \in T
      /\ \A k \in T : Min(T) <= k
  BY <1>1, MinOfNats
<1> DEFINE x == n - Min(T)
<1>3. x \in S
  BY <1>2
<1>4. \A y \in S : x >= y
  <2> SUFFICES ASSUME NEW y \in S PROVE x >= y
    OBVIOUS
  <2>1. n - y \in T
    OBVIOUS
  <2> HIDE DEF T
  <2>2. Min(T) <= n - y /\ Min(T) \in Nat
    BY <1>2, <2>1 DEF T
  <2> QED
    BY <2>2
<1> QED
  BY <1>3, <1>4 DEF Max

\* Induction: a set of naturals that has 0, and the next of each, has all.
LEMMA Induction ==
    ASSUME NEW T, 0 \in T, \A n \in Nat : n \in T => n + 1 \in T
    PROVE  Nat \subseteq T
<1> DEFINE S == Nat \ T
<1> SUFFICES ASSUME S # {} PROVE FALSE
  OBVIOUS
<1>1. Min(S) \in S /\ \A y \in S : Min(S) <= y
  BY MinOfNats
<1> DEFINE k == Min(S)
<1>2. k \in Nat /\ k \notin T /\ k # 0
  BY <1>1
<1> HIDE DEF k
<1>3. k - 1 \in Nat /\ (k - 1) + 1 = k
  BY <1>2
<1>4. k - 1 \in S
  BY <1>2, <1>3
<1> QED
  BY <1>1, <1>3, <1>4 DEF k

-----------------------------------------------------------------------------
(* Sums over finite sets *)

\* g gives the sum over every subset of S, taking out the elements that
\* CHOOSE takes.
First(s) == CHOOSE x \in s : TRUE

SumsOver(S, f, g) ==
    g = [s \in SUBSET S |-> IF s = {} THEN 0 ELSE f[First(s)] + g[s \ {First(s)}]]

LEMMA SumUnfolded ==
    ASSUME NEW f, NEW S
    PROVE  SumFunctionOnSet(f, S) = (CHOOSE g : SumsOver(S, f, g))[S]
  BY DEF SumFunctionOnSet, FoldFunctionOnSet, MapThenFoldSet, SumsOver, First

\* One element less
LEMMA WithoutFirst ==
    ASSUME NEW s, IsFiniteSet(s), s # {}
    PROVE  /\ First(s) \in s
           /\ IsFiniteSet(s \ {First(s)})
           /\ Cardinality(s) \in Nat
           /\ Cardinality(s \ {First(s)}) = Cardinality(s) - 1
<1>1. First(s) \in s
  BY DEF First
<1> QED
  BY <1>1, FS_RemoveElement, FS_CardinalityType

\* There is such a g, and its values are integers.
LEMMA SumsExist ==
    ASSUME NEW S, IsFiniteSet(S), NEW f, \A x \in S : f[x] \in Int
    PROVE  \E g \in [SUBSET S -> Int] : SumsOver(S, f, g)
<1> DEFINE Right(g, s) == g[s] = IF s = {} THEN 0 ELSE f[First(s)] + g[s \ {First(s)}]
           Some(n) == \E g \in [SUBSET S -> Int] :
                         \A s \in SUBSET S : Cardinality(s) <= n => Right(g, s)
           T == {n \in Nat : Some(n)}
<1>1. \A s \in SUBSET S : IsFiniteSet(s) /\ Cardinality(s) \in Nat
  BY FS_Subset, FS_CardinalityType
<1>2. 0 \in T
  <2> DEFINE g == [s \in SUBSET S |-> 0]
  <2>1. g \in [SUBSET S -> Int]
    OBVIOUS
  <2>2. ASSUME NEW s \in SUBSET S, Cardinality(s) <= 0
        PROVE  Right(g, s)
    <3>1. s = {}
      BY <1>1, <2>2, FS_EmptySet
    <3> QED
      BY <3>1
  <2> QED
    BY <2>1, <2>2
<1>3. ASSUME NEW n \in Nat, n \in T
      PROVE  n + 1 \in T
  <2>1. PICK g \in [SUBSET S -> Int] : \A s \in SUBSET S : Cardinality(s) <= n => Right(g, s)
    BY <1>3
  <2> DEFINE h == [s \in SUBSET S |->
                     IF Cardinality(s) <= n \/ s = {} THEN g[s] ELSE f[First(s)] + g[s \ {First(s)}]]
  <2>2. \A s \in SUBSET S : s # {} => First(s) \in S
    BY DEF First
  <2>3. h \in [SUBSET S -> Int]
    BY <2>1, <2>2
  <2>4. ASSUME NEW s \in SUBSET S, Cardinality(s) <= n + 1
        PROVE  Right(h, s)
    <3>1. CASE s = {}
      <4>1. Cardinality(s) <= n
        BY <3>1, FS_EmptySet
      <4> QED
        BY <2>1, <3>1, <4>1
    <3>2. CASE s # {}
      <4> DEFINE t == s \ {First(s)}
      <4>1. t \in SUBSET S /\ Cardinality(t) = Cardinality(s) - 1 /\ Cardinality(s) \in Nat
        BY <1>1, <3>2, WithoutFirst
      <4>2. Cardinality(t) <= n
        BY <2>4, <4>1
      <4>3. h[t] = g[t]
        BY <4>1, <4>2
      <4>4. CASE Cardinality(s) <= n
        BY <2>1, <3>2, <4>1, <4>3, <4>4
      <4>5. CASE ~ (Cardinality(s) <= n)
        BY <3>2, <4>1, <4>3, <4>5
      <4> QED
        BY <4>4, <4>5
    <3> QED
      BY <3>1, <3>2
  <2> HIDE DEF h
  <2>5. Some(n + 1)
    BY <2>3, <2>4
  <2> HIDE DEF Some
  <2> QED
    BY <2>5
<1> HIDE DEF T
<1>4. Cardinality(S) \in T
  BY <1>1, <1>2, <1>3, Induction
<1>5. PICK g \in [SUBSET S -> Int] : \A s \in SUBSET S : Cardinality(s) <= Cardinality(S) => Right(g, s)
  BY <1>4 DEF T
<1>6. \A s \in SUBSET S : Cardinality(s) <= Cardinality(S)
  BY FS_Subset
<1>7. \A s \in SUBSET S : Right(g, s)
  BY <1>5, <1>6
<1> QED
  BY <1>7 DEF SumsOver

\* Which element is taken out makes no difference.
LEMMA SumsAdd ==
    ASSUME NEW S, IsFiniteSet(S), NEW f, \A x \in S : f[x] \in Int,
           NEW g, \A s \in SUBSET S : g[s] \in Int, SumsOver(S, f, g)
    PROVE  \A s \in SUBSET S : \A x \in S : x \notin s => g[s \cup {x}] = g[s] + f[x]
<1> DEFINE Adds(a) == \A y \in S : y \notin a => g[a \cup {y}] = g[a] + f[y]
           T == {n \in Nat : \A a \in SUBSET S : Cardinality(a) = n => Adds(a)}
<1>1. \A a \in SUBSET S : IsFiniteSet(a) /\ Cardinality(a) \in Nat
  BY FS_Subset, FS_CardinalityType
<1>2. g[{}] = 0 /\ \A a \in SUBSET S : a # {} => g[a] = f[First(a)] + g[a \ {First(a)}]
  BY DEF SumsOver
<1>3. \A a \in SUBSET S : a # {} => First(a) \in a
  BY DEF First
<1>4. 0 \in T
  <2> SUFFICES ASSUME NEW y \in S PROVE g[{} \cup {y}] = g[{}] + f[y]
    BY <1>1, FS_EmptySet
  <2>1. First({y}) = y
    BY <1>3
  <2>2. g[{y}] = f[y] + g[{}]
    BY <1>2, <2>1
  <2> QED
    BY <1>2, <2>2
<1>5. ASSUME NEW n \in Nat, n \in T
      PROVE  n + 1 \in T
  <2> SUFFICES ASSUME NEW a \in SUBSET S, Cardinality(a) = n + 1, NEW y \in S, y \notin a
               PROVE  g[a \cup {y}] = g[a] + f[y]
    OBVIOUS
  <2> DEFINE b == a \cup {y}
             z == First(b)
             c == a \ {z}
  <2>1. z \in b /\ b \in SUBSET S /\ b # {} /\ g[b] = f[z] + g[b \ {z}]
    BY <1>2, <1>3
  <2>2. CASE z = y
    <3>1. b \ {z} = a
      BY <2>2
    <3>2. f[y] \in Int /\ g[a] \in Int
      OBVIOUS
    <3>3. g[b] = f[y] + g[a]
      BY <2>1, <2>2, <3>1
    <3> QED
      BY <3>2, <3>3
  <2>3. CASE z # y
    <3>1. z \in a /\ IsFiniteSet(a) /\ b \ {z} = c \cup {y} /\ a = c \cup {z}
      BY <1>1, <2>1, <2>3
    <3>2. Cardinality(c) = n
      <4> HIDE DEF z
      <4>1. Cardinality(a \ {z}) = Cardinality(a) - 1
        BY <3>1, FS_RemoveElement
      <4> QED
        BY <4>1
    <3>3. c \in SUBSET S /\ y \notin c /\ z \notin c /\ z \in S
      BY <3>1
    <3> HIDE DEF b, z, c
    <3>4. Adds(c)
      BY <1>5, <3>2, <3>3
    <3>5. g[c \cup {y}] = g[c] + f[y] /\ g[c \cup {z}] = g[c] + f[z]
      BY <3>3, <3>4
    <3>6. g[c] \in Int /\ f[y] \in Int /\ f[z] \in Int
      BY <3>3
    <3>7. g[b] = f[z] + (g[c] + f[y]) /\ g[a] = g[c] + f[z]
      BY <2>1, <3>1, <3>5
    <3> QED
      BY <3>6, <3>7 DEF b
  <2> QED
    BY <2>2, <2>3
<1> HIDE DEF T
<1>6. \A s \in SUBSET S : Cardinality(s) \in T
  BY <1>1, <1>4, <1>5, Induction
<1> QED
  BY <1>6 DEF T

\* On the subsets of both, sums over two sets agree.
LEMMA SumsAgree ==
    ASSUME NEW S, IsFiniteSet(S), NEW f, NEW f1, NEW g, SumsOver(S, f, g),
           NEW S1, S \subseteq S1, NEW g1, SumsOver(S1, f1, g1),
           \A x \in S : f[x] = f1[x]
    PROVE  \A s \in SUBSET S : g[s] = g1[s]
<1> DEFINE T == {n \in Nat : \A a \in SUBSET S : Cardinality(a) = n => g[a] = g1[a]}
<1>1. \A a \in SUBSET S : IsFiniteSet(a) /\ Cardinality(a) \in Nat
  BY FS_Subset, FS_CardinalityType
<1>2. /\ g[{}] = 0 /\ g1[{}] = 0
      /\ \A a \in SUBSET S : a # {} =>
            /\ g[a] = f[First(a)] + g[a \ {First(a)}]
            /\ g1[a] = f1[First(a)] + g1[a \ {First(a)}]
  BY DEF SumsOver
<1>3. 0 \in T
  BY <1>1, <1>2, FS_EmptySet
<1>4. ASSUME NEW n \in Nat, n \in T
      PROVE  n + 1 \in T
  <2> SUFFICES ASSUME NEW a \in SUBSET S, Cardinality(a) = n + 1
               PROVE  g[a] = g1[a]
    OBVIOUS
  <2>1. a # {}
    BY FS_EmptySet
  <2>2. /\ First(a) \in S /\ a \ {First(a)} \in SUBSET S
        /\ Cardinality(a \ {First(a)}) = n
    BY <1>1, <2>1, WithoutFirst
  <2>3. g[a \ {First(a)}] = g1[a \ {First(a)}]
    BY <1>4, <2>2
  <2> QED
    BY <1>2, <2>1, <2>2, <2>3
<1> HIDE DEF T
<1>5. \A a \in SUBSET S : Cardinality(a) \in T
  BY <1>1, <1>3, <1>4, Induction
<1> QED
  BY <1>5 DEF T

\* What SumFunctionOnSet gives is such a sum.
LEMMA SumIs ==
    ASSUME NEW S, IsFiniteSet(S), NEW f, \A x \in S : f[x] \in Int
    PROVE  \E g \in [SUBSET S -> Int] : SumsOver(S, f, g) /\ SumFunctionOnSet(f, S) = g[S]
<1> DEFINE c == CHOOSE g : SumsOver(S, f, g)
<1>1. PICK g \in [SUBSET S -> Int] : SumsOver(S, f, g)
  BY SumsExist
<1>2. SumsOver(S, f, c)
  BY <1>1
<1>3. SumFunctionOnSet(f, S) = c[S]
  BY SumUnfolded
<1> HIDE DEF c
<1>4. \A s \in SUBSET S : c[s] = g[s]
  BY <1>1, <1>2, SumsAgree
<1> QED
  BY <1>1, <1>3, <1>4

LEMMA SumOfNone ==
    ASSUME NEW f
    PROVE  SumFunctionOnSet(f, {}) = 0
<1>1. PICK g \in [SUBSET {} -> Int] : SumsOver({}, f, g) /\ SumFunctionOnSet(f, {}) = g[{}]
  BY SumIs, FS_EmptySet
<1> QED
  BY <1>1 DEF SumsOver

LEMMA SumType ==
    ASSUME NEW S, IsFiniteSet(S), NEW f, \A x \in S : f[x] \in Int
    PROVE  SumFunctionOnSet(f, S) \in Int
<1>1. PICK g \in [SUBSET S -> Int] : SumFunctionOnSet(f, S) = g[S]
  BY SumIs
<1> QED
  BY <1>1

\* Only the values in the set count.
LEMMA SumOfEquals ==
    ASSUME NEW S, IsFiniteSet(S), NEW f, NEW f1, \A x \in S : f[x] = f1[x] /\ f[x] \in Int
    PROVE  SumFunctionOnSet(f1, S) = SumFunctionOnSet(f, S)
<1>1. PICK g \in [SUBSET S -> Int] : SumsOver(S, f, g) /\ SumFunctionOnSet(f, S) = g[S]
  BY SumIs
<1>2. PICK g1 \in [SUBSET S -> Int] : SumsOver(S, f1, g1) /\ SumFunctionOnSet(f1, S) = g1[S]
  BY SumIs
<1>3. g[S] = g1[S]
  BY <1>1, <1>2, SumsAgree
<1> QED
  BY <1>1, <1>2, <1>3

\* One more element adds its value.
LEMMA SumOneMore ==
    ASSUME NEW S, IsFiniteSet(S), NEW f, NEW x, x \notin S, f[x] \in Int, \A y \in S : f[y] \in Int
    PROVE  SumFunctionOnSet(f, S \cup {x}) = SumFunctionOnSet(f, S) + f[x]
<1> DEFINE U == S \cup {x}
<1>1. IsFiniteSet(U) /\ \A y \in U : f[y] \in Int
  BY FS_AddElement
<1>2. PICK g \in [SUBSET S -> Int] : SumsOver(S, f, g) /\ SumFunctionOnSet(f, S) = g[S]
  BY SumIs
<1>3. PICK g1 \in [SUBSET U -> Int] : SumsOver(U, f, g1) /\ SumFunctionOnSet(f, U) = g1[U]
  BY <1>1, SumIs
<1>4. g1[S] = g[S]
  BY <1>2, <1>3, SumsAgree
<1>5. g1[S \cup {x}] = g1[S] + f[x]
  <2>1. S \in SUBSET U /\ x \in U
    OBVIOUS
  <2>2. \A s \in SUBSET U : g1[s] \in Int
    OBVIOUS
  <2> HIDE DEF U
  <2>3. \A s \in SUBSET U : \A y \in U : y \notin s => g1[s \cup {y}] = g1[s] + f[y]
    BY <1>1, <1>3, <2>2, SumsAdd
  <2> QED
    BY <2>1, <2>3, Zenon
<1> QED
  BY <1>2, <1>3, <1>4, <1>5

\* When one value changes, the sum changes by as much.
LEMMA SumOneChanged ==
    ASSUME NEW S, IsFiniteSet(S), NEW x \in S, NEW f, NEW f1,
           \A y \in S : f[y] \in Int /\ f1[y] \in Int,
           \A y \in S \ {x} : f1[y] = f[y]
    PROVE  SumFunctionOnSet(f1, S) = SumFunctionOnSet(f, S) + (f1[x] - f[x])
<1> DEFINE R == S \ {x}
<1>1. IsFiniteSet(R) /\ R \cup {x} = S /\ x \notin R
  BY FS_RemoveElement
<1>2. SumFunctionOnSet(f, R \cup {x}) = SumFunctionOnSet(f, R) + f[x]
  BY <1>1, SumOneMore
<1>3. SumFunctionOnSet(f1, R \cup {x}) = SumFunctionOnSet(f1, R) + f1[x]
  BY <1>1, SumOneMore
<1>4. SumFunctionOnSet(f1, R) = SumFunctionOnSet(f, R) /\ SumFunctionOnSet(f, R) \in Int
  BY <1>1, SumOfEquals, SumType
<1>5. f[x] \in Int /\ f1[x] \in Int
  OBVIOUS
<1> HIDE DEF R
<1>6. /\ SumFunctionOnSet(f, S) = SumFunctionOnSet(f, R) + f[x]
      /\ SumFunctionOnSet(f1, S) = SumFunctionOnSet(f1, R) + f1[x]
  BY <1>1, <1>2, <1>3
<1> QED
  BY <1>4, <1>5, <1>6

\* A sum is as great as any of its terms, when none is negative.
LEMMA SumCoversEach ==
    ASSUME NEW S, IsFiniteSet(S), NEW f, \A y \in S : f[y] \in Nat, NEW x \in S
    PROVE  SumFunctionOnSet(f, S) >= f[x] /\ SumFunctionOnSet(f, S) \in Nat
<1> DEFINE T == {n \in Nat : \A a \in SUBSET S : Cardinality(a) = n => SumFunctionOnSet(f, a) \in Nat}
<1>1. \A a \in SUBSET S : IsFiniteSet(a) /\ Cardinality(a) \in Nat
  BY FS_Subset, FS_CardinalityType
<1>2. 0 \in T
  BY <1>1, SumOfNone, FS_EmptySet
<1>3. ASSUME NEW n \in Nat, n \in T
      PROVE  n + 1 \in T
  <2> SUFFICES ASSUME NEW a \in SUBSET S, Cardinality(a) = n + 1
               PROVE  SumFunctionOnSet(f, a) \in Nat
    OBVIOUS
  <2>1. a # {}
    BY FS_EmptySet
  <2> DEFINE b == a \ {First(a)}
  <2>2. First(a) \in S /\ b \in SUBSET S /\ Cardinality(b) = n /\ IsFiniteSet(b)
        /\ a = b \cup {First(a)} /\ First(a) \notin b
    BY <1>1, <2>1, WithoutFirst
  <2> HIDE DEF b
  <2>3. SumFunctionOnSet(f, b) \in Nat
    BY <1>3, <2>2
  <2>4. SumFunctionOnSet(f, a) = SumFunctionOnSet(f, b) + f[First(a)]
    <3>1. \A y \in b : f[y] \in Int
      BY <2>2
    <3>2. f[First(a)] \in Int
      BY <2>2
    <3>3. SumFunctionOnSet(f, b \cup {First(a)}) = SumFunctionOnSet(f, b) + f[First(a)]
      BY <2>2, <3>1, <3>2, SumOneMore
    <3> QED
      BY <2>2, <3>3
  <2> QED
    BY <2>2, <2>3, <2>4
<1> HIDE DEF T
<1>4. \A a \in SUBSET S : Cardinality(a) \in T
  BY <1>1, <1>2, <1>3, Induction
<1>5. \A a \in SUBSET S : SumFunctionOnSet(f, a) \in Nat
  BY <1>4 DEF T
<1> DEFINE R == S \ {x}
<1>6. IsFiniteSet(R) /\ R \cup {x} = S /\ x \notin R
  BY FS_RemoveElement
<1>7. SumFunctionOnSet(f, R \cup {x}) = SumFunctionOnSet(f, R) + f[x]
  BY <1>6, SumOneMore
<1>8. SumFunctionOnSet(f, R) \in Nat /\ SumFunctionOnSet(f, S) \in Nat
  BY <1>5
<1> HIDE DEF R
<1> QED
  BY <1>6, <1>7, <1>8

\* No term of a sum of naturals takes it below zero.
LEMMA SumOfNats ==
    ASSUME NEW S, IsFiniteSet(S), NEW f, \A y \in S : f[y] \in Nat
    PROVE  SumFunctionOnSet(f, S) \in Nat
<1>1. CASE S = {}
  BY <1>1, SumOfNone
<1>2. CASE S # {}
  <2>1. PICK x \in S : TRUE
    BY <1>2
  <2> QED
    BY <2>1, SumCoversEach
<1> QED
  BY <1>1, <1>2

LEMMA SumOfZeros ==
    ASSUME NEW S, IsFiniteSet(S), NEW f, \A y \in S : f[y] = 0
    PROVE  SumFunctionOnSet(f, S) = 0
<1> DEFINE T == {n \in Nat : \A a \in SUBSET S : Cardinality(a) = n => SumFunctionOnSet(f, a) = 0}
<1>1. \A a \in SUBSET S : IsFiniteSet(a) /\ Cardinality(a) \in Nat
  BY FS_Subset, FS_CardinalityType
<1>2. 0 \in T
  BY <1>1, SumOfNone, FS_EmptySet
<1>3. ASSUME NEW n \in Nat, n \in T
      PROVE  n + 1 \in T
  <2> SUFFICES ASSUME NEW a \in SUBSET S, Cardinality(a) = n + 1
               PROVE  SumFunctionOnSet(f, a) = 0
    OBVIOUS
  <2>1. a # {}
    BY FS_EmptySet
  <2> DEFINE b == a \ {First(a)}
  <2>2. First(a) \in S /\ b \in SUBSET S /\ Cardinality(b) = n /\ IsFiniteSet(b)
        /\ a = b \cup {First(a)} /\ First(a) \notin b
    BY <1>1, <2>1, WithoutFirst
  <2> HIDE DEF b
  <2>3. SumFunctionOnSet(f, b \cup {First(a)}) = SumFunctionOnSet(f, b) + f[First(a)]
    BY <2>2, SumOneMore
  <2> QED
    BY <1>3, <2>2, <2>3
<1> HIDE DEF T
<1>4. Cardinality(S) \in T
  BY <1>1, <1>2, <1>3, Induction
<1> QED
  BY <1>4 DEF T

-----------------------------------------------------------------------------
(* Slices *)

\* A strict total order of a finite set: InOrder lists its members, each once.
LEMMA InOrderEnumerates ==
    ASSUME NEW S, IsFiniteSet(S), NEW R,
           \A i \in S : <<i, i>> \notin R,
           \A i, j \in S : i # j => <<i, j>> \in R \/ <<j, i>> \in R,
           \A i, j, k \in S : <<i, j>> \in R /\ <<j, k>> \in R => <<i, k>> \in R
    PROVE  LET f == InOrder(S, R)
               N == Cardinality(S)
           IN  /\ N \in Nat
               /\ f \in [1..N -> S]
               /\ \A m, n \in 1..N : f[m] = f[n] => m = n
               /\ \A i \in S : \E n \in 1..N : f[n] = i
               /\ \A m, n \in 1..N : m < n => <<f[m], f[n]>> \in R
<1> DEFINE f == InOrder(S, R)
           N == Cardinality(S)
           Below(i) == {j \in S : <<j, i>> \in R}
           place == [i \in S |-> Cardinality(Below(i)) + 1]
<1>1. N \in Nat
  BY FS_CardinalityType
<1>2. ASSUME NEW i \in S
      PROVE  /\ IsFiniteSet(Below(i)) /\ Cardinality(Below(i)) \in Int
             /\ Cardinality(Below(i)) \in 0..(N - 1)
  <2>1. Below(i) \in SUBSET (S \ {i})
    OBVIOUS
  <2>2. IsFiniteSet(S \ {i}) /\ Cardinality(S \ {i}) = N - 1
    BY FS_RemoveElement
  <2>3. IsFiniteSet(Below(i)) /\ Cardinality(Below(i)) <= Cardinality(S \ {i})
    BY <2>1, <2>2, FS_Subset
  <2>4. Cardinality(Below(i)) \in Nat
    BY <2>3, FS_CardinalityType
  <2> QED
    BY <1>1, <2>2, <2>3, <2>4
<1>3. ASSUME NEW i \in S, NEW j \in S, <<i, j>> \in R
      PROVE  Cardinality(Below(i)) < Cardinality(Below(j))
  <2>1. Below(i) \in SUBSET Below(j) /\ i \in Below(j) /\ i \notin Below(i)
    BY <1>3
  <2>2. /\ Cardinality(Below(i)) <= Cardinality(Below(j))
        /\ Cardinality(Below(j)) = Cardinality(Below(i)) => Below(j) = Below(i)
    BY <1>2, <2>1, FS_Subset
  <2>3. Cardinality(Below(i)) \in Int /\ Cardinality(Below(j)) \in Int
    BY <1>2
  <2> HIDE DEF Below
  <2> QED
    BY <2>1, <2>2, <2>3
<1>4. \A i, j \in S : Cardinality(Below(i)) = Cardinality(Below(j)) => i = j
  <2> SUFFICES ASSUME NEW i \in S, NEW j \in S, i # j
               PROVE  Cardinality(Below(i)) # Cardinality(Below(j))
    OBVIOUS
  <2>1. Cardinality(Below(i)) \in Int /\ Cardinality(Below(j)) \in Int
    BY <1>2
  <2>2. Cardinality(Below(i)) < Cardinality(Below(j)) \/ Cardinality(Below(j)) < Cardinality(Below(i))
    BY <1>3, ZenonT(40)
  <2> HIDE DEF Below
  <2> QED
    BY <2>1, <2>2
<1> HIDE DEF Below
<1>5. place \in [S -> 1..N] /\ \A i, j \in S : place[i] = place[j] => i = j
  <2>1. \A i \in S : Cardinality(Below(i)) + 1 \in 1..N
    BY <1>1, <1>2
  <2>2. \A i, j \in S : Cardinality(Below(i)) + 1 = Cardinality(Below(j)) + 1 => i = j
    BY <1>1, <1>2, <1>4
  <2> QED
    BY <2>1, <2>2
<1> HIDE DEF place
<1>6. \A n \in 1..N : \E i \in S : place[i] = n
  <2>1. IsFiniteSet(1..N) /\ Cardinality(1..N) = N
    BY <1>1, FS_Interval
  <2>2. place \in Injection(S, 1..N)
    BY <1>5 DEF Injection, IsInjective
  <2>3. place \in Surjection(S, 1..N)
    BY <2>1, <2>2, FS_Injection
  <2> QED
    BY <2>3 DEF Surjection
<1>7. \A n \in 1..N : f[n] \in S /\ place[f[n]] = n
  <2> SUFFICES ASSUME NEW n \in 1..N
               PROVE  f[n] \in S /\ place[f[n]] = n
    OBVIOUS
  <2>1. f[n] = CHOOSE i \in S : Cardinality(Below(i)) = n - 1
    BY DEF InOrder, Below
  <2>2. \E i \in S : Cardinality(Below(i)) = n - 1
    <3>1. PICK i \in S : place[i] = n
      BY <1>6
    <3>2. Cardinality(Below(i)) + 1 = n /\ Cardinality(Below(i)) \in Int
      BY <1>1, <1>2, <3>1 DEF place
    <3> QED
      BY <3>2
  <2>3. f[n] \in S /\ Cardinality(Below(f[n])) = n - 1
    BY <2>1, <2>2
  <2> QED
    BY <2>3 DEF place
<1>8. f \in [1..N -> S]
  BY <1>7 DEF InOrder
<1>9. ASSUME NEW m \in 1..N, NEW n \in 1..N, m < n
      PROVE  <<f[m], f[n]>> \in R
  <2>1. f[m] \in S /\ f[n] \in S /\ place[f[m]] = m /\ place[f[n]] = n
    BY <1>7
  <2>2. f[m] # f[n]
    BY <1>9, <2>1
  <2>3. ASSUME <<f[n], f[m]>> \in R PROVE FALSE
    <3>1. Cardinality(Below(f[n])) < Cardinality(Below(f[m]))
      BY <1>3, <2>1, <2>3
    <3>2. Cardinality(Below(f[n])) + 1 = n /\ Cardinality(Below(f[m])) + 1 = m
      BY <2>1 DEF place
    <3>3. Cardinality(Below(f[n])) \in Int /\ Cardinality(Below(f[m])) \in Int
      BY <1>1, <1>2, <2>1
    <3> QED
      BY <1>9, <3>1, <3>2, <3>3
  <2> QED
    BY <2>1, <2>2, <2>3
<1>10. \A i \in S : place[i] \in 1..N /\ f[place[i]] = i
  BY <1>5, <1>7
<1> HIDE DEF f, N
<1>11. \A i \in S : \E n \in 1..N : f[n] = i
  BY <1>10
<1>12. \A m, n \in 1..N : f[m] = f[n] => m = n
  BY <1>7
<1> QED
  BY <1>1, <1>8, <1>9, <1>11, <1>12 DEF f, N

\* f gives the places in slice of the elements of kept: those of places, in order.
Keeps(f, kept, slice, places) ==
    /\ f \in [DOMAIN kept -> places]
    /\ \A n \in DOMAIN kept : kept[n] = slice[f[n]]
    /\ \A m, n \in DOMAIN kept : m < n => f[m] < f[n]
    /\ \A i \in places : \E n \in DOMAIN kept : f[n] = i

\* What is kept is a subsequence.
LEMMA KeptIs ==
    ASSUME NEW D, NEW slice \in Seq(D), NEW places \in SUBSET (DOMAIN slice)
    PROVE  /\ Kept(slice, places) \in Seq(D)
           /\ \E f : Keeps(f, Kept(slice, places), slice, places)
<1> DEFINE R == {pair \in places \X places : pair[1] < pair[2]}
           f == InOrder(places, R)
           N == Cardinality(places)
           kept == Kept(slice, places)
<1>1. DOMAIN slice = 1..Len(slice) /\ Len(slice) \in Nat /\ \A i \in DOMAIN slice : slice[i] \in D
  BY LenProperties, ElementOfSeq
<1>2. IsFiniteSet(places)
  <2>1. IsFiniteSet(DOMAIN slice)
    BY <1>1, FS_Interval
  <2> QED
    BY <2>1, FS_Subset
<1>3. \A i, j \in places : i \in Int /\ (<<i, j>> \in R <=> i < j)
  BY <1>1
<1>4. kept = [n \in DOMAIN f |-> slice[f[n]]]
  BY DEF Kept
<1> HIDE DEF R
<1>5. \A i \in places : <<i, i>> \notin R
  BY <1>3
<1>6. \A i, j \in places : i # j => <<i, j>> \in R \/ <<j, i>> \in R
  BY <1>3
<1>7. ASSUME NEW i \in places, NEW j \in places, NEW k \in places, <<i, j>> \in R, <<j, k>> \in R
      PROVE  <<i, k>> \in R
  <2>1. i \in Int /\ j \in Int /\ k \in Int /\ i < j /\ j < k
    BY <1>3, <1>7
  <2> QED
    BY <1>3, <2>1
<1>8. /\ N \in Nat /\ f \in [1..N -> places]
      /\ \A i \in places : \E n \in 1..N : f[n] = i
      /\ \A m, n \in 1..N : m < n => <<f[m], f[n]>> \in R
  BY <1>2, <1>5, <1>6, <1>7, InOrderEnumerates, SMTT(40)
<1> HIDE DEF f, N
<1>9. \A m, n \in 1..N : m < n => f[m] < f[n]
  BY <1>3, <1>8
<1>10. DOMAIN kept = 1..N /\ \A n \in 1..N : kept[n] = slice[f[n]]
  BY <1>4, <1>8
<1>11. kept \in [1..N -> D]
  BY <1>1, <1>4, <1>8
<1>12. kept \in Seq(D)
  BY <1>8, <1>11, SeqDef
<1> HIDE DEF kept
<1>13. Keeps(f, kept, slice, places)
  BY <1>8, <1>9, <1>10 DEF Keeps
<1> QED
  BY <1>12, <1>13, Zenon DEF kept
=============================================================================
