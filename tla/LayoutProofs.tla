---------------------------- MODULE LayoutProofs ---------------------------
(***************************************************************************)
(* Proofs about the prepared file, for every file, request and bound: what *)
(* range of it a request is answered with, how finish lays the samples of  *)
(* the tracks out in it, what the tables of its header say of them, and    *)
(* which bytes of the sources a range of it is read from.  Sums and orders *)
(* over finite sets come first; induction over them is by a least          *)
(* counterexample.                                                         *)
(***************************************************************************)
EXTENDS Mp4Layout, HttpRange, FiniteSetTheorems, SequenceTheorems, TLAPS

-----------------------------------------------------------------------------
(* The least element of a set of numbers.                                  *)

\* A set of numbers from 1 on without gaps is an interval.
LEMMA Initial ==
    ASSUME NEW n \in Nat, NEW S \in SUBSET (1..n), \A i \in S : 1..i \subseteq S
    PROVE  Cardinality(S) \in 0..n /\ S = 1..Cardinality(S)
<1>1. \A m \in Nat : IsFiniteSet(1..m) /\ Cardinality(1..m) = m
    BY FS_Interval
<1>2. IsFiniteSet(S) /\ Cardinality(S) \in Nat /\ Cardinality(S) <= n
    <2>1. S \in SUBSET (1..n) /\ IsFiniteSet(1..n) /\ Cardinality(1..n) = n
        BY <1>1
    <2>2. IsFiniteSet(S) /\ Cardinality(S) <= Cardinality(1..n)
        BY <2>1, FS_Subset
    <2>3. Cardinality(S) \in Nat
        BY <2>2, FS_CardinalityType
    <2> QED
        BY <2>1, <2>2, <2>3
<1>3. ASSUME NEW i \in S PROVE i <= Cardinality(S)
    <2>1. 1..i \subseteq S /\ i \in Nat
        BY <1>3
    <2>2. Cardinality(1..i) <= Cardinality(S)
        BY <1>2, <2>1, FS_Subset
    <2> QED
        BY <1>1, <2>1, <2>2
<1>4. S \subseteq 1..Cardinality(S)
    BY <1>2, <1>3
<1>5. S = 1..Cardinality(S)
    <2>1. IsFiniteSet(1..Cardinality(S)) /\ Cardinality(1..Cardinality(S)) = Cardinality(S)
        BY <1>1, <1>2
    <2> QED
        BY <1>4, <2>1, FS_Subset
<1> QED
    BY <1>2, <1>5

\* So a set of such numbers has a least one, and Min names it.
LEMMA LeastExists ==
    ASSUME NEW n \in Nat, NEW T \in SUBSET (1..n), T # {}
    PROVE  Min(T) \in T /\ \A m \in T : Min(T) <= m
<1> DEFINE S == {i \in 1..n : \A j \in 1..i : j \notin T}
<1>1. Cardinality(S) \in 0..n /\ S = 1..Cardinality(S)
    <2>1. S \in SUBSET (1..n) /\ \A i \in S : 1..i \subseteq S
        OBVIOUS
    <2> HIDE DEF S
    <2> QED
        BY <2>1, Initial
<1> DEFINE c == Cardinality(S)
<1>2. \A j \in 1..c : j \notin T
    BY <1>1
<1>3. c + 1 <= n
    <2>1. ASSUME c = n PROVE FALSE
        BY <1>2, <2>1
    <2> QED
        BY <1>1, <2>1
<1>4. c + 1 \notin S
    <2> HIDE DEF S
    <2> QED
        BY <1>1
<1>5. c + 1 \in T
    <2>1. c + 1 \in 1..n
        BY <1>1, <1>3
    <2>2. ~(\A j \in 1..(c + 1) : j \notin T)
        BY <1>4, <2>1
    <2>3. PICK j \in 1..(c + 1) : j \in T
        BY <2>2
    <2> QED
        BY <1>1, <1>2, <2>3
<1>6. \A m \in T : c + 1 <= m
    BY <1>1, <1>2
<1> HIDE DEF c, S
<1> QED
    BY <1>5, <1>6 DEF Min

\* Among some sets of elements of S there is one none of whose proper subsets is
\* among them: induction over finite sets by a least counterexample.
LEMMA MinimalSet ==
    ASSUME NEW S, IsFiniteSet(S), NEW Bad \in SUBSET (SUBSET S), Bad # {}
    PROVE  \E s \in Bad : \A t \in SUBSET s : t # s => t \notin Bad
<1> DEFINE n == Cardinality(S) + 1
           T == {Cardinality(s) + 1 : s \in Bad}
<1>1. /\ n \in Nat /\ Cardinality(S) \in Nat
      /\ \A s \in Bad : IsFiniteSet(s) /\ Cardinality(s) \in Nat /\ Cardinality(s) <= Cardinality(S)
    BY FS_Subset, FS_CardinalityType
<1>2. T \in SUBSET (1..n) /\ T # {}
    <2>1. \A s \in Bad : Cardinality(s) + 1 \in 1..n
        BY <1>1
    <2> HIDE DEF n
    <2> QED
        BY <2>1
<1>3. PICK s \in Bad : \A m \in T : Cardinality(s) + 1 <= m
    <2> HIDE DEF T, n
    <2>1. Min(T) \in T /\ \A m \in T : Min(T) <= m
        BY <1>1, <1>2, LeastExists
    <2> QED
        BY <2>1 DEF T
<1>4. ASSUME NEW t \in SUBSET s, t # s PROVE t \notin Bad
    <2>1. Cardinality(t) < Cardinality(s) /\ Cardinality(t) \in Nat /\ Cardinality(s) \in Nat
        BY <1>1, <1>4, FS_Subset, FS_CardinalityType
    <2>2. ~(Cardinality(s) + 1 <= Cardinality(t) + 1)
        BY <2>1
    <2>3. t \in Bad => Cardinality(t) + 1 \in T
        OBVIOUS
    <2> HIDE DEF T
    <2> QED
        BY <1>3, <2>2, <2>3
<1> QED
    BY <1>3, <1>4

-----------------------------------------------------------------------------
(* Sums over finite sets.                                                  *)

Some(s) == CHOOSE x \in s : TRUE
SumStep(f, g, S) == [s \in SUBSET S |-> IF s = {} THEN 0 ELSE f[Some(s)] + g[s \ {Some(s)}]]

\* g sums f over the subsets of S.
Sums(f, g, S) ==
    /\ g \in [SUBSET S -> Int]
    /\ g[{}] = 0
    /\ \A s \in SUBSET S : s # {} => g[s] = f[Some(s)] + g[s \ {Some(s)}]

\* At most one function does.
LEMMA SumsAgree ==
    ASSUME NEW S, IsFiniteSet(S), NEW f, NEW h, \A x \in S : f[x] = h[x],
           NEW T, S \subseteq T,
           NEW g, NEW k, Sums(f, g, S), Sums(h, k, T)
    PROVE  \A s \in SUBSET S : g[s] = k[s]
<1> DEFINE Bad == {s \in SUBSET S : g[s] # k[s]}
<1> SUFFICES ASSUME Bad # {} PROVE FALSE
    OBVIOUS
<1>1. PICK s \in Bad : \A t \in SUBSET s : t # s => t \notin Bad
    <2>1. Bad \in SUBSET (SUBSET S)
        OBVIOUS
    <2> HIDE DEF Bad
    <2> QED
        BY <2>1, MinimalSet
<1>2. s # {} /\ s \in SUBSET S
    BY DEF Sums
<1>3. Some(s) \in s
    BY <1>2 DEF Some
<1>4. g[s \ {Some(s)}] = k[s \ {Some(s)}]
    BY <1>1, <1>2, <1>3
<1>5. f[Some(s)] = h[Some(s)]
    BY <1>2, <1>3
<1> QED
    BY <1>2, <1>4, <1>5 DEF Sums

LEMMA SumsExist ==
    ASSUME NEW S, IsFiniteSet(S), NEW f, \A x \in S : f[x] \in Int
    PROVE  \E g : Sums(f, g, S)
\* Up to n elements.
<1> DEFINE UpTo(g, n) == /\ g \in [SUBSET S -> Int]
                         /\ g[{}] = 0
                         /\ \A s \in SUBSET S : s # {} /\ Cardinality(s) <= n =>
                               g[s] = f[Some(s)] + g[s \ {Some(s)}]
           N == Cardinality(S)
           Bad == {n \in 1..N : ~\E g : UpTo(g, n)}
<1>1. /\ N \in Nat
      /\ \A s \in SUBSET S : IsFiniteSet(s) /\ Cardinality(s) \in Nat /\ Cardinality(s) <= N
      /\ \A s \in SUBSET S : Cardinality(s) = 0 <=> s = {}
    BY FS_Subset, FS_CardinalityType, FS_EmptySet
<1>2. \E g : UpTo(g, 0)
    <2>1. UpTo([s \in SUBSET S |-> 0], 0)
        BY <1>1
    <2> HIDE DEF UpTo
    <2> QED
        BY <2>1
<1>3. ASSUME NEW n \in 0..N, n + 1 \in 1..N, NEW g, UpTo(g, n) PROVE \E h : UpTo(h, n + 1)
    <2> DEFINE h == [s \in SUBSET S |-> IF Cardinality(s) = n + 1 THEN f[Some(s)] + g[s \ {Some(s)}] ELSE g[s]]
    <2>1. \A s \in SUBSET S : s # {} => /\ Some(s) \in s /\ f[Some(s)] \in Int
                                        /\ s \ {Some(s)} \in SUBSET S /\ g[s \ {Some(s)}] \in Int
                                        /\ Cardinality(s \ {Some(s)}) = Cardinality(s) - 1
        <3> SUFFICES ASSUME NEW s \in SUBSET S, s # {}
                     PROVE  /\ Some(s) \in s /\ f[Some(s)] \in Int
                            /\ s \ {Some(s)} \in SUBSET S /\ g[s \ {Some(s)}] \in Int
                            /\ Cardinality(s \ {Some(s)}) = Cardinality(s) - 1
            OBVIOUS
        <3>1. Some(s) \in s
            BY DEF Some
        <3>2. Cardinality(s \ {Some(s)}) = Cardinality(s) - 1
            BY <1>1, <3>1, FS_RemoveElement
        <3> QED
            BY <1>3, <3>1, <3>2
    <2>2. h \in [SUBSET S -> Int]
        <3>1. \A s \in SUBSET S : Cardinality(s) = n + 1 => s # {}
            BY <1>1
        <3>2. \A s \in SUBSET S : h[s] \in Int
            BY <1>3, <2>1, <3>1
        <3> QED
            BY <3>2
    <2>3. h[{}] = 0
        BY <1>1, <1>3
    <2>4. ASSUME NEW s \in SUBSET S, s # {}, Cardinality(s) <= n + 1
          PROVE  h[s] = f[Some(s)] + h[s \ {Some(s)}]
        <3>1. h[s \ {Some(s)}] = g[s \ {Some(s)}]
            BY <1>1, <2>1, <2>4
        <3>2. CASE Cardinality(s) = n + 1
            BY <3>1, <3>2
        <3>3. CASE Cardinality(s) # n + 1
            <4>1. Cardinality(s) <= n
                BY <1>1, <2>4, <3>3
            <4>2. h[s] = g[s]
                BY <3>3
            <4>3. g[s] = f[Some(s)] + g[s \ {Some(s)}]
                BY <1>3, <2>4, <4>1
            <4> QED
                BY <3>1, <4>2, <4>3
        <3> QED
            BY <3>2, <3>3
    <2>5. UpTo(h, n + 1)
        BY <2>2, <2>3, <2>4
    <2> HIDE DEF h, UpTo
    <2> QED
        BY <2>5
<1>4. Bad = {}
    <2> SUFFICES ASSUME Bad # {} PROVE FALSE
        OBVIOUS
    <2>1. Bad \in SUBSET (1..N)
        OBVIOUS
    <2> DEFINE m == Min(Bad)
    <2>2. m \in Bad /\ \A k \in Bad : m <= k
        <3> HIDE DEF Bad, N
        <3> QED
            BY <1>1, <2>1, LeastExists
    <2> HIDE DEF m, UpTo
    <2>3. m \in 1..N /\ ~\E g : UpTo(g, m)
        BY <2>2
    <2>4. \E g : UpTo(g, m - 1)
        <3>1. CASE m = 1
            <4>1. m - 1 = 0
                BY <3>1
            <4> QED
                BY <1>2, <4>1
        <3>2. CASE m # 1
            <4>1. m - 1 \in 1..N /\ m - 1 \notin Bad
                BY <1>1, <2>2, <2>3, <3>2
            <4> QED
                BY <4>1
        <3> QED
            BY <3>1, <3>2
    <2>5. m - 1 \in 0..N /\ (m - 1) + 1 = m
        BY <1>1, <2>3
    <2> QED
        BY <1>3, <2>3, <2>4, <2>5
<1>5. \E g : UpTo(g, N)
    <2> HIDE DEF UpTo
    <2>1. CASE N = 0
        BY <1>2, <2>1
    <2>2. CASE N # 0
        <3>1. N \in 1..N /\ N \notin Bad
            BY <1>1, <1>4, <2>2
        <3> QED
            BY <3>1
    <2> QED
        BY <2>1, <2>2
<1>6. PICK g : UpTo(g, N)
    BY <1>5
<1>7. Sums(f, g, S)
    BY <1>1, <1>6 DEF Sums
<1> QED
    BY <1>7

LEMMA SumUnfolds ==
    ASSUME NEW S, IsFiniteSet(S), NEW f, \A x \in S : f[x] \in Int
    PROVE  \E g : Sums(f, g, S) /\ SumFunctionOnSet(f, S) = g[S]
<1> DEFINE G == CHOOSE g : g = SumStep(f, g, S)
<1>1. SumFunctionOnSet(f, S) = G[S]
    BY DEF SumFunctionOnSet, FoldFunctionOnSet, MapThenFoldSet, SumStep, Some
<1>2. PICK g : Sums(f, g, S)
    BY SumsExist
<1>3. g = SumStep(f, g, S)
    <2>1. g \in [SUBSET S -> Int]
        BY <1>2 DEF Sums
    <2>2. \A s \in SUBSET S : g[s] = SumStep(f, g, S)[s]
        BY <1>2 DEF Sums, SumStep
    <2>3. SumStep(f, g, S) = [s \in SUBSET S |-> SumStep(f, g, S)[s]]
        BY DEF SumStep
    <2> QED
        BY <2>1, <2>2, <2>3
<1>4. G = SumStep(f, G, S)
    BY <1>3
<1> HIDE DEF G
<1>5. G[{}] = 0 /\ \A s \in SUBSET S : s # {} => G[s] = f[Some(s)] + G[s \ {Some(s)}]
    <2>1. \A s \in SUBSET S : G[s] = SumStep(f, G, S)[s]
        BY <1>4
    <2> QED
        BY <2>1 DEF SumStep
<1>6. G = [s \in SUBSET S |-> G[s]]
    <2>1. SumStep(f, G, S) = [s \in SUBSET S |-> SumStep(f, G, S)[s]]
        BY DEF SumStep
    <2> QED
        BY <1>4, <2>1
<1>7. \A s \in SUBSET S : G[s] = g[s]
    <2> DEFINE Bad == {s \in SUBSET S : G[s] # g[s]}
    <2> SUFFICES ASSUME Bad # {} PROVE FALSE
        OBVIOUS
    <2>1. PICK s \in Bad : \A t \in SUBSET s : t # s => t \notin Bad
        <3>1. Bad \in SUBSET (SUBSET S)
            OBVIOUS
        <3> HIDE DEF Bad
        <3> QED
            BY <3>1, MinimalSet
    <2>2. s # {} /\ s \in SUBSET S
        BY <1>2, <1>5 DEF Sums
    <2>3. Some(s) \in s
        BY <2>2 DEF Some
    <2>4. G[s \ {Some(s)}] = g[s \ {Some(s)}]
        BY <2>1, <2>2, <2>3
    <2> QED
        BY <1>2, <1>5, <2>2, <2>4 DEF Sums
<1>8. G \in [SUBSET S -> Int]
    <2>1. \A s \in SUBSET S : G[s] \in Int
        BY <1>2, <1>7 DEF Sums
    <2> QED
        BY <1>6, <2>1
<1>9. Sums(f, G, S)
    BY <1>5, <1>8 DEF Sums
<1> QED
    BY <1>1, <1>9

\* What a sum over a finite set is.
LEMMA SumOfNone == ASSUME NEW f PROVE SumFunctionOnSet(f, {}) = 0
<1>1. IsFiniteSet({})
    BY FS_EmptySet
<1> QED
    BY <1>1, SumUnfolds DEF Sums

LEMMA SumSame ==
    ASSUME NEW S, IsFiniteSet(S), NEW f, \A x \in S : f[x] \in Int, NEW h, \A x \in S : f[x] = h[x]
    PROVE  SumFunctionOnSet(f, S) = SumFunctionOnSet(h, S)
<1>1. PICK g : Sums(f, g, S) /\ SumFunctionOnSet(f, S) = g[S]
    BY SumUnfolds
<1>2. PICK k : Sums(h, k, S) /\ SumFunctionOnSet(h, S) = k[S]
    BY SumUnfolds
<1>3. \A s \in SUBSET S : g[s] = k[s]
    BY <1>1, <1>2, SumsAgree
<1> QED
    BY <1>1, <1>2, <1>3

LEMMA SumWith ==
    ASSUME NEW S, IsFiniteSet(S), NEW f, \A x \in S : f[x] \in Int, NEW x \in S
    PROVE  /\ SumFunctionOnSet(f, S) \in Int /\ SumFunctionOnSet(f, S \ {x}) \in Int
           /\ SumFunctionOnSet(f, S) = f[x] + SumFunctionOnSet(f, S \ {x})
<1>1. PICK g : Sums(f, g, S) /\ SumFunctionOnSet(f, S) = g[S]
    BY SumUnfolds
<1>2. IsFiniteSet(S \ {x}) /\ S \ {x} \subseteq S
    BY FS_Subset
<1>3. PICK k : Sums(f, k, S \ {x}) /\ SumFunctionOnSet(f, S \ {x}) = k[S \ {x}]
    BY <1>2, SumUnfolds
<1>4. k[S \ {x}] = g[S \ {x}]
    BY <1>1, <1>2, <1>3, SumsAgree
\* Whichever element comes first.
<1>5. \A s \in SUBSET S : \A y \in s : g[s] = f[y] + g[s \ {y}]
    <2> DEFINE Bad == {s \in SUBSET S : \E y \in s : g[s] # f[y] + g[s \ {y}]}
    <2> SUFFICES ASSUME Bad # {} PROVE FALSE
        BY Zenon
    <2>1. PICK s \in Bad : \A t \in SUBSET s : t # s => t \notin Bad
        <3>1. Bad \in SUBSET (SUBSET S)
            OBVIOUS
        <3> HIDE DEF Bad
        <3> QED
            BY <3>1, MinimalSet
    <2>2. PICK y \in s : g[s] # f[y] + g[s \ {y}]
        OBVIOUS
    <2>3. s \in SUBSET S /\ s # {}
        BY <2>2
    <2> DEFINE z == Some(s)
               u == (s \ {y}) \ {z}
    <2>4. z \in s /\ g[s] = f[z] + g[s \ {z}]
        BY <1>1, <2>3 DEF Some, Sums
    <2> HIDE DEF z
    <2>5. y # z
        BY <2>2, <2>4
    <2>6. /\ s \ {y} \in SUBSET S /\ s \ {z} \in SUBSET S /\ s \ {y} # s /\ s \ {z} # s
          /\ z \in s \ {y} /\ y \in s \ {z} /\ (s \ {z}) \ {y} = u /\ u \in SUBSET S
        BY <2>2, <2>3, <2>4, <2>5
    <2>7. s \ {y} \notin Bad /\ s \ {z} \notin Bad
        <3> HIDE DEF Bad
        <3> QED
            BY <2>1, <2>6
    <2>8. g[s \ {y}] = f[z] + g[u] /\ g[s \ {z}] = f[y] + g[u]
        BY <2>6, <2>7
    <2>9. f[y] \in Int /\ f[z] \in Int /\ g[u] \in Int
        BY <1>1, <2>2, <2>3, <2>4, <2>6 DEF Sums
    <2> HIDE DEF u, Bad
    <2> QED
        BY <2>2, <2>4, <2>8, <2>9
<1>6. g[S] = f[x] + g[S \ {x}]
    BY <1>5
<1>7. g[S] \in Int /\ g[S \ {x}] \in Int
    BY <1>1, <1>2 DEF Sums
<1> QED
    BY <1>1, <1>3, <1>4, <1>6, <1>7

LEMMA SumIsInt ==
    ASSUME NEW S, IsFiniteSet(S), NEW f, \A x \in S : f[x] \in Int
    PROVE  SumFunctionOnSet(f, S) \in Int
<1>1. CASE S = {}
    BY <1>1, SumOfNone
<1>2. CASE S # {}
    BY <1>2, SumWith
<1> QED
    BY <1>1, <1>2

LEMMA SumIsNat ==
    ASSUME NEW S, IsFiniteSet(S), NEW f, \A x \in S : f[x] \in Nat
    PROVE  SumFunctionOnSet(f, S) \in Nat
<1> DEFINE Bad == {s \in SUBSET S : SumFunctionOnSet(f, s) \notin Nat}
<1> SUFFICES ASSUME Bad # {} PROVE FALSE
    OBVIOUS
<1>1. PICK s \in Bad : \A t \in SUBSET s : t # s => t \notin Bad
    <2>1. Bad \in SUBSET (SUBSET S)
        OBVIOUS
    <2> HIDE DEF Bad
    <2> QED
        BY <2>1, MinimalSet
<1>2. s \in SUBSET S /\ SumFunctionOnSet(f, s) \notin Nat
    BY <1>1
<1>3. s # {}
    BY <1>2, SumOfNone
<1>4. PICK x \in s : TRUE
    BY <1>3
<1>5. SumFunctionOnSet(f, s) = f[x] + SumFunctionOnSet(f, s \ {x})
    <2>1. IsFiniteSet(s) /\ \A y \in s : f[y] \in Int
        BY <1>2, FS_Subset
    <2> QED
        BY <2>1, SumWith
<1>6. SumFunctionOnSet(f, s \ {x}) \in Nat
    <2>1. s \ {x} \in SUBSET s /\ s \ {x} # s /\ s \ {x} \in SUBSET S
        BY <1>2, <1>4
    <2> QED
        BY <1>1, <2>1
<1> QED
    BY <1>2, <1>4, <1>5, <1>6

LEMMA SumSplits ==
    ASSUME NEW S, IsFiniteSet(S), NEW f, \A x \in S : f[x] \in Int, NEW T \in SUBSET S
    PROVE  SumFunctionOnSet(f, S) = SumFunctionOnSet(f, T) + SumFunctionOnSet(f, S \ T)
<1> DEFINE Bad == {U \in SUBSET (S \ T) :
                      SumFunctionOnSet(f, T \cup U) # SumFunctionOnSet(f, T) + SumFunctionOnSet(f, U)}
<1>1. ASSUME Bad # {} PROVE FALSE
    <2>1. PICK U \in Bad : \A V \in SUBSET U : V # U => V \notin Bad
        <3>1. Bad \in SUBSET (SUBSET (S \ T)) /\ IsFiniteSet(S \ T)
            BY FS_Subset
        <3> HIDE DEF Bad
        <3> QED
            BY <1>1, <3>1, MinimalSet
    <2>2. /\ U \in SUBSET (S \ T)
          /\ SumFunctionOnSet(f, T \cup U) # SumFunctionOnSet(f, T) + SumFunctionOnSet(f, U)
        BY <2>1
    <2>3. IsFiniteSet(T) /\ IsFiniteSet(U) /\ IsFiniteSet(T \cup U)
        BY <2>2, FS_Subset
    <2>4. /\ \A x \in T \cup U : f[x] \in Int
          /\ SumFunctionOnSet(f, T) \in Int
        BY <2>2, <2>3, SumIsInt
    <2>5. U # {}
        <3>1. U = {} => T \cup U = T
            OBVIOUS
        <3> QED
            BY <2>2, <2>4, <3>1, SumOfNone
    <2>6. PICK x \in U : TRUE
        BY <2>5
    <2>7. (T \cup U) \ {x} = T \cup (U \ {x})
        BY <2>2, <2>6
    <2>8. /\ SumFunctionOnSet(f, T \cup U) = f[x] + SumFunctionOnSet(f, T \cup (U \ {x}))
          /\ SumFunctionOnSet(f, U) = f[x] + SumFunctionOnSet(f, U \ {x})
          /\ SumFunctionOnSet(f, U \ {x}) \in Int
        BY <2>3, <2>4, <2>6, <2>7, SumWith
    <2>9. SumFunctionOnSet(f, T \cup (U \ {x})) = SumFunctionOnSet(f, T) + SumFunctionOnSet(f, U \ {x})
        <3>1. U \ {x} \in SUBSET U /\ U \ {x} # U /\ U \ {x} \in SUBSET (S \ T)
            BY <2>2, <2>6
        <3> QED
            BY <2>1, <3>1
    <2>10. f[x] \in Int
        BY <2>4, <2>6
    <2> QED
        BY <2>2, <2>4, <2>8, <2>9, <2>10
<1>2. S \ T \in SUBSET (S \ T) /\ T \cup (S \ T) = S
    OBVIOUS
<1> QED
    BY <1>1, <1>2

\* Sums over the first elements of a sequence of numbers.
LEMMA SumOfFirst ==
    ASSUME NEW q \in Seq(Nat), NEW n \in 0..Len(q)
    PROVE  /\ SumFunctionOnSet(q, 1..n) \in Nat
           /\ n > 0 => /\ SumFunctionOnSet(q, 1..(n - 1)) \in Nat
                       /\ SumFunctionOnSet(q, 1..n) = q[n] + SumFunctionOnSet(q, 1..(n - 1))
<1>1. ASSUME NEW m \in 0..Len(q)
      PROVE  IsFiniteSet(1..m) /\ (\A x \in 1..m : q[x] \in Nat /\ q[x] \in Int)
    <2>1. IsFiniteSet(1..m)
        BY FS_Interval
    <2>2. \A x \in 1..Len(q) : q[x] \in Nat
        OBVIOUS
    <2>3. 1..m \subseteq 1..Len(q)
        OBVIOUS
    <2> QED
        BY <2>1, <2>2, <2>3
<1>2. ASSUME NEW m \in 0..Len(q) PROVE SumFunctionOnSet(q, 1..m) \in Nat
    <2> DEFINE S == 1..m
    <2>1. IsFiniteSet(S) /\ \A x \in S : q[x] \in Nat
        BY <1>1
    <2> HIDE DEF S
    <2>2. SumFunctionOnSet(q, S) \in Nat
        BY <2>1, SumIsNat
    <2> QED
        BY <2>2 DEF S
<1>3. ASSUME n > 0 PROVE SumFunctionOnSet(q, 1..n) = q[n] + SumFunctionOnSet(q, 1..(n - 1))
    <2> DEFINE S == 1..n
    <2>1. n \in S /\ S \ {n} = 1..(n - 1)
        <3>1. Len(q) \in Nat
            OBVIOUS
        <3> QED
            BY <1>3, <3>1
    <2>2. IsFiniteSet(S) /\ \A x \in S : q[x] \in Int
        BY <1>1
    <2> HIDE DEF S
    <2>3. SumFunctionOnSet(q, S) = q[n] + SumFunctionOnSet(q, S \ {n})
        BY <2>1, <2>2, SumWith
    <2> QED
        BY <2>1, <2>3 DEF S
<1>4. n > 0 => n - 1 \in 0..Len(q)
    <2>1. Len(q) \in Nat
        OBVIOUS
    <2> QED
        BY <2>1
<1>5. n > 0 => SumFunctionOnSet(q, 1..(n - 1)) \in Nat
    BY <1>2, <1>4
<1>6. SumFunctionOnSet(q, 1..n) \in Nat
    BY <1>2
<1> QED
    BY <1>3, <1>5, <1>6

\* What the elements up to one add to is no more than what all add to.
LEMMA SumGrows ==
    ASSUME NEW q \in Seq(Nat), NEW n \in 1..Len(q)
    PROVE  /\ SumFunctionOnSet(q, 1..(n - 1)) \in Nat /\ SumFunction(q) \in Nat
           /\ SumFunctionOnSet(q, 1..(n - 1)) + q[n] <= SumFunction(q)
<1>1. SumFunction(q) = SumFunctionOnSet(q, 1..Len(q))
    BY DEF SumFunction
<1> DEFINE S == 1..Len(q)
           T == 1..n
<1>2. IsFiniteSet(S) /\ (\A x \in S : q[x] \in Nat /\ q[x] \in Int) /\ T \in SUBSET S
    <2>1. Len(q) \in Nat
        OBVIOUS
    <2>2. IsFiniteSet(1..Len(q))
        BY <2>1, FS_Interval
    <2> QED
        BY <2>1, <2>2
<1> HIDE DEF S, T
<1>3. SumFunctionOnSet(q, S) = SumFunctionOnSet(q, T) + SumFunctionOnSet(q, S \ T)
    BY <1>2, SumSplits
<1>4. SumFunctionOnSet(q, S \ T) \in Nat
    <2>1. IsFiniteSet(S \ T) /\ \A x \in S \ T : q[x] \in Nat
        BY <1>2, FS_Subset
    <2> QED
        BY <2>1, SumIsNat
<1>5. /\ SumFunctionOnSet(q, 1..n) \in Nat /\ SumFunctionOnSet(q, 1..(n - 1)) \in Nat
      /\ SumFunctionOnSet(q, 1..n) = q[n] + SumFunctionOnSet(q, 1..(n - 1))
    <2>1. n \in 0..Len(q) /\ n > 0
        OBVIOUS
    <2> QED
        BY <2>1, SumOfFirst
<1>6. q[n] \in Nat
    OBVIOUS
<1>7. SumFunction(q) = SumFunctionOnSet(q, S) /\ SumFunctionOnSet(q, T) = SumFunctionOnSet(q, 1..n)
    BY <1>1 DEF S, T
<1> DEFINE rest == SumFunctionOnSet(q, S \ T)
           first == SumFunctionOnSet(q, T)
           before == SumFunctionOnSet(q, 1..(n - 1))
<1>8. SumFunction(q) = first + rest /\ first = q[n] + before /\ rest \in Nat /\ first \in Nat /\ before \in Nat
    BY <1>3, <1>4, <1>5, <1>7
<1> HIDE DEF rest, first, before
<1>9. SumFunction(q) \in Nat /\ before + q[n] <= SumFunction(q)
    <2>1. PICK d \in Nat : d = q[n]
        BY <1>6
    <2>2. first = d + before
        BY <1>8, <2>1
    <2>3. d + before + rest = SumFunction(q) /\ d + before + rest \in Nat /\ before + d <= d + before + rest
        BY <1>8, <2>2
    <2> QED
        BY <2>1, <2>3
<1> QED
    BY <1>8, <1>9 DEF before

-----------------------------------------------------------------------------
(* resolve_range.                                                          *)

\* The positions a header that counts as one range asks for (RFC 9110).
InRange(header, p, length) ==
    /\ p < length
    /\ IF header.first = NoNumber THEN p >= length - header.last
       ELSE p >= header.first /\ (header.last # NoNumber => p <= header.last)

\* Is the header one range that can be understood?
IsOneRange(header) ==
    /\ header.kind = "bytes"
    /\ header.first # NoNumber \/ header.last # NoNumber
    /\ header.first # NoNumber /\ header.last # NoNumber => header.first <= header.last

LEMMA SuffixIsExact ==
    ASSUME NEW n \in Nat, NEW length \in Nat
    PROVE  IF n = 0 \/ length = 0
           THEN Suffix(n, length) = Unsatisfiable
           ELSE /\ Suffix(n, length).kind = "partial"
                /\ Suffix(n, length).start \in Nat /\ Suffix(n, length).end = length
                /\ Suffix(n, length).start < length
                /\ \A p \in Nat : p < length => (p >= Suffix(n, length).start <=> p >= length - n)
  <1>1. n # NoNumber
    BY DEF NoNumber
  <1>2. CASE n = 0 \/ length = 0
    BY <1>1, <1>2 DEF Suffix, Unsatisfiable, Full
  <1>3. CASE n # 0 /\ length # 0
    <2>1. Suffix(n, length) = [kind |-> "partial", start |-> Minus(length, n), end |-> length]
      BY <1>1, <1>3 DEF Suffix, Partial
    <2>2. /\ Minus(length, n) \in Nat /\ Minus(length, n) < length
          /\ \A p \in Nat : p < length => (p >= Minus(length, n) <=> p >= length - n)
      BY <1>3 DEF Minus
    <2> QED BY <1>3, <2>1, <2>2
  <1> QED BY <1>2, <1>3

LEMMA FromFirstIsExact ==
    ASSUME NEW first, NEW last, NEW length,
           first \in Nat, last \in Nat \cup {NoNumber}, length \in Nat,
           last # NoNumber => first <= last
    PROVE  IF first >= length
           THEN FromFirst(first, last, length) = Unsatisfiable
           ELSE /\ FromFirst(first, last, length).kind = "partial"
                /\ FromFirst(first, last, length).start = first
                /\ FromFirst(first, last, length).end \in Nat
                /\ first < FromFirst(first, last, length).end
                /\ FromFirst(first, last, length).end <= length
                /\ \A p \in Nat : p < length =>
                     (p < FromFirst(first, last, length).end <=> (last # NoNumber => p <= last))
  <1> DEFINE end == IF last = NoNumber THEN Minus(length, 1) ELSE last
  <1>1. ~(end < first /\ last # NoNumber)
    BY DEF NoNumber
  <1>2. CASE first >= length
    BY <1>1, <1>2 DEF FromFirst, Unsatisfiable, Full
  <1>3. CASE first < length
    <2>1. FromFirst(first, last, length) = [kind |-> "partial", start |-> first, end |-> AtMost(end, length - 1) + 1]
      BY <1>1, <1>3 DEF FromFirst, Partial
    <2>2. CASE last = NoNumber
      <3>1. end = length - 1
        BY <1>3, <2>2 DEF Minus
      <3>2. AtMost(end, length - 1) + 1 = length
        BY <1>3, <3>1 DEF AtMost
      <3> QED BY <1>3, <2>1, <2>2, <3>2
    <2>3. CASE last # NoNumber
      <3>1. end = last /\ last \in Nat
        BY <2>3
      <3>2. /\ AtMost(last, length - 1) + 1 \in Nat
            /\ first < AtMost(last, length - 1) + 1 /\ AtMost(last, length - 1) + 1 <= length
            /\ \A p \in Nat : p < length => (p < AtMost(last, length - 1) + 1 <=> p <= last)
        BY <1>3, <2>3, <3>1 DEF AtMost
      <3> QED BY <1>3, <2>1, <2>3, <3>1, <3>2
    <2> QED BY <2>2, <2>3
  <1> QED BY <1>2, <1>3

\* Does r answer the header as RFC 9110 asks?
IsExact(r, header, length) ==
    IF ~IsOneRange(header) THEN r = Full
    ELSE /\ r.kind \in {"partial", "unsatisfiable"}
         /\ r.kind = "unsatisfiable" <=> ~\E p \in Nat : InRange(header, p, length)
         /\ r.kind = "partial" =>
              /\ r.start \in Nat /\ r.end \in Nat /\ r.start < r.end /\ r.end <= length
              /\ \A p \in Nat : InRange(header, p, length) <=> (r.start <= p /\ p < r.end)

\* A range is answered with exactly the bytes it names of the file, and refused
\* when there are none; everything else gets the whole file (resolve_range).
THEOREM ResolveRangeIsExact ==
    ASSUME NEW header \in Header, NEW length \in Nat
    PROVE  IsExact(resolve_range(header, length), header, length)
  <1> SUFFICES ASSUME NEW r, r = resolve_range(header, length)
               PROVE  IsExact(r, header, length)
    OBVIOUS
  <1>0. header.first \in Nat \cup {NoNumber} /\ header.last \in Nat \cup {NoNumber}
    BY DEF Header
  <1>1. CASE header.kind # "bytes"
    BY <1>1 DEF resolve_range, IsOneRange, IsExact
  <1>2. CASE header.kind = "bytes" /\ header.first = NoNumber
    <2>1. r = Suffix(header.last, length)
      BY <1>2 DEF resolve_range
    <2>2. CASE header.last = NoNumber
      BY <1>2, <2>1, <2>2 DEF Suffix, IsOneRange, IsExact
    <2>3. CASE header.last # NoNumber
      <3>1. header.last \in Nat /\ IsOneRange(header)
        BY <1>0, <1>2, <2>3 DEF IsOneRange
      <3>2. CASE header.last = 0 \/ length = 0
        <4>1. r = Unsatisfiable
          BY <2>1, <3>1, <3>2, SuffixIsExact
        <4>2. ~\E p \in Nat : InRange(header, p, length)
          BY <1>2, <3>1, <3>2 DEF InRange
        <4> QED BY <3>1, <4>1, <4>2 DEF Unsatisfiable, IsExact
      <3>3. CASE header.last # 0 /\ length # 0
        <4>1. /\ r.kind = "partial" /\ r.start \in Nat /\ r.end = length /\ r.start < length
              /\ \A p \in Nat : p < length => (p >= r.start <=> p >= length - header.last)
          BY <2>1, <3>1, <3>3, SuffixIsExact
        <4>2. \A p \in Nat : InRange(header, p, length) <=> (r.start <= p /\ p < r.end)
          BY <1>2, <4>1 DEF InRange
        <4>3. \E p \in Nat : InRange(header, p, length)
          BY <4>1, <4>2
        <4> QED BY <3>1, <4>1, <4>2, <4>3 DEF IsExact
      <3> QED BY <3>2, <3>3
    <2> QED BY <2>2, <2>3
  <1>3. CASE header.kind = "bytes" /\ header.first # NoNumber
    <2>1. r = FromFirst(header.first, header.last, length) /\ header.first \in Nat
      BY <1>0, <1>3 DEF resolve_range
    <2>2. CASE header.last # NoNumber /\ header.last < header.first
      <3>1. r = Full
        BY <2>1, <2>2 DEF FromFirst
      <3> QED BY <1>0, <1>3, <2>1, <2>2, <3>1 DEF IsOneRange, IsExact
    <2>3. CASE header.last # NoNumber => header.first <= header.last
      <3>1. IsOneRange(header)
        BY <1>3, <2>3 DEF IsOneRange
      <3>2. CASE header.first >= length
        <4>1. r = Unsatisfiable
          BY <1>0, <2>1, <2>3, <3>2, FromFirstIsExact
        <4>2. ~\E p \in Nat : InRange(header, p, length)
          BY <1>3, <2>1, <3>2 DEF InRange
        <4> QED BY <3>1, <4>1, <4>2 DEF Unsatisfiable, IsExact
      <3>3. CASE header.first < length
        <4>1. /\ r.kind = "partial" /\ r.start = header.first /\ r.end \in Nat
              /\ header.first < r.end /\ r.end <= length
              /\ \A p \in Nat : p < length => (p < r.end <=> (header.last # NoNumber => p <= header.last))
          BY <1>0, <2>1, <2>3, <3>3, FromFirstIsExact
        <4>2. \A p \in Nat : InRange(header, p, length) <=> (r.start <= p /\ p < r.end)
          BY <1>3, <2>1, <4>1 DEF InRange
        <4>3. \E p \in Nat : InRange(header, p, length)
          BY <2>1, <4>1, <4>2
        <4> QED BY <2>1, <3>1, <4>1, <4>2, <4>3 DEF IsExact
      <3> QED BY <2>1, <3>2, <3>3
    <2> QED BY <1>0, <2>1, <2>2, <2>3
  <1> QED BY <1>1, <1>2, <1>3

-----------------------------------------------------------------------------
(* Orders of finite sets.                                                  *)

\* Below[x] are the elements before x in a strict total order of P.
IsOrder(P, Below) ==
    /\ Below \in [P -> SUBSET P]
    /\ \A x \in P : x \notin Below[x]
    /\ \A x, y \in P : x \in Below[y] => Below[x] \subseteq Below[y]
    /\ \A x, y \in P : x = y \/ x \in Below[y] \/ y \in Below[x]

\* An element's place in a finite order is the number of those before it, and
\* every place has its element.
LEMMA LowerIsEarlier ==
    ASSUME NEW P, IsFiniteSet(P), NEW Below, IsOrder(P, Below), NEW x \in P, NEW y \in P, x \in Below[y]
    PROVE  /\ Cardinality(Below[x]) \in Nat /\ Cardinality(Below[y]) \in Nat
           /\ Cardinality(Below[x]) < Cardinality(Below[y])
<1>1. Below[x] \in SUBSET Below[y] /\ Below[y] \in SUBSET P /\ x \notin Below[x]
    BY DEF IsOrder
<1>2. IsFiniteSet(Below[x]) /\ IsFiniteSet(Below[y])
    BY <1>1, FS_Subset
<1>3. /\ Cardinality(Below[x]) <= Cardinality(Below[y])
      /\ Cardinality(Below[y]) = Cardinality(Below[x]) => Below[y] = Below[x]
    BY <1>1, <1>2, FS_Subset
<1>4. Cardinality(Below[x]) \in Nat /\ Cardinality(Below[y]) \in Nat
    BY <1>2, FS_CardinalityType
<1> QED
    BY <1>1, <1>3, <1>4

LEMMA EveryPlaceIsTaken ==
    ASSUME NEW P, IsFiniteSet(P), NEW Below, IsOrder(P, Below)
    PROVE  /\ Cardinality(P) \in Nat
           /\ \A x \in P : Cardinality(Below[x]) \in Nat /\ Cardinality(Below[x]) + 1 \in 1..Cardinality(P)
           /\ \A k \in 1..Cardinality(P) : \E x \in P : Cardinality(Below[x]) + 1 = k
           /\ \A x, y \in P : Cardinality(Below[x]) < Cardinality(Below[y]) <=> x \in Below[y]
           /\ \A x, y \in P : Cardinality(Below[x]) = Cardinality(Below[y]) => x = y
<1> DEFINE N == Cardinality(P)
           rank == [x \in P |-> Cardinality(Below[x]) + 1]
<1>1. N \in Nat /\ IsFiniteSet(1..N) /\ Cardinality(1..N) = N
    BY FS_CardinalityType, FS_Interval
<1>2. ASSUME NEW x \in P PROVE rank[x] \in 1..N
    <2>1. Below[x] \in SUBSET (P \ {x})
        BY DEF IsOrder
    <2>2. IsFiniteSet(P \ {x}) /\ Cardinality(P \ {x}) = N - 1
        BY FS_RemoveElement
    <2>3. IsFiniteSet(Below[x]) /\ Cardinality(Below[x]) <= N - 1
        BY <2>1, <2>2, FS_Subset
    <2>4. Cardinality(Below[x]) \in Nat
        BY <2>3, FS_CardinalityType
    <2> QED
        BY <1>1, <2>3, <2>4
<1>3. \A x, y \in P : x \in Below[y] => Cardinality(Below[x]) < Cardinality(Below[y])
    BY LowerIsEarlier
<1>4. \A x \in P : Cardinality(Below[x]) \in Nat
    <2>1. \A x \in P : Below[x] \in SUBSET P
        BY DEF IsOrder
    <2> QED
        BY <2>1, FS_Subset, FS_CardinalityType
<1>5. \A x, y \in P : Cardinality(Below[x]) = Cardinality(Below[y]) => x = y
    BY <1>3, <1>4 DEF IsOrder
<1>6. \A x, y \in P : Cardinality(Below[x]) < Cardinality(Below[y]) => x \in Below[y]
    BY <1>3, <1>4 DEF IsOrder
<1>7. rank \in Injection(P, 1..N)
    <2>1. rank \in [P -> 1..N]
        BY <1>2
    <2>2. \A x, y \in P : rank[x] = rank[y] => x = y
        BY <1>4, <1>5
    <2> HIDE DEF rank
    <2> QED
        BY <2>1, <2>2 DEF Injection, IsInjective
<1>8. rank \in Surjection(P, 1..N)
    <2> HIDE DEF rank
    <2> QED
        BY <1>1, <1>7, FS_Injection
<1>9. \A k \in 1..N : \E x \in P : rank[x] = k
    BY <1>8 DEF Surjection
<1> QED
    BY <1>1, <1>2, <1>3, <1>4, <1>5, <1>6, <1>9

\* The elements of an order in their order: neighbours have nothing between them.
LEMMA Neighbours ==
    ASSUME NEW P, IsFiniteSet(P), NEW Below, IsOrder(P, Below), NEW x \in P, NEW y \in P,
           Cardinality(Below[y]) = Cardinality(Below[x]) + 1
    PROVE  Below[y] = Below[x] \cup {x} /\ x \notin Below[x]
<1>1. \A z \in P : Cardinality(Below[z]) \in Nat
    BY EveryPlaceIsTaken
<1>2. x \in Below[y]
    <2>1. Cardinality(Below[x]) < Cardinality(Below[y])
        BY <1>1
    <2> QED
        BY <2>1, EveryPlaceIsTaken
<1>3. Below[x] \cup {x} \subseteq Below[y] /\ x \notin Below[x]
    BY <1>2 DEF IsOrder
<1>4. ASSUME NEW z \in Below[y], z # x PROVE z \in Below[x]
    <2>1. z \in P
        BY DEF IsOrder
    <2>2. Cardinality(Below[z]) < Cardinality(Below[y])
        BY <2>1, EveryPlaceIsTaken
    <2>3. Cardinality(Below[z]) # Cardinality(Below[x])
        BY <1>4, <2>1, EveryPlaceIsTaken
    <2>4. Cardinality(Below[z]) < Cardinality(Below[x])
        BY <1>1, <2>1, <2>2, <2>3
    <2> QED
        BY <2>1, <2>4, EveryPlaceIsTaken
<1> QED
    BY <1>3, <1>4

-----------------------------------------------------------------------------
(* Where finish puts the samples.                                          *)

\* A track with samples of some bytes at some time.
IsTrack(track) ==
    /\ track.timescale \in Nat \ {0}
    /\ Len(track.samples) \in Nat /\ DOMAIN track.samples = 1..Len(track.samples)
    /\ \A i \in DOMAIN track.samples :
          track.samples[i].size \in Nat \ {0} /\ track.samples[i].decode_time \in Nat

IsTracks(tracks) ==
    /\ Len(tracks) \in Nat /\ DOMAIN tracks = 1..Len(tracks)
    /\ \A t \in DOMAIN tracks : IsTrack(tracks[t])

\* The samples that come before a sample.
SamplesBefore(tracks) ==
    [p \in SamplePlaces(tracks) |-> {q \in SamplePlaces(tracks) : ComesBefore(tracks, q, p)}]

LEMMA PlacesAre ==
    ASSUME NEW tracks
    PROVE  \A p \in SamplePlaces(tracks) :
              /\ p = <<p[1], p[2]>> /\ p[1] \in DOMAIN tracks /\ p[2] \in DOMAIN tracks[p[1]].samples
    BY DEF SamplePlaces

LEMMA PlaceIs ==
    ASSUME NEW tracks, NEW t \in DOMAIN tracks, NEW i \in DOMAIN tracks[t].samples
    PROVE  <<t, i>> \in SamplePlaces(tracks)
    BY DEF SamplePlaces

LEMMA PlacesAreFinite ==
    ASSUME NEW tracks, IsTracks(tracks)
    PROVE  IsFiniteSet(SamplePlaces(tracks))
<1> DEFINE OfTrack(t) == {<<t, i>> : i \in DOMAIN tracks[t].samples}
           T == {OfTrack(t) : t \in DOMAIN tracks}
           all == [t \in 1..Len(tracks) |-> OfTrack(t)]
<1>1. Len(tracks) \in Nat /\ DOMAIN tracks = 1..Len(tracks) /\ IsFiniteSet(1..Len(tracks))
    BY FS_Interval DEF IsTracks
<1>2. all \in Surjection(1..Len(tracks), T)
    <2>1. all \in [1..Len(tracks) -> T]
        BY <1>1
    <2>2. \A u \in T : \E t \in 1..Len(tracks) : all[t] = u
        BY <1>1
    <2> HIDE DEF all, T
    <2> QED
        BY <2>1, <2>2 DEF Surjection
<1>3. IsFiniteSet(T)
    <2> HIDE DEF T, all
    <2> QED
        BY <1>1, <1>2, FS_Surjection
<1>4. ASSUME NEW t \in DOMAIN tracks PROVE IsFiniteSet(OfTrack(t))
    <2> DEFINE n == Len(tracks[t].samples)
               place == [i \in 1..n |-> <<t, i>>]
    <2>1. n \in Nat /\ DOMAIN tracks[t].samples = 1..n /\ IsFiniteSet(1..n)
        <3>1. n \in Nat /\ DOMAIN tracks[t].samples = 1..n
            BY DEF IsTracks, IsTrack
        <3> HIDE DEF n
        <3> QED
            BY <3>1, FS_Interval
    <2>2. place \in Surjection(1..n, OfTrack(t))
        <3>1. place \in [1..n -> OfTrack(t)]
            BY <2>1
        <3>2. \A u \in OfTrack(t) : \E i \in 1..n : place[i] = u
            BY <2>1
        <3> HIDE DEF place, n
        <3> QED
            BY <3>1, <3>2 DEF Surjection
    <2> HIDE DEF place, n, OfTrack
    <2> QED
        BY <2>1, <2>2, FS_Surjection
<1>5. SamplePlaces(tracks) = UNION T
    BY DEF SamplePlaces
<1>6. \A u \in T : IsFiniteSet(u)
    BY <1>4
<1> HIDE DEF T
<1> QED
    BY <1>3, <1>5, <1>6, FS_UNION

\* Multiplying keeps the order.
LEMMA TimesKeepsOrder ==
    ASSUME NEW a \in Nat, NEW b \in Nat, NEW c \in Nat, a <= b
    PROVE  a * c \in Nat /\ b * c \in Nat /\ a * c <= b * c
    OBVIOUS

LEMMA TimesKeepsStrictly ==
    ASSUME NEW a \in Nat, NEW b \in Nat, NEW c \in Nat \ {0}, a < b
    PROVE  a * c \in Nat /\ b * c \in Nat /\ a * c < b * c
<1>1. a + 1 <= b /\ a * c \in Nat /\ b * c \in Nat
    OBVIOUS
<1>2. (a + 1) * c <= b * c
    BY <1>1, TimesKeepsOrder
<1>3. (a + 1) * c = a * c + c
    OBVIOUS
<1> DEFINE ac == a * c
           bc == b * c
<1>4. ac \in Nat /\ bc \in Nat /\ ac + c <= bc
    BY <1>1, <1>2, <1>3
<1> HIDE DEF ac, bc
<1>5. ac < bc
    BY <1>4
<1> QED
    BY <1>1, <1>5 DEF ac, bc

\* Fractions a/x, b/y and c/z compared by their products.
LEMMA FractionsAreOrdered ==
    ASSUME NEW a \in Nat, NEW b \in Nat, NEW c \in Nat,
           NEW x \in Nat \ {0}, NEW y \in Nat \ {0}, NEW z \in Nat \ {0},
           a * y <= b * x, b * z <= c * y
    PROVE  /\ a * z <= c * x
           /\ a * y < b * x \/ b * z < c * y => a * z < c * x
<1> DEFINE ay == a * y
           bx == b * x
           bz == b * z
           cy == c * y
           az == a * z
           cx == c * x
<1>1. ay \in Nat /\ bx \in Nat /\ bz \in Nat /\ cy \in Nat /\ az \in Nat /\ cx \in Nat
    OBVIOUS
<1>2. ay * z = az * y /\ bx * z = bz * x /\ cy * x = cx * y
    OBVIOUS
<1>3. ay <= bx /\ bz <= cy
    OBVIOUS
<1>4. (az <= cx) <=> (a * z <= c * x)
    OBVIOUS
<1>5. /\ (az < cx) <=> (a * z < c * x)
      /\ (ay < bx) <=> (a * y < b * x)
      /\ (bz < cy) <=> (b * z < c * y)
    OBVIOUS
<1> HIDE DEF ay, bx, bz, cy, az, cx
<1>6. ay * z <= bx * z /\ bz * x <= cy * x /\ ay * z \in Nat /\ bx * z \in Nat /\ bz * x \in Nat /\ cy * x \in Nat
    BY <1>1, <1>3, TimesKeepsOrder
<1>7. az * y <= cx * y /\ az * y \in Nat /\ cx * y \in Nat
    BY <1>2, <1>6
<1>8. az <= cx
    <2> SUFFICES ASSUME cx < az PROVE FALSE
        BY <1>1
    <2>1. cx * y < az * y
        BY <1>1, TimesKeepsStrictly
    <2> QED
        BY <1>7, <2>1
<1>9. ASSUME ay < bx \/ bz < cy PROVE az < cx
    <2>1. az * y < cx * y
        <3>1. CASE ay < bx
            <4>1. ay * z < bx * z
                BY <1>1, <3>1, TimesKeepsStrictly
            <4> QED
                BY <1>2, <1>6, <4>1
        <3>2. CASE bz < cy
            <4>1. bz * x < cy * x
                BY <1>1, <3>2, TimesKeepsStrictly
            <4> QED
                BY <1>2, <1>6, <4>1
        <3> QED
            BY <1>9, <3>1, <3>2
    <2>2. az # cx
        BY <1>7, <2>1
    <2> QED
        BY <1>1, <1>8, <2>2
<1> QED
    BY <1>4, <1>5, <1>8, <1>9

LEMMA SamplesAreOrdered ==
    ASSUME NEW tracks, IsTracks(tracks)
    PROVE  IsOrder(SamplePlaces(tracks), SamplesBefore(tracks))
<1> DEFINE P == SamplePlaces(tracks)
           time(p) == SampleAt(tracks, p).decode_time
           scale(p) == tracks[p[1]].timescale
<1>1. ASSUME NEW p \in P
      PROVE  /\ p = <<p[1], p[2]>> /\ p[1] \in Int /\ p[2] \in Int
             /\ time(p) \in Nat /\ scale(p) \in Nat \ {0}
    BY PlacesAre DEF IsTracks, IsTrack, SampleAt
<1>2. \A p, q : ComesBefore(tracks, p, q) <=>
                  \/ time(p) * scale(q) < time(q) * scale(p)
                  \/ time(p) * scale(q) = time(q) * scale(p) /\ p[1] < q[1]
                  \/ time(p) * scale(q) = time(q) * scale(p) /\ p[1] = q[1] /\ p[2] < q[2]
    BY DEF ComesBefore
<1>3. \A p, q \in P : time(p) * scale(q) \in Nat
    BY <1>1
<1> HIDE DEF P, time, scale
<1>4. \A p \in P : ~ComesBefore(tracks, p, p)
    BY <1>1, <1>2, <1>3
<1>5. \A p, q \in P : p = q \/ ComesBefore(tracks, p, q) \/ ComesBefore(tracks, q, p)
    <2> SUFFICES ASSUME NEW p \in P, NEW q \in P
                 PROVE  p = q \/ ComesBefore(tracks, p, q) \/ ComesBefore(tracks, q, p)
        OBVIOUS
    <2>1. p[1] = q[1] /\ p[2] = q[2] => p = q
        BY <1>1
    <2>2. p[1] \in Int /\ q[1] \in Int /\ p[2] \in Int /\ q[2] \in Int
        BY <1>1
    <2> QED
        BY <1>2, <1>3, <2>1, <2>2
<1>6. ASSUME NEW p \in P, NEW q \in P, NEW r \in P, ComesBefore(tracks, p, q), ComesBefore(tracks, q, r)
      PROVE  ComesBefore(tracks, p, r)
    <2>1. /\ time(p) \in Nat /\ time(q) \in Nat /\ time(r) \in Nat
          /\ scale(p) \in Nat \ {0} /\ scale(q) \in Nat \ {0} /\ scale(r) \in Nat \ {0}
          /\ p[1] \in Int /\ q[1] \in Int /\ r[1] \in Int /\ p[2] \in Int /\ q[2] \in Int /\ r[2] \in Int
        BY <1>1
    <2> DEFINE pq == time(p) * scale(q)
               qp == time(q) * scale(p)
               qr == time(q) * scale(r)
               rq == time(r) * scale(q)
               pr == time(p) * scale(r)
               rp == time(r) * scale(p)
    <2>2. pq \in Nat /\ qp \in Nat /\ qr \in Nat /\ rq \in Nat /\ pr \in Nat /\ rp \in Nat
        BY <1>3
    <2>3. pq <= qp /\ qr <= rq
        BY <1>2, <1>6, <2>2
    <2>4. pr <= rp /\ (pq < qp \/ qr < rq => pr < rp)
        BY <2>1, <2>3, FractionsAreOrdered
    <2>5. /\ pq < qp \/ p[1] < q[1] \/ (p[1] = q[1] /\ p[2] < q[2])
          /\ qr < rq \/ q[1] < r[1] \/ (q[1] = r[1] /\ q[2] < r[2])
        BY <1>2, <1>6
    <2>6. /\ pr < rp => ComesBefore(tracks, p, r)
          /\ pr = rp /\ p[1] < r[1] => ComesBefore(tracks, p, r)
          /\ pr = rp /\ p[1] = r[1] /\ p[2] < r[2] => ComesBefore(tracks, p, r)
        BY <1>2
    <2> HIDE DEF pq, qp, qr, rq, pr, rp
    <2> QED
        BY <2>1, <2>2, <2>4, <2>5, <2>6
<1> DEFINE B == SamplesBefore(tracks)
<1>7. /\ B \in [P -> SUBSET P]
      /\ \A p \in P : B[p] = {q \in P : ComesBefore(tracks, q, p)}
    BY DEF SamplesBefore, P
<1> HIDE DEF B
<1>8. IsOrder(P, B)
    <2>1. \A p \in P : p \notin B[p]
        BY <1>4, <1>7
    <2>2. \A p, q \in P : p \in B[q] => B[p] \subseteq B[q]
        BY <1>6, <1>7
    <2>3. \A p, q \in P : p = q \/ p \in B[q] \/ q \in B[p]
        BY <1>5, <1>7
    <2> QED
        BY <1>7, <2>1, <2>2, <2>3 DEF IsOrder
<1> QED
    BY <1>8 DEF B, P

LEMMA OrderTakesAll ==
    ASSUME NEW tracks, IsTracks(tracks)
    PROVE  LET P == SamplePlaces(tracks)
               order == InOrder(tracks)
           IN /\ Cardinality(P) \in Nat /\ DOMAIN order = 1..Cardinality(P)
              /\ \A k \in 1..Cardinality(P) :
                    order[k] \in P /\ Cardinality(SamplesBefore(tracks)[order[k]]) = k - 1
              /\ \A p \in P : \E k \in 1..Cardinality(P) : order[k] = p
              /\ \A j, k \in 1..Cardinality(P) : j < k => order[j] \in SamplesBefore(tracks)[order[k]]
              /\ \A k \in 1..Cardinality(P) : k + 1 <= Cardinality(P) =>
                    /\ SamplesBefore(tracks)[order[k + 1]] = SamplesBefore(tracks)[order[k]] \cup {order[k]}
                    /\ order[k] \notin SamplesBefore(tracks)[order[k]]
<1> DEFINE P == SamplePlaces(tracks)
           B == SamplesBefore(tracks)
           N == Cardinality(P)
           order == InOrder(tracks)
<1>1. IsFiniteSet(P) /\ IsOrder(P, B)
    BY PlacesAreFinite, SamplesAreOrdered
<1>2. \A p \in P : B[p] = {q \in P : ComesBefore(tracks, q, p)}
    BY DEF SamplesBefore
<1>3. order = [k \in 1..N |-> CHOOSE p \in P : 1 + Cardinality({q \in P : ComesBefore(tracks, q, p)}) = k]
    BY DEF InOrder
<1> HIDE DEF P, B, order
<1>4. /\ N \in Nat
      /\ \A x \in P : Cardinality(B[x]) \in Nat
      /\ \A k \in 1..N : \E x \in P : Cardinality(B[x]) + 1 = k
      /\ \A x, y \in P : Cardinality(B[x]) < Cardinality(B[y]) <=> x \in B[y]
      /\ \A x, y \in P : Cardinality(B[x]) = Cardinality(B[y]) => x = y
    BY <1>1, EveryPlaceIsTaken
<1>5. \A x \in P : Cardinality(B[x]) + 1 \in 1..N
    BY <1>1, EveryPlaceIsTaken
<1> HIDE DEF N
<1>6. ASSUME NEW k \in 1..N PROVE order[k] \in P /\ Cardinality(B[order[k]]) = k - 1
    <2>1. \E p \in P : 1 + Cardinality({q \in P : ComesBefore(tracks, q, p)}) = k
        <3>1. PICK x \in P : Cardinality(B[x]) + 1 = k
            BY <1>4
        <3>2. 1 + Cardinality(B[x]) = k
            BY <1>4, <3>1
        <3> QED
            BY <1>2, <3>2
    <2>2. order[k] \in P /\ 1 + Cardinality({q \in P : ComesBefore(tracks, q, order[k])}) = k
        BY <1>3, <2>1
    <2>3. 1 + Cardinality(B[order[k]]) = k /\ Cardinality(B[order[k]]) \in Nat
        BY <1>2, <1>4, <2>2
    <2> QED
        BY <2>2, <2>3
<1>7. ASSUME NEW p \in P PROVE \E k \in 1..N : order[k] = p
    <2> DEFINE k == Cardinality(B[p]) + 1
    <2>1. k \in 1..N /\ Cardinality(B[p]) \in Nat
        BY <1>4, <1>5
    <2>2. order[k] \in P /\ Cardinality(B[order[k]]) = k - 1
        BY <1>6, <2>1
    <2>3. Cardinality(B[order[k]]) = Cardinality(B[p])
        BY <2>1, <2>2
    <2>4. order[k] = p
        <3> HIDE DEF k
        <3> QED
            BY <1>4, <2>2, <2>3
    <2> QED
        BY <2>1, <2>4
<1>8. \A j, k \in 1..N : j < k => order[j] \in B[order[k]]
    <2> SUFFICES ASSUME NEW j \in 1..N, NEW k \in 1..N, j < k PROVE order[j] \in B[order[k]]
        OBVIOUS
    <2>1. /\ order[j] \in P /\ order[k] \in P
          /\ Cardinality(B[order[j]]) = j - 1 /\ Cardinality(B[order[k]]) = k - 1
        BY <1>6
    <2>2. Cardinality(B[order[j]]) < Cardinality(B[order[k]])
        BY <1>4, <2>1
    <2> QED
        BY <1>4, <2>1, <2>2
<1>9. ASSUME NEW k \in 1..N, k + 1 <= N
      PROVE  B[order[k + 1]] = B[order[k]] \cup {order[k]} /\ order[k] \notin B[order[k]]
    <2>1. k + 1 \in 1..N
        BY <1>4, <1>9
    <2>2. /\ order[k] \in P /\ order[k + 1] \in P
          /\ Cardinality(B[order[k]]) = k - 1 /\ Cardinality(B[order[k + 1]]) = (k + 1) - 1
        BY <1>6, <2>1
    <2>3. Cardinality(B[order[k + 1]]) = Cardinality(B[order[k]]) + 1
        BY <1>4, <2>2
    <2> QED
        BY <1>1, <2>2, <2>3, Neighbours
<1>10. DOMAIN order = 1..N
    BY <1>3
<1> QED
    BY <1>4, <1>6, <1>7, <1>8, <1>9, <1>10 DEF P, B, order, N

\* What lies before a sample in the file.
LEMMA OffsetsAddUp ==
    ASSUME NEW tracks, IsTracks(tracks), NEW start \in Nat, NEW p \in SamplePlaces(tracks)
    PROVE  /\ OffsetIn(tracks, start, p) \in Nat /\ start <= OffsetIn(tracks, start, p)
           /\ SampleAt(tracks, p).size \in Nat \ {0}
           /\ SamplesBefore(tracks)[p] = {} => OffsetIn(tracks, start, p) = start
           /\ \A q \in SamplePlaces(tracks) :
                 /\ SamplesBefore(tracks)[q] = SamplesBefore(tracks)[p] \cup {p} /\ p \notin SamplesBefore(tracks)[p] =>
                       OffsetIn(tracks, start, q) = OffsetIn(tracks, start, p) + SampleAt(tracks, p).size
                 /\ p \in SamplesBefore(tracks)[q] =>
                       OffsetIn(tracks, start, p) + SampleAt(tracks, p).size <= OffsetIn(tracks, start, q)
<1> DEFINE P == SamplePlaces(tracks)
           B == SamplesBefore(tracks)
           size == [q \in P |-> SampleAt(tracks, q).size]
           sum(S) == SumFunctionOnSet(size, S)
<1>1. \A q \in P : /\ B[q] \in SUBSET P
                   /\ OffsetIn(tracks, start, q) = start + sum(B[q])
                   /\ size[q] = SampleAt(tracks, q).size
    BY DEF OffsetIn, SamplesBefore
<1>2. \A q \in P : SampleAt(tracks, q).size \in Nat \ {0}
    BY PlacesAre DEF IsTracks, IsTrack, SampleAt
<1>3. IsFiniteSet(P) /\ IsOrder(P, B)
    BY PlacesAreFinite, SamplesAreOrdered
<1>4. \A q \in P : size[q] \in Nat /\ size[q] \in Int /\ size[q] # 0
    BY <1>1, <1>2
<1> HIDE DEF P, B, size
<1>5. \A S \in SUBSET P : IsFiniteSet(S) /\ sum(S) \in Nat
    <2> SUFFICES ASSUME NEW S \in SUBSET P PROVE IsFiniteSet(S) /\ sum(S) \in Nat
        OBVIOUS
    <2>1. IsFiniteSet(S) /\ \A q \in S : size[q] \in Nat
        BY <1>3, <1>4, FS_Subset
    <2> QED
        BY <2>1, SumIsNat
<1>6. ASSUME NEW S \in SUBSET P, NEW x \in S PROVE sum(S) = size[x] + sum(S \ {x})
    <2>1. IsFiniteSet(S) /\ \A q \in S : size[q] \in Int
        BY <1>4, <1>5
    <2> QED
        BY <2>1, SumWith
<1>7. ASSUME NEW S \in SUBSET P, NEW T \in SUBSET S PROVE sum(T) <= sum(S)
    <2>1. IsFiniteSet(S) /\ \A q \in S : size[q] \in Int
        BY <1>4, <1>5
    <2>2. sum(S) = sum(T) + sum(S \ T)
        BY <2>1, SumSplits
    <2>3. sum(S) \in Nat /\ sum(T) \in Nat /\ sum(S \ T) \in Nat
        BY <1>5
    <2> HIDE DEF sum
    <2> QED
        BY <2>2, <2>3
<1>8. p \in P
    BY DEF P
<1>9. ASSUME B[p] = {} PROVE OffsetIn(tracks, start, p) = start
    <2>1. sum({}) = 0
        BY SumOfNone
    <2> HIDE DEF sum
    <2> QED
        BY <1>1, <1>8, <1>9, <2>1
<1>10. ASSUME NEW q \in P, B[q] = B[p] \cup {p}, p \notin B[p]
       PROVE  OffsetIn(tracks, start, q) = OffsetIn(tracks, start, p) + SampleAt(tracks, p).size
    <2>1. B[q] \in SUBSET P /\ p \in B[q] /\ B[q] \ {p} = B[p]
        BY <1>1, <1>10
    <2>2. sum(B[q]) = size[p] + sum(B[p])
        BY <1>6, <2>1
    <2>3. sum(B[p]) \in Nat /\ sum(B[q]) \in Nat /\ size[p] \in Nat
        BY <1>1, <1>4, <1>5, <1>8
    <2> HIDE DEF sum
    <2> QED
        BY <1>1, <1>8, <2>2, <2>3
<1>11. ASSUME NEW q \in P, p \in B[q]
       PROVE  OffsetIn(tracks, start, p) + SampleAt(tracks, p).size <= OffsetIn(tracks, start, q)
    <2>1. B[q] \in SUBSET P /\ B[p] \in SUBSET (B[q] \ {p}) /\ B[q] \ {p} \in SUBSET P
        BY <1>1, <1>3, <1>8, <1>11 DEF IsOrder
    <2>2. sum(B[q]) = size[p] + sum(B[q] \ {p})
        BY <1>6, <1>11, <2>1
    <2>3. sum(B[p]) <= sum(B[q] \ {p})
        BY <1>7, <2>1
    <2>4. sum(B[p]) \in Nat /\ sum(B[q]) \in Nat /\ sum(B[q] \ {p}) \in Nat /\ size[p] \in Nat
        BY <1>1, <1>4, <1>5, <1>8, <2>1
    <2> HIDE DEF sum
    <2> QED
        BY <1>1, <1>8, <2>2, <2>3, <2>4
<1>12. OffsetIn(tracks, start, p) \in Nat /\ start <= OffsetIn(tracks, start, p)
    <2>1. sum(B[p]) \in Nat
        BY <1>1, <1>5, <1>8
    <2> HIDE DEF sum
    <2> QED
        BY <1>1, <1>8, <2>1
<1> QED
    BY <1>2, <1>8, <1>9, <1>10, <1>11, <1>12 DEF P, B

-----------------------------------------------------------------------------
(* Folds over sequences.                                                   *)

\* What a fold of n elements has reached after those of s, when G takes the
\* number of an element and what was reached before it.
FoldStep(G, base, s, g) == IF s = {} THEN base ELSE G[<<Max(s), g[s \ {Max(s)}]>>]

IsStep(G, n, V) == \A i \in 1..n, v \in V : G[<<i, v>>] \in V

Folds(G, base, n, V, g) ==
    g \in [SUBSET (1..n) -> V] /\ \A s \in SUBSET (1..n) : g[s] = FoldStep(G, base, s, g)

LEMMA GreatestExists ==
    ASSUME NEW n \in Nat, NEW s \in SUBSET (1..n), s # {}
    PROVE  Max(s) \in s
<1> DEFINE flip == {n + 1 - i : i \in s}
<1>1. flip \in SUBSET (1..n) /\ flip # {}
    <2>1. \A i \in s : n + 1 - i \in 1..n
        OBVIOUS
    <2> QED
        BY <2>1
<1>2. Min(flip) \in flip /\ \A i \in flip : Min(flip) <= i
    <2> HIDE DEF flip
    <2> QED
        BY <1>1, LeastExists
<1>3. PICK m \in s : Min(flip) = n + 1 - m
    BY <1>2
<1>4. \A i \in s : m >= i
    <2> SUFFICES ASSUME NEW i \in s PROVE m >= i
        OBVIOUS
    <2>1. n + 1 - i \in flip
        OBVIOUS
    <2>2. n + 1 - m <= n + 1 - i
        <3> HIDE DEF flip
        <3> QED
            BY <1>2, <1>3, <2>1
    <2> QED
        BY <2>2
<1>5. \E x \in s : \A y \in s : x >= y
    BY <1>4
<1> QED
    BY <1>5 DEF Max

LEMMA FoldsExist ==
    ASSUME NEW n \in Nat, NEW V, NEW base \in V, NEW G, IsStep(G, n, V)
    PROVE  \E g : Folds(G, base, n, V, g)
\* Up to m elements.
<1> DEFINE S == 1..n
           UpTo(g, m) == /\ g \in [SUBSET S -> V]
                         /\ \A s \in SUBSET S : Cardinality(s) <= m => g[s] = FoldStep(G, base, s, g)
           Bad == {m \in 1..n : ~\E g : UpTo(g, m)}
<1>1. /\ \A s \in SUBSET S : IsFiniteSet(s) /\ Cardinality(s) \in Nat /\ Cardinality(s) <= n
      /\ \A s \in SUBSET S : Cardinality(s) = 0 <=> s = {}
    <2>1. IsFiniteSet(S) /\ Cardinality(S) = n
        <3>1. 1 \in Int /\ n \in Int
            OBVIOUS
        <3>2. IsFiniteSet(1..n) /\ Cardinality(1..n) = IF 1 > n THEN 0 ELSE n - 1 + 1
            BY <3>1, FS_Interval
        <3> QED
            BY <3>2
    <2> HIDE DEF S
    <2> QED
        BY <2>1, FS_Subset, FS_CardinalityType, FS_EmptySet
<1>2. \A s \in SUBSET S : s # {} => /\ Max(s) \in s /\ Max(s) \in S /\ s \ {Max(s)} \in SUBSET S
                                    /\ Cardinality(s \ {Max(s)}) = Cardinality(s) - 1
    <2> SUFFICES ASSUME NEW s \in SUBSET S, s # {}
                 PROVE  /\ Max(s) \in s /\ Max(s) \in S /\ s \ {Max(s)} \in SUBSET S
                        /\ Cardinality(s \ {Max(s)}) = Cardinality(s) - 1
        OBVIOUS
    <2>1. Max(s) \in s
        BY GreatestExists
    <2> HIDE DEF S
    <2>2. Cardinality(s \ {Max(s)}) = Cardinality(s) - 1
        BY <1>1, <2>1, FS_RemoveElement
    <2> QED
        BY <2>1, <2>2
<1> HIDE DEF S
<1>3. \E g : UpTo(g, 0)
    <2> DEFINE z == [s \in SUBSET S |-> base]
    <2>1. z \in [SUBSET S -> V] /\ \A s \in SUBSET S : z[s] = base
        OBVIOUS
    <2> HIDE DEF z
    <2>2. \A s \in SUBSET S : Cardinality(s) <= 0 => s = {}
        BY <1>1
    <2>3. \A s : s = {} => FoldStep(G, base, s, z) = base
        BY DEF FoldStep
    <2>4. UpTo(z, 0)
        BY <2>1, <2>2, <2>3
    <2> HIDE DEF UpTo
    <2> QED
        BY <2>4
<1>4. ASSUME NEW m \in 0..n, m + 1 \in 1..n, NEW g, UpTo(g, m) PROVE \E h : UpTo(h, m + 1)
    <2> DEFINE h == [s \in SUBSET S |-> IF Cardinality(s) = m + 1 THEN FoldStep(G, base, s, g) ELSE g[s]]
    <2>1. \A s \in SUBSET S : FoldStep(G, base, s, g) \in V
        BY <1>2, <1>4 DEF FoldStep, IsStep, S
    <2>2. h \in [SUBSET S -> V]
        BY <1>4, <2>1
    <2>3. ASSUME NEW s \in SUBSET S, Cardinality(s) <= m + 1
          PROVE  h[s] = FoldStep(G, base, s, h)
        <3>1. FoldStep(G, base, s, h) = FoldStep(G, base, s, g)
            <4>1. CASE s = {}
                BY <4>1 DEF FoldStep
            <4>2. CASE s # {}
                <5>1. Cardinality(s \ {Max(s)}) # m + 1 /\ s \ {Max(s)} \in SUBSET S
                    BY <1>1, <1>2, <2>3, <4>2
                <5>2. h[s \ {Max(s)}] = g[s \ {Max(s)}]
                    BY <5>1
                <5> HIDE DEF h
                <5> QED
                    BY <4>2, <5>2 DEF FoldStep
            <4> QED
                BY <4>1, <4>2
        <3>2. CASE Cardinality(s) = m + 1
            BY <3>1, <3>2
        <3>3. CASE Cardinality(s) # m + 1
            <4>1. Cardinality(s) <= m
                BY <1>1, <2>3, <3>3
            <4>2. h[s] = g[s]
                BY <3>3
            <4>3. g[s] = FoldStep(G, base, s, g)
                BY <1>4, <4>1
            <4> QED
                BY <3>1, <4>2, <4>3
        <3> QED
            BY <3>2, <3>3
    <2>4. UpTo(h, m + 1)
        BY <2>2, <2>3
    <2> HIDE DEF h, UpTo
    <2> QED
        BY <2>4
<1>5. Bad = {}
    <2> SUFFICES ASSUME Bad # {} PROVE FALSE
        OBVIOUS
    <2>1. Bad \in SUBSET (1..n)
        OBVIOUS
    <2> DEFINE m == Min(Bad)
    <2>2. m \in Bad /\ \A k \in Bad : m <= k
        <3> HIDE DEF Bad
        <3> QED
            BY <2>1, LeastExists
    <2> HIDE DEF m, UpTo
    <2>3. m \in 1..n /\ ~\E g : UpTo(g, m)
        BY <2>2
    <2>4. \E g : UpTo(g, m - 1)
        <3>1. CASE m = 1
            <4>1. m - 1 = 0
                BY <3>1
            <4> QED
                BY <1>3, <4>1
        <3>2. CASE m # 1
            <4>1. m - 1 \in 1..n /\ m - 1 \notin Bad
                BY <2>2, <2>3, <3>2
            <4> QED
                BY <4>1
        <3> QED
            BY <3>1, <3>2
    <2>5. m - 1 \in 0..n /\ (m - 1) + 1 = m
        BY <2>3
    <2> QED
        BY <1>4, <2>3, <2>4, <2>5
<1>6. \E g : UpTo(g, n)
    <2> HIDE DEF UpTo
    <2>1. CASE n = 0
        BY <1>3, <2>1
    <2>2. CASE n # 0
        <3>1. n \in 1..n /\ n \notin Bad
            BY <1>5, <2>2
        <3> QED
            BY <3>1
    <2> QED
        BY <2>1, <2>2
<1>7. PICK g : UpTo(g, n)
    BY <1>6
<1>8. Folds(G, base, n, V, g)
    BY <1>1, <1>7 DEF Folds, S
<1> QED
    BY <1>8

\* run_table adds the values one after the other to the entries so far.
WithValue(runs, v) ==
    IF runs # <<>> /\ Last(runs)[2] = v
    THEN Append(Front(runs), <<Last(runs)[1] + 1, v>>)
    ELSE Append(runs, <<1, v>>)

LEMMA WithValueIsTable ==
    ASSUME NEW All, NEW runs \in Seq(Nat \X All), NEW v \in All
    PROVE  WithValue(runs, v) \in Seq(Nat \X All)
<1> DEFINE E == Nat \X All
<1>1. CASE runs # <<>> /\ Last(runs)[2] = v
    <2>1. Len(runs) \in Nat \ {0} /\ Last(runs) = runs[Len(runs)] /\ Front(runs) = SubSeq(runs, 1, Len(runs) - 1)
        BY <1>1 DEF Last, Front
    <2>2. Last(runs) \in E
        <3> HIDE DEF E
        <3> QED
            BY <2>1 DEF E
    <2>3. Front(runs) \in Seq(E)
        <3>1. runs \in Seq(E)
            OBVIOUS
        <3> HIDE DEF E
        <3> QED
            BY <2>1, <3>1
    <2>4. <<Last(runs)[1] + 1, v>> \in E
        BY <2>2
    <2>5. WithValue(runs, v) = Append(Front(runs), <<Last(runs)[1] + 1, v>>)
        BY <1>1 DEF WithValue
    <2> HIDE DEF E
    <2> QED
        BY <2>3, <2>4, <2>5 DEF E
<1>2. CASE ~(runs # <<>> /\ Last(runs)[2] = v)
    <2>1. WithValue(runs, v) = Append(runs, <<1, v>>) /\ <<1, v>> \in E
        BY <1>2 DEF WithValue
    <2> HIDE DEF E
    <2> QED
        BY <2>1 DEF E
<1> QED
    BY <1>1, <1>2

\* r[i] is the table of the first i values.
TakesIn(values, n, All, r) ==
    /\ r \in [0..n -> Seq(Nat \X All)]
    /\ r[0] = <<>>
    /\ \A i \in 1..n : r[i] = WithValue(r[i - 1], values[i])

AreIn(values, n, All) == \A i \in 1..n : values[i] \in All

LEMMA RunTableUnfolds ==
    ASSUME NEW values, NEW n \in Nat, DOMAIN values = 1..n, NEW All, AreIn(values, n, All)
    PROVE  \E r : TakesIn(values, n, All, r) /\ run_table(values) = r[n]
<1> DEFINE AddValue(runs, v) ==
               IF runs # <<>> /\ Last(runs)[2] = v
               THEN Append(Front(runs), <<Last(runs)[1] + 1, v>>)
               ELSE Append(runs, <<1, v>>)
           V == Seq(Nat \X All)
           Step(s, g) == IF s = {} THEN <<>> ELSE WithValue(g[s \ {Max(s)}], values[Max(s)])
           G == [p \in (1..n) \X V |-> WithValue(p[2], values[p[1]])]
           it == CHOOSE g : g = [s \in SUBSET (1..n) |-> IF s = {} THEN <<>>
                                                       ELSE AddValue(g[s \ {Max(s)}], values[Max(s)])]
<1>1. run_table(values) = it[1..n]
    BY DEF run_table, FoldLeft, MapThenFoldSet
<1>2. IsStep(G, n, V) /\ <<>> \in V
    BY WithValueIsTable DEF IsStep, AreIn
<1>3. \E g : g = [s \in SUBSET (1..n) |-> Step(s, g)]
    <2> DEFINE base == <<>>
    <2>1. base \in V
        BY <1>2
    <2> HIDE DEF V
    <2>2. \A i \in 1..n, runs \in V : G[<<i, runs>>] = WithValue(runs, values[i])
        BY SMTT(30)
    <2> HIDE DEF G, base
    <2>3. PICK g : Folds(G, base, n, V, g)
        BY <1>2, <2>1, FoldsExist
    <2>4. ASSUME NEW s \in SUBSET (1..n) PROVE g[s] = Step(s, g)
        <3>1. g[s] = FoldStep(G, base, s, g)
            BY <2>3 DEF Folds
        <3>2. CASE s = {}
            BY <3>1, <3>2 DEF FoldStep, base
        <3>3. CASE s # {}
            <4>1. Max(s) \in 1..n
                BY <3>3, GreatestExists
            <4>2. g[s \ {Max(s)}] \in V
                BY <2>3 DEF Folds
            <4>3. G[<<Max(s), g[s \ {Max(s)}]>>] = WithValue(g[s \ {Max(s)}], values[Max(s)])
                BY <2>2, <4>1, <4>2
            <4> QED
                BY <3>1, <3>3, <4>3 DEF FoldStep
        <3> QED
            BY <3>2, <3>3
    <2>5. g = [s \in SUBSET (1..n) |-> Step(s, g)]
        <3>1. g \in [SUBSET (1..n) -> V]
            BY <2>3 DEF Folds
        <3> HIDE DEF Step
        <3> QED
            BY <2>4, <3>1
    <2> QED
        BY <2>5
<1>4. it = [s \in SUBSET (1..n) |-> Step(s, it)]
    BY <1>3 DEF WithValue
<1> HIDE DEF it, V, G
<1>5. it[{}] = <<>>
    BY <1>4
<1>6. ASSUME NEW i \in 1..n PROVE it[1..i] = WithValue(it[1..(i - 1)], values[i])
    <2>1. 1..i \in SUBSET (1..n) /\ 1..i # {} /\ (1..i) \ {i} = 1..(i - 1)
        OBVIOUS
    <2>2. Max(1..i) = i
        <3>1. Max(1..i) \in 1..i /\ \A j \in 1..i : Max(1..i) >= j
            <4>1. \E x \in 1..i : \A y \in 1..i : x >= y
                <5>1. i \in 1..i /\ \A y \in 1..i : i >= y
                    OBVIOUS
                <5> QED
                    BY <5>1
            <4> QED
                BY <4>1 DEF Max
        <3> QED
            BY <3>1
    <2>3. it[1..i] = Step(1..i, it)
        BY <1>4, <2>1
    <2> QED
        BY <2>1, <2>2, <2>3
<1> DEFINE r == [i \in 0..n |-> it[1..i]]
           Bad == {i \in 1..n : it[1..i] \notin V}
<1>7. 1..0 = {}
    OBVIOUS
<1>8. Bad = {}
    <2> SUFFICES ASSUME Bad # {} PROVE FALSE
        OBVIOUS
    <2>1. Bad \in SUBSET (1..n)
        OBVIOUS
    <2>2. PICK m \in 1..n : it[1..m] \notin V /\ \A k \in 1..n : k < m => it[1..k] \in V
        <3> DEFINE m == Min(Bad)
        <3>1. m \in Bad /\ \A k \in Bad : m <= k
            <4> HIDE DEF Bad
            <4> QED
                BY <2>1, LeastExists
        <3> HIDE DEF m
        <3>2. m \in 1..n /\ it[1..m] \notin V
            BY <3>1
        <3>3. \A k \in 1..n : k < m => k \notin Bad
            <4> HIDE DEF Bad
            <4> QED
                BY <3>1, <3>2
        <3> QED
            BY <3>2, <3>3
    <2>3. it[1..(m - 1)] \in V
        <3>1. CASE m = 1
            BY <1>2, <1>5, <1>7, <3>1
        <3>2. CASE m # 1
            <4>1. m - 1 \in 1..n /\ m - 1 < m
                BY <3>2
            <4> QED
                BY <2>2, <4>1
        <3> QED
            BY <3>1, <3>2
    <2>4. WithValue(it[1..(m - 1)], values[m]) \in V
        BY <2>3, WithValueIsTable DEF V, AreIn
    <2> QED
        BY <1>6, <2>2, <2>4
<1>9. ASSUME NEW i \in 0..n PROVE r[i] \in V
    <2>1. CASE i = 0
        BY <1>2, <1>5, <1>7, <2>1
    <2>2. CASE i # 0
        <3>1. i \in 1..n /\ i \notin Bad
            BY <1>8, <2>2
        <3> QED
            BY <3>1
    <2> QED
        BY <2>1, <2>2
<1>10. r \in [0..n -> V]
    BY <1>9
<1>11. r[0] = <<>> /\ run_table(values) = r[n]
    BY <1>1, <1>5, <1>7
<1>12. ASSUME NEW i \in 1..n PROVE r[i] = WithValue(r[i - 1], values[i])
    <2>1. i \in 0..n /\ i - 1 \in 0..n
        OBVIOUS
    <2> QED
        BY <1>6, <2>1
<1> HIDE DEF r
<1>13. TakesIn(values, n, All, r)
    BY <1>10, <1>11, <1>12 DEF V, TakesIn
<1> QED
    BY <1>11, <1>13

-----------------------------------------------------------------------------
(* Lists: the keyframes and the tables of a track.                         *)

LEMMA LenOf ==
    ASSUME NEW n \in Nat, NEW f, f = [i \in 1..n |-> f[i]]
    PROVE  Len(f) = n /\ DOMAIN f = 1..n
<1> DEFINE All == {f[i] : i \in 1..n}
<1>1. f \in [1..n -> All]
    OBVIOUS
<1>2. f \in Seq(All)
    <2> HIDE DEF All
    <2> QED
        BY <1>1
<1>3. DOMAIN f = 1..n
    BY <1>1
<1> HIDE DEF All
<1>4. Len(f) \in Nat /\ DOMAIN f = 1..Len(f)
    BY <1>2
<1> QED
    BY <1>3, <1>4

ListsInOrder(keys, K) ==
    LET m == Cardinality(K)
    IN /\ m \in Nat /\ DOMAIN keys = 1..m /\ Len(keys) = m
       /\ \A k \in 1..m : keys[k] \in K
       /\ \A i \in K : \E k \in 1..m : keys[k] = i
       /\ \A j, k \in 1..m : j < k => keys[j] < keys[k]

\* Each keyframe is listed once, in order.
LEMMA KeyframesInOrder ==
    ASSUME NEW track, IsTrack(track)
    PROVE  ListsInOrder(Keyframes(track), {i \in DOMAIN track.samples : track.samples[i].sync})
<1> DEFINE K == {i \in DOMAIN track.samples : track.samples[i].sync}
           B == [i \in K |-> {j \in K : j < i}]
           keys == Keyframes(track)
           m == Cardinality(K)
           n == Len(track.samples)
<1>1. n \in Nat /\ K \in SUBSET (1..n) /\ IsFiniteSet(K)
    <2>1. n \in Nat /\ DOMAIN track.samples = 1..n
        BY DEF IsTrack
    <2>2. K \in SUBSET (1..n)
        BY <2>1
    <2> HIDE DEF K, n
    <2>3. IsFiniteSet(1..n)
        BY <2>1, FS_Interval
    <2> QED
        BY <2>1, <2>2, <2>3, FS_Subset
<1>2. keys = [k \in 1..m |-> CHOOSE i \in K : Cardinality({j \in K : j < i}) = k - 1]
    BY DEF Keyframes
<1> HIDE DEF K, n, keys
<1>3. IsOrder(K, B)
    <2>1. \A i \in K : i \in Nat
        BY <1>1
    <2>2. B \in [K -> SUBSET K]
        OBVIOUS
    <2>3. \A i \in K : i \notin B[i]
        BY <2>1
    <2>4. \A i, j \in K : i \in B[j] => B[i] \subseteq B[j]
        BY <2>1
    <2>5. \A i, j \in K : i = j \/ i \in B[j] \/ j \in B[i]
        BY <2>1
    <2> QED
        BY <2>2, <2>3, <2>4, <2>5, Zenon DEF IsOrder
<1>4. /\ m \in Nat
      /\ \A i \in K : Cardinality(B[i]) \in Nat /\ Cardinality(B[i]) + 1 \in 1..m
      /\ \A k \in 1..m : \E i \in K : Cardinality(B[i]) + 1 = k
      /\ \A i, j \in K : Cardinality(B[i]) < Cardinality(B[j]) <=> i \in B[j]
      /\ \A i, j \in K : Cardinality(B[i]) = Cardinality(B[j]) => i = j
    <2> HIDE DEF B
    <2> QED
        BY <1>1, <1>3, EveryPlaceIsTaken
<1>5. \A i, j \in K : i \in B[j] => i < j
    OBVIOUS
<1>6. ASSUME NEW k \in 1..m PROVE keys[k] \in K /\ Cardinality(B[keys[k]]) = k - 1
    <2>1. keys[k] = CHOOSE i \in K : Cardinality(B[i]) = k - 1
        <3>1. \A i \in K : B[i] = {j \in K : j < i}
            OBVIOUS
        <3> HIDE DEF B
        <3>2. keys[k] = CHOOSE i \in K : Cardinality({j \in K : j < i}) = k - 1
            BY <1>2
        <3> QED
            BY <3>1, <3>2
    <2>2. \E i \in K : Cardinality(B[i]) = k - 1
        <3> HIDE DEF B, m
        <3>1. PICK i \in K : Cardinality(B[i]) + 1 = k
            BY <1>4
        <3> QED
            BY <1>4, <3>1
    <2> HIDE DEF B
    <2> QED
        BY <2>1, <2>2
<1> HIDE DEF B, m
<1>7. ASSUME NEW i \in K PROVE \E k \in 1..m : keys[k] = i
    <2> DEFINE k == Cardinality(B[i]) + 1
    <2>1. k \in 1..m /\ Cardinality(B[i]) \in Nat
        BY <1>4
    <2>2. keys[k] \in K /\ Cardinality(B[keys[k]]) = k - 1
        BY <1>6, <2>1
    <2>3. Cardinality(B[keys[k]]) = Cardinality(B[i])
        BY <2>1, <2>2
    <2>4. keys[k] = i
        BY <1>4, <2>2, <2>3
    <2> QED
        BY <2>1, <2>4
<1>8. ASSUME NEW j \in 1..m, NEW k \in 1..m, j < k PROVE keys[j] < keys[k]
    <2>1. /\ keys[j] \in K /\ Cardinality(B[keys[j]]) = j - 1
          /\ keys[k] \in K /\ Cardinality(B[keys[k]]) = k - 1
        BY <1>6
    <2>2. Cardinality(B[keys[j]]) < Cardinality(B[keys[k]])
        BY <1>4, <1>8, <2>1
    <2> QED
        BY <1>4, <1>5, <2>1, <2>2
<1>9. DOMAIN keys = 1..m /\ Len(keys) = m
    <2> DEFINE Value(x) == CHOOSE i \in K : Cardinality({j \in K : j < i}) = x - 1
    <2>1. keys = [k \in 1..m |-> Value(k)]
        BY <1>2
    <2> HIDE DEF Value
    <2>2. keys = [k \in 1..m |-> keys[k]]
        BY <2>1
    <2> QED
        BY <1>4, <2>2, LenOf
<1>10. ListsInOrder(keys, K)
    BY <1>4, <1>6, <1>7, <1>8, <1>9 DEF m, ListsInOrder
<1> QED
    BY <1>10 DEF K, keys

-----------------------------------------------------------------------------
(* Tables of run lengths read back.                                        *)

\* e counts the values of the first entries.
CountsUp(runs, e) ==
    /\ e \in [0..Len(runs) -> Nat] /\ e[0] = 0
    /\ \A k \in 1..Len(runs) : e[k] = e[k - 1] + runs[k][1]

\* The entries stand for the first n values.
StandsFor(runs, values, n, e) ==
    /\ CountsUp(runs, e) /\ e[Len(runs)] = n
    /\ \A j \in 1..n : \E k \in 1..Len(runs) : e[k - 1] < j /\ j <= e[k] /\ runs[k][2] = values[j]

\* The value is the last entry's.
Lengthens(runs, v) == Len(runs) > 0 /\ runs[Len(runs)][2] = v

LEMMA WithValueIs ==
    ASSUME NEW All, NEW runs \in Seq(Nat \X All), NEW v
    PROVE  LET m == Len(runs)
               w == WithValue(runs, v)
           IN /\ Lengthens(runs, v) =>
                   /\ Len(w) = m /\ w[m] = <<runs[m][1] + 1, v>>
                   /\ \A k \in 1..(m - 1) : w[k] = runs[k]
              /\ ~Lengthens(runs, v) =>
                   /\ Len(w) = m + 1 /\ w[m + 1] = <<1, v>>
                   /\ \A k \in 1..m : w[k] = runs[k]
<1> DEFINE E == Nat \X All
           m == Len(runs)
           w == WithValue(runs, v)
<1>1. m \in Nat /\ runs \in Seq(E) /\ (runs # <<>> <=> m > 0) /\ Last(runs) = runs[m]
    <2>1. runs \in Seq(E)
        OBVIOUS
    <2> HIDE DEF E
    <2> QED
        BY <2>1 DEF Last
<1> HIDE DEF E
<1>2. CASE Lengthens(runs, v)
    <2>0. m > 0 /\ runs[m][2] = v
        BY <1>2 DEF Lengthens
    <2>1. w = Append(Front(runs), <<runs[m][1] + 1, v>>)
        BY <1>1, <2>0 DEF WithValue
    <2>2. Front(runs) \in Seq(E) /\ Len(Front(runs)) = m - 1 /\ \A k \in 1..(m - 1) : Front(runs)[k] = runs[k]
        <3>1. Front(runs) = SubSeq(runs, 1, m - 1)
            BY DEF Front
        <3>2. /\ 1 \in Int /\ m - 1 \in Int /\ m - 1 - 1 + 1 = m - 1 /\ \A k \in 1..(m - 1) : 1 + k - 1 = k
              /\ (1 <= m - 1 \/ m - 1 = 0)
            <4> PICK a \in Nat : a = m /\ a > 0
                BY <1>1, <2>0
            <4>1. /\ 1 \in Int /\ a - 1 \in Int /\ a - 1 - 1 + 1 = a - 1 /\ \A k \in 1..(a - 1) : 1 + k - 1 = k
                  /\ (1 <= a - 1 \/ a - 1 = 0)
                BY ONLY a \in Nat, a > 0
            <4> QED
                BY <4>1
        <3>3. \A k \in 1..(m - 1) : runs[k] \in E
            <4>1. \A k \in 1..(m - 1) : k \in 1..m
                BY <1>1
            <4> QED
                BY <1>1, <4>1
        <3>4. /\ SubSeq(runs, 1, m - 1) \in Seq(E)
              /\ Len(SubSeq(runs, 1, m - 1)) = IF 1 <= m - 1 THEN m - 1 - 1 + 1 ELSE 0
              /\ \A k \in 1..(m - 1 - 1 + 1) : SubSeq(runs, 1, m - 1)[k] = runs[1 + k - 1]
            BY <3>2, <3>3, SubSeqProperties
        <3> QED
            BY <3>1, <3>2, <3>4
    <2> HIDE DEF w
    <2>3. Len(w) = m /\ w[m] = <<runs[m][1] + 1, v>> /\ \A k \in 1..(m - 1) : w[k] = runs[k]
        BY <1>1, <2>0, <2>1, <2>2
    <2> QED
        BY <1>2, <2>3 DEF w
<1>3. CASE ~Lengthens(runs, v)
    <2>1. w = Append(runs, <<1, v>>)
        BY <1>1, <1>3 DEF WithValue, Lengthens
    <2> HIDE DEF w
    <2>2. Len(w) = m + 1 /\ w[m + 1] = <<1, v>> /\ \A k \in 1..m : w[k] = runs[k]
        BY <1>1, <2>1
    <2> QED
        BY <1>3, <2>2 DEF w
<1> QED
    BY <1>2, <1>3

\* One value more.
LEMMA StandsForOneMore ==
    ASSUME NEW All, NEW runs \in Seq(Nat \X All), NEW values, NEW n \in Nat, NEW e, StandsFor(runs, values, n, e)
    PROVE  \E f : StandsFor(WithValue(runs, values[n + 1]), values, n + 1, f)
<1> DEFINE v == values[n + 1]
           w == WithValue(runs, v)
           m == Len(runs)
<1>1. /\ m \in Nat /\ e \in [0..m -> Nat] /\ e[0] = 0 /\ e[m] = n
      /\ \A k \in 1..m : e[k] = e[k - 1] + runs[k][1] /\ runs[k][1] \in Nat
      /\ \A j \in 1..n : \E k \in 1..m : e[k - 1] < j /\ j <= e[k] /\ runs[k][2] = values[j]
    <2> DEFINE E == Nat \X All
    <2>1. m \in Nat /\ \A k \in 1..m : runs[k] \in E
        <3>1. runs \in Seq(E)
            OBVIOUS
        <3> HIDE DEF E
        <3> QED
            BY <3>1
    <2>2. \A k \in 1..m : runs[k][1] \in Nat
        BY <2>1
    <2> QED
        BY <2>1, <2>2 DEF StandsFor, CountsUp
<1>2. CASE Lengthens(runs, v)
    <2>1. m > 0 /\ runs[m][2] = v
        BY <1>2 DEF Lengthens
    <2>2. Len(w) = m /\ w[m] = <<runs[m][1] + 1, v>> /\ \A k \in 1..(m - 1) : w[k] = runs[k]
        BY <1>2, WithValueIs
    <2> DEFINE f == [k \in 0..m |-> IF k = m THEN n + 1 ELSE e[k]]
    <2>3. f \in [0..m -> Nat] /\ f[0] = 0 /\ f[m] = n + 1 /\ \A k \in 0..m : k # m => f[k] = e[k]
        BY <1>1, <2>1
    <2> PICK c \in Nat : c = runs[m][1]
        BY <1>1, <2>1
    <2> HIDE DEF f, w
    <2>4. /\ w[m][1] = c + 1 /\ w[m][2] = v
          /\ m \in 1..m /\ m - 1 \in 0..m /\ m - 1 # m /\ m \in 0..m
          /\ e[m - 1] \in Nat /\ e[m - 1] <= n /\ e[m - 1] + c = n /\ f[m - 1] = e[m - 1] /\ f[m] = n + 1
        <3>1. w[m][1] = c + 1 /\ w[m][2] = v
            BY <2>2
        <3>2. m \in 1..m /\ m - 1 \in 0..m /\ m - 1 # m /\ m \in 0..m
            BY <1>1, <2>1
        <3>3. e[m - 1] \in Nat /\ e[m - 1] + c = n
            BY <1>1, <3>2
        <3>4. f[m - 1] = e[m - 1]
            BY <2>3, <3>2
        <3>5. f[m] = n + 1
            BY <2>3
        <3> QED
            BY <3>1, <3>2, <3>3, <3>4, <3>5
    <2>5. \A k \in 1..m : f[k] = f[k - 1] + w[k][1]
        <3> SUFFICES ASSUME NEW k \in 1..m PROVE f[k] = f[k - 1] + w[k][1]
            OBVIOUS
        <3>1. k - 1 \in 0..m /\ k \in 0..m /\ k - 1 # m
            BY <1>1
        <3>2. CASE k = m
            <4>1. f[m] = f[m - 1] + w[m][1]
                <5> PICK a \in Nat : a = e[m - 1]
                    BY <2>4
                <5>1. a + c = n /\ f[m - 1] = a /\ f[m] = n + 1 /\ w[m][1] = c + 1
                    BY ONLY <2>4, a = e[m - 1]
                <5> QED
                    BY ONLY <5>1, a \in Nat, c \in Nat
            <4> QED
                BY <3>2, <4>1
        <3>3. CASE k # m
            <4>1. k \in 1..(m - 1)
                BY <1>1, <3>3
            <4> QED
                BY <1>1, <2>2, <2>3, <3>1, <3>3, <4>1
        <3> QED
            BY <3>2, <3>3
    <2>6. ASSUME NEW j \in 1..(n + 1)
          PROVE  \E k \in 1..m : f[k - 1] < j /\ j <= f[k] /\ w[k][2] = values[j]
        <3>1. CASE j = n + 1
            <4>1. f[m - 1] < j /\ j <= f[m] /\ w[m][2] = values[j]
                BY <2>4, <2>3, <3>1
            <4> QED
                BY <2>4, <4>1
        <3>2. CASE j # n + 1
            <4>1. j \in 1..n
                BY <3>2
            <4>2. PICK k \in 1..m : e[k - 1] < j /\ j <= e[k] /\ runs[k][2] = values[j]
                BY <1>1, <4>1
            <4>3. k - 1 \in 0..m /\ k - 1 # m /\ f[k - 1] = e[k - 1] /\ k \in 0..m
                BY <1>1, <2>3
            <4>4. CASE k = m
                <5>1. w[k][2] = values[j] /\ j <= f[k]
                    BY <2>1, <2>4, <2>3, <4>1, <4>2, <4>4
                <5> QED
                    BY <4>2, <4>3, <5>1
            <4>5. CASE k # m
                <5>1. k \in 1..(m - 1)
                    BY <1>1, <4>5
                <5>2. w[k] = runs[k] /\ f[k] = e[k]
                    BY <2>2, <2>3, <4>3, <4>5, <5>1
                <5> QED
                    BY <4>2, <4>3, <5>2
            <4> QED
                BY <4>4, <4>5
        <3> QED
            BY <3>1, <3>2
    <2>7. StandsFor(w, values, n + 1, f)
        BY <2>2, <2>3, <2>5, <2>6 DEF StandsFor, CountsUp
    <2> QED
        BY <2>7 DEF w
<1>3. CASE ~Lengthens(runs, v)
    <2>1. Len(w) = m + 1 /\ w[m + 1] = <<1, v>> /\ \A k \in 1..m : w[k] = runs[k]
        BY <1>3, WithValueIs
    <2> DEFINE f == [k \in 0..(m + 1) |-> IF k = m + 1 THEN n + 1 ELSE e[k]]
    <2>2. f \in [0..(m + 1) -> Nat] /\ f[0] = 0 /\ f[m + 1] = n + 1 /\ \A k \in 0..m : f[k] = e[k]
        BY <1>1
    <2> HIDE DEF f, w
    <2>0. /\ w[m + 1][1] = 1 /\ w[m + 1][2] = v
          /\ m + 1 \in 1..(m + 1) /\ (m + 1) - 1 = m /\ f[m] = n
        <3>1. w[m + 1][1] = 1 /\ w[m + 1][2] = v
            BY <2>1
        <3>2. m + 1 \in 1..(m + 1) /\ (m + 1) - 1 = m /\ m \in 0..m
            BY <1>1
        <3>3. f[m] = n
            BY <1>1, <2>2, <3>2
        <3> QED
            BY <3>1, <3>2, <3>3
    <2>3. \A k \in 1..(m + 1) : f[k] = f[k - 1] + w[k][1]
        <3> SUFFICES ASSUME NEW k \in 1..(m + 1) PROVE f[k] = f[k - 1] + w[k][1]
            OBVIOUS
        <3>1. CASE k = m + 1
            <4>1. f[m + 1] = f[(m + 1) - 1] + w[m + 1][1]
                BY <2>0, <2>2
            <4> QED
                BY <3>1, <4>1
        <3>2. CASE k # m + 1
            <4>1. k \in 1..m /\ k \in 0..m /\ k - 1 \in 0..m
                <5>1. m \in Nat
                    BY <1>1
                <5> QED
                    BY ONLY <5>1, <3>2, k \in 1..(m + 1)
            <4>2. f[k] = e[k] /\ f[k - 1] = e[k - 1] /\ w[k] = runs[k] /\ e[k] = e[k - 1] + runs[k][1]
                <5>1. f[k] = e[k] /\ f[k - 1] = e[k - 1]
                    BY <2>2, <4>1
                <5>2. w[k] = runs[k]
                    BY <2>1, <4>1
                <5>3. e[k] = e[k - 1] + runs[k][1]
                    BY <1>1, <4>1
                <5> QED
                    BY <5>1, <5>2, <5>3
            <4> QED
                BY <4>2
        <3> QED
            BY <3>1, <3>2
    <2>4. ASSUME NEW j \in 1..(n + 1)
          PROVE  \E k \in 1..(m + 1) : f[k - 1] < j /\ j <= f[k] /\ w[k][2] = values[j]
        <3>1. CASE j = n + 1
            <4>1. f[(m + 1) - 1] < j /\ j <= f[m + 1] /\ w[m + 1][2] = values[j]
                BY <2>0, <2>2, <3>1
            <4> QED
                BY <2>0, <4>1
        <3>2. CASE j # n + 1
            <4>1. j \in 1..n
                BY <3>2
            <4>2. PICK k \in 1..m : e[k - 1] < j /\ j <= e[k] /\ runs[k][2] = values[j]
                BY <1>1, <4>1
            <4>3. k \in 1..(m + 1) /\ k - 1 \in 0..m /\ k \in 0..m
                BY <1>1
            <4>4. f[k - 1] = e[k - 1] /\ f[k] = e[k] /\ w[k] = runs[k]
                BY <2>1, <2>2, <4>3
            <4> QED
                BY <4>2, <4>3, <4>4
        <3> QED
            BY <3>1, <3>2
    <2>5. StandsFor(w, values, n + 1, f)
        BY <2>1, <2>2, <2>3, <2>4 DEF StandsFor, CountsUp
    <2> QED
        BY <2>5 DEF w
<1> QED
    BY <1>2, <1>3

LEMMA RunTableStandsFor ==
    ASSUME NEW values, NEW n \in Nat, DOMAIN values = 1..n, NEW All, AreIn(values, n, All)
    PROVE  /\ run_table(values) \in Seq(Nat \X All)
           /\ \E e : StandsFor(run_table(values), values, n, e)
<1>1. PICK r : TakesIn(values, n, All, r) /\ run_table(values) = r[n]
    BY RunTableUnfolds
<1>2. /\ \A i \in 0..n : r[i] \in Seq(Nat \X All)
      /\ r[0] = <<>> /\ \A i \in 1..n : r[i] = WithValue(r[i - 1], values[i])
    BY <1>1 DEF TakesIn
<1> DEFINE Good(i) == \E e : StandsFor(r[i], values, i, e)
           Bad == {i \in 1..n : ~Good(i)}
<1>3. Good(0)
    <2> DEFINE e == [k \in 0..0 |-> 0]
    <2>1. Len(<<>>) = 0 /\ e \in [0..0 -> Nat] /\ e[0] = 0
        OBVIOUS
    <2> HIDE DEF e
    <2>2. StandsFor(<<>>, values, 0, e)
        BY <2>1 DEF StandsFor, CountsUp
    <2> QED
        BY <1>2, <2>2
<1>4. ASSUME NEW i \in 1..n, Good(i - 1) PROVE Good(i)
    <2>1. PICK e : StandsFor(r[i - 1], values, i - 1, e)
        BY <1>4
    <2>2. i - 1 \in Nat /\ (i - 1) + 1 = i /\ r[i - 1] \in Seq(Nat \X All)
        BY <1>2
    <2>3. \E f : StandsFor(WithValue(r[i - 1], values[(i - 1) + 1]), values, (i - 1) + 1, f)
        BY <2>1, <2>2, StandsForOneMore
    <2>4. \E f : StandsFor(WithValue(r[i - 1], values[i]), values, i, f)
        BY <2>2, <2>3
    <2>5. r[i] = WithValue(r[i - 1], values[i])
        BY <1>2
    <2> QED
        BY <2>4, <2>5
<1> HIDE DEF Good
<1>5. Bad = {}
    <2> SUFFICES ASSUME Bad # {} PROVE FALSE
        OBVIOUS
    <2>1. PICK m \in Bad : \A k \in Bad : m <= k
        <3>1. Bad \in SUBSET (1..n)
            OBVIOUS
        <3> HIDE DEF Bad
        <3> QED
            BY <3>1, LeastExists
    <2>2. m \in 1..n /\ ~Good(m)
        BY <2>1
    <2>3. Good(m - 1)
        <3>1. CASE m = 1
            BY <1>3, <3>1
        <3>2. CASE m # 1
            <4>1. m - 1 \in 1..n /\ m - 1 \notin Bad
                BY <2>1, <2>2, <3>2
            <4> QED
                BY <4>1
        <3> QED
            BY <3>1, <3>2
    <2> QED
        BY <1>4, <2>2, <2>3
<1>6. Good(n)
    <2>1. CASE n = 0
        BY <1>3, <2>1
    <2>2. CASE n # 0
        <3>1. n \in 1..n /\ n \notin Bad
            BY <1>5, <2>2
        <3> QED
            BY <3>1
    <2> QED
        BY <2>1, <2>2
<1>7. n \in 0..n
    OBVIOUS
<1> QED
    BY <1>1, <1>2, <1>6, <1>7 DEF Good

\* Counts do not go down.
LEMMA CountsGrow ==
    ASSUME NEW m \in Nat, NEW e \in [0..m -> Nat], \A k \in 1..m : e[k - 1] <= e[k],
           NEW i \in 0..m, NEW j \in 0..m, i <= j
    PROVE  e[i] <= e[j]
<1> DEFINE Bad == {k \in 1..m : i <= k /\ ~(e[i] <= e[k])}
<1>1. Bad = {}
    <2> SUFFICES ASSUME Bad # {} PROVE FALSE
        OBVIOUS
    <2>1. PICK k \in Bad : \A l \in Bad : k <= l
        <3>1. Bad \in SUBSET (1..m)
            OBVIOUS
        <3> HIDE DEF Bad
        <3> QED
            BY <3>1, LeastExists
    <2>2. k \in 1..m /\ i <= k /\ ~(e[i] <= e[k]) /\ k - 1 \in 0..m /\ k - 1 \notin Bad /\ e[k - 1] <= e[k]
        BY <2>1
    <2>3. i # k
        BY <2>2
    <2>4. e[i] <= e[k - 1]
        <3>1. CASE k - 1 = i
            BY <3>1
        <3>2. CASE k - 1 # i
            <4>1. k - 1 \in 1..m /\ i <= k - 1
                BY <2>2, <2>3, <3>2
            <4> QED
                BY <2>2, <4>1
        <3> QED
            BY <3>1, <3>2
    <2> QED
        BY <2>2, <2>4
<1>2. CASE j = 0
    BY <1>2
<1>3. CASE j # 0
    <2>1. j \in 1..m
        BY <1>3
    <2>2. j \notin Bad
        BY <1>1
    <2> QED
        BY <2>1, <2>2
<1> QED
    BY <1>2, <1>3

\* What is read from the entries are the values they stand for, and no more.
LEMMA ReadsBack ==
    ASSUME NEW All, NEW runs \in Seq(Nat \X All), NEW values, NEW n \in Nat, NEW e, StandsFor(runs, values, n, e)
    PROVE  /\ Counted(runs, Len(runs)) = n
           /\ \A j \in 1..n : ValueOf(runs, j) = values[j]
<1> DEFINE m == Len(runs)
           counts == [k \in DOMAIN runs |-> runs[k][1]]
<1>1. /\ m \in Nat /\ DOMAIN runs = 1..m /\ e \in [0..m -> Nat] /\ e[0] = 0 /\ e[m] = n
      /\ \A k \in 1..m : e[k] = e[k - 1] + runs[k][1] /\ runs[k][1] \in Nat
      /\ \A j \in 1..n : \E k \in 1..m : e[k - 1] < j /\ j <= e[k] /\ runs[k][2] = values[j]
    <2> DEFINE E == Nat \X All
    <2>1. m \in Nat /\ DOMAIN runs = 1..m /\ \A k \in 1..m : runs[k] \in E
        <3>1. runs \in Seq(E)
            OBVIOUS
        <3> HIDE DEF E
        <3> QED
            BY <3>1
    <2>2. \A k \in 1..m : runs[k][1] \in Nat
        BY <2>1
    <2> QED
        BY <2>1, <2>2 DEF StandsFor, CountsUp
<1> HIDE DEF m
<1>2. /\ counts \in Seq(Nat) /\ Len(counts) = m /\ \A k \in 1..m : counts[k] = runs[k][1]
    <2>1. counts = [k \in 1..m |-> counts[k]] /\ counts \in [1..m -> Nat]
        BY <1>1
    <2>2. \A k \in 1..m : counts[k] = runs[k][1]
        BY <1>1
    <2> HIDE DEF counts
    <2>3. Len(counts) = m
        BY <1>1, <2>1, LenOf
    <2>4. counts \in Seq(Nat)
        BY <1>1, <2>1
    <2> QED
        BY <2>2, <2>3, <2>4
<1>3. \A k : Counted(runs, k) = SumFunctionOnSet(counts, 1..k)
    BY DEF Counted
<1> HIDE DEF counts
<1>4. \A k \in 0..m : Counted(runs, k) = e[k]
    <2> DEFINE Bad == {k \in 1..m : Counted(runs, k) # e[k]}
    <2>1. Counted(runs, 0) = e[0]
        <3>1. 1..0 = {}
            OBVIOUS
        <3> QED
            BY <1>1, <1>3, <3>1, SumOfNone
    <2>2. ASSUME NEW k \in 1..m PROVE Counted(runs, k) = runs[k][1] + Counted(runs, k - 1)
        <3>1. k \in 0..Len(counts) /\ k > 0
            BY <1>1, <1>2
        <3>2. SumFunctionOnSet(counts, 1..k) = counts[k] + SumFunctionOnSet(counts, 1..(k - 1))
            BY <1>2, <3>1, SumOfFirst
        <3> QED
            BY <1>2, <1>3, <3>2
    <2>3. Bad = {}
        <3> SUFFICES ASSUME Bad # {} PROVE FALSE
            OBVIOUS
        <3>1. PICK k \in Bad : \A l \in Bad : k <= l
            <4>1. Bad \in SUBSET (1..m)
                OBVIOUS
            <4> HIDE DEF Bad
            <4> QED
                BY <1>1, <4>1, LeastExists
        <3>2. k \in 1..m /\ Counted(runs, k) # e[k]
            BY <3>1
        <3>3. Counted(runs, k - 1) = e[k - 1]
            <4>1. CASE k = 1
                BY <2>1, <4>1
            <4>2. CASE k # 1
                <5>1. k - 1 \in 1..m /\ k - 1 \notin Bad
                    BY <1>1, <3>1, <3>2, <4>2
                <5> QED
                    BY <5>1
            <4> QED
                BY <4>1, <4>2
        <3>4. e[k] = e[k - 1] + runs[k][1] /\ e[k - 1] \in Nat /\ runs[k][1] \in Nat
            <4>1. k - 1 \in 0..m
                BY <1>1, <3>2
            <4> QED
                BY <1>1, <3>2, <4>1
        <3> QED
            BY <2>2, <3>2, <3>3, <3>4
    <2>4. \A k \in 0..m : k = 0 \/ k \in 1..m
        BY <1>1
    <2> QED
        BY <2>1, <2>3, <2>4
<1>5. ASSUME NEW j \in 1..n PROVE ValueOf(runs, j) = values[j]
    <2> DEFINE Holds(k) == Counted(runs, k - 1) < j /\ j <= Counted(runs, k)
    <2>1. \A k \in 1..m : k - 1 \in 0..m /\ k \in 0..m
        BY <1>1
    <2>2. \A k \in 1..m : Holds(k) <=> e[k - 1] < j /\ j <= e[k]
        BY <1>4, <2>1
    <2>3. PICK k \in 1..m : Holds(k) /\ runs[k][2] = values[j]
        BY <1>1, <2>2
    <2>4. ASSUME NEW l \in 1..m, Holds(l) PROVE l = k
        <3>1. ASSUME NEW a \in 1..m, NEW b \in 1..m, a < b, Holds(a), Holds(b) PROVE FALSE
            <4>1. a \in 0..m /\ b - 1 \in 0..m /\ a <= b - 1
                BY <1>1, <3>1
            <4>2. \A x \in 1..m : e[x - 1] <= e[x]
                <5> SUFFICES ASSUME NEW x \in 1..m PROVE e[x - 1] <= e[x]
                    OBVIOUS
                <5> PICK u \in Nat, c \in Nat : u = e[x - 1] /\ c = runs[x][1]
                    <6>1. x - 1 \in 0..m
                        BY <2>1
                    <6> QED
                        BY <1>1, <6>1
                <5>1. e[x] = u + c
                    BY <1>1
                <5> QED
                    BY ONLY <5>1, u = e[x - 1], u \in Nat, c \in Nat
            <4>3. e[a] <= e[b - 1]
                BY <1>1, <4>1, <4>2, CountsGrow
            <4>4. e[a] \in Nat /\ e[b - 1] \in Nat /\ j <= e[a] /\ e[b - 1] < j
                BY <1>1, <2>2, <3>1, <4>1
            <4> QED
                BY <4>3, <4>4
        <3>2. ~(l < k) /\ ~(k < l)
            BY <2>3, <2>4, <3>1
        <3> QED
            BY <1>1, <3>2
    <2>5. (CHOOSE x \in 1..m : Holds(x)) = k
        <3> HIDE DEF Holds
        <3> QED
            BY <2>3, <2>4
    <2>6. ValueOf(runs, j) = runs[CHOOSE x \in 1..m : Holds(x)][2]
        BY <1>1 DEF ValueOf
    <2> HIDE DEF Holds
    <2> QED
        BY <2>3, <2>5, <2>6
<1>6. m \in 0..m
    BY <1>1
<1> QED
    BY <1>1, <1>4, <1>5, <1>6 DEF m

\* A table of run lengths reads back as the values it was made of.
LEMMA RunTableReadsBack ==
    ASSUME NEW values, NEW n \in Nat, DOMAIN values = 1..n, NEW All, AreIn(values, n, All)
    PROVE  /\ Counted(run_table(values), Len(run_table(values))) = n
           /\ \A j \in 1..n : ValueOf(run_table(values), j) = values[j]
           /\ n > 0 => run_table(values) # <<>>
<1>1. run_table(values) \in Seq(Nat \X All)
    BY RunTableStandsFor
<1>2. PICK e : StandsFor(run_table(values), values, n, e)
    BY RunTableStandsFor
<1>3. n > 0 => run_table(values) # <<>>
    <2> SUFFICES ASSUME n > 0, run_table(values) = <<>> PROVE FALSE
        OBVIOUS
    <2>1. PICK k \in 1..Len(run_table(values)) : TRUE
        <3>1. 1 \in 1..n
            OBVIOUS
        <3> QED
            BY <1>2, <3>1 DEF StandsFor
    <2>2. Len(<<>>) = 0
        OBVIOUS
    <2> QED
        BY <2>1, <2>2
<1> HIDE DEF run_table
<1> QED
    BY <1>1, <1>2, <1>3, ReadsBack

\* Times are the sums of the durations before them.
LEMMA TimesAddUp ==
    ASSUME NEW n \in Nat, NEW lasts \in [1..n -> Nat], NEW time, \A i \in 1..n : time[i] \in Nat,
           \A i \in 1..n : time[i] = IF i = 1 THEN 0 ELSE time[i - 1] + lasts[i - 1],
           NEW i \in 1..n
    PROVE  SumFunctionOnSet(lasts, 1..(i - 1)) = time[i]
<1> DEFINE Sum(k) == SumFunctionOnSet(lasts, 1..k)
           Bad == {k \in 1..n : Sum(k - 1) # time[k]}
<1>1. lasts \in Seq(Nat) /\ Len(lasts) = n
    <2>1. lasts = [k \in 1..n |-> lasts[k]]
        OBVIOUS
    <2>2. Len(lasts) = n
        BY <2>1, LenOf
    <2> QED
        BY <2>2
<1>2. Sum(0) = 0
    <2>1. 1..0 = {}
        OBVIOUS
    <2> QED
        BY <2>1, SumOfNone
<1>3. ASSUME NEW k \in 1..n PROVE Sum(k) = lasts[k] + Sum(k - 1)
    <2>1. k \in 0..Len(lasts) /\ k > 0
        BY <1>1
    <2> QED
        BY <1>1, <2>1, SumOfFirst
<1> HIDE DEF Sum
<1> SUFFICES ASSUME Bad # {} PROVE FALSE
    BY DEF Sum
<1>4. PICK k \in Bad : \A l \in Bad : k <= l
    <2>1. Bad \in SUBSET (1..n)
        OBVIOUS
    <2> HIDE DEF Bad
    <2> QED
        BY <2>1, LeastExists
<1>5. k \in 1..n /\ Sum(k - 1) # time[k]
    BY <1>4
<1>6. CASE k = 1
    <2>1. time[1] = 0 /\ k - 1 = 0
        BY <1>5, <1>6
    <2> QED
        BY <1>2, <1>5, <1>6, <2>1
<1>7. CASE k # 1
    <2>1. k - 1 \in 1..n /\ k - 1 \notin Bad
        <3>1. k - 1 \in 1..n /\ ~(k <= k - 1)
            BY <1>5, <1>7
        <3> QED
            BY <1>4, <3>1
    <2>2. Sum((k - 1) - 1) = time[k - 1] /\ Sum(k - 1) = lasts[k - 1] + Sum((k - 1) - 1)
        BY <1>3, <2>1
    <2>3. time[k] = time[k - 1] + lasts[k - 1]
        BY <1>5, <1>7
    <2>4. PICK a \in Nat, b \in Nat : a = time[k - 1] /\ b = lasts[k - 1]
        BY <2>1
    <2>5. Sum(k - 1) = b + a /\ time[k] = a + b
        BY <2>2, <2>3, <2>4
    <2> QED
        BY <1>5, <2>5
<1> QED
    BY <1>6, <1>7

\* What is rounded up is not too short.
LEMMA RoundsUp ==
    ASSUME NEW a \in Nat \ {0}, NEW m \in Nat \ {0}, NEW t \in Nat \ {0}
    PROVE  /\ (a * m + t - 1) \div t \in Nat \ {0}
           /\ ((a * m + t - 1) \div t) * t >= a * m
<1> DEFINE b == a * m
<1>1. b \in Nat \ {0}
    OBVIOUS
<1> HIDE DEF b
<1> DEFINE c == b + t - 1
           q == c \div t
<1>2. c \in Nat /\ c >= t
    BY <1>1
<1> HIDE DEF c
<1>3. q \in Nat /\ q * t <= c /\ c < (q + 1) * t
    BY <1>2
<1> HIDE DEF q
<1> DEFINE p == q * t
<1>4. (q + 1) * t = p + t /\ p \in Nat
    BY <1>3
<1> HIDE DEF p
<1>5. p >= b
    BY <1>1, <1>3, <1>4 DEF c, p
<1>6. q # 0
    <2> SUFFICES ASSUME q = 0 PROVE FALSE
        OBVIOUS
    <2>1. p = 0
        BY DEF p
    <2> QED
        BY <1>1, <1>5, <2>1
<1> QED
    BY <1>3, <1>5, <1>6 DEF b, c, p, q

\* What the tables of a track are to a reader: its samples, and lengths that are
\* not too short.
TellTheTrack(t, track, movie_scale) ==
    LET n == Len(track.samples)
    IN /\ t.stsz = [i \in 1..n |-> track.samples[i].size]
       /\ Counted(t.stts, Len(t.stts)) = n
       /\ \A i \in 1..n : ValueOf(t.stts, i) = track.samples[i].duration
       /\ t.ctts # <<>> => Counted(t.ctts, Len(t.ctts)) = n
       /\ \A i \in 1..n : (IF t.ctts = <<>> THEN 0 ELSE ValueOf(t.ctts, i)) = track.samples[i].cts
       /\ {i \in 1..n : track.samples[i].sync} = (IF t.stss = <<>> THEN 1..n ELSE ToSet(t.stss[1]))
       /\ t.edit # NoEdit => t.edit > 0
       /\ t.movie_duration * track.timescale >= t.duration * movie_scale

\* build_moov: whatever the samples, the tables tell them.
THEOREM TablesTellTheTrack ==
    ASSUME NEW track, IsTrack(track), track.samples # <<>>,
           \A i \in DOMAIN track.samples : track.samples[i].duration \in Nat \ {0},
           track.edit \in Nat \cup {NoEdit}, NEW movie_scale \in Nat \ {0}, NEW offsets
    PROVE  TellTheTrack(TablesOf(track, movie_scale, offsets), track, movie_scale)
<1> DEFINE n == Len(track.samples)
           t == TablesOf(track, movie_scale, offsets)
           durations == [i \in 1..n |-> track.samples[i].duration]
           ctss == [i \in 1..n |-> track.samples[i].cts]
           total == TotalTicks(track)
           K == {i \in DOMAIN track.samples : track.samples[i].sync}
<1>1. n \in Nat /\ DOMAIN track.samples = 1..n
    BY DEF IsTrack
<1>2. n > 0
    <2>1. Len(track.samples) = 0 => track.samples = <<>>
        BY DEF IsTrack
    <2> QED
        BY <1>1, <2>1
<1>3. /\ t.stts = run_table(durations)
      /\ t.ctts = IF \E i \in DOMAIN track.samples : track.samples[i].cts # 0 THEN run_table(ctss) ELSE <<>>
      /\ t.stsz = [i \in 1..n |-> track.samples[i].size]
      /\ t.stss = IF \E i \in DOMAIN track.samples : ~track.samples[i].sync THEN <<Keyframes(track)>> ELSE <<>>
      /\ t.edit = (IF track.edit = 0 THEN Scaled(track, movie_scale) ELSE track.edit)
      /\ t.movie_duration = Scaled(track, movie_scale) /\ t.duration = total
    BY <1>1 DEF TablesOf, Attribute
<1>4. total = SumFunction(durations)
    BY <1>1 DEF TotalTicks, Attribute
<1>5. /\ durations \in [1..n -> Nat \ {0}] /\ DOMAIN durations = 1..n
      /\ \A i \in 1..n : durations[i] = track.samples[i].duration
    BY <1>1
<1>6. DOMAIN ctss = 1..n /\ \A i \in 1..n : ctss[i] = track.samples[i].cts
    OBVIOUS
<1> HIDE DEF t, total, durations, ctss
<1>7. /\ Counted(t.stts, Len(t.stts)) = n
      /\ \A i \in 1..n : ValueOf(t.stts, i) = track.samples[i].duration
    <2> DEFINE All == Nat
    <2>1. AreIn(durations, n, All)
        BY <1>5 DEF AreIn
    <2> HIDE DEF All, n
    <2>2. /\ Counted(run_table(durations), Len(run_table(durations))) = n
          /\ \A j \in 1..n : ValueOf(run_table(durations), j) = durations[j]
        BY <1>1, <1>5, <2>1, RunTableReadsBack
    <2> QED
        BY <1>3, <1>5, <2>2
<1>8. /\ t.ctts # <<>> => Counted(t.ctts, Len(t.ctts)) = n
      /\ \A i \in 1..n : (IF t.ctts = <<>> THEN 0 ELSE ValueOf(t.ctts, i)) = track.samples[i].cts
    <2>1. CASE \E i \in DOMAIN track.samples : track.samples[i].cts # 0
        <3> DEFINE All == {ctss[i] : i \in 1..n}
        <3>1. AreIn(ctss, n, All)
            BY DEF AreIn
        <3> HIDE DEF All, n
        <3>2. /\ Counted(run_table(ctss), Len(run_table(ctss))) = n
              /\ \A j \in 1..n : ValueOf(run_table(ctss), j) = ctss[j]
              /\ n > 0 => run_table(ctss) # <<>>
            BY <1>1, <1>6, <3>1, RunTableReadsBack
        <3>3. t.ctts = run_table(ctss)
            BY <1>3, <2>1
        <3> QED
            BY <1>2, <1>6, <3>2, <3>3
    <2>2. CASE ~\E i \in DOMAIN track.samples : track.samples[i].cts # 0
        <3>1. t.ctts = <<>>
            BY <1>3, <2>2
        <3>2. \A i \in 1..n : track.samples[i].cts = 0
            BY <1>1, <2>2
        <3> HIDE DEF n
        <3> QED
            BY <3>1, <3>2
    <2> QED
        BY <2>1, <2>2
<1>9. {i \in 1..n : track.samples[i].sync} = (IF t.stss = <<>> THEN 1..n ELSE ToSet(t.stss[1]))
    <2>1. K = {i \in 1..n : track.samples[i].sync}
        BY <1>1
    <2>2. CASE \E i \in DOMAIN track.samples : ~track.samples[i].sync
        <3>1. t.stss = <<Keyframes(track)>>
            BY <1>3, <2>2
        <3>2. t.stss # <<>> /\ t.stss[1] = Keyframes(track)
            BY <3>1
        <3>3. ListsInOrder(Keyframes(track), K)
            BY KeyframesInOrder
        <3> DEFINE keys == Keyframes(track)
        <3>4. ToSet(keys) = {keys[k] : k \in DOMAIN keys}
            BY DEF ToSet
        <3> HIDE DEF keys, K
        <3>5. ToSet(keys) = K
            <4>1. \A k \in DOMAIN keys : keys[k] \in K
                BY <3>3 DEF ListsInOrder, keys
            <4>2. \A i \in K : \E k \in DOMAIN keys : keys[k] = i
                BY <3>3 DEF ListsInOrder, keys
            <4> QED
                BY <3>4, <4>1, <4>2
        <3> HIDE DEF n
        <3> QED
            BY <2>1, <3>2, <3>5 DEF keys
    <2>3. CASE ~\E i \in DOMAIN track.samples : ~track.samples[i].sync
        <3>1. t.stss = <<>>
            BY <1>3, <2>3
        <3>2. \A i \in 1..n : track.samples[i].sync
            BY <1>1, <2>3
        <3> HIDE DEF n
        <3> QED
            BY <3>1, <3>2
    <2> QED
        BY <2>2, <2>3
<1>10. total \in Nat \ {0}
    <2>1. durations \in Seq(Nat) /\ Len(durations) = n
        <3>1. durations = [i \in 1..n |-> durations[i]] /\ durations \in [1..n -> Nat]
            BY <1>5
        <3> HIDE DEF n
        <3>2. Len(durations) = n
            BY <1>1, <3>1, LenOf
        <3> QED
            BY <1>1, <3>1, <3>2
    <2>2. 1 \in 1..n
        BY <1>1, <1>2
    <2> HIDE DEF n
    <2>3. 1 \in 1..Len(durations)
        BY <2>1, <2>2
    <2>4. /\ SumFunctionOnSet(durations, 1..(1 - 1)) \in Nat /\ SumFunction(durations) \in Nat
          /\ SumFunctionOnSet(durations, 1..(1 - 1)) + durations[1] <= SumFunction(durations)
        BY <2>1, <2>3, SumGrows
    <2>5. durations[1] \in Nat \ {0}
        BY <1>5, <2>2
    <2> QED
        BY <1>4, <2>4, <2>5
<1>11. /\ Scaled(track, movie_scale) \in Nat \ {0}
       /\ Scaled(track, movie_scale) * track.timescale >= total * movie_scale
    <2>1. Scaled(track, movie_scale) = (total * movie_scale + track.timescale - 1) \div track.timescale
        BY DEF Scaled, total
    <2>2. track.timescale \in Nat \ {0}
        BY DEF IsTrack
    <2> QED
        BY <1>10, <2>1, <2>2, RoundsUp
<1>12. t.edit # NoEdit => t.edit > 0
    <2>1. CASE track.edit = 0
        BY <1>3, <1>11, <2>1
    <2>2. CASE track.edit # 0
        BY <1>3, <2>2
    <2> QED
        BY <2>1, <2>2
<1>13. t.movie_duration * track.timescale >= t.duration * movie_scale
    BY <1>3, <1>11
<1>14. t.stsz = [i \in 1..n |-> track.samples[i].size]
    BY <1>3
<1> HIDE DEF n
<1> QED
    BY <1>7, <1>8, <1>9, <1>12, <1>13, <1>14, Zenon DEF n, t, TellTheTrack

-----------------------------------------------------------------------------
(* The file that finish makes.                                             *)

HeaderOf(tracks, movie_scale) ==
    FtypSize + MoovSize(build_moov(tracks, movie_scale, Places(tracks, 0))) + MdatHeader

LEMMA RunTableIsSized ==
    ASSUME NEW values, NEW n \in Nat, DOMAIN values = 1..n
    PROVE  Len(run_table(values)) \in Nat
<1> DEFINE All == {values[i] : i \in 1..n}
           Tables == Seq(Nat \X All)
<1>1. AreIn(values, n, All)
    BY DEF AreIn
<1> HIDE DEF All
<1>2. PICK r : TakesIn(values, n, All, r) /\ run_table(values) = r[n]
    BY <1>1, RunTableUnfolds
<1>3. r \in [0..n -> Tables]
    BY <1>2 DEF TakesIn
<1>4. n \in 0..n
    OBVIOUS
<1> HIDE DEF Tables
<1>5. run_table(values) \in Tables
    BY <1>2, <1>3, <1>4
<1> QED
    BY <1>5 DEF Tables

\* What a list of the sync samples takes.
Listed(stss) == IF stss = <<>> THEN 0 ELSE Len(stss[1])

\* A value for each sample of the track.
IsListFor(list, track) == list = [i \in DOMAIN track.samples |-> list[i]]

LEMMA TablesAreSized ==
    ASSUME NEW track, IsTrack(track), NEW movie_scale, NEW offsets, IsListFor(offsets, track)
    PROVE  LET t == TablesOf(track, movie_scale, offsets)
           IN /\ Len(t.stts) \in Nat /\ Len(t.ctts) \in Nat /\ Len(t.stsz) \in Nat
              /\ Len(t.co64) \in Nat /\ Listed(t.stss) \in Nat
<1> DEFINE n == Len(track.samples)
           t == TablesOf(track, movie_scale, offsets)
           durations == [i \in 1..n |-> track.samples[i].duration]
           ctss == [i \in 1..n |-> track.samples[i].cts]
           sizes == [i \in 1..n |-> track.samples[i].size]
<1>1. n \in Nat /\ DOMAIN track.samples = 1..n
    BY DEF IsTrack
<1>2. /\ t.stts = run_table(durations)
      /\ t.ctts = run_table(ctss) \/ t.ctts = <<>>
      /\ t.stsz = sizes /\ t.co64 = offsets
      /\ t.stss = <<Keyframes(track)>> \/ t.stss = <<>>
    BY <1>1 DEF TablesOf, Attribute
<1> HIDE DEF t
<1>3. ASSUME NEW values, DOMAIN values = 1..n PROVE Len(run_table(values)) \in Nat
    <2> HIDE DEF n
    <2> QED
        BY <1>1, <1>3, RunTableIsSized
<1>4. Len(t.stts) \in Nat
    <2>1. DOMAIN durations = 1..n
        OBVIOUS
    <2> HIDE DEF durations, n
    <2> QED
        BY <1>2, <1>3, <2>1
<1>5. Len(t.ctts) \in Nat
    <2>1. DOMAIN ctss = 1..n
        OBVIOUS
    <2>2. Len(<<>>) \in Nat
        OBVIOUS
    <2> HIDE DEF ctss, n
    <2> QED
        BY <1>2, <1>3, <2>1, <2>2
<1>6. Len(sizes) = n
    <2>1. sizes = [i \in 1..n |-> sizes[i]]
        OBVIOUS
    <2> HIDE DEF sizes, n
    <2> QED
        BY <1>1, <2>1, LenOf
<1>7. Len(offsets) = n
    <2>1. offsets = [i \in 1..n |-> offsets[i]]
        BY <1>1 DEF IsListFor
    <2> HIDE DEF n
    <2> QED
        BY <1>1, <2>1, LenOf
<1>8. Len(Keyframes(track)) \in Nat
    BY KeyframesInOrder DEF ListsInOrder
<1>9. Listed(t.stss) \in Nat
    BY <1>2, <1>8 DEF Listed
<1> HIDE DEF n
<1> QED
    BY <1>1, <1>2, <1>4, <1>5, <1>6, <1>7, <1>9 DEF t

LEMMA HeaderIsSized ==
    ASSUME NEW tracks, IsTracks(tracks), NEW movie_scale
    PROVE  HeaderOf(tracks, movie_scale) \in Nat
<1> DEFINE offsets == Places(tracks, 0)
           moov == build_moov(tracks, movie_scale, offsets)
           Entries(t) == Len(t.stts) + Len(t.ctts) + Len(t.stsz) + Len(t.co64) + Listed(t.stss)
           entries == [t \in DOMAIN moov |-> Entries(moov[t])]
<1>1. DOMAIN moov = DOMAIN tracks /\ \A t \in DOMAIN tracks : moov[t] = TablesOf(tracks[t], movie_scale, offsets[t])
    BY DEF build_moov
<1>2. ASSUME NEW t \in DOMAIN tracks PROVE Entries(moov[t]) \in Nat
    <2> DEFINE track == tracks[t]
               places == offsets[t]
               table == TablesOf(track, movie_scale, places)
    <2>1. IsTrack(track) /\ IsListFor(places, track)
        BY DEF IsTracks, Places, IsListFor
    <2>2. /\ Len(table.stts) \in Nat /\ Len(table.ctts) \in Nat /\ Len(table.stsz) \in Nat
          /\ Len(table.co64) \in Nat /\ Listed(table.stss) \in Nat
        <3> HIDE DEF places, track
        <3> QED
            BY <2>1, TablesAreSized
    <2>3. moov[t] = table
        BY <1>1
    <2>4. Entries(table) \in Nat
        <3> DEFINE a == Len(table.stts)
                   b == Len(table.ctts)
                   c == Len(table.stsz)
                   d == Len(table.co64)
                   e == Listed(table.stss)
        <3>1. a \in Nat /\ b \in Nat /\ c \in Nat /\ d \in Nat /\ e \in Nat
            BY <2>2
        <3>2. Entries(table) = a + b + c + d + e
            OBVIOUS
        <3> HIDE DEF a, b, c, d, e, Entries, table
        <3> QED
            BY <3>1, <3>2
    <2> HIDE DEF table, moov, Entries
    <2> QED
        BY <2>3, <2>4
<1> HIDE DEF moov, Entries
<1>3. SumFunction(entries) \in Nat
    <2>1. DOMAIN entries = DOMAIN tracks /\ IsFiniteSet(DOMAIN tracks)
        BY <1>1, FS_Interval DEF IsTracks
    <2>2. \A t \in DOMAIN tracks : entries[t] \in Nat
        BY <1>1, <1>2
    <2> HIDE DEF entries
    <2>3. SumFunctionOnSet(entries, DOMAIN entries) \in Nat
        BY <2>1, <2>2, SumIsNat
    <2> QED
        BY <2>3 DEF SumFunction
<1>4. MoovSize(moov) = 1 + SumFunction(entries)
    BY DEF MoovSize, Entries, Listed
<1> HIDE DEF entries
<1> QED
    BY <1>3, <1>4 DEF HeaderOf, FtypSize, MdatHeader, moov

\* The header is built with the offsets it has not got yet, and again with them:
\* the room it takes is the same.
LEMMA HeaderKeepsItsSize ==
    ASSUME NEW tracks, IsTracks(tracks), NEW movie_scale, NEW start
    PROVE  MoovSize(build_moov(tracks, movie_scale, Places(tracks, start)))
             = MoovSize(build_moov(tracks, movie_scale, Places(tracks, 0)))
<1> DEFINE Moov(s) == build_moov(tracks, movie_scale, Places(tracks, s))
           Entries(t) == Len(t.stts) + Len(t.ctts) + Len(t.stsz) + Len(t.co64) + Listed(t.stss)
           Table(t, s) == TablesOf(tracks[t], movie_scale, Places(tracks, s)[t])
<1>1. ASSUME NEW s, NEW t \in DOMAIN tracks PROVE Len(Table(t, s).co64) = Len(tracks[t].samples)
    <2> DEFINE n == Len(tracks[t].samples)
               places == Places(tracks, s)[t]
    <2>1. n \in Nat /\ DOMAIN tracks[t].samples = 1..n
        BY DEF IsTracks, IsTrack
    <2>2. Table(t, s).co64 = places
        BY DEF TablesOf
    <2>3. places = [i \in 1..n |-> places[i]]
        BY <2>1 DEF Places
    <2> HIDE DEF places, n
    <2>4. Len(places) = n
        BY <2>1, <2>3, LenOf
    <2> QED
        BY <2>2, <2>4 DEF n
<1>2. ASSUME NEW t \in DOMAIN tracks PROVE Entries(Table(t, start)) = Entries(Table(t, 0))
    <2>1. /\ Table(t, start).stts = Table(t, 0).stts /\ Table(t, start).ctts = Table(t, 0).ctts
          /\ Table(t, start).stsz = Table(t, 0).stsz /\ Table(t, start).stss = Table(t, 0).stss
        BY DEF TablesOf
    <2>2. Len(Table(t, start).co64) = Len(Table(t, 0).co64)
        BY <1>1
    <2> HIDE DEF Table
    <2> QED
        BY <2>1, <2>2
<1>3. \A s : Moov(s) = [t \in DOMAIN tracks |-> Table(t, s)]
    BY DEF build_moov
<1> HIDE DEF Moov, Table
<1>4. \A s : MoovSize(Moov(s)) = 1 + SumFunction([t \in DOMAIN tracks |-> Entries(Table(t, s))])
    <2>1. ASSUME NEW s PROVE MoovSize(Moov(s)) = 1 + SumFunction([t \in DOMAIN tracks |-> Entries(Table(t, s))])
        <3>1. DOMAIN Moov(s) = DOMAIN tracks /\ \A t \in DOMAIN tracks : Moov(s)[t] = Table(t, s)
            BY <1>3
        <3>2. [t \in DOMAIN Moov(s) |-> Entries(Moov(s)[t])] = [t \in DOMAIN tracks |-> Entries(Table(t, s))]
            BY <3>1
        <3>3. MoovSize(Moov(s)) = 1 + SumFunction([t \in DOMAIN Moov(s) |-> Entries(Moov(s)[t])])
            BY DEF MoovSize, Listed
        <3> HIDE DEF Entries
        <3> QED
            BY <3>2, <3>3
    <2> QED
        BY <2>1
<1> HIDE DEF Entries
<1>5. [t \in DOMAIN tracks |-> Entries(Table(t, start))] = [t \in DOMAIN tracks |-> Entries(Table(t, 0))]
    BY <1>2
<1> QED
    BY <1>4, <1>5 DEF Moov

\* The samples fill the file from its header to its end: each once, one after
\* the other, from its own place in its own source; time never goes back.
FillsItsFile(tracks, file) ==
    LET order == InOrder(tracks)
        n == Cardinality(SamplePlaces(tracks))
        extents == file.extents
        Taken(k) == SampleAt(tracks, order[k])
        TimesScale(k, j) == Taken(k).decode_time * tracks[order[j][1]].timescale
    IN /\ n \in Nat \ {0} /\ DOMAIN extents = 1..n /\ Len(extents) = n
       /\ \A k \in 1..n : order[k] \in SamplePlaces(tracks)
       /\ \A p \in SamplePlaces(tracks) : \E k \in 1..n : order[k] = p
       /\ \A k \in 1..n : /\ extents[k].start \in Nat /\ extents[k].start >= file.header
                          /\ extents[k].end = extents[k].start + Taken(k).size
                          /\ Taken(k).size \in Nat \ {0}
                          /\ extents[k].source = tracks[order[k][1]].source
                          /\ extents[k].source_start = Taken(k).offset
       /\ file.header \in Nat /\ extents[1].start = file.header
       /\ \A k \in 1..n : k + 1 <= n => extents[k + 1].start = extents[k].end
       /\ file.len = extents[n].end
       /\ \A j, k \in 1..n : j < k => /\ order[j] # order[k]
                                      /\ extents[j].end <= extents[k].start
                                      /\ TimesScale(j, k) <= TimesScale(k, j)

\* The payload begins where its header ends, and the chunk offsets in the header
\* are the places of the samples.
PointsToSamples(tracks, file) ==
    /\ file.header = FtypSize + MoovSize(file.moov) + MdatHeader
    /\ DOMAIN file.moov = DOMAIN tracks
    /\ \A k \in DOMAIN file.extents :
          LET p == InOrder(tracks)[k]
          IN /\ DOMAIN file.moov[p[1]].co64 = DOMAIN tracks[p[1]].samples
             /\ file.moov[p[1]].co64[p[2]] = file.extents[k].start

LEMMA FinishMakes ==
    ASSUME NEW tracks, NEW movie_scale
    PROVE  LET file == finish(tracks, movie_scale)
               offsets == Places(tracks, file.header)
           IN /\ file.header = HeaderOf(tracks, movie_scale)
              /\ file.moov = build_moov(tracks, movie_scale, offsets)
              /\ file.seek_points = SeekPoints(tracks[SeekTrack(tracks)], offsets[SeekTrack(tracks)])
    BY DEF finish, HeaderOf

LEMMA LastIs ==
    ASSUME NEW n \in Nat \ {0}, NEW f, f = [i \in 1..n |-> f[i]]
    PROVE  Len(f) = n /\ Last(f) = f[n]
    BY LenOf DEF Last

\* finish: whatever the tracks, their samples fill the file in the order of real
\* time, without gaps and without overlaps, from the end of the header on, and
\* the header points to them.
THEOREM SamplesAreLaidOut ==
    ASSUME NEW tracks, IsTracks(tracks), CanFinish(tracks), NEW movie_scale
    PROVE  /\ FillsItsFile(tracks, finish(tracks, movie_scale))
           /\ PointsToSamples(tracks, finish(tracks, movie_scale))
<1> DEFINE file == finish(tracks, movie_scale)
           start == HeaderOf(tracks, movie_scale)
           offsets == Places(tracks, start)
           P == SamplePlaces(tracks)
           B == SamplesBefore(tracks)
           n == Cardinality(P)
           order == InOrder(tracks)
           E == file.extents
<1>1. start \in Nat
    BY HeaderIsSized
<1>2. /\ n \in Nat /\ DOMAIN order = 1..n
      /\ \A k \in 1..n : order[k] \in P /\ Cardinality(B[order[k]]) = k - 1
      /\ \A p \in P : \E k \in 1..n : order[k] = p
      /\ \A j, k \in 1..n : j < k => order[j] \in B[order[k]]
      /\ \A k \in 1..n : k + 1 <= n => /\ B[order[k + 1]] = B[order[k]] \cup {order[k]}
                                       /\ order[k] \notin B[order[k]]
    BY OrderTakesAll
<1>3. n # 0
    <2>1. 1 \in DOMAIN tracks /\ 1 \in DOMAIN tracks[1].samples
        <3>1. Len(tracks) \in Nat /\ DOMAIN tracks = 1..Len(tracks) /\ tracks # <<>>
            BY DEF IsTracks, CanFinish
        <3>2. 1 \in DOMAIN tracks
            BY <3>1
        <3>3. /\ Len(tracks[1].samples) \in Nat /\ DOMAIN tracks[1].samples = 1..Len(tracks[1].samples)
              /\ tracks[1].samples # <<>>
            BY <3>2 DEF IsTracks, CanFinish, IsTrack
        <3> QED
            BY <3>2, <3>3
    <2>2. <<1, 1>> \in P
        BY <2>1, PlaceIs
    <2> HIDE DEF P, n, order
    <2> QED
        BY <1>2, <2>2
<1>4. \A p \in P : offsets[p[1]][p[2]] = OffsetIn(tracks, start, p)
    <2>1. ASSUME NEW p \in P PROVE offsets[p[1]][p[2]] = OffsetIn(tracks, start, p)
        <3>1. p = <<p[1], p[2]>> /\ p[1] \in DOMAIN tracks /\ p[2] \in DOMAIN tracks[p[1]].samples
            BY <2>1, PlacesAre
        <3> HIDE DEF start
        <3>2. offsets[p[1]] = [i \in DOMAIN tracks[p[1]].samples |-> OffsetIn(tracks, start, <<p[1], i>>)]
            BY <3>1 DEF Places
        <3> QED
            BY <3>1, <3>2
    <2> QED
        BY <2>1
<1> DEFINE ExtentOf(p) == [start |-> offsets[p[1]][p[2]], end |-> offsets[p[1]][p[2]] + SampleAt(tracks, p).size,
                           source |-> tracks[p[1]].source, source_start |-> SampleAt(tracks, p).offset]
<1>5. /\ file.header = start /\ E = [k \in DOMAIN order |-> ExtentOf(order[k])]
      /\ file.len = Last(E).end /\ file.moov = build_moov(tracks, movie_scale, offsets)
    BY DEF finish, HeaderOf
<1>6. \A k \in 1..n : /\ E[k].start = OffsetIn(tracks, start, order[k])
                      /\ E[k].end = OffsetIn(tracks, start, order[k]) + SampleAt(tracks, order[k]).size
                      /\ E[k].source = tracks[order[k][1]].source
                      /\ E[k].source_start = SampleAt(tracks, order[k]).offset
    <2>1. ASSUME NEW k \in 1..n
          PROVE  /\ E[k].start = OffsetIn(tracks, start, order[k])
                 /\ E[k].end = OffsetIn(tracks, start, order[k]) + SampleAt(tracks, order[k]).size
                 /\ E[k].source = tracks[order[k][1]].source
                 /\ E[k].source_start = SampleAt(tracks, order[k]).offset
        <3>1. order[k] \in P /\ k \in DOMAIN order
            BY <1>2, <2>1
        <3>2. offsets[order[k][1]][order[k][2]] = OffsetIn(tracks, start, order[k])
            BY <1>4, <3>1
        <3>3. E[k] = ExtentOf(order[k])
            <4> HIDE DEF E, ExtentOf, order
            <4> QED
                BY <1>5, <3>1
        <3> HIDE DEF E, order, offsets, start
        <3> QED
            BY <3>2, <3>3
    <2> HIDE DEF E, order, start, n
    <2> QED
        BY <2>1
<1>7. DOMAIN E = 1..n /\ E = [k \in 1..n |-> E[k]]
    <2> HIDE DEF E, ExtentOf, order, n
    <2> QED
        BY <1>2, <1>5
<1>8. Len(E) = n /\ file.len = E[n].end
    <2> HIDE DEF E, n, ExtentOf
    <2>1. n \in Nat \ {0} /\ E = [k \in 1..n |-> E[k]]
        BY <1>2, <1>3, <1>7
    <2>2. Len(E) = n /\ Last(E) = E[n]
        BY ONLY <2>1, LastIs
    <2> HIDE DEF file
    <2> QED
        BY <1>5, <2>2
<1> HIDE DEF start, offsets, P, B, n, order, E, file, ExtentOf
\* What the places of two samples have to do with each other.
<1> DEFINE PlaceOf(p) == OffsetIn(tracks, start, p)
<1>9. /\ \A p \in P : /\ PlaceOf(p) \in Nat /\ start <= PlaceOf(p) /\ SampleAt(tracks, p).size \in Nat \ {0}
                      /\ B[p] = {} => PlaceOf(p) = start
      /\ \A p, q \in P : /\ B[q] = B[p] \cup {p} /\ p \notin B[p] =>
                               PlaceOf(q) = PlaceOf(p) + SampleAt(tracks, p).size
                         /\ p \in B[q] => PlaceOf(p) + SampleAt(tracks, p).size <= PlaceOf(q)
    BY <1>1, OffsetsAddUp DEF P, B
<1>10. \A k \in 1..n : /\ E[k].start = PlaceOf(order[k])
                      /\ E[k].end = PlaceOf(order[k]) + SampleAt(tracks, order[k]).size
    BY <1>6
<1> HIDE DEF PlaceOf
<1>11. \A k \in 1..n : /\ E[k].start \in Nat /\ start <= E[k].start
                      /\ SampleAt(tracks, order[k]).size \in Nat \ {0}
    <2>1. ASSUME NEW k \in 1..n
          PROVE  /\ E[k].start \in Nat /\ start <= E[k].start
                 /\ SampleAt(tracks, order[k]).size \in Nat \ {0}
        <3>1. order[k] \in P
            BY <1>2
        <3>2. /\ PlaceOf(order[k]) \in Nat /\ start <= PlaceOf(order[k])
              /\ SampleAt(tracks, order[k]).size \in Nat \ {0}
            BY <1>9, <3>1
        <3> QED
            BY <1>10, <3>2
    <2> QED
        BY <2>1
<1>12. E[1].start = start
    <2>1. 1 \in 1..n /\ order[1] \in P /\ Cardinality(B[order[1]]) = 0
        BY <1>2, <1>3
    <2>2. B[order[1]] = {}
        <3>1. B[order[1]] \in SUBSET P /\ IsFiniteSet(P)
            BY <2>1, PlacesAreFinite DEF SamplesBefore, P, B
        <3>2. IsFiniteSet(B[order[1]])
            BY <3>1, FS_Subset
        <3> QED
            BY <2>1, <3>2, FS_EmptySet
    <2> QED
        BY <1>9, <1>10, <2>1, <2>2
<1>13. ASSUME NEW k \in 1..n, k + 1 <= n PROVE E[k + 1].start = E[k].end
    <2>1. k + 1 \in 1..n
        BY <1>2, <1>13
    <2>2. /\ order[k] \in P /\ order[k + 1] \in P /\ B[order[k + 1]] = B[order[k]] \cup {order[k]}
          /\ order[k] \notin B[order[k]]
        BY <1>2, <1>13, <2>1
    <2>3. PlaceOf(order[k + 1]) = PlaceOf(order[k]) + SampleAt(tracks, order[k]).size
        BY <1>9, <2>2
    <2> QED
        BY <1>10, <2>1, <2>3
<1>14. ASSUME NEW j \in 1..n, NEW k \in 1..n, j < k
       PROVE  /\ order[j] # order[k] /\ E[j].end <= E[k].start
              /\ SampleAt(tracks, order[j]).decode_time * tracks[order[k][1]].timescale
                    <= SampleAt(tracks, order[k]).decode_time * tracks[order[j][1]].timescale
    <2>1. order[j] \in P /\ order[k] \in P /\ order[j] \in B[order[k]]
        BY <1>2, <1>14
    <2>2. E[j].end <= E[k].start
        <3>1. PlaceOf(order[j]) + SampleAt(tracks, order[j]).size <= PlaceOf(order[k])
            BY <1>9, <2>1
        <3> QED
            BY <1>10, <3>1
    <2>3. order[j] # order[k]
        <3>1. Cardinality(B[order[j]]) = j - 1 /\ Cardinality(B[order[k]]) = k - 1
            BY <1>2
        <3> QED
            BY <1>2, <1>14, <3>1
    <2>4. ComesBefore(tracks, order[j], order[k])
        BY <2>1 DEF SamplesBefore, P, B
    <2> DEFINE left == SampleAt(tracks, order[j]).decode_time * tracks[order[k][1]].timescale
               right == SampleAt(tracks, order[k]).decode_time * tracks[order[j][1]].timescale
    <2>5. left < right \/ left = right
        BY <2>4 DEF ComesBefore
    <2>6. left \in Nat /\ right \in Nat
        <3>1. \A p \in P : SampleAt(tracks, p).decode_time \in Nat /\ tracks[p[1]].timescale \in Nat \ {0}
            BY PlacesAre DEF P, SampleAt, IsTracks, IsTrack
        <3>2. PICK a \in Nat, b \in Nat : /\ a = SampleAt(tracks, order[j]).decode_time
                                          /\ b = tracks[order[k][1]].timescale
            BY <2>1, <3>1
        <3>3. PICK c \in Nat, d \in Nat : /\ c = SampleAt(tracks, order[k]).decode_time
                                          /\ d = tracks[order[j][1]].timescale
            BY <2>1, <3>1
        <3>4. a * b \in Nat /\ c * d \in Nat
            OBVIOUS
        <3>5. left = a * b /\ right = c * d
            BY <3>2, <3>3
        <3> HIDE DEF left, right
        <3> QED
            BY <3>4, <3>5
    <2>7. left <= right
        <3> HIDE DEF left, right
        <3> QED
            BY <2>5, <2>6
    <2> QED
        BY <2>2, <2>3, <2>7
<1>15. FillsItsFile(tracks, file)
    <2>1. n \in Nat \ {0}
        BY <1>2, <1>3
    <2> QED
        BY <1>1, <1>2, <1>5, <1>6, <1>7, <1>8, <1>11, <1>12, <1>13, <1>14, <2>1 DEF FillsItsFile, E, order, n, P
<1>16. PointsToSamples(tracks, file)
    <2>1. DOMAIN file.moov = DOMAIN tracks
        BY <1>5 DEF build_moov
    <2>2. ASSUME NEW k \in 1..n
          PROVE  /\ DOMAIN file.moov[order[k][1]].co64 = DOMAIN tracks[order[k][1]].samples
                 /\ file.moov[order[k][1]].co64[order[k][2]] = E[k].start
        <3>1. order[k] \in P /\ order[k][1] \in DOMAIN tracks
            BY <1>2, PlacesAre DEF P
        <3>2. file.moov[order[k][1]].co64 = offsets[order[k][1]]
            BY <1>5, <3>1 DEF build_moov, TablesOf
        <3>3. DOMAIN offsets[order[k][1]] = DOMAIN tracks[order[k][1]].samples
            BY <3>1 DEF offsets, Places
        <3> QED
            BY <1>4, <1>6, <3>1, <3>2, <3>3
    <2>3. file.header = FtypSize + MoovSize(file.moov) + MdatHeader
        BY <1>5, HeaderKeepsItsSize DEF start, offsets, HeaderOf
    <2> QED
        BY <1>7, <2>1, <2>2, <2>3 DEF PointsToSamples, E, order
<1> QED
    BY <1>15, <1>16 DEF file

-----------------------------------------------------------------------------
(* Sequences put together.                                                 *)

\* What is reached after each of the n elements, when G takes the number of an
\* element and what was reached before it.
Chain(G, base, n, V, c) ==
    c \in [0..n -> V] /\ c[0] = base /\ \A i \in 1..n : c[i] = G[<<i, c[i - 1]>>]

LEMMA GreatestOfFirst ==
    ASSUME NEW i \in Nat \ {0}
    PROVE  Max(1..i) = i /\ (1..i) \ {i} = 1..(i - 1) /\ 1..i # {}
<1>1. Max(1..i) \in 1..i /\ \A j \in 1..i : Max(1..i) >= j
    <2>1. \E x \in 1..i : \A y \in 1..i : x >= y
        <3>1. i \in 1..i /\ \A y \in 1..i : i >= y
            OBVIOUS
        <3> QED
            BY <3>1
    <2> QED
        BY <2>1 DEF Max
<1> QED
    BY <1>1

\* A function that goes on as G does while it stays in V stays in V.
LEMMA ChainOf ==
    ASSUME NEW n \in Nat, NEW V, NEW base \in V, NEW G, IsStep(G, n, V), NEW it, it[0] = base,
           \A i \in 1..n : it[i - 1] \in V => it[i] = G[<<i, it[i - 1]>>]
    PROVE  Chain(G, base, n, V, [i \in 0..n |-> it[i]])
<1> DEFINE Bad == {i \in 1..n : it[i] \notin V}
           c == [i \in 0..n |-> it[i]]
<1>1. Bad = {}
    <2> SUFFICES ASSUME Bad # {} PROVE FALSE
        OBVIOUS
    <2>1. PICK m \in Bad : \A k \in Bad : m <= k
        <3>1. Bad \in SUBSET (1..n)
            OBVIOUS
        <3> HIDE DEF Bad
        <3> QED
            BY <3>1, LeastExists
    <2>2. m \in 1..n /\ it[m] \notin V
        BY <2>1
    <2>3. it[m - 1] \in V
        <3>1. CASE m = 1
            BY <3>1
        <3>2. CASE m # 1
            <4>1. m - 1 \in 1..n /\ m - 1 \notin Bad
                <5>1. m - 1 \in 1..n /\ ~(m <= m - 1)
                    BY <2>2, <3>2
                <5> QED
                    BY <2>1, <5>1
            <4> QED
                BY <4>1
        <3> QED
            BY <3>1, <3>2
    <2>4. it[m] = G[<<m, it[m - 1]>>]
        BY <2>2, <2>3
    <2> QED
        BY <2>2, <2>3, <2>4 DEF IsStep
<1>2. \A i \in 0..n : it[i] \in V
    <2> SUFFICES ASSUME NEW i \in 0..n PROVE it[i] \in V
        OBVIOUS
    <2>1. i = 0 \/ i \in 1..n
        OBVIOUS
    <2> QED
        BY <1>1, <2>1
<1>3. c \in [0..n -> V] /\ c[0] = base
    BY <1>2
<1>4. ASSUME NEW i \in 1..n PROVE c[i] = G[<<i, c[i - 1]>>]
    <2>1. i \in 0..n /\ i - 1 \in 0..n
        OBVIOUS
    <2> QED
        BY <1>2, <2>1
<1> HIDE DEF c
<1> QED
    BY <1>3, <1>4 DEF Chain, c

LEMMA ChainsExist ==
    ASSUME NEW n \in Nat, NEW V, NEW base \in V, NEW G, IsStep(G, n, V)
    PROVE  \E c : Chain(G, base, n, V, c)
<1>1. PICK g : Folds(G, base, n, V, g)
    BY FoldsExist
<1> DEFINE it == [i \in 0..n |-> g[1..i]]
<1>2. it[0] = base
    <2>1. 1..0 = {} /\ {} \in SUBSET (1..n) /\ 0 \in 0..n
        OBVIOUS
    <2> QED
        BY <1>1, <2>1 DEF Folds, FoldStep
<1>3. ASSUME NEW i \in 1..n PROVE it[i] = G[<<i, it[i - 1]>>]
    <2>1. 1..i \in SUBSET (1..n) /\ 1..i # {} /\ i \in 0..n /\ i - 1 \in 0..n
        OBVIOUS
    <2>2. Max(1..i) = i /\ (1..i) \ {i} = 1..(i - 1)
        <3>1. i \in Nat \ {0}
            OBVIOUS
        <3> QED
            BY <3>1, GreatestOfFirst
    <2>3. g[1..i] = G[<<i, g[1..(i - 1)]>>]
        BY <1>1, <2>1, <2>2 DEF Folds, FoldStep
    <2> QED
        BY <2>1, <2>3
<1> HIDE DEF it
<1>4. Chain(G, base, n, V, [i \in 0..n |-> it[i]])
    BY <1>2, <1>3, ChainOf, SMTT(30)
<1> QED
    BY <1>4

\* c[i] puts the first i of the sequences together.
Concats(c, s, n, V) ==
    c \in [0..n -> Seq(V)] /\ c[0] = <<>> /\ \A i \in 1..n : c[i] = c[i - 1] \o s[i]

BeginsAs(s, t, n) == \A i \in 1..n : s[i] = t[i]
GoesOnAs(t, s, n, m, V) == \A j \in 1..m : t[n + j] = s[j] /\ s[j] \in Seq(V)

LEMMA ConcatsAgree ==
    ASSUME NEW n \in Nat, NEW m \in Nat, n <= m, NEW V, NEW s, NEW t, BeginsAs(s, t, n),
           NEW c, NEW d, Concats(c, s, n, V), Concats(d, t, m, V)
    PROVE  \A i \in 0..n : c[i] = d[i]
<1> DEFINE Bad == {i \in 1..n : c[i] # d[i]}
<1>1. Bad = {}
    <2> SUFFICES ASSUME Bad # {} PROVE FALSE
        OBVIOUS
    <2>1. PICK k \in Bad : \A j \in Bad : k <= j
        <3>1. Bad \in SUBSET (1..n)
            OBVIOUS
        <3> HIDE DEF Bad
        <3> QED
            BY <3>1, LeastExists
    <2>2. k \in 1..n /\ k \in 1..m /\ c[k] # d[k]
        BY <2>1
    <2>3. c[k - 1] = d[k - 1]
        <3>1. CASE k = 1
            BY <3>1 DEF Concats
        <3>2. CASE k # 1
            <4>1. k - 1 \in 1..n /\ k - 1 \notin Bad
                <5>1. k - 1 \in 1..n /\ ~(k <= k - 1)
                    BY <2>2, <3>2
                <5> QED
                    BY <2>1, <5>1
            <4> QED
                BY <4>1
        <3> QED
            BY <3>1, <3>2
    <2>4. c[k] = c[k - 1] \o s[k] /\ d[k] = d[k - 1] \o t[k]
        BY <2>2 DEF Concats
    <2>5. s[k] = t[k]
        BY <2>2 DEF BeginsAs
    <2> QED
        BY <2>2, <2>3, <2>4, <2>5
<1>2. c[0] = d[0]
    BY DEF Concats
<1> SUFFICES ASSUME NEW i \in 0..n PROVE c[i] = d[i]
    OBVIOUS
<1>3. i = 0 \/ i \in 1..n
    OBVIOUS
<1> QED
    BY <1>1, <1>2, <1>3

LEMMA ConcatsExist ==
    ASSUME NEW n \in Nat, NEW V, NEW s, \A i \in 1..n : s[i] \in Seq(V)
    PROVE  \E c : Concats(c, s, n, V)
<1> DEFINE S == Seq(V)
           G == [p \in (1..n) \X S |-> p[2] \o s[p[1]]]
           base == <<>>
<1>1. \A i \in 1..n, a \in S : G[<<i, a>>] = a \o s[i] /\ a \o s[i] \in S
    <2> SUFFICES ASSUME NEW i \in 1..n, NEW a \in S PROVE G[<<i, a>>] = a \o s[i] /\ a \o s[i] \in S
        OBVIOUS
    <2>1. <<i, a>> \in (1..n) \X S
        OBVIOUS
    <2>2. G[<<i, a>>] = <<i, a>>[2] \o s[<<i, a>>[1]]
        BY <2>1
    <2>3. a \o s[i] \in S
        BY ConcatProperties
    <2> QED
        BY <2>2, <2>3
<1>2. base \in S
    OBVIOUS
<1> HIDE DEF S, G, base
<1>3. IsStep(G, n, S)
    BY <1>1 DEF IsStep
<1>4. PICK c : Chain(G, base, n, S, c)
    BY <1>2, <1>3, ChainsExist
<1>5. \A i \in 1..n : c[i - 1] \in S
    <2> SUFFICES ASSUME NEW i \in 1..n PROVE c[i - 1] \in S
        OBVIOUS
    <2>1. i - 1 \in 0..n
        OBVIOUS
    <2> QED
        BY <1>4, <2>1 DEF Chain
<1>6. Concats(c, s, n, V)
    BY <1>1, <1>4, <1>5 DEF Chain, Concats, S, base
<1> QED
    BY <1>6

LEMMA FlattenUnfolds ==
    ASSUME NEW V, NEW n \in Nat, NEW s, s = [i \in 1..n |-> s[i]], \A i \in 1..n : s[i] \in Seq(V)
    PROVE  \E c : Concats(c, s, n, V) /\ FlattenSeq(s) = c[n]
<1>1. Len(s) = n
    BY LenOf
<1>2. PICK c : Concats(c, s, n, V)
    BY ConcatsExist
<1>3. CASE n = 0
    <2>1. s = <<>>
        BY <1>3
    <2>2. FlattenSeq(s) = s
        BY <1>1, <1>3 DEF FlattenSeq
    <2> QED
        BY <1>2, <1>3, <2>1, <2>2 DEF Concats
<1>4. CASE n # 0
    <2> DEFINE f == CHOOSE g : g = [i \in 1..n |-> IF i = 1 THEN s[i] ELSE g[i - 1] \o s[i]]
               h == [i \in 1..n |-> c[i]]
               Bad == {i \in 1..n : f[i] # c[i]}
    <2>1. FlattenSeq(s) = f[n]
        BY <1>1, <1>4 DEF FlattenSeq
    <2>2. \A i \in 1..n : h[i] = IF i = 1 THEN s[i] ELSE h[i - 1] \o s[i]
        <3> SUFFICES ASSUME NEW i \in 1..n PROVE h[i] = IF i = 1 THEN s[i] ELSE h[i - 1] \o s[i]
            OBVIOUS
        <3>1. h[i] = c[i - 1] \o s[i]
            BY <1>2 DEF Concats
        <3>2. CASE i = 1
            <4>1. c[i - 1] = <<>> /\ s[i] \in Seq(V)
                BY <1>2, <3>2 DEF Concats
            <4> QED
                BY <3>1, <3>2, <4>1, ConcatEmptySeq
        <3>3. CASE i # 1
            <4>1. i - 1 \in 1..n
                BY <3>3
            <4>2. h[i - 1] = c[i - 1]
                BY <4>1
            <4> QED
                BY <3>1, <3>3, <4>2
        <3> QED
            BY <3>2, <3>3
    <2>3. h = [i \in 1..n |-> IF i = 1 THEN s[i] ELSE h[i - 1] \o s[i]]
        <3>1. h = [i \in 1..n |-> h[i]]
            OBVIOUS
        <3> HIDE DEF h
        <3> QED
            BY <2>2, <3>1
    <2>4. f = [i \in 1..n |-> IF i = 1 THEN s[i] ELSE f[i - 1] \o s[i]]
        <3> HIDE DEF h
        <3> QED
            BY <2>3
    <2> HIDE DEF f, h
    <2>5. \A i \in 1..n : f[i] = IF i = 1 THEN s[i] ELSE f[i - 1] \o s[i]
        <3> DEFINE r == [i \in 1..n |-> IF i = 1 THEN s[i] ELSE f[i - 1] \o s[i]]
        <3>1. f = r
            BY <2>4
        <3>2. \A i \in 1..n : r[i] = IF i = 1 THEN s[i] ELSE f[i - 1] \o s[i]
            OBVIOUS
        <3> HIDE DEF r
        <3> QED
            BY <3>1, <3>2
    <2>6. Bad = {}
        <3> SUFFICES ASSUME Bad # {} PROVE FALSE
            OBVIOUS
        <3>1. PICK k \in Bad : \A j \in Bad : k <= j
            <4>1. Bad \in SUBSET (1..n)
                OBVIOUS
            <4> HIDE DEF Bad
            <4> QED
                BY <4>1, LeastExists
        <3>2. k \in 1..n /\ f[k] # c[k] /\ c[k] = c[k - 1] \o s[k]
            BY <1>2, <3>1 DEF Concats
        <3>3. CASE k = 1
            <4>1. f[k] = s[k]
                BY <2>5, <3>2, <3>3
            <4>2. c[k - 1] = <<>>
                <5>1. c[0] = <<>> /\ k - 1 = 0
                    BY <1>2, <3>3 DEF Concats
                <5> QED
                    BY <5>1
            <4>3. s[k] \in Seq(V)
                BY <3>2
            <4> QED
                BY <3>2, <4>1, <4>2, <4>3, ConcatEmptySeq
        <3>4. CASE k # 1
            <4>1. k - 1 \in 1..n /\ k - 1 \notin Bad
                <5>1. k - 1 \in 1..n /\ ~(k <= k - 1)
                    BY <3>2, <3>4
                <5> QED
                    BY <3>1, <5>1
            <4>2. f[k - 1] = c[k - 1]
                BY <4>1
            <4>3. f[k] = f[k - 1] \o s[k]
                BY <2>5, <3>2, <3>4
            <4> QED
                BY <3>2, <4>2, <4>3
        <3> QED
            BY <3>3, <3>4
    <2>7. f[n] = c[n]
        <3>1. n \in 1..n
            BY <1>4
        <3> QED
            BY <2>6, <3>1
    <2> QED
        BY <1>2, <2>1, <2>7
<1> QED
    BY <1>3, <1>4

-----------------------------------------------------------------------------
(* Reading the file: the bytes of a plan.                                  *)

\* Parts of what is named.
PartsOf(Names) == {p \in [source : Names, start : Nat, end : Nat] : p.start <= p.end}
BytesIn(Names) == Names \X Nat

\* The bytes of a part and of several parts in their order.
PartBytes(part) == [i \in 1..(part.end - part.start) |-> <<part.source, part.start + i - 1>>]
Spelled(parts) == FlattenSeq([k \in DOMAIN parts |-> PartBytes(parts[k])])

LEMMA PartBytesAre ==
    ASSUME NEW Names, NEW p \in PartsOf(Names)
    PROVE  /\ p.source \in Names /\ p.start \in Nat /\ p.end \in Nat /\ p.start <= p.end
           /\ p = [source |-> p.source, start |-> p.start, end |-> p.end]
           /\ PartBytes(p) \in Seq(BytesIn(Names)) /\ Len(PartBytes(p)) = p.end - p.start
           /\ \A i \in 1..(p.end - p.start) : PartBytes(p)[i] = <<p.source, p.start + i - 1>>
<1> DEFINE n == p.end - p.start
           b == PartBytes(p)
<1>1. /\ p.source \in Names /\ p.start \in Nat /\ p.end \in Nat /\ p.start <= p.end
      /\ p = [source |-> p.source, start |-> p.start, end |-> p.end]
    BY DEF PartsOf
<1>2. n \in Nat
    BY <1>1
<1>3. b = [i \in 1..n |-> <<p.source, p.start + i - 1>>]
    BY DEF PartBytes
<1>4. ASSUME NEW i \in 1..n PROVE <<p.source, p.start + i - 1>> \in BytesIn(Names)
    <2>1. p.start + i - 1 \in Nat
        BY <1>1, <1>2
    <2> QED
        BY <1>1, <2>1 DEF BytesIn
<1>5. \A i \in 1..n : b[i] = <<p.source, p.start + i - 1>>
    BY <1>3
<1>6. b \in [1..n -> BytesIn(Names)]
    BY <1>3, <1>4
<1> HIDE DEF b, n
<1>7. b \in Seq(BytesIn(Names)) /\ Len(b) = n
    <2>1. b = [i \in 1..n |-> b[i]]
        BY <1>6
    <2>2. Len(b) = n
        BY <1>2, <2>1, LenOf
    <2> QED
        BY <1>2, <1>6, <2>2
<1> QED
    BY <1>1, <1>5, <1>7 DEF b, n

\* c[i] are the bytes of the first i parts.
SpelledBy(c, parts, Names) ==
    /\ Concats(c, [k \in 1..Len(parts) |-> PartBytes(parts[k])], Len(parts), BytesIn(Names))
    /\ Spelled(parts) = c[Len(parts)] /\ c[Len(parts)] \in Seq(BytesIn(Names))

LEMMA SpelledUnfolds ==
    ASSUME NEW Names, NEW parts \in Seq(PartsOf(Names))
    PROVE  \E c : SpelledBy(c, parts, Names)
<1> DEFINE All == PartsOf(Names)
           n == Len(parts)
           s == [k \in 1..n |-> PartBytes(parts[k])]
<1>1. n \in Nat /\ DOMAIN parts = 1..n /\ \A k \in 1..n : parts[k] \in All
    <2> HIDE DEF All
    <2> QED
        BY DEF All
<1>2. Spelled(parts) = FlattenSeq(s)
    BY <1>1 DEF Spelled
<1>3. \A k \in 1..n : s[k] = PartBytes(parts[k]) /\ PartBytes(parts[k]) \in Seq(BytesIn(Names))
    BY <1>1, PartBytesAre
<1>4. s = [k \in 1..n |-> s[k]]
    BY <1>3
<1> HIDE DEF s, n
<1>5. \A k \in 1..n : s[k] \in Seq(BytesIn(Names))
    BY <1>3
<1>6. PICK c : Concats(c, s, n, BytesIn(Names)) /\ FlattenSeq(s) = c[n]
    BY <1>1, <1>4, <1>5, FlattenUnfolds, ZenonT(30)
<1>7. c[n] \in Seq(BytesIn(Names))
    <2>1. n \in 0..n
        BY <1>1
    <2> QED
        BY <1>6, <2>1 DEF Concats
<1> QED
    BY <1>2, <1>6, <1>7, Zenon DEF s, n, SpelledBy

\* The same, step by step.
SpelledSteps(c, parts, n, Names) ==
    /\ n = Len(parts) /\ c \in [0..n -> Seq(BytesIn(Names))] /\ c[0] = <<>> /\ Spelled(parts) = c[n]
    /\ \A k \in 1..n : c[k] = c[k - 1] \o PartBytes(parts[k])

LEMMA SpelledNone ==
    ASSUME NEW Names
    PROVE  <<>> \in Seq(PartsOf(Names)) /\ Spelled(<<>>) = <<>>
<1> DEFINE All == PartsOf(Names)
           none == <<>>
<1>1. none \in Seq(All) /\ Len(none) = 0
    <2> HIDE DEF All
    <2> QED
        OBVIOUS
<1> HIDE DEF none
<1>2. PICK e : SpelledBy(e, none, Names)
    BY <1>1, SpelledUnfolds
<1>3. Spelled(none) = e[0] /\ e[0] = <<>>
    BY <1>1, <1>2 DEF SpelledBy, Concats
<1> QED
    BY <1>1, <1>3 DEF none

LEMMA SpelledBySteps ==
    ASSUME NEW Names, NEW parts \in Seq(PartsOf(Names))
    PROVE  \E c : SpelledSteps(c, parts, Len(parts), Names)
<1> DEFINE n == Len(parts)
           s == [k \in 1..n |-> PartBytes(parts[k])]
<1>1. PICK c : SpelledBy(c, parts, Names)
    BY SpelledUnfolds
<1>2. /\ c \in [0..n -> Seq(BytesIn(Names))] /\ c[0] = <<>> /\ Spelled(parts) = c[n]
      /\ \A k \in 1..n : c[k] = c[k - 1] \o s[k]
    BY <1>1 DEF SpelledBy, Concats
<1>3. \A k \in 1..n : s[k] = PartBytes(parts[k])
    OBVIOUS
<1> HIDE DEF s, n
<1>4. \A k \in 1..n : c[k] = c[k - 1] \o PartBytes(parts[k])
    BY <1>2, <1>3, Zenon
<1>5. SpelledSteps(c, parts, n, Names)
    BY <1>2, <1>4, Zenon DEF SpelledSteps, n
<1> QED
    BY <1>5, Zenon DEF n

LEMMA SpelledOne ==
    ASSUME NEW Names, NEW p \in PartsOf(Names)
    PROVE  Spelled(<<p>>) = PartBytes(p) /\ Spelled(<<>>) = <<>> /\ <<p>> \in Seq(PartsOf(Names))
<1> DEFINE All == PartsOf(Names)
           one == <<p>>
           none == <<>>
           s == [k \in 1..Len(one) |-> PartBytes(one[k])]
<1>1. one \in Seq(All) /\ Len(one) = 1 /\ one[1] = p /\ none \in Seq(All) /\ Len(none) = 0
    <2>1. p \in All
        OBVIOUS
    <2> HIDE DEF All
    <2> QED
        BY <2>1
<1> HIDE DEF one, none
<1>2. s[1] = PartBytes(p)
    BY <1>1
<1>3. PICK c : SpelledBy(c, one, Names)
    BY <1>1, SpelledUnfolds
<1>4. PICK e : SpelledBy(e, none, Names)
    BY <1>1, SpelledUnfolds
<1>5. Spelled(none) = e[0] /\ e[0] = <<>>
    BY <1>1, <1>4 DEF SpelledBy, Concats
<1>6. c[0] = <<>> /\ Spelled(one) = c[1] /\ \A i \in 1..1 : c[i] = c[i - 1] \o s[i]
    BY <1>1, <1>3 DEF SpelledBy, Concats
<1> HIDE DEF s
<1>7. c[1] = c[0] \o PartBytes(p)
    <2>1. 1 \in 1..1 /\ 1 - 1 = 0
        OBVIOUS
    <2>2. c[1] = c[1 - 1] \o s[1]
        BY <1>6, <2>1, Zenon
    <2> QED
        BY <1>2, <2>1, <2>2
<1>8. Spelled(one) = PartBytes(p)
    <2>1. PartBytes(p) \in Seq(BytesIn(Names))
        BY PartBytesAre
    <2>2. <<>> \o PartBytes(p) = PartBytes(p)
        BY <2>1, ConcatEmptySeq
    <2> QED
        BY <1>6, <1>7, <2>2
<1> QED
    BY <1>1, <1>5, <1>8 DEF one, none

\* Two rows of sequences, sa and sb, are put together by c and e, and one after the other by d.
TwoRows(c, e, d, sa, sb, st, n, m, V) ==
    /\ n \in Nat /\ m \in Nat /\ BeginsAs(sa, st, n) /\ GoesOnAs(st, sb, n, m, V)
    /\ Concats(c, sa, n, V) /\ Concats(e, sb, m, V) /\ Concats(d, st, n + m, V)
OneAfter(c, e, d, n, m) == d[n + m] = c[n] \o e[m]

LEMMA ConcatsJoin ==
    ASSUME NEW V, NEW n, NEW m, NEW sa, NEW sb, NEW st, NEW c, NEW e, NEW d,
           TwoRows(c, e, d, sa, sb, st, n, m, V)
    PROVE  OneAfter(c, e, d, n, m)
<1> USE DEF TwoRows
<1>1. n \in Nat /\ m \in Nat /\ n + m \in Nat /\ n <= n + m /\ n \in 0..n
    BY SMT
<1>2. d[n] = c[n] /\ c[n] \in Seq(V)
    <2>1. \A i \in 0..n : c[i] = d[i]
        BY <1>1, ConcatsAgree
    <2> QED
        BY <1>1, <2>1 DEF Concats
<1>3. ASSUME NEW j \in 1..m, d[n + (j - 1)] = c[n] \o e[j - 1] PROVE d[n + j] = c[n] \o e[j]
    <2>1. d[n + j] = d[n + (j - 1)] \o sb[j]
        <3>1. n + j \in 1..(n + m) /\ (n + j) - 1 = n + (j - 1)
            OBVIOUS
        <3>2. \A i \in 1..(n + m) : d[i] = d[i - 1] \o st[i]
            BY Zenon DEF Concats
        <3>3. d[n + j] = d[(n + j) - 1] \o st[n + j]
            BY <3>1, <3>2, Zenon
        <3>4. st[n + j] = sb[j]
            BY DEF GoesOnAs
        <3> QED
            BY <3>1, <3>3, <3>4
    <2>2. e[j] = e[j - 1] \o sb[j]
        BY Zenon DEF Concats
    <2>3. e[j - 1] \in Seq(V) /\ sb[j] \in Seq(V)
        <3>1. j - 1 \in 0..m
            OBVIOUS
        <3> QED
            BY <3>1 DEF Concats, GoesOnAs
    <2>4. (c[n] \o e[j - 1]) \o sb[j] = c[n] \o (e[j - 1] \o sb[j])
        <3>1. PICK x \in Seq(V), y \in Seq(V), z \in Seq(V) : x = c[n] /\ y = e[j - 1] /\ z = sb[j]
            BY <1>2, <2>3
        <3>2. (x \o y) \o z = x \o (y \o z)
            BY ONLY ConcatAssociative, SMTT(30)
        <3> QED
            BY <3>1, <3>2
    <2> QED
        BY <1>3, <2>1, <2>2, <2>4, Zenon
<1> DEFINE Bad == {j \in 1..m : d[n + j] # c[n] \o e[j]}
<1>4. d[n + 0] = c[n] \o e[0]
    <2>1. e[0] = <<>> /\ n + 0 = n
        BY DEF Concats
    <2>2. c[n] \o <<>> = c[n]
        BY <1>2, ConcatEmptySeq
    <2> QED
        BY <1>2, <2>1, <2>2
<1>5. Bad = {}
    <2> SUFFICES ASSUME Bad # {} PROVE FALSE
        OBVIOUS
    <2>1. PICK l \in Bad : \A j \in Bad : l <= j
        <3>1. Bad \in SUBSET (1..m)
            OBVIOUS
        <3> HIDE DEF Bad
        <3> QED
            BY <3>1, LeastExists
    <2>2. l \in 1..m /\ d[n + l] # c[n] \o e[l]
        BY <2>1
    <2>3. d[n + (l - 1)] = c[n] \o e[l - 1]
        <3>1. CASE l = 1
            <4>1. l - 1 = 0
                BY <3>1
            <4> QED
                BY <1>4, <4>1
        <3>2. CASE l # 1
            <4>1. l - 1 \in 1..m /\ ~(l <= l - 1)
                BY <2>2, <3>2
            <4>2. l - 1 \notin Bad
                BY <2>1, <4>1
            <4> QED
                BY <4>1, <4>2
        <3> QED
            BY <3>1, <3>2
    <2> QED
        BY <1>3, <2>2, <2>3, Zenon
<1> QED
    <2>1. m = 0 \/ m \in 1..m
        OBVIOUS
    <2> QED
        BY <1>4, <1>5, <2>1 DEF OneAfter

\* Parts one after the other are read one after the other.
LEMMA SpelledJoins ==
    ASSUME NEW Names, NEW a \in Seq(PartsOf(Names)), NEW b \in Seq(PartsOf(Names))
    PROVE  /\ a \o b \in Seq(PartsOf(Names))
           /\ Spelled(a) \in Seq(BytesIn(Names)) /\ Spelled(b) \in Seq(BytesIn(Names))
           /\ Spelled(a \o b) = Spelled(a) \o Spelled(b)
<1> DEFINE All == PartsOf(Names)
           V == BytesIn(Names)
           n == Len(a)
           m == Len(b)
           t == a \o b
           sa == [k \in 1..n |-> PartBytes(a[k])]
           sb == [k \in 1..m |-> PartBytes(b[k])]
           st == [k \in 1..(n + m) |-> PartBytes(t[k])]
<1>1. /\ n \in Nat /\ m \in Nat /\ n + m \in Nat /\ t \in Seq(All) /\ Len(t) = n + m
      /\ \A i \in 1..(n + m) : t[i] = IF i <= n THEN a[i] ELSE b[i - n]
    <2> HIDE DEF All
    <2> QED
        BY ConcatProperties DEF All
<1>2. PICK c : Concats(c, sa, n, V) /\ Spelled(a) = c[n] /\ c[n] \in Seq(V)
    <2>1. PICK c : SpelledBy(c, a, Names)
        BY SpelledUnfolds
    <2> QED
        BY <2>1 DEF SpelledBy
<1>3. PICK e : Concats(e, sb, m, V) /\ Spelled(b) = e[m] /\ e[m] \in Seq(V)
    <2>1. PICK e : SpelledBy(e, b, Names)
        BY SpelledUnfolds
    <2> QED
        BY <2>1 DEF SpelledBy
<1> HIDE DEF t
<1>4. PICK d : Concats(d, st, n + m, V) /\ Spelled(t) = d[n + m]
    <2>1. PICK d : SpelledBy(d, t, Names)
        BY <1>1, SpelledUnfolds
    <2> QED
        BY <1>1, <2>1 DEF SpelledBy
<1> HIDE DEF n, m
<1>5. \A i \in 1..n : sa[i] = st[i]
    BY <1>1
<1>6. \A j \in 1..m : n + j \in 1..(n + m) /\ st[n + j] = sb[j]
    BY <1>1
<1>7. \A j \in 1..m : sb[j] \in Seq(V)
    <2> SUFFICES ASSUME NEW j \in 1..m PROVE sb[j] \in Seq(V)
        OBVIOUS
    <2>1. b[j] \in All
        <3> HIDE DEF All
        <3> QED
            BY DEF m, All
    <2>2. PartBytes(b[j]) \in Seq(V)
        BY <2>1, PartBytesAre
    <2> QED
        BY <2>2
<1>8. \A j \in 1..m : st[n + j] = sb[j] /\ sb[j] \in Seq(V)
    BY <1>6, <1>7
<1> HIDE DEF sa, sb, st, V
<1>9. d[n + m] = c[n] \o e[m]
    <2>1. Concats(c, sa, n, V) /\ Concats(e, sb, m, V) /\ Concats(d, st, n + m, V)
        BY <1>2, <1>3, <1>4
    <2>2. BeginsAs(sa, st, n) /\ GoesOnAs(st, sb, n, m, V)
        BY <1>5, <1>8 DEF BeginsAs, GoesOnAs
    <2>3. TwoRows(c, e, d, sa, sb, st, n, m, V)
        BY <1>1, <2>1, <2>2 DEF TwoRows
    <2>4. OneAfter(c, e, d, n, m)
        BY <2>3, ConcatsJoin, Zenon
    <2> QED
        BY <2>4 DEF OneAfter
<1> QED
    BY <1>1, <1>2, <1>3, <1>4, <1>9 DEF t, V

\* What is true of 0 and goes on from each number to the next.
GoesUp(T, n) == 0 \in T /\ \A i \in 1..n : i - 1 \in T => i \in T

LEMMA UpTo ==
    ASSUME NEW n \in Nat, NEW T, GoesUp(T, n)
    PROVE  \A i \in 0..n : i \in T
<1> DEFINE Bad == {i \in 1..n : i \notin T}
<1>1. Bad = {}
    <2> SUFFICES ASSUME Bad # {} PROVE FALSE
        OBVIOUS
    <2>1. PICK m \in Bad : \A k \in Bad : m <= k
        <3>1. Bad \in SUBSET (1..n)
            OBVIOUS
        <3> HIDE DEF Bad
        <3> QED
            BY <3>1, LeastExists
    <2>2. m \in 1..n /\ m \notin T
        BY <2>1
    <2>3. m - 1 \in T
        <3>1. CASE m = 1
            BY <3>1 DEF GoesUp
        <3>2. CASE m # 1
            <4>1. m - 1 \in 1..n /\ ~(m <= m - 1)
                BY <2>2, <3>2
            <4> QED
                BY <2>1, <4>1
        <3> QED
            BY <3>1, <3>2
    <2> QED
        BY <2>2, <2>3 DEF GoesUp
<1> SUFFICES ASSUME NEW i \in 0..n PROVE i \in T
    OBVIOUS
<1>2. i = 0 \/ i \in 1..n
    OBVIOUS
<1> QED
    BY <1>1, <1>2 DEF GoesUp

\* A sequence is its front and its last element.
LEMMA LastSplits ==
    ASSUME NEW V, NEW s \in Seq(V), s # <<>>
    PROVE  Front(s) \in Seq(V) /\ Last(s) \in V /\ s = Front(s) \o <<Last(s)>>
<1>1. PICK f \in Seq(V), x \in V : s = Append(f, x)
    BY SequenceEmptyOrAppend
<1>2. Len(s) = Len(f) + 1 /\ Len(f) \in Nat /\ \A i \in 1..Len(f) : s[i] = f[i]
    BY <1>1, AppendProperties
<1>3. Last(s) = x
    BY <1>1, <1>2, AppendProperties DEF Last
<1>4. Front(s) = f
    <2>1. Front(s) = SubSeq(s, 1, Len(f))
        BY <1>2 DEF Front
    <2>2. SubSeq(s, 1, Len(f)) = [i \in 1..Len(f) |-> s[i]]
        BY <1>2
    <2>3. f = [i \in 1..Len(f) |-> f[i]]
        OBVIOUS
    <2> QED
        BY <1>2, <2>1, <2>2, <2>3
<1>5. s = f \o <<x>>
    BY <1>1, AppendIsConcat
<1> QED
    BY <1>3, <1>4, <1>5

\* The bytes byte names from one position up to another.
Reading(byte, from, upto) == [k \in 1..(upto - from) |-> byte[from + k - 1]]
IsByteIn(byte, from, upto, V) == \A p \in from..(upto - 1) : byte[p] \in V
ReadsOn(byte, a, b, c) == Reading(byte, a, c) = Reading(byte, a, b) \o Reading(byte, b, c)

LEMMA ReadingIs ==
    ASSUME NEW V, NEW byte, NEW a \in Nat, NEW b \in Nat, a <= b, IsByteIn(byte, a, b, V)
    PROVE  Reading(byte, a, b) \in Seq(V) /\ Len(Reading(byte, a, b)) = b - a
<1> DEFINE n == b - a
           r == Reading(byte, a, b)
<1>1. n \in Nat /\ r = [k \in 1..n |-> byte[a + k - 1]]
    BY DEF Reading
<1>2. ASSUME NEW k \in 1..n PROVE r[k] \in V
    <2>1. a + k - 1 \in a..(b - 1)
        OBVIOUS
    <2> QED
        BY <1>1, <2>1 DEF IsByteIn
<1>3. r \in [1..n -> V]
    BY <1>1, <1>2
<1> HIDE DEF n, r
<1>4. r = [k \in 1..n |-> r[k]]
    BY <1>3
<1>5. Len(r) = n
    BY <1>1, <1>4, LenOf
<1>6. r \in Seq(V)
    <2>1. n \in Nat
        BY <1>1
    <2> QED
        BY <1>3, <1>5, <2>1
<1> QED
    BY <1>5, <1>6 DEF n, r

LEMMA ReadingGoesOn ==
    ASSUME NEW V, NEW byte, NEW a \in Nat, NEW b \in Nat, NEW c \in Nat, a <= b, b <= c,
           IsByteIn(byte, a, c, V)
    PROVE  ReadsOn(byte, a, b, c)
<1> DEFINE x == Reading(byte, a, b)
           y == Reading(byte, b, c)
           z == Reading(byte, a, c)
           n == b - a
           m == c - b
<1>1. n \in Nat /\ m \in Nat /\ c - a = n + m
    OBVIOUS
<1>2. x \in Seq(V) /\ y \in Seq(V) /\ z \in Seq(V) /\ Len(x) = n /\ Len(y) = m /\ Len(z) = n + m
    <2>1. IsByteIn(byte, a, b, V) /\ IsByteIn(byte, b, c, V) /\ a <= c
        BY DEF IsByteIn
    <2>2. x \in Seq(V) /\ Len(x) = n
        BY <2>1, ReadingIs
    <2>3. y \in Seq(V) /\ Len(y) = m
        BY <2>1, ReadingIs
    <2>4. z \in Seq(V) /\ Len(z) = c - a
        BY <2>1, ReadingIs
    <2> QED
        BY <1>1, <2>2, <2>3, <2>4
<1>3. /\ \A k \in 1..n : x[k] = byte[a + k - 1]
      /\ \A k \in 1..m : y[k] = byte[b + k - 1]
      /\ \A k \in 1..(n + m) : z[k] = byte[a + k - 1]
    BY <1>1 DEF Reading
<1> HIDE DEF x, y, z
<1>4. x \o y \in Seq(V) /\ Len(x \o y) = n + m
    BY <1>1, <1>2, ConcatProperties
<1>5. ASSUME NEW k \in 1..(n + m) PROVE z[k] = (x \o y)[k]
    <2>1. (x \o y)[k] = IF k <= n THEN x[k] ELSE y[k - n]
        BY <1>1, <1>2, ConcatProperties
    <2>2. CASE k <= n
        <3>1. k \in 1..n
            BY <2>2
        <3> QED
            BY <1>3, <2>1, <2>2, <3>1
    <2>3. CASE ~(k <= n)
        <3>1. k - n \in 1..m /\ b + (k - n) - 1 = a + k - 1
            BY <2>3
        <3>2. y[k - n] = byte[b + (k - n) - 1]
            BY <1>3, <3>1
        <3> QED
            BY <1>3, <2>1, <2>3, <3>1, <3>2
    <2> QED
        BY <2>2, <2>3
<1> HIDE DEF n, m
<1>6. z = x \o y
    BY <1>1, <1>2, <1>4, <1>5, SeqEqual
<1> QED
    BY <1>6 DEF x, y, z, ReadsOn

LEMMA ReadingNothing ==
    ASSUME NEW byte, NEW a \in Nat, NEW b \in Nat, b <= a
    PROVE  Reading(byte, a, b) = <<>>
<1>1. 1..(b - a) = {}
    OBVIOUS
<1> QED
    BY <1>1 DEF Reading

\* The k-th part holds the bytes from the (k-1)-th cut up to the k-th.
CutBy(parts, byte, cut, Names) ==
    /\ parts \in Seq(PartsOf(Names)) /\ cut \in [0..Len(parts) -> Nat]
    /\ \A k \in 1..Len(parts) :
         cut[k - 1] <= cut[k] /\ PartBytes(parts[k]) = Reading(byte, cut[k - 1], cut[k])

\* Such parts are read as one.
LEMMA CutsJoin ==
    ASSUME NEW Names, NEW parts, NEW byte, NEW cut, CutBy(parts, byte, cut, Names)
    PROVE  /\ cut[0] <= cut[Len(parts)] /\ IsByteIn(byte, cut[0], cut[Len(parts)], BytesIn(Names))
           /\ Spelled(parts) = Reading(byte, cut[0], cut[Len(parts)])
<1> DEFINE V == BytesIn(Names)
           n == Len(parts)
<1>1. /\ n \in Nat /\ cut \in [0..n -> Nat]
      /\ \A k \in 1..n : /\ cut[k - 1] <= cut[k] /\ PartBytes(parts[k]) = Reading(byte, cut[k - 1], cut[k])
                         /\ parts[k] \in PartsOf(Names)
    <2> DEFINE All == PartsOf(Names)
    <2>1. parts \in Seq(All)
        BY DEF CutBy
    <2> HIDE DEF All
    <2>2. n \in Nat /\ \A k \in 1..n : parts[k] \in All
        BY <2>1
    <2> QED
        BY <2>2 DEF CutBy, All
<1>2. PICK c : SpelledSteps(c, parts, n, Names)
    BY SpelledBySteps DEF CutBy
<1> DEFINE T == {i \in 0..n : /\ cut[0] <= cut[i] /\ IsByteIn(byte, cut[0], cut[i], V)
                              /\ c[i] = Reading(byte, cut[0], cut[i])}
<1>3. 0 \in T
    <2>1. 0 \in 0..n /\ cut[0] \in Nat
        BY <1>1
    <2>2. IsByteIn(byte, cut[0], cut[0], V)
        BY <2>1 DEF IsByteIn
    <2>3. c[0] = Reading(byte, cut[0], cut[0])
        BY <1>2, <2>1, ReadingNothing DEF SpelledSteps
    <2> QED
        BY <2>1, <2>2, <2>3
<1>4. ASSUME NEW k \in 1..n, k - 1 \in T PROVE k \in T
    <2> DEFINE p == parts[k]
    <2>1. PICK x \in Nat, y \in Nat, z \in Nat : x = cut[0] /\ y = cut[k - 1] /\ z = cut[k]
        <3>1. k \in 0..n /\ k - 1 \in 0..n /\ 0 \in 0..n
            BY <1>1
        <3> QED
            BY <1>1, <3>1
    <2>2. x <= y /\ y <= z /\ IsByteIn(byte, x, y, V) /\ c[k - 1] = Reading(byte, x, y)
        BY <1>1, <1>4, <2>1
    <2>3. /\ PartBytes(p) = Reading(byte, y, z) /\ Len(PartBytes(p)) = p.end - p.start
          /\ p.start \in Nat /\ p.end \in Nat /\ p.start <= p.end /\ PartBytes(p) \in Seq(V)
        <3>1. p \in PartsOf(Names)
            BY <1>1
        <3> QED
            BY <1>1, <2>1, <3>1, PartBytesAre
    <2>4. IsByteIn(byte, y, z, V)
        <3> SUFFICES ASSUME NEW q \in y..(z - 1) PROVE byte[q] \in V
            BY DEF IsByteIn
        <3> DEFINE m == z - y
                   r == Reading(byte, y, z)
        <3>1. m \in Nat /\ q - y + 1 \in 1..m /\ y + (q - y + 1) - 1 = q
            BY <2>2
        <3>2. r = [j \in 1..m |-> byte[y + j - 1]]
            BY DEF Reading
        <3>3. r[q - y + 1] = byte[q]
            BY <3>1, <3>2
        <3>4. Len(r) = m
            <4>1. r = [j \in 1..m |-> r[j]]
                BY <3>2
            <4> HIDE DEF r, m
            <4> QED
                BY <3>1, <4>1, LenOf
        <3>5. r \in Seq(V)
            BY <2>3
        <3> HIDE DEF r, m, V
        <3>6. r[q - y + 1] \in V
            BY <3>1, <3>4, <3>5, ElementOfSeq
        <3> QED
            BY <3>3, <3>6
    <2>5. x <= z /\ IsByteIn(byte, x, z, V)
        BY <2>2, <2>4 DEF IsByteIn
    <2>6. ReadsOn(byte, x, y, z)
        BY <2>2, <2>5, ReadingGoesOn
    <2>7. c[k] = c[k - 1] \o PartBytes(p)
        BY <1>2 DEF SpelledSteps
    <2>8. c[k] = Reading(byte, x, z)
        BY <2>2, <2>3, <2>6, <2>7, Zenon DEF ReadsOn
    <2>9. k \in 0..n
        BY <1>1
    <2> QED
        BY <2>1, <2>5, <2>8, <2>9
<1>5. n \in T
    <2>1. GoesUp(T, n)
        <3> HIDE DEF T
        <3> QED
            BY <1>3, <1>4 DEF GoesUp
    <2>2. n \in 0..n
        BY <1>1
    <2> HIDE DEF T, n
    <2> QED
        BY <1>1, <2>1, <2>2, UpTo
<1>6. Spelled(parts) = c[n]
    BY <1>2 DEF SpelledSteps
<1> QED
    BY <1>5, <1>6

\* What is read does not depend on which parts are joined.
SpelledWith(parts, p, Names) ==
    /\ Joined(parts, p) \in Seq(PartsOf(Names))
    /\ Spelled(Joined(parts, p)) = Spelled(parts) \o PartBytes(p)

LEMMA PartsMerge ==
    ASSUME NEW Names, NEW a \in PartsOf(Names), NEW b \in PartsOf(Names), a.source = b.source, a.end = b.start
    PROVE  [a EXCEPT !.end = b.end] \in PartsOf(Names) /\ PartBytes([a EXCEPT !.end = b.end]) = PartBytes(a) \o PartBytes(b)
<1> DEFINE w == [a EXCEPT !.end = b.end]
           byte == [q \in Nat |-> <<a.source, q>>]
<1>1. /\ a.source \in Names /\ a.start \in Nat /\ a.end \in Nat /\ a.start <= a.end
      /\ a = [source |-> a.source, start |-> a.start, end |-> a.end]
      /\ b.start \in Nat /\ b.end \in Nat /\ b.start <= b.end
    BY PartBytesAre
<1>2. w = [source |-> a.source, start |-> a.start, end |-> b.end]
    BY <1>1
<1>3. w \in PartsOf(Names) /\ w.source = a.source /\ w.start = a.start /\ w.end = b.end
    BY <1>1, <1>2 DEF PartsOf
<1> HIDE DEF w
<1>4. ASSUME NEW p, p.start \in Nat, p.end \in Nat, p.source = a.source
      PROVE  PartBytes(p) = Reading(byte, p.start, p.end)
    <2> DEFINE m == p.end - p.start
    <2>1. \A k \in 1..m : p.start + k - 1 \in Nat
        BY <1>4
    <2>2. \A k \in 1..m : byte[p.start + k - 1] = <<p.source, p.start + k - 1>>
        BY <1>4, <2>1
    <2> QED
        BY <2>2 DEF PartBytes, Reading
<1>5. \A q \in Nat : byte[q] \in BytesIn(Names)
    BY <1>1 DEF BytesIn
<1> HIDE DEF byte
<1>6. IsByteIn(byte, a.start, b.end, BytesIn(Names))
    <2>1. \A q \in a.start..(b.end - 1) : q \in Nat
        BY <1>1
    <2> QED
        BY <1>5, <2>1 DEF IsByteIn
<1>7. ReadsOn(byte, a.start, a.end, b.end)
    BY <1>1, <1>6, ReadingGoesOn
<1>8. /\ PartBytes(w) = Reading(byte, a.start, b.end) /\ PartBytes(a) = Reading(byte, a.start, a.end)
      /\ PartBytes(b) = Reading(byte, a.end, b.end)
    <2>1. PartBytes(w) = Reading(byte, w.start, w.end)
        BY <1>1, <1>3, <1>4
    <2>2. PartBytes(a) = Reading(byte, a.start, a.end)
        BY <1>1, <1>4
    <2>3. PartBytes(b) = Reading(byte, b.start, b.end)
        BY <1>1, <1>4
    <2> QED
        BY <1>3, <2>1, <2>2, <2>3
<1>9. PartBytes(w) = PartBytes(a) \o PartBytes(b)
    BY <1>7, <1>8, Zenon DEF ReadsOn
<1> QED
    BY <1>3, <1>9 DEF w

LEMMA JoinedSpells ==
    ASSUME NEW Names, NEW parts \in Seq(PartsOf(Names)), NEW p \in PartsOf(Names)
    PROVE  SpelledWith(parts, p, Names)
<1> DEFINE All == PartsOf(Names)
           V == BytesIn(Names)
<1>1. parts \in Seq(All) /\ p \in All
    OBVIOUS
<1>2. \A a, b \in Seq(All) : /\ a \o b \in Seq(All) /\ Spelled(a) \in Seq(V) /\ Spelled(b) \in Seq(V)
                             /\ Spelled(a \o b) = Spelled(a) \o Spelled(b)
    BY SpelledJoins, Zenon
<1>3. \A x \in All : Spelled(<<x>>) = PartBytes(x) /\ <<x>> \in Seq(All) /\ PartBytes(x) \in Seq(V)
    <2> SUFFICES ASSUME NEW x \in All PROVE Spelled(<<x>>) = PartBytes(x) /\ <<x>> \in Seq(All) /\ PartBytes(x) \in Seq(V)
        OBVIOUS
    <2> QED
        BY SpelledOne, PartBytesAre, Zenon
<1>4. CASE parts # <<>> /\ Last(parts).source = p.source /\ Last(parts).end = p.start
    <2> DEFINE f == Front(parts)
               l == Last(parts)
               w == [l EXCEPT !.end = p.end]
    <2>1. f \in Seq(All) /\ l \in All /\ parts = f \o <<l>>
        <3> HIDE DEF All
        <3> QED
            BY <1>1, <1>4, LastSplits
    <2>2. w \in All /\ PartBytes(w) = PartBytes(l) \o PartBytes(p)
        BY <1>4, <2>1, PartsMerge
    <2>3. Joined(parts, p) = Append(f, w)
        BY <1>4 DEF Joined
    <2> HIDE DEF f, l, w, All, V
    <2>4. Append(f, w) = f \o <<w>>
        BY <2>1, <2>2, AppendIsConcat
    <2>5. f \o <<w>> \in Seq(All) /\ Spelled(f \o <<w>>) = Spelled(f) \o PartBytes(w)
        BY <1>2, <1>3, <2>1, <2>2, Zenon
    <2>6. Spelled(parts) = Spelled(f) \o PartBytes(l) /\ Spelled(f) \in Seq(V)
        BY <1>2, <1>3, <2>1, Zenon
    <2>7. Spelled(f) \o (PartBytes(l) \o PartBytes(p)) = (Spelled(f) \o PartBytes(l)) \o PartBytes(p)
        <3>1. PartBytes(l) \in Seq(V) /\ PartBytes(p) \in Seq(V)
            BY <1>1, <1>3, <2>1
        <3>2. PICK x \in Seq(V), y \in Seq(V), z \in Seq(V) : x = Spelled(f) /\ y = PartBytes(l) /\ z = PartBytes(p)
            BY <2>6, <3>1
        <3>3. (x \o y) \o z = x \o (y \o z)
            BY ONLY ConcatAssociative, SMTT(30)
        <3> QED
            BY <3>2, <3>3
    <2> QED
        BY <2>2, <2>3, <2>4, <2>5, <2>6, <2>7, Zenon DEF SpelledWith, All
<1>5. CASE ~(parts # <<>> /\ Last(parts).source = p.source /\ Last(parts).end = p.start)
    <2>1. Joined(parts, p) = Append(parts, p)
        BY <1>5, Zenon DEF Joined
    <2> HIDE DEF All, V
    <2>2. Append(parts, p) = parts \o <<p>>
        BY <1>1, AppendIsConcat
    <2>3. parts \o <<p>> \in Seq(All) /\ Spelled(parts \o <<p>>) = Spelled(parts) \o PartBytes(p)
        BY <1>1, <1>2, <1>3, Zenon
    <2> QED
        BY <2>1, <2>2, <2>3, Zenon DEF SpelledWith, All
<1> QED
    BY <1>4, <1>5

\* c[k] joins the first k pieces to the head.
FoldedSteps(c, head, pieces, n, Names) ==
    /\ n = Len(pieces) /\ c \in [0..n -> Seq(PartsOf(Names))] /\ c[0] = head
    /\ \A k \in 1..n : c[k] = Joined(c[k - 1], pieces[k])
    /\ FoldLeft(Joined, head, pieces) = c[n]

LEMMA FoldUnfolds ==
    ASSUME NEW Names, NEW head \in Seq(PartsOf(Names)), NEW pieces \in Seq(PartsOf(Names))
    PROVE  \E c : FoldedSteps(c, head, pieces, Len(pieces), Names)
<1> DEFINE All == PartsOf(Names)
           V == Seq(All)
           n == Len(pieces)
           Step(s, g) == IF s = {} THEN head ELSE Joined(g[s \ {Max(s)}], pieces[Max(s)])
           G == [p \in (1..n) \X V |-> Joined(p[2], pieces[p[1]])]
           it == CHOOSE g : g = [s \in SUBSET (1..n) |-> IF s = {} THEN head
                                                       ELSE Joined(g[s \ {Max(s)}], pieces[Max(s)])]
<1>1. n \in Nat /\ DOMAIN pieces = 1..n /\ head \in V /\ \A i \in 1..n : pieces[i] \in All
    <2> HIDE DEF All
    <2> QED
        BY DEF All
<1>2. FoldLeft(Joined, head, pieces) = it[1..n]
    BY <1>1 DEF FoldLeft, MapThenFoldSet
<1> HIDE DEF n
<1>3. \A i \in 1..n, parts \in V : G[<<i, parts>>] = Joined(parts, pieces[i]) /\ Joined(parts, pieces[i]) \in V
    <2> SUFFICES ASSUME NEW i \in 1..n, NEW parts \in V
                 PROVE  G[<<i, parts>>] = Joined(parts, pieces[i]) /\ Joined(parts, pieces[i]) \in V
        OBVIOUS
    <2>1. Joined(parts, pieces[i]) \in V
        BY <1>1, JoinedSpells DEF SpelledWith
    <2> HIDE DEF V
    <2>2. G[<<i, parts>>] = Joined(parts, pieces[i])
        <3>1. <<i, parts>> \in (1..n) \X V /\ <<i, parts>>[1] = i /\ <<i, parts>>[2] = parts
            OBVIOUS
        <3> QED
            BY <3>1
    <2> QED
        BY <2>1, <2>2
<1> HIDE DEF V, G
<1>4. IsStep(G, n, V)
    BY <1>3 DEF IsStep
<1>5. PICK g : Folds(G, head, n, V, g)
    BY <1>1, <1>4, FoldsExist
<1>6. ASSUME NEW s \in SUBSET (1..n) PROVE g[s] = Step(s, g)
    <2>1. g[s] = FoldStep(G, head, s, g)
        BY <1>5 DEF Folds
    <2>2. CASE s = {}
        BY <2>1, <2>2 DEF FoldStep
    <2>3. CASE s # {}
        <3>1. Max(s) \in 1..n
            BY <1>1, <2>3, GreatestExists
        <3>2. g[s \ {Max(s)}] \in V
            BY <1>5 DEF Folds
        <3>3. G[<<Max(s), g[s \ {Max(s)}]>>] = Joined(g[s \ {Max(s)}], pieces[Max(s)])
            BY <1>3, <3>1, <3>2
        <3> QED
            BY <2>1, <2>3, <3>3 DEF FoldStep
    <2> QED
        BY <2>2, <2>3
<1>7. g = [s \in SUBSET (1..n) |-> Step(s, g)]
    <2>1. g \in [SUBSET (1..n) -> V]
        BY <1>5 DEF Folds
    <2> HIDE DEF Step
    <2> QED
        BY <1>6, <2>1
<1>8. it = [s \in SUBSET (1..n) |-> Step(s, it)]
    BY <1>7
<1> HIDE DEF it
<1>9. it[{}] = head
    BY <1>8
<1>10. ASSUME NEW i \in 1..n PROVE it[1..i] = Joined(it[1..(i - 1)], pieces[i])
    <2>1. 1..i \in SUBSET (1..n)
        BY <1>1
    <2>2. Max(1..i) = i /\ (1..i) \ {i} = 1..(i - 1) /\ 1..i # {}
        <3>1. i \in Nat \ {0}
            BY <1>1
        <3> QED
            BY <3>1, GreatestOfFirst
    <2>3. it[1..i] = Step(1..i, it)
        BY <1>8, <2>1
    <2> QED
        BY <2>2, <2>3
<1> DEFINE row == [i \in 0..n |-> it[1..i]]
           c == [i \in 0..n |-> row[i]]
<1>11. row[0] = head /\ row[n] = it[1..n]
    <2>1. 1..0 = {} /\ 0 \in 0..n /\ n \in 0..n
        BY <1>1
    <2> QED
        BY <1>9, <2>1
<1>12. ASSUME NEW i \in 1..n, row[i - 1] \in V PROVE row[i] = G[<<i, row[i - 1]>>]
    <2>1. i \in 0..n /\ i - 1 \in 0..n
        BY <1>1
    <2>2. row[i] = Joined(row[i - 1], pieces[i])
        BY <1>10, <2>1
    <2> HIDE DEF row
    <2> QED
        BY <1>3, <1>12, <2>2
<1> HIDE DEF row
<1>13. Chain(G, head, n, V, c)
    BY ONLY <1>1, <1>4, <1>11, <1>12, ChainOf
<1>14. c[n] = it[1..n]
    <2>1. n \in 0..n
        BY <1>1
    <2> QED
        BY <1>11, <2>1
<1> HIDE DEF c
<1>15. \A k \in 1..n : c[k] = Joined(c[k - 1], pieces[k])
    <2> SUFFICES ASSUME NEW k \in 1..n PROVE c[k] = Joined(c[k - 1], pieces[k])
        OBVIOUS
    <2>1. k - 1 \in 0..n
        BY <1>1
    <2>2. c[k - 1] \in V /\ c[k] = G[<<k, c[k - 1]>>]
        BY <1>13, <2>1 DEF Chain
    <2> QED
        BY <1>3, <2>2
<1>16. FoldedSteps(c, head, pieces, n, Names)
    BY <1>2, <1>13, <1>14, <1>15 DEF FoldedSteps, Chain, V, n
<1> QED
    BY <1>16 DEF n

LEMMA FoldSpells ==
    ASSUME NEW Names, NEW head \in Seq(PartsOf(Names)), NEW pieces \in Seq(PartsOf(Names))
    PROVE  /\ FoldLeft(Joined, head, pieces) \in Seq(PartsOf(Names))
           /\ Spelled(FoldLeft(Joined, head, pieces)) = Spelled(head) \o Spelled(pieces)
<1> DEFINE All == PartsOf(Names)
           V == BytesIn(Names)
           n == Len(pieces)
<1>1. n \in Nat /\ \A i \in 1..n : pieces[i] \in All
    <2> HIDE DEF All
    <2> QED
        BY DEF All
<1>2. PICK c : FoldedSteps(c, head, pieces, n, Names)
    BY FoldUnfolds
<1>3. PICK e : SpelledSteps(e, pieces, n, Names)
    BY SpelledBySteps
<1> HIDE DEF n
<1>4. /\ c \in [0..n -> Seq(All)] /\ c[0] = head /\ FoldLeft(Joined, head, pieces) = c[n]
      /\ \A k \in 1..n : c[k] = Joined(c[k - 1], pieces[k])
    BY <1>2, Zenon DEF FoldedSteps
<1>5. /\ e \in [0..n -> Seq(V)] /\ e[0] = <<>> /\ Spelled(pieces) = e[n]
      /\ \A k \in 1..n : e[k] = e[k - 1] \o PartBytes(pieces[k])
    BY <1>3, Zenon DEF SpelledSteps
<1>6. Spelled(head) \in Seq(V)
    BY SpelledJoins
<1> DEFINE T == {i \in 0..n : Spelled(c[i]) = Spelled(head) \o e[i]}
<1>7. 0 \in T
    <2>1. Spelled(head) \o <<>> = Spelled(head) /\ 0 \in 0..n
        BY <1>1, <1>6, ConcatEmptySeq
    <2> QED
        BY <1>4, <1>5, <2>1
<1>8. ASSUME NEW k \in 1..n, k - 1 \in T PROVE k \in T
    <2>1. k \in 0..n /\ k - 1 \in 0..n
        BY <1>1
    <2>2. c[k - 1] \in Seq(All) /\ pieces[k] \in All /\ e[k - 1] \in Seq(V)
        BY <1>1, <1>4, <1>5, <2>1
    <2>3. Spelled(c[k]) = Spelled(c[k - 1]) \o PartBytes(pieces[k])
        BY <1>4, <2>2, JoinedSpells DEF SpelledWith
    <2>4. PartBytes(pieces[k]) \in Seq(V)
        BY <2>2, PartBytesAre
    <2>5. (Spelled(head) \o e[k - 1]) \o PartBytes(pieces[k]) = Spelled(head) \o (e[k - 1] \o PartBytes(pieces[k]))
        <3>1. PICK x \in Seq(V), y \in Seq(V), z \in Seq(V) :
                x = Spelled(head) /\ y = e[k - 1] /\ z = PartBytes(pieces[k])
            BY <1>6, <2>2, <2>4
        <3>2. (x \o y) \o z = x \o (y \o z)
            <4> HIDE DEF V
            <4> QED
                BY ONLY ConcatAssociative, SMTT(30)
        <3> QED
            BY <3>1, <3>2
    <2>6. e[k] = e[k - 1] \o PartBytes(pieces[k]) /\ Spelled(c[k - 1]) = Spelled(head) \o e[k - 1]
        BY <1>5, <1>8
    <2>7. Spelled(c[k]) = Spelled(head) \o e[k]
        BY <2>3, <2>5, <2>6, Zenon
    <2> QED
        BY <2>1, <2>7
<1>9. n \in T
    <2>1. GoesUp(T, n)
        <3> HIDE DEF T
        <3> QED
            BY <1>7, <1>8 DEF GoesUp
    <2>2. n \in 0..n
        BY <1>1
    <2> HIDE DEF T
    <2> QED
        BY <1>1, <2>1, <2>2, UpTo
<1>10. n \in 0..n
    BY <1>1
<1> QED
    BY <1>4, <1>5, <1>9, <1>10

-----------------------------------------------------------------------------
(* read_plan: the bytes of a range.                                        *)

LEMMA OfTwo ==
    ASSUME NEW a \in Int, NEW b \in Int
    PROVE  Min({a, b}) = (IF a <= b THEN a ELSE b) /\ Max({a, b}) = (IF a <= b THEN b ELSE a)
<1>1. \E x \in {a, b} : \A y \in {a, b} : x <= y
    OBVIOUS
<1>2. \E x \in {a, b} : \A y \in {a, b} : x >= y
    OBVIOUS
<1>3. Min({a, b}) \in {a, b} /\ \A y \in {a, b} : Min({a, b}) <= y
    BY <1>1 DEF Min
<1>4. Max({a, b}) \in {a, b} /\ \A y \in {a, b} : Max({a, b}) >= y
    BY <1>2 DEF Max
<1>5. Min({a, b}) = IF a <= b THEN a ELSE b
    BY <1>3
<1>6. Max({a, b}) = IF a <= b THEN b ELSE a
    BY <1>4
<1> QED
    BY <1>5, <1>6

\* n extents of what is named follow one another from the header to the end.
IsLaidOut(file, n, Names) ==
    /\ n \in Nat \ {0} /\ DOMAIN file.extents = 1..n /\ Len(file.extents) = n
    /\ \A k \in 1..n : LET e == file.extents[k]
                       IN e.source \in Names /\ e.start \in Nat /\ e.end \in Nat /\ e.source_start \in Nat /\ e.start < e.end
    /\ \A j, k \in 1..n : j < k => file.extents[j].end <= file.extents[k].start
    /\ \A k \in 1..n : k + 1 <= n => file.extents[k + 1].start = file.extents[k].end
    /\ file.header \in Nat /\ file.extents[1].start = file.header /\ file.len = file.extents[n].end
    /\ "header" \in Names

\* Which bytes the file holds, by its extents.
ByExtents(byte, file, n) ==
    /\ \A p \in 0..(file.header - 1) : byte[p] = <<"header", p>>
    /\ \A k \in 1..n : \A p \in file.extents[k].start..(file.extents[k].end - 1) :
         byte[p] = <<file.extents[k].source, file.extents[k].source_start + (p - file.extents[k].start)>>

IsRange(range, file) ==
    /\ range.start \in Nat /\ range.end \in Nat /\ range.start < range.end /\ range.end <= file.len

\* The extents that are touched by a range: all after the first before until the begun-th.
Touches(before, begun, range, file, n) ==
    /\ before \in 0..n /\ begun \in 0..n
    /\ \A k \in 1..n : /\ file.extents[k].end <= range.start <=> k <= before
                       /\ file.extents[k].start < range.end <=> k <= begun

LEMMA TouchedIs ==
    ASSUME NEW file, NEW n, NEW Names, IsLaidOut(file, n, Names), NEW range, IsRange(range, file)
    PROVE  Touches(Cardinality({k \in DOMAIN file.extents : file.extents[k].end <= range.start}),
                   Cardinality({k \in DOMAIN file.extents : file.extents[k].start < range.end}), range, file, n)
<1> DEFINE E == file.extents
           A == {k \in 1..n : E[k].end <= range.start}
           B == {k \in 1..n : E[k].start < range.end}
<1>1. /\ n \in Nat /\ DOMAIN E = 1..n /\ range.start \in Nat /\ range.end \in Nat
      /\ \A k \in 1..n : E[k].start \in Nat /\ E[k].end \in Nat /\ E[k].start < E[k].end
      /\ \A j, k \in 1..n : j < k => E[j].end <= E[k].start
    BY DEF IsLaidOut, IsRange
<1> HIDE DEF E
<1>2. Cardinality(A) \in 0..n /\ A = 1..Cardinality(A)
    <2>1. A \in SUBSET (1..n)
        OBVIOUS
    <2>2. ASSUME NEW i \in A, NEW j \in 1..i PROVE j \in A
        <3>1. j \in 1..n /\ i \in 1..n /\ E[i].end <= range.start /\ (j < i \/ j = i)
            BY <1>1
        <3>2. j < i => E[j].end <= E[i].start
            BY <1>1, <3>1
        <3>3. E[i].start \in Nat /\ E[i].end \in Nat /\ E[j].start \in Nat /\ E[j].end \in Nat
              /\ E[i].start < E[i].end /\ E[j].start < E[j].end
            BY <1>1, <3>1
        <3>4. E[j].end <= range.start
            BY <1>1, <3>1, <3>2, <3>3
        <3> QED
            BY <3>1, <3>4
    <2>3. \A i \in A : 1..i \subseteq A
        BY <2>2
    <2> HIDE DEF A
    <2> QED
        BY <1>1, <2>1, <2>3, Initial
<1>3. Cardinality(B) \in 0..n /\ B = 1..Cardinality(B)
    <2>1. B \in SUBSET (1..n)
        OBVIOUS
    <2>2. ASSUME NEW i \in B, NEW j \in 1..i PROVE j \in B
        <3>1. j \in 1..n /\ i \in 1..n /\ E[i].start < range.end /\ (j < i \/ j = i)
            BY <1>1
        <3>2. j < i => E[j].end <= E[i].start
            BY <1>1, <3>1
        <3>3. E[i].start \in Nat /\ E[i].end \in Nat /\ E[j].start \in Nat /\ E[j].end \in Nat
              /\ E[i].start < E[i].end /\ E[j].start < E[j].end
            BY <1>1, <3>1
        <3>4. E[j].start < range.end
            BY <1>1, <3>1, <3>2, <3>3
        <3> QED
            BY <3>1, <3>4
    <2>3. \A i \in B : 1..i \subseteq B
        BY <2>2
    <2> HIDE DEF B
    <2> QED
        BY <1>1, <2>1, <2>3, Initial
<1> DEFINE before == Cardinality(A)
           begun == Cardinality(B)
<1>4. \A k \in 1..n : (E[k].end <= range.start <=> k <= before) /\ (E[k].start < range.end <=> k <= begun)
    <2> SUFFICES ASSUME NEW k \in 1..n
                 PROVE  (E[k].end <= range.start <=> k <= before) /\ (E[k].start < range.end <=> k <= begun)
        OBVIOUS
    <2>1. (k \in A <=> E[k].end <= range.start) /\ (k \in B <=> E[k].start < range.end)
        OBVIOUS
    <2>2. (k \in A <=> k <= before) /\ (k \in B <=> k <= begun)
        <3> HIDE DEF A, B
        <3> QED
            BY <1>1, <1>2, <1>3
    <2> QED
        BY <2>1, <2>2
<1>5. Touches(before, begun, range, file, n)
    <2> HIDE DEF A, B
    <2> QED
        BY <1>2, <1>3, <1>4 DEF Touches, E
<1> QED
    BY <1>1, <1>5 DEF E

\* A piece of an extent holds the bytes of the file in it.
LEMMA PieceReads ==
    ASSUME NEW file, NEW n, NEW Names, IsLaidOut(file, n, Names), NEW byte, ByExtents(byte, file, n),
           NEW range, IsRange(range, file), NEW k \in 1..n,
           file.extents[k].start < range.end, range.start < file.extents[k].end
    PROVE  LET e == file.extents[k]
               from == IF e.start <= range.start THEN range.start ELSE e.start
               upto == IF e.end <= range.end THEN e.end ELSE range.end
           IN Piece(e, range) \in PartsOf(Names) /\ PartBytes(Piece(e, range)) = Reading(byte, from, upto) /\ from < upto
<1> DEFINE e == file.extents[k]
           from == IF e.start <= range.start THEN range.start ELSE e.start
           upto == IF e.end <= range.end THEN e.end ELSE range.end
           w == Piece(e, range)
<1>1. /\ e.source \in Names /\ e.start \in Nat /\ e.end \in Nat /\ e.source_start \in Nat /\ e.start < e.end
      /\ range.start \in Nat /\ range.end \in Nat /\ range.start < range.end
      /\ \A p \in e.start..(e.end - 1) : byte[p] = <<e.source, e.source_start + (p - e.start)>>
    BY DEF IsLaidOut, ByExtents, IsRange
<1>2. from \in Nat /\ upto \in Nat /\ from < upto /\ e.start <= from /\ upto <= e.end
    BY <1>1
<1>3. w = [source |-> e.source, start |-> e.source_start + (from - e.start), end |-> e.source_start + (upto - e.start)]
    <2> HIDE DEF e
    <2>1. Max({e.start, range.start}) = from
        <3>1. e.start \in Int /\ range.start \in Int
            BY <1>1
        <3> QED
            BY <3>1, OfTwo
    <2>2. Min({e.end, range.end}) = upto
        <3>1. e.end \in Int /\ range.end \in Int
            BY <1>1
        <3> QED
            BY <3>1, OfTwo
    <2> HIDE DEF from, upto
    <2> QED
        BY <2>1, <2>2 DEF Piece, SourcePart, w
<1> HIDE DEF e, from, upto, w
<1>4. w \in PartsOf(Names)
    <2>1. /\ e.source_start + (from - e.start) \in Nat /\ e.source_start + (upto - e.start) \in Nat
          /\ e.source_start + (from - e.start) <= e.source_start + (upto - e.start)
        BY <1>1, <1>2
    <2> QED
        BY <1>1, <1>3, <2>1 DEF PartsOf
<1>5. PartBytes(w) = Reading(byte, from, upto)
    <2> DEFINE m == upto - from
    <2>1. w.end - w.start = m /\ w.source = e.source /\ w.start = e.source_start + (from - e.start)
        BY <1>1, <1>2, <1>3
    <2>2. ASSUME NEW i \in 1..m PROVE <<w.source, w.start + i - 1>> = byte[from + i - 1]
        <3>1. /\ from + i - 1 \in e.start..(e.end - 1)
              /\ e.source_start + ((from + i - 1) - e.start) = w.start + i - 1
            BY <1>1, <1>2, <2>1
        <3>2. byte[from + i - 1] = <<e.source, e.source_start + ((from + i - 1) - e.start)>>
            BY <1>1, <3>1
        <3> QED
            BY <2>1, <3>1, <3>2
    <2>3. [i \in 1..m |-> <<w.source, w.start + i - 1>>] = [i \in 1..m |-> byte[from + i - 1]]
        BY <2>2
    <2> QED
        BY <2>1, <2>3 DEF PartBytes, Reading
<1> QED
    BY <1>2, <1>4, <1>5 DEF e, from, upto, w

\* Where the pieces of a range end.
CutOf(file, range, before, m) ==
    [k \in 0..m |-> IF k = 0 THEN (IF file.header <= range.start THEN range.start ELSE file.header)
                    ELSE IF file.extents[before + k].end <= range.end THEN file.extents[before + k].end
                    ELSE range.end]

LEMMA PiecesAreCut ==
    ASSUME NEW file, NEW n, NEW Names, IsLaidOut(file, n, Names), NEW byte, ByExtents(byte, file, n),
           NEW range, IsRange(range, file), NEW before, NEW begun, Touches(before, begun, range, file, n),
           file.header < range.end, NEW m, m = begun - before, NEW pieces,
           pieces = [k \in 1..m |-> Piece(file.extents[before + k], range)]
    PROVE  /\ m \in Nat /\ CutBy(pieces, byte, CutOf(file, range, before, m), Names)
           /\ CutOf(file, range, before, m)[m] = range.end /\ Len(pieces) = m
<1> DEFINE E == file.extents
           cut == CutOf(file, range, before, m)
           first == IF file.header <= range.start THEN range.start ELSE file.header
           Till(k) == IF E[before + k].end <= range.end THEN E[before + k].end ELSE range.end
<1>1. /\ n \in Nat \ {0} /\ before \in 0..n /\ begun \in 0..n /\ file.header \in Nat
      /\ range.start \in Nat /\ range.end \in Nat /\ range.start < range.end /\ range.end <= E[n].end
      /\ \A k \in 1..n : E[k].start \in Nat /\ E[k].end \in Nat /\ E[k].start < E[k].end
      /\ \A k \in 1..n : k + 1 <= n => E[k + 1].start = E[k].end
      /\ E[1].start = file.header
      /\ \A k \in 1..n : (E[k].end <= range.start <=> k <= before) /\ (E[k].start < range.end <=> k <= begun)
    BY DEF IsLaidOut, IsRange, Touches
<1> HIDE DEF E
<1>2. /\ n \in Nat \ {0} /\ before \in 0..n /\ begun \in 0..n /\ file.header \in Nat
      /\ range.start \in Nat /\ range.end \in Nat /\ range.start < range.end /\ range.end <= E[n].end
    BY <1>1
<1>3. before < n
    <2>1. ASSUME before = n PROVE FALSE
        <3>1. n \in 1..n /\ n <= before
            BY <1>1, <2>1
        <3>2. E[n].end <= range.start /\ E[n].end \in Nat
            BY <1>1, <3>1
        <3> QED
            BY <1>1, <3>2
    <2> QED
        BY <1>1, <2>1
<1>4. before < begun
    <2>1. before + 1 \in 1..n
        BY <1>1, <1>3
    <2>2. E[before + 1].start < range.end
        <3>1. CASE before = 0
            BY <1>1, <3>1
        <3>2. CASE before # 0
            <4>1. before \in 1..n /\ before <= before /\ before + 1 <= n
                BY <1>1, <1>3, <3>2
            <4>2. E[before].end <= range.start /\ E[before + 1].start = E[before].end /\ E[before].end \in Nat
                BY <1>1, <4>1
            <4> QED
                BY <1>2, <4>2, SMTT(20)
        <3> QED
            BY <3>1, <3>2
    <2>3. before + 1 <= begun
        BY <1>1, <2>1, <2>2
    <2> QED
        BY <1>1, <2>3
<1>5. m \in Nat \ {0}
    BY <1>1, <1>4
<1>6. ASSUME NEW k \in 1..m
      PROVE  /\ before + k \in 1..n /\ E[before + k].start < range.end /\ range.start < E[before + k].end
             /\ E[before + k].start \in Nat /\ E[before + k].end \in Nat
    <2>1. before + k \in 1..n /\ before + k <= begun /\ ~(before + k <= before)
        BY <1>2, <1>5
    <2>2. E[before + k].start < range.end /\ ~(E[before + k].end <= range.start)
        BY <1>1, <2>1
    <2>3. E[before + k].start \in Nat /\ E[before + k].end \in Nat
        BY <1>1, <2>1
    <2> QED
        BY <1>1, <2>1, <2>2, <2>3
<1>7. first \in Nat /\ \A k \in 1..m : Till(k) \in Nat
    BY <1>1, <1>6
<1>8. cut \in [0..m -> Nat] /\ cut[0] = first /\ \A k \in 1..m : cut[k] = Till(k)
    <2> DEFINE At(k) == IF k = 0 THEN first ELSE Till(k)
    <2>1. cut = [k \in 0..m |-> At(k)]
        BY DEF CutOf, E
    <2>2. \A k \in 0..m : k = 0 \/ k \in 1..m
        BY <1>5
    <2>3. \A k \in 0..m : At(k) \in Nat
        BY <1>7, <2>2
    <2>4. 0 \in 0..m /\ \A k \in 1..m : k \in 0..m /\ k # 0
        BY <1>5
    <2> HIDE DEF cut
    <2>5. cut[0] = At(0) /\ \A k \in 1..m : cut[k] = At(k)
        BY <2>1, <2>4
    <2>6. At(0) = first /\ \A k \in 1..m : At(k) = Till(k)
        BY <2>4
    <2> HIDE DEF At
    <2> QED
        BY <2>1, <2>3, <2>5, <2>6
<1> HIDE DEF cut
<1>9. ASSUME NEW k \in 1..m
      PROVE  cut[k - 1] = IF E[before + k].start <= range.start THEN range.start ELSE E[before + k].start
    <2>1. CASE k = 1 /\ before = 0
        <3>1. before + k = 1
            BY <2>1
        <3> QED
            BY <1>1, <1>8, <2>1, <3>1
    <2>2. CASE k = 1 /\ before # 0
        <3>1. before \in 1..n /\ before <= before /\ before + 1 <= n
            BY <1>1, <1>3, <2>2
        <3>2. E[before].end <= range.start /\ E[before + 1].start = E[before].end /\ E[before].end \in Nat
            BY <1>1, <3>1
        <3>3. file.header <= range.start
            <4> DEFINE T == {i \in 0..(n - 1) : file.header <= E[i + 1].start}
            <4>1. \A i \in 0..(n - 1) : i \in T
                <5>1. GoesUp(T, n - 1)
                    <6>1. 0 \in T
                        BY <1>1
                    <6>2. ASSUME NEW i \in 1..(n - 1), i - 1 \in T PROVE i \in T
                        <7>1. i \in 1..n /\ i + 1 \in 1..n /\ i + 1 <= n /\ (i - 1) + 1 = i
                            BY <1>1
                        <7>2. file.header <= E[i].start
                            BY <6>2, <7>1
                        <7>3. E[i].start < E[i].end /\ E[i + 1].start = E[i].end /\ E[i].start \in Nat /\ E[i].end \in Nat
                            BY <1>1, <7>1
                        <7> QED
                            BY <1>2, <7>1, <7>2, <7>3, SMTT(20)
                    <6> QED
                        BY <6>1, <6>2 DEF GoesUp
                <5>2. n - 1 \in Nat
                    BY <1>1
                <5> HIDE DEF T
                <5> QED
                    BY <5>1, <5>2, UpTo
            <4>2. before \in 0..(n - 1)
                BY <1>1, <3>1
            <4>3. file.header <= E[before + 1].start
                BY <4>1, <4>2
            <4> QED
                BY <1>1, <3>2, <4>3
        <3>4. cut[k - 1] = range.start
            BY <1>8, <2>2, <3>3
        <3> QED
            BY <2>2, <3>2, <3>4
    <2>3. CASE k # 1
        <3>1. k - 1 \in 1..m /\ before + (k - 1) \in 1..n /\ (before + (k - 1)) + 1 = before + k /\ before + k <= n
            BY <1>2, <1>5, <1>6, <2>3, SMTT(20)
        <3>2. E[before + k].start = E[before + (k - 1)].end /\ range.start < E[before + (k - 1)].end
              /\ E[before + k].start < range.end /\ E[before + (k - 1)].end \in Nat
            <4>1. E[(before + (k - 1)) + 1].start = E[before + (k - 1)].end
                BY <1>1, <3>1
            <4> QED
                BY <1>6, <3>1, <4>1
        <3>3. cut[k - 1] = Till(k - 1)
            BY <1>8, <3>1
        <3> QED
            BY <1>2, <3>2, <3>3, SMTT(20)
    <2> QED
        BY <2>1, <2>2, <2>3
<1>10. pieces \in Seq(PartsOf(Names)) /\ Len(pieces) = m
      /\ \A k \in 1..m : cut[k - 1] <= cut[k] /\ PartBytes(pieces[k]) = Reading(byte, cut[k - 1], cut[k])
    <2>1. ASSUME NEW k \in 1..m
          PROVE  /\ pieces[k] \in PartsOf(Names) /\ cut[k - 1] <= cut[k]
                 /\ PartBytes(pieces[k]) = Reading(byte, cut[k - 1], cut[k])
        <3> DEFINE l == before + k
        <3>1. l \in 1..n /\ file.extents[l].start < range.end /\ range.start < file.extents[l].end
            BY <1>6 DEF E
        <3>2. pieces[k] = Piece(file.extents[l], range)
            OBVIOUS
        <3>3. /\ cut[k - 1] = IF file.extents[l].start <= range.start THEN range.start ELSE file.extents[l].start
              /\ cut[k] = IF file.extents[l].end <= range.end THEN file.extents[l].end ELSE range.end
            BY <1>8, <1>9 DEF E
        <3> HIDE DEF l
        <3>4. /\ Piece(file.extents[l], range) \in PartsOf(Names) /\ cut[k - 1] < cut[k]
              /\ PartBytes(Piece(file.extents[l], range)) = Reading(byte, cut[k - 1], cut[k])
            BY <3>1, <3>3, PieceReads
        <3>5. cut[k - 1] \in Nat /\ cut[k] \in Nat
            <4>1. k - 1 \in 0..m /\ k \in 0..m
                BY <1>5
            <4> QED
                BY <1>8, <4>1
        <3> QED
            BY <3>2, <3>4, <3>5
    <2>2. pieces = [k \in 1..m |-> pieces[k]]
        OBVIOUS
    <2>3. Len(pieces) = m
        BY <1>5, <2>2, LenOf
    <2> DEFINE All == PartsOf(Names)
    <2>4. \A k \in 1..m : pieces[k] \in All
        BY <2>1
    <2>5. pieces \in [1..m -> All]
        <3> HIDE DEF All
        <3> QED
            BY <2>2, <2>4
    <2>6. pieces \in Seq(All)
        <3>1. m \in Nat
            BY <1>5
        <3> HIDE DEF All
        <3> QED
            BY <2>3, <2>5, <3>1
    <2> QED
        BY <2>1, <2>3, <2>6
<1>11. cut[m] = range.end
    <2>1. m \in 1..m /\ before + m = begun /\ begun \in 1..n
        BY <1>1, <1>4, <1>5
    <2>2. range.end <= E[begun].end
        <3>1. CASE begun = n
            BY <1>1, <3>1
        <3>2. CASE begun # n
            <4>1. begun + 1 \in 1..n /\ begun + 1 <= n /\ ~(begun + 1 <= begun)
                BY <1>1, <2>1, <3>2
            <4>2. ~(E[begun + 1].start < range.end) /\ E[begun + 1].start = E[begun].end /\ E[begun].end \in Nat
                BY <1>1, <2>1, <4>1
            <4> QED
                BY <1>1, <4>2
        <3> QED
            BY <3>1, <3>2
    <2>3. cut[m] = Till(m)
        BY <1>8, <2>1
    <2>4. E[begun].end \in Nat
        BY <1>1, <2>1
    <2> QED
        BY <1>2, <2>1, <2>2, <2>3, <2>4
<1>12. CutBy(pieces, byte, cut, Names)
    BY <1>8, <1>10 DEF CutBy
<1> QED
    BY <1>5, <1>10, <1>11, <1>12 DEF cut

\* read_plan: the parts it names for a range of a file that is laid out without
\* gaps are, one after the other, the bytes the file has in that range.
THEOREM PlanSpells ==
    ASSUME NEW file, NEW n, NEW Names, IsLaidOut(file, n, Names), NEW byte, ByExtents(byte, file, n),
           NEW range, IsRange(range, file)
    PROVE  /\ read_plan(file, range) \in Seq(PartsOf(Names))
           /\ Spelled(read_plan(file, range)) = Reading(byte, range.start, range.end)
<1> DEFINE before == Cardinality({k \in DOMAIN file.extents : file.extents[k].end <= range.start})
           begun == Cardinality({k \in DOMAIN file.extents : file.extents[k].start < range.end})
           upto == Min({file.header, range.end})
           head == IF range.start < upto THEN <<HeaderPart(range.start, upto)>> ELSE <<>>
           touched == IF range.start < range.end THEN SubSeq(file.extents, before + 1, begun) ELSE <<>>
           pieces == [k \in DOMAIN touched |-> Piece(touched[k], range)]
           All == PartsOf(Names)
           V == BytesIn(Names)
<1>1. read_plan(file, range) = FoldLeft(Joined, head, pieces)
    BY DEF read_plan
<1>2. Touches(before, begun, range, file, n)
    BY TouchedIs
<1>3. /\ n \in Nat \ {0} /\ DOMAIN file.extents = 1..n /\ before \in 0..n /\ begun \in 0..n /\ file.header \in Nat
      /\ range.start \in Nat /\ range.end \in Nat /\ range.start < range.end /\ "header" \in Names
      /\ file.extents[1].start = file.header
    BY <1>2 DEF Touches, IsLaidOut, IsRange
<1> HIDE DEF before, begun
<1>4. upto = IF file.header <= range.end THEN file.header ELSE range.end
    <2>1. file.header \in Int /\ range.end \in Int
        BY <1>3
    <2> QED
        BY <2>1, OfTwo
<1> DEFINE m == begun - before
<1>5. pieces = [k \in 1..m |-> Piece(file.extents[before + k], range)]
    <2>1. touched = SubSeq(file.extents, before + 1, begun)
        BY <1>3
    <2>2. SubSeq(file.extents, before + 1, begun) = [k \in 1..m |-> file.extents[before + k]]
        <3> DEFINE S == {file.extents[k] : k \in 1..n}
                   t == SubSeq(file.extents, before + 1, begun)
                   a == before + 1
        <3>1. a \in Int /\ begun \in Int /\ begun - a + 1 = m /\ \A k \in 1..m : a + k - 1 = before + k
            BY <1>3
        <3>2. \A i \in a..begun : file.extents[i] \in S
            BY <1>3
        <3> HIDE DEF S
        <3>3. /\ t \in Seq(S) /\ Len(t) = (IF a <= begun THEN begun - a + 1 ELSE 0)
              /\ \A k \in 1..(begun - a + 1) : t[k] = file.extents[a + k - 1]
            <4> HIDE DEF a
            <4> QED
                BY <3>1, <3>2, SubSeqProperties DEF a
        <3>4. 1..Len(t) = 1..m
            BY <1>3, <3>1, <3>3
        <3> HIDE DEF a
        <3>5. \A k \in 1..m : t[k] = file.extents[before + k]
            BY <3>1, <3>3
        <3> HIDE DEF t, m
        <3>6. t = [k \in 1..m |-> t[k]]
            <4>1. t \in [1..Len(t) -> S]
                BY <3>3, LenProperties
            <4> QED
                BY <3>4, <4>1
        <3>7. t = [k \in 1..m |-> file.extents[before + k]]
            BY <3>5, <3>6
        <3> QED
            BY <3>7 DEF t
    <2> HIDE DEF touched
    <2> QED
        BY <2>1, <2>2
<1> HIDE DEF upto, pieces
<1>6. ASSUME NEW x \in Nat, range.start <= x, x <= file.header
      PROVE  /\ HeaderPart(range.start, x) \in All /\ PartBytes(HeaderPart(range.start, x)) = Reading(byte, range.start, x)
             /\ IsByteIn(byte, range.start, x, V)
    <2> DEFINE w == HeaderPart(range.start, x)
               r == x - range.start
    <2>1. w = [source |-> "header", start |-> range.start, end |-> x]
        BY DEF HeaderPart
    <2>2. w \in All
        BY <1>3, <1>6, <2>1 DEF PartsOf
    <2>3. \A p \in range.start..(x - 1) : p \in Nat /\ byte[p] = <<"header", p>>
        <3> SUFFICES ASSUME NEW p \in range.start..(x - 1) PROVE p \in Nat /\ byte[p] = <<"header", p>>
            OBVIOUS
        <3>1. p \in 0..(file.header - 1)
            BY <1>3, <1>6
        <3> QED
            BY <3>1 DEF ByExtents
    <2>4. \A i \in 1..r : <<"header", range.start + i - 1>> = byte[range.start + i - 1]
        <3>1. \A i \in 1..r : range.start + i - 1 \in range.start..(x - 1)
            BY <1>3, <1>6
        <3> QED
            BY <2>3, <3>1
    <2>5. [i \in 1..r |-> <<"header", range.start + i - 1>>] = [i \in 1..r |-> byte[range.start + i - 1]]
        BY <2>4
    <2>6. PartBytes(w) = Reading(byte, range.start, x)
        BY <2>1, <2>5 DEF PartBytes, Reading
    <2>7. IsByteIn(byte, range.start, x, V)
        <3> SUFFICES ASSUME NEW p \in range.start..(x - 1) PROVE byte[p] \in V
            BY DEF IsByteIn
        <3>1. <<"header", p>> \in V
            BY <1>3, <2>3 DEF BytesIn
        <3> QED
            BY <2>3, <3>1
    <2> QED
        BY <2>2, <2>6, <2>7
<1>7. CASE range.end <= file.header
    <2>1. upto = range.end
        BY <1>3, <1>4, <1>7
    <2>2. begun = 0
        <3>1. 1 \in 1..n /\ ~(file.extents[1].start < range.end)
            BY <1>3, <1>7
        <3>2. ~(1 <= begun)
            BY <1>2, <3>1 DEF Touches
        <3> QED
            BY <1>3, <3>2
    <2>3. pieces = <<>>
        <3>1. 1..m = {}
            BY <1>3, <2>2
        <3> QED
            BY <1>5, <3>1
    <2>4. head = <<HeaderPart(range.start, range.end)>>
        BY <1>3, <2>1
    <2>5. HeaderPart(range.start, range.end) \in All
          /\ PartBytes(HeaderPart(range.start, range.end)) = Reading(byte, range.start, range.end)
        BY <1>3, <1>6, <1>7
    <2> DEFINE w == HeaderPart(range.start, range.end)
    <2> HIDE DEF w, head
    <2>6. head \in Seq(All) /\ Spelled(head) = PartBytes(w) /\ pieces \in Seq(All) /\ Spelled(pieces) = <<>>
        <3>1. w \in All /\ head = <<w>>
            BY <2>4, <2>5 DEF w
        <3>2. <<w>> \in Seq(All) /\ Spelled(<<w>>) = PartBytes(w) /\ Spelled(<<>>) = <<>>
            BY <3>1, SpelledOne
        <3>3. <<>> \in Seq(All)
            OBVIOUS
        <3> QED
            BY <2>3, <3>1, <3>2, <3>3
    <2>7. FoldLeft(Joined, head, pieces) \in Seq(All)
          /\ Spelled(FoldLeft(Joined, head, pieces)) = Spelled(head) \o Spelled(pieces)
        BY <2>6, FoldSpells
    <2>8. Spelled(head) \in Seq(V)
        BY <2>6, SpelledJoins
    <2>9. Spelled(head) \o <<>> = Spelled(head)
        BY <2>8, ConcatEmptySeq
    <2> QED
        BY <1>1, <2>5, <2>6, <2>7, <2>9 DEF w
<1>8. CASE ~(range.end <= file.header)
    <2> DEFINE cut == CutOf(file, range, before, m)
               first == IF file.header <= range.start THEN range.start ELSE file.header
    <2>1. m \in Nat /\ CutBy(pieces, byte, cut, Names) /\ cut[m] = range.end /\ Len(pieces) = m
        <3>1. file.header < range.end
            BY <1>3, <1>8
        <3> QED
            BY <1>2, <1>5, <3>1, PiecesAreCut
    <2>2. cut[0] = first
        BY <2>1 DEF CutOf
    <2> HIDE DEF cut
    <2>3. IsByteIn(byte, first, range.end, V) /\ Spelled(pieces) = Reading(byte, first, range.end) /\ pieces \in Seq(All)
        <3>1. IsByteIn(byte, cut[0], cut[Len(pieces)], V) /\ Spelled(pieces) = Reading(byte, cut[0], cut[Len(pieces)])
            BY <2>1, CutsJoin
        <3> QED
            BY <2>1, <2>2, <3>1, Zenon DEF CutBy
    <2>4. upto = file.header
        BY <1>3, <1>4, <1>8
    <2>5. CASE file.header <= range.start
        <3>1. head = <<>> /\ first = range.start
            BY <1>3, <2>4, <2>5
        <3> HIDE DEF head, first
        <3>2. head \in Seq(All) /\ Spelled(head) = <<>>
            BY <1>6, <3>1, SpelledNone
        <3>3. FoldLeft(Joined, head, pieces) \in Seq(All)
              /\ Spelled(FoldLeft(Joined, head, pieces)) = Spelled(head) \o Spelled(pieces)
            BY <2>3, <3>2, FoldSpells
        <3>4. Spelled(pieces) \in Seq(V)
            BY <2>3, SpelledJoins
        <3>5. <<>> \o Spelled(pieces) = Spelled(pieces)
            BY <3>4, ConcatEmptySeq
        <3> QED
            BY <1>1, <2>3, <3>1, <3>2, <3>3, <3>5
    <2>6. CASE ~(file.header <= range.start)
        <3>1. head = <<HeaderPart(range.start, file.header)>> /\ first = file.header
            BY <1>3, <2>4, <2>6
        <3>2. /\ HeaderPart(range.start, file.header) \in All
              /\ PartBytes(HeaderPart(range.start, file.header)) = Reading(byte, range.start, file.header)
              /\ IsByteIn(byte, range.start, file.header, V)
            BY <1>3, <1>6, <2>6
        <3> DEFINE w == HeaderPart(range.start, file.header)
        <3> HIDE DEF w, head, first
        <3>3. head \in Seq(All) /\ Spelled(head) = PartBytes(w)
            <4>1. w \in All /\ head = <<w>>
                BY <3>1, <3>2 DEF w
            <4> QED
                BY <4>1, SpelledOne
        <3>4. FoldLeft(Joined, head, pieces) \in Seq(All)
              /\ Spelled(FoldLeft(Joined, head, pieces)) = Spelled(head) \o Spelled(pieces)
            BY <2>3, <3>3, FoldSpells
        <3>5. ReadsOn(byte, range.start, file.header, range.end)
            <4>1. IsByteIn(byte, range.start, range.end, V)
                <5> SUFFICES ASSUME NEW p \in range.start..(range.end - 1) PROVE byte[p] \in V
                    BY DEF IsByteIn
                <5>1. p \in range.start..(file.header - 1) \/ p \in file.header..(range.end - 1)
                    BY <1>3
                <5> QED
                    BY <2>3, <3>1, <3>2, <5>1 DEF IsByteIn
            <4>2. range.start <= file.header /\ file.header <= range.end
                BY <1>3, <1>8, <2>6
            <4> QED
                BY <1>3, <4>1, <4>2, ReadingGoesOn
        <3>6. Spelled(head) \o Spelled(pieces) = Reading(byte, range.start, range.end)
            BY <2>3, <3>1, <3>2, <3>3, <3>5, Zenon DEF ReadsOn, w
        <3> QED
            BY <1>1, <3>4, <3>6
    <2> QED
        BY <2>5, <2>6
<1> QED
    BY <1>7, <1>8

=============================================================================
