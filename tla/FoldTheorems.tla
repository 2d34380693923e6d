---------------------------- MODULE FoldTheorems ----------------------------
(***************************************************************************)
(* Facts about two folds of the community modules: SumFunctionOnSet, for   *)
(* summands in the integers and a finite set of indices, and FlattenSeq.   *)
(* The induction over finite sets is by a minimal counterexample: the      *)
(* strict subset ordering is well-founded.                                 *)
(***************************************************************************)
EXTENDS SequencesExt, Integers, FiniteSetTheorems, SequenceTheorems, WellFoundedInduction, TLAPS

\* A set of subsets of a finite set has a minimal element: induction, without a predicate.
LEMMA MinimalSubset ==
    ASSUME NEW S, IsFiniteSet(S), NEW T \in SUBSET SUBSET S, T # {}
    PROVE  \E u \in T : \A v \in T : v \subseteq u => v = u
<1>1. IsWellFoundedOn(StrictSubsetOrdering(S), SUBSET S)
  BY FS_StrictSubsetOrderingWellFounded, FS_FiniteSubsetsOfFinite
<1>2. PICK u \in T : \A v \in T : <<v, u>> \notin StrictSubsetOrdering(S)
  BY <1>1, WFMin
<1> QED BY <1>2 DEF StrictSubsetOrdering

\* g sums f over the subsets of S.
Sums(g, f, S) ==
    /\ g[{}] = 0
    /\ \A t \in SUBSET S : \A x \in t : g[t] = f[x] + g[t \ {x}]

\* The fold, written out.
LEMMA FoldIsChoice ==
    ASSUME NEW f, NEW S
    PROVE  SumFunctionOnSet(f, S) =
             (CHOOSE h : h = [t \in SUBSET S |->
                 IF t = {} THEN 0 ELSE f[CHOOSE x \in t : TRUE] + h[t \ {CHOOSE x \in t : TRUE}]])[S]
BY DEF SumFunctionOnSet, FoldFunctionOnSet, MapThenFoldSet

\* Some function of the subsets sums them.
LEMMA SumsExist ==
    ASSUME NEW S, IsFiniteSet(S), NEW f \in [S -> Int]
    PROVE  \E g \in [SUBSET S -> Int] : Sums(g, f, S)
<1> DEFINE Bad == {u \in SUBSET S : ~ \E g \in [SUBSET u -> Int] : Sums(g, f, u)}
<1>1. ASSUME NEW u \in Bad, \A v \in Bad : v \subseteq u => v = u  PROVE FALSE
  <2>1. u # {}
    <3>1. [t \in {{}} |-> 0] \in [SUBSET {} -> Int] /\ Sums([t \in {{}} |-> 0], f, {})
      BY DEF Sums
    <3>2. {} \notin Bad
      <4> DEFINE z == [t \in {{}} |-> 0]
      <4>1. z \in [SUBSET {} -> Int] /\ Sums(z, f, {})  BY <3>1
      <4> HIDE DEF z
      <4> QED BY <4>1
    <3> QED BY <3>2, <1>1
  <2> PICK x \in u : TRUE  BY <2>1
  <2>2. u \ {x} \notin Bad  BY <1>1
  <2> PICK g \in [SUBSET (u \ {x}) -> Int] : Sums(g, f, u \ {x})  BY <2>2
  <2> DEFINE G == [t \in SUBSET u |-> IF x \in t THEN f[x] + g[t \ {x}] ELSE g[t]]
  <2>3. \A t \in SUBSET (u \ {x}) : g[t] \in Int  OBVIOUS
  <2>4. G \in [SUBSET u -> Int]
    <3>1. \A t \in SUBSET u : t \ {x} \in SUBSET (u \ {x})  OBVIOUS
    <3>2. \A t \in SUBSET u : x \notin t => t \in SUBSET (u \ {x})  OBVIOUS
    <3> QED BY <3>1, <3>2, <2>3
  <2>5. Sums(G, f, u)
    <3>1. G[{}] = 0  BY DEF Sums
    <3>2. ASSUME NEW t \in SUBSET u, NEW y \in t  PROVE G[t] = f[y] + G[t \ {y}]
      <4>1. CASE x \notin t
        <5>1. t \in SUBSET (u \ {x}) /\ x \notin t \ {y}  BY <4>1
        <5> QED BY <5>1, <4>1 DEF Sums
      <4>2. CASE y = x
        <5>1. x \notin t \ {x} /\ t \ {x} \in SUBSET u  OBVIOUS
        <5> QED BY <5>1, <4>2
      <4>3. CASE x \in t /\ y # x
        <5>1. (t \ {x}) \ {y} = (t \ {y}) \ {x}  OBVIOUS
        <5>2. t \ {x} \in SUBSET (u \ {x}) /\ y \in t \ {x}  BY <4>3
        <5>3. g[t \ {x}] = f[y] + g[(t \ {x}) \ {y}]  BY <5>2 DEF Sums
        <5>4. G[t \ {y}] = f[x] + g[(t \ {y}) \ {x}]  BY <4>3
        <5>5. G[t] = f[x] + g[t \ {x}]  BY <4>3
        <5>6. f[x] \in Int /\ f[y] \in Int /\ g[(t \ {y}) \ {x}] \in Int  BY <2>3, <5>2
        <5> HIDE DEF G
        <5>7. f[x] + (f[y] + g[(t \ {y}) \ {x}]) = f[y] + (f[x] + g[(t \ {y}) \ {x}])
          BY <5>6
        <5>8. g[t \ {x}] = f[y] + g[(t \ {y}) \ {x}]  BY <5>1, <5>3
        <5> QED BY <5>4, <5>5, <5>7, <5>8
      <4> QED BY <4>1, <4>2, <4>3
    <3> HIDE DEF G
    <3> QED BY <3>1, <3>2 DEF Sums
  <2> HIDE DEF G
  <2> QED BY <2>4, <2>5, <1>1
<1>2. Bad = {}
  <2>1. Bad \in SUBSET SUBSET S  OBVIOUS
  <2> HIDE DEF Bad
  <2> QED BY <1>1, <2>1, MinimalSubset
<1> QED BY <1>2

\* A function that sums the subsets is the one the fold has chosen.
LEMMA SumIs ==
    ASSUME NEW S, IsFiniteSet(S), NEW f, NEW g, Sums(g, f, S)
    PROVE  SumFunctionOnSet(f, S) = g[S]
<1> DEFINE c(t) == CHOOSE x \in t : TRUE
           body(h) == [t \in SUBSET S |-> IF t = {} THEN 0 ELSE f[c(t)] + h[t \ {c(t)}]]
           G == [t \in SUBSET S |-> g[t]]
           h == CHOOSE k : k = body(k)
<1>1. \A t \in SUBSET S : t # {} => c(t) \in t  OBVIOUS
<1>2. G = body(G)
  <2>1. ASSUME NEW t \in SUBSET S  PROVE G[t] = body(G)[t]
    <3>1. CASE t = {}  BY <3>1 DEF Sums
    <3>2. CASE t # {}
      <4>1. t \ {c(t)} \in SUBSET S  OBVIOUS
      <4>2. c(t) \in t  BY <1>1, <3>2
      <4> HIDE DEF c
      <4>3. g[t] = f[c(t)] + g[t \ {c(t)}]  BY <4>2 DEF Sums
      <4> QED BY <3>2, <4>1, <4>3
    <3> QED BY <3>1, <3>2
  <2> HIDE DEF c
  <2> QED BY <2>1
<1>3. h = body(h)
  <2> HIDE DEF G
  <2>1. \E k : k = body(k)  BY <1>2
  <2> HIDE DEF c
  <2> QED BY <2>1
<1> HIDE DEF h
<1> DEFINE Bad == {t \in SUBSET S : h[t] # g[t]}
<1>4. ASSUME NEW t \in Bad, \A v \in Bad : v \subseteq t => v = t  PROVE FALSE
  <2>1. h[t] = IF t = {} THEN 0 ELSE f[c(t)] + h[t \ {c(t)}]
    <3> HIDE DEF c
    <3> QED BY <1>3
  <2>2. CASE t = {}  BY <2>1, <2>2 DEF Sums
  <2>3. CASE t # {}
    <3>1. c(t) \in t  BY <1>1, <2>3
    <3> HIDE DEF c
    <3>2. h[t \ {c(t)}] = g[t \ {c(t)}]  BY <1>4, <3>1
    <3>3. g[t] = f[c(t)] + g[t \ {c(t)}]  BY <3>1 DEF Sums
    <3> QED BY <2>1, <2>3, <3>2, <3>3
  <2> QED BY <2>2, <2>3
<1>5. Bad = {}
  <2>1. Bad \in SUBSET SUBSET S  OBVIOUS
  <2> HIDE DEF Bad
  <2> QED BY <1>4, <2>1, MinimalSubset
<1>6. SumFunctionOnSet(f, S) = h[S]
  BY FoldIsChoice DEF h
<1> QED BY <1>5, <1>6

\* So sums are what they should be.
LEMMA SumSums ==
    ASSUME NEW S, IsFiniteSet(S), NEW f \in [S -> Int]
    PROVE  \E g \in [SUBSET S -> Int] :
               Sums(g, f, S) /\ \A t \in SUBSET S : SumFunctionOnSet(f, t) = g[t]
<1> PICK g \in [SUBSET S -> Int] : Sums(g, f, S)  BY SumsExist
<1>1. ASSUME NEW t \in SUBSET S  PROVE SumFunctionOnSet(f, t) = g[t]
  <2>1. IsFiniteSet(t) /\ Sums(g, f, t)  BY FS_Subset DEF Sums
  <2> QED BY <2>1, SumIs
<1> QED BY <1>1

\* A sum depends on the summands only.
LEMMA SumSame ==
    ASSUME NEW S, IsFiniteSet(S), NEW f, NEW g, \A x \in S : f[x] \in Int /\ g[x] = f[x]
    PROVE  SumFunctionOnSet(g, S) = SumFunctionOnSet(f, S)
<1> DEFINE e == [x \in S |-> f[x]]
<1> e \in [S -> Int]  OBVIOUS
<1> PICK s \in [SUBSET S -> Int] : Sums(s, e, S)  BY SumsExist
<1>1. Sums(s, f, S) /\ Sums(s, g, S)  BY DEF Sums
<1> QED BY <1>1, SumIs

\* The empty sum.
LEMMA SumEmpty == \A f : SumFunctionOnSet(f, {}) = 0
<1> TAKE f
<1> DEFINE z == [t \in {{}} |-> 0]
<1>1. Sums(z, f, {})  BY DEF Sums
<1>2. z[{}] = 0  OBVIOUS
<1> HIDE DEF z
<1> QED BY <1>1, <1>2, SumIs, FS_EmptySet

\* One summand taken out.
LEMMA SumRemove ==
    ASSUME NEW S, IsFiniteSet(S), NEW f, \A y \in S : f[y] \in Int, NEW x \in S
    PROVE  SumFunctionOnSet(f, S) = f[x] + SumFunctionOnSet(f, S \ {x})
<1> DEFINE e == [y \in S |-> f[y]]
<1> e \in [S -> Int] /\ \A y \in S : e[y] = f[y]  OBVIOUS
<1> HIDE DEF e
<1> PICK s \in [SUBSET S -> Int] :
       Sums(s, e, S) /\ \A t \in SUBSET S : SumFunctionOnSet(e, t) = s[t]
  BY SumSums
<1>1. SumFunctionOnSet(e, S) = e[x] + SumFunctionOnSet(e, S \ {x})  BY DEF Sums
<1>2. SumFunctionOnSet(e, S) = SumFunctionOnSet(f, S)
  BY SumSame
<1>3. SumFunctionOnSet(e, S \ {x}) = SumFunctionOnSet(f, S \ {x})
  BY SumSame, FS_Subset, IsFiniteSet(S \ {x})
<1> QED BY <1>1, <1>2, <1>3

\* A sum of integers is an integer.
LEMMA SumType ==
    ASSUME NEW S, IsFiniteSet(S), NEW f, \A y \in S : f[y] \in Int
    PROVE  SumFunctionOnSet(f, S) \in Int
<1> DEFINE e == [y \in S |-> f[y]]
<1> e \in [S -> Int] /\ \A y \in S : e[y] = f[y]  OBVIOUS
<1> HIDE DEF e
<1> PICK s \in [SUBSET S -> Int] :
       Sums(s, e, S) /\ \A t \in SUBSET S : SumFunctionOnSet(e, t) = s[t]
  BY SumSums
<1>1. SumFunctionOnSet(e, S) \in Int  OBVIOUS
<1>2. SumFunctionOnSet(e, S) = SumFunctionOnSet(f, S)  BY SumSame
<1> QED BY <1>1, <1>2

\* One summand put in.
LEMMA SumAdd ==
    ASSUME NEW S, IsFiniteSet(S), NEW x, x \notin S, NEW f, \A y \in S \cup {x} : f[y] \in Int
    PROVE  SumFunctionOnSet(f, S \cup {x}) = SumFunctionOnSet(f, S) + f[x]
<1>1. IsFiniteSet(S \cup {x}) /\ x \in S \cup {x} /\ (S \cup {x}) \ {x} = S
  BY FS_AddElement
<1>2. SumFunctionOnSet(f, S \cup {x}) = f[x] + SumFunctionOnSet(f, S)
  BY <1>1, SumRemove
<1> QED BY <1>2, SumType

\* One summand changed.
LEMMA SumChange ==
    ASSUME NEW S, IsFiniteSet(S), NEW f, NEW g, NEW x \in S, g[x] \in Int,
           \A y \in S : f[y] \in Int, \A y \in S \ {x} : g[y] = f[y]
    PROVE  SumFunctionOnSet(g, S) = SumFunctionOnSet(f, S) - f[x] + g[x]
<1>1. IsFiniteSet(S \ {x})  BY FS_RemoveElement
<1>2. SumFunctionOnSet(g, S \ {x}) = SumFunctionOnSet(f, S \ {x})  BY <1>1, SumSame
<1>3. SumFunctionOnSet(f, S) = f[x] + SumFunctionOnSet(f, S \ {x})  BY SumRemove
<1>4. SumFunctionOnSet(g, S) = g[x] + SumFunctionOnSet(g, S \ {x})  BY SumRemove
<1>5. SumFunctionOnSet(f, S \ {x}) \in Int  BY <1>1, SumType
<1> QED BY <1>2, <1>3, <1>4, <1>5

\* A sum of natural numbers is a natural number.
LEMMA SumNat ==
    ASSUME NEW S, IsFiniteSet(S), NEW f, \A y \in S : f[y] \in Nat
    PROVE  SumFunctionOnSet(f, S) \in Nat
<1> DEFINE Bad == {t \in SUBSET S : SumFunctionOnSet(f, t) \notin Nat}
<1>1. ASSUME NEW t \in Bad, \A v \in Bad : v \subseteq t => v = t  PROVE FALSE
  <2>1. IsFiniteSet(t)  BY FS_Subset
  <2>2. t # {}  BY SumEmpty
  <2> PICK x \in t : TRUE  BY <2>2
  <2>3. SumFunctionOnSet(f, t) = f[x] + SumFunctionOnSet(f, t \ {x})  BY <2>1, SumRemove
  <2>4. SumFunctionOnSet(f, t \ {x}) \in Nat  BY <1>1
  <2> QED BY <2>3, <2>4
<1>2. Bad \in SUBSET SUBSET S  OBVIOUS
<1>3. Bad = {}
  <2> HIDE DEF Bad
  <2> QED BY <1>1, <1>2, MinimalSubset
<1> QED BY <1>3

\* Of natural numbers, fewer have no larger a sum.
LEMMA SumSubset ==
    ASSUME NEW S, IsFiniteSet(S), NEW f, \A y \in S : f[y] \in Nat, NEW T \in SUBSET S
    PROVE  SumFunctionOnSet(f, T) <= SumFunctionOnSet(f, S)
<1> DEFINE Bad == {t \in SUBSET S : T \subseteq t /\ ~(SumFunctionOnSet(f, T) <= SumFunctionOnSet(f, t))}
<1>0. \A t \in SUBSET S : SumFunctionOnSet(f, t) \in Nat  BY SumNat, FS_Subset
<1>1. ASSUME NEW t \in Bad, \A v \in Bad : v \subseteq t => v = t  PROVE FALSE
  <2>1. IsFiniteSet(t)  BY FS_Subset
  <2>2. T # t  BY <1>0
  <2> PICK x \in t : x \notin T  BY <2>2
  <2>3. SumFunctionOnSet(f, t) = f[x] + SumFunctionOnSet(f, t \ {x})  BY <2>1, SumRemove
  <2>4. SumFunctionOnSet(f, T) <= SumFunctionOnSet(f, t \ {x})  BY <1>1
  <2> QED BY <2>3, <2>4, <1>0
<1>2. Bad \in SUBSET SUBSET S  OBVIOUS
<1>3. Bad = {}
  <2> HIDE DEF Bad
  <2> QED BY <1>1, <1>2, MinimalSubset
<1> QED BY <1>3

\* A sum of zeros.
LEMMA SumZero ==
    ASSUME NEW S, IsFiniteSet(S), NEW f, \A y \in S : f[y] = 0
    PROVE  SumFunctionOnSet(f, S) = 0
<1> DEFINE Bad == {t \in SUBSET S : SumFunctionOnSet(f, t) # 0}
<1>1. ASSUME NEW t \in Bad, \A v \in Bad : v \subseteq t => v = t  PROVE FALSE
  <2>1. IsFiniteSet(t)  BY FS_Subset
  <2>2. t # {}  BY SumEmpty
  <2> PICK x \in t : TRUE  BY <2>2
  <2>3. SumFunctionOnSet(f, t) = f[x] + SumFunctionOnSet(f, t \ {x})  BY <2>1, SumRemove
  <2>4. SumFunctionOnSet(f, t \ {x}) = 0  BY <1>1
  <2>5. f[x] = 0  OBVIOUS
  <2> QED  BY <2>3, <2>4, <2>5
<1>2. Bad \in SUBSET SUBSET S  OBVIOUS
<1>3. Bad = {}
  <2> HIDE DEF Bad
  <2> QED  BY <1>1, <1>2, MinimalSubset
<1> QED  BY <1>3

\* Smaller summands have no larger a sum.
LEMMA SumMono ==
    ASSUME NEW S, IsFiniteSet(S), NEW f, NEW g,
           \A y \in S : f[y] \in Int, \A y \in S : g[y] \in Int, \A y \in S : g[y] <= f[y]
    PROVE  SumFunctionOnSet(g, S) <= SumFunctionOnSet(f, S)
<1> DEFINE Bad == {t \in SUBSET S : ~(SumFunctionOnSet(g, t) <= SumFunctionOnSet(f, t))}
<1>1. ASSUME NEW t \in Bad, \A v \in Bad : v \subseteq t => v = t  PROVE FALSE
  <2>1. IsFiniteSet(t)  BY FS_Subset
  <2>2. t # {}
    <3>1. SumFunctionOnSet(f, {}) = 0 /\ SumFunctionOnSet(g, {}) = 0  BY SumEmpty
    <3> QED  BY <3>1
  <2> PICK x \in t : TRUE  BY <2>2
  <2>3. /\ SumFunctionOnSet(f, t) = f[x] + SumFunctionOnSet(f, t \ {x})
        /\ SumFunctionOnSet(g, t) = g[x] + SumFunctionOnSet(g, t \ {x})
    BY <2>1, SumRemove
  <2>4. SumFunctionOnSet(f, t \ {x}) \in Int /\ SumFunctionOnSet(g, t \ {x}) \in Int
    <3>1. IsFiniteSet(t \ {x})  BY <2>1, FS_RemoveElement
    <3> QED  BY <3>1, SumType
  <2>5. SumFunctionOnSet(g, t \ {x}) <= SumFunctionOnSet(f, t \ {x})  BY <1>1
  <2>6. f[x] \in Int /\ g[x] \in Int /\ g[x] <= f[x]  OBVIOUS
  <2>7. SumFunctionOnSet(g, t) <= SumFunctionOnSet(f, t)  BY <2>3, <2>4, <2>5, <2>6
  <2> QED  BY <2>7
<1>2. Bad \in SUBSET SUBSET S  OBVIOUS
<1>3. Bad = {}
  <2> HIDE DEF Bad
  <2> QED  BY <1>1, <1>2, MinimalSubset
<1> QED  BY <1>3

\* One summand grows by at most d, the others do not.
LEMMA SumMoves ==
    ASSUME NEW S, IsFiniteSet(S), NEW f, NEW g, NEW x \in S, NEW d \in Int,
           \A y \in S : f[y] \in Int, \A y \in S : g[y] \in Int,
           \A y \in S \ {x} : g[y] <= f[y], g[x] <= f[x] + d
    PROVE  SumFunctionOnSet(g, S) <= SumFunctionOnSet(f, S) + d
<1>1. IsFiniteSet(S \ {x})  BY FS_RemoveElement
<1>2. SumFunctionOnSet(g, S \ {x}) <= SumFunctionOnSet(f, S \ {x})  BY <1>1, SumMono
<1>3. SumFunctionOnSet(f, S) = f[x] + SumFunctionOnSet(f, S \ {x})  BY SumRemove
<1>4. SumFunctionOnSet(g, S) = g[x] + SumFunctionOnSet(g, S \ {x})  BY SumRemove
<1>5. SumFunctionOnSet(f, S \ {x}) \in Int /\ SumFunctionOnSet(g, S \ {x}) \in Int  BY <1>1, SumType
<1>6. f[x] \in Int /\ g[x] \in Int  OBVIOUS
<1> QED  BY <1>2, <1>3, <1>4, <1>5, <1>6

\* The sum over two disjoint sets.
LEMMA SumJoin ==
    ASSUME NEW A, NEW B, IsFiniteSet(A), IsFiniteSet(B), A \cap B = {},
           NEW f, \A y \in A \cup B : f[y] \in Int
    PROVE  SumFunctionOnSet(f, A \cup B) = SumFunctionOnSet(f, A) + SumFunctionOnSet(f, B)
<1> DEFINE Bad == {t \in SUBSET B :
                     SumFunctionOnSet(f, A \cup t) # SumFunctionOnSet(f, A) + SumFunctionOnSet(f, t)}
           a == SumFunctionOnSet(f, A)
<1>1. a \in Int  BY SumType
<1>2. ASSUME NEW t \in Bad, \A v \in Bad : v \subseteq t => v = t  PROVE FALSE
  <2>1. IsFiniteSet(t)  BY FS_Subset
  <2>2. t # {}
    <3>1. SumFunctionOnSet(f, {}) = 0 /\ SumFunctionOnSet(f, A \cup {}) = a  BY SumEmpty
    <3>2. a = a + 0  BY <1>1
    <3> QED  BY <3>1, <3>2
  <2> PICK x \in t : TRUE  BY <2>2
  <2> DEFINE v == t \ {x}
             b == SumFunctionOnSet(f, v)
  <2>3. IsFiniteSet(v)  BY <2>1, FS_RemoveElement
  <2>4. IsFiniteSet(A \cup v)  BY <2>3, FS_Union
  <2>5. x \notin v /\ x \notin A \cup v /\ v \cup {x} = t /\ (A \cup v) \cup {x} = A \cup t  OBVIOUS
  <2>6. SumFunctionOnSet(f, t) = b + f[x]  BY <2>3, <2>5, SumAdd
  <2>7. SumFunctionOnSet(f, A \cup t) = SumFunctionOnSet(f, A \cup v) + f[x]  BY <2>4, <2>5, SumAdd
  <2>8. SumFunctionOnSet(f, A \cup v) = a + b  BY <1>2
  <2>9. b \in Int /\ f[x] \in Int  BY <2>3, SumType
  <2> HIDE DEF a, b, v
  <2>10. SumFunctionOnSet(f, A \cup t) = a + SumFunctionOnSet(f, t)  BY <1>1, <2>6, <2>7, <2>8, <2>9
  <2> QED  BY <2>10 DEF a
<1>3. Bad \in SUBSET SUBSET B  OBVIOUS
<1>4. Bad = {}
  <2> HIDE DEF Bad
  <2> QED  BY <1>2, <1>3, MinimalSubset
<1> QED  BY <1>4

\* The sum of the sums over disjoint sets is the sum over all of them.
LEMMA SumOfSums ==
    ASSUME NEW C, IsFiniteSet(C), NEW A, IsFiniteSet(A), NEW S, \A c \in C : S[c] \subseteq A,
           \A c, d \in C : c # d => S[c] \cap S[d] = {},
           NEW f, \A y \in A : f[y] \in Int, NEW g, \A c \in C : g[c] = SumFunctionOnSet(f, S[c])
    PROVE  SumFunctionOnSet(g, C) = SumFunctionOnSet(f, UNION {S[c] : c \in C})
<1> DEFINE U(t) == UNION {S[c] : c \in t}
           Bad == {t \in SUBSET C : SumFunctionOnSet(g, t) # SumFunctionOnSet(f, U(t))}
<1>1. \A c \in C : IsFiniteSet(S[c])  BY FS_Subset
<1>2. \A c \in C : g[c] \in Int  BY <1>1, SumType
<1>3. \A t \in SUBSET C : IsFiniteSet(U(t)) /\ U(t) \subseteq A
  <2>1. \A t \in SUBSET C : U(t) \subseteq A  OBVIOUS
  <2> QED  BY <2>1, FS_Subset
<1>4. ASSUME NEW t \in Bad, \A v \in Bad : v \subseteq t => v = t  PROVE FALSE
  <2>1. IsFiniteSet(t)  BY FS_Subset
  <2>2. t # {}
    <3>1. U({}) = {} /\ SumFunctionOnSet(f, {}) = 0 /\ SumFunctionOnSet(g, {}) = 0  BY SumEmpty
    <3> QED  BY <3>1
  <2> PICK x \in t : TRUE  BY <2>2
  <2> DEFINE v == t \ {x}
  <2>3. v \in SUBSET C /\ x \in C /\ v \subseteq t /\ v # t /\ t \in SUBSET C  OBVIOUS
  <2>4. U(t) = U(v) \cup S[x]  OBVIOUS
  <2>5. U(v) \cap S[x] = {}  OBVIOUS
  <2>6. SumFunctionOnSet(g, t) = g[x] + SumFunctionOnSet(g, v)  BY <1>2, <2>1, SumRemove
  <2>7. SumFunctionOnSet(g, v) = SumFunctionOnSet(f, U(v))  BY <1>4, <2>3
  <2> HIDE DEF U, v
  <2>8. /\ IsFiniteSet(U(v)) /\ IsFiniteSet(S[x]) /\ \A y \in U(v) \cup S[x] : f[y] \in Int
    BY <1>1, <1>3, <2>3
  <2>9. SumFunctionOnSet(f, U(v) \cup S[x]) = SumFunctionOnSet(f, U(v)) + SumFunctionOnSet(f, S[x])
    BY <2>5, <2>8, SumJoin
  <2>10. g[x] = SumFunctionOnSet(f, S[x]) /\ g[x] \in Int  BY <1>2, <2>3
  <2>11. SumFunctionOnSet(f, U(v)) \in Int  BY <2>8, SumType
  <2>12. SumFunctionOnSet(g, t) = SumFunctionOnSet(f, U(t))  BY <2>4, <2>6, <2>7, <2>9, <2>10, <2>11
  <2> QED  BY <2>12
<1>5. Bad \in SUBSET SUBSET C  OBVIOUS
<1>6. Bad = {}
  <2> HIDE DEF Bad
  <2> QED  BY <1>4, <1>5, MinimalSubset
<1> HIDE DEF U
<1>7. SumFunctionOnSet(g, C) = SumFunctionOnSet(f, U(C))  BY <1>6
<1> QED  BY <1>7 DEF U

\* A set of natural numbers has a least element.
LEMMA MinimalNat ==
    ASSUME NEW T \in SUBSET Nat, T # {}
    PROVE  \E m \in T : \A k \in T : m <= k
<1> PICK n \in T : TRUE  OBVIOUS
<1> DEFINE C == {u \in SUBSET (1 .. n) : \E k \in T : u = 1 .. k}
<1>1. IsFiniteSet(1 .. n)  BY FS_Interval
<1>2. 1 .. n \in C /\ C \in SUBSET SUBSET (1 .. n)  OBVIOUS
<1>3. PICK u \in C : \A v \in C : v \subseteq u => v = u
  <2> DEFINE S == 1 .. n
  <2>1. IsFiniteSet(S) /\ C \in SUBSET SUBSET S /\ C # {}  BY <1>1, <1>2
  <2> HIDE DEF C, S
  <2> QED BY <2>1, MinimalSubset
<1>4. PICK m \in T : u = 1 .. m  OBVIOUS
<1>5. ASSUME NEW k \in T, k < m  PROVE FALSE
  <2>1. m <= n
    <3>1. CASE m = 0  BY <3>1
    <3>2. CASE m # 0
      <4>1. m \in 1 .. n  BY <1>4, <3>2
      <4> QED BY <4>1
    <3> QED BY <3>1, <3>2
  <2>2. 1 .. k \subseteq u /\ 1 .. k \in C  BY <1>4, <1>5, <2>1
  <2>3. 1 .. k = 1 .. m  BY <1>3, <1>4, <2>2
  <2>4. m \in 1 .. m  BY <1>5
  <2>5. m \in 1 .. k  BY <2>3, <2>4
  <2> QED BY <1>5, <2>5
<1> QED BY <1>5

\* A finite set of natural numbers has a greatest element.
LEMMA MaximalNat ==
  ASSUME NEW S, \A k \in S : k \in Nat, S # {}, IsFiniteSet(S)
  PROVE  \E m \in S : \A k \in S : m >= k
<1> DEFINE Bad == {u \in SUBSET S : u # {} /\ ~ \E m \in u : \A k \in u : m >= k}
<1>1. ASSUME NEW u \in Bad, \A v \in Bad : v \subseteq u => v = u PROVE FALSE
  <2>1. PICK x \in u : TRUE
    OBVIOUS
  <2>2. u \ {x} \notin Bad
    BY <1>1, <2>1
  <2>3. CASE u \ {x} = {}
    BY <2>1, <2>3
  <2>4. CASE u \ {x} # {}
    <3>1. PICK m \in u \ {x} : \A k \in u \ {x} : m >= k
      BY <2>2, <2>4
    <3>2. m \in Nat /\ x \in Nat /\ \A k \in u : k = x \/ m >= k
      BY <2>1, <3>1
    <3>3. CASE m >= x
      BY <3>1, <3>2, <3>3
    <3>4. CASE x > m
      <4>1. \A k \in u : x >= k
        BY <3>2, <3>4
      <4> QED
        BY <2>1, <4>1
    <3> QED
      BY <3>2, <3>3, <3>4
  <2> QED
    BY <2>3, <2>4
<1>2. Bad \in SUBSET SUBSET S
  OBVIOUS
<1>3. ASSUME Bad # {} PROVE FALSE
  <2> HIDE DEF Bad
  <2>1. PICK u \in Bad : \A v \in Bad : v \subseteq u => v = u
    BY <1>2, <1>3, MinimalSubset
  <2> QED
    BY <1>1, <2>1
<1> QED
  BY <1>3

\* A downward closed part of 1 .. n is an initial segment.
LEMMA InitialSegment ==
    ASSUME NEW n \in Nat, NEW T \in SUBSET (1 .. n),
           \A k \in T : \A j \in 1 .. n : j < k => j \in T
    PROVE  Cardinality(T) \in 0 .. n /\ T = 1 .. Cardinality(T)
<1> DEFINE Out == {k \in 1 .. n + 1 : k \notin T}
<1>1. Out \in SUBSET Nat /\ n + 1 \in Out  OBVIOUS
<1>2. PICK m \in Out : \A k \in Out : m <= k
  <2> HIDE DEF Out
  <2> QED BY <1>1, MinimalNat
<1>3. T = 1 .. m - 1
  <2>1. \A k \in 1 .. m - 1 : k \in T  BY <1>2
  <2>2. ASSUME NEW k \in T  PROVE k \in 1 .. m - 1
    <3>1. k # m /\ m \in 1 .. n + 1  BY <1>2
    <3>2. CASE m < k  BY <3>2, <3>1, <1>2
    <3> QED BY <3>1, <3>2
  <2> QED BY <2>1, <2>2
<1>4. m \in 1 .. n + 1  OBVIOUS
<1>5. Cardinality(1 .. m - 1) = m - 1  BY <1>4, FS_Interval
<1> QED BY <1>3, <1>4, <1>5

\* The first summand of a sequence, and the others.
LEMMA SumShift ==
    ASSUME NEW n \in Nat, NEW f, NEW g,
           \A k \in 1 .. n + 1 : f[k] \in Int, \A k \in 1 .. n : g[k] = f[k + 1]
    PROVE  SumFunctionOnSet(f, 1 .. n + 1) = f[1] + SumFunctionOnSet(g, 1 .. n)
<1> DEFINE Bad == {m \in 0 .. n :
                     SumFunctionOnSet(f, 1 .. m + 1) # f[1] + SumFunctionOnSet(g, 1 .. m)}
<1>1. ASSUME NEW m \in Bad, \A k \in Bad : m <= k  PROVE FALSE
  <2>1. m # 0
    <3>1. SumFunctionOnSet(g, {}) = 0 /\ SumFunctionOnSet(f, {}) = 0  BY SumEmpty
    <3>2. f[1] \in Int  OBVIOUS
    <3>3. SumFunctionOnSet(f, {} \cup {1}) = SumFunctionOnSet(f, {}) + f[1]
      <4>1. IsFiniteSet({}) /\ 1 \notin {} /\ \A y \in {} \cup {1} : f[y] \in Int
        BY <3>2, FS_EmptySet
      <4> QED BY <4>1, SumAdd
    <3>4. 1 .. 0 + 1 = {} \cup {1} /\ 1 .. 0 = {}  OBVIOUS
    <3>5. SumFunctionOnSet(f, 1 .. 0 + 1) = f[1] /\ SumFunctionOnSet(g, 1 .. 0) = 0
      BY <3>1, <3>2, <3>3, <3>4
    <3>6. 0 \notin Bad  BY <3>2, <3>5
    <3> QED BY <3>6
  <2>2. m - 1 \in 0 .. n /\ m - 1 \notin Bad  BY <1>1, <2>1
  <2>3. SumFunctionOnSet(f, 1 .. m) = f[1] + SumFunctionOnSet(g, 1 .. m - 1)
    BY <2>2
  <2>4. 1 .. m + 1 = (1 .. m) \cup {m + 1} /\ 1 .. m = (1 .. m - 1) \cup {m}
    BY <2>2
  <2>5. IsFiniteSet(1 .. m) /\ IsFiniteSet(1 .. m - 1)  BY FS_Interval
  <2>6. \A k \in (1 .. m) \cup {m + 1} : f[k] \in Int  OBVIOUS
  <2>7. \A k \in (1 .. m - 1) \cup {m} : g[k] \in Int /\ g[k] = f[k + 1]  BY <2>2
  <2>8. SumFunctionOnSet(f, 1 .. m + 1) = SumFunctionOnSet(f, 1 .. m) + f[m + 1]
    <3>1. m + 1 \notin 1 .. m  OBVIOUS
    <3>2. SumFunctionOnSet(f, (1 .. m) \cup {m + 1}) = SumFunctionOnSet(f, 1 .. m) + f[m + 1]
      BY <2>5, <2>6, <3>1, SumAdd
    <3> QED BY <2>4, <3>2
  <2>9. SumFunctionOnSet(g, 1 .. m) = SumFunctionOnSet(g, 1 .. m - 1) + g[m]
    <3>1. m \notin 1 .. m - 1  OBVIOUS
    <3>2. SumFunctionOnSet(g, (1 .. m - 1) \cup {m}) = SumFunctionOnSet(g, 1 .. m - 1) + g[m]
      BY <2>5, <2>7, <3>1, SumAdd
    <3> QED BY <2>4, <3>2
  <2>10. /\ g[m] = f[m + 1] /\ g[m] \in Int /\ f[1] \in Int
         /\ SumFunctionOnSet(g, 1 .. m - 1) \in Int
    <3>1. SumFunctionOnSet(g, 1 .. m - 1) \in Int  BY <2>5, <2>7, SumType
    <3> QED BY <2>7, <3>1
  <2> QED BY <2>3, <2>8, <2>9, <2>10
<1>2. Bad \in SUBSET Nat  OBVIOUS
<1>3. Bad = {}
  <2> HIDE DEF Bad
  <2> QED BY <1>1, <1>2, MinimalNat
<1> QED BY <1>3

----------------------------------------------------------------------------
\* h[i] is what the first i of the n lists of b hold.
Joins(h, b, n) == \A i \in 1 .. n : h[i] = IF i = 1 THEN b[i] ELSE h[i - 1] \o b[i]

\* A flattened list of lists is reached one list at a time.
LEMMA FlattenSteps ==
  ASSUME NEW S, NEW n \in Nat, n # 0, NEW b \in [1 .. n -> Seq(S)]
  PROVE  \E h : FlattenSeq(b) = h[n] /\ Joins(h, b, n)
<1> DEFINE Step(f, i) == IF i = 1 THEN b[i] ELSE f[i - 1] \o b[i]
<1>1. b \in Seq(Seq(S)) /\ Len(b) = n  BY LenProperties, IsASeq
<1> DEFINE Bad == {m \in 1 .. n :
                     ~ \E f \in [1 .. m -> Seq(S)] : \A i \in 1 .. m : f[i] = Step(f, i)}
<1>2. ASSUME NEW m \in Bad, \A k \in Bad : m <= k PROVE FALSE
  <2>1. m # 1
    <3> DEFINE f == [i \in 1 .. 1 |-> b[1]]
    <3>1. f \in [1 .. 1 -> Seq(S)] /\ \A i \in 1 .. 1 : f[i] = Step(f, i)  OBVIOUS
    <3> HIDE DEF f
    <3>2. 1 \notin Bad  BY <3>1
    <3> QED  BY <3>2
  <2>2. m - 1 \in 1 .. n /\ m - 1 \notin Bad
    <3>1. m \in 1 .. n  OBVIOUS
    <3>2. m - 1 \in Bad => m <= m - 1  BY <1>2
    <3> HIDE DEF Bad
    <3> QED  BY <2>1, <3>1, <3>2
  <2> PICK f \in [1 .. m - 1 -> Seq(S)] : \A i \in 1 .. m - 1 : f[i] = Step(f, i)  BY <2>2
  <2> DEFINE g == [i \in 1 .. m |-> IF i = m THEN f[m - 1] \o b[m] ELSE f[i]]
  <2>3. f[m - 1] \o b[m] \in Seq(S)
    <3>1. f[m - 1] \in Seq(S) /\ b[m] \in Seq(S)  BY <2>2
    <3> QED  BY <3>1, ConcatProperties
  <2>4. \A i \in 1 .. m : i # m => i \in 1 .. m - 1  OBVIOUS
  <2>5. g \in [1 .. m -> Seq(S)]  BY <2>3, <2>4
  <2>6. ASSUME NEW i \in 1 .. m PROVE g[i] = Step(g, i)
    <3>1. CASE i = m
      <4>1. g[m - 1] = f[m - 1]  BY <2>2
      <4> QED  BY <2>1, <3>1, <4>1
    <3>2. CASE i # m
      <4>1. i \in 1 .. m - 1  BY <3>2
      <4>2. i # 1 => g[i - 1] = f[i - 1]  BY <4>1
      <4> QED  BY <3>2, <4>1, <4>2
    <3> QED  BY <3>1, <3>2
  <2> HIDE DEF g
  <2> QED  BY <2>5, <2>6
<1>3. Bad = {}
  <2>1. Bad \in SUBSET Nat  OBVIOUS
  <2> HIDE DEF Bad
  <2> QED  BY <1>2, <2>1, MinimalNat
<1> DEFINE body(f) == [i \in 1 .. Len(b) |-> IF i = 1 THEN b[i] ELSE f[i - 1] \o b[i]]
           h == CHOOSE f : f = body(f)
<1>4. FlattenSeq(b) = h[Len(b)]
  <2>1. b # <<>>  BY <1>1, EmptySeq
  <2> QED  BY <1>1, <2>1 DEF FlattenSeq
<1>5. h = body(h)
  <2>1. n \in 1 .. n  OBVIOUS
  <2>2. PICK f \in [1 .. n -> Seq(S)] : \A i \in 1 .. n : f[i] = Step(f, i)  BY <1>3, <2>1
  <2>3. f = body(f)  BY <1>1, <2>2
  <2>4. \E k : k = body(k)  BY <2>3
  <2> HIDE DEF body
  <2> QED  BY <2>4
<1> HIDE DEF h
<1>6. \A i \in 1 .. n : h[i] = Step(h, i)  BY <1>1, <1>5
<1>7. Joins(h, b, n)  BY <1>6 DEF Joins
<1> QED  BY <1>1, <1>4, <1>7

\* A flattened list of lists is a list of what the lists hold.
LEMMA FlattenType ==
  ASSUME NEW S, NEW n \in Nat, NEW b \in [1 .. n -> Seq(S)]
  PROVE  FlattenSeq(b) \in Seq(S)
<1>1. CASE n = 0
  <2>1. b \in Seq(Seq(S)) /\ Len(b) = n  BY LenProperties, IsASeq
  <2>2. b = <<>>  BY <1>1, <2>1, EmptySeq
  <2> QED  BY <1>1, <2>1, <2>2 DEF FlattenSeq
<1>2. CASE n # 0
  <2>1. PICK h : FlattenSeq(b) = h[n] /\ Joins(h, b, n)
    BY <1>2, FlattenSteps
  <2> DEFINE Odd == {i \in 1 .. n : h[i] \notin Seq(S)}
  <2>2. ASSUME NEW m \in Odd, \A k \in Odd : m <= k PROVE FALSE
    <3>1. CASE m = 1  BY <2>1, <3>1 DEF Joins
    <3>2. CASE m # 1
      <4>1. m - 1 \in 1 .. n /\ m - 1 \notin Odd  BY <2>2, <3>2
      <4>2. h[m - 1] \in Seq(S) /\ b[m] \in Seq(S)  BY <4>1
      <4> QED  BY <2>1, <3>2, <4>2, ConcatProperties DEF Joins
    <3> QED  BY <3>1, <3>2
  <2>3. Odd = {}
    <3>1. Odd \in SUBSET Nat  OBVIOUS
    <3> HIDE DEF Odd
    <3> QED  BY <2>2, <3>1, MinimalNat
  <2> QED  BY <1>2, <2>1, <2>3
<1> QED  BY <1>1, <1>2
=============================================================================
