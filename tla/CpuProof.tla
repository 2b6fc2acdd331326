------------------------------- MODULE CpuProof -------------------------------
(* Proofs about the two parts of a CPU's state. First CpuScheduler, for any     *)
(* number of shares, priorities and quotas, then Timer, for any number of       *)
(* threads and any durations.                                                   *)
EXTENDS CpuScheduler, Timer, QueueTheorems, FiniteSetTheorems, WellFoundedInduction

-----------------------------------------------------------------------------
(* Minimum and maximum *)

LEMMA MinOfTwo ==
  ASSUME NEW a \in Nat, NEW b \in Nat
  PROVE  Min({a, b}) = IF a <= b THEN a ELSE b
<1> DEFINE m == IF a <= b THEN a ELSE b
<1>1. m \in {a, b} /\ \A y \in {a, b} : m <= y
  OBVIOUS
<1>2. \A x \in {a, b} : (\A y \in {a, b} : x <= y) => x = m
  OBVIOUS
<1> HIDE DEF m
<1>3. QED
  BY <1>1, <1>2 DEF Min

LEMMA MaxOfTwo ==
  ASSUME NEW a \in Nat, NEW b \in Nat
  PROVE  Max({a, b}) = IF a <= b THEN b ELSE a
<1> DEFINE m == IF a <= b THEN b ELSE a
<1>1. m \in {a, b} /\ \A y \in {a, b} : m >= y
  OBVIOUS
<1>2. \A x \in {a, b} : (\A y \in {a, b} : x >= y) => x = m
  OBVIOUS
<1> HIDE DEF m
<1>3. QED
  BY <1>1, <1>2 DEF Max

\* The highest of some priorities is one of them.
LEMMA HighestPrio ==
  ASSUME NEW B \in SUBSET Prio, B # {}
  PROVE  Max(B) \in B /\ \A p \in B : p <= Max(B)
<1> DEFINE R == OpToRel(<, Nat)
           T == {MaxPrio - p : p \in B}
<1>1. \A p \in B : p \in Nat /\ p <= MaxPrio /\ MaxPrio \in Nat
  BY CpuSchedulerAssumption DEF Prio
<1>2. T \subseteq Nat
  BY <1>1
<1>3. T # {}
  OBVIOUS
<1>4. IsWellFoundedOn(R, Nat)
  BY NatLessThanWellFounded
<1>5. \A x, y \in Nat : x < y => <<x, y>> \in R
  BY DEF OpToRel
<1>6. \A p \in B : MaxPrio - p \in T
  OBVIOUS
<1> HIDE DEF R, T
<1>7. PICK x \in T : \A y \in T : ~(<<y, x>> \in R)
  BY <1>2, <1>3, <1>4, WFMin
<1>8. \A y \in T : x <= y
  <2> TAKE y \in T
  <2>1. x \in Nat /\ y \in Nat
    BY <1>2
  <2>2. ~(y < x)
    BY <1>5, <1>7, <2>1
  <2>3. QED
    BY <2>1, <2>2
<1>9. PICK q \in B : x = MaxPrio - q
  BY <1>7 DEF T
<1>10. \A p \in B : q >= p
  <2> TAKE p \in B
  <2>1. MaxPrio - q <= MaxPrio - p
    BY <1>8, <1>9, <1>6
  <2>2. MaxPrio \in Nat /\ p \in Nat /\ q \in Nat
    BY <1>1
  <2>3. QED
    BY <2>1, <2>2
<1>11. Max(B) \in B /\ \A p \in B : Max(B) >= p
  BY <1>10 DEF Max
<1>12. QED
  BY <1>1, <1>11

-----------------------------------------------------------------------------
(* Sums over finite sets *)

\* Induction over the natural numbers: a set that contains 0 and, with a number,
\* the next one contains all.
LEMMA NatInSet ==
  ASSUME NEW X, 0 \in X, \A n \in Nat : n \in X => n + 1 \in X
  PROVE  Nat \subseteq X
<1> DEFINE R == OpToRel(<, Nat)
           Y == Nat \ X
<1>1. SUFFICES ASSUME Y # {} PROVE FALSE
  OBVIOUS
<1>2. IsWellFoundedOn(R, Nat)
  BY NatLessThanWellFounded
<1>3. \A x, y \in Nat : y < x => <<y, x>> \in R
  BY DEF OpToRel
<1>4. Y \subseteq Nat
  OBVIOUS
<1> HIDE DEF R, Y
<1>5. PICK m \in Y : \A y \in Y : ~(<<y, m>> \in R)
  BY <1>1, <1>2, <1>4, WFMin
<1>6. m \in Nat /\ m \notin X
  BY DEF Y
<1>7. m # 0 /\ m - 1 \in Nat /\ (m - 1) + 1 = m /\ m - 1 < m
  BY <1>6
<1>8. m - 1 \notin X
  BY <1>6, <1>7
<1>9. m - 1 \in Y
  BY <1>7, <1>8 DEF Y
<1> QED
  BY <1>3, <1>5, <1>6, <1>7, <1>9

\* The function by which SumFunctionOnSet(f, S) is defined
Unfolds(f, S, it) ==
  it = [T \in SUBSET S |-> IF T = {} THEN 0
                           ELSE f[CHOOSE x \in T : TRUE] + it[T \ {CHOOSE x \in T : TRUE}]]

LEMMA SumIsFold ==
  ASSUME NEW f, NEW S
  PROVE  SumFunctionOnSet(f, S) = (CHOOSE it : Unfolds(f, S, it))[S]
BY DEF SumFunctionOnSet, FoldFunctionOnSet, MapThenFoldSet, Unfolds

Numbers(f, S) == IsFiniteSet(S) /\ \A x \in S : f[x] \in Nat

LEMMA UnfoldingExists ==
  ASSUME NEW f, NEW S, Numbers(f, S)
  PROVE  \E it \in [SUBSET S -> Nat] : Unfolds(f, S, it)
<1> DEFINE ch(T) == CHOOSE x \in T : TRUE
           Sub(n) == {T \in SUBSET S : Cardinality(T) <= n}
           Fits(n, g) == \A T \in Sub(n) : g[T] = IF T = {} THEN 0 ELSE f[ch(T)] + g[T \ {ch(T)}]
           X == {n \in Nat : \E g \in [Sub(n) -> Nat] : Fits(n, g)}
<1>1. \A T \in SUBSET S : IsFiniteSet(T) /\ Cardinality(T) \in Nat
  BY FS_Subset, FS_CardinalityType DEF Numbers
<1>2. \A T \in SUBSET S : T # {} =>
        /\ ch(T) \in T /\ T \ {ch(T)} \in SUBSET S /\ f[ch(T)] \in Nat
        /\ Cardinality(T \ {ch(T)}) = Cardinality(T) - 1
  <2> TAKE T \in SUBSET S
  <2> HAVE T # {}
  <2>1. ch(T) \in T
    OBVIOUS
  <2> HIDE DEF ch
  <2>2. Cardinality(T \ {ch(T)}) = Cardinality(T) - 1
    BY <1>1, <2>1, FS_RemoveElement
  <2> QED
    BY <2>1, <2>2 DEF Numbers
<1>3. Cardinality({}) = 0 /\ \A T \in SUBSET S : Cardinality(T) = 0 => T = {}
  BY <1>1, FS_EmptySet
<1> HIDE DEF ch
<1>4. 0 \in X
  <2> DEFINE g == [T \in Sub(0) |-> 0]
  <2>1. \A T \in Sub(0) : T = {}
    BY <1>1, <1>3
  <2>2. g \in [Sub(0) -> Nat] /\ Fits(0, g)
    BY <2>1
  <2> QED
    BY <2>2
<1>5. ASSUME NEW n \in Nat, n \in X PROVE n + 1 \in X
  <2>1. PICK g \in [Sub(n) -> Nat] : Fits(n, g)
    BY <1>5
  <2> DEFINE h == [T \in Sub(n + 1) |-> IF T = {} THEN 0 ELSE f[ch(T)] + g[T \ {ch(T)}]]
  <2>2. \A T \in Sub(n + 1) : T # {} => T \ {ch(T)} \in Sub(n) /\ f[ch(T)] \in Nat
    <3> TAKE T \in Sub(n + 1)
    <3> HAVE T # {}
    <3>1. T \in SUBSET S /\ Cardinality(T) \in Nat /\ Cardinality(T) <= n + 1
      BY <1>1
    <3>2. T \ {ch(T)} \in SUBSET S /\ f[ch(T)] \in Nat /\ Cardinality(T \ {ch(T)}) = Cardinality(T) - 1
      BY <1>2, <3>1
    <3>3. Cardinality(T) - 1 <= n
      BY <3>1
    <3> QED
      BY <3>2, <3>3
  <2>3. \A T \in Sub(n) : T \in Sub(n + 1)
    BY <1>1
  <2>4. h \in [Sub(n + 1) -> Nat]
    BY <2>1, <2>2
  <2>5. \A T \in Sub(n) : h[T] = g[T]
    BY <2>1, <2>3
  <2>6. Fits(n + 1, h)
    BY <2>2, <2>5
  <2> HIDE DEF h, Fits, Sub
  <2> QED
    BY <2>4, <2>6
<1>6. Cardinality(S) \in X
  <2> HIDE DEF X
  <2>1. Nat \subseteq X
    BY <1>4, <1>5, NatInSet
  <2> QED
    BY <1>1, <2>1
<1>7. Sub(Cardinality(S)) = SUBSET S
  BY FS_Subset DEF Numbers
<1>8. PICK g \in [SUBSET S -> Nat] : \A T \in SUBSET S : g[T] = IF T = {} THEN 0 ELSE f[ch(T)] + g[T \ {ch(T)}]
  BY <1>6, <1>7
<1>9. g = [T \in SUBSET S |-> IF T = {} THEN 0 ELSE f[ch(T)] + g[T \ {ch(T)}]]
  BY <1>8
<1> QED
  BY <1>8, <1>9 DEF Unfolds, ch

\* it computes the sum of f over each part of S, along the chosen order.
Adds(f, S, it) ==
  \A T \in SUBSET S : it[T] = IF T = {} THEN 0
                              ELSE f[CHOOSE x \in T : TRUE] + it[T \ {CHOOSE x \in T : TRUE}]

LEMMA SumAdds ==
  ASSUME NEW f, NEW S, Numbers(f, S)
  PROVE  \E it : SumFunctionOnSet(f, S) = it[S] /\ Adds(f, S, it)
<1> DEFINE it == CHOOSE i : Unfolds(f, S, i)
<1>1. Unfolds(f, S, it)
  BY UnfoldingExists
<1>2. SumFunctionOnSet(f, S) = it[S]
  BY SumIsFold
<1> HIDE DEF it
<1>3. Adds(f, S, it)
  BY <1>1 DEF Unfolds, Adds
<1> QED
  BY <1>2, <1>3

\* Induction over the parts of a finite set, by their size: X contains a part
\* if it contains the smaller ones.
LEMMA PartInduction ==
  ASSUME NEW S, IsFiniteSet(S), NEW X, {} \in X,
         \A U \in SUBSET S : U # {} /\ (\A c \in U : U \ {c} \in X) => U \in X
  PROVE  SUBSET S \subseteq X
<1> DEFINE N == {n \in Nat : \A U \in SUBSET S : Cardinality(U) = n => U \in X}
<1>1. \A U \in SUBSET S : IsFiniteSet(U) /\ Cardinality(U) \in Nat
  BY FS_Subset, FS_CardinalityType
<1>2. 0 \in N
  BY <1>1, FS_EmptySet
<1>3. ASSUME NEW n \in Nat, n \in N PROVE n + 1 \in N
  <2>1. ASSUME NEW U \in SUBSET S, Cardinality(U) = n + 1 PROVE U \in X
    <3>1. U # {}
      BY <2>1, FS_EmptySet
    <3>2. ASSUME NEW c \in U PROVE U \ {c} \in X
      <4>1. Cardinality(U \ {c}) = Cardinality(U) - 1
        BY <1>1, FS_RemoveElement
      <4>2. Cardinality(U \ {c}) = n
        BY <2>1, <4>1
      <4> QED
        BY <1>3, <4>2
    <3> QED
      BY <3>1, <3>2
  <2> QED
    BY <2>1
<1> HIDE DEF N
<1>4. Nat \subseteq N
  BY <1>2, <1>3, NatInSet
<1> QED
  BY <1>1, <1>4 DEF N

\* The sum over a part does not depend on the whole.
LEMMA AddsAgree ==
  ASSUME NEW f, NEW S, NEW T \in SUBSET S, IsFiniteSet(T), NEW it, Adds(f, S, it),
         NEW jt, Adds(f, T, jt)
  PROVE  it[T] = jt[T]
<1> DEFINE X == {U \in SUBSET T : it[U] = jt[U]}
<1>1. {} \in X
  BY DEF Adds
<1>2. ASSUME NEW U \in SUBSET T, U # {}, \A c \in U : U \ {c} \in X PROVE U \in X
  <2> DEFINE c == CHOOSE x \in U : TRUE
  <2>1. c \in U
    BY <1>2
  <2>2. it[U] = f[c] + it[U \ {c}] /\ jt[U] = f[c] + jt[U \ {c}]
    BY <1>2 DEF Adds
  <2> HIDE DEF c
  <2> QED
    BY <1>2, <2>1, <2>2
<1> HIDE DEF X
<1>3. SUBSET T \subseteq X
  BY <1>1, <1>2, PartInduction
<1> QED
  BY <1>3 DEF X

LEMMA SumEmpty ==
  ASSUME NEW f
  PROVE  SumFunctionOnSet(f, {}) = 0
<1>1. Numbers(f, {})
  BY FS_EmptySet DEF Numbers
<1>2. QED
  BY <1>1, SumAdds DEF Adds

LEMMA SumChosen ==
  ASSUME NEW f, NEW S, Numbers(f, S), S # {}
  PROVE  \E c \in S : SumFunctionOnSet(f, S) = f[c] + SumFunctionOnSet(f, S \ {c})
<1> DEFINE c == CHOOSE x \in S : TRUE
           R == S \ {c}
<1>1. c \in S
  OBVIOUS
<1>2. PICK it : SumFunctionOnSet(f, S) = it[S] /\ Adds(f, S, it)
  BY SumAdds
<1>3. it[S] = f[c] + it[R]
  BY <1>2 DEF Adds
<1> HIDE DEF c
<1>4. Numbers(f, R)
  BY FS_Subset DEF Numbers
<1>5. PICK jt : SumFunctionOnSet(f, R) = jt[R] /\ Adds(f, R, jt)
  BY <1>4, SumAdds
<1>6. it[R] = jt[R]
  BY <1>2, <1>4, <1>5, AddsAgree DEF Numbers
<1> QED
  BY <1>1, <1>2, <1>3, <1>5, <1>6

LEMMA SumType ==
  ASSUME NEW f, NEW S, Numbers(f, S)
  PROVE  SumFunctionOnSet(f, S) \in Nat
<1> DEFINE X == {U \in SUBSET S : SumFunctionOnSet(f, U) \in Nat}
<1>1. {} \in X
  BY SumEmpty
<1>2. ASSUME NEW U \in SUBSET S, U # {}, \A c \in U : U \ {c} \in X PROVE U \in X
  <2>1. Numbers(f, U)
    BY FS_Subset DEF Numbers
  <2>2. PICK c \in U : SumFunctionOnSet(f, U) = f[c] + SumFunctionOnSet(f, U \ {c})
    BY <1>2, <2>1, SumChosen
  <2>3. f[c] \in Nat /\ SumFunctionOnSet(f, U \ {c}) \in Nat
    BY <1>2, <2>1 DEF Numbers
  <2> QED
    BY <2>2, <2>3
<1> HIDE DEF X
<1>3. SUBSET S \subseteq X
  BY <1>1, <1>2, PartInduction DEF Numbers
<1> QED
  BY <1>3 DEF X

\* Any element can be taken out of a sum.
LEMMA SumRemove ==
  ASSUME NEW f, NEW S, Numbers(f, S), NEW y \in S
  PROVE  SumFunctionOnSet(f, S) = f[y] + SumFunctionOnSet(f, S \ {y})
<1> DEFINE X == {U \in SUBSET S : \A z \in U : SumFunctionOnSet(f, U) = f[z] + SumFunctionOnSet(f, U \ {z})}
<1>1. {} \in X
  OBVIOUS
<1>2. ASSUME NEW U \in SUBSET S, U # {}, \A c \in U : U \ {c} \in X PROVE U \in X
  <2>1. Numbers(f, U)
    BY FS_Subset DEF Numbers
  <2>2. PICK c \in U : SumFunctionOnSet(f, U) = f[c] + SumFunctionOnSet(f, U \ {c})
    BY <1>2, <2>1, SumChosen
  <2>3. ASSUME NEW z \in U, z # c
        PROVE  SumFunctionOnSet(f, U) = f[z] + SumFunctionOnSet(f, U \ {z})
    <3> DEFINE R == (U \ {c}) \ {z}
    <3>1. SumFunctionOnSet(f, U \ {c}) = f[z] + SumFunctionOnSet(f, R)
      BY <1>2, <2>3
    <3>2. (U \ {z}) \ {c} = R
      OBVIOUS
    <3>3. SumFunctionOnSet(f, U \ {z}) = f[c] + SumFunctionOnSet(f, R)
      BY <1>2, <2>3, <3>2
    <3>4. Numbers(f, R)
      BY <2>1, FS_Subset DEF Numbers
    <3>5. SumFunctionOnSet(f, R) \in Nat /\ f[c] \in Nat /\ f[z] \in Nat
      BY <2>1, <2>3, <3>4, SumType DEF Numbers
    <3> HIDE DEF R
    <3> QED
      BY <2>2, <3>1, <3>3, <3>5
  <2> QED
    BY <2>2, <2>3
<1> HIDE DEF X
<1>3. SUBSET S \subseteq X
  BY <1>1, <1>2, PartInduction DEF Numbers
<1> QED
  BY <1>3 DEF X

\* Fewer and smaller numbers have a smaller sum.
LEMMA SumMono ==
  ASSUME NEW f, NEW g, NEW S, Numbers(g, S), NEW T \in SUBSET S,
         \A x \in T : f[x] \in Nat /\ f[x] <= g[x]
  PROVE  SumFunctionOnSet(f, T) <= SumFunctionOnSet(g, S)
<1> DEFINE X == {U \in SUBSET S : SumFunctionOnSet(f, T \cap U) <= SumFunctionOnSet(g, U)}
<1>1. {} \in X
  <2>1. T \cap {} = {}
    OBVIOUS
  <2> QED
    BY <2>1, SumEmpty
<1>2. ASSUME NEW U \in SUBSET S, U # {}, \A c \in U : U \ {c} \in X PROVE U \in X
  <2>1. Numbers(g, U)
    BY FS_Subset DEF Numbers
  <2>2. PICK c \in U : TRUE
    BY <1>2
  <2> DEFINE R == U \ {c}
             V == T \cap U
             W == T \cap R
  <2>3. SumFunctionOnSet(g, U) = g[c] + SumFunctionOnSet(g, R)
    BY <2>1, SumRemove
  <2>4. SumFunctionOnSet(f, W) <= SumFunctionOnSet(g, R)
    BY <1>2
  <2>5. Numbers(f, V) /\ Numbers(f, W) /\ Numbers(g, R)
    BY FS_Subset DEF Numbers
  <2>6. /\ SumFunctionOnSet(f, W) \in Nat /\ SumFunctionOnSet(g, R) \in Nat
        /\ g[c] \in Nat
    BY <2>1, <2>5, SumType DEF Numbers
  <2>7. CASE c \in T
    <3>1. c \in V /\ V \ {c} = W
      BY <2>7
    <3> HIDE DEF V, W, R
    <3>2. SumFunctionOnSet(f, V) = f[c] + SumFunctionOnSet(f, W)
      BY <2>5, <3>1, SumRemove
    <3>3. f[c] \in Nat /\ f[c] <= g[c]
      BY <2>7
    <3>4. SumFunctionOnSet(f, V) <= SumFunctionOnSet(g, U)
      BY <2>3, <2>4, <2>6, <3>2, <3>3
    <3> QED
      BY <3>4 DEF V
  <2>8. CASE c \notin T
    <3>1. V = W
      BY <2>8
    <3> HIDE DEF V, W, R
    <3>2. SumFunctionOnSet(f, V) <= SumFunctionOnSet(g, U)
      BY <2>3, <2>4, <2>6, <3>1
    <3> QED
      BY <3>2 DEF V
  <2> QED
    BY <2>7, <2>8
<1> HIDE DEF X
<1>3. SUBSET S \subseteq X
  BY <1>1, <1>2, PartInduction DEF Numbers
<1>4. T \cap S = T
  OBVIOUS
<1> QED
  BY <1>3, <1>4 DEF X

-----------------------------------------------------------------------------
(* Double_list *)

\* A list of shares with the elements X, each of them once.
Lists(q, X) == q \in Seq(Share) /\ IsInjective(q) /\ ToSet(q) = X

\* The shares with a claim, but for the ones in R, are before the ones without.
Ordered(q, cl, R) ==
  \A i, j \in DOMAIN q : i < j /\ q[j] \notin R /\ cl[q[j]] > 0 => cl[q[i]] > 0

LEMMA WithoutLists ==
  ASSUME NEW q, NEW X, Lists(q, X), NEW s
  PROVE  Lists(Without(q, s), X \ {s})
<1>1. q \in Seq(Share) /\ Distinct(q) /\ ToSet(q) = X
  BY DEF Lists, IsInjective, Distinct
<1>2. CASE s \in ToSet(q)
  <2> DEFINE r == RemoveAt(q, CHOOSE i \in DOMAIN q : q[i] = s)
  <2>1. r \in Seq(Share) /\ Distinct(r) /\ \A u : u \in ToSet(r) <=> u \in ToSet(q) /\ u # s
    BY <1>1, <1>2, RemovedElements
  <2>2. Without(q, s) = r
    BY <1>2 DEF Without
  <2> HIDE DEF r
  <2>3. ToSet(r) = X \ {s}
    BY <1>1, <2>1
  <2>4. QED
    BY <2>1, <2>2, <2>3 DEF Lists, IsInjective, Distinct
<1>3. CASE s \notin ToSet(q)
  BY <1>1, <1>3 DEF Without, Lists
<1>4. QED
  BY <1>2, <1>3

LEMMA AppendLists ==
  ASSUME NEW q, NEW X, Lists(q, X), NEW s \in Share, s \notin X
  PROVE  Lists(Append(q, s), X \cup {s})
<1>1. q \in Seq(Share) /\ Distinct(q) /\ ToSet(q) = X
  BY DEF Lists, IsInjective, Distinct
<1> DEFINE r == Append(q, s)
<1>2. r \in Seq(Share) /\ Distinct(r) /\ \A u : u \in ToSet(r) <=> u \in ToSet(q) \/ u = s
  BY <1>1, AppendedElements
<1> HIDE DEF r
<1>3. ToSet(r) = X \cup {s}
  BY <1>1, <1>2
<1>4. Lists(r, X \cup {s})
  BY <1>2, <1>3 DEF Lists, IsInjective, Distinct
<1>5. QED
  BY <1>4 DEF r

LEMMA PrependLists ==
  ASSUME NEW q, NEW X, Lists(q, X), NEW s \in Share, s \notin X
  PROVE  Lists(<<s>> \o q, X \cup {s})
<1>1. q \in Seq(Share) /\ Distinct(q) /\ ToSet(q) = X
  BY DEF Lists, IsInjective, Distinct
<1> DEFINE r == <<s>> \o q
<1>2. r \in Seq(Share) /\ Distinct(r) /\ \A u : u \in ToSet(r) <=> u \in ToSet(q) \/ u = s
  BY <1>1, PrependedElements
<1> HIDE DEF r
<1>3. ToSet(r) = X \cup {s}
  BY <1>1, <1>2
<1>4. Lists(r, X \cup {s})
  BY <1>2, <1>3 DEF Lists, IsInjective, Distinct
<1>5. QED
  BY <1>4 DEF r

\* Moving an element keeps all of them.
LEMMA MoveLists ==
  ASSUME NEW q, NEW X, Lists(q, X), NEW s \in X, s \in Share
  PROVE  Lists(ToTail(q, s), X) /\ Lists(ToHead(q, s), X)
<1>1. Lists(Without(q, s), X \ {s})
  BY WithoutLists
<1>2. s \notin X \ {s} /\ (X \ {s}) \cup {s} = X
  OBVIOUS
<1> DEFINE r == Without(q, s)
           Y == X \ {s}
<1> HIDE DEF r, Y
<1>3. Lists(r, Y) /\ s \notin Y /\ Y \cup {s} = X
  BY <1>1, <1>2 DEF r, Y
<1>4. Lists(Append(r, s), Y \cup {s}) /\ Lists(<<s>> \o r, Y \cup {s})
  BY <1>3, AppendLists, PrependLists
<1>5. QED
  BY <1>3, <1>4 DEF ToTail, ToHead, r

LEMMA FirstListed ==
  ASSUME NEW q, NEW X, Lists(q, X)
  PROVE  /\ q # <<>> => Head(q) \in X
         /\ q = <<>> => X = {}
<1>1. q \in Seq(Share) /\ ToSet(q) = X
  BY DEF Lists
<1>2. q # <<>> => 1 \in DOMAIN q /\ Head(q) = q[1]
  BY <1>1
<1>3. q = <<>> => DOMAIN q = {}
  BY <1>1
<1>4. QED
  BY <1>1, <1>2, <1>3 DEF ToSet

LEMMA WithoutOrdered ==
  ASSUME NEW q \in Seq(Share), NEW cl, NEW R, Ordered(q, cl, R), NEW s
  PROVE  Ordered(Without(q, s), cl, R)
<1>1. CASE s \in ToSet(q)
  <2> DEFINE n == CHOOSE i \in DOMAIN q : q[i] = s
             r == RemoveAt(q, n)
             at(i) == IF i < n THEN i ELSE i + 1
  <2>1. n \in 1 .. Len(q)
    BY <1>1 DEF ToSet
  <2> HIDE DEF n
  <2>2. /\ r \in Seq(Share) /\ Len(r) = Len(q) - 1
        /\ \A i \in 1 .. Len(q) - 1 : r[i] = IF i < n THEN q[i] ELSE q[i + 1]
    BY <2>1, RemoveAtElements
  <2> HIDE DEF r
  <2>3. DOMAIN r = 1 .. Len(q) - 1 /\ DOMAIN q = 1 .. Len(q) /\ Len(q) \in Nat
    BY <2>2
  <2>4. \A i \in DOMAIN r : at(i) \in DOMAIN q /\ r[i] = q[at(i)]
    BY <2>1, <2>2, <2>3
  <2>5. \A i, j \in DOMAIN r : i < j => at(i) < at(j)
    BY <2>1, <2>3
  <2> HIDE DEF at
  <2>6. Ordered(r, cl, R)
    BY <2>4, <2>5 DEF Ordered
  <2>7. QED
    BY <1>1, <2>6 DEF Without, r, n
<1>2. QED
  BY <1>1 DEF Without

LEMMA AppendOrdered ==
  ASSUME NEW q \in Seq(Share), NEW cl, NEW R, Ordered(q, cl, R), NEW s,
         ~(cl[s] > 0) \/ s \in R
  PROVE  Ordered(Append(q, s), cl, R)
<1> DEFINE r == Append(q, s)
<1>1. /\ DOMAIN r = 1 .. Len(q) + 1 /\ DOMAIN q = 1 .. Len(q) /\ Len(q) \in Nat
      /\ \A i \in 1 .. Len(q) : r[i] = q[i]
      /\ r[Len(q) + 1] = s
  OBVIOUS
<1> HIDE DEF r
<1>2. \A i, j \in DOMAIN r : i < j => i \in DOMAIN q /\ (j \in DOMAIN q \/ j = Len(q) + 1)
  BY <1>1
<1>3. Ordered(r, cl, R)
  BY <1>1, <1>2 DEF Ordered
<1>4. QED
  BY <1>3 DEF r

LEMMA PrependOrdered ==
  ASSUME NEW q \in Seq(Share), NEW cl, NEW R, Ordered(q, cl, R), NEW s, cl[s] > 0
  PROVE  Ordered(<<s>> \o q, cl, R)
<1> DEFINE r == <<s>> \o q
           at(i) == i - 1
<1>1. /\ DOMAIN r = 1 .. Len(q) + 1 /\ DOMAIN q = 1 .. Len(q) /\ Len(q) \in Nat
      /\ r[1] = s
      /\ \A i \in 1 .. Len(q) : r[i + 1] = q[i]
  OBVIOUS
<1> HIDE DEF r
<1>2. \A i \in DOMAIN r : i # 1 => at(i) \in DOMAIN q /\ r[i] = q[at(i)]
  <2> TAKE i \in DOMAIN r
  <2>1. i # 1 => i - 1 \in 1 .. Len(q) /\ i = (i - 1) + 1
    BY <1>1
  <2>2. QED
    BY <1>1, <2>1
<1>3. \A i, j \in DOMAIN r : i < j => j # 1 /\ (i # 1 => at(i) < at(j))
  BY <1>1
<1> HIDE DEF at
<1>4. Ordered(r, cl, R)
  BY <1>1, <1>2, <1>3 DEF Ordered
<1>5. QED
  BY <1>4 DEF r

\* The order depends only on who has a claim at all.
LEMMA SameOrdered ==
  ASSUME NEW q, NEW cl, NEW R, Ordered(q, cl, R), NEW c2,
         \A u \in ToSet(q) : cl[u] > 0 <=> c2[u] > 0, NEW R2, R \cap ToSet(q) \subseteq R2
  PROVE  Ordered(q, c2, R2)
BY DEF Ordered, ToSet

LEMMA AllOrdered ==
  ASSUME NEW q, NEW cl, NEW R, \A u \in ToSet(q) : cl[u] > 0
  PROVE  Ordered(q, cl, R)
BY DEF Ordered, ToSet

\* If any share of a list but for the ones in R has a claim, the first one has.
LEMMA FirstHasClaim ==
  ASSUME NEW q \in Seq(Share), NEW cl, NEW R, Ordered(q, cl, R),
         NEW s \in ToSet(q), cl[s] > 0, s \notin R
  PROVE  q # <<>> /\ cl[Head(q)] > 0
<1>1. PICK i \in DOMAIN q : q[i] = s
  BY DEF ToSet
<1>2. i \in Nat /\ 1 <= i /\ 1 \in DOMAIN q /\ Head(q) = q[1] /\ q # <<>>
  BY <1>1
<1>3. i = 1 \/ 1 < i
  BY <1>2
<1>4. QED
  BY <1>1, <1>2, <1>3 DEF Ordered

-----------------------------------------------------------------------------
(* The lists and the time slices, whatever quotas core assigns *)

ShareTypeOK ==
  /\ present \subseteq Share /\ ready \subseteq present /\ steady \subseteq ready
  /\ regained \subseteq present
  /\ prio \in [Share -> Prio]
  /\ quota \in [Share -> Nat] /\ claim \in [Share -> Nat] /\ fill \in [Share -> Nat]
  /\ used \in [Share -> Nat] /\ peak \in [Share -> Nat]

HeadTypeOK ==
  /\ head \in present \cup {Idle, None} /\ headQuota \in Nat
  /\ headClaims \in BOOLEAN /\ headYields \in BOOLEAN /\ removed \in BOOLEAN
  /\ need \in BOOLEAN
  /\ residual \in 1 .. Quota

ReadyClaims(p) == {s \in ready : quota[s] > 0 /\ prio[s] = p}
UnreadyClaims(p) == {s \in present \ ready : quota[s] > 0 /\ prio[s] = p}

ListInv ==
  /\ Lists(fills, ready)
  /\ rcl \in [Prio -> Seq(Share)] /\ ucl \in [Prio -> SUBSET Share]
  /\ \A p \in Prio : Lists(rcl[p], ReadyClaims(p)) /\ ucl[p] = UnreadyClaims(p)

SliceInv == headQuota > 0 /\ \A s \in ready : fill[s] > 0

\* The inductive invariant of the lists
LInv == ShareTypeOK /\ HeadTypeOK /\ ListInv /\ SliceInv

LEMMA LInvImplies == LInv => TypeOK /\ ListsMatch /\ SlicePositive
<1> SUFFICES ASSUME LInv PROVE TypeOK /\ ListsMatch /\ SlicePositive
  OBVIOUS
<1> USE DEF LInv
<1>1. TypeOK
  <2>1. {quota, claim, fill, used, peak} \subseteq [Share -> Nat]
    BY DEF ShareTypeOK
  <2>2. {headClaims, headYields, removed, need} \subseteq BOOLEAN
    BY Zenon DEF HeadTypeOK
  <2>3. fills \in Seq(Share)
    BY DEF ListInv, Lists
  <2>4. QED
    BY <2>1, <2>2, <2>3 DEF TypeOK, ShareTypeOK, HeadTypeOK, ListInv
<1>2. ListsMatch
  BY DEF ListsMatch, ListInv, Lists, ReadyClaims, UnreadyClaims
<1>3. SlicePositive
  <2>1. headQuota \in Nat /\ residual \in Nat /\ headQuota > 0 /\ residual > 0
    BY CpuSchedulerAssumption DEF HeadTypeOK, SliceInv
  <2>2. HeadQuota > 0
    BY <2>1, MinOfTwo DEF HeadQuota
  <2>3. QED
    BY <2>2 DEF SlicePositive, SliceInv
<1>4. QED
  BY <1>1, <1>2, <1>3

LEMMA EmptyLists == Lists(<<>>, {})
BY DEF Lists, IsInjective, ToSet

LEMMA InitLInv == Init => LInv
<1> SUFFICES ASSUME Init PROVE LInv
  OBVIOUS
<1>1. ShareTypeOK
  BY CpuSchedulerAssumption DEF Init, ShareTypeOK, Prio
<1>2. HeadTypeOK
  <2>1. residual \in 1 .. Quota /\ headQuota \in Nat
    BY CpuSchedulerAssumption DEF Init
  <2>2. QED
    BY <2>1, Zenon DEF Init, HeadTypeOK
<1>3. ListInv
  BY EmptyLists DEF Init, ListInv, ReadyClaims, UnreadyClaims
<1>4. SliceInv
  BY CpuSchedulerAssumption DEF Init, SliceInv
<1>5. QED
  BY <1>1, <1>2, <1>3, <1>4 DEF LInv

\* _trim_consumption, _head_claimed and _head_filled
LEMMA Accounting ==
  ASSUME LInv, NEW d \in Nat
  PROVE  /\ Consumed(d) \in Nat /\ Consumed(d) <= residual
         /\ Left(d) \in Nat /\ Consumed(d) + Left(d) <= headQuota
         /\ Charged(d) \in [Share -> Nat]
         /\ \A s \in Share : ~(ChargesClaim /\ s = head) => Charged(d)[s] = claim[s]
         /\ ChargesClaim => Charged(d)[head] <= Left(d)
         /\ FillAfter(d) \in [Share -> Nat]
         /\ \A s \in ready : FillAfter(d)[s] > 0
<1> USE DEF LInv
<1>1. headQuota \in Nat /\ residual \in Nat
  BY CpuSchedulerAssumption DEF HeadTypeOK
<1>2. HeadQuota \in Nat /\ HeadQuota <= headQuota /\ HeadQuota <= residual
  BY <1>1, MinOfTwo DEF HeadQuota
<1>3. Consumed(d) \in Nat /\ Consumed(d) <= HeadQuota
  BY <1>2, MinOfTwo DEF Consumed
<1>4. Consumed(d) <= residual
  BY <1>1, <1>2, <1>3
<1>5. Left(d) \in Nat /\ Consumed(d) + Left(d) <= headQuota
  BY <1>1, <1>2, <1>3 DEF Left
<1>6. ChargesClaim => Min({Left(d), quota[head]}) \in Nat /\ Min({Left(d), quota[head]}) <= Left(d)
  <2>1. ChargesClaim => quota[head] \in Nat
    BY DEF ChargesClaim, ShareTypeOK
  <2>2. QED
    BY <1>5, <2>1, MinOfTwo
<1>7. Charged(d) \in [Share -> Nat]
  BY <1>6 DEF Charged, ChargesClaim, ShareTypeOK
<1>8. \A s \in Share : ~(ChargesClaim /\ s = head) => Charged(d)[s] = claim[s]
  BY DEF Charged, ChargesClaim, ShareTypeOK
<1>9. ChargesClaim => Charged(d)[head] <= Left(d)
  BY <1>6 DEF Charged, ChargesClaim, ShareTypeOK
<1>10. FillAfter(d) \in [Share -> Nat]
  BY <1>5, CpuSchedulerAssumption DEF FillAfter, ChargesFill, ShareTypeOK
<1>11. \A s \in ready : FillAfter(d)[s] > 0
  BY <1>5, CpuSchedulerAssumption DEF FillAfter, ChargesFill, ShareTypeOK, SliceInv
<1>12. QED
  BY <1>3, <1>4, <1>5, <1>7, <1>8, <1>9, <1>10, <1>11

\* The lists after update: a share may move within a list, none comes or goes.
LEMMA UpdatedLists ==
  ASSUME LInv, NEW d \in Nat
  PROVE  /\ Lists(FillsAfter(d), ready)
         /\ RclAfter(d) \in [Prio -> Seq(Share)]
         /\ \A p \in Prio : Lists(RclAfter(d)[p], ReadyClaims(p))
<1> USE DEF LInv
<1>1. Lists(fills, ready) /\ rcl \in [Prio -> Seq(Share)]
      /\ \A p \in Prio : Lists(rcl[p], ReadyClaims(p))
  BY DEF ListInv
<1>2. Depleted(d) => /\ head \in ready /\ head \in Share /\ prio[head] \in Prio
                     /\ head \in ReadyClaims(prio[head])
  BY DEF Depleted, ChargesClaim, ReadyClaims, ShareTypeOK
<1>3. ChargesFill => head \in ready /\ head \in Share
  BY <1>1, FirstListed DEF ChargesFill
<1>4. Lists(FillsAfter(d), ready)
  BY <1>1, <1>2, <1>3, MoveLists DEF FillsAfter
<1>5. CASE Depleted(d)
  <2> DEFINE q == ToTail(rcl[prio[head]], head)
  <2>1. Lists(q, ReadyClaims(prio[head])) /\ q \in Seq(Share)
    <3> DEFINE o == rcl[prio[head]]
               X == ReadyClaims(prio[head])
    <3>1. Lists(o, X) /\ head \in X /\ head \in Share
      BY <1>1, <1>2, <1>5
    <3> HIDE DEF o, X
    <3>2. Lists(ToTail(o, head), X)
      BY <3>1, MoveLists
    <3>3. QED
      BY <3>2 DEF o, X, Lists
  <2> HIDE DEF q
  <2>2. RclAfter(d) = [rcl EXCEPT ![prio[head]] = q]
    BY <1>5 DEF RclAfter, q
  <2>3. QED
    BY <1>1, <1>2, <1>4, <1>5, <2>1, <2>2
<1>6. CASE ~Depleted(d)
  BY <1>1, <1>4, <1>6 DEF RclAfter
<1>7. QED
  BY <1>5, <1>6

\* The choice of the head: c is the first claim of the highest priority that has
\* one, else the first fill, else the idle share.
Best(c, r, cl, fl, fs) ==
  \/ \E p \in Prio :
       /\ r[p] # <<>> /\ c[1] = Head(r[p]) /\ cl[Head(r[p])] > 0
       /\ c[2] = cl[Head(r[p])] /\ c[3] = TRUE
       /\ \A o \in ClaimBands(r, cl) : o <= p
  \/ /\ ClaimBands(r, cl) = {} /\ fs # <<>>
     /\ c[1] = Head(fs) /\ c[2] = fl[Head(fs)] /\ c[3] = FALSE
  \/ /\ ClaimBands(r, cl) = {} /\ fs = <<>>
     /\ c[1] = Idle /\ c[2] = Fill /\ c[3] = FALSE

LEMMA Chosen ==
  ASSUME NEW r \in [Prio -> Seq(Share)], NEW cl, NEW fl, NEW fs
  PROVE  Best(ChooseHead(r, cl, fl, fs), r, cl, fl, fs)
<1> DEFINE B == ClaimBands(r, cl)
<1>1. CASE B # {}
  <2>1. B \in SUBSET Prio
    BY DEF ClaimBands
  <2>2. Max(B) \in B /\ \A o \in B : o <= Max(B)
    BY <1>1, <2>1, HighestPrio
  <2>3. /\ Max(B) \in Prio /\ r[Max(B)] # <<>> /\ cl[Head(r[Max(B)])] > 0
    BY <2>2 DEF ClaimBands
  <2>4. ChooseHead(r, cl, fl, fs) = <<Head(r[Max(B)]), cl[Head(r[Max(B)])], TRUE>>
    BY <1>1 DEF ChooseHead
  <2> HIDE DEF B
  <2>5. QED
    BY <2>2, <2>3, <2>4 DEF B, Best
<1>2. CASE B = {}
  BY <1>2 DEF ChooseHead, Best
<1>3. QED
  BY <1>1, <1>2

\* What update does to the claims, and to the counters of the round.
LEMMA UpdatedClaims ==
  ASSUME LInv, NEW d \in Nat, Update(d)
  PROVE  /\ \/ /\ claim' = NextRound(Charged(d)) /\ peak' = quota
               /\ used' = [s \in Share |-> 0] /\ regained' = {}
            \/ /\ claim' = Charged(d) /\ peak' = peak /\ regained' = regained
               /\ used' = [s \in Share |-> IF headClaims /\ s = head THEN used[s] + Consumed(d)
                                           ELSE used[s]]
         /\ claim' \in [Share -> Nat] /\ used' \in [Share -> Nat] /\ peak' \in [Share -> Nat]
         /\ UNCHANGED <<present, ready, prio, quota, ucl>>
         /\ rcl' = RclAfter(d)
<1>1. Charged(d) \in [Share -> Nat] /\ Consumed(d) \in Nat
  BY Accounting
<1>2. NextRound(Charged(d)) \in [Share -> Nat]
  BY <1>1 DEF NextRound, LInv, ShareTypeOK
<1>3. CASE (head # None \/ removed) /\ RoundOver(d)
  <2>1. /\ claim' = NextRound(Charged(d)) /\ peak' = quota /\ used' = [s \in Share |-> 0]
        /\ regained' = {}
        /\ UNCHANGED <<present, ready, prio, quota, ucl>> /\ rcl' = RclAfter(d)
    BY <1>3 DEF Update
  <2>2. QED
    BY <1>2, <2>1 DEF LInv, ShareTypeOK
<1>4. CASE ~((head # None \/ removed) /\ RoundOver(d))
  <2>1. /\ claim' = Charged(d) /\ peak' = peak /\ regained' = regained
        /\ used' = [s \in Share |-> IF headClaims /\ s = head THEN used[s] + Consumed(d)
                                    ELSE used[s]]
        /\ UNCHANGED <<present, ready, prio, quota, ucl>> /\ rcl' = RclAfter(d)
    BY <1>4 DEF Update
  <2>2. QED
    BY <1>1, <2>1 DEF LInv, ShareTypeOK
<1>5. QED
  BY <1>3, <1>4

LEMMA UpdatedHead ==
  ASSUME NEW d \in Nat, Update(d)
  PROVE  LET c == ChooseHead(rcl', claim', fill', fills') IN
         head' = c[1] /\ headQuota' = c[2] /\ headClaims' = c[3]
BY DEF Update

LEMMA UpdateLInv ==
  ASSUME LInv, NEW d \in Nat, Update(d)
  PROVE  LInv'
<1>1. /\ claim' \in [Share -> Nat] /\ used' \in [Share -> Nat] /\ peak' \in [Share -> Nat]
      /\ UNCHANGED <<present, ready, prio, quota, ucl>> /\ rcl' = RclAfter(d)
      /\ regained' \subseteq regained
  BY UpdatedClaims
<1>2. fill' = FillAfter(d) /\ fills' = FillsAfter(d)
  BY DEF Update
<1>3. fill' \in [Share -> Nat] /\ \A s \in ready : fill'[s] > 0
  BY <1>2, Accounting
<1>4. ListInv'
  <2>1. /\ Lists(fills', ready') /\ rcl' \in [Prio -> Seq(Share)] /\ ucl' \in [Prio -> SUBSET Share]
    BY <1>1, <1>2, UpdatedLists DEF LInv, ListInv
  <2>2. ASSUME NEW p \in Prio PROVE Lists(rcl'[p], ReadyClaims(p)') /\ ucl'[p] = UnreadyClaims(p)'
    <3>1. ReadyClaims(p)' = ReadyClaims(p) /\ UnreadyClaims(p)' = UnreadyClaims(p)
      BY <1>1 DEF ReadyClaims, UnreadyClaims
    <3>2. Lists(rcl'[p], ReadyClaims(p)) /\ ucl'[p] = UnreadyClaims(p)
      BY <1>1, UpdatedLists DEF LInv, ListInv
    <3>3. QED
      BY <3>1, <3>2
  <2>3. QED
    BY <2>1, <2>2 DEF ListInv
<1>5. ShareTypeOK'
  <2>1. steady' \subseteq ready'
    BY <1>1 DEF Update, LInv, ShareTypeOK
  <2>2. QED
    BY <1>1, <1>3, <2>1 DEF LInv, ShareTypeOK
<1>6. /\ head' \in present' \cup {Idle, None} /\ headQuota' \in Nat /\ headQuota' > 0
      /\ headClaims' \in BOOLEAN
  <2> DEFINE c == ChooseHead(rcl', claim', fill', fills')
  <2>1. head' = c[1] /\ headQuota' = c[2] /\ headClaims' = c[3]
    BY UpdatedHead
  <2>2. rcl' \in [Prio -> Seq(Share)]
    BY <1>4 DEF ListInv
  <2>3. Best(c, rcl', claim', fill', fills')
    BY <2>2, Chosen
  <2> HIDE DEF c
  <2>4. \A p \in Prio : rcl'[p] # <<>> => Head(rcl'[p]) \in present' /\ Head(rcl'[p]) \in Share
    <3> TAKE p \in Prio
    <3>1. Lists(rcl'[p], ReadyClaims(p)')
      BY <1>4 DEF ListInv
    <3>2. rcl'[p] # <<>> => Head(rcl'[p]) \in ReadyClaims(p)'
      BY <3>1, FirstListed
    <3>3. QED
      BY <1>5, <3>2 DEF ReadyClaims, ShareTypeOK
  <2>5. fills' # <<>> => Head(fills') \in ready' /\ Head(fills') \in present' /\ Head(fills') \in Share
    <3>1. Lists(fills', ready')
      BY <1>4 DEF ListInv
    <3>2. QED
      BY <1>5, <3>1, FirstListed DEF ShareTypeOK
  <2>6. CASE \E p \in Prio : /\ rcl'[p] # <<>> /\ c[1] = Head(rcl'[p])
                            /\ claim'[Head(rcl'[p])] > 0 /\ c[2] = claim'[Head(rcl'[p])]
    <3>1. head' \in present' /\ headQuota' \in Nat /\ headQuota' > 0
      BY <1>1, <2>1, <2>4, <2>6
    <3>2. headClaims' \in BOOLEAN
      BY <2>1, <2>3, Zenon DEF Best
    <3>3. QED
      BY <3>1, <3>2
  <2>7. CASE fills' # <<>> /\ c[1] = Head(fills') /\ c[2] = fill'[Head(fills')] /\ c[3] = FALSE
    <3>1. head' \in present' /\ headQuota' \in Nat /\ headQuota' > 0
      BY <1>1, <1>3, <2>1, <2>5, <2>7
    <3>2. QED
      BY <2>1, <2>7, <3>1, Zenon
  <2>8. CASE c[1] = Idle /\ c[2] = Fill /\ c[3] = FALSE
    <3>1. head' = Idle /\ headQuota' \in Nat /\ headQuota' > 0
      BY <2>1, <2>8, CpuSchedulerAssumption
    <3>2. QED
      BY <2>1, <2>8, <3>1, Zenon
  <2>9. QED
    BY <2>3, <2>6, <2>7, <2>8 DEF Best
<1>7. residual' \in 1 .. Quota
  <2>1. Consumed(d) \in Nat /\ Consumed(d) <= residual
    BY Accounting
  <2>2. residual \in 1 .. Quota /\ Quota \in Nat /\ Quota > 0
    BY CpuSchedulerAssumption DEF LInv, HeadTypeOK
  <2>3. \/ residual' = Quota \/ residual' = residual
        \/ residual' = residual - Consumed(d) /\ ~(residual <= Consumed(d))
    BY DEF Update, RoundOver
  <2>4. QED
    BY <2>1, <2>2, <2>3
<1>8. headYields' \in BOOLEAN /\ removed' \in BOOLEAN /\ need' \in BOOLEAN
  BY Zenon DEF Update, LInv, HeadTypeOK
<1>9. HeadTypeOK' /\ SliceInv'
  BY <1>1, <1>3, <1>6, <1>7, <1>8 DEF HeadTypeOK, SliceInv
<1>10. QED
  BY <1>4, <1>5, <1>9 DEF LInv

LEMMA InsertLInv ==
  ASSUME LInv, NEW s \in Share, NEW p \in Prio, NEW q \in Quotas, Insert(s, p, q)
  PROVE  LInv'
<1> USE DEF LInv
<1>1. q \in Nat
  BY CpuSchedulerAssumption
<1>2. ShareTypeOK'
  BY <1>1 DEF ShareTypeOK, Insert
<1>3. HeadTypeOK'
  <2>1. UNCHANGED <<headVars, residual, need>> /\ present' = present \cup {s}
    BY DEF Insert
  <2>2. QED
    BY <2>1 DEF HeadTypeOK, headVars
<1>4. SliceInv'
  BY DEF SliceInv, Insert, headVars
<1>5. ListInv'
  <2>1. s \notin ready /\ UNCHANGED <<ready, fills, rcl>>
    BY DEF Insert, ShareTypeOK
  <2>2. ucl' \in [Prio -> SUBSET Share]
    BY DEF Insert, ListInv
  <2>3. ASSUME NEW o \in Prio PROVE Lists(rcl'[o], ReadyClaims(o)') /\ ucl'[o] = UnreadyClaims(o)'
    <3>1. ReadyClaims(o)' = ReadyClaims(o)
      BY <2>1 DEF ReadyClaims, Insert, ShareTypeOK
    <3>2. UnreadyClaims(o)' = IF q > 0 /\ o = p THEN UnreadyClaims(o) \cup {s} ELSE UnreadyClaims(o)
      BY <2>1 DEF UnreadyClaims, Insert, ShareTypeOK
    <3>3. ucl'[o] = IF q > 0 /\ o = p THEN ucl[o] \cup {s} ELSE ucl[o]
      BY DEF Insert, ListInv
    <3>4. QED
      BY <2>1, <3>1, <3>2, <3>3 DEF ListInv
  <2>4. QED
    BY <2>1, <2>2, <2>3 DEF ListInv
<1>6. QED
  BY <1>2, <1>3, <1>4, <1>5

LEMMA ReadyLInv ==
  ASSUME LInv, NEW s \in Share, Ready(s)
  PROVE  LInv'
<1> USE DEF LInv
<1>1. s \in present /\ s \notin ready /\ ready' = ready \cup {s}
  BY DEF Ready
<1>2. ShareTypeOK'
  BY CpuSchedulerAssumption DEF ShareTypeOK, Ready, roundVars
<1>3. HeadTypeOK'
  <2>1. UNCHANGED <<headVars, residual, present>>
    BY DEF Ready
  <2>2. need' \in BOOLEAN
    BY Zenon DEF Ready, HeadTypeOK
  <2>3. QED
    BY <2>1, <2>2 DEF HeadTypeOK, headVars
<1>4. SliceInv'
  BY CpuSchedulerAssumption DEF SliceInv, Ready, headVars, ShareTypeOK
<1>5. ListInv'
  <2>1. Lists(fills', ready')
    BY <1>1, AppendLists DEF Ready, ListInv
  <2>2. ucl' \in [Prio -> SUBSET Share]
    <3>1. ucl' = ucl \/ ucl' = [ucl EXCEPT ![prio[s]] = @ \ {s}]
      BY DEF Ready
    <3>2. ucl \in [Prio -> SUBSET Share] /\ \A p \in Prio : ucl[p] \ {s} \in SUBSET Share
      BY DEF ListInv
    <3>3. QED
      BY <3>1, <3>2
  <2>3. prio[s] \in Prio /\ quota[s] \in Nat /\ UNCHANGED <<quota, prio, present>>
    BY DEF ShareTypeOK, Ready
  <2>4. ASSUME NEW o \in Prio
        PROVE  rcl'[o] \in Seq(Share) /\ Lists(rcl'[o], ReadyClaims(o)') /\ ucl'[o] = UnreadyClaims(o)'
    <3>1. CASE quota[s] > 0 /\ o = prio[s]
      <4> DEFINE X == ReadyClaims(o)
                 q == rcl[o]
      <4>1. ReadyClaims(o)' = X \cup {s} /\ s \notin X /\ UnreadyClaims(o)' = UnreadyClaims(o) \ {s}
        BY <1>1, <2>3, <3>1 DEF ReadyClaims, UnreadyClaims
      <4>2. ucl'[o] = ucl[o] \ {s} /\ rcl'[o] = Enroll(q, s, claim[s])
        BY <3>1 DEF Ready, ListInv
      <4>3. Lists(q, X)
        BY DEF ListInv
      <4> HIDE DEF q, X
      <4>4. Lists(Append(q, s), X \cup {s}) /\ Lists(<<s>> \o q, X \cup {s})
        BY <4>1, <4>3, AppendLists, PrependLists
      <4>5. QED
        BY <4>1, <4>2, <4>4 DEF Enroll, Lists, ListInv
    <3>2. CASE ~(quota[s] > 0 /\ o = prio[s])
      <4>1. ReadyClaims(o)' = ReadyClaims(o) /\ UnreadyClaims(o)' = UnreadyClaims(o)
        BY <1>1, <2>3, <3>2 DEF ReadyClaims, UnreadyClaims
      <4>2. ucl'[o] = ucl[o] /\ rcl'[o] = rcl[o]
        BY <3>2 DEF Ready, ListInv
      <4>3. QED
        BY <4>1, <4>2 DEF ListInv
    <3>3. QED
      BY <3>1, <3>2
  <2>5. rcl' \in [Prio -> Seq(Share)]
    <3>1. \E f : rcl' = [rcl EXCEPT ![prio[s]] = f] \/ rcl' = rcl
      BY DEF Ready
    <3>2. QED
      BY <2>3, <2>4, <3>1 DEF ListInv
  <2>6. QED
    BY <2>1, <2>2, <2>4, <2>5 DEF ListInv
<1>6. QED
  BY <1>2, <1>3, <1>4, <1>5

LEMMA UnreadyLInv ==
  ASSUME LInv, NEW s \in Share, Unready(s)
  PROVE  LInv'
<1> USE DEF LInv
<1>1. s \in ready /\ s \in present /\ ready' = ready \ {s}
  BY DEF Unready, ShareTypeOK
<1>2. ShareTypeOK'
  BY DEF ShareTypeOK, Unready
<1>3. HeadTypeOK'
  <2>1. UNCHANGED <<headVars, residual, present>>
    BY DEF Unready
  <2>2. need' \in BOOLEAN
    BY Zenon DEF Unready, HeadTypeOK
  <2>3. QED
    BY <2>1, <2>2 DEF HeadTypeOK, headVars
<1>4. SliceInv'
  BY DEF SliceInv, Unready, headVars
<1>5. ListInv'
  <2>1. Lists(fills', ready')
    BY <1>1, WithoutLists DEF Unready, ListInv
  <2>2. ucl' \in [Prio -> SUBSET Share]
    BY DEF Unready, ListInv
  <2>3. prio[s] \in Prio /\ quota[s] \in Nat /\ UNCHANGED <<quota, prio, present>>
    BY DEF ShareTypeOK, Unready
  <2>4. ASSUME NEW o \in Prio
        PROVE  rcl'[o] \in Seq(Share) /\ Lists(rcl'[o], ReadyClaims(o)') /\ ucl'[o] = UnreadyClaims(o)'
    <3>1. CASE quota[s] > 0 /\ o = prio[s]
      <4> DEFINE X == ReadyClaims(o)
                 q == rcl[o]
      <4>1. ReadyClaims(o)' = X \ {s} /\ UnreadyClaims(o)' = UnreadyClaims(o) \cup {s}
        BY <1>1, <2>3, <3>1 DEF ReadyClaims, UnreadyClaims
      <4>2. ucl'[o] = ucl[o] \cup {s} /\ rcl'[o] = Without(q, s)
        BY <3>1 DEF Unready, ListInv
      <4>3. Lists(q, X)
        BY DEF ListInv
      <4> HIDE DEF q, X
      <4>4. Lists(Without(q, s), X \ {s})
        BY <4>3, WithoutLists
      <4>5. QED
        BY <4>1, <4>2, <4>4 DEF Lists, ListInv
    <3>2. CASE ~(quota[s] > 0 /\ o = prio[s])
      <4>1. ReadyClaims(o)' = ReadyClaims(o) /\ UnreadyClaims(o)' = UnreadyClaims(o)
        BY <1>1, <2>3, <3>2 DEF ReadyClaims, UnreadyClaims
      <4>2. ucl'[o] = ucl[o] /\ rcl'[o] = rcl[o]
        BY <3>2 DEF Unready, ListInv
      <4>3. QED
        BY <4>1, <4>2 DEF ListInv
    <3>3. QED
      BY <3>1, <3>2
  <2>5. rcl' \in [Prio -> Seq(Share)]
    <3>1. \E f : rcl' = [rcl EXCEPT ![prio[s]] = f] \/ rcl' = rcl
      BY DEF Unready
    <3>2. QED
      BY <2>3, <2>4, <3>1 DEF ListInv
  <2>6. QED
    BY <2>1, <2>2, <2>4, <2>5 DEF ListInv
<1>6. QED
  BY <1>2, <1>3, <1>4, <1>5

LEMMA RemoveShareLInv ==
  ASSUME LInv, NEW s \in Share, RemoveShare(s)
  PROVE  LInv'
<1> USE DEF LInv
<1>1. s \in present /\ ready' = ready \ {s} /\ present' = present \ {s}
  BY DEF RemoveShare
<1>2. ShareTypeOK'
  BY CpuSchedulerAssumption DEF ShareTypeOK, RemoveShare, Prio
<1>3. HeadTypeOK'
  <2>1. head' \in present' \cup {Idle, None}
    BY DEF RemoveShare, HeadTypeOK
  <2>2. need' \in BOOLEAN /\ removed' \in BOOLEAN
    BY Zenon DEF RemoveShare, HeadTypeOK
  <2>3. QED
    BY <2>1, <2>2 DEF HeadTypeOK, RemoveShare
<1>4. SliceInv'
  BY DEF SliceInv, RemoveShare, ShareTypeOK
<1>5. ListInv'
  <2>1. Lists(fills', ready')
    BY <1>1, WithoutLists DEF RemoveShare, ListInv
  <2>2. ucl' \in [Prio -> SUBSET Share]
    BY DEF RemoveShare, ListInv
  <2>3. /\ prio[s] \in Prio /\ quota'[s] = 0
        /\ \A u \in Share : u # s => quota'[u] = quota[u] /\ prio'[u] = prio[u]
    BY DEF ShareTypeOK, RemoveShare
  <2>4. ASSUME NEW o \in Prio
        PROVE  rcl'[o] \in Seq(Share) /\ Lists(rcl'[o], ReadyClaims(o)') /\ ucl'[o] = UnreadyClaims(o)'
    <3> DEFINE X == ReadyClaims(o)
               q == rcl[o]
    <3>1. ReadyClaims(o)' = X \ {s} /\ UnreadyClaims(o)' = UnreadyClaims(o) \ {s}
      BY <1>1, <2>3 DEF ReadyClaims, UnreadyClaims, ShareTypeOK
    <3>2. Lists(q, X)
      BY DEF ListInv
    <3>3. CASE o = prio[s]
      <4>1. ucl'[o] = ucl[o] \ {s} /\ rcl'[o] = Without(q, s)
        BY <3>3 DEF RemoveShare, ListInv
      <4> HIDE DEF q, X
      <4>2. Lists(Without(q, s), X \ {s})
        BY <3>2, WithoutLists
      <4>3. QED
        BY <3>1, <4>1, <4>2 DEF Lists, ListInv
    <3>4. CASE o # prio[s]
      <4>1. ucl'[o] = ucl[o] /\ rcl'[o] = q
        BY <3>4 DEF RemoveShare, ListInv
      <4>2. X \ {s} = X /\ UnreadyClaims(o) \ {s} = UnreadyClaims(o)
        BY <3>4 DEF ReadyClaims, UnreadyClaims
      <4>3. QED
        BY <3>1, <3>2, <4>1, <4>2 DEF ListInv
    <3>5. QED
      BY <3>3, <3>4
  <2>5. rcl' \in [Prio -> Seq(Share)]
    BY <2>3, <2>4 DEF ListInv, RemoveShare
  <2>6. QED
    BY <2>1, <2>2, <2>4, <2>5 DEF ListInv
<1>6. QED
  BY <1>2, <1>3, <1>4, <1>5

\* What quota does to the quota, the claim and the peak of share s.
LEMMA SetQuotaNumbers ==
  ASSUME LInv, NEW s \in Share, NEW q \in Quotas, SetQuota(s, q)
  PROVE  /\ q \in Nat
         /\ quota' \in [Share -> Nat] /\ claim' \in [Share -> Nat] /\ peak' \in [Share -> Nat]
         /\ quota'[s] = q /\ peak[s] <= peak'[s] /\ claim'[s] <= claim[s]
         /\ quota[s] = 0 \/ q = 0 => claim'[s] = claim[s]
         /\ claim[s] > 0 => claim'[s] > 0
         /\ \A u \in Share : u # s => /\ quota'[u] = quota[u] /\ claim'[u] = claim[u]
                                      /\ peak'[u] = peak[u]
<1> USE DEF LInv
<1>1. q \in Nat /\ quota[s] \in Nat /\ claim[s] \in Nat /\ peak[s] \in Nat
  BY CpuSchedulerAssumption DEF ShareTypeOK
<1> DEFINE m == Max({peak[s], q})
           n == Min({claim[s], q})
<1>2. /\ m \in Nat /\ peak[s] <= m
      /\ n \in Nat /\ n <= claim[s] /\ (claim[s] > 0 /\ q > 0 => n > 0)
  BY <1>1, MinOfTwo, MaxOfTwo
<1>3. /\ quota' = [quota EXCEPT ![s] = q] /\ peak' = [peak EXCEPT ![s] = m]
      /\ claim' = IF quota[s] > 0 /\ q > 0 THEN [claim EXCEPT ![s] = n] ELSE claim
  BY DEF SetQuota
<1> HIDE DEF m, n
<1>4. QED
  BY <1>1, <1>2, <1>3 DEF ShareTypeOK

LEMMA SetQuotaLInv ==
  ASSUME LInv, NEW s \in Share, NEW q \in Quotas, SetQuota(s, q)
  PROVE  LInv'
<1> USE DEF LInv
<1>1. /\ q \in Nat
      /\ quota' \in [Share -> Nat] /\ claim' \in [Share -> Nat] /\ peak' \in [Share -> Nat]
      /\ quota'[s] = q /\ \A u \in Share : u # s => quota'[u] = quota[u]
  BY SetQuotaNumbers
<1>2. /\ s \in present /\ UNCHANGED <<present, ready, prio, fill, fills, used>>
      /\ UNCHANGED <<head, headQuota, headClaims, headYields, removed, residual, need>>
      /\ steady' \subseteq steady /\ regained' \subseteq regained \cup {s}
  BY DEF SetQuota, headVars
<1>3. ShareTypeOK'
  BY <1>1, <1>2 DEF ShareTypeOK
<1>4. HeadTypeOK'
  BY <1>2 DEF HeadTypeOK
<1>5. SliceInv'
  BY <1>2 DEF SliceInv
<1>6. ListInv'
  <2>1. Lists(fills', ready')
    BY <1>2 DEF ListInv
  <2>2. prio[s] \in Prio /\ quota[s] \in Nat /\ q # quota[s]
    BY DEF ShareTypeOK, SetQuota
  <2>3. ucl' \in [Prio -> SUBSET Share]
    <3>1. \/ ucl' = ucl
          \/ ucl' = [ucl EXCEPT ![prio[s]] = @ \ {s}]
          \/ ucl' = [ucl EXCEPT ![prio[s]] = @ \cup {s}]
      BY DEF SetQuota, Revoked, Introduced
    <3>2. QED
      BY <3>1 DEF ListInv
  <2>4. ASSUME NEW o \in Prio
        PROVE  rcl'[o] \in Seq(Share) /\ Lists(rcl'[o], ReadyClaims(o)') /\ ucl'[o] = UnreadyClaims(o)'
    <3> DEFINE X == ReadyClaims(o)
               l == rcl[o]
    <3>1. Lists(l, X) /\ l \in Seq(Share) /\ ucl[o] = UnreadyClaims(o)
      BY DEF ListInv
    <3>2. CASE o = prio[s] /\ q = 0
      <4>1. ReadyClaims(o)' = X \ {s} /\ UnreadyClaims(o)' = UnreadyClaims(o) \ {s}
        BY <1>1, <1>2, <3>2 DEF ReadyClaims, UnreadyClaims, ShareTypeOK
      <4>2. CASE s \in ready
        <5>1. ucl'[o] = ucl[o] /\ rcl'[o] = Without(l, s)
          BY <2>2, <3>2, <4>2 DEF SetQuota, Revoked, ListInv
        <5>2. UnreadyClaims(o) \ {s} = UnreadyClaims(o)
          BY <4>2 DEF UnreadyClaims
        <5> HIDE DEF l, X
        <5>3. Lists(Without(l, s), X \ {s})
          BY <3>1, WithoutLists
        <5>4. QED
          BY <3>1, <4>1, <5>1, <5>2, <5>3 DEF Lists
      <4>3. CASE s \notin ready
        <5>1. ucl'[o] = ucl[o] \ {s} /\ rcl'[o] = l
          BY <2>2, <3>2, <4>3 DEF SetQuota, Revoked, ListInv
        <5>2. X \ {s} = X
          BY <4>3 DEF ReadyClaims
        <5> HIDE DEF l, X
        <5>3. QED
          BY <3>1, <4>1, <5>1, <5>2
      <4>4. QED
        BY <4>2, <4>3
    <3>3. CASE o = prio[s] /\ quota[s] = 0
      <4>1. q > 0
        BY <1>1, <2>2, <3>3
      <4>2. CASE s \in ready
        <5>1. /\ ReadyClaims(o)' = X \cup {s} /\ s \notin X
              /\ UnreadyClaims(o)' = UnreadyClaims(o)
          BY <1>1, <1>2, <3>3, <4>1, <4>2 DEF ReadyClaims, UnreadyClaims, ShareTypeOK
        <5>2. ucl'[o] = ucl[o] /\ rcl'[o] = Append(l, s)
          BY <3>3, <4>1, <4>2 DEF SetQuota, Introduced, ListInv
        <5> HIDE DEF l, X
        <5>3. Lists(Append(l, s), X \cup {s})
          BY <3>1, <5>1, AppendLists
        <5>4. QED
          BY <3>1, <5>1, <5>2, <5>3 DEF Lists
      <4>3. CASE s \notin ready
        <5>1. /\ ReadyClaims(o)' = X
              /\ UnreadyClaims(o)' = UnreadyClaims(o) \cup {s}
          BY <1>1, <1>2, <3>3, <4>1, <4>3 DEF ReadyClaims, UnreadyClaims, ShareTypeOK
        <5>2. ucl'[o] = ucl[o] \cup {s} /\ rcl'[o] = l
          BY <3>3, <4>1, <4>3 DEF SetQuota, Introduced, ListInv
        <5> HIDE DEF l, X
        <5>3. QED
          BY <3>1, <5>1, <5>2
      <4>4. QED
        BY <4>2, <4>3
    <3>4. CASE ~(o = prio[s] /\ (q = 0 \/ quota[s] = 0))
      <4>1. ReadyClaims(o)' = X /\ UnreadyClaims(o)' = UnreadyClaims(o)
        BY <1>1, <1>2, <2>2, <3>4 DEF ReadyClaims, UnreadyClaims, ShareTypeOK
      <4>2. ucl'[o] = ucl[o] /\ rcl'[o] = l
        BY <2>2, <3>4 DEF SetQuota, Revoked, Introduced, ListInv
      <4>3. QED
        BY <3>1, <4>1, <4>2
    <3>5. QED
      BY <3>2, <3>3, <3>4
  <2>5. rcl' \in [Prio -> Seq(Share)]
    <3>1. \E f : rcl' = [rcl EXCEPT ![prio[s]] = f] \/ rcl' = rcl
      BY DEF SetQuota, Revoked, Introduced
    <3>2. QED
      BY <2>2, <2>4, <3>1 DEF ListInv
  <2>6. QED
    BY <2>1, <2>3, <2>4, <2>5 DEF ListInv
<1>7. QED
  BY <1>3, <1>4, <1>5, <1>6

\* The inductive invariant of the lists is preserved by every step.
LEMMA StepLInv == LInv /\ [Next]_vars => LInv'
<1> SUFFICES ASSUME LInv, [Next]_vars PROVE LInv'
  OBVIOUS
<1>1. CASE Timeout
  <2>1. /\ UNCHANGED <<shareVars, listVars, head, headQuota, headClaims, headYields, removed,
                       residual, roundVars>>
        /\ need' \in BOOLEAN
    BY <1>1, Zenon DEF Timeout, headVars
  <2>2. QED
    BY <2>1 DEF LInv, ShareTypeOK, HeadTypeOK, ListInv, SliceInv, ReadyClaims, UnreadyClaims,
                shareVars, listVars, roundVars
<1>2. CASE Yield
  <2>1. /\ UNCHANGED <<shareVars, listVars, head, headQuota, headClaims, removed, residual,
                       roundVars>>
        /\ need' \in BOOLEAN /\ headYields' \in BOOLEAN
    BY <1>2, Zenon DEF Yield
  <2>2. QED
    BY <2>1 DEF LInv, ShareTypeOK, HeadTypeOK, ListInv, SliceInv, ReadyClaims, UnreadyClaims,
                shareVars, listVars, roundVars
<1>3. ASSUME NEW d \in 0 .. Quota, Update(d) PROVE LInv'
  BY <1>3, UpdateLInv
<1>4. ASSUME NEW s \in Share, ShareStep(s) PROVE LInv'
  BY <1>4, InsertLInv, SetQuotaLInv, ReadyLInv, UnreadyLInv, RemoveShareLInv DEF ShareStep
<1>5. CASE UNCHANGED vars
  BY <1>5 DEF LInv, ShareTypeOK, HeadTypeOK, ListInv, SliceInv, ReadyClaims, UnreadyClaims,
              vars, shareVars, listVars, headVars, roundVars
<1>6. QED
  BY <1>1, <1>2, <1>3, <1>4, <1>5 DEF Next

\* Whatever quotas core assigns, every share is in exactly the lists that its
\* state says, once, and no time slice is zero (ready, unready, quota, remove and
\* update of Cpu_scheduler).
THEOREM ListsInvariance == Spec => [](TypeOK /\ ListsMatch /\ SlicePositive)
<1>1. Spec => []LInv
  BY InitLInv, StepLInv, PTL DEF Spec
<1>2. QED
  BY <1>1, LInvImplies, PTL

-----------------------------------------------------------------------------
(* The order of the claims, the choice of the head and the limit of a quota, but
   for the shares that got a quota in this round and have kept a claim *)

OrderInv == \A p \in Prio : Ordered(rcl[p], claim, regained)

\* The head that runs as a claim had one when it was chosen, and keeps it until
\* the next update.
HeadHasClaim == head \in Share /\ headClaims => claim[head] > 0

\* What the head may use until then fits into its quota.
HeadWithinPeak ==
  head \in Share \ regained /\ headClaims /\ quota[head] > 0 =>
    used[head] + headQuota <= peak[head]

\* The claim of a share that lost its quota does not count, unless it is used up.
ClaimsLimited ==
  \A s \in present \ regained :
    quota[s] > 0 \/ claim[s] = 0 => used[s] + claim[s] <= peak[s]

AbsentUnused == \A s \in Share \ present : used[s] = 0

ClaimInv == HeadHasClaim /\ HeadWithinPeak /\ ClaimsLimited /\ AbsentUnused

\* The inductive invariant of the claims
CInv == LInv /\ OrderInv /\ HeadIsBest /\ ClaimInv

LEMMA CInvImplies == CInv => ListsConsistent /\ HeadIsBest /\ QuotaLimitsClaims
<1> SUFFICES ASSUME CInv PROVE ListsConsistent /\ HeadIsBest /\ QuotaLimitsClaims
  OBVIOUS
<1>1. TypeOK /\ ListsMatch /\ SlicePositive
  BY LInvImplies DEF CInv
<1>2. DepletedBehind
  BY DEF CInv, OrderInv, Ordered, DepletedBehind
<1>3. HeadIsBest /\ QuotaLimitsClaims
  BY DEF CInv, ClaimInv, ClaimsLimited, QuotaLimitsClaims
<1>4. QED
  BY <1>1, <1>2, <1>3 DEF ListsConsistent

LEMMA InitCInv == Init => CInv
<1> SUFFICES ASSUME Init PROVE CInv
  OBVIOUS
<1>1. OrderInv
  BY DEF Init, OrderInv, Ordered
<1>2. HeadIsBest
  BY DEF Init, HeadIsBest
<1>3. ClaimInv
  BY CpuSchedulerAssumption
     DEF Init, ClaimInv, HeadHasClaim, HeadWithinPeak, ClaimsLimited, AbsentUnused
<1>4. QED
  BY <1>1, <1>2, <1>3, InitLInv DEF CInv

\* Update: the depleted head goes behind the others, a new round refills all.
LEMMA UpdateOrder ==
  ASSUME CInv, NEW d \in Nat, Update(d)
  PROVE  OrderInv'
<1> SUFFICES ASSUME NEW p \in Prio PROVE Ordered(rcl'[p], claim', regained')
  BY DEF OrderInv
<1>1. LInv /\ HeadHasClaim
  BY DEF CInv, ClaimInv
<1>2. rcl' = RclAfter(d) /\ UNCHANGED <<ready, quota, prio>>
  BY <1>1, UpdatedClaims
<1>3. /\ Charged(d) \in [Share -> Nat]
      /\ \A u \in Share : ~(ChargesClaim /\ u = head) => Charged(d)[u] = claim[u]
  BY <1>1, Accounting
<1>4. rcl[p] \in Seq(Share) /\ Lists(rcl[p], ReadyClaims(p))
      /\ Ordered(rcl[p], claim, regained)
  BY <1>1 DEF LInv, ListInv, CInv, OrderInv
<1>5. rcl'[p] \in Seq(Share) /\ ToSet(rcl'[p]) = ReadyClaims(p)
  BY <1>1, <1>2, UpdatedLists DEF Lists
<1>6. ready \subseteq Share /\ rcl \in [Prio -> Seq(Share)] /\ prio \in [Share -> Prio]
      /\ quota \in [Share -> Nat] /\ claim \in [Share -> Nat]
  BY <1>1 DEF LInv, ShareTypeOK, ListInv
<1>7. CASE claim' = NextRound(Charged(d))
  <2>1. \A u \in ToSet(rcl'[p]) : claim'[u] > 0
    BY <1>5, <1>6, <1>7 DEF NextRound, ReadyClaims
  <2>2. QED
    BY <2>1, AllOrdered
<1>8. CASE claim' = Charged(d) /\ regained' = regained
  <2>1. CASE Depleted(d) /\ p = prio[head]
    <3> DEFINE r == Without(rcl[p], head)
    <3>1. rcl'[p] = Append(r, head)
      BY <1>2, <1>6, <2>1 DEF RclAfter, ToTail
    <3>2. Lists(r, ReadyClaims(p) \ {head}) /\ Ordered(r, claim, regained)
      BY <1>4, WithoutLists, WithoutOrdered
    <3> HIDE DEF r
    <3>3. r \in Seq(Share) /\ ToSet(r) = ReadyClaims(p) \ {head}
      BY <3>2 DEF Lists
    <3>4. \A u \in ToSet(r) : claim[u] > 0 <=> claim'[u] > 0
      BY <1>3, <1>6, <1>8, <3>3 DEF ReadyClaims
    <3>5. Ordered(r, claim', regained')
      BY <1>8, <3>2, <3>4, SameOrdered
    <3>6. ~(claim'[head] > 0)
      BY <1>8, <2>1 DEF Depleted
    <3>7. QED
      BY <3>1, <3>3, <3>5, <3>6, AppendOrdered
  <2>2. CASE ~(Depleted(d) /\ p = prio[head])
    <3>1. rcl'[p] = rcl[p]
      BY <1>2, <1>6, <2>2 DEF RclAfter
    <3>2. ASSUME NEW u \in ReadyClaims(p) PROVE claim[u] > 0 <=> claim'[u] > 0
      <4>1. u \in Share /\ u \in ready /\ prio[u] = p
        BY <1>6 DEF ReadyClaims
      <4>2. CASE ChargesClaim /\ u = head
        <5>1. claim[u] > 0
          BY <1>1, <4>2 DEF HeadHasClaim, ChargesClaim
        <5>2. claim'[u] # 0 /\ claim'[u] \in Nat
          BY <1>3, <1>8, <2>2, <4>1, <4>2 DEF Depleted
        <5>3. QED
          BY <5>1, <5>2
      <4>3. QED
        BY <1>3, <1>8, <4>1, <4>2
    <3>3. QED
      BY <1>4, <1>5, <1>8, <3>1, <3>2, SameOrdered
  <2>3. QED
    BY <2>1, <2>2
<1>9. QED
  BY <1>1, <1>7, <1>8, UpdatedClaims

\* Update: the new head is the best of the ready shares.
LEMMA UpdateBest ==
  ASSUME LInv', OrderInv', NEW d \in Nat, Update(d)
  PROVE  /\ HeadIsBest'
         /\ headClaims' => claim'[head'] > 0 /\ headQuota' = claim'[head']
                         /\ head' \in present' /\ quota'[head'] > 0
<1> DEFINE c == ChooseHead(rcl', claim', fill', fills')
<1>1. head' = c[1] /\ headQuota' = c[2] /\ headClaims' = c[3]
  BY UpdatedHead
<1>2. rcl' \in [Prio -> Seq(Share)] /\ Lists(fills', ready')
  BY DEF LInv, ListInv
<1>3. Best(c, rcl', claim', fill', fills')
  BY <1>2, Chosen
<1> HIDE DEF c
<1>4. /\ ready' \subseteq present' /\ present' \subseteq Share
      /\ prio' \in [Share -> Prio] /\ quota' \in [Share -> Nat] /\ claim' \in [Share -> Nat]
  BY DEF LInv, ShareTypeOK
<1>5. ASSUME NEW s \in ready' \ regained', quota'[s] > 0, claim'[s] > 0
      PROVE  prio'[s] \in ClaimBands(rcl', claim')
  <2> DEFINE p == prio'[s]
  <2>1. p \in Prio
    BY <1>4
  <2> HIDE DEF p
  <2>2. Ordered(rcl'[p], claim', regained') /\ rcl'[p] \in Seq(Share)
    BY <1>2, <2>1 DEF OrderInv
  <2>3. s \in ToSet(rcl'[p])
    <3>1. \A o \in Prio : ToSet(rcl'[o]) = ReadyClaims(o)'
      BY DEF LInv, ListInv, Lists
    <3>2. \A o : o = p => ReadyClaims(o)' = {u \in ready' : quota'[u] > 0 /\ prio'[u] = o}
      BY DEF ReadyClaims
    <3>3. s \in {u \in ready' : quota'[u] > 0 /\ prio'[u] = p}
      BY <1>5 DEF p
    <3>4. QED
      BY <2>1, <3>1, <3>2, <3>3
  <2>4. rcl'[p] # <<>> /\ claim'[Head(rcl'[p])] > 0
    BY <1>5, <2>2, <2>3, FirstHasClaim
  <2>5. QED
    BY <2>1, <2>4 DEF ClaimBands, p
<1>6. \A p \in Prio : rcl'[p] # <<>> =>
        /\ Head(rcl'[p]) \in ready' /\ prio'[Head(rcl'[p])] = p /\ Head(rcl'[p]) \in Share
        /\ quota'[Head(rcl'[p])] > 0
  <2> TAKE p \in Prio
  <2>1. Lists(rcl'[p], ReadyClaims(p)')
    BY DEF LInv, ListInv
  <2>2. rcl'[p] # <<>> => Head(rcl'[p]) \in ReadyClaims(p)'
    BY <2>1, FirstListed
  <2>3. QED
    BY <1>4, <2>2 DEF ReadyClaims
<1>7. CASE \E p \in Prio :
             /\ rcl'[p] # <<>> /\ c[1] = Head(rcl'[p]) /\ claim'[Head(rcl'[p])] > 0
             /\ c[2] = claim'[Head(rcl'[p])] /\ c[3] = TRUE
             /\ \A o \in ClaimBands(rcl', claim') : o <= p
  <2> PICK p \in Prio :
             /\ rcl'[p] # <<>> /\ c[1] = Head(rcl'[p]) /\ claim'[Head(rcl'[p])] > 0
             /\ c[2] = claim'[Head(rcl'[p])] /\ c[3] = TRUE
             /\ \A o \in ClaimBands(rcl', claim') : o <= p
    BY <1>7
  <2>1. head' \in ready' /\ head' \in Share /\ prio'[head'] = p /\ claim'[head'] > 0
        /\ headQuota' = claim'[head'] /\ quota'[head'] > 0
    BY <1>1, <1>6
  <2>2. headClaims'
    BY <1>1
  <2>3. head' # Idle
    BY <2>1, CpuSchedulerAssumption
  <2>4. \A s \in ready' \ regained' :
          quota'[s] > 0 /\ claim'[s] > 0 => prio'[s] <= prio'[head']
    BY <1>5, <2>1
  <2>5. QED
    BY <1>4, <2>1, <2>2, <2>3, <2>4 DEF HeadIsBest
<1>8. CASE /\ ClaimBands(rcl', claim') = {} /\ fills' # <<>>
           /\ c[1] = Head(fills') /\ c[2] = fill'[Head(fills')] /\ c[3] = FALSE
  <2>1. head' \in ready' /\ head' # Idle
    BY <1>1, <1>2, <1>4, <1>8, FirstListed, CpuSchedulerAssumption
  <2>2. ~headClaims'
    BY <1>1, <1>8
  <2>3. \A s \in ready' \ regained' : ~(quota'[s] > 0 /\ claim'[s] > 0)
    BY <1>5, <1>8
  <2>4. QED
    BY <2>1, <2>2, <2>3 DEF HeadIsBest
<1>9. CASE /\ ClaimBands(rcl', claim') = {} /\ fills' = <<>>
           /\ c[1] = Idle /\ c[2] = Fill /\ c[3] = FALSE
  <2>1. ready' = {} /\ head' = Idle
    BY <1>1, <1>2, <1>9, FirstListed
  <2>2. ~headClaims'
    BY <1>1, <1>9
  <2>3. QED
    BY <2>1, <2>2 DEF HeadIsBest
<1>10. QED
  BY <1>3, <1>7, <1>8, <1>9 DEF Best

\* Update: what the head has used is what its claim lost.
LEMMA UpdateClaims ==
  ASSUME CInv, LInv', OrderInv', NEW d \in Nat, Update(d)
  PROVE  ClaimInv'
<1>1. LInv /\ ClaimInv
  BY DEF CInv
<1>2. /\ present' = present /\ quota' = quota
      /\ \/ claim' = NextRound(Charged(d)) /\ peak' = quota /\ used' = [s \in Share |-> 0]
         \/ /\ claim' = Charged(d) /\ peak' = peak /\ regained' = regained
            /\ used' = [s \in Share |-> IF headClaims /\ s = head THEN used[s] + Consumed(d)
                                        ELSE used[s]]
      /\ claim' \in [Share -> Nat] /\ used' \in [Share -> Nat] /\ peak' \in [Share -> Nat]
  BY <1>1, UpdatedClaims
<1>3. /\ Consumed(d) \in Nat /\ Left(d) \in Nat /\ Consumed(d) + Left(d) <= headQuota
      /\ Charged(d) \in [Share -> Nat]
      /\ \A s \in Share : ~(ChargesClaim /\ s = head) => Charged(d)[s] = claim[s]
      /\ ChargesClaim => Charged(d)[head] <= Left(d)
  BY <1>1, Accounting
<1>4. /\ present \subseteq Share /\ quota \in [Share -> Nat] /\ claim \in [Share -> Nat]
      /\ used \in [Share -> Nat] /\ peak \in [Share -> Nat] /\ headQuota \in Nat
      /\ head \in present \cup {Idle, None}
  BY <1>1 DEF LInv, ShareTypeOK, HeadTypeOK
<1>5. ClaimsLimited'
  <2> SUFFICES ASSUME NEW s \in present, s \notin regained', quota[s] > 0 \/ claim'[s] = 0
               PROVE  used'[s] + claim'[s] <= peak'[s]
    BY <1>2 DEF ClaimsLimited
  <2>1. CASE claim' = NextRound(Charged(d)) /\ peak' = quota /\ used' = [u \in Share |-> 0]
    <3>1. s \in Share /\ used'[s] = 0 /\ peak'[s] = quota[s] /\ quota[s] \in Nat
      BY <1>4, <2>1
    <3>2. quota[s] > 0 => claim'[s] = quota[s]
      BY <2>1, <3>1 DEF NextRound
    <3>3. QED
      BY <3>1, <3>2
  <2>2. CASE /\ claim' = Charged(d) /\ peak' = peak /\ regained' = regained
             /\ used' = [u \in Share |-> IF headClaims /\ u = head THEN used[u] + Consumed(d)
                                         ELSE used[u]]
    <3>1. /\ s \in Share /\ used[s] \in Nat /\ claim[s] \in Nat /\ peak[s] \in Nat
          /\ claim'[s] \in Nat /\ quota[s] \in Nat /\ peak'[s] = peak[s]
      BY <1>2, <1>4, <2>2
    <3>2. CASE ChargesClaim /\ s = head
      <4>1. used[s] + headQuota <= peak[s]
        BY <1>1, <2>2, <3>1, <3>2 DEF ClaimInv, HeadWithinPeak, ChargesClaim
      <4>2. used'[s] = used[s] + Consumed(d)
        BY <2>2, <3>1, <3>2 DEF ChargesClaim
      <4>3. claim'[s] <= Left(d)
        BY <1>3, <2>2, <3>2
      <4>4. QED
        BY <1>3, <1>4, <3>1, <4>1, <4>2, <4>3
    <3>3. CASE ~(ChargesClaim /\ s = head)
      <4>1. claim'[s] = claim[s]
        BY <1>3, <2>2, <3>1, <3>3
      <4>2. ~(headClaims /\ s = head)
        BY <1>1, <3>1, <3>3, <4>1 DEF ClaimInv, HeadHasClaim, ChargesClaim
      <4>3. used'[s] = used[s]
        BY <2>2, <3>1, <4>2
      <4>4. used[s] + claim[s] <= peak[s]
        BY <1>1, <2>2, <4>1 DEF ClaimInv, ClaimsLimited
      <4>5. QED
        BY <3>1, <4>1, <4>3, <4>4
    <3>4. QED
      BY <3>2, <3>3
  <2>3. QED
    BY <1>2, <2>1, <2>2
<1>6. AbsentUnused'
  <2> SUFFICES ASSUME NEW s \in Share \ present PROVE used'[s] = 0
    BY <1>2 DEF AbsentUnused
  <2>1. s # head
    BY <1>4, CpuSchedulerAssumption
  <2>2. used[s] = 0
    BY <1>1 DEF ClaimInv, AbsentUnused
  <2>3. QED
    BY <1>2, <2>1, <2>2
<1>7. headClaims' => claim'[head'] > 0 /\ headQuota' = claim'[head'] /\ head' \in present'
  BY UpdateBest
<1>8. HeadHasClaim'
  BY <1>7 DEF HeadHasClaim
<1>9. HeadWithinPeak'
  BY <1>5, <1>7 DEF HeadWithinPeak, ClaimsLimited
<1>10. QED
  BY <1>5, <1>6, <1>8, <1>9 DEF ClaimInv

LEMMA InsertCInv ==
  ASSUME CInv, NEW s \in Share, NEW p \in Prio, NEW q \in Quotas, Insert(s, p, q)
  PROVE  OrderInv' /\ HeadIsBest' /\ ClaimInv'
<1>1. LInv /\ OrderInv /\ HeadIsBest /\ ClaimInv
  BY DEF CInv
<1>2. /\ present \subseteq Share /\ ready \subseteq present /\ head \in present \cup {Idle, None}
      /\ prio \in [Share -> Prio] /\ quota \in [Share -> Nat] /\ claim \in [Share -> Nat]
      /\ used \in [Share -> Nat] /\ peak \in [Share -> Nat] /\ headClaims \in BOOLEAN
      /\ q \in Nat
  BY <1>1, CpuSchedulerAssumption DEF LInv, ShareTypeOK, HeadTypeOK
<1>3. s \notin present /\ s \notin ready /\ s # head
  BY <1>2, CpuSchedulerAssumption DEF Insert
<1>4. /\ UNCHANGED <<ready, rcl, head, headQuota, headClaims, need, used, regained>>
      /\ present' = present \cup {s}
      /\ quota'[s] = q /\ claim'[s] = q /\ peak'[s] = q
      /\ \A u \in Share : u # s => /\ quota'[u] = quota[u] /\ claim'[u] = claim[u]
                                   /\ peak'[u] = peak[u] /\ prio'[u] = prio[u]
  BY <1>2 DEF Insert, headVars
<1>5. OrderInv'
  <2> SUFFICES ASSUME NEW o \in Prio PROVE Ordered(rcl'[o], claim', regained')
    BY DEF OrderInv
  <2>1. Ordered(rcl[o], claim, regained) /\ ToSet(rcl[o]) = ReadyClaims(o)
    BY <1>1 DEF OrderInv, LInv, ListInv, Lists
  <2>2. \A u \in ToSet(rcl[o]) : claim[u] > 0 <=> claim'[u] > 0
    BY <1>2, <1>3, <1>4, <2>1 DEF ReadyClaims
  <2>3. QED
    BY <1>4, <2>1, <2>2, SameOrdered
<1>6. HeadIsBest'
  <2>1. \A u \in ready : quota'[u] = quota[u] /\ claim'[u] = claim[u] /\ prio'[u] = prio[u]
    BY <1>2, <1>3, <1>4
  <2>2. head \in ready => prio'[head] = prio[head]
    BY <2>1
  <2>3. CASE head \in ready
    BY <1>1, <1>4, <2>1, <2>2, <2>3 DEF HeadIsBest
  <2>4. CASE head \notin ready
    <3>1. need \/ (head = Idle /\ ready = {})
      BY <1>1, <2>4 DEF HeadIsBest
    <3>2. QED
      BY <1>4, <3>1 DEF HeadIsBest
  <2>5. QED
    BY <2>3, <2>4
<1>7. ClaimInv'
  <2>1. HeadHasClaim' /\ HeadWithinPeak'
    BY <1>1, <1>3, <1>4 DEF ClaimInv, HeadHasClaim, HeadWithinPeak
  <2>2. used[s] = 0
    BY <1>1, <1>3 DEF ClaimInv, AbsentUnused
  <2>3. ClaimsLimited'
    BY <1>1, <1>2, <1>3, <1>4, <2>2 DEF ClaimInv, ClaimsLimited
  <2>4. AbsentUnused'
    BY <1>1, <1>4 DEF ClaimInv, AbsentUnused
  <2>5. QED
    BY <2>1, <2>3, <2>4 DEF ClaimInv
<1>8. QED
  BY <1>5, <1>6, <1>7

LEMMA ReadyCInv ==
  ASSUME CInv, NEW s \in Share, Ready(s)
  PROVE  OrderInv' /\ HeadIsBest' /\ ClaimInv'
<1>1. LInv /\ OrderInv /\ HeadIsBest /\ ClaimInv
  BY DEF CInv
<1>2. /\ UNCHANGED <<present, prio, quota, claim, head, headQuota, headClaims, used, peak,
                     regained>>
      /\ ready' = ready \cup {s} /\ s \notin ready
      /\ need' = (need \/ Preempts(s) \/ head \in {None, Idle})
  BY DEF Ready, headVars, roundVars
<1>3. OrderInv'
  <2> SUFFICES ASSUME NEW o \in Prio PROVE Ordered(rcl'[o], claim, regained)
    BY <1>2 DEF OrderInv
  <2>1. rcl[o] \in Seq(Share) /\ Ordered(rcl[o], claim, regained)
    BY <1>1 DEF OrderInv, LInv, ListInv
  <2>2. rcl'[o] = rcl[o] \/ rcl'[o] = Enroll(rcl[o], s, claim[s])
    BY <1>1 DEF Ready, LInv, ListInv
  <2>3. Ordered(Enroll(rcl[o], s, claim[s]), claim, regained)
    BY <2>1, AppendOrdered, PrependOrdered DEF Enroll
  <2>4. QED
    BY <2>1, <2>2, <2>3
<1>4. HeadIsBest'
  <2> SUFFICES ASSUME ~need'
               PROVE  /\ head \in ready'
                      /\ \A u \in ready' \ regained : quota[u] > 0 /\ claim[u] > 0 =>
                                                        headClaims /\ prio[u] <= prio[head]
    BY <1>2 DEF HeadIsBest
  <2>1. ~need /\ ~Preempts(s) /\ head \notin {None, Idle}
    BY <1>2
  <2>2. /\ head \in ready
        /\ \A u \in ready \ regained :
             quota[u] > 0 /\ claim[u] > 0 => headClaims /\ prio[u] <= prio[head]
    BY <1>1, <2>1 DEF HeadIsBest
  <2>3. quota[s] > 0 /\ claim[s] > 0 => headClaims /\ ~(prio[s] >= prio[head])
    BY <2>1 DEF Preempts
  <2>4. prio[s] \in Nat /\ prio[head] \in Nat
    BY <1>1, <2>2 DEF LInv, ShareTypeOK, Prio
  <2>5. ~(prio[s] >= prio[head]) => prio[s] <= prio[head]
    BY <2>4
  <2>6. QED
    BY <1>2, <2>2, <2>3, <2>5
<1>5. ClaimInv'
  BY <1>1, <1>2
     DEF ClaimInv, HeadHasClaim, HeadWithinPeak, ClaimsLimited, AbsentUnused
<1>6. QED
  BY <1>3, <1>4, <1>5

LEMMA UnreadyCInv ==
  ASSUME CInv, NEW s \in Share, Unready(s)
  PROVE  OrderInv' /\ HeadIsBest' /\ ClaimInv'
<1>1. LInv /\ OrderInv /\ HeadIsBest /\ ClaimInv
  BY DEF CInv
<1>2. /\ UNCHANGED <<present, prio, quota, claim, head, headQuota, headClaims, used, peak,
                     regained>>
      /\ ready' = ready \ {s}
      /\ need' = (need \/ s = head)
  BY DEF Unready, headVars
<1>3. OrderInv'
  <2> SUFFICES ASSUME NEW o \in Prio PROVE Ordered(rcl'[o], claim, regained)
    BY <1>2 DEF OrderInv
  <2>1. rcl[o] \in Seq(Share) /\ Ordered(rcl[o], claim, regained)
    BY <1>1 DEF OrderInv, LInv, ListInv
  <2>2. rcl'[o] = rcl[o] \/ rcl'[o] = Without(rcl[o], s)
    BY <1>1 DEF Unready, LInv, ListInv
  <2>3. QED
    BY <2>1, <2>2, WithoutOrdered
<1>4. HeadIsBest'
  BY <1>1, <1>2 DEF HeadIsBest
<1>5. ClaimInv'
  BY <1>1, <1>2
     DEF ClaimInv, HeadHasClaim, HeadWithinPeak, ClaimsLimited, AbsentUnused
<1>6. QED
  BY <1>3, <1>4, <1>5

LEMMA RemoveShareCInv ==
  ASSUME CInv, NEW s \in Share, RemoveShare(s)
  PROVE  OrderInv' /\ HeadIsBest' /\ ClaimInv'
<1>1. LInv /\ OrderInv /\ HeadIsBest /\ ClaimInv
  BY DEF CInv
<1>2. /\ present \subseteq Share /\ ready \subseteq present /\ s \in present
      /\ prio \in [Share -> Prio] /\ quota \in [Share -> Nat] /\ claim \in [Share -> Nat]
      /\ used \in [Share -> Nat] /\ peak \in [Share -> Nat]
  BY <1>1 DEF LInv, ShareTypeOK, RemoveShare
<1>3. /\ UNCHANGED <<headQuota, headClaims>>
      /\ present' = present \ {s} /\ ready' = ready \ {s} /\ regained' = regained \ {s}
      /\ need' = (need \/ (s \in ready /\ s = head))
      /\ head' = IF head = s THEN None ELSE head
  BY DEF RemoveShare
<1>4. /\ used'[s] = 0
      /\ \A u \in Share : u # s => /\ quota'[u] = quota[u] /\ claim'[u] = claim[u]
                                   /\ peak'[u] = peak[u] /\ prio'[u] = prio[u]
                                   /\ used'[u] = used[u]
  BY <1>2 DEF RemoveShare
<1>5. OrderInv'
  <2> SUFFICES ASSUME NEW o \in Prio PROVE Ordered(rcl'[o], claim', regained')
    BY DEF OrderInv
  <2>1. rcl[o] \in Seq(Share) /\ Ordered(rcl[o], claim, regained) /\ Lists(rcl[o], ReadyClaims(o))
    BY <1>1 DEF OrderInv, LInv, ListInv
  <2> DEFINE r == Without(rcl[o], s)
  <2>2. Lists(r, ReadyClaims(o) \ {s}) /\ Ordered(r, claim, regained)
    BY <2>1, WithoutLists, WithoutOrdered
  <2>3. rcl'[o] = r
    <3>1. CASE o = prio[s]
      BY <1>1, <3>1 DEF RemoveShare, LInv, ListInv
    <3>2. CASE o # prio[s]
      <4>1. rcl'[o] = rcl[o]
        BY <1>1, <3>2 DEF RemoveShare, LInv, ListInv
      <4>2. s \notin ToSet(rcl[o])
        BY <2>1, <3>2 DEF Lists, ReadyClaims
      <4>3. QED
        BY <4>1, <4>2 DEF Without
    <3>3. QED
      BY <3>1, <3>2
  <2> HIDE DEF r
  <2>4. \A u \in ToSet(r) : claim[u] > 0 <=> claim'[u] > 0
    BY <1>2, <1>4, <2>2 DEF Lists, ReadyClaims
  <2>5. regained \cap ToSet(r) \subseteq regained'
    BY <1>3, <2>2 DEF Lists
  <2>6. QED
    BY <2>2, <2>3, <2>4, <2>5, SameOrdered
<1>6. HeadIsBest'
  <2> SUFFICES ASSUME ~need'
               PROVE  /\ head' \in ready' \cup {Idle}
                      /\ head' = Idle => ready' = {}
                      /\ \A u \in ready' \ regained' : quota'[u] > 0 /\ claim'[u] > 0 =>
                                                         headClaims' /\ prio'[u] <= prio'[head']
    BY DEF HeadIsBest
  <2>1. ~need /\ ~(s \in ready /\ s = head)
    BY <1>3
  <2>2. /\ head \in ready \cup {Idle} /\ (head = Idle => ready = {})
        /\ \A u \in ready \ regained :
             quota[u] > 0 /\ claim[u] > 0 => headClaims /\ prio[u] <= prio[head]
    BY <1>1, <2>1 DEF HeadIsBest
  <2>3. s # head /\ head' = head
    BY <1>3, <2>1, <2>2, CpuSchedulerAssumption
  <2>4. \A u \in ready' : u \in ready /\ quota'[u] = quota[u] /\ claim'[u] = claim[u]
                          /\ prio'[u] = prio[u]
    BY <1>2, <1>3, <1>4
  <2>5. ready # {} => head \in ready /\ prio'[head] = prio[head]
    BY <1>2, <1>4, <2>2, <2>3
  <2>6. QED
    BY <1>3, <2>2, <2>3, <2>4, <2>5
<1>7. ClaimInv'
  <2>1. head' \in Share => head' = head /\ head' # s
    BY <1>3, CpuSchedulerAssumption
  <2>2. HeadHasClaim' /\ HeadWithinPeak'
    BY <1>1, <1>3, <1>4, <2>1 DEF ClaimInv, HeadHasClaim, HeadWithinPeak
  <2>3. ClaimsLimited'
    BY <1>1, <1>2, <1>3, <1>4 DEF ClaimInv, ClaimsLimited
  <2>4. AbsentUnused'
    BY <1>1, <1>3, <1>4 DEF ClaimInv, AbsentUnused
  <2>5. QED
    BY <2>2, <2>3, <2>4 DEF ClaimInv
<1>8. QED
  BY <1>5, <1>6, <1>7

LEMMA SetQuotaCInv ==
  ASSUME CInv, NEW s \in Share, NEW q \in Quotas, SetQuota(s, q)
  PROVE  OrderInv' /\ HeadIsBest' /\ ClaimInv'
<1>1. LInv /\ OrderInv /\ HeadIsBest /\ ClaimInv
  BY DEF CInv
<1>2. /\ q \in Nat
      /\ quota' \in [Share -> Nat] /\ claim' \in [Share -> Nat] /\ peak' \in [Share -> Nat]
      /\ quota'[s] = q /\ peak[s] <= peak'[s] /\ claim'[s] <= claim[s]
      /\ (quota[s] = 0 \/ q = 0 => claim'[s] = claim[s])
      /\ (claim[s] > 0 => claim'[s] > 0)
      /\ \A u \in Share : u # s => /\ quota'[u] = quota[u] /\ claim'[u] = claim[u]
                                   /\ peak'[u] = peak[u]
  BY <1>1, SetQuotaNumbers
<1>3. /\ s \in present /\ UNCHANGED <<present, ready, prio, used>>
      /\ UNCHANGED <<head, headQuota, headClaims, need>>
      /\ regained \subseteq regained' /\ (Regains(s) => s \in regained')
  BY DEF SetQuota, headVars
<1>4. /\ present \subseteq Share /\ ready \subseteq present
      /\ quota \in [Share -> Nat] /\ claim \in [Share -> Nat]
      /\ used \in [Share -> Nat] /\ peak \in [Share -> Nat] /\ headQuota \in Nat
  BY <1>1 DEF LInv, ShareTypeOK, HeadTypeOK
<1>5. quota[s] = 0 => claim[s] = 0 \/ s \in regained'
  BY <1>3, <1>4 DEF Regains
<1>6. \A u \in Share : claim[u] > 0 <=> claim'[u] > 0
  BY <1>2, <1>4
<1>7. OrderInv'
  <2> SUFFICES ASSUME NEW o \in Prio PROVE Ordered(rcl'[o], claim', regained')
    BY DEF OrderInv
  <2>1. rcl[o] \in Seq(Share) /\ Ordered(rcl[o], claim, regained) /\ ToSet(rcl[o]) \subseteq Share
    BY <1>1, <1>4 DEF OrderInv, LInv, ListInv, Lists, ReadyClaims
  <2>2. Ordered(rcl[o], claim', regained')
    BY <1>3, <1>6, <2>1, SameOrdered
  <2>3. \/ rcl'[o] = rcl[o] \/ rcl'[o] = Without(rcl[o], s)
        \/ quota[s] = 0 /\ rcl'[o] = Append(rcl[o], s)
    BY <1>1 DEF SetQuota, Revoked, Introduced, LInv, ListInv
  <2>4. quota[s] = 0 => ~(claim'[s] > 0) \/ s \in regained'
    BY <1>2, <1>5
  <2>5. QED
    BY <2>1, <2>2, <2>3, <2>4, WithoutOrdered, AppendOrdered
<1>8. HeadIsBest'
  <2>1. \A u \in ready \ regained' :
          quota'[u] > 0 /\ claim'[u] > 0 => quota[u] > 0 /\ claim[u] > 0
    <3> TAKE u \in ready \ regained'
    <3>1. u \in Share /\ quota[u] \in Nat /\ claim[u] \in Nat
      BY <1>4
    <3>2. u # s => quota'[u] = quota[u]
      BY <1>2, <3>1
    <3>3. u = s /\ claim[u] > 0 => quota[u] > 0
      BY <1>5, <3>1
    <3>4. QED
      BY <1>6, <3>1, <3>2, <3>3
  <2>2. QED
    BY <1>1, <1>3, <2>1 DEF HeadIsBest
<1>9. ClaimInv'
  <2>1. HeadHasClaim'
    BY <1>1, <1>3, <1>6 DEF ClaimInv, HeadHasClaim
  <2>2. HeadWithinPeak'
    <3> SUFFICES ASSUME head \in Share, head \notin regained', headClaims, quota'[head] > 0
                 PROVE  used[head] + headQuota <= peak'[head]
      BY <1>3 DEF HeadWithinPeak
    <3>1. claim[head] > 0
      BY <1>1 DEF ClaimInv, HeadHasClaim
    <3>2. quota[head] > 0
      BY <1>2, <1>4, <1>5, <3>1
    <3>3. used[head] + headQuota <= peak[head]
      BY <1>1, <1>3, <3>2 DEF ClaimInv, HeadWithinPeak
    <3>4. peak[head] <= peak'[head]
      BY <1>2, <1>4
    <3>5. QED
      BY <1>2, <1>4, <3>3, <3>4
  <2>3. ClaimsLimited'
    <3> SUFFICES ASSUME NEW u \in present, u \notin regained', quota'[u] > 0 \/ claim'[u] = 0
                 PROVE  used[u] + claim'[u] <= peak'[u]
      BY <1>3 DEF ClaimsLimited
    <3>1. /\ u \in Share /\ quota[u] \in Nat /\ claim[u] \in Nat /\ claim'[u] \in Nat
          /\ used[u] \in Nat /\ peak[u] \in Nat /\ peak'[u] \in Nat
      BY <1>2, <1>4
    <3>2. claim'[u] <= claim[u] /\ peak[u] <= peak'[u]
      BY <1>2, <3>1
    <3>3. quota[u] > 0 \/ claim[u] = 0
      BY <1>2, <1>5, <1>6, <3>1
    <3>4. used[u] + claim[u] <= peak[u]
      BY <1>1, <1>3, <3>3 DEF ClaimInv, ClaimsLimited
    <3>5. QED
      BY <3>1, <3>2, <3>4
  <2>4. AbsentUnused'
    BY <1>1, <1>3 DEF ClaimInv, AbsentUnused
  <2>5. QED
    BY <2>1, <2>2, <2>3, <2>4 DEF ClaimInv
<1>10. QED
  BY <1>7, <1>8, <1>9

\* The inductive invariant of the claims is preserved by every step.
LEMMA StepCInv == CInv /\ [Next]_vars => CInv'
<1> SUFFICES ASSUME CInv, [Next]_vars PROVE CInv'
  OBVIOUS
<1>1. LInv /\ OrderInv /\ HeadIsBest /\ ClaimInv
  BY DEF CInv
<1>2. LInv'
  BY <1>1, StepLInv
<1>3. CASE Timeout
  <2>1. need' /\ UNCHANGED <<present, quota, claim, rcl, head, headQuota, headClaims, used, peak,
                          regained>>
    BY <1>3 DEF Timeout, shareVars, listVars, headVars, roundVars
  <2>2. QED
    BY <1>1, <1>2, <2>1 DEF CInv, OrderInv, HeadIsBest, ClaimInv, HeadHasClaim, HeadWithinPeak,
                            ClaimsLimited, AbsentUnused
<1>4. CASE Yield
  <2>1. need' /\ UNCHANGED <<present, quota, claim, rcl, head, headQuota, headClaims, used, peak,
                          regained>>
    BY <1>4 DEF Yield, shareVars, listVars, roundVars
  <2>2. QED
    BY <1>1, <1>2, <2>1 DEF CInv, OrderInv, HeadIsBest, ClaimInv, HeadHasClaim, HeadWithinPeak,
                            ClaimsLimited, AbsentUnused
<1>5. ASSUME NEW d \in 0 .. Quota, Update(d) PROVE CInv'
  <2>1. d \in Nat
    OBVIOUS
  <2>2. OrderInv'
    BY <1>5, <2>1, UpdateOrder
  <2>3. HeadIsBest'
    BY <1>2, <1>5, <2>1, <2>2, UpdateBest
  <2>4. ClaimInv'
    BY <1>2, <1>5, <2>1, <2>2, UpdateClaims
  <2>5. QED
    BY <1>2, <2>2, <2>3, <2>4 DEF CInv
<1>6. ASSUME NEW s \in Share, ShareStep(s) PROVE CInv'
  <2>1. OrderInv' /\ HeadIsBest' /\ ClaimInv'
    BY <1>6, InsertCInv, SetQuotaCInv, ReadyCInv, UnreadyCInv, RemoveShareCInv DEF ShareStep
  <2>2. QED
    BY <1>2, <2>1 DEF CInv
<1>7. CASE UNCHANGED vars
  <2>1. UNCHANGED <<present, ready, prio, quota, claim, rcl, head, headQuota, headClaims, need,
                    used, peak, regained>>
    BY <1>7 DEF vars, shareVars, listVars, headVars, roundVars
  <2>2. QED
    BY <1>1, <1>2, <2>1 DEF CInv, OrderInv, HeadIsBest, ClaimInv, HeadHasClaim, HeadWithinPeak,
                            ClaimsLimited, AbsentUnused
<1>8. QED
  BY <1>3, <1>4, <1>5, <1>6, <1>7 DEF Next

\* The inductive invariant holds: a head that runs as a claim keeps a claim, and
\* what it may still use fits into the highest quota that it had in the round.
THEOREM ClaimsInvariance == Spec => []CInv
BY InitCInv, StepCInv, PTL DEF Spec

\* Every share is in the lists that its state says, depleted claims are behind
\* the others of their priority and no time slice is zero, so that looking at the
\* first claim of each priority is enough (_claim_for_head).
THEOREM ListsStayConsistent == Spec => []ListsConsistent
BY ClaimsInvariance, CInvImplies, PTL

\* Unless a scheduling decision is pending, no ready share with a claim waits for
\* a fill or for a claim of lower priority (ready, unready, remove, update).
THEOREM HeadStaysBest == Spec => []HeadIsBest
BY ClaimsInvariance, CInvImplies, PTL

\* What a claim has used in a round and may still use is limited by the highest
\* quota that it had in the round (_head_claimed, _quota_adaption, _next_round).
THEOREM QuotasLimit == Spec => []QuotaLimitsClaims
BY ClaimsInvariance, CInvImplies, PTL

-----------------------------------------------------------------------------
(* The guarantee of a quota, if core does not assign more than a round has *)

Claims == {s \in present : quota[s] > 0}

\* The total of the quotas is what core assigns.
QuotasAssigned == IsFiniteSet(present) /\ SumFunctionOnSet(quota, present) <= QuotaSum

\* The head may run for all of its claim before the next update.
HeadClaimGranted == head \in Share /\ headClaims => claim[head] <= headQuota

SteadyClaim == \E s \in steady : quota[s] > 0 /\ claim[s] > 0

\* While a share that was ready all the time has a claim, the head is a claim, and
\* after its time the others still fit into the round.
OthersFit ==
  SteadyClaim => headClaims /\ SumFunctionOnSet(claim, Claims \ {head}) + headQuota <= residual

\* No share of a round that is steady has kept a claim of an earlier quota.
SteadyRound == steady = {} \/ regained = {}

GInv == QuotasAssigned /\ HeadClaimGranted /\ OthersFit /\ SteadyRound

\* The shares with a quota, and the sums over any of them
LEMMA ClaimSums ==
  ASSUME LInv, QuotasAssigned, NEW C \in SUBSET present
  PROVE  Numbers(claim, C) /\ Numbers(quota, C) /\ SumFunctionOnSet(claim, C) \in Nat
<1>1. IsFiniteSet(C)
  BY FS_Subset DEF QuotasAssigned
<1>2. \A x \in C : claim[x] \in Nat /\ quota[x] \in Nat
  BY DEF LInv, ShareTypeOK
<1>3. Numbers(claim, C) /\ Numbers(quota, C)
  BY <1>1, <1>2 DEF Numbers
<1>4. QED
  BY <1>3, SumType

LEMMA GInvImplies == LInv /\ GInv => QuotaGuaranteed
<1> SUFFICES ASSUME LInv, GInv, SteadyClaim
             PROVE  SumFunctionOnSet(claim, Claims) <= residual
  BY DEF QuotaGuaranteed, SteadyClaim, Claims
<1>1. headClaims /\ SumFunctionOnSet(claim, Claims \ {head}) + headQuota <= residual
  BY DEF GInv, OthersFit
<1>2. Claims \in SUBSET present /\ Claims \ {head} \in SUBSET present
  BY DEF Claims
<1>3. /\ Numbers(claim, Claims) /\ SumFunctionOnSet(claim, Claims \ {head}) \in Nat
  BY <1>2, ClaimSums DEF GInv
<1>4. headQuota \in Nat /\ residual \in Nat
  BY CpuSchedulerAssumption DEF LInv, HeadTypeOK
<1>5. CASE head \in Claims
  <2>1. SumFunctionOnSet(claim, Claims) = claim[head] + SumFunctionOnSet(claim, Claims \ {head})
    BY <1>3, <1>5, SumRemove
  <2>2. head \in Share /\ claim[head] \in Nat
    BY <1>2, <1>5 DEF LInv, ShareTypeOK
  <2>3. claim[head] <= headQuota
    BY <1>1, <2>2 DEF GInv, HeadClaimGranted
  <2>4. QED
    BY <1>1, <1>3, <1>4, <2>1, <2>2, <2>3
<1>6. CASE head \notin Claims
  <2>1. Claims \ {head} = Claims
    BY <1>6
  <2>2. QED
    BY <1>1, <1>3, <1>4, <2>1
<1>7. QED
  BY <1>5, <1>6

LEMMA InitGInv == Init => GInv
<1> SUFFICES ASSUME Init PROVE GInv
  OBVIOUS
<1>1. QuotasAssigned
  BY FS_EmptySet, SumEmpty, CpuSchedulerAssumption DEF Init, QuotasAssigned
<1>2. HeadClaimGranted /\ OthersFit /\ SteadyRound
  BY CpuSchedulerAssumption DEF Init, HeadClaimGranted, OthersFit, SteadyClaim, SteadyRound
<1>3. QED
  BY <1>1, <1>2 DEF GInv

\* Fewer and smaller claims of the others fit as well.
LEMMA OthersStillFit ==
  ASSUME LInv, LInv', GInv, QuotasAssigned', SteadyClaim' => SteadyClaim,
         UNCHANGED <<headQuota, headClaims, residual>>,
         NEW Z \in SUBSET present', \A u \in Z : claim'[u] = 0,
         \A u \in (Claims' \ {head'}) \ Z : u \in Claims \ {head} /\ claim'[u] <= claim[u],
         \A y, z \in Z : y = z
  PROVE  OthersFit'
<1> DEFINE C == Claims \ {head}
           D == Claims' \ {head'}
           E == D \ Z
<1> SUFFICES ASSUME SteadyClaim'
             PROVE  headClaims' /\ SumFunctionOnSet(claim', D) + headQuota' <= residual'
  BY DEF OthersFit
<1>1. headClaims /\ SumFunctionOnSet(claim, C) + headQuota <= residual
  BY DEF GInv, OthersFit
<1>2. C \in SUBSET present /\ D \in SUBSET present' /\ E \in SUBSET present' /\ E \in SUBSET C
  BY DEF Claims
<1>3. \A u \in E : claim'[u] <= claim[u]
  OBVIOUS
<1>4. \A u \in D : u \in Z => claim'[u] = 0
  OBVIOUS
<1> HIDE DEF C, D
<1>5. Numbers(claim, C) /\ SumFunctionOnSet(claim, C) \in Nat
  BY <1>2, ClaimSums DEF GInv
<1>6. /\ Numbers(claim', D) /\ SumFunctionOnSet(claim', E) \in Nat
      /\ \A u \in E : claim'[u] \in Nat
  <2>1. IsFiniteSet(D) /\ IsFiniteSet(E)
    BY <1>2, FS_Subset DEF QuotasAssigned
  <2>2. \A u \in present' : claim'[u] \in Nat
    BY DEF LInv, ShareTypeOK
  <2>3. Numbers(claim', D) /\ Numbers(claim', E)
    BY <1>2, <2>1, <2>2 DEF Numbers
  <2>4. QED
    BY <2>3, SumType DEF Numbers
<1>7. SumFunctionOnSet(claim', E) <= SumFunctionOnSet(claim, C)
  BY <1>2, <1>3, <1>5, <1>6, SumMono
<1>8. SumFunctionOnSet(claim', D) = SumFunctionOnSet(claim', E)
  <2>1. CASE D \cap Z = {}
    <3>1. D = E
      BY <2>1
    <3>2. QED
      BY <3>1
  <2>2. CASE D \cap Z # {}
    <3>1. PICK z \in D : z \in Z
      BY <2>2
    <3>2. E = D \ {z}
      BY <3>1
    <3>3. SumFunctionOnSet(claim', D) = claim'[z] + SumFunctionOnSet(claim', D \ {z})
      BY <1>6, SumRemove
    <3>4. QED
      BY <1>4, <1>6, <3>1, <3>2, <3>3
  <2>3. QED
    BY <2>1, <2>2
<1>9. headQuota \in Nat /\ residual \in Nat
  BY CpuSchedulerAssumption DEF LInv, HeadTypeOK
<1> HIDE DEF E
<1>10. QED
  BY <1>1, <1>5, <1>6, <1>7, <1>8, <1>9

\* Update: a new round starts with all quotas, within a round the others do not
\* lose what the head consumes.
LEMMA UpdateGInv ==
  ASSUME QuotaSum <= Quota, CInv, GInv, LInv', OrderInv', NEW d \in Nat, Update(d)
  PROVE  GInv'
<1>1. LInv /\ ClaimInv /\ QuotasAssigned
  BY DEF CInv, GInv
<1>2. UNCHANGED <<present, ready, quota>> /\ need' = FALSE
  BY <1>1, UpdatedClaims DEF Update
<1>3. QuotasAssigned'
  BY <1>1, <1>2 DEF QuotasAssigned
<1>4. /\ HeadIsBest'
      /\ headClaims' => /\ claim'[head'] > 0 /\ headQuota' = claim'[head']
                        /\ head' \in present' /\ quota'[head'] > 0
  BY UpdateBest
<1>5. /\ present \subseteq Share /\ ready \subseteq present /\ steady \subseteq ready
      /\ quota \in [Share -> Nat] /\ claim \in [Share -> Nat] /\ claim' \in [Share -> Nat]
      /\ headQuota \in Nat /\ residual \in Nat /\ head \in present \cup {Idle, None}
      /\ steady' \subseteq ready
  BY <1>1, <1>2, CpuSchedulerAssumption DEF LInv, ShareTypeOK, HeadTypeOK
<1>6. HeadClaimGranted'
  BY <1>4, <1>5 DEF HeadClaimGranted
<1>7. Claims' = Claims /\ Claims \in SUBSET present
  BY <1>2 DEF Claims
<1>8. /\ Numbers(claim, Claims) /\ Numbers(claim', Claims) /\ Numbers(quota, present)
      /\ SumFunctionOnSet(claim', Claims) \in Nat
  <2>1. Numbers(claim, Claims) /\ Numbers(quota, present)
    BY <1>1, <1>7, ClaimSums
  <2>2. Numbers(claim', Claims)
    BY <1>5, <1>7, <2>1 DEF Numbers
  <2>3. QED
    BY <2>1, <2>2, SumType
<1>9. SteadyClaim' => SumFunctionOnSet(claim', Claims) <= residual'
  <2>1. CASE (head # None \/ removed) /\ RoundOver(d)
    <3>1. claim' = NextRound(Charged(d)) /\ residual' = Quota
      BY <2>1 DEF Update
    <3>2. \A u \in Claims : claim'[u] \in Nat /\ claim'[u] <= quota[u]
      BY <1>5, <3>1 DEF Claims, NextRound
    <3>3. SumFunctionOnSet(claim', Claims) <= SumFunctionOnSet(quota, present)
      BY <1>7, <1>8, <3>2, SumMono
    <3>4. SumFunctionOnSet(quota, present) \in Nat
      BY <1>8, SumType
    <3>5. QED
      BY <1>1, <1>8, <3>1, <3>3, <3>4, CpuSchedulerAssumption DEF QuotasAssigned
  <2>2. CASE ~((head # None \/ removed) /\ RoundOver(d))
    <3>1. /\ claim' = Charged(d) /\ steady' = steady
          /\ residual' = residual - Consumed(d) \/ residual' = residual
      BY <2>2 DEF Update
    <3>2. /\ Consumed(d) \in Nat /\ Left(d) \in Nat /\ Consumed(d) + Left(d) <= headQuota
          /\ \A s \in Share : ~(ChargesClaim /\ s = head) => claim'[s] = claim[s]
          /\ ChargesClaim => claim'[head] <= Left(d)
      BY <1>1, <3>1, Accounting
    <3> HAVE SteadyClaim'
    <3>3. SteadyClaim
      <4>1. PICK s \in steady : quota[s] > 0 /\ claim'[s] > 0
        BY <1>2, <3>1 DEF SteadyClaim
      <4>2. s \in Share
        BY <1>5
      <4>3. ChargesClaim => claim[head] > 0
        BY <1>1 DEF ClaimInv, HeadHasClaim, ChargesClaim
      <4>4. claim[s] > 0
        BY <3>2, <4>1, <4>2, <4>3
      <4>5. QED
        BY <4>1, <4>4 DEF SteadyClaim
    <3> DEFINE O == Claims \ {head}
    <3>4. headClaims /\ SumFunctionOnSet(claim, O) + headQuota <= residual
      BY <3>3 DEF GInv, OthersFit
    <3>5. O \in SUBSET Claims /\ Numbers(claim, O) /\ Numbers(claim', O)
      BY <1>8, FS_Subset DEF Numbers
    <3>6. \A u \in O : claim'[u] \in Nat /\ claim'[u] <= claim[u]
      BY <1>5, <1>7, <3>2
    <3>7. SumFunctionOnSet(claim', O) \in Nat /\ SumFunctionOnSet(claim, O) \in Nat
      BY <3>5, SumType
    <3>8. SumFunctionOnSet(claim', O) <= SumFunctionOnSet(claim, O)
      BY <3>5, <3>6, SumMono
    <3>9. CASE ChargesClaim
      <4>1. head \in Claims /\ claim'[head] \in Nat
        BY <1>5, <3>9, CpuSchedulerAssumption DEF ChargesClaim, Claims
      <4>2. SumFunctionOnSet(claim', Claims) = claim'[head] + SumFunctionOnSet(claim', O)
        BY <1>8, <4>1, SumRemove
      <4> HIDE DEF O
      <4>3. QED
        BY <1>5, <3>1, <3>2, <3>4, <3>7, <3>8, <3>9, <4>1, <4>2
    <3>10. CASE ~ChargesClaim
      <4>1. O = Claims
        BY <1>5, <3>4, <3>10 DEF ChargesClaim, Claims
      <4> HIDE DEF O
      <4>2. QED
        BY <1>5, <3>1, <3>2, <3>4, <3>7, <3>8, <4>1
    <3>11. QED
      BY <3>9, <3>10
  <2>3. QED
    BY <2>1, <2>2
<1>10. SteadyRound'
  BY DEF Update, SteadyRound, GInv
<1>11. OthersFit'
  <2> SUFFICES ASSUME SteadyClaim'
               PROVE  headClaims' /\ SumFunctionOnSet(claim', Claims \ {head'}) + headQuota' <= residual'
    BY <1>7 DEF OthersFit
  <2>1. headClaims'
    BY <1>2, <1>4, <1>5, <1>10 DEF SteadyClaim, SteadyRound, HeadIsBest
  <2>2. head' \in Claims /\ headQuota' = claim'[head']
    BY <1>2, <1>4, <2>1 DEF Claims
  <2>3. SumFunctionOnSet(claim', Claims) = claim'[head'] + SumFunctionOnSet(claim', Claims \ {head'})
    BY <1>8, <2>2, SumRemove
  <2>4. claim'[head'] \in Nat /\ SumFunctionOnSet(claim', Claims \ {head'}) \in Nat
    <3>1. Numbers(claim', Claims \ {head'})
      BY <1>8, FS_Subset DEF Numbers
    <3>2. QED
      BY <1>8, <2>2, <3>1, SumType DEF Numbers
  <2>5. QED
    BY <1>9, <2>1, <2>2, <2>3, <2>4
<1>12. QED
  BY <1>3, <1>6, <1>10, <1>11 DEF GInv

LEMMA InsertGInv ==
  ASSUME LInv, GInv, NEW s \in Share, NEW p \in Prio, NEW q \in Quotas, Insert(s, p, q)
  PROVE  GInv'
<1>1. /\ present \subseteq Share /\ s \notin present /\ head \in present \cup {Idle, None}
      /\ claim \in [Share -> Nat]
  BY DEF LInv, ShareTypeOK, HeadTypeOK, Insert
<1>2. QuotasAssigned'
  <2>1. IsFiniteSet(present \cup {s})
    BY FS_AddElement DEF GInv, QuotasAssigned
  <2>2. QED
    BY <2>1 DEF QuotasAssigned, Insert, QuotasFit
<1>3. HeadClaimGranted'
  <2>1. head # s
    BY <1>1, CpuSchedulerAssumption
  <2>2. QED
    BY <1>1, <2>1 DEF GInv, HeadClaimGranted, Insert, headVars
<1>4. OthersFit' /\ SteadyRound'
  BY DEF OthersFit, SteadyClaim, SteadyRound, Insert
<1>5. QED
  BY <1>2, <1>3, <1>4 DEF GInv

LEMMA RemoveShareGInv ==
  ASSUME LInv, LInv', GInv, NEW s \in Share, RemoveShare(s)
  PROVE  GInv'
<1>1. /\ present \subseteq Share /\ steady \subseteq present /\ s \in present
      /\ quota \in [Share -> Nat] /\ claim \in [Share -> Nat]
  BY DEF LInv, ShareTypeOK, RemoveShare
<1>2. /\ UNCHANGED <<headQuota, headClaims, residual>>
      /\ present' = present \ {s} /\ steady' = steady \ {s}
      /\ head' = IF head = s THEN None ELSE head
  BY DEF RemoveShare
<1>3. \A u \in Share : u # s => quota'[u] = quota[u] /\ claim'[u] = claim[u]
  BY <1>1 DEF RemoveShare
<1>4. QuotasAssigned'
  <2>1. IsFiniteSet(present') /\ Numbers(quota, present)
    BY <1>2, FS_Subset, ClaimSums DEF GInv, QuotasAssigned
  <2>2. present' \in SUBSET present /\ \A u \in present' : quota'[u] \in Nat /\ quota'[u] <= quota[u]
    BY <1>1, <1>2, <1>3
  <2>3. SumFunctionOnSet(quota', present') <= SumFunctionOnSet(quota, present)
    BY <2>1, <2>2, SumMono
  <2>4. Numbers(quota', present')
    BY <2>1, <2>2 DEF Numbers
  <2>5. SumFunctionOnSet(quota', present') \in Nat /\ SumFunctionOnSet(quota, present) \in Nat
    BY <2>1, <2>4, SumType
  <2>6. QED
    BY <2>1, <2>3, <2>5, CpuSchedulerAssumption DEF GInv, QuotasAssigned
<1>5. HeadClaimGranted'
  BY <1>2, <1>3, CpuSchedulerAssumption DEF GInv, HeadClaimGranted
<1>6. OthersFit'
  <2>1. SteadyClaim' => SteadyClaim
    BY <1>1, <1>2, <1>3 DEF SteadyClaim
  <2>2. \A u \in Claims' \ {head'} : u \in Claims \ {head} /\ claim'[u] <= claim[u]
    BY <1>1, <1>2, <1>3 DEF Claims
  <2> DEFINE Z == {}
  <2>3. /\ Z \in SUBSET present' /\ (\A u \in Z : claim'[u] = 0) /\ (\A y, z \in Z : y = z)
        /\ \A u \in (Claims' \ {head'}) \ Z : u \in Claims \ {head} /\ claim'[u] <= claim[u]
    BY <2>2
  <2> HIDE DEF Z
  <2>4. QED
    BY <1>2, <1>4, <2>1, <2>3, OthersStillFit
<1>7. SteadyRound'
  BY DEF RemoveShare, SteadyRound, GInv
<1>8. QED
  BY <1>4, <1>5, <1>6, <1>7 DEF GInv

\* A new claim has nothing to claim before the next round, or the round is not
\* steady any more.
LEMMA SetQuotaGInv ==
  ASSUME LInv, LInv', GInv, NEW s \in Share, NEW q \in Quotas, SetQuota(s, q)
  PROVE  GInv'
<1>1. /\ q \in Nat /\ quota' \in [Share -> Nat] /\ claim' \in [Share -> Nat]
      /\ quota'[s] = q /\ claim'[s] <= claim[s]
      /\ (quota[s] = 0 \/ q = 0 => claim'[s] = claim[s])
      /\ \A u \in Share : u # s => quota'[u] = quota[u] /\ claim'[u] = claim[u]
  BY SetQuotaNumbers
<1>2. /\ s \in present /\ UNCHANGED <<present, head, headQuota, headClaims, residual>>
      /\ steady' \subseteq steady /\ (Regains(s) => steady' = {})
      /\ quota' = [quota EXCEPT ![s] = q] /\ QuotasFit(s, q)
  BY DEF SetQuota, headVars
<1>3. /\ present \subseteq Share /\ steady \subseteq present
      /\ quota \in [Share -> Nat] /\ claim \in [Share -> Nat] /\ headQuota \in Nat
  BY DEF LInv, ShareTypeOK, HeadTypeOK
<1>4. quota[s] = 0 => claim[s] = 0 \/ steady' = {}
  BY <1>2, <1>3 DEF Regains
<1>5. \A u \in Share : claim'[u] \in Nat /\ claim[u] \in Nat /\ claim'[u] <= claim[u]
  BY <1>1, <1>3
<1>6. QuotasAssigned'
  <2>1. present \cup {s} = present
    BY <1>2
  <2>2. QED
    BY <1>2, <2>1 DEF GInv, QuotasAssigned, QuotasFit
<1>7. HeadClaimGranted'
  <2> SUFFICES ASSUME head \in Share, headClaims PROVE claim'[head] <= headQuota
    BY <1>2 DEF HeadClaimGranted
  <2>1. claim[head] <= headQuota
    BY DEF GInv, HeadClaimGranted
  <2>2. QED
    BY <1>3, <1>5, <2>1
<1>8. SteadyRound'
  BY DEF SetQuota, SteadyRound, GInv
<1>9. CASE quota[s] = 0 => claim[s] = 0
  <2>1. \A u \in present : quota'[u] > 0 /\ claim'[u] > 0 => quota[u] > 0 /\ claim[u] > 0
    <3> TAKE u \in present
    <3>1. u \in Share /\ quota[u] \in Nat
      BY <1>3
    <3>2. u # s => quota'[u] = quota[u]
      BY <1>1, <3>1
    <3>3. u = s /\ claim[u] > 0 => quota[u] > 0
      BY <1>9, <3>1
    <3>4. QED
      BY <1>5, <3>1, <3>2, <3>3
  <2>2. SteadyClaim' => SteadyClaim
    BY <1>2, <1>3, <2>1 DEF SteadyClaim
  <2> DEFINE Z == {u \in {s} : quota[u] = 0}
  <2>3. /\ Z \in SUBSET present' /\ (\A u \in Z : claim'[u] = 0) /\ (\A y, z \in Z : y = z)
    BY <1>1, <1>2, <1>9
  <2>4. \A u \in (Claims' \ {head'}) \ Z : u \in Claims \ {head} /\ claim'[u] <= claim[u]
    BY <1>1, <1>2, <1>3, <1>5 DEF Claims
  <2> HIDE DEF Z
  <2>5. OthersFit'
    BY <1>2, <1>6, <2>2, <2>3, <2>4, OthersStillFit
  <2>6. QED
    BY <1>6, <1>7, <1>8, <2>5 DEF GInv
<1>10. CASE steady' = {}
  <2>1. OthersFit'
    BY <1>10 DEF OthersFit, SteadyClaim
  <2>2. QED
    BY <1>6, <1>7, <1>8, <2>1 DEF GInv
<1>11. QED
  BY <1>4, <1>9, <1>10

LEMMA StepGInv ==
  ASSUME QuotaSum <= Quota
  PROVE  CInv /\ GInv /\ [Next]_vars => GInv'
<1> SUFFICES ASSUME CInv, GInv, [Next]_vars PROVE GInv'
  OBVIOUS
<1>1. CInv'
  BY StepCInv
<1>2. LInv /\ LInv' /\ OrderInv'
  BY <1>1 DEF CInv
<1>3. ASSUME UNCHANGED <<present, quota, claim, head, headQuota, headClaims, residual, regained>>,
             steady' \subseteq steady
      PROVE  GInv'
  BY <1>3 DEF GInv, QuotasAssigned, HeadClaimGranted, OthersFit, SteadyClaim, SteadyRound, Claims
<1>4. CASE Timeout
  BY <1>3, <1>4 DEF Timeout, shareVars, headVars, roundVars
<1>5. CASE Yield
  BY <1>3, <1>5 DEF Yield, shareVars, roundVars
<1>6. CASE UNCHANGED vars
  BY <1>3, <1>6 DEF vars, shareVars, headVars, roundVars
<1>7. ASSUME NEW d \in 0 .. Quota, Update(d) PROVE GInv'
  <2>1. d \in Nat
    OBVIOUS
  <2>2. QED
    BY <1>2, <1>7, <2>1, UpdateGInv
<1>8. ASSUME NEW s \in Share, ShareStep(s) PROVE GInv'
  <2>1. Ready(s) \/ Unready(s) => GInv'
    BY <1>3 DEF Ready, Unready, headVars, roundVars
  <2>2. QED
    BY <1>2, <1>8, <2>1, InsertGInv, SetQuotaGInv, RemoveShareGInv DEF ShareStep
<1>9. QED
  BY <1>4, <1>5, <1>6, <1>7, <1>8 DEF Next

\* A share that is ready for a whole round gets its quota in the round, for any
\* number of shares and whatever quotas core assigns within the round (update,
\* _trim_consumption, _head_claimed, _next_round): what is still to be claimed
\* fits into what is left, as long as a share that was ready all the time has not
\* got all of its quota.
THEOREM QuotasGuaranteed ==
  ASSUME QuotaSum <= Quota
  PROVE  Spec => []QuotaGuaranteed
<1>1. CInv /\ GInv => QuotaGuaranteed
  BY GInvImplies DEF CInv
<1>2. CInv /\ GInv /\ [Next]_vars => GInv'
  BY StepGInv
<1>3. QED
  BY <1>1, <1>2, InitGInv, ClaimsInvariance, PTL DEF Spec

-----------------------------------------------------------------------------
(* Timer: the list of timeouts *)

\* The ends of the timeouts ascend, whoever comes first of equal ones. Sorted is
\* about all timeouts of the list, SortedBut leaves out timeout o.
Sorted(l, times) ==
  \A i, j \in 1 .. Len(l) : i < j => times[l[i]] <= times[l[j]]
SortedBut(l, times, o) ==
  \A i, j \in 1 .. Len(l) : i < j /\ l[i] # o /\ l[j] # o => times[l[i]] <= times[l[j]]

\* The loops over the list stop at a timeout.
LEMMA EarlierExists ==
  ASSUME NEW l \in Seq(Timeouts), NEW times \in [Timeouts -> Int], NEW end \in Int
  PROVE  LET n == Earlier(l, times, end) IN
         /\ n \in 0 .. Len(l)
         /\ \A m \in 1 .. n : times[l[m]] < end
         /\ n < Len(l) => times[l[n + 1]] >= end
<1> DEFINE S == {n \in 0 .. Len(l) : n < Len(l) => times[l[n + 1]] >= end}
           R == OpToRel(<, Nat)
<1>1. S \subseteq Nat /\ Len(l) \in S
  OBVIOUS
<1>2. IsWellFoundedOn(R, Nat)
  BY NatLessThanWellFounded
<1>3. \A x, y \in Nat : x < y => <<x, y>> \in R
  BY DEF OpToRel
<1> HIDE DEF R, S
<1>4. PICK x \in S : \A y \in S : ~(<<y, x>> \in R)
  BY <1>1, <1>2, WFMin
<1>5. x \in 0 .. Len(l) /\ (x < Len(l) => times[l[x + 1]] >= end)
  BY <1>4 DEF S
<1>6. \A m \in 1 .. x : times[l[m]] < end
  <2> TAKE m \in 1 .. x
  <2>1. m - 1 \in 0 .. Len(l) /\ m - 1 < Len(l) /\ m - 1 \in Nat /\ m - 1 < x /\ x \in Nat
    BY <1>5
  <2>2. m - 1 \notin S
    BY <1>3, <1>4, <2>1
  <2>3. ~(times[l[(m - 1) + 1]] >= end)
    BY <2>1, <2>2 DEF S
  <2>4. (m - 1) + 1 = m /\ m \in 1 .. Len(l)
    BY <1>5
  <2>5. times[l[m]] \in Int
    BY <2>4
  <2>6. QED
    BY <2>3, <2>4, <2>5
<1>7. QED
  BY <1>5, <1>6 DEF Earlier

\* _timeout_list.remove
LEMMA WithoutElements ==
  ASSUME NEW l \in Seq(Timeouts), Distinct(l), NEW o \in Timeouts
  PROVE  LET r == WithoutTimeout(l, o) IN
         /\ r \in Seq(Timeouts) /\ Distinct(r)
         /\ \A u : u \in ToSet(r) <=> u \in ToSet(l) /\ u # o
         /\ \A times : SortedBut(l, times, o) => Sorted(r, times)
<1> DEFINE r == WithoutTimeout(l, o)
<1>1. CASE o \notin ToSet(l)
  <2>1. r = l /\ \A i \in 1 .. Len(l) : l[i] # o
    BY <1>1 DEF WithoutTimeout, ToSet
  <2>2. QED
    BY <1>1, <2>1 DEF SortedBut, Sorted
<1>2. CASE o \in ToSet(l)
  <2> DEFINE n == CHOOSE i \in DOMAIN l : l[i] = o
  <2>1. n \in 1 .. Len(l) /\ l[n] = o
    BY <1>2 DEF ToSet
  <2>2. r = RemoveAt(l, n)
    BY <1>2 DEF WithoutTimeout
  <2>3. r \in Seq(Timeouts) /\ Distinct(r) /\ \A u : u \in ToSet(r) <=> u \in ToSet(l) /\ u # o
    BY <1>2, <2>2, RemovedElements
  <2> HIDE DEF n, r
  <2>4. /\ Len(r) = Len(l) - 1
        /\ \A j \in 1 .. Len(l) - 1 : r[j] = IF j < n THEN l[j] ELSE l[j + 1]
    BY <2>1, <2>2, RemoveAtElements
  <2>5. ASSUME NEW times, SortedBut(l, times, o)
        PROVE  Sorted(r, times)
    <3> SUFFICES ASSUME NEW i \in 1 .. Len(r), NEW j \in 1 .. Len(r), i < j
                 PROVE  times[r[i]] <= times[r[j]]
      BY DEF Sorted
    <3> DEFINE a == IF i < n THEN i ELSE i + 1
               b == IF j < n THEN j ELSE j + 1
    <3>1. a \in 1 .. Len(l) /\ b \in 1 .. Len(l) /\ a < b /\ a # n /\ b # n
      BY <2>1, <2>4
    <3>2. r[i] = l[a] /\ r[j] = l[b]
      BY <2>4
    <3> HIDE DEF a, b
    <3>3. l[a] # o /\ l[b] # o
      BY <2>1, <3>1 DEF Distinct
    <3>4. QED
      BY <2>5, <3>1, <3>2, <3>3 DEF SortedBut
  <2>6. QED
    BY <2>3, <2>5 DEF r
<1>3. QED
  BY <1>1, <1>2

\* set_timeout keeps the list in order.
LEMMA InsertedSorted ==
  ASSUME NEW l \in Seq(Timeouts), Distinct(l), NEW times \in [Timeouts -> Int], NEW o \in Timeouts,
         SortedBut(l, times, o)
  PROVE  LET r == Inserted(l, times, o) IN
         /\ r \in Seq(Timeouts) /\ Distinct(r)
         /\ \A u : u \in ToSet(r) <=> u \in ToSet(l) \/ u = o
         /\ Sorted(r, times)
<1> DEFINE q == WithoutTimeout(l, o)
           n == Earlier(q, times, times[o])
           r == InsertAt(q, n + 1, o)
<1>1. /\ q \in Seq(Timeouts) /\ Distinct(q) /\ Sorted(q, times)
      /\ \A u : u \in ToSet(q) <=> u \in ToSet(l) /\ u # o
  BY WithoutElements
<1> HIDE DEF q
<1>2. /\ n \in 0 .. Len(q)
      /\ \A m \in 1 .. n : times[q[m]] < times[o]
      /\ n < Len(q) => times[q[n + 1]] >= times[o]
  BY <1>1, EarlierExists
<1> HIDE DEF n
<1>3. o \notin ToSet(q)
  BY <1>1
<1>4. /\ r \in Seq(Timeouts) /\ Distinct(r) /\ \A u : u \in ToSet(r) <=> u \in ToSet(q) \/ u = o
      /\ Len(r) = Len(q) + 1
      /\ \A j \in 1 .. Len(q) + 1 : r[j] = IF j < n + 1 THEN q[j] ELSE IF j = n + 1 THEN o ELSE q[j - 1]
  BY <1>1, <1>2, <1>3, InsertedElements
<1> HIDE DEF r
<1>5. \A m \in 1 .. Len(q) : times[q[m]] \in Int /\ times[o] \in Int
  BY <1>1
<1>6. \A m \in n + 1 .. Len(q) : times[q[m]] >= times[o]
  <2> TAKE m \in n + 1 .. Len(q)
  <2>1. n + 1 \in 1 .. Len(q) /\ m \in 1 .. Len(q) /\ times[q[n + 1]] >= times[o]
    BY <1>2
  <2>2. times[q[n + 1]] <= times[q[m]]
    <3>1. CASE m = n + 1
      BY <1>5, <2>1, <3>1
    <3>2. CASE n + 1 < m
      BY <1>1, <2>1, <3>2 DEF Sorted
    <3>3. QED
      BY <1>2, <3>1, <3>2
  <2>3. QED
    BY <1>5, <2>1, <2>2
<1>7. Sorted(r, times)
  <2> SUFFICES ASSUME NEW i \in 1 .. Len(q) + 1, NEW j \in 1 .. Len(q) + 1, i < j
               PROVE  times[r[i]] <= times[r[j]]
    BY <1>4 DEF Sorted
  <2>1. CASE i < n + 1
    <3>1. r[i] = q[i] /\ i \in 1 .. n /\ i \in 1 .. Len(q)
      BY <1>2, <1>4, <2>1
    <3>2. CASE j < n + 1
      <4>1. r[j] = q[j] /\ j \in 1 .. Len(q)
        BY <1>2, <1>4, <3>2
      <4>2. QED
        BY <1>1, <3>1, <4>1 DEF Sorted
    <3>3. CASE j = n + 1
      <4>1. r[j] = o
        BY <1>4, <3>3
      <4>2. QED
        BY <1>2, <1>5, <3>1, <4>1
    <3>4. CASE j > n + 1
      <4>1. r[j] = q[j - 1] /\ j - 1 \in 1 .. Len(q) /\ i < j - 1
        BY <1>2, <1>4, <2>1, <3>4
      <4>2. QED
        BY <1>1, <3>1, <4>1 DEF Sorted
    <3>5. QED
      BY <1>2, <3>2, <3>3, <3>4
  <2>2. CASE i = n + 1
    <3>1. r[i] = o /\ r[j] = q[j - 1] /\ j - 1 \in n + 1 .. Len(q)
      BY <1>2, <1>4, <2>2
    <3>2. j - 1 \in 1 .. Len(q)
      BY <1>2, <3>1
    <3>3. QED
      BY <1>5, <1>6, <3>1, <3>2
  <2>3. CASE i > n + 1
    <3>1. r[i] = q[i - 1] /\ r[j] = q[j - 1] /\ i - 1 \in 1 .. Len(q) /\ j - 1 \in 1 .. Len(q)
          /\ i - 1 < j - 1
      BY <1>2, <1>4, <2>3
    <3>2. QED
      BY <1>1, <3>1 DEF Sorted
  <2>4. QED
    BY <1>2, <2>1, <2>2, <2>3
<1>8. Inserted(l, times, o) = r
  BY DEF Inserted, r, n, q
<1>9. \A u : u \in ToSet(r) <=> u \in ToSet(l) \/ u = o
  BY <1>1, <1>4
<1>10. QED
  BY <1>4, <1>7, <1>8, <1>9
-----------------------------------------------------------------------------
(* Timer: the inductive invariant *)

InRange(rests, reals) ==
  \A o \in Timeouts : \E n \in MaxTicks : rests[o] \in -MaxLate .. n /\ reals[o] \in -MaxLate .. n

\* A list with its times: a timeout is listed once, in the order of ends, and no
\* timeout ends for the timer before it ends in real time.
TimeoutsInv(l, rests, reals) ==
  /\ l \in Seq(Timeouts) /\ Distinct(l)
  /\ rests \in [Timeouts -> Int] /\ reals \in [Timeouts -> Int]
  /\ InRange(rests, reals)
  /\ Sorted(l, rests)
  /\ \A o \in ToSet(l) : reals[o] <= rests[o]

HardwareType ==
  /\ \E n \in MaxTicks : hw \in 0 .. n
  /\ decide \in BOOLEAN /\ fresh \subseteq Thread /\ freeRunning \in BOOLEAN

TimerInv == TimeoutsInv(list, rest, real) /\ HardwareType /\ NearestProgrammed

LEMMA TicksNat ==
  /\ MaxTicks \subseteq Nat /\ MaxSlice \in MaxTicks
  /\ \A us \in Durations : UsToTicks(us) \in MaxTicks
<1>1. ASSUME NEW us \in Durations
      PROVE  UsToTicks(us) \in Nat
  <2> DEFINE a == us \div UsPerMs
  <2>1. us \in Nat /\ UsPerMs \in Nat \ {0} /\ TicksPerMs \in Nat
    BY TimerAssumption
  <2>2. a \in Nat
    BY <2>1
  <2> HIDE DEF a
  <2>3. a * TicksPerMs \in Nat
    BY <2>1, <2>2
  <2>4. QED
    BY <2>3 DEF UsToTicks, a
<1>2. QED
  BY <1>1, TimerAssumption DEF MaxTicks

\* A time n ticks later
Aged(x, n) == IF x - n < -MaxLate THEN -MaxLate ELSE x - n

LEMMA AgedFacts ==
  ASSUME NEW x \in Int, NEW y \in Int, -MaxLate <= x, x <= y, NEW a \in 0 .. 1, NEW b \in 0 .. 1,
         b <= a
  PROVE  /\ Aged(x, a) \in Int /\ Aged(x, a) <= Aged(y, b)
         /\ -MaxLate <= Aged(x, a) /\ Aged(x, a) <= x
BY TimerAssumption DEF Aged

\* Time goes by. The time of the timer may stand still.
LEMMA ListAged ==
  ASSUME NEW l, NEW rests, NEW reals, TimeoutsInv(l, rests, reals), NEW a \in 0 .. 1, NEW b \in 0 .. 1,
         b <= a
  PROVE  TimeoutsInv(l, After(b, l, rests), After(a, l, reals))
<1> DEFINE r1 == After(b, l, rests)
           r2 == After(a, l, reals)
<1>1. /\ l \in Seq(Timeouts) /\ Distinct(l)
      /\ rests \in [Timeouts -> Int] /\ reals \in [Timeouts -> Int]
      /\ InRange(rests, reals) /\ Sorted(l, rests)
      /\ \A o \in ToSet(l) : reals[o] <= rests[o]
  BY DEF TimeoutsInv
<1>2. \A o \in Timeouts : /\ r1[o] = IF o \in ToSet(l) THEN Aged(rests[o], b) ELSE 0
                         /\ r2[o] = IF o \in ToSet(l) THEN Aged(reals[o], a) ELSE 0
  BY DEF After, Aged
<1>3. DOMAIN r1 = Timeouts /\ DOMAIN r2 = Timeouts
  BY DEF After
<1>4. r1 = [o \in Timeouts |-> r1[o]] /\ r2 = [o \in Timeouts |-> r2[o]]
  BY DEF After
<1> HIDE DEF r1, r2
<1>5. \A o \in Timeouts : /\ -MaxLate <= rests[o] /\ -MaxLate <= reals[o]
                         /\ rests[o] \in Int /\ reals[o] \in Int
  BY <1>1, TicksNat, TimerAssumption DEF InRange
<1>6. \A o \in Timeouts : Aged(rests[o], b) \in Int /\ Aged(reals[o], a) \in Int
  BY <1>5, TimerAssumption DEF Aged
<1>7. r1 \in [Timeouts -> Int] /\ r2 \in [Timeouts -> Int]
  <2>1. \A o \in Timeouts : r1[o] \in Int /\ r2[o] \in Int
    BY <1>2, <1>6
  <2>2. QED
    BY <1>4, <2>1
<1>8. InRange(r1, r2)
  <2> SUFFICES ASSUME NEW o \in Timeouts
               PROVE  \E n \in MaxTicks : r1[o] \in -MaxLate .. n /\ r2[o] \in -MaxLate .. n
    BY DEF InRange
  <2>1. PICK n \in MaxTicks : rests[o] \in -MaxLate .. n /\ reals[o] \in -MaxLate .. n
    BY <1>1 DEF InRange
  <2>2. n \in Nat /\ MaxLate \in Nat
    BY TicksNat, TimerAssumption
  <2>3. CASE o \in ToSet(l)
    <3>1. Aged(rests[o], b) \in -MaxLate .. n /\ Aged(reals[o], a) \in -MaxLate .. n
      BY <1>5, <2>1, <2>2 DEF Aged
    <3>2. QED
      BY <1>2, <2>3, <3>1
  <2>4. CASE o \notin ToSet(l)
    BY <1>2, <2>2, <2>4
  <2>5. QED
    BY <2>3, <2>4
<1>9. \A i \in 1 .. Len(l) : l[i] \in Timeouts /\ l[i] \in ToSet(l)
  BY <1>1 DEF ToSet
<1>10. Sorted(l, r1)
  <2> SUFFICES ASSUME NEW i \in 1 .. Len(l), NEW j \in 1 .. Len(l), i < j
               PROVE  r1[l[i]] <= r1[l[j]]
    BY DEF Sorted
  <2>1. rests[l[i]] <= rests[l[j]]
    BY <1>1 DEF Sorted
  <2>2. Aged(rests[l[i]], b) <= Aged(rests[l[j]], b)
    BY <1>5, <1>9, <2>1, AgedFacts
  <2>3. QED
    BY <1>2, <1>9, <2>2
<1>11. \A o \in ToSet(l) : r2[o] <= r1[o]
  <2> TAKE o \in ToSet(l)
  <2>1. o \in Timeouts
    BY <1>1 DEF ToSet
  <2>2. Aged(reals[o], a) <= Aged(rests[o], b)
    BY <1>1, <1>5, <2>1, AgedFacts
  <2>3. QED
    BY <1>2, <2>1, <2>2
<1>12. QED
  BY <1>1, <1>7, <1>8, <1>10, <1>11 DEF TimeoutsInv, r1, r2

\* process_timeouts takes timeouts from the front of the list.
LEMMA ListDropped ==
  ASSUME NEW l, NEW rests, NEW reals, TimeoutsInv(l, rests, reals), NEW n \in 0 .. Len(l)
  PROVE  LET r == SubSeq(l, n + 1, Len(l)) IN
         /\ TimeoutsInv(r, rests, reals)
         /\ \A o \in ToSet(l) : o \in ToSet(r) \/ \E m \in 1 .. n : l[m] = o
<1> DEFINE r == SubSeq(l, n + 1, Len(l))
<1>1. /\ l \in Seq(Timeouts) /\ Distinct(l)
      /\ rests \in [Timeouts -> Int] /\ reals \in [Timeouts -> Int]
      /\ InRange(rests, reals) /\ Sorted(l, rests)
      /\ \A o \in ToSet(l) : reals[o] <= rests[o]
  BY DEF TimeoutsInv
<1>2. r \in Seq(Timeouts) /\ Len(r) = Len(l) - n /\ \A j \in 1 .. Len(l) - n : r[j] = l[n + j]
  BY <1>1
<1>3. Distinct(r) /\ \A u \in ToSet(r) : u \in ToSet(l)
  BY <1>1, SplitElements
<1> HIDE DEF r
<1>4. Sorted(r, rests)
  <2> SUFFICES ASSUME NEW i \in 1 .. Len(l) - n, NEW j \in 1 .. Len(l) - n, i < j
               PROVE  rests[r[i]] <= rests[r[j]]
    BY <1>2 DEF Sorted
  <2>1. n + i \in 1 .. Len(l) /\ n + j \in 1 .. Len(l) /\ n + i < n + j
    BY <1>1
  <2>2. rests[l[n + i]] <= rests[l[n + j]]
    BY <1>1, <2>1 DEF Sorted
  <2>3. QED
    BY <1>2, <2>2
<1>5. ASSUME NEW o \in ToSet(l)
      PROVE  o \in ToSet(r) \/ \E m \in 1 .. n : l[m] = o
  <2>0. l \in Seq(Timeouts) /\ DOMAIN l = 1 .. Len(l)
    BY <1>1
  <2>1. PICK m \in 1 .. Len(l) : l[m] = o
    <3>1. \E m \in DOMAIN l : l[m] = o
      BY Zenon DEF ToSet
    <3>2. QED
      BY <2>0, <3>1
  <2>2. CASE m <= n
    BY <2>1, <2>2
  <2>3. CASE m > n
    <3>1. m - n \in 1 .. Len(l) - n /\ n + (m - n) = m
      BY <1>1, <2>3
    <3>2. r[m - n] = o /\ m - n \in 1 .. Len(r)
      BY <1>2, <2>1, <3>1
    <3>3. QED
      BY <1>2, <3>2 DEF ToSet
  <2>4. QED
    BY <1>1, <2>2, <2>3
<1>6. QED
  BY <1>1, <1>2, <1>3, <1>4, <1>5 DEF TimeoutsInv, r

\* set_timeout
LEMMA ListInserted ==
  ASSUME NEW l, NEW rests, NEW reals, TimeoutsInv(l, rests, reals), NEW o \in Timeouts,
         NEW v \in Nat, \E n \in MaxTicks : v <= n
  PROVE  LET r1 == [rests EXCEPT ![o] = v]
             r2 == [reals EXCEPT ![o] = v]
             r == Inserted(l, r1, o)
         IN /\ TimeoutsInv(r, r1, r2)
            /\ \A u : u \in ToSet(r) <=> u \in ToSet(l) \/ u = o
<1> DEFINE r1 == [rests EXCEPT ![o] = v]
           r2 == [reals EXCEPT ![o] = v]
           r == Inserted(l, r1, o)
<1>1. /\ l \in Seq(Timeouts) /\ Distinct(l)
      /\ rests \in [Timeouts -> Int] /\ reals \in [Timeouts -> Int]
      /\ InRange(rests, reals) /\ Sorted(l, rests)
      /\ \A u \in ToSet(l) : reals[u] <= rests[u]
  BY DEF TimeoutsInv
<1>2. v \in Nat /\ v \in Int
  OBVIOUS
<1>3. r1 \in [Timeouts -> Int] /\ r2 \in [Timeouts -> Int]
  BY <1>1, <1>2
<1>4. /\ r1[o] = v /\ r2[o] = v
      /\ \A u \in Timeouts : u # o => r1[u] = rests[u] /\ r2[u] = reals[u]
  BY <1>1
<1> HIDE DEF r1, r2
<1>5. InRange(r1, r2)
  <2> SUFFICES ASSUME NEW u \in Timeouts
               PROVE  \E n \in MaxTicks : r1[u] \in -MaxLate .. n /\ r2[u] \in -MaxLate .. n
    BY DEF InRange
  <2>1. CASE u = o
    <3>1. PICK n \in MaxTicks : v <= n
      OBVIOUS
    <3>2. v \in -MaxLate .. n
      BY <1>2, <3>1, TicksNat, TimerAssumption
    <3>3. QED
      BY <1>4, <2>1, <3>2
  <2>2. CASE u # o
    BY <1>1, <1>4, <2>2 DEF InRange
  <2>3. QED
    BY <2>1, <2>2
<1>6. SortedBut(l, r1, o)
  <2>1. \A i \in 1 .. Len(l) : l[i] \in Timeouts
    BY <1>1
  <2>2. QED
    BY <1>1, <1>4, <2>1 DEF SortedBut, Sorted
<1>7. /\ r \in Seq(Timeouts) /\ Distinct(r) /\ Sorted(r, r1)
      /\ \A u : u \in ToSet(r) <=> u \in ToSet(l) \/ u = o
  BY <1>1, <1>3, <1>6, InsertedSorted
<1> HIDE DEF r
<1>8. \A u \in ToSet(r) : r2[u] <= r1[u]
  <2> TAKE u \in ToSet(r)
  <2>1. u = o \/ (u \in ToSet(l) /\ u \in Timeouts)
    <3>1. u = o \/ u \in ToSet(l)
      BY <1>7
    <3>2. \A x \in ToSet(l) : x \in Timeouts
      BY <1>1 DEF ToSet
    <3>3. QED
      BY <3>1, <3>2
  <2>2. QED
    BY <1>1, <1>2, <1>4, <2>1
<1>9. QED
  BY <1>3, <1>5, <1>7, <1>8 DEF TimeoutsInv, r, r1, r2
-----------------------------------------------------------------------------
(* Timer: the steps *)

\* The hardware timer is started for the nearest timeout, or for the next tick.
LEMMA OneShotNearest ==
  ASSUME NEW l, NEW rests, NEW reals, TimeoutsInv(l, rests, reals), Cpu \in ToSet(l)
  PROVE  LET h == OneShot(l, rests) IN
         /\ \E n \in MaxTicks : h \in 0 .. n
         /\ \A o \in ToSet(l) : h <= rests[o] \/ h <= 1
<1> DEFINE h == OneShot(l, rests)
           x == rests[l[1]]
<1>1. /\ l \in Seq(Timeouts) /\ rests \in [Timeouts -> Int]
      /\ InRange(rests, reals) /\ Sorted(l, rests)
  BY DEF TimeoutsInv
<1>2. 1 \in 1 .. Len(l)
  <2>1. PICK i \in 1 .. Len(l) : l[i] = Cpu
    BY <1>1 DEF ToSet
  <2>2. QED
    BY <1>1, <2>1
<1>3. l[1] \in Timeouts /\ x \in Int /\ Head(l) = l[1]
  BY <1>1, <1>2
<1>4. h = IF x > 0 THEN x ELSE 1
  BY <1>3 DEF OneShot
<1>5. \E n \in MaxTicks : x \in -MaxLate .. n
  BY <1>1, <1>3 DEF InRange
<1>6. \A o \in ToSet(l) : rests[o] \in Int /\ x <= rests[o]
  <2> TAKE o \in ToSet(l)
  <2>1. PICK i \in 1 .. Len(l) : l[i] = o
    BY <1>1 DEF ToSet
  <2>2. rests[l[i]] \in Int
    BY <1>1
  <2>3. CASE i = 1
    BY <1>3, <2>1, <2>2, <2>3
  <2>4. CASE 1 < i
    BY <1>1, <1>2, <2>1, <2>2, <2>4 DEF Sorted
  <2>5. QED
    BY <1>1, <2>3, <2>4
<1> HIDE DEF h, x
<1>7. \E n \in MaxTicks : h \in 0 .. n
  <2>1. CASE x > 0
    <3>1. PICK n \in MaxTicks : x \in -MaxLate .. n
      BY <1>5
    <3>2. h \in 0 .. n
      BY <1>3, <1>4, <2>1, <3>1, TicksNat, TimerAssumption
    <3>3. QED
      BY <3>2
  <2>2. CASE ~(x > 0)
    <3>1. h \in 0 .. MaxSlice
      BY <1>4, <2>2, TimerAssumption
    <3>2. QED
      BY <3>1, TicksNat
  <2>3. QED
    BY <2>1, <2>2
<1>8. \A o \in ToSet(l) : h <= rests[o] \/ h <= 1
  BY <1>3, <1>4, <1>6
<1>9. QED
  BY <1>7, <1>8 DEF h

\* A scheduling decision: it restores the invariant, and the timeouts that it takes
\* from the list are over in real time.
LEMMA DecideInv ==
  ASSUME NEW l, NEW rests, NEW reals, TimeoutsInv(l, rests, reals), freeRunning \in BOOLEAN,
         Decide(l, rests, reals)
  PROVE  TimerInv' /\ \A o \in ToSet(l) : o \in ToSet(list') \/ reals[o] <= 0
<1> DEFINE d == Due(l, rests)
           left == SubSeq(l, d + 1, Len(l))
<1>1. /\ l \in Seq(Timeouts) /\ rests \in [Timeouts -> Int] /\ reals \in [Timeouts -> Int]
      /\ \A o \in ToSet(l) : reals[o] <= rests[o]
  BY DEF TimeoutsInv
<1>2. d \in 0 .. Len(l) /\ \A m \in 1 .. d : rests[l[m]] < 1
  <2>1. 1 \in Int
    OBVIOUS
  <2>2. QED
    BY <1>1, <2>1, EarlierExists DEF Due
<1>3. /\ decide' = FALSE /\ fresh' = {} /\ freeRunning' = freeRunning
      /\ \E slice \in 1 .. MaxSlice, late \in 0 .. 1 :
           LET rest1 == [After(late, left, rests) EXCEPT ![Cpu] = slice]
               list1 == Inserted(left, rest1, Cpu)
           IN  /\ rest' = rest1
               /\ real' = [After(late, left, reals) EXCEPT ![Cpu] = slice]
               /\ list' = list1
               /\ hw' = OneShot(list1, rest1)
  BY DEF Decide
<1> HIDE DEF d
<1>4. /\ TimeoutsInv(left, rests, reals)
      /\ \A o \in ToSet(l) : o \in ToSet(left) \/ \E m \in 1 .. d : l[m] = o
  BY <1>2, ListDropped
<1> HIDE DEF left
<1>5. PICK slice \in 1 .. MaxSlice, late \in 0 .. 1 :
        /\ rest' = [After(late, left, rests) EXCEPT ![Cpu] = slice]
        /\ real' = [After(late, left, reals) EXCEPT ![Cpu] = slice]
        /\ list' = Inserted(left, rest', Cpu)
        /\ hw' = OneShot(list', rest')
  BY <1>3
<1> DEFINE aged1 == After(late, left, rests)
           aged2 == After(late, left, reals)
<1>6. TimeoutsInv(left, aged1, aged2)
  BY <1>4, ListAged
<1> HIDE DEF aged1, aged2
<1>7. Cpu \in Timeouts /\ slice \in Nat /\ \E n \in MaxTicks : slice <= n
  BY TicksNat, TimerAssumption DEF Timeouts
<1>8. /\ rest' = [aged1 EXCEPT ![Cpu] = slice] /\ real' = [aged2 EXCEPT ![Cpu] = slice]
      /\ list' = Inserted(left, [aged1 EXCEPT ![Cpu] = slice], Cpu)
  BY <1>5 DEF aged1, aged2
<1>9. /\ TimeoutsInv(list', rest', real')
      /\ \A u : u \in ToSet(list') <=> u \in ToSet(left) \/ u = Cpu
  BY <1>6, <1>7, <1>8, ListInserted
<1>10. /\ \E n \in MaxTicks : hw' \in 0 .. n
       /\ \A o \in ToSet(list') : hw' <= rest'[o] \/ hw' <= 1
  BY <1>5, <1>9, OneShotNearest
<1>11. HardwareType' /\ NearestProgrammed'
  BY <1>3, <1>10 DEF HardwareType, NearestProgrammed, Listed
<1>12. ASSUME NEW o \in ToSet(l)
       PROVE  o \in ToSet(list') \/ reals[o] <= 0
  <2>1. CASE o \in ToSet(left)
    BY <1>9, <2>1
  <2>2. CASE \E m \in 1 .. d : l[m] = o
    <3>1. o \in Timeouts
      BY <1>1 DEF ToSet
    <3>2. rests[o] < 1 /\ reals[o] <= rests[o] /\ rests[o] \in Int /\ reals[o] \in Int
      BY <1>1, <1>2, <2>2, <3>1
    <3>3. QED
      BY <3>2
  <2>3. QED
    BY <1>4, <2>1, <2>2
<1>13. QED
  BY <1>9, <1>11, <1>12 DEF TimerInv

\* A thread installs a timeout, _call_timeout.
LEMMA SetTimeoutInv ==
  ASSUME TimerInv, NEW t \in Thread, NEW us \in Durations, SetTimeout(t, us)
  PROVE  TimerInv' /\ \A o \in Listed \ {t} : o \in ToSet(list') \/ real[o] <= 0
<1> DEFINE v == UsToTicks(us)
           rests == [rest EXCEPT ![t] = v]
           reals == [real EXCEPT ![t] = v]
           l == Inserted(list, rests, t)
<1>1. /\ TimeoutsInv(list, rest, real) /\ HardwareType /\ NearestProgrammed
      /\ list \in Seq(Timeouts) /\ rest \in [Timeouts -> Int] /\ real \in [Timeouts -> Int]
  BY DEF TimerInv, TimeoutsInv
<1>2. t \in Timeouts /\ v \in Nat /\ \E n \in MaxTicks : v <= n
  <2>1. v \in MaxTicks /\ v \in Nat
    BY TicksNat
  <2> HIDE DEF v
  <2>2. QED
    BY <2>1 DEF Timeouts
<1>3. IF decide THEN Decide(l, rests, reals)
      ELSE /\ fresh' = fresh \cup {t} /\ rest' = rests /\ real' = reals /\ list' = l
           /\ hw' = hw /\ decide' = decide /\ freeRunning' = freeRunning
  BY DEF SetTimeout
<1> HIDE DEF v
<1>4. TimeoutsInv(l, rests, reals) /\ \A u : u \in ToSet(l) <=> u \in ToSet(list) \/ u = t
  BY <1>1, <1>2, ListInserted
<1>5. /\ \A o \in ToSet(list) : o \in Timeouts
      /\ \A o \in Timeouts \ {t} : rests[o] = rest[o] /\ reals[o] = real[o]
  BY <1>1 DEF ToSet
<1> HIDE DEF rests, reals, l
<1>6. CASE decide
  <2>1. TimerInv' /\ \A o \in ToSet(l) : o \in ToSet(list') \/ reals[o] <= 0
    BY <1>1, <1>3, <1>4, <1>6, DecideInv DEF HardwareType
  <2>2. QED
    BY <1>4, <1>5, <2>1 DEF Listed
<1>7. CASE ~decide
  <2>1. /\ fresh' = fresh \cup {t} /\ rest' = rests /\ real' = reals /\ list' = l
        /\ hw' = hw /\ decide' = decide /\ freeRunning' = freeRunning
    BY <1>3, <1>7
  <2>2. HardwareType'
    BY <1>1, <2>1 DEF HardwareType
  <2>3. NearestProgrammed'
    <3> SUFFICES ASSUME NEW o \in ToSet(l), o \notin fresh \cup {t}
                 PROVE  hw <= rests[o] \/ hw <= 1
      BY <2>1 DEF NearestProgrammed, Listed
    <3>1. o \in ToSet(list) \ fresh /\ rests[o] = rest[o]
      BY <1>4, <1>5
    <3>2. QED
      BY <1>1, <3>1 DEF NearestProgrammed, Listed
  <2>4. TimeoutsInv(list', rest', real')
    BY <1>4, <2>1
  <2>5. \A o \in Listed \ {t} : o \in ToSet(list')
    BY <1>4, <2>1 DEF Listed
  <2>6. QED
    BY <2>2, <2>3, <2>4, <2>5 DEF TimerInv
<1>8. QED
  BY <1>6, <1>7

\* A tick of the clock
LEMMA TickInv ==
  ASSUME TimerInv, Tick
  PROVE  TimerInv'
<1>1. /\ TimeoutsInv(list, rest, real) /\ HardwareType /\ NearestProgrammed
      /\ list \in Seq(Timeouts) /\ rest \in [Timeouts -> Int]
  BY DEF TimerInv, TimeoutsInv
<1>2. /\ hw' = IF hw > 0 THEN hw - 1 ELSE 0
      /\ rest' = IF hw > 0 \/ freeRunning THEN After(1, list, rest) ELSE rest
      /\ real' = After(1, list, real)
      /\ list' = list /\ decide' = decide /\ fresh' = fresh /\ freeRunning' = freeRunning
  BY DEF Tick
<1>3. PICK n \in MaxTicks : hw \in 0 .. n
  BY <1>1 DEF HardwareType
<1>4. n \in Nat /\ hw \in Nat /\ hw' \in 0 .. n
  BY <1>2, <1>3, TicksNat
<1>5. HardwareType'
  BY <1>1, <1>2, <1>4 DEF HardwareType
<1>6. TimeoutsInv(list, rest', real')
  <2>1. CASE hw > 0 \/ freeRunning
    BY <1>1, <1>2, <2>1, ListAged
  <2>2. CASE ~(hw > 0 \/ freeRunning)
    <3> DEFINE aged == After(1, list, real)
    <3>1. rest' = rest /\ real' = aged
      BY <1>2, <2>2
    <3>2. /\ Distinct(list) /\ real \in [Timeouts -> Int] /\ Sorted(list, rest) /\ InRange(rest, real)
          /\ \A o \in ToSet(list) : real[o] <= rest[o]
      BY <1>1 DEF TimeoutsInv
    <3>3. TimeoutsInv(list, After(1, list, rest), aged)
      BY <1>1, ListAged
    <3>4. aged \in [Timeouts -> Int]
      BY <3>3 DEF TimeoutsInv
    <3>5. \A o \in Timeouts : aged[o] = IF o \in ToSet(list) THEN Aged(real[o], 1) ELSE 0
      BY DEF After, Aged
    <3> HIDE DEF aged
    <3>6. ASSUME NEW o \in Timeouts
          PROVE  /\ o \in ToSet(list) => aged[o] <= rest[o]
                 /\ \E m \in MaxTicks : rest[o] \in -MaxLate .. m /\ aged[o] \in -MaxLate .. m
      <4>1. PICK m \in MaxTicks : rest[o] \in -MaxLate .. m /\ real[o] \in -MaxLate .. m
        BY <3>2 DEF InRange
      <4>2. m \in Nat /\ MaxLate \in Nat
        BY TicksNat, TimerAssumption
      <4>3. Aged(real[o], 1) \in -MaxLate .. m /\ Aged(real[o], 1) <= real[o]
        BY <4>1, <4>2 DEF Aged
      <4>4. aged[o] \in -MaxLate .. m
        BY <3>5, <4>2, <4>3
      <4>5. o \in ToSet(list) => aged[o] <= rest[o]
        BY <3>2, <3>5, <4>1, <4>2, <4>3
      <4>6. QED
        BY <4>1, <4>4, <4>5
    <3>7. \A o \in ToSet(list) : o \in Timeouts
      BY <1>1 DEF ToSet
    <3>8. TimeoutsInv(list, rest, aged)
      BY <1>1, <3>2, <3>4, <3>6, <3>7 DEF TimeoutsInv, InRange
    <3>9. QED
      BY <3>1, <3>8
  <2>3. QED
    BY <2>1, <2>2
<1>7. NearestProgrammed'
  <2> SUFFICES ASSUME NEW o \in ToSet(list), o \notin fresh
               PROVE  hw' <= rest'[o] \/ hw' <= 1
    BY <1>2 DEF NearestProgrammed, Listed
  <2>1. o \in Timeouts /\ rest[o] \in Int /\ (hw <= rest[o] \/ hw <= 1)
    <3>1. o \in Timeouts
      BY <1>1 DEF ToSet
    <3>2. QED
      BY <1>1, <3>1 DEF NearestProgrammed, Listed
  <2>2. CASE hw <= 1
    BY <1>2, <1>4, <2>2
  <2>3. CASE hw > 1 /\ hw <= rest[o]
    <3>1. rest'[o] = Aged(rest[o], 1)
      <4>1. rest' = After(1, list, rest)
        BY <1>2, <1>4, <2>3
      <4>2. QED
        BY <2>1, <4>1 DEF After, Aged
    <3>2. Aged(rest[o], 1) = rest[o] - 1
      BY <1>4, <2>1, <2>3, TimerAssumption DEF Aged
    <3>3. QED
      BY <1>2, <1>4, <2>1, <2>3, <3>1, <3>2
  <2>4. QED
    BY <1>4, <2>1, <2>2, <2>3
<1>8. QED
  BY <1>2, <1>5, <1>6, <1>7 DEF TimerInv

LEMMA InitInv == TimerInit => TimerInv
<1> SUFFICES ASSUME TimerInit
             PROVE  TimerInv
  OBVIOUS
<1>1. /\ list = <<>> /\ Len(list) = 0 /\ list \in Seq(Timeouts) /\ ToSet(list) = {}
      /\ rest \in [Timeouts -> Int] /\ real \in [Timeouts -> Int]
      /\ \A o \in Timeouts : rest[o] = 0 /\ real[o] = 0
  BY DEF TimerInit, ToSet
<1>2. Distinct(list) /\ Sorted(list, rest)
  BY <1>1 DEF Distinct, Sorted
<1>3. InRange(rest, real)
  BY <1>1, TicksNat, TimerAssumption DEF InRange
<1>4. HardwareType
  <2>1. hw \in 0 .. MaxSlice
    BY TimerAssumption DEF TimerInit
  <2>2. QED
    BY <2>1, TicksNat DEF HardwareType, TimerInit
<1>5. QED
  BY <1>1, <1>2, <1>3, <1>4 DEF TimerInv, TimeoutsInv, NearestProgrammed, Listed

\* Every step keeps the invariant, and only takes timeouts from the list that are
\* over or that are installed anew.
LEMMA NextInv ==
  ASSUME TimerInv, [TimerNext]_timerVars
  PROVE  /\ TimerInv'
         /\ \A o \in Listed : \/ o \in ToSet(list') \/ real[o] <= 0
                              \/ \E us \in Durations : o \in Thread /\ SetTimeout(o, us)
<1>1. /\ TimeoutsInv(list, rest, real) /\ freeRunning \in BOOLEAN
      /\ HardwareType /\ NearestProgrammed
  BY DEF TimerInv, HardwareType
<1>2. CASE Tick
  <2>1. list' = list
    BY <1>2 DEF Tick
  <2>2. QED
    BY <1>2, <2>1, TickInv DEF Listed
<1>3. CASE Interrupt \/ OtherPass
  <2>1. Decide(list, rest, real)
    BY <1>3 DEF Interrupt, OtherPass
  <2>2. QED
    BY <1>1, <2>1, DecideInv DEF Listed
<1>4. CASE RemoteReady
  BY <1>1, <1>4 DEF RemoteReady, TimerInv, TimeoutsInv, HardwareType, NearestProgrammed, Listed
<1>5. CASE \E t \in Thread, us \in Durations : SetTimeout(t, us)
  <2>1. PICK t \in Thread, us \in Durations : SetTimeout(t, us)
    BY <1>5
  <2>2. TimerInv' /\ \A o \in Listed \ {t} : o \in ToSet(list') \/ real[o] <= 0
    BY <2>1, SetTimeoutInv
  <2>3. QED
    BY <2>1, <2>2
<1>6. CASE UNCHANGED timerVars
  BY <1>1, <1>6 DEF timerVars, TimerInv, TimeoutsInv, HardwareType, NearestProgrammed, Listed
<1>7. QED
  BY <1>2, <1>3, <1>4, <1>5, <1>6 DEF TimerNext

-----------------------------------------------------------------------------
(* Timer: theorems *)

\* In every reachable state the list of timeouts is in the order of their ends, no
\* timeout ends for the timer before it does in real time, and the hardware timer
\* fires at the nearest timeout or earlier (timer.cc:39-100).
THEOREM TimerInvariance == TimerSpec => []TimerInv
<1>1. TimerInit => TimerInv
  BY InitInv
<1>2. TimerInv /\ [TimerNext]_timerVars => TimerInv'
  BY NextInv
<1>3. QED
  BY <1>1, <1>2, PTL DEF TimerSpec

\* A timeout is listed once, all times stay within their bounds, and the hardware
\* timer fires at the nearest timeout or earlier, except for the timeouts installed
\* since it was started (schedule_timeout, timer.cc:66-79).
THEOREM TimerStaysConsistent == TimerSpec => []TimerConsistent
<1>1. TimerInv => TimerConsistent
  <2> SUFFICES ASSUME TimerInv
               PROVE  TimerConsistent
    OBVIOUS
  <2>1. TimeoutsInv(list, rest, real) /\ HardwareType /\ NearestProgrammed
    BY DEF TimerInv
  <2>2. IsInjective(list)
    BY <2>1 DEF TimeoutsInv, Distinct, IsInjective
  <2>3. QED
    BY <2>1, <2>2 DEF TimerConsistent, TimerTypeOK, TimeoutsInv, InRange, HardwareType
<1>2. QED
  BY <1>1, TimerInvariance, PTL

\* No timeout leaves the list before its duration has gone by in real time, whatever
\* the others do and however long the interrupt of the timer waits, unless its thread
\* installs it anew (process_timeouts, timer.cc:82-100).
THEOREM TimeoutsNotEarly == TimerSpec => NeverEarly
<1> DEFINE Step == \A t \in Thread :
             t \in Listed /\ t \notin ToSet(list') =>
               real[t] <= 0 \/ \E us \in Durations : SetTimeout(t, us)
<1>1. TimerInv /\ [TimerNext]_timerVars => [Step]_timerVars
  BY NextInv
<1>2. QED
  BY <1>1, TimerInvariance, PTL DEF TimerSpec, NeverEarly

=============================================================================
