---------------------------- MODULE SumTheorems ----------------------------
(***************************************************************************)
(* Sums over finite sets, which the folds of the community modules take    *)
(* one element after another.  A fold is a recursive function, and what is *)
(* said of it here is proved by the least size of a set for which it would *)
(* be false.                                                               *)
(***************************************************************************)
EXTENDS Integers, FiniteSets, Functions, FiniteSetTheorems, WellFoundedInduction, TLAPS

\* A set of naturals that is not empty has a least element.
LEMMA LeastNumber ==
    ASSUME NEW T, T \subseteq Nat, T # {}
    PROVE  \E x \in T : \A y \in T : x <= y
<1> DEFINE R == OpToRel(<, Nat)
<1>1. \A x, y \in Nat : y < x => <<y, x>> \in R
  BY DEF OpToRel
<1>2. \E x \in T : \A y \in T : ~ (<<y, x>> \in R)
  BY NatLessThanWellFounded, WFMin
<1> HIDE DEF R
<1>3. PICK x \in T : \A y \in T : ~ (<<y, x>> \in R)
  BY <1>2
<1>4. SUFFICES ASSUME NEW y \in T PROVE x <= y
  BY <1>3
<1>5. x \in Nat /\ y \in Nat
  OBVIOUS
<1>6. y < x => <<y, x>> \in R
  BY <1>1, <1>5
<1> QED BY <1>3, <1>4, <1>5, <1>6

\* Taking out the element that is chosen leaves a smaller set.
LEMMA Smaller ==
    ASSUME NEW S, IsFiniteSet(S), NEW s \in SUBSET S, s # {}
    PROVE  LET y == CHOOSE z \in s : TRUE
           IN  /\ y \in s /\ s \ {y} \in SUBSET S
               /\ Cardinality(s) \in Nat /\ Cardinality(s \ {y}) = Cardinality(s) - 1
<1> DEFINE y == CHOOSE z \in s : TRUE
<1>1. y \in s
  OBVIOUS
<1>2. IsFiniteSet(s)
  BY FS_Subset
<1>3. Cardinality(s \ {y}) = Cardinality(s) - 1
  BY <1>1, <1>2, FS_RemoveElement
<1>4. Cardinality(s) \in Nat
  BY <1>2, FS_CardinalityType
<1> QED BY <1>1, <1>3, <1>4

\* The subsets of S of at most n elements.
UpTo(n, S) == {s \in SUBSET S : Cardinality(s) <= n}

\* g adds f up over each set of D: the equation that SumFunctionOnSet solves.
AddsUp(g, f, D) ==
    \A s \in D : g[s] = IF s = {} THEN 0
                        ELSE LET y == CHOOSE z \in s : TRUE IN f[y] + g[s \ {y}]

\* What adds up over the sets of n elements extends to those of one more.
LEMMA OneMore ==
    ASSUME NEW S, IsFiniteSet(S), NEW f \in [S -> Int], NEW n \in Nat,
           NEW g \in [UpTo(n, S) -> Int], AddsUp(g, f, UpTo(n, S))
    PROVE  \E h \in [UpTo(n + 1, S) -> Int] : AddsUp(h, f, UpTo(n + 1, S))
<1> DEFINE h == [s \in UpTo(n + 1, S) |->
                    IF s = {} THEN 0 ELSE LET y == CHOOSE z \in s : TRUE IN f[y] + g[s \ {y}]]
<1>1. ASSUME NEW s \in UpTo(n + 1, S), s # {}
      PROVE  LET y == CHOOSE z \in s : TRUE
             IN  y \in S /\ s \ {y} \in UpTo(n, S) /\ s \ {y} \in UpTo(n + 1, S)
  <2> DEFINE y == CHOOSE z \in s : TRUE
  <2>1. s \in SUBSET S /\ Cardinality(s) <= n + 1
    BY DEF UpTo
  <2>2. /\ y \in s /\ s \ {y} \in SUBSET S
        /\ Cardinality(s) \in Nat /\ Cardinality(s \ {y}) = Cardinality(s) - 1
    BY <1>1, <2>1, Smaller
  <2> HIDE DEF y
  <2>3. Cardinality(s \ {y}) <= n /\ Cardinality(s \ {y}) <= n + 1
    BY <2>1, <2>2
  <2>4. y \in S /\ s \ {y} \in UpTo(n, S) /\ s \ {y} \in UpTo(n + 1, S)
    BY <2>1, <2>2, <2>3 DEF UpTo
  <2> QED BY <2>4 DEF y
<1>2. \A s \in UpTo(n, S) : h[s] = g[s]
  <2> SUFFICES ASSUME NEW s \in UpTo(n, S) PROVE h[s] = g[s]
    OBVIOUS
  <2>1. s \in SUBSET S /\ Cardinality(s) \in Nat /\ Cardinality(s) <= n
    BY FS_Subset, FS_CardinalityType DEF UpTo
  <2>2. s \in UpTo(n + 1, S)
    BY <2>1 DEF UpTo
  <2> QED BY <2>2 DEF AddsUp
<1>3. h \in [UpTo(n + 1, S) -> Int]
  <2> SUFFICES ASSUME NEW s \in UpTo(n + 1, S)
               PROVE  (IF s = {} THEN 0
                       ELSE LET y == CHOOSE z \in s : TRUE IN f[y] + g[s \ {y}]) \in Int
    OBVIOUS
  <2>1. CASE s = {}
    BY <2>1
  <2>2. CASE s # {}
    <3> DEFINE y == CHOOSE z \in s : TRUE
    <3>1. y \in S /\ s \ {y} \in UpTo(n, S)
      BY <1>1, <2>2
    <3> HIDE DEF y
    <3>2. f[y] \in Int /\ g[s \ {y}] \in Int
      BY <3>1 DEF AddsUp
    <3>3. f[y] + g[s \ {y}] \in Int
      BY <3>2
    <3> QED BY <2>2, <3>3 DEF y
  <2> QED BY <2>1, <2>2
<1>4. ASSUME NEW s \in UpTo(n + 1, S)
      PROVE  h[s] = IF s = {} THEN 0 ELSE LET y == CHOOSE z \in s : TRUE IN f[y] + h[s \ {y}]
  <2>1. CASE s = {}
    BY <2>1
  <2>2. CASE s # {}
    <3> DEFINE y == CHOOSE z \in s : TRUE
    <3>1. h[s \ {y}] = g[s \ {y}]
      <4>1. s \ {y} \in UpTo(n, S)
        BY <1>1, <2>2
      <4> HIDE DEF y, h
      <4> QED BY <4>1, <1>2
    <3>2. h[s] = f[y] + g[s \ {y}]
      BY <2>2
    <3> HIDE DEF h
    <3> QED BY <2>2, <3>1, <3>2
  <2> QED BY <2>1, <2>2
<1> HIDE DEF h
<1>5. AddsUp(h, f, UpTo(n + 1, S))
  BY <1>4 DEF AddsUp
<1> QED BY <1>3, <1>5

\* Something adds up a function on a finite set, by induction on the size of its subsets.
LEMMA SomethingAddsUp ==
    ASSUME NEW S, IsFiniteSet(S), NEW f \in [S -> Int]
    PROVE  \E g \in [SUBSET S -> Int] : AddsUp(g, f, SUBSET S)
<1> DEFINE T == {n \in Nat : ~ \E g \in [UpTo(n, S) -> Int] : AddsUp(g, f, UpTo(n, S))}
<1>1. 0 \notin T
  <2> DEFINE g == [s \in UpTo(0, S) |-> 0]
  <2>1. \A s \in UpTo(0, S) : s = {}
    BY FS_Subset, FS_EmptySet, FS_CardinalityType DEF UpTo
  <2>2. g \in [UpTo(0, S) -> Int] /\ AddsUp(g, f, UpTo(0, S))
    BY <2>1 DEF AddsUp
  <2> HIDE DEF g
  <2> QED BY <2>2
<1>2. ASSUME NEW m \in T, \A x \in T : m <= x PROVE FALSE
  <2>1. m \in Nat /\ m # 0
    BY <1>1
  <2>2. m - 1 \in Nat /\ ~(m <= m - 1) /\ m = (m - 1) + 1
    BY <2>1
  <2>3. m - 1 \notin T
    BY <1>2, <2>2
  <2>4. PICK g \in [UpTo(m - 1, S) -> Int] : AddsUp(g, f, UpTo(m - 1, S))
    BY <2>2, <2>3
  <2>5. \E h \in [UpTo(m, S) -> Int] : AddsUp(h, f, UpTo(m, S))
    <3>1. \E h \in [UpTo((m - 1) + 1, S) -> Int] :
             AddsUp(h, f, UpTo((m - 1) + 1, S))
      BY <2>2, <2>4, OneMore
    <3> QED BY <3>1, <2>2
  <2> QED BY <2>5
<1>3. T = {}
  <2>1. T \subseteq Nat
    OBVIOUS
  <2> HIDE DEF T
  <2> QED BY <1>2, <2>1, LeastNumber
<1>4. UpTo(Cardinality(S), S) = SUBSET S
  BY FS_Subset DEF UpTo
<1>5. Cardinality(S) \in Nat /\ Cardinality(S) \notin T
  BY <1>3, FS_CardinalityType
<1> QED BY <1>4, <1>5

\* Two functions that are equal on a set have one sum on it, whatever adds them up.
LEMMA OneSum ==
    ASSUME NEW S, IsFiniteSet(S), NEW f, NEW e, NEW g, NEW h, NEW R \in SUBSET S,
           \A x \in R : f[x] = e[x],
           AddsUp(g, f, SUBSET R), AddsUp(h, e, SUBSET R)
    PROVE  g[R] = h[R]
<1> DEFINE T == {n \in Nat : \E s \in SUBSET R : Cardinality(s) = n /\ g[s] # h[s]}
<1>1. ASSUME NEW m \in T, \A x \in T : m <= x PROVE FALSE
  <2>1. PICK s \in SUBSET R : Cardinality(s) = m /\ g[s] # h[s] /\ m \in Nat
    OBVIOUS
  <2>2. s # {}
    BY <2>1 DEF AddsUp
  <2> DEFINE y == CHOOSE z \in s : TRUE
  <2>3. /\ y \in s /\ s \ {y} \in SUBSET S
        /\ Cardinality(s) \in Nat /\ Cardinality(s \ {y}) = Cardinality(s) - 1
    BY <2>1, <2>2, Smaller
  <2>4. g[s] = f[y] + g[s \ {y}] /\ h[s] = e[y] + h[s \ {y}]
    BY <2>1, <2>2 DEF AddsUp
  <2> HIDE DEF y
  <2>5. m - 1 \in Nat /\ m - 1 \notin T
    <3>1. m \in Nat /\ m # 0
      <4>1. IsFiniteSet(s \ {y}) /\ Cardinality(s \ {y}) \in Nat
        BY <2>3, FS_Subset, FS_CardinalityType
      <4> QED BY <4>1, <2>1, <2>3
    <3>2. m - 1 \in Nat /\ ~(m <= m - 1)
      BY <3>1
    <3> QED BY <3>2, <1>1
  <2>6. g[s \ {y}] = h[s \ {y}]
    BY <2>1, <2>3, <2>5
  <2> QED BY <2>1, <2>3, <2>4, <2>6
<1>2. T = {}
  <2>1. T \subseteq Nat
    OBVIOUS
  <2> HIDE DEF T
  <2> QED BY <1>1, <2>1, LeastNumber
<1>3. Cardinality(R) \in Nat
  BY FS_Subset, FS_CardinalityType
<1> QED BY <1>2, <1>3

\* What adds a function up over a finite set is its sum.
LEMMA SumIs ==
    ASSUME NEW S, IsFiniteSet(S), NEW f, NEW g, AddsUp(g, f, SUBSET S)
    PROVE  SumFunctionOnSet(f, S) = g[S]
<1> DEFINE F(x) == [s \in SUBSET S |-> IF s = {} THEN 0
                                       ELSE LET y == CHOOSE z \in s : TRUE IN f[y] + x[s \ {y}]]
           c == CHOOSE x : x = F(x)
           h == [s \in SUBSET S |-> g[s]]
<1>1. h = F(h)
  <2>1. ASSUME NEW s \in SUBSET S
        PROVE  h[s] = IF s = {} THEN 0 ELSE LET y == CHOOSE z \in s : TRUE IN f[y] + h[s \ {y}]
    BY DEF AddsUp
  <2> QED BY <2>1
<1>2. c = F(c)
  BY <1>1
<1>3. SumFunctionOnSet(f, S) = c[S]
  BY DEF SumFunctionOnSet, FoldFunctionOnSet, MapThenFoldSet
<1>4. AddsUp(c, f, SUBSET S)
  <2> HIDE DEF c
  <2> SUFFICES ASSUME NEW s \in SUBSET S
               PROVE  c[s] = IF s = {} THEN 0
                             ELSE LET y == CHOOSE z \in s : TRUE IN f[y] + c[s \ {y}]
    BY DEF AddsUp
  <2>1. c[s] = F(c)[s]
    <3> HIDE DEF F
    <3> QED BY <1>2
  <2> QED BY <2>1
<1> HIDE DEF c
<1>5. c[S] = g[S]
  BY <1>4, OneSum
<1> QED BY <1>3, <1>5

\* Every sum of integers over a finite set is got so.
LEMMA SumsAddUp ==
    ASSUME NEW S, IsFiniteSet(S), NEW f \in [S -> Int]
    PROVE  \E c \in [SUBSET S -> Int] : SumFunction(f) = c[S] /\ AddsUp(c, f, SUBSET S)
<1>1. PICK g \in [SUBSET S -> Int] : AddsUp(g, f, SUBSET S)
  BY SomethingAddsUp
<1>2. SumFunction(f) = g[S]
  BY <1>1, SumIs DEF SumFunction
<1> QED BY <1>1, <1>2

\* Any element may be taken out first.
InAnyOrder(c, f, S) == \A r \in SUBSET S : \A v \in r : c[r] = f[v] + c[r \ {v}]

\* What is taken out of a sum is what it becomes smaller by, whatever is taken out first.
LEMMA AnyOrder ==
    ASSUME NEW S, IsFiniteSet(S), NEW f \in [S -> Int], NEW c \in [SUBSET S -> Int],
           AddsUp(c, f, SUBSET S)
    PROVE  InAnyOrder(c, f, S)
<1> DEFINE T == {n \in Nat : \E s \in SUBSET S : \E x \in s :
                                  Cardinality(s) = n /\ c[s] # f[x] + c[s \ {x}]}
<1>1. ASSUME NEW m \in T, \A n \in T : m <= n PROVE FALSE
  <2>1. PICK s \in SUBSET S : \E x \in s : Cardinality(s) = m /\ c[s] # f[x] + c[s \ {x}]
    OBVIOUS
  <2>2. PICK x \in s : Cardinality(s) = m /\ c[s] # f[x] + c[s \ {x}]
    BY <2>1
  <2> DEFINE y == CHOOSE z \in s : TRUE
  <2>3. /\ y \in s /\ s \ {y} \in SUBSET S
        /\ Cardinality(s) \in Nat /\ Cardinality(s \ {y}) = Cardinality(s) - 1
    BY Smaller
  <2>4. c[s] = f[y] + c[s \ {y}]
    BY DEF AddsUp
  <2> HIDE DEF y
  <2>5. y # x
    BY <2>2, <2>4
  <2>6. /\ Cardinality(s \ {x}) = Cardinality(s) - 1 /\ Cardinality(s \ {x}) \in Nat
        /\ Cardinality(s \ {y}) \in Nat
    BY FS_Subset, FS_RemoveElement, FS_CardinalityType
  <2>7. m - 1 \in Nat /\ m - 1 \notin T
    <3>1. m - 1 \in Nat /\ ~(m <= m - 1)
      BY <2>2, <2>3, <2>6
    <3> QED BY <3>1, <1>1
  <2>8. c[s \ {x}] = f[y] + c[(s \ {x}) \ {y}]
    <3>1. y \in s \ {x} /\ s \ {x} \in SUBSET S
      BY <2>3, <2>5
    <3>2. Cardinality(s \ {x}) = m - 1
      BY <2>2, <2>6
    <3> QED BY <2>7, <3>1, <3>2
  <2>9. c[s \ {y}] = f[x] + c[(s \ {x}) \ {y}]
    <3>1. x \in s \ {y} /\ s \ {y} \in SUBSET S
      BY <2>3, <2>5
    <3>2. Cardinality(s \ {y}) = m - 1
      BY <2>2, <2>3
    <3>3. c[s \ {y}] = f[x] + c[(s \ {y}) \ {x}]
      BY <2>7, <3>1, <3>2
    <3>4. (s \ {y}) \ {x} = (s \ {x}) \ {y}
      OBVIOUS
    <3> QED BY <3>3, <3>4
  <2>10. c[(s \ {x}) \ {y}] \in Int /\ f[x] \in Int /\ f[y] \in Int
    BY <2>3
  <2> QED BY <2>2, <2>4, <2>8, <2>9, <2>10
<1>2. T = {}
  <2>1. T \subseteq Nat
    OBVIOUS
  <2> HIDE DEF T
  <2> QED BY <1>1, <2>1, LeastNumber
<1>3. SUFFICES ASSUME NEW r \in SUBSET S, NEW v \in r PROVE c[r] = f[v] + c[r \ {v}]
  BY DEF InAnyOrder
<1>4. Cardinality(r) \in Nat /\ Cardinality(r) \notin T
  BY <1>2, FS_Subset, FS_CardinalityType
<1> QED BY <1>4

\* The sum of integers is one.
LEMMA SumIsNumber ==
    ASSUME NEW S, IsFiniteSet(S), NEW f \in [S -> Int]
    PROVE  SumFunction(f) \in Int
<1>1. PICK c \in [SUBSET S -> Int] : SumFunction(f) = c[S] /\ AddsUp(c, f, SUBSET S)
  BY SumsAddUp, Zenon
<1> QED BY <1>1

\* A sum of which one summand changes changes by as much.
LEMMA SumOfChange ==
    ASSUME NEW S, IsFiniteSet(S), NEW f \in [S -> Int], NEW e \in [S -> Int], NEW x \in S,
           \A y \in S \ {x} : e[y] = f[y]
    PROVE  /\ SumFunction(f) \in Int /\ SumFunction(e) \in Int
           /\ SumFunction(e) = SumFunction(f) + e[x] - f[x]
<1>1. PICK c \in [SUBSET S -> Int] : SumFunction(f) = c[S] /\ AddsUp(c, f, SUBSET S)
  BY SumsAddUp, Zenon
<1>2. PICK d \in [SUBSET S -> Int] : SumFunction(e) = d[S] /\ AddsUp(d, e, SUBSET S)
  BY SumsAddUp, Zenon
<1>3. c[S] = f[x] + c[S \ {x}]
  <2>1. InAnyOrder(c, f, S)
    BY <1>1, AnyOrder
  <2> QED BY <2>1 DEF InAnyOrder
<1>4. d[S] = e[x] + d[S \ {x}]
  <2>1. InAnyOrder(d, e, S)
    BY <1>2, AnyOrder
  <2> QED BY <2>1 DEF InAnyOrder
<1>5. c[S \ {x}] = d[S \ {x}]
  <2>1. /\ \A y \in S \ {x} : f[y] = e[y]
        /\ AddsUp(c, f, SUBSET (S \ {x})) /\ AddsUp(d, e, SUBSET (S \ {x}))
    BY <1>1, <1>2 DEF AddsUp
  <2> QED BY <2>1, OneSum
<1>6. c[S] \in Int /\ d[S] \in Int /\ c[S \ {x}] \in Int /\ f[x] \in Int /\ e[x] \in Int
  OBVIOUS
<1> QED BY <1>1, <1>2, <1>3, <1>4, <1>5, <1>6

\* The sum of one summand.
LEMMA SumOfOne ==
    ASSUME NEW f, NEW x, f[x] \in Int
    PROVE  SumFunctionOnSet(f, {x}) = f[x]
<1> DEFINE h == [s \in SUBSET {x} |-> IF s = {} THEN 0 ELSE f[x]]
<1>1. AddsUp(h, f, SUBSET {x})
  <2>1. \A s \in SUBSET {x} : s # {} => s = {x}
    OBVIOUS
  <2>2. (CHOOSE z \in {x} : TRUE) = x
    OBVIOUS
  <2> QED BY <2>1, <2>2 DEF AddsUp
<1> HIDE DEF h
<1>2. SumFunctionOnSet(f, {x}) = h[{x}]
  BY <1>1, SumIs, FS_Singleton
<1> QED BY <1>2 DEF h

\* The sum of nothing but zeros.
LEMMA SumOfNothing ==
    ASSUME NEW S, IsFiniteSet(S)
    PROVE  SumFunction([x \in S |-> 0]) = 0
<1> DEFINE f == [x \in S |-> 0]
           h == [s \in SUBSET S |-> 0]
<1>1. AddsUp(h, f, SUBSET S)
  BY DEF AddsUp
<1> HIDE DEF h, f
<1>2. SumFunctionOnSet(f, S) = h[S]
  BY <1>1, SumIs
<1>3. SumFunction(f) = SumFunctionOnSet(f, S)
  BY DEF SumFunction, f
<1> QED BY <1>2, <1>3 DEF f, h

\* What holds of nothing, and of one element more than it holds of, holds of every finite set.
LEMMA OneByOne ==
    ASSUME NEW S, IsFiniteSet(S), NEW T, {} \in T,
           \A s \in SUBSET S : \A x \in S \ s : s \in T => s \cup {x} \in T
    PROVE  S \in T
<1> DEFINE B == {n \in Nat : \E s \in SUBSET S : s \notin T /\ Cardinality(s) = n}
<1>1. ASSUME NEW m \in B, \A n \in B : m <= n PROVE FALSE
  <2>1. PICK s \in SUBSET S : s \notin T /\ Cardinality(s) = m
    OBVIOUS
  <2>2. PICK x \in s : TRUE
    BY <2>1
  <2>3. /\ Cardinality(s \ {x}) = Cardinality(s) - 1 /\ Cardinality(s \ {x}) \in Nat
    BY FS_Subset, FS_RemoveElement, FS_CardinalityType
  <2>4. m \in Nat /\ Cardinality(s \ {x}) < m
    BY <2>1, <2>3
  <2>5. s \ {x} \in T
    BY <2>3, <2>4, <1>1
  <2>6. s \ {x} \in SUBSET S /\ x \in S \ (s \ {x}) /\ (s \ {x}) \cup {x} = s
    OBVIOUS
  <2> QED BY <2>1, <2>5, <2>6
<1>2. B = {}
  <2>1. B \subseteq Nat
    OBVIOUS
  <2> HIDE DEF B
  <2> QED BY <1>1, <2>1, LeastNumber
<1>3. Cardinality(S) \in Nat
  BY FS_CardinalityType
<1> QED BY <1>2, <1>3

\* The sum of no summands.
LEMMA SumOfNone == ASSUME NEW f, DOMAIN f = {} PROVE SumFunction(f) = 0
<1>1. AddsUp([s \in SUBSET {} |-> 0], f, SUBSET {})
  BY DEF AddsUp
<1>2. SumFunctionOnSet(f, {}) = 0
  BY <1>1, FS_EmptySet, SumIs
<1> QED BY <1>2 DEF SumFunction

\* One summand may be taken out, whichever.
LEMMA SumTakesOut ==
    ASSUME NEW S, IsFiniteSet(S), NEW f, NEW g, NEW x \in S,
           f \in [S -> Int], g \in [S \ {x} -> Int], \A y \in S \ {x} : g[y] = f[y]
    PROVE  SumFunction(f) = f[x] + SumFunction(g)
<1>1. PICK c \in [SUBSET S -> Int] : SumFunction(f) = c[S] /\ AddsUp(c, f, SUBSET S)
  BY SumsAddUp, Zenon
<1>2. IsFiniteSet(S \ {x})
  BY FS_Subset
<1>3. PICK d \in [SUBSET (S \ {x}) -> Int] :
         SumFunction(g) = d[S \ {x}] /\ AddsUp(d, g, SUBSET (S \ {x}))
  BY <1>2, SumsAddUp, Zenon
<1>4. c[S] = f[x] + c[S \ {x}]
  <2>1. InAnyOrder(c, f, S)
    BY <1>1, AnyOrder
  <2> QED BY <2>1 DEF InAnyOrder
<1>5. c[S \ {x}] = d[S \ {x}]
  <2>1. AddsUp(c, f, SUBSET (S \ {x}))
    BY <1>1 DEF AddsUp
  <2>2. \A y \in S \ {x} : f[y] = g[y]
    OBVIOUS
  <2>3. S \ {x} \in SUBSET (S \ {x})
    OBVIOUS
  <2> QED BY <1>2, <1>3, <2>1, <2>2, <2>3, OneSum
<1> QED BY <1>1, <1>3, <1>4, <1>5

\* A part of a function is a function of the part.
LEMMA PartOfSum ==
    ASSUME NEW S, IsFiniteSet(S), NEW f \in [S -> Int], NEW P \in SUBSET S
    PROVE  /\ IsFiniteSet(P) /\ Restrict(f, P) \in [P -> Int]
           /\ \A x \in P : Restrict(f, P)[x] = f[x]
           /\ SumFunction(Restrict(f, P)) \in Int
<1>1. IsFiniteSet(P)
  BY FS_Subset
<1>2. Restrict(f, P) \in [P -> Int] /\ \A x \in P : Restrict(f, P)[x] = f[x]
  BY DEF Restrict
<1> QED BY <1>1, <1>2, SumIsNumber

\* Adding one element to a part adds one summand.
LEMMA PartGrows ==
    ASSUME NEW S, IsFiniteSet(S), NEW f \in [S -> Int], NEW P \in SUBSET S, NEW x \in S \ P
    PROVE  SumFunction(Restrict(f, P \cup {x})) = f[x] + SumFunction(Restrict(f, P))
<1>1. P \cup {x} \in SUBSET S /\ (P \cup {x}) \ {x} = P
  OBVIOUS
<1>2. /\ IsFiniteSet(P \cup {x})
      /\ Restrict(f, P \cup {x}) \in [P \cup {x} -> Int]
      /\ \A y \in P \cup {x} : Restrict(f, P \cup {x})[y] = f[y]
  BY <1>1, PartOfSum
<1>3. Restrict(f, P) \in [P -> Int] /\ \A y \in P : Restrict(f, P)[y] = f[y]
  BY PartOfSum
<1>4. SumFunction(Restrict(f, P \cup {x}))
         = Restrict(f, P \cup {x})[x] + SumFunction(Restrict(f, P))
  <2>1. Restrict(f, P) \in [(P \cup {x}) \ {x} -> Int]
    BY <1>1, <1>3
  <2>2. \A y \in (P \cup {x}) \ {x} : Restrict(f, P)[y] = Restrict(f, P \cup {x})[y]
    BY <1>1, <1>2, <1>3
  <2>3. x \in P \cup {x}
    OBVIOUS
  <2> DEFINE Q == P \cup {x}
             e == Restrict(f, Q)
             g == Restrict(f, P)
  <2>4. /\ IsFiniteSet(Q) /\ x \in Q /\ e \in [Q -> Int] /\ g \in [Q \ {x} -> Int]
        /\ \A y \in Q \ {x} : g[y] = e[y]
    BY <1>2, <2>1, <2>2, <2>3
  <2>5. SumFunction(e) = e[x] + SumFunction(g)
    <3> HIDE DEF Q, e, g
    <3> QED BY <2>4, SumTakesOut
  <2> QED BY <2>5
<1> QED BY <1>2, <1>4

\* The summands in any two groups.
LEMMA SumSplits ==
    ASSUME NEW S, IsFiniteSet(S), NEW f \in [S -> Int], NEW P \in SUBSET S
    PROVE  SumFunction(f) = SumFunction(Restrict(f, P)) + SumFunction(Restrict(f, S \ P))
<1> DEFINE R == S \ P
           T == {s \in SUBSET P : SumFunction(Restrict(f, R \cup s))
                                     = SumFunction(Restrict(f, s)) + SumFunction(Restrict(f, R))}
<1>1. {} \in T
  <2>1. SumFunction(Restrict(f, {})) = 0
    BY SumOfNone DEF Restrict
  <2>2. R \cup {} = R /\ SumFunction(Restrict(f, R)) \in Int
    BY PartOfSum
  <2> QED BY <2>1, <2>2
<1>2. ASSUME NEW s \in SUBSET P, NEW x \in P \ s, s \in T PROVE s \cup {x} \in T
  <2>1. SumFunction(Restrict(f, s \cup {x})) = f[x] + SumFunction(Restrict(f, s))
    BY PartGrows
  <2>2. R \cup s \in SUBSET S /\ x \in S \ (R \cup s) /\ (R \cup s) \cup {x} = R \cup (s \cup {x})
    OBVIOUS
  <2>3. SumFunction(Restrict(f, (R \cup s) \cup {x}))
           = f[x] + SumFunction(Restrict(f, R \cup s))
    BY <2>2, PartGrows
  <2>4. /\ f[x] \in Int /\ SumFunction(Restrict(f, s)) \in Int
        /\ SumFunction(Restrict(f, R)) \in Int
    BY PartOfSum
  <2>5. SumFunction(Restrict(f, R \cup s))
           = SumFunction(Restrict(f, s)) + SumFunction(Restrict(f, R))
    BY <1>2
  <2>6. SumFunction(Restrict(f, R \cup (s \cup {x})))
           = SumFunction(Restrict(f, s \cup {x})) + SumFunction(Restrict(f, R))
    <3>1. SumFunction(Restrict(f, R \cup (s \cup {x})))
             = f[x] + SumFunction(Restrict(f, R \cup s))
      BY <2>2, <2>3
    <3> HIDE DEF R
    <3> QED BY <2>1, <2>4, <2>5, <3>1
  <2> QED BY <2>6
<1>3. P \in T
  <2>1. IsFiniteSet(P)
    BY FS_Subset
  <2> HIDE DEF T
  <2> QED BY <1>1, <1>2, <2>1, OneByOne
<1>4. R \cup P = S
  OBVIOUS
<1>5. Restrict(f, S) = f
  BY DEF Restrict
<1> QED BY <1>3, <1>4, <1>5

\* Greater summands have the greater sum.
LEMMA SumGrows ==
    ASSUME NEW S, IsFiniteSet(S), NEW f \in [S -> Int], NEW g \in [S -> Int],
           \A x \in S : f[x] <= g[x]
    PROVE  SumFunction(f) <= SumFunction(g)
<1> DEFINE T == {s \in SUBSET S : SumFunction(Restrict(f, s)) <= SumFunction(Restrict(g, s))}
<1>1. {} \in T
  <2>1. SumFunction(Restrict(f, {})) = 0 /\ SumFunction(Restrict(g, {})) = 0
    BY SumOfNone DEF Restrict
  <2> QED BY <2>1
<1>2. ASSUME NEW s \in SUBSET S, NEW x \in S \ s, s \in T PROVE s \cup {x} \in T
  <2>1. /\ SumFunction(Restrict(f, s \cup {x})) = f[x] + SumFunction(Restrict(f, s))
        /\ SumFunction(Restrict(g, s \cup {x})) = g[x] + SumFunction(Restrict(g, s))
    BY PartGrows
  <2>2. SumFunction(Restrict(f, s)) \in Int /\ SumFunction(Restrict(g, s)) \in Int
    BY PartOfSum
  <2>3. f[x] \in Int /\ g[x] \in Int /\ f[x] <= g[x]
    OBVIOUS
  <2> QED BY <1>2, <2>1, <2>2, <2>3
<1>3. S \in T
  <2> HIDE DEF T
  <2> QED BY <1>1, <1>2, OneByOne
<1>4. Restrict(f, S) = f /\ Restrict(g, S) = g
  BY DEF Restrict
<1> QED BY <1>3, <1>4

\* The sum of one number, as often as there are elements.
LEMMA SumOfEqual ==
    ASSUME NEW S, IsFiniteSet(S), NEW c \in Int, NEW f \in [S -> Int], \A x \in S : f[x] = c
    PROVE  SumFunction(f) = c * Cardinality(S)
<1> DEFINE T == {s \in SUBSET S : SumFunction(Restrict(f, s)) = c * Cardinality(s)}
<1>1. {} \in T
  <2>1. SumFunction(Restrict(f, {})) = 0
    BY SumOfNone DEF Restrict
  <2>2. Cardinality({}) = 0
    BY FS_EmptySet
  <2> QED BY <2>1, <2>2
<1>2. ASSUME NEW s \in SUBSET S, NEW x \in S \ s, s \in T PROVE s \cup {x} \in T
  <2>1. SumFunction(Restrict(f, s \cup {x})) = f[x] + SumFunction(Restrict(f, s))
    BY PartGrows
  <2>2. SumFunction(Restrict(f, s)) = c * Cardinality(s)
    BY <1>2
  <2>3. Cardinality(s \cup {x}) = Cardinality(s) + 1 /\ Cardinality(s) \in Nat
    BY FS_Subset, FS_AddElement, FS_CardinalityType
  <2>4. \A n \in Nat : c * (n + 1) = c + c * n
    OBVIOUS
  <2>5. SumFunction(Restrict(f, s \cup {x})) = c * Cardinality(s \cup {x})
    BY <2>1, <2>2, <2>3, <2>4
  <2> QED BY <2>5
<1>3. S \in T
  <2> HIDE DEF T
  <2> QED BY <1>1, <1>2, OneByOne
<1>4. Restrict(f, S) = f
  BY DEF Restrict
<1> QED BY <1>3, <1>4

\* What is left out may be, if it is nothing.
LEMMA SumOfRest ==
    ASSUME NEW S, IsFiniteSet(S), NEW f \in [S -> Int], NEW P \in SUBSET S,
           \A x \in S \ P : f[x] = 0
    PROVE  SumFunction(f) = SumFunction(Restrict(f, P))
<1>1. SumFunction(f) = SumFunction(Restrict(f, P)) + SumFunction(Restrict(f, S \ P))
  BY SumSplits
<1>2. /\ IsFiniteSet(S \ P) /\ Restrict(f, S \ P) \in [S \ P -> Int]
      /\ \A x \in S \ P : Restrict(f, S \ P)[x] = 0
  BY PartOfSum
<1>3. SumFunction(Restrict(f, S \ P)) = 0 * Cardinality(S \ P) /\ Cardinality(S \ P) \in Nat
  <2> DEFINE Q == S \ P
             e == Restrict(f, Q)
  <2>1. IsFiniteSet(Q) /\ e \in [Q -> Int] /\ \A x \in Q : e[x] = 0
    BY <1>2
  <2>2. SumFunction(e) = 0 * Cardinality(Q) /\ Cardinality(Q) \in Nat
    <3> HIDE DEF Q, e
    <3> QED BY <2>1, SumOfEqual, FS_CardinalityType
  <2> QED BY <2>2
<1>4. SumFunction(Restrict(f, P)) \in Int
  BY PartOfSum
<1> QED BY <1>1, <1>3, <1>4

\* The summands of f that k puts under c.
GroupOf(f, k, c) == Restrict(f, {x \in DOMAIN f : k[x] = c})

\* The groups add up to the whole.
LEMMA SumOfGroups ==
    ASSUME NEW S, IsFiniteSet(S), NEW K, IsFiniteSet(K), NEW f \in [S -> Int], NEW k,
           \A x \in S : k[x] \in K,
           NEW g \in [K -> Int], \A c \in K : g[c] = SumFunction(GroupOf(f, k, c))
    PROVE  SumFunction(g) = SumFunction(f)
<1> DEFINE In(q) == {x \in S : k[x] \in q}
           T == {q \in SUBSET K : SumFunction(Restrict(g, q)) = SumFunction(Restrict(f, In(q)))}
<1>1. {} \in T
  <2>1. In({}) = {}
    OBVIOUS
  <2>2. SumFunction(Restrict(g, {})) = 0 /\ SumFunction(Restrict(f, {})) = 0
    BY SumOfNone DEF Restrict
  <2> QED BY <2>1, <2>2
<1>2. ASSUME NEW q \in SUBSET K, NEW c \in K \ q, q \in T PROVE q \cup {c} \in T
  <2>1. SumFunction(Restrict(g, q \cup {c})) = g[c] + SumFunction(Restrict(g, q))
    BY PartGrows
  <2> DEFINE P == In(q \cup {c})
             e == Restrict(f, P)
             Q == {x \in S : k[x] = c}
  <2>2. /\ P \in SUBSET S /\ Q \in SUBSET P /\ P \ Q = In(q)
    OBVIOUS
  <2>3. IsFiniteSet(P) /\ e \in [P -> Int] /\ \A x \in P : e[x] = f[x]
    <3> HIDE DEF P
    <3> QED BY <2>2, PartOfSum
  <2>4. SumFunction(e) = SumFunction(Restrict(e, Q)) + SumFunction(Restrict(e, P \ Q))
    <3> HIDE DEF P, Q, e
    <3> QED BY <2>2, <2>3, SumSplits
  <2>5. Restrict(e, Q) = GroupOf(f, k, c)
    <3>1. DOMAIN f = S
      OBVIOUS
    <3>2. \A x \in Q : e[x] = f[x]
      BY <2>2, <2>3
    <3> HIDE DEF e
    <3> QED BY <3>1, <3>2 DEF GroupOf, Restrict
  <2>6. Restrict(e, P \ Q) = Restrict(f, In(q))
    <3>1. \A x \in P \ Q : e[x] = f[x]
      BY <2>3
    <3> HIDE DEF e, P, Q, In
    <3> QED BY <2>2, <3>1 DEF Restrict
  <2>7. SumFunction(Restrict(g, q)) = SumFunction(Restrict(f, In(q)))
    BY <1>2
  <2>8. SumFunction(Restrict(g, q \cup {c})) = SumFunction(Restrict(f, In(q \cup {c})))
    <3> HIDE DEF In
    <3> QED BY <2>1, <2>4, <2>5, <2>6, <2>7
  <2> QED BY <2>8
<1>3. K \in T
  <2> HIDE DEF T
  <2> QED BY <1>1, <1>2, OneByOne
<1>4. In(K) = S
  OBVIOUS
<1>5. Restrict(g, K) = g /\ Restrict(f, S) = f
  BY DEF Restrict
<1> QED BY <1>3, <1>4, <1>5

\* What every element of K comes of, of which there are finitely many.
LEMMA ImageIsFinite ==
    ASSUME NEW S, IsFiniteSet(S), NEW K, NEW k, \A c \in K : \E x \in S : k[x] = c
    PROVE  IsFiniteSet(K)
<1> DEFINE R == {x \in S : k[x] \in K}
           m == [x \in R |-> k[x]]
<1>1. IsFiniteSet(R)
  BY FS_Subset
<1>2. m \in Surjection(R, K)
  BY DEF Surjection
<1> HIDE DEF R, m
<1> QED BY <1>1, <1>2, FS_Surjection

\* The groups' sizes add up to the whole's.
LEMMA CountOfGroups ==
    ASSUME NEW S, IsFiniteSet(S), NEW K, IsFiniteSet(K), NEW k, \A x \in S : k[x] \in K,
           NEW g \in [K -> Int], \A c \in K : g[c] = Cardinality({x \in S : k[x] = c})
    PROVE  SumFunction(g) = Cardinality(S)
<1> DEFINE f == [x \in S |-> 1]
<1>1. f \in [S -> Int] /\ DOMAIN f = S /\ \A x \in S : f[x] = 1
  OBVIOUS
<1> HIDE DEF f
<1>2. ASSUME NEW c \in K PROVE g[c] = SumFunction(GroupOf(f, k, c))
  <2> DEFINE Q == {x \in S : k[x] = c}
             e == Restrict(f, Q)
  <2>1. Q \in SUBSET S /\ GroupOf(f, k, c) = e /\ g[c] = Cardinality(Q)
    BY <1>1 DEF GroupOf
  <2> HIDE DEF Q
  <2>2. IsFiniteSet(Q) /\ e \in [Q -> Int] /\ \A x \in Q : e[x] = 1
    BY <1>1, <2>1, PartOfSum
  <2> HIDE DEF e
  <2>3. SumFunction(e) = 1 * Cardinality(Q) /\ Cardinality(Q) \in Nat
    BY <2>2, SumOfEqual, FS_CardinalityType
  <2> QED BY <2>1, <2>3
<1>3. SumFunction(g) = SumFunction(f)
  BY <1>1, <1>2, SumOfGroups
<1>4. SumFunction(f) = 1 * Cardinality(S) /\ Cardinality(S) \in Nat
  BY <1>1, SumOfEqual, FS_CardinalityType
<1> QED BY <1>3, <1>4

\* A sum of naturals is one.
LEMMA SumOfNaturals ==
    ASSUME NEW S, IsFiniteSet(S), NEW f \in [S -> Nat] PROVE SumFunction(f) \in Nat
<1> DEFINE z == [x \in S |-> 0]
<1>1. SumFunction(z) = 0
  BY SumOfNothing
<1>2. f \in [S -> Int] /\ z \in [S -> Int] /\ \A x \in S : z[x] <= f[x]
  OBVIOUS
<1> HIDE DEF z
<1>3. SumFunction(z) <= SumFunction(f) /\ SumFunction(f) \in Int
  BY <1>2, SumGrows, SumIsNumber
<1> QED BY <1>1, <1>3

-----------------------------------------------------------------------------
(***************************************************************************)
(* Quotients.                                                              *)
(***************************************************************************)

\* What the quotient of a by b is.
LEMMA QuotientIs ==
    ASSUME NEW a \in Int, NEW b \in Nat \ {0}
    PROVE  /\ a \div b \in Int
           /\ (a \div b) * b <= a /\ a < (a \div b) * b + b
  OBVIOUS

\* A number is at most the quotient if so many times b is at most a.
LEMMA AtMostQuotient ==
    ASSUME NEW a \in Int, NEW b \in Nat \ {0}, NEW q \in Int
    PROVE  q <= a \div b <=> q * b <= a
<1> DEFINE d == a \div b
<1>1. d \in Int /\ d * b <= a /\ a < d * b + b
  BY QuotientIs
<1> HIDE DEF d
<1>2. ASSUME q <= d PROVE q * b <= a
  <2>1. q * b <= d * b
    BY <1>1, <1>2
  <2> QED BY <1>1, <2>1
<1>3. ASSUME ~(q <= d) PROVE ~(q * b <= a)
  <2>1. (d + 1) * b <= q * b
    BY <1>1, <1>3
  <2>2. (d + 1) * b = d * b + b
    BY <1>1
  <2>3. d * b \in Int /\ q * b \in Int
    BY <1>1
  <2> QED BY <1>1, <2>1, <2>2, <2>3
<1> QED BY <1>2, <1>3 DEF d

\* The greater fraction has the greater quotient.
LEMMA QuotientsGrow ==
    ASSUME NEW a \in Int, NEW b \in Nat \ {0}, NEW c \in Int, NEW d \in Nat \ {0}, a * d <= c * b
    PROVE  a \div b <= c \div d
<1> DEFINE q == a \div b
<1>1. q \in Int /\ q * b <= a
  BY QuotientIs
<1> HIDE DEF q
<1>2. (q * d) * b <= c * b
  <2>1. (q * b) * d <= a * d
    BY <1>1
  <2>2. (q * b) * d = (q * d) * b
    BY <1>1
  <2>3. (q * b) * d \in Int /\ a * d \in Int /\ c * b \in Int
    BY <1>1
  <2> QED BY <2>1, <2>2, <2>3
<1>3. q * d <= c
  <2>1. ~(q * d <= c) => (c + 1) * b <= (q * d) * b
    BY <1>1
  <2>2. (c + 1) * b = c * b + b /\ c * b \in Int /\ (q * d) * b \in Int
    BY <1>1
  <2> QED BY <1>1, <1>2, <2>1, <2>2
<1>4. q <= c \div d
  BY <1>1, <1>3, AtMostQuotient
<1> QED BY <1>4 DEF q

\* The sum over a part is the sum of the part.
LEMMA SumOnPart ==
    ASSUME NEW S, IsFiniteSet(S), NEW f \in [S -> Int], NEW P \in SUBSET S
    PROVE  SumFunctionOnSet(f, P) = SumFunction(Restrict(f, P))
<1> DEFINE e == Restrict(f, P)
<1>1. IsFiniteSet(P) /\ e \in [P -> Int] /\ \A x \in P : e[x] = f[x]
  BY PartOfSum
<1> HIDE DEF e
<1>2. PICK c \in [SUBSET P -> Int] : SumFunction(e) = c[P] /\ AddsUp(c, e, SUBSET P)
  BY <1>1, SumsAddUp, Zenon
<1>3. AddsUp(c, f, SUBSET P)
  BY <1>1, <1>2 DEF AddsUp
<1>4. SumFunctionOnSet(f, P) = c[P]
  BY <1>1, <1>3, SumIs
<1> QED BY <1>2, <1>4 DEF e

\* The sum of two.
LEMMA SumOfTwo ==
    ASSUME NEW a, NEW b, a # b, NEW f \in [{a, b} -> Int]
    PROVE  SumFunction(f) = f[a] + f[b]
<1>1. IsFiniteSet({a, b})
  <2>1. IsFiniteSet({a}) /\ {a} \cup {b} = {a, b}
    BY FS_Singleton
  <2>2. IsFiniteSet({a} \cup {b})
    BY <2>1, FS_AddElement
  <2> QED BY <2>1, <2>2
<1>2. SumFunction(Restrict(f, {})) = 0
  BY SumOfNone DEF Restrict
<1>3. SumFunction(Restrict(f, {} \cup {a})) = f[a] + SumFunction(Restrict(f, {}))
  BY <1>1, PartGrows
<1>4. SumFunction(Restrict(f, {a} \cup {b})) = f[b] + SumFunction(Restrict(f, {a}))
  BY <1>1, PartGrows
<1>5. SumFunction(Restrict(f, {a})) = f[a] + 0
  <2>1. {} \cup {a} = {a}
    OBVIOUS
  <2> QED BY <1>2, <1>3, <2>1
<1>6. SumFunction(Restrict(f, {a, b})) = f[b] + SumFunction(Restrict(f, {a}))
  <2>1. {a} \cup {b} = {a, b}
    OBVIOUS
  <2> QED BY <1>4, <2>1
<1>7. Restrict(f, {a, b}) = f /\ f[a] \in Int /\ f[b] \in Int
  BY DEF Restrict
<1> QED BY <1>5, <1>6, <1>7
\* The sum of differences.
LEMMA SumOfDifferences ==
    ASSUME NEW S, IsFiniteSet(S), NEW f \in [S -> Int], NEW g \in [S -> Int], NEW h \in [S -> Int],
           \A x \in S : h[x] = f[x] - g[x]
    PROVE  SumFunction(h) = SumFunction(f) - SumFunction(g)
<1> DEFINE T == {s \in SUBSET S : SumFunction(Restrict(h, s))
                       = SumFunction(Restrict(f, s)) - SumFunction(Restrict(g, s))}
<1>1. {} \in T
  <2>1. /\ SumFunction(Restrict(f, {})) = 0 /\ SumFunction(Restrict(g, {})) = 0
        /\ SumFunction(Restrict(h, {})) = 0
    BY SumOfNone DEF Restrict
  <2> QED BY <2>1
<1>2. ASSUME NEW s \in SUBSET S, NEW x \in S \ s, s \in T PROVE s \cup {x} \in T
  <2>1. /\ SumFunction(Restrict(f, s \cup {x})) = f[x] + SumFunction(Restrict(f, s))
        /\ SumFunction(Restrict(g, s \cup {x})) = g[x] + SumFunction(Restrict(g, s))
        /\ SumFunction(Restrict(h, s \cup {x})) = h[x] + SumFunction(Restrict(h, s))
    BY PartGrows
  <2>2. /\ SumFunction(Restrict(f, s)) \in Int /\ SumFunction(Restrict(g, s)) \in Int
        /\ SumFunction(Restrict(h, s)) \in Int
    BY PartOfSum
  <2>3. f[x] \in Int /\ g[x] \in Int /\ h[x] = f[x] - g[x]
    OBVIOUS
  <2>4. SumFunction(Restrict(h, s)) = SumFunction(Restrict(f, s)) - SumFunction(Restrict(g, s))
    BY <1>2
  <2>5. SumFunction(Restrict(h, s \cup {x}))
           = SumFunction(Restrict(f, s \cup {x})) - SumFunction(Restrict(g, s \cup {x}))
    BY <2>1, <2>2, <2>3, <2>4
  <2> QED BY <2>5
<1>3. S \in T
  <2> HIDE DEF T
  <2> QED BY <1>1, <1>2, OneByOne
<1>4. Restrict(f, S) = f /\ Restrict(g, S) = g /\ Restrict(h, S) = h
  BY DEF Restrict
<1> QED BY <1>3, <1>4

\* c of each f and some more are at most k of each g.
AtMostOf(S, c, f, more, k, g) == \A x \in S : c * f[x] + more <= k * g[x]

\* Then so are they in sum.
LEMMA SumAbove ==
    ASSUME NEW S, IsFiniteSet(S), NEW f \in [S -> Int], NEW g \in [S -> Int],
           NEW c \in Int, NEW k \in Int, NEW more \in Int, AtMostOf(S, c, f, more, k, g)
    PROVE  c * SumFunction(f) + more * Cardinality(S) <= k * SumFunction(g)
<1> DEFINE T == {s \in SUBSET S : c * SumFunction(Restrict(f, s)) + more * Cardinality(s)
                                     <= k * SumFunction(Restrict(g, s))}
<1>1. {} \in T
  <2>1. SumFunction(Restrict(f, {})) = 0 /\ SumFunction(Restrict(g, {})) = 0
    BY SumOfNone DEF Restrict
  <2>2. Cardinality({}) = 0
    BY FS_EmptySet
  <2>3. c * 0 + more * 0 <= k * 0
    OBVIOUS
  <2> QED BY <2>1, <2>2, <2>3
<1>2. ASSUME NEW s \in SUBSET S, NEW x \in S \ s, s \in T PROVE s \cup {x} \in T
  <2>1. /\ SumFunction(Restrict(f, s \cup {x})) = f[x] + SumFunction(Restrict(f, s))
        /\ SumFunction(Restrict(g, s \cup {x})) = g[x] + SumFunction(Restrict(g, s))
    BY PartGrows
  <2>2. Cardinality(s \cup {x}) = Cardinality(s) + 1 /\ Cardinality(s) \in Nat
    BY FS_Subset, FS_AddElement, FS_CardinalityType
  <2>3. SumFunction(Restrict(f, s)) \in Int /\ SumFunction(Restrict(g, s)) \in Int
    BY PartOfSum
  <2>4. c * f[x] + more <= k * g[x] /\ f[x] \in Int /\ g[x] \in Int
    BY DEF AtMostOf
  <2>5. c * SumFunction(Restrict(f, s)) + more * Cardinality(s) <= k * SumFunction(Restrict(g, s))
    BY <1>2
  <2>6. ASSUME NEW p \in Int, NEW q \in Int, NEW n \in Int, NEW u \in Int, NEW v \in Int,
               c * p + more <= k * q, c * u + more * n <= k * v
        PROVE  c * (p + u) + more * (n + 1) <= k * (q + v)
    <3>1. /\ c * (p + u) = c * p + c * u /\ more * (n + 1) = more * n + more
          /\ k * (q + v) = k * q + k * v
      OBVIOUS
    <3>2. /\ c * p \in Int /\ c * u \in Int /\ more * n \in Int /\ k * q \in Int /\ k * v \in Int
      OBVIOUS
    <3> QED BY <2>6, <3>1, <3>2
  <2>7. c * SumFunction(Restrict(f, s \cup {x})) + more * Cardinality(s \cup {x})
           <= k * SumFunction(Restrict(g, s \cup {x}))
    BY <2>1, <2>2, <2>3, <2>4, <2>5, <2>6
  <2> QED BY <2>7
<1>3. S \in T
  <2> HIDE DEF T
  <2> QED BY <1>1, <1>2, OneByOne
<1>4. Restrict(f, S) = f /\ Restrict(g, S) = g
  BY DEF Restrict
<1> QED BY <1>3, <1>4

\* Of some fractions there is one that is at most the whole's, and one that is at least.
LEMMA SomeAtMost ==
    ASSUME NEW S, IsFiniteSet(S), S # {}, NEW f \in [S -> Int], NEW g \in [S -> Int]
    PROVE  /\ \E x \in S : g[x] * SumFunction(f) <= SumFunction(g) * f[x]
           /\ \E x \in S : SumFunction(g) * f[x] <= g[x] * SumFunction(f)
<1>1. PICK F \in Int, G \in Int : F = SumFunction(f) /\ G = SumFunction(g)
  BY SumIsNumber
<1>2. Cardinality(S) \in Nat /\ Cardinality(S) # 0
  BY FS_CardinalityType, FS_EmptySet
<1>3. \A x \in S : f[x] \in Int /\ g[x] \in Int /\ g[x] * F \in Int /\ G * f[x] \in Int
  OBVIOUS
<1>4. F * G = G * F /\ F * G \in Int
  OBVIOUS
<1>5. \E x \in S : g[x] * F <= G * f[x]
  <2> SUFFICES ASSUME \A x \in S : ~(g[x] * F <= G * f[x]) PROVE FALSE
    OBVIOUS
  <2>1. ASSUME NEW x \in S PROVE G * f[x] + 1 <= F * g[x]
    <3>1. F * g[x] = g[x] * F
      BY <1>3
    <3> QED BY <1>3, <3>1
  <2>2. AtMostOf(S, G, f, 1, F, g)
    BY <2>1 DEF AtMostOf
  <2>3. G * SumFunction(f) + 1 * Cardinality(S) <= F * SumFunction(g)
    BY <2>2, SumAbove
  <2> QED BY <1>1, <1>2, <1>4, <2>3
<1>6. \E x \in S : G * f[x] <= g[x] * F
  <2> SUFFICES ASSUME \A x \in S : ~(G * f[x] <= g[x] * F) PROVE FALSE
    OBVIOUS
  <2>1. ASSUME NEW x \in S PROVE F * g[x] + 1 <= G * f[x]
    <3>1. F * g[x] = g[x] * F
      BY <1>3
    <3> QED BY <1>3, <3>1
  <2>2. AtMostOf(S, F, g, 1, G, f)
    BY <2>1 DEF AtMostOf
  <2>3. F * SumFunction(g) + 1 * Cardinality(S) <= G * SumFunction(f)
    BY <2>2, SumAbove
  <2> QED BY <1>1, <1>2, <1>4, <2>3
<1> QED BY <1>1, <1>5, <1>6

\* Two are finitely many.
LEMMA TwoAreFinite == ASSUME NEW a, NEW b PROVE IsFiniteSet({a, b})
<1>1. IsFiniteSet({a}) /\ {a} \cup {b} = {a, b}
  BY FS_Singleton
<1>2. IsFiniteSet({a} \cup {b})
  BY <1>1, FS_AddElement
<1> QED BY <1>1, <1>2

\* A set of four.
Four(S, a, b, c, d) ==
    S = {a, b, c, d} /\ a # b /\ a # c /\ a # d /\ b # c /\ b # d /\ c # d

\* The sum of four.
LEMMA SumOfFour ==
    ASSUME NEW S, NEW a, NEW b, NEW c, NEW d, Four(S, a, b, c, d), NEW f \in [S -> Int]
    PROVE  IsFiniteSet(S) /\ SumFunction(f) = (f[a] + f[b]) + (f[c] + f[d])
<1> DEFINE P == {a, b}
           Q == {c, d}
           p == Restrict(f, P)
           q == Restrict(f, Q)
<1>1. IsFiniteSet(S)
  <2>1. IsFiniteSet(P \cup Q)
    BY TwoAreFinite, FS_Union
  <2>2. P \cup Q = S
    BY DEF Four
  <2> QED BY <2>1, <2>2
<1>2. P \in SUBSET S /\ Q \in SUBSET S /\ S \ P = Q
  BY DEF Four
<1>3. SumFunction(f) = SumFunction(p) + SumFunction(q)
  <2> HIDE DEF P, Q
  <2> QED BY <1>1, <1>2, SumSplits
<1>4. /\ p \in [{a, b} -> Int] /\ q \in [{c, d} -> Int]
      /\ p[a] = f[a] /\ p[b] = f[b] /\ q[c] = f[c] /\ q[d] = f[d]
  BY DEF Restrict, Four
<1> HIDE DEF p, q
<1>5. SumFunction(p) = p[a] + p[b] /\ SumFunction(q) = q[c] + q[d]
  BY <1>4, SumOfTwo DEF Four
<1> QED BY <1>1, <1>3, <1>4, <1>5
=============================================================================
