--------------------------- MODULE NumberTheorems ----------------------------
(***************************************************************************)
(* Induction for the other modules.  The library's induction theorems      *)
(* speak of a predicate or an operator, which the provers cannot           *)
(* instantiate; these speak of sets and functions, and rest on the         *)
(* cardinality of finite sets.                                             *)
(***************************************************************************)
EXTENDS Integers, FiniteSetTheorems, TLAPS

\* Induction on the numbers, for a set instead of a predicate: a set that
\* misses n would be mapped into itself by the successor, one-to-one and
\* not onto, though what it has up to n is finite.
LEMMA SetInduction ==
  ASSUME NEW T, 0 \in T, \A n \in Nat : n \in T => n + 1 \in T
  PROVE  Nat \subseteq T
<1> SUFFICES ASSUME NEW n \in Nat, n \notin T PROVE FALSE
  OBVIOUS
<1> DEFINE S == T \cap (0..n)
           f == [x \in S |-> x + 1]
<1>1. IsFiniteSet(S)
  <2>1. IsFiniteSet(0..n)
    BY FS_Interval
  <2>2. S \in SUBSET (0..n)
    OBVIOUS
  <2>3. QED  BY <2>1, <2>2, FS_Subset
<1>2. f \in Injection(S, S)
  <2>1. \A x \in S : x \in Nat /\ x # n /\ x + 1 \in S
    OBVIOUS
  <2>2. f \in [S -> S] /\ \A x, y \in S : f[x] = f[y] => x = y
    BY <2>1
  <2>3. QED  BY <2>2, Zenon DEF Injection, IsInjective
<1>3. f \in Surjection(S, S)
  BY <1>1, <1>2, FS_Injection
<1>4. \E x \in S : f[x] = 0
  <2>1. 0 \in S
    OBVIOUS
  <2>2. QED  BY <1>3, <2>1, Zenon DEF Surjection
<1>5. QED  BY <1>4

\* A set of numbers has a least one.
LEMMA LeastExists ==
  ASSUME NEW S, S \subseteq Nat, S # {}
  PROVE  \E x \in S : \A y \in S : x <= y
<1> DEFINE T == {n \in Nat : \A y \in S : n <= y}
<1>1. \E n \in T : n + 1 \notin T
  <2> SUFFICES ASSUME \A n \in T : n + 1 \in T PROVE FALSE
    OBVIOUS
  <2>1. 0 \in T
    OBVIOUS
  <2>2. Nat \subseteq T
    BY <2>1, SetInduction
  <2>3. PICK y \in S : TRUE
    OBVIOUS
  <2>4. y \in Nat /\ y + 1 \in T
    BY <2>2, <2>3
  <2>5. y + 1 <= y
    BY <2>3, <2>4
  <2>6. QED  BY <2>4, <2>5
<1>2. QED  BY <1>1

\* A set of numbers with a bound has a largest one.
LEMMA LargestExists ==
  ASSUME NEW n \in Nat, NEW S, S \subseteq 0..n, S # {}
  PROVE  \E x \in S : \A y \in S : y <= x
<1> DEFINE T == {n - x : x \in S}
<1>1. T \subseteq Nat /\ T # {}
  <2>1. \A x \in S : n - x \in Nat
    OBVIOUS
  <2>2. PICK x \in S : TRUE
    OBVIOUS
  <2>3. n - x \in T
    BY <2>2
  <2>4. T \subseteq Nat
    BY <2>1
  <2>5. QED  BY <2>3, <2>4, Zenon
<1>2. PICK t \in T : \A y \in T : t <= y
  BY <1>1, LeastExists
<1>3. PICK x \in S : t = n - x
  BY <1>2
<1>4. ASSUME NEW y \in S PROVE y <= x
  <2>1. n - y \in T
    OBVIOUS
  <2>2. n - x <= n - y
    BY <1>2, <1>3, <2>1
  <2>3. x \in Nat /\ y \in Nat
    OBVIOUS
  <2> HIDE DEF T
  <2>4. QED  BY <2>2, <2>3
<1>5. QED  BY <1>4

\* What holds at the first place and goes from each place to the next holds
\* at all of them.
LEMMA PlaceInduction ==
  ASSUME NEW n \in Nat, NEW T, 1 \in T,
         \A i \in 1..n : i \in T => i + 1 \in T
  PROVE  1..n + 1 \subseteq T
<1> DEFINE U == {k \in Nat : k <= n => k + 1 \in T}
<1>1. 0 \in U
  OBVIOUS
<1>2. \A k \in Nat : k \in U => k + 1 \in U
  OBVIOUS
<1>3. Nat \subseteq U
  BY <1>1, <1>2, SetInduction
<1>4. \A i \in 1..n + 1 : i - 1 \in Nat /\ i - 1 <= n
  OBVIOUS
<1>5. QED  BY <1>3, <1>4

\* The runs over n + 1 places that begin with a and go as g says from each
\* place to the next.
RunsOf(n, S, a, g) ==
  {f \in [1..n + 1 -> S] : f[1] = a /\ \A i \in 1..n : f[i + 1] = g[i][f[i]]}

\* There is one.
LEMMA RunExists ==
  ASSUME NEW n \in Nat, NEW S, NEW a \in S, NEW g \in [1..n -> [S -> S]]
  PROVE  \E f : f \in RunsOf(n, S, a, g)
<1> DEFINE Runs(m) == {f \in [1..m -> S] :
             f[1] = a /\ \A i \in 1..m - 1 : f[i + 1] = g[i][f[i]]}
           T == {m \in 1..n + 1 : Runs(m) # {}}
<1>1. 1 \in T
  <2>1. [i \in 1..1 |-> a] \in Runs(1)
    OBVIOUS
  <2>2. QED  BY <2>1
<1>2. ASSUME NEW m \in 1..n, m \in T
      PROVE  m + 1 \in T
  <2>1. PICK f \in [1..m -> S] :
               f[1] = a /\ \A i \in 1..m - 1 : f[i + 1] = g[i][f[i]]
    BY <1>2
  <2> DEFINE h == [i \in 1..m + 1 |-> IF i = m + 1 THEN g[m][f[m]] ELSE f[i]]
  <2>2. f[m] \in S /\ g[m][f[m]] \in S
    BY <2>1
  <2>3. h \in [1..m + 1 -> S] /\ h[1] = a
    BY <2>1, <2>2
  <2>4. ASSUME NEW i \in 1..m PROVE h[i + 1] = g[i][h[i]]
    <3>1. CASE i = m
      BY <3>1
    <3>2. CASE i # m
      <4>1. i \in 1..m - 1 /\ i + 1 \in 1..m
        BY <3>2
      <4>2. h[i + 1] = f[i + 1] /\ h[i] = f[i]
        BY <4>1
      <4>3. QED  BY <2>1, <4>1, <4>2
    <3>3. QED  BY <3>1, <3>2
  <2>5. h \in Runs(m + 1)
    <3> HIDE DEF h
    <3>1. QED  BY <2>3, <2>4
  <2> HIDE DEF Runs, h
  <2>6. m + 1 \in 1..n + 1 /\ Runs(m + 1) # {}
    BY <2>5
  <2>7. QED  BY <2>6
<1>3. 1..n + 1 \subseteq T
  <2> HIDE DEF T
  <2>1. QED  BY <1>1, <1>2, PlaceInduction
<1>4. n + 1 \in T
  <2> HIDE DEF T
  <2>1. QED  BY <1>3
<1>5. PICK f \in Runs(n + 1) : TRUE
  <2> HIDE DEF Runs
  <2>1. QED  BY <1>4
<1>6. n + 1 - 1 = n
  OBVIOUS
<1>7. QED  BY <1>5, <1>6 DEF RunsOf
=============================================================================
