------------------------------ MODULE Recursion ------------------------------
(***************************************************************************)
(* Facts about recursive functions and induction, for the proofs about     *)
(* operators on sequences.  They speak of sets and functions where the     *)
(* theorems of the library take an operator, which the provers cannot      *)
(* instantiate: a property is a set of numbers or arguments, the body of a *)
(* recursive definition is a function of a function and an argument.       *)
(***************************************************************************)
EXTENDS Naturals, WellFoundedInduction, TLAPS

\* A set of naturals that is not empty has a least member.
LEMMA NatMin ==
  ASSUME NEW T \in SUBSET Nat, T # {}
  PROVE  \E x \in T : \A y \in T : x <= y
<1> DEFINE R == OpToRel(<, Nat)
<1>1. IsWellFoundedOn(R, Nat)
  BY NatLessThanWellFounded
<1>2. R = {ss \in Nat \X Nat : ss[1] < ss[2]}
  BY DEF OpToRel
<1> HIDE DEF R
<1>3. PICK x \in T : \A y \in T : ~(<<y, x>> \in R)
  BY <1>1, WFMin
<1>4. \A y \in T : ~(y < x)
  BY <1>2, <1>3
<1> QED
  BY <1>4

\* A set of numbers that has a bound has a greatest one.
LEMMA Greatest ==
  ASSUME NEW n \in Nat, NEW T \in SUBSET (0..n), T # {}
  PROVE  \E x \in T : \A y \in T : y <= x
<1> DEFINE D == {n - x : x \in T}
<1>1. D \in SUBSET Nat /\ D # {}
  <2>1. \A x \in T : n - x \in Nat
    OBVIOUS
  <2> QED
    BY <2>1
<1>2. PICK d \in D : \A e \in D : d <= e
  BY <1>1, NatMin
<1>3. PICK x \in T : d = n - x
  BY <1>2
<1>4. ASSUME NEW y \in T PROVE y <= x
  <2>1. n - y \in D
    OBVIOUS
  <2>2. n - x <= n - y
    BY <1>2, <1>3, <2>1
  <2> QED
    BY <2>2
<1> QED
  BY <1>4

\* Induction: a set that has 0 and the successors of its members has all of
\* the naturals.
LEMMA NatInductionSet ==
  ASSUME NEW T, 0 \in T, \A n \in Nat : n \in T => n + 1 \in T
  PROVE  Nat \subseteq T
<1> SUFFICES ASSUME Nat \ T # {} PROVE FALSE
  OBVIOUS
<1>1. PICK x \in Nat \ T : \A y \in Nat \ T : x <= y
  BY NatMin
<1>2. x # 0
  OBVIOUS
<1>3. x - 1 \in Nat /\ (x - 1) + 1 = x
  BY <1>2
<1>4. x - 1 \in T
  BY <1>1, <1>3
<1> QED
  BY <1>1, <1>3, <1>4

\* A has each argument of which it has the lesser ones, by the measure m.
Climbs(S, m, A) == \A x \in S : (\A y \in S : m[y] < m[x] => y \in A) => x \in A

\* Such a set has every argument.
LEMMA MeasureInduction ==
  ASSUME NEW S, NEW m \in [S -> Nat], NEW A, Climbs(S, m, A)
  PROVE  S \subseteq A
<1> SUFFICES ASSUME S \ A # {} PROVE FALSE
  OBVIOUS
<1> DEFINE M == {m[x] : x \in S \ A}
<1>1. M \in SUBSET Nat /\ M # {}
  OBVIOUS
<1>2. PICK k \in M : \A j \in M : k <= j
  BY <1>1, NatMin
<1>3. PICK x \in S \ A : k = m[x]
  OBVIOUS
<1>4. ASSUME NEW y \in S, m[y] < m[x] PROVE y \in A
  <2> SUFFICES ASSUME y \notin A PROVE FALSE
    OBVIOUS
  <2>1. m[y] \in M
    OBVIOUS
  <2>2. k <= m[y] /\ k \in Nat /\ m[y] \in Nat
    BY <1>1, <1>2, <2>1
  <2> QED
    BY <1>3, <1>4, <2>2
<1> QED
  BY <1>3, <1>4 DEF Climbs

\* A function on the arguments has its values in T, if each is in T as soon as
\* those of lesser arguments are.
LEMMA RecursionType ==
  ASSUME NEW S, NEW T, NEW m \in [S -> Nat], NEW f, f = [x \in S |-> f[x]],
         Climbs(S, m, {x \in S : f[x] \in T})
  PROVE  f \in [S -> T]
<1>1. S \subseteq {x \in S : f[x] \in T}
  BY MeasureInduction
<1> QED
  BY <1>1

\* f satisfies the recursive definition whose body is G, as far as the measure
\* of the argument is below n.
Below(S, m, G, f, n) == \A x \in S : m[x] < n => f[x] = G[<<f, x>>]

\* The body looks at lesser arguments only.
Recurs(S, T, m, G) ==
  \A g, h \in [S -> T], x \in S :
    (\A y \in S : m[y] < m[x] => g[y] = h[y]) => G[<<g, x>>] = G[<<h, x>>]

\* Two functions that satisfy it up to a measure agree up to it.
LEMMA RecursionUnique ==
  ASSUME NEW S, NEW T, NEW m \in [S -> Nat], NEW G, Recurs(S, T, m, G),
         NEW n \in Nat, NEW f \in [S -> T], NEW g \in [S -> T],
         Below(S, m, G, f, n), Below(S, m, G, g, n)
  PROVE  \A x \in S : m[x] < n => f[x] = g[x]
<1> DEFINE A == {x \in S : m[x] < n => f[x] = g[x]}
<1>1. ASSUME NEW x \in S, \A y \in S : m[y] < m[x] => y \in A
      PROVE  x \in A
  <2> SUFFICES ASSUME m[x] < n PROVE f[x] = g[x]
    OBVIOUS
  <2>1. \A y \in S : m[y] < m[x] => f[y] = g[y]
    BY <1>1
  <2>2. G[<<f, x>>] = G[<<g, x>>]
    BY <2>1 DEF Recurs
  <2> QED
    BY <2>2 DEF Below
<1> HIDE DEF A
<1>2. S \subseteq A
  BY <1>1, MeasureInduction DEF Climbs
<1> QED
  BY <1>2 DEF A

\* There is a function that satisfies it up to any measure.
LEMMA RecursionBelow ==
  ASSUME NEW S, NEW T, T # {}, NEW m \in [S -> Nat],
         NEW G \in [[S -> T] \X S -> T], Recurs(S, T, m, G)
  PROVE  \A n \in Nat : \E f \in [S -> T] : Below(S, m, G, f, n)
<1> DEFINE A == {n \in Nat : \E f \in [S -> T] : Below(S, m, G, f, n)}
<1>1. 0 \in A
  <2>1. PICK t \in T : TRUE
    OBVIOUS
  <2>2. [x \in S |-> t] \in [S -> T]
    OBVIOUS
  <2>3. \A f : Below(S, m, G, f, 0)
    BY DEF Below
  <2> QED
    BY <2>2, <2>3
<1>2. ASSUME NEW n \in Nat, n \in A PROVE n + 1 \in A
  <2>1. PICK f \in [S -> T] : Below(S, m, G, f, n)
    BY <1>2
  <2> DEFINE g == [x \in S |-> G[<<f, x>>]]
  <2>2. g \in [S -> T]
    OBVIOUS
  <2>3. ASSUME NEW x \in S, m[x] < n + 1 PROVE g[x] = G[<<g, x>>]
    <3>1. \A y \in S : m[y] < m[x] => f[y] = g[y]
      BY <2>1, <2>3 DEF Below
    <3> QED
      BY <2>2, <3>1 DEF Recurs
  <2> HIDE DEF g
  <2>4. Below(S, m, G, g, n + 1)
    BY <2>3 DEF Below
  <2> QED
    BY <2>2, <2>4
<1> HIDE DEF A
<1>3. Nat \subseteq A
  BY <1>1, <1>2, NatInductionSet
<1> QED
  BY <1>3 DEF A

\* f satisfies it for every argument.
Satisfies(S, G, f) == \A x \in S : f[x] = G[<<f, x>>]

\* A recursive definition whose body looks at lesser arguments only is the
\* definition of a function.
THEOREM RecursionExists ==
  ASSUME NEW S, NEW T, T # {}, NEW m \in [S -> Nat],
         NEW G \in [[S -> T] \X S -> T], Recurs(S, T, m, G)
  PROVE  \E f \in [S -> T] : Satisfies(S, G, f)
<1> DEFINE F(n) == CHOOSE f \in [S -> T] : Below(S, m, G, f, n)
           f == [x \in S |-> F(m[x] + 1)[x]]
<1>1. \A n \in Nat : F(n) \in [S -> T] /\ Below(S, m, G, F(n), n)
  BY RecursionBelow
<1> HIDE DEF F
<1>2. f \in [S -> T]
  BY <1>1
<1>3. ASSUME NEW x \in S PROVE f[x] = G[<<f, x>>]
  <2> DEFINE g == F(m[x] + 1)
  <2>1. m[x] \in Nat /\ m[x] + 1 \in Nat
    OBVIOUS
  <2>2. g \in [S -> T] /\ Below(S, m, G, g, m[x] + 1)
    BY <1>1, <2>1
  <2>3. ASSUME NEW y \in S, m[y] < m[x] PROVE f[y] = g[y]
    <3> DEFINE h == F(m[y] + 1)
    <3>1. m[y] + 1 \in Nat /\ m[y] < m[y] + 1 /\ m[y] + 1 <= m[x] + 1
      BY <2>3
    <3>2. h \in [S -> T] /\ Below(S, m, G, h, m[y] + 1)
      BY <1>1, <3>1
    <3>3. Below(S, m, G, g, m[y] + 1)
      BY <2>1, <2>2, <3>1 DEF Below
    <3> HIDE DEF g, h
    <3>4. h[y] = g[y]
      BY <2>2, <3>1, <3>2, <3>3, RecursionUnique
    <3> QED
      BY <3>4 DEF h
  <2>4. G[<<f, x>>] = G[<<g, x>>]
    BY <1>2, <2>2, <2>3 DEF Recurs
  <2>5. f[x] = g[x]
    OBVIOUS
  <2> HIDE DEF f, g
  <2>6. m[x] < m[x] + 1
    BY <2>1
  <2>7. g[x] = G[<<g, x>>]
    BY <2>2, <2>6 DEF Below
  <2> QED
    BY <2>4, <2>5, <2>7
<1> HIDE DEF f
<1> QED
  BY <1>2, <1>3 DEF Satisfies
=============================================================================
