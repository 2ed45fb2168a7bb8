---------------------------- MODULE SumTheorems ----------------------------
(***************************************************************************)
(* Facts about SumFunction of the community modules on finite sets: what   *)
(* the coins of the holders, the energy of the contributors and the        *)
(* deposits on a proposal add up to.  SumFunction adds the values in an    *)
(* order that CHOOSE picks; the function g of Additive has the sums over   *)
(* all subsets, in whatever order, and a smallest subset on which the two  *)
(* differ does not exist.                                                  *)
(***************************************************************************)
EXTENDS Integers, FiniteSets, Functions, FiniteSetTheorems, WellFoundedInduction, TLAPS

\* The smallest number with a property exists.
LEMMA LeastNumber ==
    ASSUME NEW T, T \subseteq Nat, T # {}
    PROVE  \E m \in T : \A k \in T : m <= k
<1> DEFINE R == OpToRel(<, Nat)
<1>1. IsWellFoundedOn(R, Nat)
  BY NatLessThanWellFounded
<1>2. \A k, m \in Nat : k < m => <<k, m>> \in R
  BY DEF OpToRel
<1> HIDE DEF R
<1>3. PICK m \in T : \A k \in T : ~(<<k, m>> \in R)
  BY <1>1, WFMin
<1>4. ASSUME NEW k \in T PROVE m <= k
  <2>1. k \in Nat /\ m \in Nat /\ ~(k < m)
    BY <1>2, <1>3
  <2>2. QED
    BY <2>1
<1>5. QED
  BY <1>4

\* Of a collection of finite sets that is not empty, one is smallest.
LEMMA SmallestSet ==
    ASSUME NEW C, C # {}, \A s \in C : IsFiniteSet(s)
    PROVE  \E s \in C : \A t \in C : ~(Cardinality(t) < Cardinality(s))
<1> DEFINE R == OpToRel(<, Nat)
           T == {Cardinality(s) : s \in C}
<1>1. T \subseteq Nat /\ T # {}
  BY FS_CardinalityType
<1>2. IsWellFoundedOn(R, Nat)
  BY NatLessThanWellFounded
<1>3. \A k, m \in Nat : k < m => <<k, m>> \in R
  BY DEF OpToRel
<1> HIDE DEF R, T
<1>4. PICK m \in T : \A k \in T : ~(<<k, m>> \in R)
  BY <1>1, <1>2, WFMin
<1>5. PICK s \in C : m = Cardinality(s)
  BY DEF T
<1>6. \A t \in C : Cardinality(t) \in T /\ Cardinality(t) \in Nat
  BY FS_CardinalityType DEF T
<1>7. QED
  BY <1>1, <1>3, <1>4, <1>5, <1>6

\* g sums f over the subsets of S.
Additive(g, f, S) ==
    /\ g \in [SUBSET S -> Int]
    /\ g[{}] = 0
    /\ \A t \in SUBSET S : \A x \in S \ t : g[t \cup {x}] = g[t] + f[x]

\* A finite set without one of its elements.
LEMMA OneLess ==
    ASSUME NEW s, IsFiniteSet(s), NEW x \in s
    PROVE  /\ IsFiniteSet(s \ {x}) /\ Cardinality(s \ {x}) < Cardinality(s)
           /\ x \notin s \ {x} /\ (s \ {x}) \cup {x} = s
<1>1. IsFiniteSet(s \ {x}) /\ Cardinality(s \ {x}) = Cardinality(s) - 1 /\ Cardinality(s) \in Nat
  BY FS_RemoveElement, FS_CardinalityType
<1>2. QED
  BY <1>1

\* Every function on a finite set has its sums.
LEMMA AdditiveExists ==
    ASSUME NEW S, IsFiniteSet(S), NEW f \in [S -> Int]
    PROVE  \E g : Additive(g, f, S)
<1> DEFINE Bad == {U \in SUBSET S : ~\E g : Additive(g, f, U)}
<1>1. SUFFICES ASSUME S \in Bad PROVE FALSE
  OBVIOUS
<1>2. \A U \in Bad : IsFiniteSet(U)
  BY FS_Subset
<1>3. PICK U \in Bad : \A V \in Bad : ~(Cardinality(V) < Cardinality(U))
  <2> HIDE DEF Bad
  <2>1. QED
    BY <1>1, <1>2, SmallestSet
<1>4. U \in SUBSET S /\ IsFiniteSet(U) /\ ~\E g : Additive(g, f, U)
  BY <1>2
<1>5. CASE U = {}
  <2>1. Additive([t \in SUBSET {} |-> 0], f, {})
    BY DEF Additive
  <2>2. QED
    BY <1>4, <1>5, <2>1
<1>6. ASSUME NEW x \in U PROVE FALSE
  <2> DEFINE V == U \ {x}
  <2>1. V \in SUBSET S /\ Cardinality(V) < Cardinality(U) /\ x \notin V /\ V \cup {x} = U
    BY <1>4, <1>6, OneLess
  <2>2. V \notin Bad
    BY <1>3, <2>1
  <2>3. PICK g : Additive(g, f, V)
    BY <2>1, <2>2
  <2> DEFINE e == [t \in SUBSET U |-> IF x \in t THEN g[t \ {x}] + f[x] ELSE g[t]]
  <2>4. f[x] \in Int
    BY <1>4, <1>6
  <2>5. \A t \in SUBSET U : /\ t \ {x} \in SUBSET V
                            /\ x \notin t => t \in SUBSET V
    OBVIOUS
  <2> HIDE DEF V
  <2>6. e \in [SUBSET U -> Int] /\ e[{}] = 0
    BY <2>3, <2>4, <2>5 DEF Additive
  <2>7. ASSUME NEW t \in SUBSET U, NEW y \in U \ t PROVE e[t \cup {y}] = e[t] + f[y]
    <3>1. CASE y = x
      <4>1. (t \cup {y}) \ {x} = t /\ x \in t \cup {y} /\ t \cup {y} \in SUBSET U /\ x \notin t
        BY <2>7, <3>1
      <4>2. QED
        BY <3>1, <4>1
    <3>2. CASE y # x
      <4>1. y \in V \ t
        BY <2>1, <2>7, <3>2
      <4>2. CASE x \in t
        <5>1. (t \cup {y}) \ {x} = (t \ {x}) \cup {y} /\ x \in t \cup {y} /\ t \cup {y} \in SUBSET U
          BY <2>7, <3>2, <4>2
        <5>2. t \ {x} \in SUBSET V /\ y \in V \ (t \ {x})
          BY <2>5, <4>1
        <5>3. g[(t \ {x}) \cup {y}] = g[t \ {x}] + f[y] /\ g[t \ {x}] \in Int
          BY <2>3, <5>2 DEF Additive
        <5>4. e[t \cup {y}] = g[(t \ {x}) \cup {y}] + f[x] /\ e[t] = g[t \ {x}] + f[x]
          BY <4>2, <5>1
        <5>5. f[y] \in Int
          BY <1>4
        <5>6. QED
          BY <2>4, <5>3, <5>4, <5>5
      <4>3. CASE x \notin t
        <5>1. t \in SUBSET V /\ x \notin t \cup {y} /\ t \cup {y} \in SUBSET U
          BY <2>5, <3>2, <4>3
        <5>2. g[t \cup {y}] = g[t] + f[y]
          BY <2>3, <4>1, <5>1 DEF Additive
        <5>3. QED
          BY <4>3, <5>1, <5>2
      <4>4. QED
        BY <4>2, <4>3
    <3>3. QED
      BY <3>1, <3>2
  <2>8. Additive(e, f, U)
    BY <2>6, <2>7 DEF Additive
  <2>9. QED
    BY <1>4, <2>8
<1>7. QED
  BY <1>5, <1>6

\* Those sums are what SumFunction computes, in whatever order.
LEMMA SumIsAdditive ==
    ASSUME NEW S, IsFiniteSet(S), NEW f \in [S -> Int], NEW g, Additive(g, f, S)
    PROVE  SumFunction(f) = g[S]
<1> DEFINE ch(s) == CHOOSE x \in s : TRUE
           Body(c) == [s \in SUBSET S |-> IF s = {} THEN 0 ELSE f[ch(s)] + c[s \ {ch(s)}]]
           C == CHOOSE c : c = Body(c)
<1>1. \A s \in SUBSET S : s # {} => ch(s) \in s
  OBVIOUS
<1>2. SumFunction(f) = C[S]
  BY Zenon DEF SumFunction, SumFunctionOnSet, FoldFunctionOnSet, MapThenFoldSet
<1> HIDE DEF ch
<1>3. g = Body(g)
  <2>1. ASSUME NEW s \in SUBSET S, s # {} PROVE g[s] = f[ch(s)] + g[s \ {ch(s)}]
    <3>1. ch(s) \in S \ (s \ {ch(s)}) /\ s \ {ch(s)} \in SUBSET S /\ (s \ {ch(s)}) \cup {ch(s)} = s
      BY <1>1, <2>1
    <3>2. g[s] = g[s \ {ch(s)}] + f[ch(s)] /\ g[s \ {ch(s)}] \in Int /\ f[ch(s)] \in Int
      BY <3>1 DEF Additive
    <3>3. QED
      BY <3>2
  <2>2. QED
    BY <2>1 DEF Additive
<1>4. C = Body(C)
  <2> HIDE DEF Body
  <2>1. QED
    BY <1>3
<1> HIDE DEF C
<1> DEFINE Bad == {s \in SUBSET S : C[s] # g[s]}
<1>5. SUFFICES ASSUME S \in Bad PROVE FALSE
  BY <1>2
<1>6. \A s \in Bad : IsFiniteSet(s)
  BY FS_Subset
<1>7. PICK s \in Bad : \A t \in Bad : ~(Cardinality(t) < Cardinality(s))
  <2> HIDE DEF Bad
  <2>1. QED
    BY <1>5, <1>6, SmallestSet
<1>8. s # {}
  <2>1. C[{}] = 0
    BY <1>4
  <2>2. QED
    BY <2>1 DEF Additive
<1>9. ch(s) \in s /\ s \in SUBSET S /\ IsFiniteSet(s)
  BY <1>1, <1>6, <1>8
<1>10. s \ {ch(s)} \notin Bad
  BY <1>7, <1>9, OneLess
<1>11. C[s \ {ch(s)}] = g[s \ {ch(s)}]
  BY <1>9, <1>10
<1>12. C[s] = f[ch(s)] + C[s \ {ch(s)}] /\ g[s] = f[ch(s)] + g[s \ {ch(s)}]
  BY <1>3, <1>4, <1>8, <1>9
<1>13. QED
  BY <1>7, <1>11, <1>12

\* The sum is an integer, and nothing sums up to nothing.
LEMMA SumFacts ==
    ASSUME NEW S, IsFiniteSet(S), NEW f \in [S -> Int]
    PROVE  /\ SumFunction(f) \in Int
           /\ (\A x \in S : f[x] = 0) => SumFunction(f) = 0
<1>1. PICK g : Additive(g, f, S)
  BY AdditiveExists
<1>2. SumFunction(f) = g[S] /\ g[S] \in Int
  BY <1>1, SumIsAdditive DEF Additive
<1>3. ASSUME \A x \in S : f[x] = 0 PROVE SumFunction(f) = 0
  <2> DEFINE z == [t \in SUBSET S |-> 0]
  <2>1. Additive(z, f, S)
    BY <1>3 DEF Additive
  <2>2. SumFunction(f) = z[S]
    BY <2>1, SumIsAdditive
  <2>3. QED
    BY <2>2
<1>4. QED
  BY <1>2, <1>3

\* A changed value changes the sum by the difference.
LEMMA SumExcept ==
    ASSUME NEW S, IsFiniteSet(S), NEW f \in [S -> Int], NEW a \in S, NEW v \in Int
    PROVE  SumFunction([f EXCEPT ![a] = v]) = SumFunction(f) + (v - f[a])
<1> DEFINE h == [f EXCEPT ![a] = v]
<1>1. PICK g : Additive(g, f, S)
  BY AdditiveExists
<1>2. SumFunction(f) = g[S]
  BY <1>1, SumIsAdditive
<1> DEFINE d == v - f[a]
           e == [t \in SUBSET S |-> IF a \in t THEN g[t] + d ELSE g[t]]
<1>3. d \in Int /\ h \in [S -> Int] /\ \A x \in S : h[x] = IF x = a THEN f[a] + d ELSE f[x]
  OBVIOUS
<1> HIDE DEF d, h
<1>4. e \in [SUBSET S -> Int] /\ e[{}] = 0
  BY <1>1, <1>3 DEF Additive
<1>5. ASSUME NEW t \in SUBSET S, NEW x \in S \ t PROVE e[t \cup {x}] = e[t] + h[x]
  <2>1. g[t \cup {x}] = g[t] + f[x] /\ g[t] \in Int /\ f[x] \in Int /\ t \cup {x} \in SUBSET S
    BY <1>1, <1>5 DEF Additive
  <2>2. CASE x = a
    <3>1. e[t] = g[t] /\ e[t \cup {x}] = g[t \cup {x}] + d /\ h[x] = f[x] + d
      BY <1>3, <1>5, <2>1, <2>2
    <3>2. QED
      BY <1>3, <2>1, <3>1
  <2>3. CASE x # a /\ a \in t
    <3>1. e[t] = g[t] + d /\ e[t \cup {x}] = g[t \cup {x}] + d /\ h[x] = f[x]
      BY <1>3, <1>5, <2>1, <2>3
    <3>2. QED
      BY <1>3, <2>1, <3>1
  <2>4. CASE x # a /\ a \notin t
    <3>1. e[t] = g[t] /\ e[t \cup {x}] = g[t \cup {x}] /\ h[x] = f[x]
      BY <1>3, <1>5, <2>1, <2>4
    <3>2. QED
      BY <2>1, <3>1
  <2>5. QED
    BY <2>2, <2>3, <2>4
<1>6. Additive(e, h, S)
  BY <1>4, <1>5 DEF Additive
<1>7. SumFunction(h) = e[S]
  BY <1>3, <1>6, SumIsAdditive
<1>8. e[S] = g[S] + d
  OBVIOUS
<1>9. QED
  BY <1>2, <1>7, <1>8 DEF d, h

\* What holds of each value up to a factor holds of the sums.
LEMMA SumScaled ==
    ASSUME NEW S, IsFiniteSet(S), NEW f \in [S -> Int], NEW w \in [S -> Int], NEW R \in Nat,
           \A x \in S : w[x] * R <= f[x]
    PROVE  SumFunction(w) * R <= SumFunction(f)
<1>1. PICK g : Additive(g, f, S)
  BY AdditiveExists
<1>2. PICK u : Additive(u, w, S)
  BY AdditiveExists
<1>3. SumFunction(f) = g[S] /\ SumFunction(w) = u[S]
  BY <1>1, <1>2, SumIsAdditive
<1> DEFINE Bad == {t \in SUBSET S : ~(u[t] * R <= g[t])}
<1>4. SUFFICES ASSUME S \in Bad PROVE FALSE
  BY <1>3
<1>5. \A s \in Bad : IsFiniteSet(s)
  BY FS_Subset
<1>6. PICK s \in Bad : \A t \in Bad : ~(Cardinality(t) < Cardinality(s))
  <2> HIDE DEF Bad
  <2>1. QED
    BY <1>4, <1>5, SmallestSet
<1>7. s # {}
  <2>1. u[{}] = 0 /\ g[{}] = 0 /\ 0 * R = 0
    BY <1>1, <1>2 DEF Additive
  <2>2. u[{}] * R = 0 * R
    BY <2>1, Zenon
  <2>3. {} \notin Bad
    BY <2>1, <2>2
  <2>4. QED
    BY <1>6, <2>3
<1>8. PICK x : x \in s
  BY <1>7
<1> DEFINE t == s \ {x}
<1>9. t \in SUBSET S /\ x \in S \ t /\ t \cup {x} = s /\ t \notin Bad
  BY <1>5, <1>6, <1>8, OneLess
<1> HIDE DEF t
<1>10. /\ g[s] = g[t] + f[x] /\ g[t] \in Int /\ f[x] \in Int
       /\ u[s] = u[t] + w[x] /\ u[t] \in Int /\ w[x] \in Int
  BY <1>1, <1>2, <1>9 DEF Additive
<1>11. u[t] * R <= g[t] /\ w[x] * R <= f[x]
  BY <1>9
<1>12. u[s] * R = u[t] * R + w[x] * R /\ u[t] * R \in Int /\ w[x] * R \in Int
  <2>1. \A a, b \in Int : (a + b) * R = a * R + b * R /\ a * R \in Int
    OBVIOUS
  <2>2. QED
    BY <1>10, <2>1
<1>13. QED
  BY <1>6, <1>10, <1>11, <1>12

\* g is f with m added for a and n added for b.
Moved(f, g, S, a, b, m, n) ==
    g = [x \in S |-> IF x = a THEN f[a] + m ELSE IF x = b THEN f[b] + n ELSE f[x]]

\* Two changed values change the sum by what they add.
LEMMA SumMoved ==
    ASSUME NEW S, IsFiniteSet(S), NEW f \in [S -> Int], NEW a \in S, NEW b \in S, a # b,
           NEW m \in Int, NEW n \in Int, NEW g, Moved(f, g, S, a, b, m, n)
    PROVE  SumFunction(g) = SumFunction(f) + (m + n)
<1> DEFINE h == [f EXCEPT ![a] = f[a] + m]
<1>1. h \in [S -> Int] /\ h[b] = f[b] /\ f[a] \in Int /\ f[b] \in Int
  OBVIOUS
<1>2. g = [h EXCEPT ![b] = h[b] + n]
  BY DEF Moved
<1>3. SumFunction(h) = SumFunction(f) + ((f[a] + m) - f[a])
  BY <1>1, SumExcept
<1> HIDE DEF h
<1>4. SumFunction(g) = SumFunction(h) + ((h[b] + n) - h[b])
  <2>1. h[b] + n \in Int
    BY <1>1
  <2>2. SumFunction([h EXCEPT ![b] = h[b] + n]) = SumFunction(h) + ((h[b] + n) - h[b])
    BY <1>1, <2>1, SumExcept
  <2>3. QED
    BY <1>2, <2>2, Zenon
<1>5. SumFunction(f) \in Int
  BY SumFacts
<1>6. QED
  BY <1>1, <1>3, <1>4, <1>5

\* A new value adds itself to the sum.
LEMMA SumAdded ==
    ASSUME NEW S, IsFiniteSet(S), NEW f \in [S -> Int], NEW a, a \notin S, NEW v \in Int, NEW h,
           h = [x \in S \cup {a} |-> IF x = a THEN v ELSE f[x]]
    PROVE  SumFunction(h) = SumFunction(f) + v
<1> DEFINE T == S \cup {a}
<1>1. IsFiniteSet(T) /\ h \in [T -> Int] /\ \A x \in T : h[x] = IF x = a THEN v ELSE f[x]
  BY FS_AddElement
<1>2. PICK g : Additive(g, h, T)
  BY <1>1, AdditiveExists
<1>3. SumFunction(h) = g[T]
  BY <1>1, <1>2, SumIsAdditive
<1>4. g[T] = g[S] + v /\ g[S] \in Int
  BY <1>1, <1>2 DEF Additive
<1> DEFINE e == [t \in SUBSET S |-> g[t]]
<1>5. Additive(e, f, S)
  <2>1. e \in [SUBSET S -> Int] /\ e[{}] = 0
    BY <1>2 DEF Additive
  <2>2. ASSUME NEW t \in SUBSET S, NEW x \in S \ t PROVE e[t \cup {x}] = e[t] + f[x]
    <3>1. t \in SUBSET T /\ x \in T \ t /\ x # a /\ h[x] = f[x] /\ t \cup {x} \in SUBSET S
      BY <1>1
    <3>2. g[t \cup {x}] = g[t] + h[x]
      BY <1>2, <3>1 DEF Additive
    <3>3. QED
      BY <3>1, <3>2
  <2>3. QED
    BY <2>1, <2>2 DEF Additive
<1>6. SumFunction(f) = g[S]
  <2>1. SumFunction(f) = e[S]
    BY <1>5, SumIsAdditive
  <2>2. QED
    BY <2>1
<1>7. QED
  BY <1>3, <1>4, <1>6

\* A sum of naturals is one.
LEMMA SumNat ==
    ASSUME NEW S, IsFiniteSet(S), NEW f \in [S -> Nat]
    PROVE  SumFunction(f) \in Nat /\ f \in [S -> Int]
<1> DEFINE w == [x \in S |-> 0]
<1>1. w \in [S -> Int] /\ f \in [S -> Int] /\ (\A x \in S : w[x] = 0) /\ \A x \in S : w[x] * 1 <= f[x]
  OBVIOUS
<1> HIDE DEF w
<1>2. SumFunction(w) = 0 /\ SumFunction(f) \in Int
  BY <1>1, SumFacts
<1>3. SumFunction(w) * 1 <= SumFunction(f)
  BY <1>1, SumScaled
<1>4. QED
  BY <1>1, <1>2, <1>3

\* The sums of two functions add up to the sum of both.
LEMMA SumPlus ==
    ASSUME NEW S, IsFiniteSet(S), NEW f \in [S -> Int], NEW g \in [S -> Int]
    PROVE  SumFunction([x \in S |-> f[x] + g[x]]) = SumFunction(f) + SumFunction(g)
<1> DEFINE h == [x \in S |-> f[x] + g[x]]
<1>1. PICK u : Additive(u, f, S)
  BY AdditiveExists
<1>2. PICK v : Additive(v, g, S)
  BY AdditiveExists
<1> DEFINE e == [t \in SUBSET S |-> u[t] + v[t]]
<1>3. h \in [S -> Int] /\ \A x \in S : h[x] = f[x] + g[x] /\ f[x] \in Int /\ g[x] \in Int
  OBVIOUS
<1> HIDE DEF h
<1>4. Additive(e, h, S)
  <2>1. e \in [SUBSET S -> Int] /\ e[{}] = 0
    BY <1>1, <1>2 DEF Additive
  <2>2. ASSUME NEW t \in SUBSET S, NEW x \in S \ t PROVE e[t \cup {x}] = e[t] + h[x]
    <3>1. /\ u[t \cup {x}] = u[t] + f[x] /\ v[t \cup {x}] = v[t] + g[x]
          /\ u[t] \in Int /\ v[t] \in Int /\ t \cup {x} \in SUBSET S
      BY <1>1, <1>2 DEF Additive
    <3>2. QED
      BY <1>3, <3>1
  <2>3. QED
    BY <2>1, <2>2 DEF Additive
<1>5. SumFunction(h) = e[S] /\ SumFunction(f) = u[S] /\ SumFunction(g) = v[S]
  BY <1>1, <1>2, <1>3, <1>4, SumIsAdditive
<1>6. QED
  BY <1>5 DEF h

\* A sum of equal terms.
LEMMA SumConstant ==
    ASSUME NEW S, IsFiniteSet(S), NEW c \in Int, NEW f \in [S -> Int], \A x \in S : f[x] = c
    PROVE  SumFunction(f) = c * Cardinality(S)
<1> DEFINE g == [t \in SUBSET S |-> c * Cardinality(t)]
<1>1. \A t \in SUBSET S : IsFiniteSet(t) /\ Cardinality(t) \in Nat
  BY FS_Subset, FS_CardinalityType
<1>2. Additive(g, f, S)
  <2>1. g \in [SUBSET S -> Int] /\ \A t \in SUBSET S : g[t] = c * Cardinality(t)
    BY <1>1
  <2>2. g[{}] = 0
    <3>1. Cardinality({}) = 0 /\ {} \in SUBSET S
      BY FS_EmptySet
    <3>2. QED
      BY <2>1, <3>1
  <2>3. ASSUME NEW t \in SUBSET S, NEW x \in S \ t PROVE g[t \cup {x}] = g[t] + f[x]
    <3> DEFINE m == Cardinality(t)
    <3>1. Cardinality(t \cup {x}) = m + 1 /\ m \in Nat /\ t \cup {x} \in SUBSET S
      BY <1>1, FS_AddElement
    <3>2. g[t \cup {x}] = c * (m + 1) /\ g[t] = c * m /\ f[x] = c
      BY <2>1, <3>1
    <3> HIDE DEF m, g
    <3>3. c * (m + 1) = c * m + c
      BY <3>1
    <3>4. QED
      BY <3>2, <3>3
  <2> HIDE DEF g
  <2>4. QED
    BY <2>1, <2>2, <2>3 DEF Additive
<1>3. SumFunction(f) = g[S]
  BY <1>2, SumIsAdditive
<1>4. QED
  BY <1>3

\* h is f with a value for a as well.
Extends(h, f, S, a) == h \in [S \cup {a} -> Int] /\ \A x \in S : h[x] = f[x]

\* A function with one value more has that much more as its sum.
LEMMA SumExtended ==
    ASSUME NEW S, IsFiniteSet(S), NEW f \in [S -> Int], NEW a, a \notin S,
           NEW h, Extends(h, f, S, a)
    PROVE  SumFunction(h) = SumFunction(f) + h[a]
<1> DEFINE T == S \cup {a}
<1>1. IsFiniteSet(T) /\ h \in [T -> Int] /\ \A x \in S : h[x] = f[x]
  BY FS_AddElement DEF Extends
<1>2. PICK g : Additive(g, h, T)
  BY <1>1, AdditiveExists
<1>3. SumFunction(h) = g[T]
  BY <1>1, <1>2, SumIsAdditive
<1>4. g[T] = g[S] + h[a] /\ g[S] \in Int
  BY <1>1, <1>2 DEF Additive
<1> DEFINE e == [t \in SUBSET S |-> g[t]]
<1>5. Additive(e, f, S)
  <2>1. e \in [SUBSET S -> Int] /\ e[{}] = 0
    BY <1>2 DEF Additive
  <2>2. ASSUME NEW t \in SUBSET S, NEW x \in S \ t PROVE e[t \cup {x}] = e[t] + f[x]
    <3>1. t \in SUBSET T /\ x \in T \ t /\ x # a /\ h[x] = f[x] /\ t \cup {x} \in SUBSET S
      BY <1>1
    <3>2. g[t \cup {x}] = g[t] + h[x]
      BY <1>2, <3>1 DEF Additive
    <3>3. QED
      BY <3>1, <3>2
  <2>3. QED
    BY <2>1, <2>2 DEF Additive
<1>6. SumFunction(f) = g[S]
  <2>1. SumFunction(f) = e[S]
    BY <1>5, SumIsAdditive
  <2>2. QED
    BY <2>1
<1>7. QED
  BY <1>3, <1>4, <1>6
=============================================================================
