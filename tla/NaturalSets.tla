---------------------------- MODULE NaturalSets ----------------------------
(***************************************************************************)
(* Least and greatest elements of finite sets, which the models choose     *)
(* when they speak of the last, the newest or the next; steps repeated any *)
(* number of times; and sums over finite sets, as the folds of the         *)
(* community modules compute them.                                         *)
(***************************************************************************)
EXTENDS FiniteSetTheorems, TLAPS

(* A set of numbers that is not empty has a least element.                 *)
LEMMA LeastNatural ==
  ASSUME NEW T, T \subseteq Nat, T # {}
  PROVE  \E m \in T : \A k \in T : m <= k
<1>. DEFINE R == {ss \in Nat \X Nat : ss[1] < ss[2]}
<1>1. IsWellFoundedOn(R, Nat)
  BY NatLessThanWellFounded DEF OpToRel
<1>2. PICK m \in T : \A k \in T : <<k, m>> \notin R
  BY <1>1, WFMin
<1>3. ASSUME NEW k \in T PROVE m <= k
  <2>1. k \in Nat /\ m \in Nat /\ <<k, m>> \in Nat \X Nat  OBVIOUS
  <2>2. ~ (k < m)  BY <1>2, <2>1
  <2>. QED  BY <2>1, <2>2
<1>. QED  BY <1>3

(* A set of indices that is not empty has a last one.                      *)
LEMMA GreatestIndex ==
  ASSUME NEW n \in Nat, NEW S, S \subseteq 1 .. n, S # {}
  PROVE  \E i \in S : \A j \in S : j <= i
<1>. DEFINE T == {n - i : i \in S}
<1>1. T \subseteq Nat /\ T # {}
  <2>1. ASSUME NEW i \in S PROVE n - i \in Nat  OBVIOUS
  <2>2. T \subseteq Nat  BY <2>1
  <2>3. PICK i \in S : TRUE  OBVIOUS
  <2>4. n - i \in T  BY <2>3
  <2>. QED  BY <2>2, <2>4
<1>2. PICK m \in T : \A k \in T : m <= k
  <2>. HIDE DEF T
  <2>. QED  BY <1>1, LeastNatural
<1>3. PICK i \in S : m = n - i  OBVIOUS
<1>4. ASSUME NEW j \in S PROVE j <= i
  <2>1. n - j \in T  OBVIOUS
  <2>2. n - i <= n - j  BY <1>2, <1>3, <2>1
  <2>3. i \in Nat /\ j \in Nat  OBVIOUS
  <2>. QED  BY <2>2, <2>3
<1>. QED  BY <1>4

(* A function on finitely many indices has a greatest value.               *)
LEMMA GreatestValue ==
  ASSUME NEW n \in Nat, NEW L, L \subseteq 1 .. n, L # {},
         NEW f, \A i \in L : f[i] \in Int
  PROVE  \E i \in L : \A j \in L : f[j] <= f[i]
\* i is greatest among the indices above m
<1>. DEFINE Above(m, i) == \A j \in L : j > m => f[j] <= f[i]
            T == {m \in 0 .. n : \E i \in L : Above(m, i)}
<1>1. n \in T
  <2>1. PICK i \in L : TRUE  OBVIOUS
  <2>2. \A j \in L : ~ (j > n)  OBVIOUS
  <2>3. Above(n, i)  BY <2>2
  <2>. QED  BY <2>1, <2>3
<1>2. PICK m \in T : \A k \in T : m <= k
  <2>1. T \subseteq Nat /\ T # {}  BY <1>1
  <2>. HIDE DEF T
  <2>. QED  BY <2>1, LeastNatural
<1>3. PICK i \in L : Above(m, i)  OBVIOUS
<1>4. m \in 0 .. n  OBVIOUS
<1>5. CASE m = 0
  <2>1. \A j \in L : j > 0  OBVIOUS
  <2>. QED  BY <1>3, <1>5, <2>1
<1>6. CASE m > 0
  <2>1. m - 1 \in 0 .. n /\ m - 1 < m  BY <1>4, <1>6
  <2>2. ASSUME NEW k \in L, Above(m - 1, k) PROVE FALSE
    <3>1. m - 1 \in T  BY <2>1, <2>2
    <3>2. m <= m - 1
      <4>. HIDE DEF T
      <4>. QED  BY <1>2, <3>1
    <3>. QED  BY <1>4, <3>2
  <2>3. \A j \in L : j > m - 1 => j > m \/ j = m  BY <1>4
  <2>4. CASE m \notin L
    <3>1. Above(m - 1, i)  BY <1>3, <2>3, <2>4
    <3>. QED  BY <2>2, <3>1
  <2>5. CASE m \in L /\ f[m] <= f[i]
    <3>1. Above(m - 1, i)  BY <1>3, <2>3, <2>5
    <3>. QED  BY <2>2, <3>1
  <2>6. CASE m \in L /\ ~ (f[m] <= f[i])
    <3>1. f[m] \in Int /\ f[i] \in Int /\ f[i] <= f[m]  BY <2>6
    <3>2. Above(m - 1, m)
      <4>. SUFFICES ASSUME NEW j \in L, j > m - 1 PROVE f[j] <= f[m]
        OBVIOUS
      <4>1. f[j] \in Int  OBVIOUS
      <4>2. CASE j > m  BY <1>3, <3>1, <4>1, <4>2
      <4>3. CASE j = m  BY <3>1, <4>3
      <4>. QED  BY <2>3, <4>2, <4>3
    <3>. QED  BY <2>2, <2>6, <3>2
  <2>. QED  BY <2>4, <2>5, <2>6
<1>. QED  BY <1>4, <1>5, <1>6

(* A step can be repeated from a start any number of times.                *)
Repeatable(X, c, g) ==
  \E f \in [Nat -> X] : f[0] = c /\ \A n \in Nat : f[n + 1] = g[f[n]]

LEMMA Iteration ==
  ASSUME NEW X, NEW c \in X, NEW g \in [X -> X]
  PROVE  Repeatable(X, c, g)
\* the first n repetitions
<1>. DEFINE First(n) == {f \in [0 .. n -> X] : /\ f[0] = c
                                               /\ \A k \in Nat : k < n => f[k + 1] = g[f[k]]}
<1>1. ASSUME NEW n \in Nat PROVE First(n) # {}
  <2>. DEFINE T == {k \in Nat : First(k) = {}}
  <2>. SUFFICES ASSUME T # {} PROVE FALSE
    OBVIOUS
  <2>1. PICK m \in T : \A k \in T : m <= k
    <3>1. T \subseteq Nat  OBVIOUS
    <3>. HIDE DEF T
    <3>. QED  BY <3>1, LeastNatural
  <2>2. m \in Nat /\ First(m) = {}  OBVIOUS
  <2>3. CASE m = 0
    <3>1. [k \in 0 .. 0 |-> c] \in First(0)  OBVIOUS
    <3>. QED  BY <2>2, <2>3, <3>1
  <2>4. CASE m # 0
    <3>. DEFINE h == m - 1
    <3>1. h \in Nat /\ h + 1 = m /\ ~ (m <= h)  BY <2>2, <2>4
    <3>. HIDE DEF h
    <3>2. First(h) # {}
      <4>1. h \notin T
        <5>. HIDE DEF T
        <5>. QED  BY <2>1, <3>1
      <4>. QED  BY <3>1, <4>1
    <3>3. PICK f \in First(h) : TRUE  BY <3>2
    <3>4. /\ f \in [0 .. h -> X] /\ f[0] = c
          /\ \A k \in Nat : k < h => f[k + 1] = g[f[k]]
      OBVIOUS
    <3>. DEFINE e == [k \in 0 .. m |-> IF k = m THEN g[f[h]] ELSE f[k]]
    <3>5. \A k \in 0 .. m : k = m \/ k \in 0 .. h  BY <3>1
    <3>6. h \in 0 .. h /\ 0 \in 0 .. h /\ m # 0  BY <2>4, <3>1
    <3>7. f[h] \in X /\ g[f[h]] \in X  BY <3>4, <3>6
    <3>8. e \in [0 .. m -> X]  BY <3>4, <3>5, <3>7
    <3>9. e[0] = c  BY <2>2, <3>4, <3>6
    <3>10. ASSUME NEW k \in Nat, k < m PROVE e[k + 1] = g[e[k]]
      <4>1. k \in 0 .. m /\ k + 1 \in 0 .. m /\ k # m  BY <2>2, <3>10
      <4>2. e[k] = f[k]  BY <4>1
      <4>3. CASE k = h
        <5>1. e[k + 1] = g[f[h]]  BY <3>1, <4>1, <4>3
        <5>. QED  BY <4>2, <4>3, <5>1
      <4>4. CASE k # h
        <5>1. k < h /\ k + 1 # m  BY <3>1, <3>10, <4>4
        <5>2. e[k + 1] = f[k + 1]  BY <4>1, <5>1
        <5>. QED  BY <3>4, <4>2, <5>1, <5>2
      <4>. QED  BY <4>3, <4>4
    <3>. HIDE DEF e
    <3>11. e \in First(m)  BY <3>8, <3>9, <3>10
    <3>. QED  BY <2>2, <3>11
  <2>. QED  BY <2>3, <2>4
<1>2. ASSUME NEW n \in Nat, NEW f \in First(n), NEW h \in First(n + 1)
      PROVE  f[n] = h[n]
  <2>. DEFINE T == {k \in Nat : k <= n /\ f[k] # h[k]}
  <2>1. /\ f[0] = c /\ h[0] = c
        /\ \A k \in Nat : k < n => f[k + 1] = g[f[k]] /\ h[k + 1] = g[h[k]]
    OBVIOUS
  <2>2. ASSUME T # {} PROVE FALSE
    <3>1. PICK m \in T : \A k \in T : m <= k
      <4>1. T \subseteq Nat  OBVIOUS
      <4>. HIDE DEF T
      <4>. QED  BY <2>2, <4>1, LeastNatural
    <3>2. m \in Nat /\ m <= n /\ f[m] # h[m]  OBVIOUS
    <3>3. m # 0  BY <2>1, <3>2
    <3>. DEFINE j == m - 1
    <3>4. j \in Nat /\ j < n /\ j + 1 = m /\ ~ (m <= j)  BY <3>2, <3>3
    <3>. HIDE DEF j
    <3>5. f[j] = h[j]
      <4>1. j \notin T
        <5>. HIDE DEF T
        <5>. QED  BY <3>1, <3>4
      <4>. QED  BY <3>4, <4>1
    <3>6. f[j + 1] = g[f[j]] /\ h[j + 1] = g[h[j]]  BY <2>1, <3>4
    <3>. QED  BY <3>2, <3>4, <3>5, <3>6
  <2>3. n \notin T  BY <2>2
  <2>. QED  BY <2>3
<1>. DEFINE F(n) == CHOOSE f \in First(n) : TRUE
            f == [n \in Nat |-> F(n)[n]]
<1>3. \A n \in Nat : F(n) \in First(n)  BY <1>1
<1>4. ASSUME NEW n \in Nat
      PROVE  /\ F(n) \in [0 .. n -> X] /\ F(n)[0] = c
             /\ \A k \in Nat : k < n => F(n)[k + 1] = g[F(n)[k]]
  <2>. DEFINE e == F(n)
  <2>1. e \in First(n)  BY <1>3
  <2>. HIDE DEF e
  <2>2. e \in [0 .. n -> X] /\ e[0] = c /\ \A k \in Nat : k < n => e[k + 1] = g[e[k]]
    BY <2>1
  <2>. QED  BY <2>2 DEF e
<1>5. ASSUME NEW n \in Nat PROVE F(n)[n] = F(n + 1)[n]
  <2>1. n + 1 \in Nat  OBVIOUS
  <2>2. F(n) \in First(n) /\ F(n + 1) \in First(n + 1)  BY <1>3, <2>1
  <2>. HIDE DEF F, First
  <2>. QED  BY <1>2, <2>2
<1>. HIDE DEF F, First
<1>6. f \in [Nat -> X]
  <2>1. \A n \in Nat : F(n)[n] \in X  BY <1>4
  <2>. QED  BY <2>1
<1>7. f[0] = c  BY <1>4
<1>8. ASSUME NEW n \in Nat PROVE f[n + 1] = g[f[n]]
  <2>1. n + 1 \in Nat /\ n < n + 1  OBVIOUS
  <2>2. F(n + 1)[n + 1] = g[F(n + 1)[n]]  BY <1>4, <2>1
  <2>. QED  BY <1>5, <2>1, <2>2
<1>. HIDE DEF f
<1>. QED  BY <1>6, <1>7, <1>8 DEF Repeatable

(* What starts in a set and steps within it stays in it.                   *)
LEMMA IterationStays ==
  ASSUME NEW X, NEW h, h[0] \in X, \A n \in Nat : h[n] \in X => h[n + 1] \in X
  PROVE  \A n \in Nat : h[n] \in X
<1>. DEFINE T == {k \in Nat : h[k] \notin X}
<1>1. ASSUME T # {} PROVE FALSE
  <2>1. PICK m \in T : \A k \in T : m <= k
    <3>1. T \subseteq Nat  OBVIOUS
    <3>. HIDE DEF T
    <3>. QED  BY <1>1, <3>1, LeastNatural
  <2>2. m \in Nat /\ h[m] \notin X /\ m # 0  OBVIOUS
  <2>. DEFINE j == m - 1
  <2>3. j \in Nat /\ j + 1 = m /\ ~ (m <= j)  BY <2>2
  <2>. HIDE DEF j
  <2>4. j \notin T
    <3>. HIDE DEF T
    <3>. QED  BY <2>1, <2>3
  <2>. QED  BY <2>2, <2>3, <2>4
<1>. QED  BY <1>1

(* Among subsets of a finite set there is one of which no part with one    *)
(* element less is another.                                                *)
LEMMA LeastSubset ==
  ASSUME NEW S, IsFiniteSet(S), NEW T, T \subseteq SUBSET S, T # {}
  PROVE  \E s \in T : \A x \in s : s \ {x} \notin T
<1>1. ASSUME NEW s \in T PROVE IsFiniteSet(s) /\ Cardinality(s) \in Nat
  <2>1. s \in SUBSET S  OBVIOUS
  <2>. QED  BY <2>1, FS_Subset, FS_CardinalityType
<1>. DEFINE C == {Cardinality(s) : s \in T}
<1>2. PICK n \in C : \A k \in C : n <= k
  <2>1. C \subseteq Nat /\ C # {}  BY <1>1
  <2>. HIDE DEF C
  <2>. QED  BY <2>1, LeastNatural
<1>3. PICK s \in T : n = Cardinality(s)  OBVIOUS
<1>4. ASSUME NEW x \in s, s \ {x} \in T PROVE FALSE
  <2>. DEFINE r == s \ {x}
  <2>1. Cardinality(r) = Cardinality(s) - 1  BY <1>1, FS_RemoveElement
  <2>2. Cardinality(r) \in C  BY <1>4
  <2>3. Cardinality(s) <= Cardinality(r)  BY <1>2, <1>3, <2>2
  <2>4. Cardinality(s) \in Nat  BY <1>1
  <2>. HIDE DEF r
  <2>. QED  BY <2>1, <2>3, <2>4
<1>. QED  BY <1>4

-----------------------------------------------------------------------------
(* Sums.  The function the folds of the community modules choose: it adds  *)
(* up f over every part of S, one element after the other.                 *)
OneOf(s) == CHOOSE x \in s : TRUE
Sums(f, S, it) ==
  it = [s \in SUBSET S |-> IF s = {} THEN 0 ELSE f[OneOf(s)] + it[s \ {OneOf(s)}]]
Summable(f, S) == \E it : Sums(f, S, it)

LEMMA SumsOf ==
  ASSUME NEW S, NEW f, NEW it, Sums(f, S, it)
  PROVE  /\ it[{}] = 0
         /\ \A s \in SUBSET S : s # {} =>
              /\ OneOf(s) \in s /\ s \ {OneOf(s)} \in SUBSET S
              /\ it[s] = f[OneOf(s)] + it[s \ {OneOf(s)}]
<1>1. \A s \in SUBSET S :
        it[s] = IF s = {} THEN 0 ELSE f[OneOf(s)] + it[s \ {OneOf(s)}]
  BY DEF Sums
<1>2. \A s : s # {} => OneOf(s) \in s  BY DEF OneOf
<1>3. {} \in SUBSET S  OBVIOUS
<1>. QED  BY <1>1, <1>2, <1>3

(* There is such a function for every finite set.                          *)
LEMMA Summation ==
  ASSUME NEW S, IsFiniteSet(S), NEW f
  PROVE  Summable(f, S)
\* it, as far as the sets of at most n elements go
<1>. DEFINE Body(it, s) == IF s = {} THEN 0 ELSE f[OneOf(s)] + it[s \ {OneOf(s)}]
            Upto(n, it) == \A s \in SUBSET S : Cardinality(s) <= n => it[s] = Body(it, s)
            T == {n \in Nat : ~ \E it : Upto(n, it)}
<1>1. \A s \in SUBSET S : IsFiniteSet(s) /\ Cardinality(s) \in Nat
                          /\ Cardinality(s) <= Cardinality(S)
  BY FS_Subset, FS_CardinalityType
<1>2. ASSUME NEW s \in SUBSET S, s # {}
      PROVE  /\ s \ {OneOf(s)} \in SUBSET S
             /\ Cardinality(s \ {OneOf(s)}) = Cardinality(s) - 1
  <2>1. OneOf(s) \in s  BY <1>2 DEF OneOf
  <2>. QED  BY <1>1, <2>1, FS_RemoveElement
<1>3. \E it : Upto(0, it)
  <2>. DEFINE z == [s \in SUBSET S |-> 0]
  <2>1. \A s \in SUBSET S : Cardinality(s) <= 0 => s = {}
    <3>1. \A s \in SUBSET S : Cardinality(s) <= 0 => Cardinality(s) = 0  BY <1>1
    <3>. QED  BY <1>1, <3>1, FS_EmptySet
  <2>2. Upto(0, z)  BY <2>1
  <2>. QED  BY <2>2
<1>4. ASSUME NEW n \in Nat, NEW it, Upto(n, it) PROVE \E h : Upto(n + 1, h)
  <2>. DEFINE h == [s \in SUBSET S |-> IF Cardinality(s) <= n THEN it[s] ELSE Body(it, s)]
  <2>1. ASSUME NEW s \in SUBSET S, Cardinality(s) <= n + 1 PROVE h[s] = Body(h, s)
    <3>1. h[s] = Body(it, s)
      <4>1. CASE Cardinality(s) <= n
        <5>1. it[s] = Body(it, s)  BY <1>4, <4>1
        <5>2. h[s] = it[s]  BY <4>1
        <5>. HIDE DEF h, Body
        <5>. QED  BY <5>1, <5>2
      <4>2. CASE ~ (Cardinality(s) <= n)  BY <4>2
      <4>. QED  BY <4>1, <4>2
    <3>2. s # {} => h[s \ {OneOf(s)}] = it[s \ {OneOf(s)}]
      <4>. SUFFICES ASSUME s # {} PROVE h[s \ {OneOf(s)}] = it[s \ {OneOf(s)}]
        OBVIOUS
      <4>. DEFINE r == s \ {OneOf(s)}
      <4>1. r \in SUBSET S /\ Cardinality(r) = Cardinality(s) - 1  BY <1>2
      <4>2. Cardinality(r) <= n  BY <1>1, <2>1, <4>1
      <4>. HIDE DEF r
      <4>3. h[r] = it[r]  BY <4>1, <4>2
      <4>. HIDE DEF h
      <4>. QED  BY <4>3 DEF r
    <3>. HIDE DEF h
    <3>. QED  BY <3>1, <3>2
  <2>. HIDE DEF h
  <2>2. Upto(n + 1, h)  BY <2>1
  <2>. QED  BY <2>2
<1>. HIDE DEF Upto
<1>5. ASSUME T # {} PROVE FALSE
  <2>1. PICK m \in T : \A k \in T : m <= k
    <3>1. T \subseteq Nat  OBVIOUS
    <3>. HIDE DEF T
    <3>. QED  BY <1>5, <3>1, LeastNatural
  <2>2. m \in Nat /\ (~ \E it : Upto(m, it)) /\ m # 0  BY <1>3
  <2>. DEFINE j == m - 1
  <2>3. j \in Nat /\ j + 1 = m /\ ~ (m <= j)  BY <2>2
  <2>. HIDE DEF j
  <2>4. j \notin T
    <3>. HIDE DEF T
    <3>. QED  BY <2>1, <2>3
  <2>5. PICK it : Upto(j, it)  BY <2>3, <2>4
  <2>. QED  BY <1>4, <2>2, <2>3, <2>5
<1>6. PICK it : Upto(Cardinality(S), it)
  <2>1. Cardinality(S) \in Nat  BY FS_CardinalityType
  <2>. QED  BY <1>5, <2>1
<1>. DEFINE e == [s \in SUBSET S |-> it[s]]
<1>7. \A s \in SUBSET S : e[s] = IF s = {} THEN 0 ELSE f[OneOf(s)] + e[s \ {OneOf(s)}]
  <2>. SUFFICES ASSUME NEW s \in SUBSET S
                PROVE  e[s] = IF s = {} THEN 0 ELSE f[OneOf(s)] + e[s \ {OneOf(s)}]
    OBVIOUS
  <2>1. it[s] = Body(it, s)  BY <1>1, <1>6 DEF Upto
  <2>2. s # {} => s \ {OneOf(s)} \in SUBSET S  BY <1>2
  <2>. QED  BY <2>1, <2>2
<1>8. e = [s \in SUBSET S |-> e[s]]  OBVIOUS
<1>. HIDE DEF e
<1>9. e = [s \in SUBSET S |-> IF s = {} THEN 0 ELSE f[OneOf(s)] + e[s \ {OneOf(s)}]]
  BY <1>7, <1>8
<1>. QED  BY <1>9 DEF Sums, Summable

(* A finite set counted by a key: the counts of the keys add up.           *)
Counts(f, S, R, key) == \A x \in S : f[x] = Cardinality({r \in R : key[r] = x})
WithKeyIn(R, key, s) == {r \in R : key[r] \in s}

LEMMA SumOfCounts ==
  ASSUME NEW S, IsFiniteSet(S), NEW f, NEW it, Sums(f, S, it),
         NEW R, IsFiniteSet(R), NEW key, Counts(f, S, R, key)
  PROVE  \A s \in SUBSET S : it[s] = Cardinality(WithKeyIn(R, key, s))
<1>. DEFINE In(s) == {r \in R : key[r] \in s}
            T == {s \in SUBSET S : it[s] # Cardinality(In(s))}
<1>1. ASSUME T # {} PROVE FALSE
  <2>1. PICK s \in T : \A x \in s : s \ {x} \notin T
    <3>1. T \subseteq SUBSET S  OBVIOUS
    <3>. HIDE DEF T
    <3>. QED  BY <1>1, <3>1, LeastSubset
  <2>2. s \in SUBSET S /\ it[s] # Cardinality(In(s))  OBVIOUS
  <2>3. s # {}
    <3>1. In({}) = {}  OBVIOUS
    <3>. HIDE DEF In, T
    <3>2. Cardinality(In({})) = 0  BY <3>1, FS_EmptySet
    <3>3. it[{}] = 0  BY SumsOf
    <3>. QED  BY <2>2, <3>2, <3>3
  <2>. DEFINE x == OneOf(s)
              q == s \ {x}
              A == {r \in R : key[r] = x}
  <2>4. x \in s /\ q \in SUBSET S /\ it[s] = f[x] + it[q]  BY <2>2, <2>3, SumsOf
  <2>5. f[x] = Cardinality(A)  BY <2>2, <2>4 DEF Counts
  <2>6. it[q] = Cardinality(In(q))
    <3>1. q \notin T
      <4>. HIDE DEF T
      <4>. QED  BY <2>1, <2>4
    <3>. QED  BY <2>4, <3>1
  <2>7. In(s) = A \cup In(q) /\ A \cap In(q) = {}
    <3>1. x \in s  BY <2>4
    <3>. HIDE DEF x
    <3>. QED  BY <3>1
  <2>8. IsFiniteSet(A) /\ IsFiniteSet(In(q))
    <3>1. A \in SUBSET R /\ In(q) \in SUBSET R  OBVIOUS
    <3>. HIDE DEF A, In
    <3>. QED  BY <3>1, FS_Subset
  <2>. HIDE DEF A, In, q, x
  <2>9. Cardinality(In(s)) = Cardinality(A) + Cardinality(In(q))
    <3>1. Cardinality(A \cap In(q)) = 0  BY <2>7, FS_EmptySet
    <3>2. Cardinality(A) \in Nat /\ Cardinality(In(q)) \in Nat  BY <2>8, FS_CardinalityType
    <3>3. Cardinality(A \cup In(q)) = Cardinality(A) + Cardinality(In(q)) - Cardinality(A \cap In(q))
      BY <2>8, FS_Union
    <3>. QED  BY <2>7, <3>1, <3>2, <3>3
  <2>. QED  BY <2>2, <2>4, <2>5, <2>6, <2>9
<1>. QED  BY <1>1 DEF WithKeyIn

(* Sums of numbers are numbers, and ordered as what they sum up is.        *)
Ordered(c, f, d, g, S) ==
  \A x \in S : f[x] \in Nat /\ g[x] \in Nat /\ c * f[x] <= d * g[x]

LEMMA SumsOrdered ==
  ASSUME NEW S, IsFiniteSet(S), NEW f, NEW it, Sums(f, S, it),
         NEW g, NEW jt, Sums(g, S, jt), NEW c \in Nat, NEW d \in Nat,
         Ordered(c, f, d, g, S)
  PROVE  Ordered(c, it, d, jt, SUBSET S)
<1>. DEFINE Ok(s) == it[s] \in Nat /\ jt[s] \in Nat /\ c * it[s] <= d * jt[s]
            T == {s \in SUBSET S : ~ Ok(s)}
<1>0a. /\ it[{}] = 0
      /\ \A s \in SUBSET S : s # {} =>
           /\ OneOf(s) \in s /\ s \ {OneOf(s)} \in SUBSET S
           /\ it[s] = f[OneOf(s)] + it[s \ {OneOf(s)}]
  BY SumsOf
<1>0b. /\ jt[{}] = 0
      /\ \A s \in SUBSET S : s # {} =>
           jt[s] = g[OneOf(s)] + jt[s \ {OneOf(s)}]
  BY SumsOf
<1>1. ASSUME T # {} PROVE FALSE
  <2>1. PICK s \in T : \A x \in s : s \ {x} \notin T
    <3>1. T \subseteq SUBSET S  OBVIOUS
    <3>. HIDE DEF T
    <3>. QED  BY <1>1, <3>1, LeastSubset
  <2>2. s \in SUBSET S /\ ~ Ok(s)  OBVIOUS
  <2>3. s # {}
    <3>1. it[{}] = 0 /\ jt[{}] = 0  BY <1>0a, <1>0b
    <3>2. Ok({})  BY <3>1
    <3>. HIDE DEF Ok, T
    <3>. QED  BY <2>2, <3>2
  <2>. DEFINE x == OneOf(s)
              q == s \ {x}
  <2>4. x \in s /\ q \in SUBSET S /\ it[s] = f[x] + it[q] /\ jt[s] = g[x] + jt[q]
    <3>1. s \in SUBSET S /\ s # {}  BY <2>2, <2>3
    <3>. HIDE DEF Ok, T
    <3>2. x \in s /\ q \in SUBSET S /\ it[s] = f[x] + it[q]  BY <1>0a, <3>1
    <3>3. jt[s] = g[x] + jt[q]  BY <1>0b, <3>1
    <3>. QED  BY <3>2, <3>3
  <2>5. Ok(q)
    <3>1. q \notin T
      <4>. HIDE DEF T
      <4>. QED  BY <2>1, <2>4
    <3>. QED  BY <2>4, <3>1
  <2>6. f[x] \in Nat /\ g[x] \in Nat /\ c * f[x] <= d * g[x]  BY <2>2, <2>4 DEF Ordered
  <2>. DEFINE a == f[x]
              b == g[x]
              i == it[q]
              j == jt[q]
  <2>7. /\ a \in Nat /\ b \in Nat /\ i \in Nat /\ j \in Nat
        /\ c * a <= d * b /\ c * i <= d * j
        /\ it[s] = a + i /\ jt[s] = b + j
    BY <2>4, <2>5, <2>6
  <2>. HIDE DEF a, b, i, j
  <2>8. c * (a + i) = c * a + c * i /\ d * (b + j) = d * b + d * j
        /\ c * a \in Nat /\ c * i \in Nat /\ d * b \in Nat /\ d * j \in Nat
    BY <2>7
  <2>9. c * (a + i) <= d * (b + j)  BY <2>7, <2>8
  <2>10. Ok(s)  BY <2>7, <2>9
  <2>. HIDE DEF Ok
  <2>. QED  BY <2>2, <2>10
<1>. HIDE DEF Ok
<1>2. \A s \in SUBSET S : Ok(s)  BY <1>1
<1>. QED  BY <1>2 DEF Ok, Ordered
=============================================================================
