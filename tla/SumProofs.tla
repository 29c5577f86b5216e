------------------------------- MODULE SumProofs -------------------------------
(***************************************************************************)
(* Facts about sums, largest and smallest elements of finite sets, which   *)
(* the proofs about the components cite.                                   *)
(***************************************************************************)
EXTENDS Integers, FiniteSetsExt, Functions, FiniteSetTheorems, WellFoundedInduction, TLAPS

(***************************************************************************)
(* Sums and maxima over finite sets, by induction on their size.           *)
(***************************************************************************)
\* Naturals in their order: what induction rests on here.
LessNat == {ss \in Nat \X Nat : ss[1] < ss[2]}

\* The order of the naturals is well founded.
LEMMA LessNatWF == IsWellFoundedOn(LessNat, Nat)
  BY NatLessThanWellFounded, Zenon DEF OpToRel, LessNat

\* A set of naturals that is not empty has a least one: an induction looks for the least
\* counterexample.
LEMMA Least ==
  ASSUME NEW T \in SUBSET Nat, T # {}
  PROVE  \E m \in T : \A k \in T : m <= k
<1>1. PICK m \in T : \A k \in T : <<k, m>> \notin LessNat
  BY LessNatWF, WFMin, Zenon
<1>2. ASSUME NEW k \in T PROVE m <= k
  <2>1. k \in Nat /\ m \in Nat
    OBVIOUS
  <2>2. CASE k < m
    <3>1. <<k, m>> \in LessNat
      BY <2>1, <2>2 DEF LessNat
    <3>2. QED
      BY <3>1, <1>1
  <2>3. QED
    BY <2>1, <2>2
<1>3. QED
  BY <1>2

\* The element a fold over a set takes next.
AnyOf(s) == CHOOSE x \in s : TRUE

\* It is one of the set.
LEMMA AnyOfIn == ASSUME NEW s, s # {} PROVE AnyOf(s) \in s
  BY Zenon DEF AnyOf

\* The recursion of SumFunction, and the function it defines on the subsets of the domain.
SumOver(g, f, s) == IF s = {} THEN 0 ELSE f[AnyOf(s)] + g[s \ {AnyOf(s)}]

Sums(f) == CHOOSE g : g = [s \in SUBSET (DOMAIN f) |-> SumOver(g, f, s)]

\* SumFunction in these terms.
LEMMA SumUnfold ==
  ASSUME NEW f
  PROVE  SumFunction(f) = Sums(f)[DOMAIN f]
BY Zenon DEF SumFunction, SumFunctionOnSet, FoldFunctionOnSet, MapThenFoldSet, SumOver, AnyOf, Sums

\* The recursion has a solution on the subsets with n elements or fewer.
Upto(S, n) == {s \in SUBSET S : Cardinality(s) <= n}

Summed(f, S, n) == \E h \in [Upto(S, n) -> Nat] : \A s \in Upto(S, n) : h[s] = SumOver(h, f, s)

\* A subset without an element is a smaller one.
LEMMA Smaller ==
  ASSUME NEW S, IsFiniteSet(S), NEW s \in SUBSET S, s # {}
  PROVE  /\ AnyOf(s) \in S
         /\ s \ {AnyOf(s)} \in SUBSET S
         /\ Cardinality(s) \in Nat \ {0}
         /\ Cardinality(s \ {AnyOf(s)}) = Cardinality(s) - 1
<1>1. IsFiniteSet(s)
  BY FS_Subset
<1>2. AnyOf(s) \in s
  BY AnyOfIn
<1>3. Cardinality(s) \in Nat /\ Cardinality(s) # 0
  BY <1>1, FS_CardinalityType, FS_EmptySet
<1>4. Cardinality(s \ {AnyOf(s)}) = Cardinality(s) - 1
  BY <1>1, <1>2, FS_RemoveElement, Zenon
<1>5. QED
  BY <1>2, <1>3, <1>4

\* A solution for n elements gives one for n + 1.
LEMMA SummedNext ==
  ASSUME NEW S, IsFiniteSet(S), NEW f \in [S -> Nat], NEW n \in Nat, Summed(f, S, n)
  PROVE  Summed(f, S, n + 1)
<1>1. PICK h \in [Upto(S, n) -> Nat] : \A s \in Upto(S, n) : h[s] = SumOver(h, f, s)
  BY DEF Summed
<1> DEFINE k == [s \in Upto(S, n + 1) |-> SumOver(h, f, s)]
<1>2. ASSUME NEW s \in Upto(S, n + 1), s # {}
      PROVE  /\ s \ {AnyOf(s)} \in Upto(S, n) /\ s \ {AnyOf(s)} \in Upto(S, n + 1)
             /\ f[AnyOf(s)] \in Nat
  <2>1. s \in SUBSET S /\ Cardinality(s) <= n + 1
    BY DEF Upto
  <2>2. /\ AnyOf(s) \in S /\ s \ {AnyOf(s)} \in SUBSET S
        /\ Cardinality(s) \in Nat \ {0}
        /\ Cardinality(s \ {AnyOf(s)}) = Cardinality(s) - 1
    BY <1>2, <2>1, Smaller
  <2>3. Cardinality(s \ {AnyOf(s)}) <= n /\ Cardinality(s \ {AnyOf(s)}) <= n + 1
    BY <2>1, <2>2
  <2>4. QED
    BY <2>2, <2>3 DEF Upto
<1>3. ASSUME NEW s \in Upto(S, n + 1) PROVE k[s] \in Nat
  BY <1>1, <1>2 DEF SumOver
<1>4. ASSUME NEW s \in Upto(S, n) PROVE s \in Upto(S, n + 1) /\ k[s] = h[s]
  <2>1. Cardinality(s) \in Nat
    BY FS_Subset, FS_CardinalityType DEF Upto
  <2>2. s \in Upto(S, n + 1)
    BY <2>1 DEF Upto
  <2>3. QED
    BY <1>1, <2>2
<1>5. ASSUME NEW s \in Upto(S, n + 1) PROVE k[s] = SumOver(k, f, s)
  <2>1. CASE s = {}
    BY <2>1 DEF SumOver
  <2>2. CASE s # {}
    <3>1. k[s \ {AnyOf(s)}] = h[s \ {AnyOf(s)}]
      BY <1>2, <1>4, <2>2
    <3>2. k[s] = SumOver(h, f, s)
      OBVIOUS
    <3> HIDE DEF k
    <3>3. QED
      BY <3>1, <3>2 DEF SumOver
  <2>3. QED
    BY <2>1, <2>2
<1>6. k \in [Upto(S, n + 1) -> Nat]
  BY <1>3
<1> HIDE DEF k
<1>7. QED
  BY <1>5, <1>6 DEF Summed

\* So there is one for every n.
LEMMA AllSummed ==
  ASSUME NEW S, IsFiniteSet(S), NEW f \in [S -> Nat], NEW n \in Nat
  PROVE  Summed(f, S, n)
<1> DEFINE Bad == {m \in Nat : ~Summed(f, S, m)}
<1>1. Summed(f, S, 0)
  <2> DEFINE h == [s \in Upto(S, 0) |-> 0]
  <2>1. ASSUME NEW s \in Upto(S, 0) PROVE s = {}
    <3>1. IsFiniteSet(s) /\ Cardinality(s) <= 0 /\ Cardinality(s) \in Nat
      BY FS_Subset, FS_CardinalityType DEF Upto
    <3>2. Cardinality(s) = 0
      BY <3>1
    <3>3. QED
      BY <3>1, <3>2, FS_EmptySet
  <2>2. h \in [Upto(S, 0) -> Nat] /\ \A s \in Upto(S, 0) : h[s] = SumOver(h, f, s)
    BY <2>1 DEF SumOver
  <2>3. QED
    BY <2>2 DEF Summed
<1>2. ASSUME Bad # {} PROVE FALSE
  <2>1. PICK m \in Bad : \A j \in Bad : m <= j
    <3>1. Bad \in SUBSET Nat
      OBVIOUS
    <3>2. QED
      BY <1>2, <3>1, Least
  <2>2. m \in Nat /\ m # 0 /\ ~Summed(f, S, m)
    BY <1>1
  <2>3. m - 1 \in Nat /\ m - 1 \notin Bad
    BY <2>1, <2>2
  <2>4. Summed(f, S, (m - 1) + 1)
    BY <2>3, SummedNext
  <2>5. QED
    BY <2>2, <2>4
<1>3. QED
  BY <1>2

\* The recursion defines the sums.
LEMMA SumsExist ==
  ASSUME NEW S, IsFiniteSet(S), NEW f \in [S -> Nat]
  PROVE  Sums(f) = [s \in SUBSET S |-> SumOver(Sums(f), f, s)]
<1>1. Cardinality(S) \in Nat
  BY FS_CardinalityType
<1>2. Upto(S, Cardinality(S)) = SUBSET S
  BY FS_Subset DEF Upto
<1>3. PICK h \in [SUBSET S -> Nat] : \A s \in SUBSET S : h[s] = SumOver(h, f, s)
  <2>1. Summed(f, S, Cardinality(S))
    BY <1>1, AllSummed
  <2>2. QED
    BY <1>2, <2>1, Zenon DEF Summed
<1>4. h = [s \in SUBSET S |-> SumOver(h, f, s)]
  BY <1>3
<1>5. DOMAIN f = S
  OBVIOUS
<1>6. Sums(f) = CHOOSE g : g = [s \in SUBSET S |-> SumOver(g, f, s)]
  BY <1>5 DEF Sums
<1>7. QED
  BY <1>4, <1>6, Zenon

\* What is claimed of the sum over s.
SumFits(g, f, s) ==
  /\ g[s] \in Nat
  /\ \A x \in s : f[x] <= g[s]
  /\ (\A x \in s : f[x] = 0) => g[s] = 0

\* The sum of a function from a finite set to the naturals is a natural, at least each
\* value, and 0 if they all are.
LEMMA SumOfFunction ==
  ASSUME NEW S, IsFiniteSet(S), NEW f \in [S -> Nat]
  PROVE  /\ SumFunction(f) \in Nat
         /\ \A x \in S : f[x] <= SumFunction(f)
         /\ (\A x \in S : f[x] = 0) => SumFunction(f) = 0
<1> DEFINE g == Sums(f)
<1>1. g = [s \in SUBSET S |-> SumOver(g, f, s)]
  BY SumsExist
<1> HIDE DEF g
<1> DEFINE Bad == {n \in Nat : \E s \in SUBSET S : Cardinality(s) = n /\ ~SumFits(g, f, s)}
<1>2. ASSUME Bad # {} PROVE FALSE
  <2>1. PICK n \in Bad : \A j \in Bad : n <= j
    <3>1. Bad \in SUBSET Nat
      OBVIOUS
    <3>2. QED
      BY <1>2, <3>1, Least
  <2>2. PICK s \in SUBSET S : Cardinality(s) = n /\ ~SumFits(g, f, s)
    OBVIOUS
  <2>3. g[s] = SumOver(g, f, s)
    BY <1>1
  <2>4. s # {}
    BY <2>2, <2>3 DEF SumOver, SumFits
  <2> DEFINE x == AnyOf(s)  t == s \ {x}
  <2>5. x \in s /\ x \in S /\ t \in SUBSET S /\ n \in Nat \ {0} /\ Cardinality(t) = n - 1
    BY <2>2, <2>4, Smaller, AnyOfIn
  <2>6. SumFits(g, f, t)
    <3>1. n - 1 \in Nat /\ ~(n <= n - 1)
      BY <2>5
    <3>2. n - 1 \notin Bad
      BY <2>1, <3>1
    <3>3. QED
      BY <2>5, <3>1, <3>2
  <2>7. g[s] = f[x] + g[t]
    BY <2>3, <2>4 DEF SumOver
  <2>8. f[x] \in Nat /\ g[t] \in Nat /\ \A y \in t : f[y] \in Nat /\ f[y] <= g[t]
    BY <2>5, <2>6 DEF SumFits
  <2>9. g[s] \in Nat /\ f[x] <= g[s] /\ g[t] <= g[s]
    BY <2>7, <2>8
  <2>10. ASSUME NEW y \in s PROVE f[y] <= g[s]
    <3>1. CASE y = x
      BY <2>9, <3>1
    <3>2. CASE y # x
      <4>1. f[y] \in Nat /\ f[y] <= g[t]
        BY <2>8, <3>2
      <4>2. QED
        BY <4>1, <2>8, <2>9
    <3>3. QED
      BY <3>1, <3>2
  <2>11. ASSUME \A y \in s : f[y] = 0 PROVE g[s] = 0
    BY <2>11, <2>5, <2>6, <2>7 DEF SumFits
  <2>12. QED
    BY <2>2, <2>9, <2>10, <2>11 DEF SumFits
<1>3. Cardinality(S) \in Nat
  BY FS_CardinalityType
<1>4. SumFits(g, f, S)
  BY <1>2, <1>3
<1>5. SumFunction(f) = g[S]
  BY SumUnfold DEF g
<1>6. QED
  BY <1>4, <1>5 DEF SumFits

\* Max is the largest element.
LEMMA MaxIs ==
  ASSUME NEW S \in SUBSET Int, NEW m \in S, \A x \in S : x <= m
  PROVE  Max(S) = m
<1>1. ASSUME NEW z \in S, \A x \in S : z >= x PROVE z = m
  BY <1>1
<1>2. PICK z : z = Max(S)
  OBVIOUS
<1>3. z \in S /\ \A x \in S : z >= x
  BY <1>2 DEF Max
<1>4. QED
  BY <1>1, <1>2, <1>3

\* A finite set of naturals that is not empty has one.
LEMMA MaxOf ==
  ASSUME NEW S \in SUBSET Nat, IsFiniteSet(S), S # {}
  PROVE  Max(S) \in S /\ \A x \in S : x <= Max(S)
<1> DEFINE Bad == {n \in Nat : \E s \in SUBSET S : /\ Cardinality(s) = n /\ s # {}
                                                   /\ ~ \E m \in s : \A x \in s : x <= m}
<1>1. ASSUME Bad # {} PROVE FALSE
  <2>1. PICK n \in Bad : \A j \in Bad : n <= j
    <3>1. Bad \in SUBSET Nat
      OBVIOUS
    <3>2. QED
      BY <1>1, <3>1, Least
  <2>2. PICK s \in SUBSET S : Cardinality(s) = n /\ s # {} /\ ~ \E m \in s : \A x \in s : x <= m
    OBVIOUS
  <2> DEFINE a == AnyOf(s)  t == s \ {a}
  <2>3. a \in s /\ a \in S /\ t \in SUBSET S /\ n \in Nat \ {0} /\ Cardinality(t) = n - 1
    BY <2>2, Smaller, AnyOfIn
  <2>4. t # {}
    <3>1. ASSUME t = {} PROVE \A x \in s : x <= a
      <4>1. a \in Nat /\ \A x \in s : x = a
        BY <2>3, <3>1
      <4>2. QED
        BY <4>1
    <3>2. QED
      BY <2>2, <2>3, <3>1
  <2>5. PICK m \in t : \A x \in t : x <= m
    <3>1. n - 1 \in Nat /\ ~(n <= n - 1)
      BY <2>3
    <3>2. n - 1 \notin Bad
      BY <2>1, <3>1
    <3>3. QED
      BY <2>3, <2>4, <3>1, <3>2
  <2>6. a \in Nat /\ m \in Nat /\ m \in s /\ \A x \in t : x \in Nat
    BY <2>3, <2>5
  <2>7. CASE a <= m
    BY <2>2, <2>5, <2>6, <2>7
  <2>8. CASE m <= a
    BY <2>2, <2>3, <2>5, <2>6, <2>8
  <2>9. QED
    BY <2>6, <2>7, <2>8
<1>2. Cardinality(S) \in Nat
  BY FS_CardinalityType
<1>3. PICK m \in S : \A x \in S : x <= m
  BY <1>1, <1>2
<1>4. Max(S) = m
  BY <1>3, MaxIs
<1>5. QED
  BY <1>3, <1>4

-----------------------------------------------------------------------------
\* The values of a function on a finite set are finitely many.
LEMMA ImageFinite ==
  ASSUME NEW S, IsFiniteSet(S), NEW f
  PROVE  IsFiniteSet({f[x] : x \in S})
<1> DEFINE T == {f[x] : x \in S}  g == [x \in S |-> f[x]]
<1>1. g \in Surjection(S, T)
  BY DEF Surjection
<1>2. QED
  BY <1>1, FS_Surjection

\* The sums over the subsets of a finite set are naturals.
LEMMA SumsTyped ==
  ASSUME NEW S, IsFiniteSet(S), NEW f \in [S -> Nat], NEW s \in SUBSET S
  PROVE  /\ Sums(f)[s] = SumOver(Sums(f), f, s)
         /\ Sums(f)[s] \in Nat
<1> DEFINE g == Sums(f)
<1>1. g = [u \in SUBSET S |-> SumOver(g, f, u)]
  BY SumsExist
<1> HIDE DEF g
<1> DEFINE Bad == {n \in Nat : \E u \in SUBSET S : Cardinality(u) = n /\ g[u] \notin Nat}
<1>2. ASSUME Bad # {} PROVE FALSE
  <2>1. PICK n \in Bad : \A j \in Bad : n <= j
    <3>1. Bad \in SUBSET Nat
      OBVIOUS
    <3>2. QED
      BY <1>2, <3>1, Least
  <2>2. PICK u \in SUBSET S : Cardinality(u) = n /\ g[u] \notin Nat
    OBVIOUS
  <2>3. g[u] = SumOver(g, f, u)
    BY <1>1
  <2>4. u # {}
    BY <2>2, <2>3 DEF SumOver
  <2> DEFINE x == AnyOf(u)  v == u \ {x}
  <2>5. x \in S /\ v \in SUBSET S /\ n \in Nat \ {0} /\ Cardinality(v) = n - 1
    BY <2>2, <2>4, Smaller
  <2>6. g[v] \in Nat
    <3>1. n - 1 \in Nat /\ ~(n <= n - 1)
      BY <2>5
    <3>2. n - 1 \notin Bad
      BY <2>1, <3>1
    <3>3. QED
      BY <2>5, <3>1, <3>2
  <2>7. g[u] = f[x] + g[v]
    BY <2>3, <2>4 DEF SumOver
  <2>8. f[x] \in Nat
    BY <2>5
  <2>9. QED
    BY <2>2, <2>6, <2>7, <2>8
<1>3. Cardinality(s) \in Nat
  BY FS_Subset, FS_CardinalityType
<1>4. g[s] \in Nat
  BY <1>2, <1>3
<1>5. g[s] = SumOver(g, f, s)
  BY <1>1
<1>6. QED
  BY <1>4, <1>5 DEF g

\* Any element may be taken first.
LEMMA SumWithout ==
  ASSUME NEW S, IsFiniteSet(S), NEW f \in [S -> Nat], NEW s \in SUBSET S, NEW x \in s
  PROVE  Sums(f)[s] = f[x] + Sums(f)[s \ {x}]
<1> DEFINE g == Sums(f)
           Fails(u) == \E y \in u : g[u] # f[y] + g[u \ {y}]
           Bad == {n \in Nat : \E u \in SUBSET S : Cardinality(u) = n /\ Fails(u)}
<1>1. ASSUME NEW u \in SUBSET S PROVE g[u] = SumOver(g, f, u) /\ g[u] \in Nat
  BY SumsTyped
<1> HIDE DEF g
<1>2. ASSUME Bad # {} PROVE FALSE
  <2>1. PICK n \in Bad : \A j \in Bad : n <= j
    <3>1. Bad \in SUBSET Nat
      OBVIOUS
    <3>2. QED
      BY <1>2, <3>1, Least
  <2>2. PICK u \in SUBSET S : Cardinality(u) = n /\ Fails(u)
    OBVIOUS
  <2>3. PICK y \in u : g[u] # f[y] + g[u \ {y}]
    BY <2>2
  <2> DEFINE a == AnyOf(u)
  <2>4. a \in u /\ a \in S /\ y \in S /\ u \ {a} \in SUBSET S /\ n \in Nat \ {0}
        /\ Cardinality(u \ {a}) = n - 1
    BY <2>2, <2>3, Smaller, AnyOfIn
  <2>5. g[u] = f[a] + g[u \ {a}]
    BY <1>1, <2>3 DEF SumOver
  <2>6. a # y
    BY <2>3, <2>5
  <2>7. Cardinality(u \ {y}) = n - 1
    <3>1. IsFiniteSet(u)
      BY FS_Subset
    <3>2. QED
      BY <2>2, <3>1, FS_RemoveElement, Zenon
  <2>8. n - 1 \in Nat /\ n - 1 \notin Bad
    <3>1. n - 1 \in Nat /\ ~(n <= n - 1)
      BY <2>4
    <3>2. QED
      BY <2>1, <3>1
  <2>9. ~Fails(u \ {a}) /\ ~Fails(u \ {y})
    <3>1. u \ {y} \in SUBSET S
      OBVIOUS
    <3>2. QED
      BY <2>4, <2>7, <2>8, <3>1
  <2>10. g[u \ {a}] = f[y] + g[(u \ {a}) \ {y}]
    BY <2>6, <2>9
  <2>11. g[u \ {y}] = f[a] + g[(u \ {y}) \ {a}]
    BY <2>4, <2>6, <2>9
  <2>12. (u \ {a}) \ {y} = (u \ {y}) \ {a}
    OBVIOUS
  <2>13. f[a] \in Nat /\ f[y] \in Nat /\ g[(u \ {a}) \ {y}] \in Nat
    <3>1. (u \ {a}) \ {y} \in SUBSET S
      OBVIOUS
    <3>2. QED
      BY <1>1, <2>4, <3>1
  <2>14. PICK z \in Nat : z = g[(u \ {a}) \ {y}]
    BY <2>13
  <2>15. g[u \ {a}] = f[y] + z /\ g[u \ {y}] = f[a] + z
    BY <2>10, <2>11, <2>12, <2>14
  <2>16. f[a] + (f[y] + z) = f[y] + (f[a] + z)
    BY <2>13
  <2>17. g[u] = f[y] + g[u \ {y}]
    BY <2>5, <2>15, <2>16, Zenon
  <2>18. QED
    BY <2>3, <2>17
<1>3. Cardinality(s) \in Nat
  BY FS_Subset, FS_CardinalityType
<1>4. ~Fails(s)
  BY <1>2, <1>3
<1>5. g[s] = f[x] + g[s \ {x}]
  BY <1>4
<1>6. QED
  BY <1>5 DEF g

\* Zeros may be left out.
LEMMA SumZeros ==
  ASSUME NEW S, IsFiniteSet(S), NEW f \in [S -> Nat], NEW s \in SUBSET S, NEW A \in SUBSET s,
         \A x \in s \ A : f[x] = 0
  PROVE  Sums(f)[s] = Sums(f)[A]
<1> DEFINE g == Sums(f)
           Between(u) == A \subseteq u /\ u \subseteq s /\ g[u] # g[A]
           Bad == {n \in Nat : \E u \in SUBSET S : Cardinality(u) = n /\ Between(u)}
<1>1. ASSUME NEW u \in SUBSET S PROVE g[u] \in Nat
  BY SumsTyped
<1>a. ASSUME NEW u \in SUBSET S, NEW x \in u PROVE g[u] = f[x] + g[u \ {x}]
  BY SumWithout
<1> HIDE DEF g
<1>2. ASSUME Bad # {} PROVE FALSE
  <2>1. PICK n \in Bad : \A j \in Bad : n <= j
    <3>1. Bad \in SUBSET Nat
      OBVIOUS
    <3>2. QED
      BY <1>2, <3>1, Least
  <2>2. PICK u \in SUBSET S : Cardinality(u) = n /\ Between(u)
    OBVIOUS
  <2>3. PICK x \in u : x \notin A
    BY <2>2
  <2>4. f[x] = 0 /\ g[u] = f[x] + g[u \ {x}] /\ g[u \ {x}] \in Nat
    <3>1. u \ {x} \in SUBSET S
      OBVIOUS
    <3>2. QED
      BY <1>1, <1>a, <2>2, <2>3, <3>1
  <2>5. n \in Nat \ {0} /\ Cardinality(u \ {x}) = n - 1
    <3>1. IsFiniteSet(u)
      BY FS_Subset
    <3>2. Cardinality(u \ {x}) = Cardinality(u) - 1
      BY <3>1, FS_RemoveElement, Zenon
    <3>3. Cardinality(u) \in Nat /\ Cardinality(u) # 0
      BY <3>1, FS_CardinalityType, FS_EmptySet
    <3>4. QED
      BY <2>2, <3>2, <3>3
  <2>6. Between(u \ {x})
    BY <2>2, <2>3, <2>4
  <2>7. n - 1 \in Nat /\ ~(n <= n - 1)
    BY <2>5
  <2>8. n - 1 \in Bad
    <3>1. u \ {x} \in SUBSET S
      OBVIOUS
    <3>2. QED
      BY <2>5, <2>6, <2>7, <3>1
  <2>9. QED
    BY <2>1, <2>7, <2>8
<1>3. Cardinality(s) \in Nat
  BY FS_Subset, FS_CardinalityType
<1>4. ~Between(s)
  BY <1>2, <1>3
<1>5. g[s] = g[A]
  BY <1>4
<1>6. QED
  BY <1>5 DEF g

\* The sum of a part of a function is the sum over that part.
LEMMA SumOfPart ==
  ASSUME NEW S, IsFiniteSet(S), NEW f \in [S -> Nat], NEW A \in SUBSET S,
         NEW h \in [A -> Nat], \A x \in A : h[x] = f[x]
  PROVE  SumFunction(h) = Sums(f)[A]
<1> DEFINE g == Sums(f)  k == Sums(h)
           Bad == {n \in Nat : \E u \in SUBSET A : Cardinality(u) = n /\ g[u] # k[u]}
<1>0. IsFiniteSet(A)
  BY FS_Subset
<1>1. ASSUME NEW u \in SUBSET A PROVE g[u] = SumOver(g, f, u) /\ k[u] = SumOver(k, h, u)
  <2>1. u \in SUBSET S
    OBVIOUS
  <2>2. g[u] = SumOver(g, f, u)
    BY <2>1, SumsTyped
  <2>3. k[u] = SumOver(k, h, u)
    BY <1>0, SumsTyped
  <2>4. QED
    BY <2>2, <2>3
<1>2. SumFunction(h) = k[A]
  <2>1. DOMAIN h = A
    OBVIOUS
  <2>2. QED
    BY <2>1, SumUnfold
<1> HIDE DEF g, k
<1>3. ASSUME Bad # {} PROVE FALSE
  <2>1. PICK n \in Bad : \A j \in Bad : n <= j
    <3>1. Bad \in SUBSET Nat
      OBVIOUS
    <3>2. QED
      BY <1>3, <3>1, Least
  <2>2. PICK u \in SUBSET A : Cardinality(u) = n /\ g[u] # k[u]
    OBVIOUS
  <2>3. g[u] = SumOver(g, f, u) /\ k[u] = SumOver(k, h, u)
    BY <1>1
  <2>4. u # {}
    BY <2>2, <2>3 DEF SumOver
  <2> DEFINE x == AnyOf(u)  v == u \ {x}
  <2>5. x \in A /\ v \in SUBSET A /\ n \in Nat \ {0} /\ Cardinality(v) = n - 1
    BY <1>0, <2>2, <2>4, Smaller
  <2>6. g[v] = k[v]
    <3>1. n - 1 \in Nat /\ ~(n <= n - 1)
      BY <2>5
    <3>2. n - 1 \notin Bad
      BY <2>1, <3>1
    <3>3. QED
      BY <2>5, <3>1, <3>2
  <2>7. f[x] = h[x]
    BY <2>5
  <2>8. g[u] = f[x] + g[v] /\ k[u] = h[x] + k[v]
    BY <2>3, <2>4 DEF SumOver
  <2>9. QED
    BY <2>2, <2>6, <2>7, <2>8
<1>4. Cardinality(A) \in Nat
  BY <1>0, FS_CardinalityType
<1>5. g[A] = k[A]
  BY <1>3, <1>4
<1>6. QED
  BY <1>2, <1>5 DEF g

\* Min is the smallest element.
LEMMA MinIs ==
  ASSUME NEW S \in SUBSET Int, NEW m \in S, \A x \in S : m <= x
  PROVE  Min(S) = m
<1>1. ASSUME NEW z \in S, \A x \in S : z <= x PROVE z = m
  BY <1>1
<1>2. PICK z : z = Min(S)
  OBVIOUS
<1>3. z \in S /\ \A x \in S : z <= x
  BY <1>2 DEF Min
<1>4. QED
  BY <1>1, <1>2, <1>3

\* A set of naturals that is not empty has one.
LEMMA MinOf ==
  ASSUME NEW S \in SUBSET Nat, S # {}
  PROVE  Min(S) \in S /\ \A x \in S : Min(S) <= x
<1>1. PICK m \in S : \A x \in S : m <= x
  BY Least
<1>2. Min(S) = m
  BY <1>1, MinIs
<1>3. QED
  BY <1>1, <1>2

================================================================================
