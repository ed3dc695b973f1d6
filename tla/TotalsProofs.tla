---------------------------- MODULE TotalsProofs ----------------------------
(***************************************************************************)
(* Lemmas about the sums of Totals, for any finite set of keys.  They need *)
(* an induction over finite sets, which is one over their cardinalities.   *)
(***************************************************************************)
EXTENDS Totals, Integers, FiniteSets, FiniteSetTheorems, WellFoundedInduction, TLAPS

-----------------------------------------------------------------------------
(* Induction *)

LEMMA LeastNumber ==
    ASSUME NEW T, T \subseteq Nat, T # {}
    PROVE  \E x \in T : \A y \in T : x <= y
<1> DEFINE R == OpToRel(<, Nat)
<1>1. IsWellFoundedOn(R, Nat)
  BY NatLessThanWellFounded
<1>2. \A y, x \in Nat : y < x => <<y, x>> \in R
  BY DEF OpToRel
<1> HIDE DEF R
<1>3. PICK x \in T : \A y \in T : ~ (<<y, x>> \in R)
  BY <1>1, WFMin
<1>4. ASSUME NEW y \in T PROVE x <= y
  <2>1. x \in Nat /\ y \in Nat
    OBVIOUS
  <2>2. ~ (y < x)
    BY <1>2, <1>3, <2>1, Zenon
  <2> QED
    BY <2>1, <2>2
<1> QED
  BY <1>4

LEMMA SetInduction ==
    ASSUME NEW S, 0 \in S, \A n \in Nat : n \in S => n + 1 \in S
    PROVE  Nat \subseteq S
<1> SUFFICES ASSUME ~ (Nat \subseteq S) PROVE FALSE
  OBVIOUS
<1>1. PICK x \in Nat \ S : \A y \in Nat \ S : x <= y
  BY LeastNumber
<1>2. x # 0 /\ x - 1 \in Nat
  BY <1>1
<1>3. x - 1 \in S
  BY <1>1, <1>2
<1> QED
  BY <1>1, <1>2, <1>3

-----------------------------------------------------------------------------
(* Sums over finite sets *)

\* What a fold adds up: t[s] is the sum of f over s, taken in some order.
Some(s) == CHOOSE x \in s : TRUE
IsSum(t, f, S) ==
    t = [s \in SUBSET S |-> IF s = {} THEN 0 ELSE f[Some(s)] + t[s \ {Some(s)}]]

LEMMA FoldIsSum ==
    ASSUME NEW f, NEW S
    PROVE  Total(f, S) = (CHOOSE t : IsSum(t, f, S))[S]
BY DEF Total, MapThenSumSet, MapThenFoldSet, IsSum, Some

LEMMA Smaller ==
    ASSUME NEW S, IsFiniteSet(S), NEW s \in SUBSET S, NEW x \in s
    PROVE  /\ IsFiniteSet(s) /\ Cardinality(s) \in Nat
           /\ s \ {x} \in SUBSET S /\ Cardinality(s \ {x}) = Cardinality(s) - 1
           /\ Cardinality(s) > 0
<1>1. IsFiniteSet(s)
  BY FS_Subset
<1>2. Cardinality(s \ {x}) = Cardinality(s) - 1 /\ IsFiniteSet(s \ {x})
  BY <1>1, FS_RemoveElement
<1>3. Cardinality(s \ {x}) \in Nat /\ Cardinality(s) \in Nat
  BY <1>1, <1>2, FS_CardinalityType
<1> QED
  BY <1>1, <1>2, <1>3

LEMMA NoneLeft ==
    ASSUME NEW S, IsFiniteSet(S), NEW s \in SUBSET S, Cardinality(s) <= 0
    PROVE  s = {}
<1>1. IsFiniteSet(s)
  BY FS_Subset
<1> QED
  BY <1>1, FS_EmptySet, FS_CardinalityType

LEMMA SomeIsIn == ASSUME NEW s, s # {} PROVE Some(s) \in s
BY DEF Some

LEMMA SumExists ==
    ASSUME NEW f, NEW S, IsFiniteSet(S), \A x \in S : f[x] \in Int
    PROVE  \E t \in [SUBSET S -> Int] : IsSum(t, f, S)
<1> DEFINE D(n) == {s \in SUBSET S : Cardinality(s) <= n}
           Sum(t, s) == IF s = {} THEN 0 ELSE f[Some(s)] + t[s \ {Some(s)}]
           N == {n \in Nat : \E t \in [D(n) -> Int] : \A s \in D(n) : t[s] = Sum(t, s)}
<1>1. 0 \in N
  <2> DEFINE t == [s \in D(0) |-> 0]
  <2>1. ASSUME NEW s \in D(0) PROVE s = {}
    BY NoneLeft
  <2>2. t \in [D(0) -> Int]
    OBVIOUS
  <2>3. ASSUME NEW s \in D(0) PROVE t[s] = Sum(t, s)
    BY <2>1
  <2> HIDE DEF t, D, Sum
  <2> QED
    BY <2>2, <2>3
<1>2. ASSUME NEW n \in Nat, n \in N PROVE n + 1 \in N
  <2>1. PICK t \in [D(n) -> Int] : \A s \in D(n) : t[s] = Sum(t, s)
    BY <1>2
  <2> DEFINE u == [s \in D(n + 1) |-> Sum(t, s)]
  <2>2. ASSUME NEW s \in D(n + 1), s # {}
        PROVE  Some(s) \in S /\ s \ {Some(s)} \in D(n)
    <3>1. Some(s) \in s
      BY <2>2, SomeIsIn
    <3>2. Cardinality(s \ {Some(s)}) = Cardinality(s) - 1 /\ Cardinality(s) \in Nat
          /\ s \ {Some(s)} \in SUBSET S
      BY <3>1, Smaller
    <3> QED
      BY <3>1, <3>2
  <2>3. ASSUME NEW s \in D(n) PROVE s \in D(n + 1) /\ u[s] = t[s]
    <3>1. s \in D(n + 1)
      <4>1. Cardinality(s) \in Nat
        BY FS_Subset, FS_CardinalityType
      <4> QED BY <4>1
    <3> QED BY <2>1, <3>1
  <2>4. u \in [D(n + 1) -> Int]
    <3>1. ASSUME NEW s \in D(n + 1) PROVE Sum(t, s) \in Int
      BY <2>2
    <3> QED BY <3>1
  <2>5. ASSUME NEW s \in D(n + 1) PROVE u[s] = Sum(u, s)
    BY <2>2, <2>3
  <2> HIDE DEF u, D, Sum
  <2> QED BY <2>4, <2>5
<1>3. Cardinality(S) \in N
  <2> HIDE DEF N
  <2>1. Nat \subseteq N
    BY <1>1, <1>2, SetInduction
  <2> QED BY <2>1, FS_CardinalityType
<1>4. D(Cardinality(S)) = SUBSET S
  BY FS_Subset
<1> QED
  BY <1>3, <1>4 DEF IsSum

\* Two sums of functions that agree are the same, whatever larger sets they are part of.
LEMMA SumUnique ==
    ASSUME NEW f, NEW g, NEW S, NEW T, NEW t, NEW u, IsFiniteSet(S),
           IsSum(t, f, S), IsSum(u, g, T),
           NEW s \in SUBSET (S \cap T), \A x \in s : f[x] = g[x]
    PROVE  t[s] = u[s]
<1> DEFINE N == {n \in Nat : \A r \in SUBSET s : Cardinality(r) <= n => t[r] = u[r]}
<1>0. t[{}] = 0 /\ u[{}] = 0
  BY DEF IsSum
<1>1. 0 \in N
  <2> SUFFICES ASSUME NEW r \in SUBSET s, Cardinality(r) <= 0 PROVE r = {}
    BY <1>0
  <2>1. r \in SUBSET S
    OBVIOUS
  <2> QED
    BY <2>1, NoneLeft
<1>2. ASSUME NEW n \in Nat, n \in N PROVE n + 1 \in N
  <2> SUFFICES ASSUME NEW r \in SUBSET s, Cardinality(r) <= n + 1, r # {}
               PROVE  t[r] = u[r]
    BY <1>0
  <2> DEFINE x == Some(r)
  <2>1. x \in r /\ r \in SUBSET S /\ r \in SUBSET T
    BY SomeIsIn
  <2>2. r \ {x} \in SUBSET s /\ Cardinality(r \ {x}) <= n
    BY <2>1, Smaller
  <2>3. t[r] = f[x] + t[r \ {x}] /\ u[r] = g[x] + u[r \ {x}]
    BY <2>1 DEF IsSum
  <2>4. f[x] = g[x] /\ t[r \ {x}] = u[r \ {x}]
    BY <1>2, <2>1, <2>2
  <2> QED
    BY <2>3, <2>4
<1>3. Cardinality(s) \in N
  <2> HIDE DEF N
  <2>1. Nat \subseteq N
    BY <1>1, <1>2, SetInduction
  <2>2. IsFiniteSet(s)
    BY FS_Subset
  <2> QED BY <2>1, <2>2, FS_CardinalityType
<1> QED
  BY <1>3

\* One element and the sum of the others.
Takes(t, f, s, x) == t[s] = f[x] + t[s \ {x}]
IsIntegral(f, S) == \A x \in S : f[x] \in Int
IsIntegralSum(t, f, S) ==
    IsFiniteSet(S) /\ IsIntegral(f, S) /\ t \in [SUBSET S -> Int] /\ IsSum(t, f, S)

\* The order does not matter.
LEMMA SumTakesAny ==
    ASSUME NEW f, NEW S, NEW t, IsIntegralSum(t, f, S), NEW s \in SUBSET S, NEW x \in s
    PROVE  Takes(t, f, s, x)
<1> USE DEF IsIntegralSum, IsIntegral, Takes
<1> DEFINE N == {n \in Nat : \A r \in SUBSET S : \A y \in r :
                    Cardinality(r) <= n => t[r] = f[y] + t[r \ {y}]}
<1>1. 0 \in N
  <2> SUFFICES ASSUME NEW r \in SUBSET S, NEW y \in r, Cardinality(r) <= 0
               PROVE  FALSE
    OBVIOUS
  <2> QED
    BY NoneLeft
<1>2. ASSUME NEW n \in Nat, n \in N PROVE n + 1 \in N
  <2> SUFFICES ASSUME NEW r \in SUBSET S, NEW y \in r, Cardinality(r) <= n + 1
               PROVE  t[r] = f[y] + t[r \ {y}]
    OBVIOUS
  <2> DEFINE z == Some(r)
  <2>1. z \in r /\ t[r] = f[z] + t[r \ {z}]
    BY SomeIsIn DEF IsSum
  <2>2. CASE z = y
    BY <2>1, <2>2
  <2>3. CASE z # y
    <3>1. r \ {z} \in SUBSET S /\ r \ {y} \in SUBSET S
      OBVIOUS
    <3>2. Cardinality(r \ {z}) <= n /\ Cardinality(r \ {y}) <= n
      BY <2>1, Smaller
    <3>3. y \in r \ {z} /\ z \in r \ {y}
      BY <2>1, <2>3
    <3>4. t[r \ {z}] = f[y] + t[(r \ {z}) \ {y}]
      BY <1>2, <3>1, <3>2, <3>3
    <3>5. t[r \ {y}] = f[z] + t[(r \ {y}) \ {z}]
      BY <1>2, <3>1, <3>2, <3>3
    <3>6. (r \ {y}) \ {z} = (r \ {z}) \ {y} /\ (r \ {z}) \ {y} \in SUBSET S
      OBVIOUS
    <3>7. f[y] \in Int /\ f[z] \in Int /\ t[(r \ {z}) \ {y}] \in Int
      BY <2>1, <3>6
    <3> HIDE DEF z
    <3>8. t[r] = f[z] + (f[y] + t[(r \ {z}) \ {y}])
      BY <2>1, <3>4
    <3>9. t[r \ {y}] = f[z] + t[(r \ {z}) \ {y}]
      BY <3>5, <3>6
    <3> QED
      BY <3>7, <3>8, <3>9
  <2> QED
    BY <2>2, <2>3
<1>3. Cardinality(s) \in N
  <2> HIDE DEF N
  <2>1. Nat \subseteq N
    BY <1>1, <1>2, SetInduction
  <2> QED BY <2>1, Smaller
<1> QED
  BY <1>3

LEMMA TotalIsSum ==
    ASSUME NEW f, NEW S, IsFiniteSet(S), \A x \in S : f[x] \in Int
    PROVE  \E t \in [SUBSET S -> Int] : IsSum(t, f, S) /\ Total(f, S) = t[S]
<1>1. PICK t \in [SUBSET S -> Int] : IsSum(t, f, S)
  BY SumExists
<1> DEFINE c == CHOOSE u : IsSum(u, f, S)
<1>2. IsSum(c, f, S)
  BY <1>1
<1>3. Total(f, S) = c[S]
  BY FoldIsSum
<1> HIDE DEF c
<1>4. c[S] = t[S]
  BY <1>1, <1>2, SumUnique
<1> QED
  BY <1>1, <1>3, <1>4

IsIntegralOn(f, g, S) == IsFiniteSet(S) /\ \A x \in S : f[x] \in Int /\ g[x] = f[x]
Outgrows(f, g, R, e) ==
    /\ Total(g, R \ {e}) \in Int
    /\ Total(f, R) = Total(g, R \ {e}) + f[e]

LEMMA TotalTakesOut ==
    ASSUME NEW f, NEW g, NEW R, NEW e \in R, IsFiniteSet(R), IsIntegral(f, R),
           IsIntegralOn(f, g, R \ {e})
    PROVE  Outgrows(f, g, R, e)
<1> USE DEF IsIntegral, IsIntegralOn
<1> DEFINE S == R \ {e}
<1>1. IsFiniteSet(S) /\ S \in SUBSET R /\ \A x \in S : g[x] \in Int
  BY FS_RemoveElement
<1>2. PICK t \in [SUBSET S -> Int] : IsSum(t, g, S) /\ Total(g, S) = t[S]
  BY <1>1, TotalIsSum
<1>3. PICK u \in [SUBSET R -> Int] : IsSum(u, f, R) /\ Total(f, R) = u[R]
  BY TotalIsSum
<1>4. u[R] = f[e] + u[S]
  <2>1. IsIntegralSum(u, f, R)
    BY <1>3 DEF IsIntegralSum, IsIntegral
  <2>2. Takes(u, f, R, e)
    BY <2>1, SumTakesAny
  <2> QED
    BY <2>2 DEF Takes
<1>5. t[S] = u[S]
  BY <1>1, <1>2, <1>3, SumUnique
<1>6. f[e] \in Int /\ u[S] \in Int
  BY <1>1, <1>3
<1> HIDE DEF S
<1> QED
  BY <1>2, <1>3, <1>4, <1>5, <1>6 DEF S, Outgrows

\* A sum grows by what is added to it.
LEMMA TotalAdds ==
    ASSUME NEW f, NEW g, NEW S, IsFiniteSet(S), NEW e, e \notin S,
           \A x \in S \cup {e} : f[x] \in Int, \A x \in S : g[x] = f[x]
    PROVE  /\ Total(g, S) \in Int
           /\ Total(f, S \cup {e}) = Total(g, S) + f[e]
<1>1. IsFiniteSet(S \cup {e})
  BY FS_AddElement
<1>2. (S \cup {e}) \ {e} = S /\ e \in S \cup {e}
  OBVIOUS
<1> DEFINE R == S \cup {e}
<1>3. IsIntegral(f, R) /\ IsIntegralOn(f, g, R \ {e})
  BY <1>1, <1>2 DEF IsIntegral, IsIntegralOn
<1> HIDE DEF R
<1>4. Outgrows(f, g, R, e)
  BY <1>1, <1>2, <1>3, TotalTakesOut DEF R
<1> QED
  BY <1>2, <1>4 DEF Outgrows, R

LEMMA TotalAgrees ==
    ASSUME NEW f, NEW g, NEW S, IsFiniteSet(S),
           \A x \in S : f[x] \in Int /\ g[x] = f[x]
    PROVE  Total(g, S) = Total(f, S)
<1>1. PICK t \in [SUBSET S -> Int] : IsSum(t, g, S) /\ Total(g, S) = t[S]
  BY TotalIsSum
<1>2. PICK u \in [SUBSET S -> Int] : IsSum(u, f, S) /\ Total(f, S) = u[S]
  BY TotalIsSum
<1> QED
  BY <1>1, <1>2, SumUnique

LEMMA TotalOfNone == ASSUME NEW f PROVE Total(f, {}) = 0
<1>1. PICK t \in [SUBSET {} -> Int] : IsSum(t, f, {}) /\ Total(f, {}) = t[{}]
  BY TotalIsSum, FS_EmptySet
<1> QED
  BY <1>1 DEF IsSum

\* A sum of naturals is one, and is nothing when they all are nothing.
LEMMA TotalIsNat ==
    ASSUME NEW f, NEW S, IsFiniteSet(S), \A x \in S : f[x] \in Nat
    PROVE  Total(f, S) \in Nat /\ ((\A x \in S : f[x] = 0) => Total(f, S) = 0)
<1> DEFINE Sums(s) == Total(f, s) \in Nat /\ ((\A x \in s : f[x] = 0) => Total(f, s) = 0)
           N == {n \in Nat : \A s \in SUBSET S : Cardinality(s) <= n => Sums(s)}
<1>1. 0 \in N
  <2> SUFFICES ASSUME NEW s \in SUBSET S, Cardinality(s) <= 0 PROVE Sums(s)
    OBVIOUS
  <2> QED
    BY NoneLeft, TotalOfNone
<1>2. ASSUME NEW n \in Nat, n \in N PROVE n + 1 \in N
  <2> SUFFICES ASSUME NEW s \in SUBSET S, Cardinality(s) <= n + 1, s # {} PROVE Sums(s)
    BY TotalOfNone
  <2>1. PICK x : x \in s
    OBVIOUS
  <2> DEFINE r == s \ {x}
  <2>2. /\ IsFiniteSet(r) /\ Cardinality(r) <= n /\ r \in SUBSET S
        /\ s = r \cup {x} /\ x \notin r
    <3>1. /\ r \in SUBSET S /\ Cardinality(r) = Cardinality(s) - 1
          /\ Cardinality(s) \in Nat
      BY <2>1, Smaller
    <3> QED
      BY <2>1, <3>1, FS_Subset
  <2>3. Sums(r)
    BY <1>2, <2>2
  <2> HIDE DEF r
  <2>4. f[x] \in Nat /\ \A y \in r \cup {x} : f[y] \in Int
    BY <2>1, <2>2
  <2>5. Total(f, r \cup {x}) = Total(f, r) + f[x]
    BY <2>2, <2>4, TotalAdds
  <2> QED
    BY <2>1, <2>2, <2>3, <2>4, <2>5
<1>3. Cardinality(S) \in N
  <2> HIDE DEF N
  <2>1. Nat \subseteq N
    BY <1>1, <1>2, SetInduction
  <2> QED
    BY <2>1, FS_CardinalityType
<1>4. Cardinality(S) <= Cardinality(S)
  BY FS_CardinalityType
<1> QED
  BY <1>3, <1>4
=============================================================================
