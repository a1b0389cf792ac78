--------------------------------- MODULE Sums ---------------------------------
(***************************************************************************)
(* What the proofs need to know of the sums of the community module        *)
(* Functions: SumFunctionOnSet(f, S) adds f[x] for the x in S.             *)
(*                                                                         *)
(* The induction theorems of the library take the property to prove as a   *)
(* parameter, which the provers cannot instantiate.  Here a property is    *)
(* given by the set of what has it: a set of naturals, or of subsets.      *)
(***************************************************************************)
EXTENDS Functions, FiniteSets, FiniteSetTheorems, WellFoundedInduction, TLAPS

-----------------------------------------------------------------------------
(* Induction.                                                                *)

\* A set of naturals that is not empty has a least element.
LEMMA LeastNatural ==
  ASSUME NEW T \in SUBSET Nat, T # {}
  PROVE  \E x \in T : \A y \in T : x <= y
<1> DEFINE R == {p \in Nat \X Nat : p[1] < p[2]}
<1>1. IsWellFoundedOn(R, Nat)
  BY NatLessThanWellFounded DEF OpToRel
<1>2. \A x, y \in Nat : <<x, y>> \in R <=> x < y
  OBVIOUS
<1> HIDE DEF R
<1>3. PICK x \in T : \A y \in T : ~ (<<y, x>> \in R)
  BY <1>1, WFMin
<1>4. \A y \in T : x <= y
  <2> SUFFICES ASSUME NEW y \in T
               PROVE  x <= y
    OBVIOUS
  <2>1. x \in Nat /\ y \in Nat
    OBVIOUS
  <2>2. ~(y < x)
    BY <1>2, <1>3, <2>1
  <2> QED BY <2>1, <2>2
<1> QED BY <1>4

\* A set of naturals with 0 and the successor of each of its elements is Nat.
LEMMA EveryNatural ==
  ASSUME NEW T \in SUBSET Nat, 0 \in T, \A n \in T : n + 1 \in T
  PROVE  T = Nat
<1> SUFFICES ASSUME Nat \ T # {}
             PROVE  FALSE
  OBVIOUS
<1>1. PICK m \in Nat \ T : \A n \in Nat \ T : m <= n
  BY LeastNatural
<1>2. m - 1 \in Nat
  BY <1>1
<1>3. m - 1 \in T
  BY <1>1, <1>2
<1>4. m - 1 + 1 \in T
  BY <1>3
<1> QED BY <1>1, <1>2, <1>4

\* A set of subsets of a finite set D, with {} and whatever has one element more
\* than one of its elements, has D.
LEMMA EverySubset ==
  ASSUME NEW D, IsFiniteSet(D), NEW P \in SUBSET (SUBSET D), {} \in P,
         \A s \in P : \A x \in D \ s : s \cup {x} \in P
  PROVE  D \in P
<1> DEFINE T == {n \in Nat : \A s \in SUBSET D : Cardinality(s) = n => s \in P}
<1>1. \A s \in SUBSET D : IsFiniteSet(s) /\ Cardinality(s) \in Nat
  BY FS_Subset, FS_CardinalityType
<1>2. 0 \in T
  <2>1. \A s \in SUBSET D : Cardinality(s) = 0 => s = {}
    BY <1>1, FS_EmptySet
  <2> QED BY <2>1
<1>3. ASSUME NEW n \in T
      PROVE  n + 1 \in T
  <2> SUFFICES ASSUME NEW s \in SUBSET D, Cardinality(s) = n + 1
               PROVE  s \in P
    OBVIOUS
  <2>1. PICK x \in s : TRUE
    BY <1>1, FS_EmptySet
  <2>2. Cardinality(s \ {x}) = n
    BY <1>1, <2>1, FS_RemoveElement
  <2>3. s \ {x} \in P
    BY <2>2
  <2>4. (s \ {x}) \cup {x} \in P
    BY <2>1, <2>3
  <2>5. (s \ {x}) \cup {x} = s
    BY <2>1
  <2> QED BY <2>4, <2>5
<1> HIDE DEF T
<1>4. T = Nat
  <2>1. T \in SUBSET Nat
    BY DEF T
  <2> QED BY <1>2, <1>3, <2>1, EveryNatural
<1>5. Cardinality(D) \in T
  BY <1>1, <1>4
<1> QED BY <1>5 DEF T

LEMMA OneFewer ==
  ASSUME NEW s, IsFiniteSet(s), NEW x \in s, NEW n \in Nat, Cardinality(s) = n + 1
  PROVE  Cardinality(s \ {x}) = n
BY FS_RemoveElement

-----------------------------------------------------------------------------
(* The table a sum is read from.                                             *)

Choice(s) == CHOOSE x \in s : TRUE

\* g gives the sum for every subset of S.
SumTable(f, S, g) ==
  g = [s \in SUBSET S |-> IF s = {} THEN 0 ELSE f[Choice(s)] + g[s \ {Choice(s)}]]

LEMMA SumIsChosen ==
  ASSUME NEW f, NEW S
  PROVE  SumFunctionOnSet(f, S) = (CHOOSE g : SumTable(f, S, g))[S]
BY DEF SumFunctionOnSet, FoldFunctionOnSet, MapThenFoldSet, SumTable, Choice

\* There is a table, of naturals: it is built up by the size of the subsets.
LEMMA SumTableExists ==
  ASSUME NEW S, IsFiniteSet(S), NEW f \in [S -> Nat]
  PROVE  \E g \in [SUBSET S -> Nat] : SumTable(f, S, g)
<1> DEFINE Upto(n, g) ==
             \A s \in SUBSET S : Cardinality(s) <= n =>
               g[s] = IF s = {} THEN 0 ELSE f[Choice(s)] + g[s \ {Choice(s)}]
           T == {n \in Nat : \E g \in [SUBSET S -> Nat] : Upto(n, g)}
<1>1. \A s \in SUBSET S : IsFiniteSet(s) /\ Cardinality(s) \in Nat
  BY FS_Subset, FS_CardinalityType
<1>2. ASSUME NEW s \in SUBSET S, s # {}
      PROVE  /\ Choice(s) \in s /\ s \ {Choice(s)} \in SUBSET S
             /\ Cardinality(s \ {Choice(s)}) = Cardinality(s) - 1
             /\ Cardinality(s) # 0
  <2>1. Choice(s) \in s
    BY <1>2 DEF Choice
  <2> QED BY <1>1, <1>2, <2>1, FS_RemoveElement, FS_EmptySet
<1>3. 0 \in T
  <2> DEFINE g == [s \in SUBSET S |-> 0]
  <2>1. Upto(0, g)
    <3>1. \A s \in SUBSET S : Cardinality(s) <= 0 => s = {}
      BY <1>1, FS_EmptySet
    <3> QED BY <3>1
  <2>2. g \in [SUBSET S -> Nat]
    OBVIOUS
  <2> HIDE DEF g
  <2> QED BY <2>1, <2>2
<1>4. ASSUME NEW n \in T
      PROVE  n + 1 \in T
  <2>1. PICK g \in [SUBSET S -> Nat] : Upto(n, g)
    OBVIOUS
  <2> DEFINE h == [s \in SUBSET S |->
                     IF s = {} THEN 0 ELSE f[Choice(s)] + g[s \ {Choice(s)}]]
  <2>2. h \in [SUBSET S -> Nat]
    <3>1. \A s \in SUBSET S : s # {} => f[Choice(s)] \in Nat /\ g[s \ {Choice(s)}] \in Nat
      BY <1>2
    <3>2. \A s \in SUBSET S : (IF s = {} THEN 0 ELSE f[Choice(s)] + g[s \ {Choice(s)}]) \in Nat
      BY <3>1
    <3> QED BY <3>2
  <2>3. \A s \in SUBSET S : Cardinality(s) <= n => h[s] = g[s]
    BY <2>1
  <2>4. ASSUME NEW s \in SUBSET S, Cardinality(s) <= n + 1, s # {}
        PROVE  h[s] = f[Choice(s)] + h[s \ {Choice(s)}]
    <3>1. /\ s \ {Choice(s)} \in SUBSET S
          /\ Cardinality(s \ {Choice(s)}) <= n
      BY <1>1, <1>2, <2>4
    <3>2. h[s \ {Choice(s)}] = g[s \ {Choice(s)}]
      BY <2>3, <3>1
    <3> QED BY <2>4, <3>2
  <2>5. Upto(n + 1, h)
    <3>1. h[{}] = 0
      OBVIOUS
    <3> HIDE DEF h
    <3> QED BY <2>4, <3>1
  <2> HIDE DEF h
  <2>6. n + 1 \in Nat
    OBVIOUS
  <2> HIDE DEF Upto
  <2>7. \E k \in [SUBSET S -> Nat] : Upto(n + 1, k)
    BY <2>2, <2>5
  <2> QED BY <2>6, <2>7
<1> HIDE DEF T
<1>5. T = Nat
  <2>1. T \in SUBSET Nat
    BY DEF T
  <2> QED BY <1>3, <1>4, <2>1, EveryNatural
<1>6. PICK g \in [SUBSET S -> Nat] : Upto(Cardinality(S), g)
  BY <1>1, <1>5 DEF T
<1>7. \A s \in SUBSET S :
        g[s] = IF s = {} THEN 0 ELSE f[Choice(s)] + g[s \ {Choice(s)}]
  BY <1>1, <1>6, FS_Subset
<1>8. SumTable(f, S, g)
  BY <1>7 DEF SumTable
<1> QED BY <1>8

\* Tables agree on the subsets they share.
LEMMA SumTablesAgree ==
  ASSUME NEW S, IsFiniteSet(S), NEW f \in [S -> Nat], NEW R \in SUBSET S, NEW r, NEW g,
         SumTable(f, R, r), SumTable(f, S, g)
  PROVE  r[R] = g[R]
<1> DEFINE T == {n \in Nat : \A s \in SUBSET R : Cardinality(s) = n => r[s] = g[s]}
<1>1. \A s \in SUBSET R : s \in SUBSET S /\ IsFiniteSet(s) /\ Cardinality(s) \in Nat
  BY FS_Subset, FS_CardinalityType
<1>2. /\ \A s \in SUBSET R : r[s] = IF s = {} THEN 0 ELSE f[Choice(s)] + r[s \ {Choice(s)}]
      /\ \A s \in SUBSET S : g[s] = IF s = {} THEN 0 ELSE f[Choice(s)] + g[s \ {Choice(s)}]
  BY DEF SumTable
<1>3. 0 \in T
  <2>1. \A s \in SUBSET R : Cardinality(s) = 0 => s = {}
    BY <1>1, FS_EmptySet
  <2> QED BY <1>2, <2>1
<1>4. ASSUME NEW n \in T
      PROVE  n + 1 \in T
  <2> SUFFICES ASSUME NEW s \in SUBSET R, Cardinality(s) = n + 1
               PROVE  r[s] = g[s]
    OBVIOUS
  <2>1. s # {}
    <3>1. n \in Nat /\ n + 1 # 0
      OBVIOUS
    <3> HIDE DEF T
    <3> QED BY <3>1, FS_EmptySet
  <2>2. Choice(s) \in s
    BY <2>1 DEF Choice
  <2>3. s \ {Choice(s)} \in SUBSET R /\ Cardinality(s \ {Choice(s)}) = n
    BY <1>1, <2>2, FS_RemoveElement
  <2>4. r[s \ {Choice(s)}] = g[s \ {Choice(s)}]
    BY <2>3
  <2> QED BY <1>1, <1>2, <2>1, <2>4
<1> HIDE DEF T
<1>5. T = Nat
  <2>1. T \in SUBSET Nat
    BY DEF T
  <2> QED BY <1>3, <1>4, <2>1, EveryNatural
<1>6. Cardinality(R) \in T
  BY <1>1, <1>5
<1> QED BY <1>6 DEF T

\* So the sum over R is what any table for a superset says of R.
LEMMA SumInTable ==
  ASSUME NEW S, IsFiniteSet(S), NEW f \in [S -> Nat], NEW g, SumTable(f, S, g),
         NEW R \in SUBSET S
  PROVE  SumFunctionOnSet(f, R) = g[R]
<1> DEFINE r == CHOOSE h : SumTable(f, R, h)
<1>1. SumTable(f, R, r)
  <2> DEFINE k == [x \in R |-> f[x]]
  <2>1. IsFiniteSet(R) /\ k \in [R -> Nat]
    BY FS_Subset
  <2>2. \A x \in R : k[x] = f[x]
    OBVIOUS
  <2> HIDE DEF k
  <2>3. PICK h \in [SUBSET R -> Nat] : SumTable(k, R, h)
    BY <2>1, SumTableExists
  <2>4. \A s \in SUBSET R : s # {} => Choice(s) \in R
    BY DEF Choice
  <2>5. \A s \in SUBSET R : h[s] = IF s = {} THEN 0 ELSE f[Choice(s)] + h[s \ {Choice(s)}]
    BY <2>2, <2>3, <2>4 DEF SumTable
  <2>6. SumTable(f, R, h)
    BY <2>5 DEF SumTable
  <2> QED BY <2>6
<1>2. SumFunctionOnSet(f, R) = r[R]
  BY SumIsChosen
<1> HIDE DEF r
<1> QED BY <1>1, <1>2, SumTablesAgree

-----------------------------------------------------------------------------
(* What sums are.                                                            *)

LEMMA SumType ==
  ASSUME NEW S, IsFiniteSet(S), NEW f \in [S -> Nat], NEW R \in SUBSET S
  PROVE  SumFunctionOnSet(f, R) \in Nat
<1>1. PICK g \in [SUBSET S -> Nat] : SumTable(f, S, g)
  BY SumTableExists
<1> QED BY <1>1, SumInTable

LEMMA SumEmpty ==
  ASSUME NEW f
  PROVE  SumFunctionOnSet(f, {}) = 0
<1> DEFINE k == [x \in {} |-> 0]
           h == [s \in SUBSET {} |-> 0]
<1>1. SumTable(f, {}, h)
  <2>1. \A s \in SUBSET {} : s = {}
    OBVIOUS
  <2> QED BY <2>1 DEF SumTable
<1> HIDE DEF h
<1>2. SumTable(f, {}, CHOOSE g : SumTable(f, {}, g))
  BY <1>1
<1>3. (CHOOSE g : SumTable(f, {}, g))[{}] = 0
  BY <1>2 DEF SumTable
<1> QED BY <1>3, SumIsChosen

\* It does not matter which element is added last.
LEMMA SumRemove ==
  ASSUME NEW S, IsFiniteSet(S), NEW f \in [S -> Nat], NEW R \in SUBSET S, NEW x \in R
  PROVE  SumFunctionOnSet(f, R) = f[x] + SumFunctionOnSet(f, R \ {x})
<1>1. PICK g \in [SUBSET S -> Nat] : SumTable(f, S, g)
  BY SumTableExists
<1>2. \A s \in SUBSET S : IsFiniteSet(s) /\ Cardinality(s) \in Nat
  BY FS_Subset, FS_CardinalityType
<1>3. \A s \in SUBSET S : g[s] = IF s = {} THEN 0 ELSE f[Choice(s)] + g[s \ {Choice(s)}]
  BY <1>1 DEF SumTable
<1> DEFINE T == {n \in Nat : \A s \in SUBSET S : Cardinality(s) = n =>
                   \A y \in s : g[s] = f[y] + g[s \ {y}]}
<1>4. 0 \in T
  BY <1>2, FS_EmptySet
<1>5. ASSUME NEW n \in T
      PROVE  n + 1 \in T
  <2> SUFFICES ASSUME NEW s \in SUBSET S, Cardinality(s) = n + 1, NEW y \in s
               PROVE  g[s] = f[y] + g[s \ {y}]
    OBVIOUS
  <2>0. \A r \in SUBSET S : Cardinality(r) = n => \A z \in r : g[r] = f[z] + g[r \ {z}]
    OBVIOUS
  <2>5. n \in Nat
    OBVIOUS
  <2> HIDE DEF T
  <2> DEFINE c == Choice(s)
  <2>1. c \in s
    BY DEF Choice
  <2>2. g[s] = f[c] + g[s \ {c}]
    BY <1>3
  <2>3. CASE y = c
    BY <2>2, <2>3
  <2>4. CASE y # c
    <3> HIDE DEF c
    <3>1. /\ s \ {c} \in SUBSET S /\ Cardinality(s \ {c}) = n
          /\ s \ {y} \in SUBSET S /\ Cardinality(s \ {y}) = n
      BY <1>2, <2>1, <2>5, OneFewer
    <3>2. g[s \ {c}] = f[y] + g[(s \ {c}) \ {y}]
      BY <2>0, <2>4, <3>1
    <3>3. g[s \ {y}] = f[c] + g[(s \ {c}) \ {y}]
      <4>1. (s \ {c}) \ {y} = (s \ {y}) \ {c}
        OBVIOUS
      <4>2. g[s \ {y}] = f[c] + g[(s \ {y}) \ {c}]
        BY <2>0, <2>1, <2>4, <3>1
      <4> QED BY <4>1, <4>2
    <3>4. f[c] \in Nat /\ f[y] \in Nat /\ g[(s \ {c}) \ {y}] \in Nat
      BY <2>1
    <3> QED BY <2>2, <3>2, <3>3, <3>4
  <2> QED BY <2>3, <2>4
<1> HIDE DEF T
<1>6. T = Nat
  <2>1. T \in SUBSET Nat
    BY DEF T
  <2> QED BY <1>4, <1>5, <2>1, EveryNatural
<1>7. Cardinality(R) \in T
  BY <1>2, <1>6
<1>8. g[R] = f[x] + g[R \ {x}]
  BY <1>7 DEF T
<1> QED BY <1>1, <1>8, SumInTable

LEMMA SumAdd ==
  ASSUME NEW S, IsFiniteSet(S), NEW f \in [S -> Nat], NEW R \in SUBSET S, NEW x \in S \ R
  PROVE  /\ SumFunctionOnSet(f, R \cup {x}) = f[x] + SumFunctionOnSet(f, R)
         /\ SumFunctionOnSet(f, R) \in Nat /\ f[x] \in Nat
<1>1. R \cup {x} \in SUBSET S /\ x \in R \cup {x} /\ (R \cup {x}) \ {x} = R
  OBVIOUS
<1> QED BY <1>1, SumRemove, SumType

\* A sum does not decrease when no number in it does.
LEMMA SumMonotone ==
  ASSUME NEW S, IsFiniteSet(S), NEW f \in [S -> Nat],
         NEW D, IsFiniteSet(D), NEW h \in [D -> Nat],
         NEW R \in SUBSET (S \cap D), \A x \in R : f[x] <= h[x]
  PROVE  SumFunctionOnSet(f, R) <= SumFunctionOnSet(h, R)
<1> DEFINE P == {s \in SUBSET R : SumFunctionOnSet(f, s) <= SumFunctionOnSet(h, s)}
<1>1. {} \in P
  BY SumEmpty
<1>2. ASSUME NEW s \in P, NEW x \in R \ s
      PROVE  s \cup {x} \in P
  <2>1. /\ s \in SUBSET S /\ s \in SUBSET D /\ x \in S \ s /\ x \in D \ s /\ s \cup {x} \in SUBSET R
        /\ SumFunctionOnSet(f, s) <= SumFunctionOnSet(h, s) /\ f[x] <= h[x]
    OBVIOUS
  <2> HIDE DEF P
  <2>2. /\ SumFunctionOnSet(f, s \cup {x}) = f[x] + SumFunctionOnSet(f, s)
        /\ SumFunctionOnSet(f, s) \in Nat /\ f[x] \in Nat
    BY <2>1, SumAdd
  <2>3. /\ SumFunctionOnSet(h, s \cup {x}) = h[x] + SumFunctionOnSet(h, s)
        /\ SumFunctionOnSet(h, s) \in Nat /\ h[x] \in Nat
    BY <2>1, SumAdd
  <2>4. SumFunctionOnSet(f, s \cup {x}) <= SumFunctionOnSet(h, s \cup {x})
    BY <2>1, <2>2, <2>3
  <2> QED BY <2>1, <2>4 DEF P
<1>3. IsFiniteSet(R) /\ P \in SUBSET (SUBSET R)
  BY FS_Subset
<1> HIDE DEF P
<1>4. R \in P
  BY <1>1, <1>2, <1>3, EverySubset
<1> QED BY <1>4 DEF P

\* A sum depends on the numbers in it only.
LEMMA SumSame ==
  ASSUME NEW S, IsFiniteSet(S), NEW f \in [S -> Nat],
         NEW D, IsFiniteSet(D), NEW h \in [D -> Nat],
         NEW R \in SUBSET (S \cap D), \A x \in R : f[x] = h[x]
  PROVE  SumFunctionOnSet(f, R) = SumFunctionOnSet(h, R)
<1>1. \A x \in R : f[x] <= h[x] /\ h[x] <= f[x]
  <2> SUFFICES ASSUME NEW x \in R
               PROVE  f[x] <= h[x] /\ h[x] <= f[x]
    OBVIOUS
  <2>1. f[x] \in Nat /\ f[x] = h[x]
    OBVIOUS
  <2> QED BY <2>1
<1>2. R \in SUBSET (D \cap S)
  OBVIOUS
<1>3. SumFunctionOnSet(f, R) <= SumFunctionOnSet(h, R)
  BY <1>1, SumMonotone
<1>4. SumFunctionOnSet(h, R) <= SumFunctionOnSet(f, R)
  BY <1>1, <1>2, SumMonotone
<1>5. SumFunctionOnSet(f, R) \in Nat /\ SumFunctionOnSet(h, R) \in Nat
  BY SumType
<1> QED BY <1>3, <1>4, <1>5

\* The sum over two sets that have nothing in common.
LEMMA SumUnion ==
  ASSUME NEW S, IsFiniteSet(S), NEW f \in [S -> Nat],
         NEW R \in SUBSET S, NEW Q \in SUBSET S, R \cap Q = {}
  PROVE  SumFunctionOnSet(f, R \cup Q) = SumFunctionOnSet(f, R) + SumFunctionOnSet(f, Q)
<1> DEFINE P == {s \in SUBSET Q :
                   SumFunctionOnSet(f, R \cup s) = SumFunctionOnSet(f, R) + SumFunctionOnSet(f, s)}
<1>1. SumFunctionOnSet(f, R) \in Nat
  BY SumType
<1>2. {} \in P
  <2>1. R \cup {} = R
    OBVIOUS
  <2> QED BY <1>1, <2>1, SumEmpty
<1>3. ASSUME NEW s \in P, NEW x \in Q \ s
      PROVE  s \cup {x} \in P
  <2> DEFINE Rs == R \cup s
  <2>1. /\ s \in SUBSET S /\ x \in S \ s /\ s \cup {x} \in SUBSET Q
        /\ SumFunctionOnSet(f, Rs) = SumFunctionOnSet(f, R) + SumFunctionOnSet(f, s)
    OBVIOUS
  <2>2. Rs \in SUBSET S /\ x \in S \ Rs /\ R \cup (s \cup {x}) = Rs \cup {x}
    OBVIOUS
  <2> HIDE DEF P, Rs
  <2>3. /\ SumFunctionOnSet(f, s \cup {x}) = f[x] + SumFunctionOnSet(f, s)
        /\ SumFunctionOnSet(f, s) \in Nat /\ f[x] \in Nat
    BY <2>1, SumAdd
  <2>4. SumFunctionOnSet(f, Rs \cup {x}) = f[x] + SumFunctionOnSet(f, Rs)
    BY <2>2, SumAdd
  <2>5. SumFunctionOnSet(f, R \cup (s \cup {x})) =
          SumFunctionOnSet(f, R) + SumFunctionOnSet(f, s \cup {x})
    <3>1. SumFunctionOnSet(f, Rs \cup {x}) =
            SumFunctionOnSet(f, R) + SumFunctionOnSet(f, s \cup {x})
      BY <1>1, <2>1, <2>3, <2>4
    <3> QED BY <2>2, <3>1
  <2> QED BY <2>1, <2>5 DEF P
<1>4. IsFiniteSet(Q) /\ P \in SUBSET (SUBSET Q)
  BY FS_Subset
<1> HIDE DEF P
<1>5. Q \in P
  BY <1>2, <1>3, <1>4, EverySubset
<1> QED BY <1>5 DEF P

\* A sum over less is not more.
LEMMA SumSubset ==
  ASSUME NEW S, IsFiniteSet(S), NEW f \in [S -> Nat], NEW Q \in SUBSET S, NEW R \in SUBSET Q
  PROVE  SumFunctionOnSet(f, R) <= SumFunctionOnSet(f, Q)
<1>1. R \in SUBSET S /\ Q \ R \in SUBSET S /\ R \cap (Q \ R) = {} /\ R \cup (Q \ R) = Q
  OBVIOUS
<1>2. SumFunctionOnSet(f, Q) = SumFunctionOnSet(f, R) + SumFunctionOnSet(f, Q \ R)
  <2>1. SumFunctionOnSet(f, R \cup (Q \ R)) =
          SumFunctionOnSet(f, R) + SumFunctionOnSet(f, Q \ R)
    BY <1>1, SumUnion
  <2> QED BY <1>1, <2>1
<1>3. SumFunctionOnSet(f, R) \in Nat /\ SumFunctionOnSet(f, Q \ R) \in Nat
  BY <1>1, SumType
<1> QED BY <1>2, <1>3

\* When one number grows by at most one and no other grows, so does the sum.
LEMMA SumOneMore ==
  ASSUME NEW S, IsFiniteSet(S), NEW f \in [S -> Nat],
         NEW D, IsFiniteSet(D), NEW h \in [D -> Nat],
         NEW R \in SUBSET (S \cap D), NEW c,
         \A x \in R : IF x = c THEN f[x] <= h[x] + 1 ELSE f[x] <= h[x]
  PROVE  SumFunctionOnSet(f, R) <= SumFunctionOnSet(h, R) + 1
<1>1. CASE c \notin R
  <2>1. \A x \in R : f[x] <= h[x]
    BY <1>1
  <2>2. SumFunctionOnSet(f, R) <= SumFunctionOnSet(h, R)
    BY <2>1, SumMonotone
  <2>3. SumFunctionOnSet(f, R) \in Nat /\ SumFunctionOnSet(h, R) \in Nat
    BY SumType
  <2> QED BY <2>2, <2>3
<1>2. CASE c \in R
  <2> DEFINE Q == R \ {c}
  <2>1. Q \in SUBSET (S \cap D) /\ \A x \in Q : f[x] <= h[x]
    OBVIOUS
  <2>2. SumFunctionOnSet(f, Q) <= SumFunctionOnSet(h, Q)
    BY <2>1, SumMonotone
  <2>3. SumFunctionOnSet(f, R) = f[c] + SumFunctionOnSet(f, Q)
    BY <1>2, SumRemove
  <2>4. SumFunctionOnSet(h, R) = h[c] + SumFunctionOnSet(h, Q)
    BY <1>2, SumRemove
  <2>5. SumFunctionOnSet(f, Q) \in Nat /\ SumFunctionOnSet(h, Q) \in Nat
    BY <2>1, SumType
  <2>6. f[c] \in Nat /\ h[c] \in Nat /\ f[c] <= h[c] + 1
    BY <1>2
  <2> QED BY <2>2, <2>3, <2>4, <2>5, <2>6
<1> QED BY <1>1, <1>2

\* The sum of the same number n times.
LEMMA SumConstant ==
  ASSUME NEW S, IsFiniteSet(S), NEW f \in [S -> Nat], NEW R \in SUBSET S,
         NEW k \in Nat, \A x \in R : f[x] = k
  PROVE  SumFunctionOnSet(f, R) = k * Cardinality(R)
<1> DEFINE P == {s \in SUBSET R : SumFunctionOnSet(f, s) = k * Cardinality(s)}
<1>1. {} \in P
  BY SumEmpty, FS_EmptySet
<1>2. IsFiniteSet(R) /\ P \in SUBSET (SUBSET R) /\ \A s \in SUBSET R : IsFiniteSet(s)
  BY FS_Subset
<1>3. ASSUME NEW s \in P, NEW x \in R \ s
      PROVE  s \cup {x} \in P
  <2>1. /\ s \in SUBSET R /\ s \in SUBSET S /\ x \in S \ s /\ s \cup {x} \in SUBSET R /\ f[x] = k
        /\ SumFunctionOnSet(f, s) = k * Cardinality(s)
    OBVIOUS
  <2> HIDE DEF P
  <2>2. SumFunctionOnSet(f, s \cup {x}) = f[x] + SumFunctionOnSet(f, s)
    BY <2>1, SumAdd
  <2>3. IsFiniteSet(s)
    BY <1>2, <2>1
  <2>4. Cardinality(s) \in Nat
    BY <2>3, FS_CardinalityType
  <2>5. Cardinality(s \cup {x}) = Cardinality(s) + 1
    BY <2>1, <2>3, FS_AddElement
  <2>6. \A n \in Nat : k + k * n = k * (n + 1)
    OBVIOUS
  <2>7. SumFunctionOnSet(f, s \cup {x}) = k * Cardinality(s \cup {x})
    BY <2>1, <2>2, <2>4, <2>5, <2>6
  <2> QED BY <2>1, <2>7 DEF P
<1> HIDE DEF P
<1>4. R \in P
  BY <1>1, <1>2, <1>3, EverySubset
<1> QED BY <1>4 DEF P

\* Two sums of the same numbers under different names.
LEMMA SumRenamed ==
  ASSUME NEW S, IsFiniteSet(S), NEW f \in [S -> Nat],
         NEW D, IsFiniteSet(D), NEW h \in [D -> Nat],
         NEW R \in SUBSET S, NEW m \in [R -> D],
         \A x, y \in R : m[x] = m[y] => x = y,
         \A x \in R : h[m[x]] = f[x]
  PROVE  SumFunctionOnSet(h, {m[x] : x \in R}) = SumFunctionOnSet(f, R)
<1> DEFINE P == {s \in SUBSET R : SumFunctionOnSet(h, {m[x] : x \in s}) = SumFunctionOnSet(f, s)}
<1>1. {} \in P
  <2>1. {m[x] : x \in {}} = {}
    OBVIOUS
  <2>2. SumFunctionOnSet(h, {m[x] : x \in {}}) = SumFunctionOnSet(f, {})
    BY <2>1, SumEmpty
  <2> QED BY <2>2
<1>2. ASSUME NEW s \in P, NEW x \in R \ s
      PROVE  s \cup {x} \in P
  <2> DEFINE ms == {m[y] : y \in s}
  <2>1. /\ s \in SUBSET S /\ x \in S \ s /\ s \cup {x} \in SUBSET R /\ f[x] = h[m[x]]
        /\ SumFunctionOnSet(h, ms) = SumFunctionOnSet(f, s)
    OBVIOUS
  <2>2. ms \in SUBSET D /\ m[x] \in D \ ms /\ {m[y] : y \in s \cup {x}} = ms \cup {m[x]}
    OBVIOUS
  <2> HIDE DEF P, ms
  <2>3. SumFunctionOnSet(f, s \cup {x}) = f[x] + SumFunctionOnSet(f, s)
    BY <2>1, SumAdd
  <2>4. SumFunctionOnSet(h, ms \cup {m[x]}) = h[m[x]] + SumFunctionOnSet(h, ms)
    BY <2>2, SumAdd
  <2>5. SumFunctionOnSet(h, {m[y] : y \in s \cup {x}}) = SumFunctionOnSet(f, s \cup {x})
    BY <2>1, <2>2, <2>3, <2>4
  <2> QED BY <2>1, <2>5 DEF P
<1>3. IsFiniteSet(R) /\ P \in SUBSET (SUBSET R)
  BY FS_Subset
<1> HIDE DEF P
<1>4. R \in P
  BY <1>1, <1>2, <1>3, EverySubset
<1> QED BY <1>4 DEF P



\* Numbers that are 0 do not count.
LEMMA SumZero ==
  ASSUME NEW S, IsFiniteSet(S), NEW f \in [S -> Nat], NEW R \in SUBSET S, \A x \in R : f[x] = 0
  PROVE  SumFunctionOnSet(f, R) = 0
<1>1. SumFunctionOnSet(f, R) = 0 * Cardinality(R)
  BY SumConstant
<1>2. Cardinality(R) \in Nat
  BY FS_Subset, FS_CardinalityType
<1> QED BY <1>1, <1>2

\* Two sums that differ in one number.
LEMMA SumChanged ==
  ASSUME NEW S, IsFiniteSet(S), NEW f \in [S -> Nat], NEW h \in [S -> Nat],
         NEW R \in SUBSET S, NEW c \in R, \A x \in R \ {c} : f[x] = h[x]
  PROVE  /\ SumFunctionOnSet(f, R) + h[c] = SumFunctionOnSet(h, R) + f[c]
         /\ SumFunctionOnSet(f, R) \in Nat /\ SumFunctionOnSet(h, R) \in Nat
<1>1. SumFunctionOnSet(f, R \ {c}) = SumFunctionOnSet(h, R \ {c})
  <2>1. R \ {c} \in SUBSET (S \cap S)
    OBVIOUS
  <2> QED BY <2>1, SumSame
<1>2. /\ SumFunctionOnSet(f, R) = f[c] + SumFunctionOnSet(f, R \ {c})
      /\ SumFunctionOnSet(h, R) = h[c] + SumFunctionOnSet(h, R \ {c})
  BY SumRemove
<1>3. /\ SumFunctionOnSet(f, R) \in Nat /\ SumFunctionOnSet(h, R) \in Nat
      /\ SumFunctionOnSet(h, R \ {c}) \in Nat /\ f[c] \in Nat /\ h[c] \in Nat
  <2>1. R \ {c} \in SUBSET S
    OBVIOUS
  <2> QED BY <2>1, SumType
<1> QED BY <1>1, <1>2, <1>3

\* A sum whose numbers other than 0 are different terms of another sum.
LEMMA SumMapped ==
  ASSUME NEW S, IsFiniteSet(S), NEW f \in [S -> Nat], NEW h \in [S -> Nat],
         NEW R \in SUBSET S, NEW Q \in SUBSET S, NEW P \in SUBSET R, NEW m \in [P -> S],
         \A x \in R \ P : h[x] = 0,
         \A x \in P : m[x] \in Q /\ f[m[x]] = h[x],
         \A x, y \in P : m[x] = m[y] => x = y
  PROVE  SumFunctionOnSet(h, R) <= SumFunctionOnSet(f, Q)
<1> DEFINE rest == R \ P
           terms == {m[x] : x \in P}
<1>1. P \in SUBSET S /\ rest \in SUBSET S /\ P \cap rest = {} /\ P \cup rest = R
  OBVIOUS
<1>2. SumFunctionOnSet(h, rest) = 0
  <2>1. \A x \in rest : h[x] = 0
    OBVIOUS
  <2> HIDE DEF rest
  <2> QED BY <1>1, <2>1, SumZero
<1>3. terms \in SUBSET Q
  OBVIOUS
<1>4. SumFunctionOnSet(f, terms) = SumFunctionOnSet(h, P)
  <2>1. \A x \in P : f[m[x]] = h[x]
    OBVIOUS
  <2> QED BY <1>1, <2>1, SumRenamed
<1> HIDE DEF rest, terms
<1>5. SumFunctionOnSet(f, terms) <= SumFunctionOnSet(f, Q)
  BY <1>3, SumSubset
<1>6. SumFunctionOnSet(h, R) = SumFunctionOnSet(h, P)
  <2>1. SumFunctionOnSet(h, P \cup rest) = SumFunctionOnSet(h, P) + SumFunctionOnSet(h, rest)
    BY <1>1, SumUnion
  <2>2. SumFunctionOnSet(h, P) \in Nat
    BY <1>1, SumType
  <2>3. SumFunctionOnSet(h, R) = SumFunctionOnSet(h, P) + 0
    BY <1>1, <1>2, <2>1, Zenon
  <2> QED BY <2>2, <2>3
<1> QED BY <1>4, <1>5, <1>6

\* Numbers that have moved up by one place.
MovedUp(f, h, R, Q) ==
  \A t \in R : t \in Nat /\ (h[t] = 0 \/ (t - 1 \in Q /\ h[t] = f[t - 1]))

LEMMA SumShifted ==
  ASSUME NEW S, IsFiniteSet(S), NEW f \in [S -> Nat], NEW h \in [S -> Nat],
         NEW R \in SUBSET S, NEW Q \in SUBSET S, MovedUp(f, h, R, Q)
  PROVE  SumFunctionOnSet(h, R) <= SumFunctionOnSet(f, Q)
<1>2. PICK P \in SUBSET R : P = {t \in R : h[t] # 0}
  OBVIOUS
<1>3. PICK m \in [P -> S] : \A t \in P : m[t] = t - 1
  <2> DEFINE moved == [t \in P |-> t - 1]
  <2>1. moved \in [P -> S] /\ (\A t \in P : moved[t] = t - 1)
    BY <1>2 DEF MovedUp
  <2> HIDE DEF moved
  <2> QED BY <2>1
<1>4. \A t \in R \ P : h[t] = 0
  BY <1>2
<1>5. \A t \in P : m[t] \in Q /\ f[m[t]] = h[t]
  BY <1>2, <1>3 DEF MovedUp
<1>6. \A s, t \in P : m[s] = m[t] => s = t
  BY <1>2, <1>3 DEF MovedUp
<1> QED BY <1>4, <1>5, <1>6, SumMapped


\* Two sums of numbers one of which is one more in the second.
LEMMA SumIncreased ==
  ASSUME NEW S, IsFiniteSet(S), NEW f \in [S -> Nat], NEW h \in [S -> Nat], NEW c \in S,
         h[c] = f[c] + 1, \A x \in S \ {c} : h[x] = f[x], NEW R \in SUBSET S
  PROVE  SumFunctionOnSet(h, R)
           = IF c \in R THEN SumFunctionOnSet(f, R) + 1 ELSE SumFunctionOnSet(f, R)
<1>1. CASE c \in R
  <2>1. \A x \in R \ {c} : h[x] = f[x]
    OBVIOUS
  <2>2. /\ SumFunctionOnSet(h, R) + f[c] = SumFunctionOnSet(f, R) + h[c]
        /\ SumFunctionOnSet(h, R) \in Nat /\ SumFunctionOnSet(f, R) \in Nat
    BY <1>1, <2>1, SumChanged
  <2>3. f[c] \in Nat
    OBVIOUS
  <2>4. SumFunctionOnSet(h, R) = SumFunctionOnSet(f, R) + 1
    BY <2>2, <2>3
  <2> QED BY <1>1, <2>4
<1>2. CASE c \notin R
  <2>1. R \in SUBSET (S \cap S) /\ (\A x \in R : h[x] = f[x])
    BY <1>2
  <2>2. SumFunctionOnSet(h, R) = SumFunctionOnSet(f, R)
    BY <2>1, SumSame
  <2> QED BY <1>2, <2>2
<1> QED BY <1>1, <1>2


=============================================================================
