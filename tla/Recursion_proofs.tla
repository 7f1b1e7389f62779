--------------------------- MODULE Recursion_proofs ---------------------------
(***************************************************************************)
(* What the proofs about loops need: induction over the numbers, that a    *)
(* recursive function exists and satisfies its definition, and the sums    *)
(* and folds of the library, which are such functions.                     *)
(*                                                                         *)
(* A property of numbers is given as the set of numbers that have it, and  *)
(* a recursive definition as a function (Recursive): nothing here takes an *)
(* operator.                                                               *)
(***************************************************************************)
EXTENDS Integers, Sequences, FiniteSetsExt, TLAPS, WellFoundedInduction, FiniteSetTheorems

-----------------------------------------------------------------------------
(* Induction, iteration, recursion                                         *)

\* A non-empty set of natural numbers has a least element.
LEMMA LeastNumber ==
  ASSUME NEW S \in SUBSET Nat, S # {}
  PROVE  \E m \in S : \A k \in S : m <= k
<1> DEFINE R == OpToRel(<, Nat)
<1>1. IsWellFoundedOn(R, Nat)
  BY NatLessThanWellFounded
<1>2. \A j, k \in Nat : <<j, k>> \in R <=> j < k
  BY DEF OpToRel
<1> HIDE DEF R
<1>a. S \subseteq Nat
  OBVIOUS
<1>3. \E m \in S : \A k \in S : ~ (<<k, m>> \in R)
  BY <1>1, <1>a, WFMin, Zenon
<1>4. PICK m \in S : \A k \in S : ~ (<<k, m>> \in R)
  BY <1>3
<1>5. \A k \in S : ~ (k < m) /\ k \in Nat /\ m \in Nat
  BY <1>2, <1>4, <1>a
<1> QED
  BY <1>5

\* Induction, with the property given as the set of numbers that have it.
LEMMA InductionTo ==
  ASSUME NEW N \in Nat, NEW S, 0 \in S, \A n \in 0 .. N - 1 : n \in S => n + 1 \in S
  PROVE  \A n \in 0 .. N : n \in S
<1> DEFINE bad == {n \in 0 .. N : n \notin S}
<1>1. SUFFICES ASSUME bad # {} PROVE FALSE
  OBVIOUS
<1>2. bad \in SUBSET Nat
  OBVIOUS
<1>3. PICK m \in bad : \A k \in bad : m <= k
  <2> HIDE DEF bad
  <2> QED
    BY <1>1, <1>2, LeastNumber
<1>4. m # 0 /\ m - 1 \in 0 .. N - 1 /\ m - 1 \notin bad
  BY <1>3
<1> QED
  BY <1>3, <1>4

LEMMA Induction ==
  ASSUME NEW S, 0 \in S, \A n \in Nat : n \in S => n + 1 \in S
  PROVE  \A n \in Nat : n \in S
<1> TAKE n \in Nat
<1> QED
  BY InductionTo

\* A function may be iterated.
LEMMA Iteration ==
  ASSUME NEW T, NEW base \in T, NEW step \in [T -> T]
  PROVE  \E f \in [Nat -> T] : f[0] = base /\ \A n \in Nat : f[n + 1] = step[f[n]]
<1> DEFINE Begins(g, n) == g[0] = base /\ \A i \in 0 .. n - 1 : g[i + 1] = step[g[i]]
           good == {n \in Nat : \E g \in [0 .. n -> T] : Begins(g, n)}
<1>1. \A n \in Nat : n \in good
  <2>1. 0 \in good
    <3>1. [i \in 0 .. 0 |-> base] \in [0 .. 0 -> T] /\ Begins([i \in 0 .. 0 |-> base], 0)
      OBVIOUS
    <3> QED
      BY <3>1
  <2>2. ASSUME NEW n \in Nat, n \in good
        PROVE  n + 1 \in good
    <3>1. PICK g \in [0 .. n -> T] : Begins(g, n)
      BY <2>2
    <3> DEFINE h == [i \in 0 .. n + 1 |-> IF i <= n THEN g[i] ELSE step[g[n]]]
    <3>2. h \in [0 .. n + 1 -> T]
      OBVIOUS
    <3>3. Begins(h, n + 1)
      BY <3>1
    <3> HIDE DEF h, Begins
    <3> QED
      BY <3>2, <3>3
  <2> HIDE DEF good
  <2> QED
    BY <2>1, <2>2, Induction
<1>2. ASSUME NEW n \in Nat, NEW k \in Nat, n <= k, NEW g, NEW h, Begins(g, n), Begins(h, k)
      PROVE  g[n] = h[n]
  <2> DEFINE same == {i \in Nat : g[i] = h[i]}
  <2>1. 0 \in same
    BY <1>2
  <2>2. \A i \in 0 .. n - 1 : i \in same => i + 1 \in same
    BY <1>2
  <2> HIDE DEF same
  <2>3. n \in same
    BY <2>1, <2>2, InductionTo
  <2> QED
    BY <2>3 DEF same
<1> DEFINE run == [n \in Nat |-> CHOOSE g \in [0 .. n -> T] : Begins(g, n)]
           f == [n \in Nat |-> run[n][n]]
<1>3. \A n \in Nat : run[n] \in [0 .. n -> T] /\ Begins(run[n], n)
  BY <1>1
<1> HIDE DEF run, good
<1>4. f \in [Nat -> T] /\ f[0] = base
  BY <1>3
<1>5. ASSUME NEW n \in Nat
      PROVE  f[n + 1] = step[f[n]]
  <2>1. run[n + 1][n + 1] = step[run[n + 1][n]]
    BY <1>3
  <2>2. run[n][n] = run[n + 1][n]
    <3>1. Begins(run[n], n) /\ Begins(run[n + 1], n + 1)
      BY <1>3
    <3> HIDE DEF Begins
    <3> QED
      BY <3>1, <1>2
  <2> QED
    BY <2>1, <2>2
<1> HIDE DEF f
<1> QED
  BY <1>4, <1>5

\* A recursive definition on S with values in T: body[x][g] is the value at x when the
\* others are those of g, and uses of them those at a lower rank only.
Recursive(S, T, rank, body) ==
    /\ rank \in [S -> Nat]
    /\ body \in [S -> [[S -> T] -> T]]
    /\ \A x \in S : \A g, h \in [S -> T] :
          (\A y \in S : rank[y] < rank[x] => g[y] = h[y]) => body[x][g] = body[x][h]

Solves(f, S, T, body) == f \in [S -> T] /\ \A x \in S : f[x] = body[x][f]

\* Such a definition has a function that satisfies it.
LEMMA Recursion ==
  ASSUME NEW S, NEW T, T # {}, NEW rank, NEW body, Recursive(S, T, rank, body)
  PROVE  \E f : Solves(f, S, T, body)
<1> DEFINE values == [S -> T]
           step == [g \in values |-> [x \in S |-> body[x][g]]]
<1>a. \A x \in S : rank[x] \in Nat
  BY DEF Recursive
<1>b. \A g \in values : step[g] = [x \in S |-> body[x][g]]
  OBVIOUS
<1>c. step \in [values -> values]
  BY DEF Recursive
<1>d. \A x \in S : \A g, h \in values :
         (\A y \in S : rank[y] < rank[x] => g[y] = h[y]) => body[x][g] = body[x][h]
  BY DEF Recursive
<1>1. PICK first \in values : TRUE
  <2>1. PICK t \in T : TRUE
    OBVIOUS
  <2>2. [x \in S |-> t] \in values
    OBVIOUS
  <2> QED
    BY <2>2
<1> HIDE DEF step, values
<1>2. PICK G \in [Nat -> values] : G[0] = first /\ \A n \in Nat : G[n + 1] = step[G[n]]
  BY <1>c, Iteration
<1>3. \A n \in Nat : G[n] \in values /\ \A x \in S : G[n + 1][x] = body[x][G[n]]
  <2> TAKE n \in Nat
  <2>1. G[n] \in values /\ G[n + 1] = step[G[n]]
    BY <1>2
  <2>2. step[G[n]] = [x \in S |-> body[x][G[n]]]
    BY <2>1, <1>b
  <2> QED
    BY <2>1, <2>2
<1>4. \A n \in Nat : \A x \in S : rank[x] < n => G[n + 1][x] = G[n][x]
  <2> DEFINE settled == {n \in Nat : \A x \in S : rank[x] < n => G[n + 1][x] = G[n][x]}
  <2>1. 0 \in settled
    BY <1>a
  <2>2. ASSUME NEW n \in Nat, n \in settled
        PROVE  n + 1 \in settled
    <3> SUFFICES ASSUME NEW x \in S, rank[x] < n + 1
                 PROVE  G[n + 1 + 1][x] = G[n + 1][x]
      OBVIOUS
    <3>1. \A y \in S : rank[y] < rank[x] => G[n + 1][y] = G[n][y]
      BY <2>2, <1>a
    <3>2. body[x][G[n + 1]] = body[x][G[n]]
      BY <3>1, <1>3, <1>d
    <3> QED
      BY <1>3, <3>2
  <2> HIDE DEF settled
  <2>3. \A n \in Nat : n \in settled
    BY <2>1, <2>2, Induction
  <2> QED
    BY <2>3 DEF settled
<1> DEFINE f == [x \in S |-> G[rank[x] + 1][x]]
<1>5. \A n \in Nat : \A x \in S : rank[x] < n => G[n][x] = f[x]
  <2> DEFINE reached == {n \in Nat : \A x \in S : rank[x] < n => G[n][x] = f[x]}
  <2>1. 0 \in reached
    BY <1>a
  <2>2. ASSUME NEW n \in Nat, n \in reached
        PROVE  n + 1 \in reached
    <3> SUFFICES ASSUME NEW x \in S, rank[x] < n + 1
                 PROVE  G[n + 1][x] = f[x]
      OBVIOUS
    <3>1. CASE rank[x] < n
      BY <3>1, <1>4, <2>2
    <3>2. CASE rank[x] = n
      BY <3>2
    <3>4. rank[x] < n \/ rank[x] = n
      BY <1>a
    <3> HIDE DEF f
    <3> QED
      BY <3>1, <3>2, <3>4
  <2> HIDE DEF reached
  <2>3. \A n \in Nat : n \in reached
    BY <2>1, <2>2, Induction
  <2> QED
    BY <2>3 DEF reached
<1>6. f \in [S -> T]
  BY <1>3, <1>a DEF values
<1>7. ASSUME NEW x \in S
      PROVE  f[x] = body[x][f]
  <2>1. f[x] = body[x][G[rank[x]]]
    BY <1>3, <1>a
  <2>2. \A y \in S : rank[y] < rank[x] => G[rank[x]][y] = f[y]
    BY <1>5, <1>a
  <2>3. G[rank[x]] \in values /\ f \in values
    BY <1>3, <1>a, <1>6 DEF values
  <2> HIDE DEF f
  <2> QED
    BY <2>1, <2>2, <2>3, <1>d
<1> HIDE DEF f
<1>8. Solves(f, S, T, body)
  BY <1>6, <1>7 DEF Solves
<1> QED
  BY <1>8

-----------------------------------------------------------------------------
(* Sums over finite sets, folds over sequences                             *)

\* The equation behind MapThenSumSet, f being the summed function.
SumsUp(it, f, S) ==
    it = [s \in SUBSET S |->
            IF s = {} THEN 0
            ELSE LET x == CHOOSE x \in s : TRUE IN f[x] + it[s \ {x}]]

\* What one wants of it: any element may be taken out first.
Adds(it, f, S) ==
    /\ it[{}] = 0
    /\ \A s \in SUBSET S : it[s] \in Int /\ \A x \in s : it[s] = f[x] + it[s \ {x}]

\* Taking an element out of a finite set.
LEMMA SmallerRest ==
  ASSUME NEW S, IsFiniteSet(S), NEW s \in SUBSET S, NEW x \in s
  PROVE  /\ s \ {x} \in SUBSET S
         /\ Cardinality(s) \in Nat /\ Cardinality(s \ {x}) \in Nat
         /\ Cardinality(s) = Cardinality(s \ {x}) + 1
<1>1. IsFiniteSet(s)
  BY FS_Subset
<1>2. /\ IsFiniteSet(s \ {x}) /\ Cardinality(s \ {x}) = Cardinality(s) - 1
  BY <1>1, FS_RemoveElement
<1>3. Cardinality(s) \in Nat /\ Cardinality(s \ {x}) \in Nat
  BY <1>1, <1>2, FS_CardinalityType
<1> QED
  BY <1>2, <1>3

\* The equation has a solution, and the solution adds.
LEMMA SumExists ==
  ASSUME NEW S, IsFiniteSet(S), NEW f, \A x \in S : f[x] \in Int
  PROVE  \E it : SumsUp(it, f, S)
<1> DEFINE D == SUBSET S
           first(s) == CHOOSE x \in s : TRUE
           value(g, s) == IF s = {} THEN 0 ELSE f[first(s)] + g[s \ {first(s)}]
           rank == [s \in D |-> Cardinality(s)]
           body == [s \in D |-> [g \in [D -> Int] |-> value(g, s)]]
<1>1. \A s \in D : s # {} => first(s) \in s
  OBVIOUS
<1> HIDE DEF first
<1>2. \A s \in D : s # {} =>
         /\ s \ {first(s)} \in D /\ rank[s \ {first(s)}] < rank[s] /\ f[first(s)] \in Int
  <2> TAKE s \in D
  <2> HAVE s # {}
  <2>1. first(s) \in s /\ first(s) \in S
    BY <1>1
  <2>2. s \ {first(s)} \in D /\ Cardinality(s \ {first(s)}) \in Nat
        /\ Cardinality(s) = Cardinality(s \ {first(s)}) + 1
    BY <2>1, SmallerRest
  <2>3. rank[s] = Cardinality(s) /\ rank[s \ {first(s)}] = Cardinality(s \ {first(s)})
    BY <2>2
  <2> QED
    BY <2>1, <2>2, <2>3
<1>3. rank \in [D -> Nat]
  <2> SUFFICES ASSUME NEW s \in D PROVE Cardinality(s) \in Nat
    OBVIOUS
  <2> QED
    BY FS_Subset, FS_CardinalityType
<1>4. Int # {}
  OBVIOUS
<1>5. \A s \in D : \A g \in [D -> Int] : body[s][g] = value(g, s)
  OBVIOUS
<1>6. body \in [D -> [[D -> Int] -> Int]]
  <2> SUFFICES ASSUME NEW s \in D, NEW g \in [D -> Int]
               PROVE  value(g, s) \in Int
    OBVIOUS
  <2>1. s # {} => g[s \ {first(s)}] \in Int
    BY <1>2
  <2>2. CASE s = {}
    BY <2>2
  <2>3. CASE s # {}
    <3>1. f[first(s)] \in Int /\ g[s \ {first(s)}] \in Int
      BY <2>3, <1>2, <2>1
    <3> QED
      BY <2>3, <3>1
  <2> QED
    BY <2>2, <2>3
<1>7. \A s \in D : \A g, h \in [D -> Int] :
         (\A r \in D : rank[r] < rank[s] => g[r] = h[r]) => value(g, s) = value(h, s)
  BY <1>2
<1> HIDE DEF body, value, rank, D
<1>8. \A s \in D : \A g, h \in [D -> Int] :
         (\A r \in D : rank[r] < rank[s] => g[r] = h[r]) => body[s][g] = body[s][h]
  <2> TAKE s \in D
  <2> TAKE g, h \in [D -> Int]
  <2> HAVE \A r \in D : rank[r] < rank[s] => g[r] = h[r]
  <2>1. value(g, s) = value(h, s)
    BY <1>7
  <2> QED
    BY <2>1, <1>5, Zenon
<1>9. Recursive(D, Int, rank, body)
  BY <1>3, <1>6, <1>8, Zenon DEF Recursive
<1>10. PICK it : Solves(it, D, Int, body)
  BY <1>4, <1>9, Recursion
<1>11. \A s \in D : it[s] = value(it, s)
  BY <1>5, <1>10, Zenon DEF Solves
<1>12. it \in [SUBSET S -> Int]
  BY <1>10 DEF Solves, D
<1> QED
  BY <1>11, <1>12 DEF SumsUp, value, D, first

LEMMA SumAdds ==
  ASSUME NEW S, IsFiniteSet(S), NEW f, \A x \in S : f[x] \in Int, NEW it, SumsUp(it, f, S)
  PROVE  Adds(it, f, S)
<1> DEFINE first(s) == CHOOSE x \in s : TRUE
           Fine(s) == it[s] \in Int /\ \A x \in s : it[s] = f[x] + it[s \ {x}]
           good == {n \in Nat : \A s \in SUBSET S : Cardinality(s) <= n => Fine(s)}
<1>1. it[{}] = 0 /\ \A s \in SUBSET S : s # {} => it[s] = f[first(s)] + it[s \ {first(s)}]
  BY DEF SumsUp
<1>2. \A s \in SUBSET S : s # {} => first(s) \in s
  OBVIOUS
<1> HIDE DEF first
<1>3. 0 \in good
  <2>1. ASSUME NEW s \in SUBSET S, Cardinality(s) <= 0
        PROVE  s = {}
    BY <2>1, FS_Subset, FS_EmptySet, FS_CardinalityType
  <2>2. Fine({})
    BY <1>1
  <2> QED
    BY <2>1, <2>2
<1>4. ASSUME NEW n \in Nat, n \in good
      PROVE  n + 1 \in good
  <2> SUFFICES ASSUME NEW s \in SUBSET S, Cardinality(s) <= n + 1
               PROVE  Fine(s)
    OBVIOUS
  <2>1. \A x \in s : s \ {x} \in SUBSET S /\ Cardinality(s \ {x}) <= n
    BY SmallerRest
  <2>2. \A x \in s : Fine(s \ {x})
    BY <1>4, <2>1
  <2>3. CASE s = {}
    BY <1>1, <2>3
  <2>4. CASE s # {}
    <3> DEFINE c == first(s)
    <3>1. c \in s /\ it[s] = f[c] + it[s \ {c}] /\ f[c] \in Int
      BY <1>1, <1>2, <2>4
    <3> HIDE DEF c
    <3>2. it[s \ {c}] \in Int
      BY <2>2, <3>1
    <3>3. it[s] \in Int
      BY <3>1, <3>2
    <3>4. ASSUME NEW x \in s, x # c
          PROVE  it[s] = f[x] + it[s \ {x}]
      <4> DEFINE rest == (s \ {c}) \ {x}
      <4>1. x \in s \ {c} /\ c \in s \ {x} /\ rest = (s \ {x}) \ {c}
        BY <3>1, <3>4
      <4>2. it[s \ {c}] = f[x] + it[rest]
        BY <2>2, <3>1, <4>1
      <4>3. it[rest] \in Int
        <5>1. s \ {c} \in SUBSET S /\ Cardinality(s \ {c}) <= n
          BY <2>1, <3>1
        <5>2. rest \in SUBSET S /\ Cardinality(rest) <= n
          BY <4>1, <5>1, SmallerRest
        <5> HIDE DEF rest
        <5> QED
          BY <1>4, <5>2
      <4> HIDE DEF rest
      <4>4. it[s \ {x}] = f[c] + it[rest]
        BY <2>2, <4>1
      <4>5. f[x] \in Int
        OBVIOUS
      <4> QED
        BY <3>1, <4>2, <4>3, <4>4, <4>5
    <3> QED
      BY <3>1, <3>3, <3>4
  <2> QED
    BY <2>3, <2>4
<1> HIDE DEF good
<1>5. \A n \in Nat : n \in good
  BY <1>3, <1>4, Induction
<1>6. \A s \in SUBSET S : Fine(s)
  <2> TAKE s \in SUBSET S
  <2>1. Cardinality(s) \in Nat
    BY FS_Subset, FS_CardinalityType
  <2> QED
    BY <1>5, <2>1 DEF good
<1> QED
  BY <1>1, <1>6 DEF Adds

\* A sum of natural numbers is one.
LEMMA SumIsNatural ==
  ASSUME NEW S, IsFiniteSet(S), NEW f, \A x \in S : f[x] \in Nat, NEW it, Adds(it, f, S)
  PROVE  it[S] \in Nat
<1> DEFINE good == {n \in Nat : \A s \in SUBSET S : Cardinality(s) <= n => it[s] >= 0}
<1>1. 0 \in good
  <2>1. ASSUME NEW s \in SUBSET S, Cardinality(s) <= 0
        PROVE  s = {}
    BY <2>1, FS_Subset, FS_EmptySet, FS_CardinalityType
  <2>2. it[{}] = 0
    BY DEF Adds
  <2> QED
    BY <2>1, <2>2
<1>2. ASSUME NEW n \in Nat, n \in good
      PROVE  n + 1 \in good
  <2> SUFFICES ASSUME NEW s \in SUBSET S, Cardinality(s) <= n + 1
               PROVE  it[s] >= 0
    OBVIOUS
  <2>1. CASE s = {}
    BY <2>1 DEF Adds
  <2>2. ASSUME NEW x \in s
        PROVE  it[s] >= 0
    <3>1. s \ {x} \in SUBSET S /\ Cardinality(s \ {x}) <= n
      BY SmallerRest
    <3>2. it[s \ {x}] >= 0 /\ it[s \ {x}] \in Int /\ f[x] \in Nat /\ it[s] = f[x] + it[s \ {x}]
      BY <1>2, <3>1 DEF Adds
    <3> QED
      BY <3>2
  <2> QED
    BY <2>1, <2>2
<1> HIDE DEF good
<1>3. \A n \in Nat : n \in good
  BY <1>1, <1>2, Induction
<1>4. Cardinality(S) \in good /\ Cardinality(S) \in Nat
  BY <1>3, FS_CardinalityType
<1>5. it[S] >= 0
  BY <1>4 DEF good
<1> QED
  BY <1>5 DEF Adds

\* In a sum of f over S, the m indices after a, none of them in T, are all c.
Equals(it, f, S, T, a, m, c) ==
    /\ Adds(it, f, S)
    /\ a \in Nat /\ m \in Nat /\ c \in Int
    /\ T \in SUBSET S /\ a + 1 .. a + m \subseteq S /\ T \cap (a + 1 .. a + m) = {}
    /\ \A k \in a + 1 .. a + m : f[k] = c

\* Adding m numbers that are all c adds m times c.
LEMMA SumOfEqual ==
  ASSUME NEW it, NEW f, NEW S, NEW T, NEW a, NEW m, NEW c, Equals(it, f, S, T, a, m, c)
  PROVE  it[T \cup (a + 1 .. a + m)] = it[T] + m * c
<1> DEFINE good == {n \in Nat : it[T \cup (a + 1 .. a + n)] = it[T] + n * c}
<1>a. /\ Adds(it, f, S) /\ a \in Nat /\ m \in Nat /\ c \in Int
      /\ T \in SUBSET S /\ a + 1 .. a + m \subseteq S /\ T \cap (a + 1 .. a + m) = {}
      /\ \A k \in a + 1 .. a + m : f[k] = c
  BY DEF Equals
<1>1. 0 \in good
  <2>1. T \cup (a + 1 .. a + 0) = T
    BY <1>a
  <2>2. it[T] + 0 * c = it[T]
    BY <1>a DEF Adds
  <2>3. it[T \cup (a + 1 .. a + 0)] = it[T] + 0 * c
    BY <2>1, <2>2, Zenon
  <2> QED
    BY <2>3
<1>2. ASSUME NEW n \in 0 .. m - 1, n \in good
      PROVE  n + 1 \in good
  <2> DEFINE U == T \cup (a + 1 .. a + n)
             V == T \cup (a + 1 .. a + (n + 1))
             x == a + (n + 1)
  <2>1. V \in SUBSET S /\ x \in V /\ V \ {x} = U /\ f[x] = c
    BY <1>a
  <2>2. it[U] = it[T] + n * c
    BY <1>a, <1>2
  <2>3. it[T] \in Int
    BY <1>a DEF Adds
  <2>4. it[V] = f[x] + it[V \ {x}]
    <3> HIDE DEF V, x
    <3> QED
      BY <1>a, <2>1 DEF Adds
  <2>5. it[V] = c + (it[T] + n * c)
    BY <1>a, <2>1, <2>2, <2>4
  <2> HIDE DEF V
  <2>6. it[V] = it[T] + (n + 1) * c
    BY <1>a, <2>3, <2>5
  <2> QED
    BY <2>6 DEF V
<1> HIDE DEF good
<1>3. m \in good
  BY <1>1, <1>2, <1>a, InductionTo
<1> QED
  BY <1>3 DEF good

\* The greatest of finitely many numbers.
LEMMA MaxIsGreatest ==
  ASSUME NEW n \in Nat, NEW s \in SUBSET (1 .. n), s # {}
  PROVE  Max(s) \in s
<1> DEFINE depth == {n - k : k \in s}
<1>1. depth \in SUBSET Nat /\ depth # {}
  <2>1. \A k \in s : n - k \in Nat
    OBVIOUS
  <2>2. PICK k \in s : TRUE
    OBVIOUS
  <2>3. n - k \in depth
    OBVIOUS
  <2> QED
    BY <2>1, <2>3
<1> HIDE DEF depth
<1>2. PICK d \in depth : \A e \in depth : d <= e
  BY <1>1, LeastNumber
<1>3. PICK x \in s : d = n - x
  BY DEF depth
<1>4. \A y \in s : x >= y
  <2> TAKE y \in s
  <2>1. n - y \in depth
    BY DEF depth
  <2>2. n - x <= n - y
    BY <1>2, <1>3, <2>1
  <2> QED
    BY <2>2
<1> QED
  BY <1>3, <1>4 DEF Max

\* A fold from the left takes the last index off.
LEMMA MaxOfPrefix ==
  ASSUME NEW k \in Nat \ {0}
  PROVE  Max(1 .. k) = k /\ (1 .. k) \ {k} = 1 .. k - 1
<1>1. k \in 1 .. k /\ \A y \in 1 .. k : k >= y
  OBVIOUS
<1>2. \A x \in 1 .. k : (\A y \in 1 .. k : x >= y) => x = k
  BY <1>1
<1> QED
  BY <1>1, <1>2 DEF Max

\* The equation behind FoldLeft, op being the folded function, and that it has a solution.
FoldsUp(it, T, op, base, seq) ==
    /\ it \in [SUBSET DOMAIN seq -> T]
    /\ \A s \in SUBSET DOMAIN seq :
          it[s] = IF s = {} THEN base ELSE op[it[s \ {Max(s)}]][seq[Max(s)]]

LEMMA FoldExists ==
  ASSUME NEW T, NEW A, NEW op, NEW base \in T, NEW seq \in Seq(A),
         \A y \in T, a \in A : op[y][a] \in T
  PROVE  \E it : FoldsUp(it, T, op, base, seq)
<1> DEFINE S == 1 .. Len(seq)
           D == SUBSET S
           value(g, s) == IF s = {} THEN base ELSE op[g[s \ {Max(s)}]][seq[Max(s)]]
           rank == [s \in D |-> Cardinality(s)]
           body == [s \in D |-> [g \in [D -> T] |-> value(g, s)]]
<1>0. Len(seq) \in Nat /\ DOMAIN seq = S /\ IsFiniteSet(S)
  BY FS_Interval
<1>1. \A s \in D : s # {} => Max(s) \in s
  BY <1>0, MaxIsGreatest
<1>2. \A s \in D : s # {} =>
         /\ s \ {Max(s)} \in D /\ rank[s \ {Max(s)}] < rank[s] /\ seq[Max(s)] \in A
  <2> TAKE s \in D
  <2> HAVE s # {}
  <2>1. Max(s) \in s /\ Max(s) \in S
    BY <1>1
  <2>2. s \ {Max(s)} \in D /\ Cardinality(s \ {Max(s)}) \in Nat
        /\ Cardinality(s) = Cardinality(s \ {Max(s)}) + 1
    <3> HIDE DEF S
    <3> QED
      BY <1>0, <2>1, SmallerRest
  <2>3. rank[s] = Cardinality(s) /\ rank[s \ {Max(s)}] = Cardinality(s \ {Max(s)})
    BY <2>2
  <2>4. seq[Max(s)] \in A
    BY <2>1
  <2> QED
    BY <2>1, <2>2, <2>3, <2>4
<1>3. rank \in [D -> Nat]
  <2> SUFFICES ASSUME NEW s \in D PROVE Cardinality(s) \in Nat
    OBVIOUS
  <2>1. IsFiniteSet(s)
    BY <1>0, FS_Subset
  <2> QED
    BY <2>1, FS_CardinalityType
<1>4. T # {}
  OBVIOUS
<1>5. \A s \in D : \A g \in [D -> T] : body[s][g] = value(g, s)
  OBVIOUS
<1>6. body \in [D -> [[D -> T] -> T]]
  <2> SUFFICES ASSUME NEW s \in D, NEW g \in [D -> T]
               PROVE  value(g, s) \in T
    OBVIOUS
  <2>1. CASE s = {}
    BY <2>1
  <2>2. CASE s # {}
    <3>1. g[s \ {Max(s)}] \in T /\ seq[Max(s)] \in A
      BY <2>2, <1>2
    <3> QED
      BY <2>2, <3>1
  <2> QED
    BY <2>1, <2>2
<1>7. \A s \in D : \A g, h \in [D -> T] :
         (\A r \in D : rank[r] < rank[s] => g[r] = h[r]) => value(g, s) = value(h, s)
  BY <1>2
<1> HIDE DEF body, value, rank, D
<1>8. \A s \in D : \A g, h \in [D -> T] :
         (\A r \in D : rank[r] < rank[s] => g[r] = h[r]) => body[s][g] = body[s][h]
  <2> TAKE s \in D
  <2> TAKE g, h \in [D -> T]
  <2> HAVE \A r \in D : rank[r] < rank[s] => g[r] = h[r]
  <2>1. value(g, s) = value(h, s)
    BY <1>7
  <2> QED
    BY <2>1, <1>5, Zenon
<1>9. Recursive(D, T, rank, body)
  BY <1>3, <1>6, <1>8, Zenon DEF Recursive
<1>10. PICK it : Solves(it, D, T, body)
  BY <1>4, <1>9, Recursion
<1>11. \A s \in D : it[s] = value(it, s)
  BY <1>5, <1>10, Zenon DEF Solves
<1>12. D = SUBSET DOMAIN seq
  BY <1>0 DEF D
<1> QED
  BY <1>10, <1>11, <1>12 DEF value, FoldsUp, Solves

\* A fold that climbs: from what tier[k] holds, op leads into tier[k + 1].
Climbs(tier, A, op, n) ==
    \A k \in 0 .. n - 1 : \A y \in tier[k], a \in A : op[y][a] \in tier[k + 1]

\* The equation of such a fold, without a set its values are known to be in.
Folds(it, op, base, seq) ==
    \A s \in SUBSET DOMAIN seq :
       it[s] = IF s = {} THEN base ELSE op[it[s \ {Max(s)}]][seq[Max(s)]]

\* Whatever satisfies the equation is, after k elements, in the k-th tier.
LEMMA FoldClimbs ==
  ASSUME NEW tier, NEW A, NEW op, NEW seq \in Seq(A), NEW base \in tier[0],
         Climbs(tier, A, op, Len(seq)), NEW it, Folds(it, op, base, seq)
  PROVE  \A s \in SUBSET DOMAIN seq : Cardinality(s) \in 0 .. Len(seq) /\ it[s] \in tier[Cardinality(s)]
<1> DEFINE S == 1 .. Len(seq)
           good == {n \in Nat : \A s \in SUBSET S : Cardinality(s) = n => it[s] \in tier[n]}
<1>1. Len(seq) \in Nat /\ DOMAIN seq = S /\ IsFiniteSet(S) /\ Cardinality(S) = Len(seq)
  <2>1. Len(seq) \in Nat /\ DOMAIN seq = S
    OBVIOUS
  <2>2. IsFiniteSet(S) /\ Cardinality(S) = IF 1 > Len(seq) THEN 0 ELSE Len(seq) - 1 + 1
    BY <2>1, FS_Interval
  <2> QED
    BY <2>1, <2>2
<1>2. \A s \in SUBSET S : IsFiniteSet(s) /\ Cardinality(s) \in 0 .. Len(seq)
  <2> TAKE s \in SUBSET S
  <2> HIDE DEF S
  <2>1. IsFiniteSet(s) /\ Cardinality(s) <= Cardinality(S)
    BY <1>1, FS_Subset
  <2>2. Cardinality(s) \in Nat
    BY <2>1, FS_CardinalityType
  <2> QED
    BY <1>1, <2>1, <2>2
<1>3. 0 \in good
  <2> SUFFICES ASSUME NEW s \in SUBSET S, Cardinality(s) = 0
               PROVE  it[s] \in tier[0]
    OBVIOUS
  <2>1. s = {}
    BY <1>2, FS_EmptySet
  <2>2. it[s] = base
    BY <1>1, <2>1 DEF Folds
  <2> QED
    BY <2>2
<1>4. ASSUME NEW n \in Nat, n \in good
      PROVE  n + 1 \in good
  <2> SUFFICES ASSUME NEW s \in SUBSET S, Cardinality(s) = n + 1
               PROVE  it[s] \in tier[n + 1]
    OBVIOUS
  <2> HIDE DEF good, S
  <2>1. s # {}
    <3>1. Cardinality({}) = 0
      BY FS_EmptySet
    <3>2. Cardinality(s) # 0
      OBVIOUS
    <3> QED
      BY <3>1, <3>2
  <2>2. Max(s) \in s
    BY <1>1, <2>1, MaxIsGreatest DEF S
  <2>a. /\ s \ {Max(s)} \in SUBSET S /\ Cardinality(s \ {Max(s)}) \in Nat
        /\ Cardinality(s) = Cardinality(s \ {Max(s)}) + 1
    <3> DEFINE x == Max(s)
    <3>1. IsFiniteSet(S) /\ x \in s
      BY <1>1, <2>2
    <3> HIDE DEF x
    <3>2. /\ s \ {x} \in SUBSET S /\ Cardinality(s \ {x}) \in Nat
          /\ Cardinality(s) = Cardinality(s \ {x}) + 1
      BY <3>1, SmallerRest
    <3> QED
      BY <3>2 DEF x
  <2>3. s \ {Max(s)} \in SUBSET S /\ Cardinality(s \ {Max(s)}) = n
    BY <2>a
  <2>4. it[s \ {Max(s)}] \in tier[n]
    BY <1>4, <2>3 DEF good
  <2>5. it[s] = op[it[s \ {Max(s)}]][seq[Max(s)]]
    BY <1>1, <2>1 DEF Folds
  <2>b. seq[Max(s)] \in A
    <3>1. Max(s) \in DOMAIN seq
      BY <1>1, <2>2
    <3> QED
      BY <3>1
  <2>6. n \in 0 .. Len(seq) - 1
    BY <1>1, <1>2
  <2> QED
    BY <2>4, <2>5, <2>b, <2>6 DEF Climbs
<1> HIDE DEF good
<1>5. \A n \in Nat : n \in good
  BY <1>3, <1>4, Induction
<1>6. \A s \in SUBSET S : it[s] \in tier[Cardinality(s)]
  <2> TAKE s \in SUBSET S
  <2>1. Cardinality(s) \in Nat
    BY <1>1, <1>2
  <2> QED
    BY <1>5, <2>1 DEF good
<1> QED
  BY <1>1, <1>2, <1>6

\* The equation has a solution.
LEMMA TieredFoldExists ==
  ASSUME NEW tier, NEW A, NEW op, NEW seq \in Seq(A), NEW base \in tier[0],
         Climbs(tier, A, op, Len(seq))
  PROVE  \E it : /\ it = [s \in SUBSET DOMAIN seq |-> it[s]]
                 /\ Folds(it, op, base, seq)
                 /\ \A s \in SUBSET DOMAIN seq :
                       Cardinality(s) \in 0 .. Len(seq) /\ it[s] \in tier[Cardinality(s)]
<1> DEFINE T == UNION {tier[k] : k \in 0 .. Len(seq)}
           safe == [y \in T |-> [a \in A |-> IF op[y][a] \in T THEN op[y][a] ELSE base]]
<1>1. Len(seq) \in Nat /\ DOMAIN seq = 1 .. Len(seq)
  OBVIOUS
<1>2. base \in T /\ \A k \in 0 .. Len(seq) : tier[k] \subseteq T
  BY <1>1
<1> HIDE DEF T
<1>3. \A y \in T, a \in A : safe[y][a] \in T
  BY <1>2
<1>4. \A k \in 0 .. Len(seq) - 1 : \A y \in tier[k], a \in A :
         safe[y][a] = op[y][a] /\ op[y][a] \in tier[k + 1]
  <2> TAKE k \in 0 .. Len(seq) - 1
  <2> TAKE y \in tier[k], a \in A
  <2>1. op[y][a] \in tier[k + 1]
    BY DEF Climbs
  <2>2. k \in 0 .. Len(seq) /\ k + 1 \in 0 .. Len(seq)
    BY <1>1
  <2> QED
    BY <1>2, <2>1, <2>2
<1> HIDE DEF safe
<1>5. Climbs(tier, A, safe, Len(seq))
  BY <1>4 DEF Climbs
<1>6. PICK it : FoldsUp(it, T, safe, base, seq)
  BY <1>2, <1>3, FoldExists
<1>7. it = [s \in SUBSET DOMAIN seq |-> it[s]] /\ Folds(it, safe, base, seq)
  BY <1>6 DEF FoldsUp, Folds
<1>8. \A s \in SUBSET DOMAIN seq : Cardinality(s) \in 0 .. Len(seq) /\ it[s] \in tier[Cardinality(s)]
  BY <1>5, <1>7, FoldClimbs
<1>9. Folds(it, op, base, seq)
  <2> SUFFICES ASSUME NEW s \in SUBSET DOMAIN seq, s # {}
               PROVE  it[s] = op[it[s \ {Max(s)}]][seq[Max(s)]]
    BY <1>7 DEF Folds
  <2>1. Max(s) \in s /\ Max(s) \in DOMAIN seq /\ seq[Max(s)] \in A
    <3>1. Max(s) \in s
      BY <1>1, MaxIsGreatest
    <3> QED
      BY <3>1
  <2>2. /\ s \ {Max(s)} \in SUBSET DOMAIN seq
        /\ Cardinality(s \ {Max(s)}) \in Nat /\ Cardinality(s) = Cardinality(s \ {Max(s)}) + 1
    <3>1. IsFiniteSet(DOMAIN seq)
      BY <1>1, FS_Interval
    <3> QED
      BY <2>1, <3>1, SmallerRest
  <2>3. Cardinality(s \ {Max(s)}) \in 0 .. Len(seq) - 1
    BY <1>1, <1>8, <2>2
  <2>4. it[s \ {Max(s)}] \in tier[Cardinality(s \ {Max(s)})]
    BY <1>8, <2>2
  <2>5. it[s] = safe[it[s \ {Max(s)}]][seq[Max(s)]]
    BY <1>7 DEF Folds
  <2> QED
    BY <1>4, <2>1, <2>3, <2>4, <2>5
<1> QED
  BY <1>7, <1>8, <1>9

=============================================================================
