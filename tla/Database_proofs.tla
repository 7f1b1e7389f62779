--------------------------- MODULE Database_proofs ---------------------------
(***************************************************************************)
(* For any number of alembic commands: no statement of a migration is      *)
(* refused and every downgrade undoes its upgrade; and the schema of the   *)
(* head revision is the one the code was written for.                      *)
(*                                                                         *)
(* For any number of jobs, filings' texts and series: a filing's chunks    *)
(* are always those of one whole parse, and a report counts nothing that   *)
(* is not in the database.                                                 *)
(***************************************************************************)
EXTENDS Database, Recursion_proofs, SequenceTheorems

-----------------------------------------------------------------------------
(* Running a script                                                        *)

\* Script s takes catalog c to d and no statement of it is refused; g is what the
\* catalog is after each statement.
Through(g, c, s, d) ==
    /\ g[0] = c /\ g[Len(s)] = d
    /\ \A i \in 1 .. Len(s) : Accepts(g[i - 1], s[i]) /\ g[i] = Effect(g[i - 1], s[i])

IsScript(s) == s \in Seq({s[i] : i \in DOMAIN s})

Runs(c, s, d) == IsScript(s) /\ \E g : Through(g, c, s, d)

LEMMA SequencesAreScripts == ASSUME NEW X, NEW s \in Seq(X) PROVE IsScript(s)
<1>1. DOMAIN s = 1 .. Len(s) /\ Len(s) \in Nat /\ s = [i \in 1 .. Len(s) |-> s[i]]
  OBVIOUS
<1>2. s \in [1 .. Len(s) -> {s[i] : i \in DOMAIN s}]
  BY <1>1
<1> QED
  BY <1>1, <1>2, SeqDef DEF IsScript

LEMMA EachIsScript ==
  ASSUME NEW n \in Nat, NEW s, s = [i \in 1 .. n |-> s[i]]
  PROVE  IsScript(s) /\ Len(s) = n
<1> DEFINE X == {s[i] : i \in 1 .. n}
<1>1. s \in [1 .. n -> X]
  OBVIOUS
<1> HIDE DEF X
<1>2. s \in Seq(X)
  BY <1>1, SeqDef
<1>3. Len(s) = n
  <2> DEFINE m == Len(s)
  <2>1. m \in Nat /\ 1 .. m = 1 .. n
    <3>1. DOMAIN s = 1 .. Len(s) /\ Len(s) \in Nat /\ DOMAIN s = 1 .. n
      BY <1>1, <1>2
    <3> QED
      BY <3>1
  <2> HIDE DEF m
  <2>2. (m # 0 => m \in 1 .. n) /\ (n # 0 => n \in 1 .. m)
    BY <2>1
  <2>3. m = n
    BY <2>1, <2>2
  <2> QED
    BY <2>3 DEF m
<1> QED
  BY <1>2, <1>3, SequencesAreScripts

LEMMA ScriptsConcatenate ==
  ASSUME NEW s, NEW t, IsScript(s), IsScript(t)
  PROVE  /\ IsScript(s \o t) /\ Len(s) \in Nat /\ Len(t) \in Nat
         /\ Len(s \o t) = Len(s) + Len(t)
         /\ \A i \in 1 .. Len(s) : (s \o t)[i] = s[i]
         /\ \A i \in 1 .. Len(t) : (s \o t)[Len(s) + i] = t[i]
<1> DEFINE X == {s[i] : i \in DOMAIN s} \cup {t[i] : i \in DOMAIN t}
<1>1. s \in Seq(X) /\ t \in Seq(X)
  BY DEF IsScript
<1> HIDE DEF X
<1>2. s \o t \in Seq(X)
  BY <1>1
<1>3. IsScript(s \o t)
  BY <1>2, SequencesAreScripts
<1>4. Len(s) \in Nat /\ Len(t) \in Nat /\ Len(s \o t) = Len(s) + Len(t)
  BY <1>1
<1>5. \A i \in 1 .. Len(s) : (s \o t)[i] = s[i]
  BY <1>1
<1>6. \A i \in 1 .. Len(t) : (s \o t)[Len(s) + i] = t[i]
  BY <1>1, <1>4
<1> QED
  BY <1>3, <1>4, <1>5, <1>6

\* One script after another.
LEMMA RunsOn ==
  ASSUME NEW c, NEW d, NEW e, NEW s, NEW t, Runs(c, s, d), Runs(d, t, e)
  PROVE  Runs(c, s \o t, e)
<1>1. PICK g : Through(g, c, s, d)
  BY DEF Runs
<1>2. PICK h : Through(h, d, t, e)
  BY DEF Runs
<1> DEFINE m == Len(s)
           n == Len(t)
           k == [i \in 0 .. m + n |-> IF i <= m THEN g[i] ELSE h[i - m]]
           u == s \o t
<1>3. /\ IsScript(u) /\ m \in Nat /\ n \in Nat /\ Len(u) = m + n
      /\ \A i \in 1 .. m : u[i] = s[i]
      /\ \A i \in 1 .. n : u[m + i] = t[i]
  BY ScriptsConcatenate DEF Runs
<1>4. /\ g[0] = c /\ g[m] = d /\ h[0] = d /\ h[n] = e
      /\ \A i \in 1 .. m : Accepts(g[i - 1], s[i]) /\ g[i] = Effect(g[i - 1], s[i])
      /\ \A i \in 1 .. n : Accepts(h[i - 1], t[i]) /\ h[i] = Effect(h[i - 1], t[i])
  BY <1>1, <1>2 DEF Through
<1> HIDE DEF m, n, u
<1>5. k[0] = c /\ k[m + n] = e
  BY <1>3, <1>4
<1>6. ASSUME NEW i \in 1 .. m
      PROVE  Accepts(k[i - 1], u[i]) /\ k[i] = Effect(k[i - 1], u[i])
  <2>1. k[i - 1] = g[i - 1] /\ k[i] = g[i] /\ u[i] = s[i]
    BY <1>3
  <2> QED
    BY <2>1, <1>4
<1>7. ASSUME NEW i \in 1 .. n, NEW x, x = m + i
      PROVE  Accepts(k[x - 1], u[x]) /\ k[x] = Effect(k[x - 1], u[x])
  <2>1. k[x] = h[i] /\ k[x - 1] = h[i - 1]
    <3>1. CASE i = 1
      BY <1>3, <1>4, <1>7, <3>1
    <3>2. CASE i # 1
      BY <1>3, <1>7, <3>2
    <3> QED
      BY <3>1, <3>2
  <2> HIDE DEF k
  <2>2. u[x] = t[i]
    BY <1>3, <1>7
  <2> QED
    BY <2>1, <2>2, <1>4
<1> HIDE DEF k
<1>8. ASSUME NEW i \in 1 .. m + n
      PROVE  Accepts(k[i - 1], u[i]) /\ k[i] = Effect(k[i - 1], u[i])
  <2>1. CASE i <= m
    <3>1. i \in 1 .. m
      BY <2>1, <1>3
    <3> QED
      BY <3>1, <1>6
  <2>2. CASE ~ (i <= m)
    <3>1. i - m \in 1 .. n /\ i = m + (i - m)
      BY <2>2, <1>3
    <3> QED
      BY <3>1, <1>7
  <2> QED
    BY <2>1, <2>2
<1>9. Through(k, c, u, e)
  BY <1>3, <1>5, <1>8 DEF Through
<1> QED
  BY <1>3, <1>9 DEF Runs, u

LEMMA RunsNothing == ASSUME NEW c PROVE Runs(c, <<>>, c)
<1>1. Len(<<>>) = 0 /\ <<>> \in Seq({1})
  OBVIOUS
<1>2. Through([i \in {0} |-> c], c, <<>>, c)
  BY <1>1 DEF Through
<1> QED
  BY <1>1, <1>2, SequencesAreScripts DEF Runs

LEMMA RunsOne ==
  ASSUME NEW c, NEW st, Accepts(c, st)
  PROVE  Runs(c, <<st>>, Effect(c, st))
<1>1. Len(<<st>>) = 1 /\ <<st>> \in Seq({st}) /\ <<st>>[1] = st
  OBVIOUS
<1> DEFINE s == <<st>>
           g == [i \in {0, 1} |-> IF i = 0 THEN c ELSE Effect(c, st)]
<1>2. Len(s) = 1 /\ s[1] = st /\ g[0] = c /\ g[1] = Effect(c, st)
  BY <1>1
<1>3. IsScript(s)
  BY <1>1, SequencesAreScripts
<1> HIDE DEF s, g
<1>4. Through(g, c, s, Effect(c, st))
  <2>1. \A i \in 1 .. Len(s) : i = 1 /\ i - 1 = 0
    BY <1>2
  <2> QED
    BY <1>2, <2>1 DEF Through
<1> QED
  BY <1>3, <1>4 DEF Runs, s

\* A script whose statements take each catalog of g to the next.
LEMMA RunsThrough ==
  ASSUME NEW n \in Nat, NEW s, s = [i \in 1 .. n |-> s[i]], NEW g,
         \A i \in 1 .. n : Accepts(g[i - 1], s[i]) /\ Effect(g[i - 1], s[i]) = g[i]
  PROVE  Runs(g[0], s, g[n])
<1>1. IsScript(s) /\ Len(s) = n
  BY EachIsScript
<1>2. Through(g, g[0], s, g[n])
  BY <1>1 DEF Through
<1> QED
  BY <1>1, <1>2 DEF Runs

\* A command that runs such a script succeeds.
LEMMA RunsSucceed ==
  ASSUME NEW c, NEW s, NEW d, Runs(c, s, d)
  PROVE  RunScript(c, s) = [ok |-> TRUE, catalog |-> d]
<1> DEFINE n == Len(s)
           begin == [ok |-> TRUE, catalog |-> c]
           Equation(f) == f = [i \in 0 .. n |-> IF i = 0 THEN begin ELSE Execute(f[i - 1], s[i])]
           after == CHOOSE f : Equation(f)
<1>1. RunScript(c, s) = after[n]
  BY DEF RunScript
<1>2. PICK g : Through(g, c, s, d)
  BY DEF Runs
<1>3. n \in Nat
  BY DEF Runs, IsScript
<1>4. g[0] = c /\ g[n] = d
      /\ \A i \in 1 .. n : Accepts(g[i - 1], s[i]) /\ g[i] = Effect(g[i - 1], s[i])
  BY <1>2 DEF Through
<1> HIDE DEF n
<1> DEFINE run == [i \in 0 .. n |-> [ok |-> TRUE, catalog |-> g[i]]]
<1>5. ASSUME NEW i \in 1 .. n
      PROVE  Execute([ok |-> TRUE, catalog |-> g[i - 1]], s[i]) = [ok |-> TRUE, catalog |-> g[i]]
  BY <1>4 DEF Execute
<1>6. \A i \in 1 .. n : i - 1 \in 0 .. n /\ i # 0
  BY <1>3
<1>7. Equation(run)
  <2>1. run[0] = begin
    <3>1. 0 \in 0 .. n
      BY <1>3
    <3>2. run[0] = [ok |-> TRUE, catalog |-> g[0]]
      BY <3>1
    <3> QED
      BY <3>2, <1>4
  <2>2. \A i \in 1 .. n : run[i] = Execute(run[i - 1], s[i])
    BY <1>5, <1>6
  <2>3. \A i \in 0 .. n : i = 0 \/ i \in 1 .. n
    BY <1>3
  <2>4. run = [i \in 0 .. n |-> run[i]]
    OBVIOUS
  <2> HIDE DEF run, begin
  <2>5. \A i \in 0 .. n : run[i] = IF i = 0 THEN begin ELSE Execute(run[i - 1], s[i])
    BY <2>1, <2>2, <2>3
  <2> QED
    BY <2>4, <2>5
<1>8. Equation(after)
  <2> HIDE DEF Equation
  <2> QED
    BY <1>7
<1> HIDE DEF after
<1> DEFINE same == {i \in 0 .. n : after[i] = run[i]}
<1>9. 0 \in same
  <2>1. 0 \in 0 .. n
    BY <1>3
  <2>2. after[0] = begin
    BY <2>1, <1>8
  <2>3. run[0] = begin
    BY <2>1, <1>7
  <2> HIDE DEF run, begin
  <2> QED
    BY <2>1, <2>2, <2>3
<1>10. ASSUME NEW i \in 0 .. n - 1, i \in same
       PROVE  i + 1 \in same
  <2>1. i + 1 \in 0 .. n /\ i + 1 # 0 /\ (i + 1) - 1 = i
    BY <1>3
  <2>2. after[i + 1] = Execute(after[i], s[i + 1]) /\ run[i + 1] = Execute(run[i], s[i + 1])
    BY <1>7, <1>8, <2>1
  <2> HIDE DEF run
  <2> QED
    BY <1>10, <2>1, <2>2
<1>11. n \in same
  <2> HIDE DEF same
  <2>1. \A i \in 0 .. n : i \in same
    BY <1>3, <1>9, <1>10, InductionTo
  <2> QED
    BY <1>3, <2>1
<1> QED
  BY <1>1, <1>3, <1>4, <1>11

\* A command's scripts, one revision after another.
LEMMA RunsFlat ==
  ASSUME NEW N \in Nat, NEW seqs, Len(seqs) = N, seqs = [i \in 1 .. N |-> seqs[i]], NEW at,
         \A i \in 1 .. N : Runs(at[i - 1], seqs[i], at[i])
  PROVE  Runs(at[0], FlattenSeq(seqs), at[N])
<1> DEFINE Equation(g) == g = [i \in 1 .. Len(seqs) |-> IF i = 1 THEN seqs[i] ELSE g[i - 1] \o seqs[i]]
           it == CHOOSE g : Equation(g)
<1>1. N # 0 => FlattenSeq(seqs) = it[N]
  BY DEF FlattenSeq
<1>2. CASE N = 0
  <2>1. FlattenSeq(seqs) = <<>>
    BY <1>2 DEF FlattenSeq
  <2> QED
    BY <1>2, <2>1, RunsNothing
<1>3. CASE N # 0
  <2> DEFINE X == UNION {{seqs[i][k] : k \in DOMAIN seqs[i]} : i \in 1 .. N}
             T == Seq(X)
             D == 1 .. N
             value(g, i) == IF i = 1 THEN seqs[i] ELSE g[i - 1] \o seqs[i]
             rank == [i \in D |-> i]
             body == [i \in D |-> [g \in [D -> T] |-> value(g, i)]]
  <2>0. \A i \in D : seqs[i] \in T
    <3> TAKE i \in D
    <3> DEFINE s == seqs[i]
               Y == {s[k] : k \in DOMAIN s}
    <3>1. s \in Seq(Y)
      BY DEF Runs, IsScript
    <3>2. Y \subseteq X
      OBVIOUS
    <3> HIDE DEF Y, X, s
    <3>3. s \in Seq(X)
      BY <3>1, <3>2
    <3> QED
      BY <3>3 DEF s
  <2> HIDE DEF X
  <2>1. rank \in [D -> Nat] /\ T # {}
    <3>1. <<>> \in T
      OBVIOUS
    <3>2. rank \in [D -> Nat]
      OBVIOUS
    <3> HIDE DEF T, rank
    <3> QED
      BY <3>1, <3>2
  <2>2. \A i \in D : \A g \in [D -> T] : body[i][g] = value(g, i)
    OBVIOUS
  <2>3. body \in [D -> [[D -> T] -> T]]
    <3> SUFFICES ASSUME NEW i \in D, NEW g \in [D -> T]
                 PROVE  value(g, i) \in T
      OBVIOUS
    <3>1. seqs[i] \in T
      BY <2>0
    <3>2. i # 1 => g[i - 1] \in T
      OBVIOUS
    <3> QED
      BY <3>1, <3>2
  <2>4. \A i \in D : \A g, h \in [D -> T] :
           (\A r \in D : rank[r] < rank[i] => g[r] = h[r]) => value(g, i) = value(h, i)
    <3> TAKE i \in D
    <3> TAKE g, h \in [D -> T]
    <3> HAVE \A r \in D : rank[r] < rank[i] => g[r] = h[r]
    <3>1. i # 1 => g[i - 1] = h[i - 1]
      OBVIOUS
    <3> QED
      BY <3>1
  <2>a. D # {} /\ \A i \in D : i # 1 => i - 1 \in D /\ i - 1 \in 0 .. N - 1
    BY <1>3
  <2> HIDE DEF body, value, rank, D, T
  <2>5. \A i \in D : \A g, h \in [D -> T] :
           (\A r \in D : rank[r] < rank[i] => g[r] = h[r]) => body[i][g] = body[i][h]
    <3> TAKE i \in D
    <3> TAKE g, h \in [D -> T]
    <3> HAVE \A r \in D : rank[r] < rank[i] => g[r] = h[r]
    <3>1. value(g, i) = value(h, i)
      BY <2>4
    <3> QED
      BY <3>1, <2>2, Zenon
  <2>6. Recursive(D, T, rank, body)
    BY <2>1, <2>3, <2>5, Zenon DEF Recursive
  <2>7. PICK f : Solves(f, D, T, body)
    BY <2>1, <2>6, Recursion
  <2>8. f \in [D -> T] /\ \A i \in D : f[i] = value(f, i)
    BY <2>2, <2>7, Zenon DEF Solves
  <2>9. Equation(f)
    BY <2>8 DEF value, D
  <2>10. Equation(it)
    <3> HIDE DEF Equation
    <3> QED
      BY <2>9
  <2> HIDE DEF it
  <2>11. \A i \in 1 .. N : it[i] = IF i = 1 THEN seqs[i] ELSE it[i - 1] \o seqs[i]
    BY <2>10
  <2> HIDE DEF Equation
  <2> DEFINE good == {i \in Nat : Runs(at[0], it[i + 1], at[i + 1])}
  <2>12. 0 \in good
    <3>1. 1 \in 1 .. N
      BY <1>3
    <3>2. it[1] = seqs[1] /\ Runs(at[0], seqs[1], at[1])
      <4>1. 1 - 1 = 0
        OBVIOUS
      <4> QED
        BY <2>11, <3>1, <4>1
    <3> QED
      BY <3>2
  <2>13. ASSUME NEW i \in 0 .. (N - 1) - 1, i \in good
         PROVE  i + 1 \in good
    <3> DEFINE j == i + 1
    <3>1. j + 1 \in 1 .. N /\ j + 1 # 1 /\ (j + 1) - 1 = j
      BY <1>3
    <3>2. it[j + 1] = it[j] \o seqs[j + 1] /\ Runs(at[j], seqs[j + 1], at[j + 1])
      BY <2>11, <3>1
    <3>3. Runs(at[0], it[j], at[j])
      BY <2>13
    <3> HIDE DEF j
    <3>4. Runs(at[0], it[j + 1], at[j + 1])
      BY <3>2, <3>3, RunsOn
    <3> QED
      BY <3>4 DEF j
  <2> HIDE DEF good
  <2>14. N - 1 \in good
    <3>1. N - 1 \in Nat /\ N - 1 \in 0 .. N - 1
      BY <1>3
    <3>2. \A i \in 0 .. N - 1 : i \in good
      BY <2>12, <2>13, <3>1, InductionTo
    <3> QED
      BY <3>1, <3>2
  <2>15. Runs(at[0], it[N], at[N])
    <3>1. (N - 1) + 1 = N
      OBVIOUS
    <3> QED
      BY <2>14, <3>1 DEF good
  <2> QED
    BY <1>1, <1>3, <2>15
<1> QED
  BY <1>2, <1>3

-----------------------------------------------------------------------------
(* Catalogs by their parts, and what a statement does to them              *)

Cat(T, Y, E, F, G, U, I) ==
    [tables |-> T, types |-> Y, extensions |-> E, functions |-> F, triggers |-> G,
     unique |-> U, indexed |-> I]

\* The tables after a statement about one of them.
Unreferred(T, n)         == [t \in DOMAIN T \ {n} |-> WithoutKeysTo(T[t], n)]
Wider(T, n, col, types)  == [T EXCEPT ![n] = WithColumn(T[n], col, types)]
Narrower(T, n, col)      == [T EXCEPT ![n] = WithoutColumn(T[n], col)]
Untyped(T, n)            == [t \in DOMAIN T |-> WithoutType(T[t], n)]

\* A catalog with one part replaced.
PutTables(c, x)   == [c EXCEPT !.tables = x]
PutTypes(c, x)    == [c EXCEPT !.types = x]
PutTriggers(c, x) == [c EXCEPT !.triggers = x]
PutUnique(c, x)   == [c EXCEPT !.unique = x]
PutIndexed(c, x)  == [c EXCEPT !.indexed = x]

LEMMA Altered ==
  ASSUME NEW T, NEW Y, NEW E, NEW F, NEW G, NEW U, NEW I, NEW x
  PROVE  /\ PutTables(Cat(T, Y, E, F, G, U, I), x) = Cat(x, Y, E, F, G, U, I)
         /\ PutTypes(Cat(T, Y, E, F, G, U, I), x) = Cat(T, x, E, F, G, U, I)
         /\ PutTriggers(Cat(T, Y, E, F, G, U, I), x) = Cat(T, Y, E, F, x, U, I)
         /\ PutUnique(Cat(T, Y, E, F, G, U, I), x) = Cat(T, Y, E, F, G, x, I)
         /\ PutIndexed(Cat(T, Y, E, F, G, U, I), x) = Cat(T, Y, E, F, G, U, x)
<1> DEFINE c == Cat(T, Y, E, F, G, U, I)
<1>1. /\ c.tables = T /\ c.types = Y /\ c.extensions = E /\ c.functions = F
      /\ c.triggers = G /\ c.unique = U /\ c.indexed = I
  BY DEF Cat
<1>2. DOMAIN c = {"tables", "types", "extensions", "functions", "triggers", "unique", "indexed"}
  BY DEF Cat
<1>3. c = [y \in DOMAIN c |-> c[y]]
  BY DEF Cat
<1> HIDE DEF c
<1>4. PutTables(c, x) = Cat(x, Y, E, F, G, U, I)
  BY <1>1, <1>2, <1>3, SMT DEF Cat, PutTables
<1>5. PutTypes(c, x) = Cat(T, x, E, F, G, U, I)
  BY <1>1, <1>2, <1>3, SMT DEF Cat, PutTypes
<1>6. PutTriggers(c, x) = Cat(T, Y, E, F, x, U, I)
  BY <1>1, <1>2, <1>3, SMT DEF Cat, PutTriggers
<1>7. PutUnique(c, x) = Cat(T, Y, E, F, G, x, I)
  BY <1>1, <1>2, <1>3, SMT DEF Cat, PutUnique
<1>8. PutIndexed(c, x) = Cat(T, Y, E, F, G, U, x)
  BY <1>1, <1>2, <1>3, SMT DEF Cat, PutIndexed
<1> QED
  BY <1>4, <1>5, <1>6, <1>7, <1>8 DEF c

LEMMA DropTableIs ==
  ASSUME NEW T, NEW Y, NEW E, NEW F, NEW G, NEW U, NEW I, NEW n
  PROVE  DropTable(Cat(T, Y, E, F, G, U, I), n) =
             Cat(Unreferred(T, n), Y, E, F, G \ {n},
                 Restrict(U, {i \in DOMAIN U : U[i].on # n}), {i \in I : i.on # n})
<1> DEFINE c == Cat(T, Y, E, F, G, U, I)
<1>1. /\ c.tables = T /\ c.types = Y /\ c.extensions = E /\ c.functions = F
      /\ c.triggers = G /\ c.unique = U /\ c.indexed = I
  BY DEF Cat
<1> HIDE DEF c
<1>2. DropTable(c, n) =
        [c EXCEPT !.tables = Unreferred(c.tables, n), !.triggers = c.triggers \ {n},
                  !.unique = Restrict(c.unique, {i \in DOMAIN c.unique : c.unique[i].on # n}),
                  !.indexed = {i \in c.indexed : i.on # n}]
  BY DEF DropTable, Unreferred
<1> DEFINE x == Unreferred(T, n)
           y == G \ {n}
           z == Restrict(U, {i \in DOMAIN U : U[i].on # n})
           w == {i \in I : i.on # n}
<1>3. DropTable(c, n) = [c EXCEPT !.tables = x, !.triggers = y, !.unique = z, !.indexed = w]
  BY <1>1, <1>2, Zenon
<1> HIDE DEF x, y, z, w
<1>4. DropTable(c, n) = PutIndexed(PutUnique(PutTriggers(PutTables(c, x), y), z), w)
  BY <1>3 DEF PutTables, PutTriggers, PutUnique, PutIndexed
<1>5. DropTable(c, n) = Cat(x, Y, E, F, y, z, w)
  BY <1>4, Altered DEF c
<1> QED
  BY <1>5 DEF x, y, z, w, c

LEMMA CreateTypeEffect ==
  ASSUME NEW T, NEW Y, NEW E, NEW F, NEW G, NEW U, NEW I, NEW n, NEW l
  PROVE  LET c == Cat(T, Y, E, F, G, U, I)
             st == CreateType(n, l)
         IN  /\ Effect(c, st) = Cat(T, With(Y, n, l), E, F, G, U, I)
             /\ n \notin DOMAIN Y \cup E => Accepts(c, st)
<1> DEFINE c == Cat(T, Y, E, F, G, U, I)
           st == CreateType(n, l)
<1>1. st.op = "create type" /\ st.name = n /\ st.labels = l
  BY DEF CreateType
<1>2. c.tables = T /\ c.types = Y /\ c.extensions = E /\ c.functions = F
      /\ c.triggers = G /\ c.unique = U /\ c.indexed = I
  BY DEF Cat
<1> HIDE DEF st, c
<1>3. Effect(c, st) = [c EXCEPT !.types = With(@, st.name, st.labels)]
  BY <1>1, Zenon DEF Effect
<1>4. Effect(c, st) = Cat(T, With(Y, n, l), E, F, G, U, I)
  BY <1>1, <1>2, <1>3 DEF Cat, c
<1>5. Accepts(c, st) <=> st.name \notin KnownTypes(c)
  BY <1>1, Zenon DEF Accepts
<1> QED
  BY <1>1, <1>2, <1>4, <1>5 DEF KnownTypes, c, st

LEMMA CreateExtensionEffect ==
  ASSUME NEW T, NEW Y, NEW E, NEW F, NEW G, NEW U, NEW I, NEW n
  PROVE  LET c == Cat(T, Y, E, F, G, U, I)
             st == CreateExtension(n)
         IN  /\ Effect(c, st) = Cat(T, Y, E \cup {n}, F, G, U, I)
             /\ Accepts(c, st)
<1> DEFINE c == Cat(T, Y, E, F, G, U, I)
           st == CreateExtension(n)
<1>1. st.op = "create extension" /\ st.name = n
  BY DEF CreateExtension
<1>2. c.tables = T /\ c.types = Y /\ c.extensions = E /\ c.functions = F
      /\ c.triggers = G /\ c.unique = U /\ c.indexed = I
  BY DEF Cat
<1> HIDE DEF st, c
<1>3. Effect(c, st) = [c EXCEPT !.extensions = @ \cup {st.name}]
  BY <1>1, Zenon DEF Effect
<1>4. Effect(c, st) = Cat(T, Y, E \cup {n}, F, G, U, I)
  BY <1>1, <1>2, <1>3 DEF Cat, c
<1>5. Accepts(c, st) <=> TRUE
  BY <1>1, Zenon DEF Accepts
<1> QED
  BY <1>1, <1>2, <1>4, <1>5 DEF c, st

LEMMA CreateFunctionEffect ==
  ASSUME NEW T, NEW Y, NEW E, NEW F, NEW G, NEW U, NEW I, NEW n
  PROVE  LET c == Cat(T, Y, E, F, G, U, I)
             st == CreateFunction(n)
         IN  /\ Effect(c, st) = Cat(T, Y, E, F \cup {n}, G, U, I)
             /\ Accepts(c, st)
<1> DEFINE c == Cat(T, Y, E, F, G, U, I)
           st == CreateFunction(n)
<1>1. st.op = "create function" /\ st.name = n
  BY DEF CreateFunction
<1>2. c.tables = T /\ c.types = Y /\ c.extensions = E /\ c.functions = F
      /\ c.triggers = G /\ c.unique = U /\ c.indexed = I
  BY DEF Cat
<1> HIDE DEF st, c
<1>3. Effect(c, st) = [c EXCEPT !.functions = @ \cup {st.name}]
  BY <1>1, Zenon DEF Effect
<1>4. Effect(c, st) = Cat(T, Y, E, F \cup {n}, G, U, I)
  BY <1>1, <1>2, <1>3 DEF Cat, c
<1>5. Accepts(c, st) <=> TRUE
  BY <1>1, Zenon DEF Accepts
<1> QED
  BY <1>1, <1>2, <1>4, <1>5 DEF c, st

LEMMA CreateTableEffect ==
  ASSUME NEW T, NEW Y, NEW E, NEW F, NEW G, NEW U, NEW I, NEW n, NEW t
  PROVE  LET c == Cat(T, Y, E, F, G, U, I)
             st == CreateTable(n, t)
         IN  /\ Effect(c, st) = Cat(With(T, n, t), Y, E, F, G, U, I)
             /\ (/\ n \notin DOMAIN T
                 /\ \A k \in t.fks : k[2] \in DOMAIN T
                 /\ \A y \in t.types : y[2] \in DOMAIN Y \cup E) => Accepts(c, st)
<1> DEFINE c == Cat(T, Y, E, F, G, U, I)
           st == CreateTable(n, t)
<1>1. st.op = "create table" /\ st.name = n /\ st.table = t
  BY DEF CreateTable
<1>2. c.tables = T /\ c.types = Y /\ c.extensions = E /\ c.functions = F
      /\ c.triggers = G /\ c.unique = U /\ c.indexed = I
  BY DEF Cat
<1> HIDE DEF st, c
<1>3. Effect(c, st) = [c EXCEPT !.tables = With(@, st.name, st.table)]
  BY <1>1, Zenon DEF Effect
<1>4. Effect(c, st) = Cat(With(T, n, t), Y, E, F, G, U, I)
  BY <1>1, <1>2, <1>3 DEF Cat, c
<1>5. Accepts(c, st) <=> (/\ st.name \notin DOMAIN c.tables
                          /\ \A k \in st.table.fks : k[2] \in DOMAIN c.tables
                          /\ \A y \in st.table.types : y[2] \in KnownTypes(c))
  BY <1>1, Zenon DEF Accepts
<1> QED
  BY <1>1, <1>2, <1>4, <1>5 DEF KnownTypes, c, st

LEMMA CreateTriggerEffect ==
  ASSUME NEW T, NEW Y, NEW E, NEW F, NEW G, NEW U, NEW I, NEW n
  PROVE  LET c == Cat(T, Y, E, F, G, U, I)
             st == CreateTrigger(n)
         IN  /\ Effect(c, st) = Cat(T, Y, E, F, G \cup {n}, U, I)
             /\ (n \in DOMAIN T \ G /\ "fii_set_updated_at" \in F) => Accepts(c, st)
<1> DEFINE c == Cat(T, Y, E, F, G, U, I)
           st == CreateTrigger(n)
<1>1. st.op = "create trigger" /\ st.name = n
  BY DEF CreateTrigger
<1>2. c.tables = T /\ c.types = Y /\ c.extensions = E /\ c.functions = F
      /\ c.triggers = G /\ c.unique = U /\ c.indexed = I
  BY DEF Cat
<1> HIDE DEF st, c
<1>3. Effect(c, st) = [c EXCEPT !.triggers = @ \cup {st.name}]
  BY <1>1, Zenon DEF Effect
<1>4. Effect(c, st) = Cat(T, Y, E, F, G \cup {n}, U, I)
  BY <1>1, <1>2, <1>3 DEF Cat, c
<1>5. Accepts(c, st) <=> (st.name \in DOMAIN c.tables \ c.triggers /\ "fii_set_updated_at" \in c.functions)
  BY <1>1, Zenon DEF Accepts
<1> QED
  BY <1>1, <1>2, <1>4, <1>5 DEF c, st

LEMMA CreateIndexEffect ==
  ASSUME NEW T, NEW Y, NEW E, NEW F, NEW G, NEW U, NEW I, NEW x
  PROVE  LET c == Cat(T, Y, E, F, G, U, I)
             st == CreateIndex(x)
         IN  /\ Effect(c, st) = Cat(T, Y, E, F, G, U, I \cup {x})
             /\ (/\ \A i \in I \cup Range(U) : i.name # x.name
                 /\ x.on \in DOMAIN T
                 /\ x.cols \subseteq T[x.on].cols) => Accepts(c, st)
<1> DEFINE c == Cat(T, Y, E, F, G, U, I)
           st == CreateIndex(x)
<1>1. st.op = "create index" /\ st.index = x
  BY DEF CreateIndex
<1>2. c.tables = T /\ c.types = Y /\ c.extensions = E /\ c.functions = F
      /\ c.triggers = G /\ c.unique = U /\ c.indexed = I
  BY DEF Cat
<1> HIDE DEF st, c
<1>3. Effect(c, st) = [c EXCEPT !.indexed = @ \cup {st.index}]
  BY <1>1, Zenon DEF Effect
<1>4. Effect(c, st) = Cat(T, Y, E, F, G, U, I \cup {x})
  BY <1>1, <1>2, <1>3 DEF Cat, c
<1>5. Accepts(c, st) <=> (/\ \A i \in Indexes(c) : i.name # st.index.name
                          /\ st.index.on \in DOMAIN c.tables
                          /\ st.index.cols \subseteq c.tables[st.index.on].cols)
  BY <1>1, Zenon DEF Accepts
<1> QED
  BY <1>1, <1>2, <1>4, <1>5 DEF Indexes, c, st

LEMMA CreateUniqueIndexEffect ==
  ASSUME NEW T, NEW Y, NEW E, NEW F, NEW G, NEW U, NEW I, NEW x
  PROVE  LET c == Cat(T, Y, E, F, G, U, I)
             st == CreateUniqueIndex(x)
         IN  /\ Effect(c, st) = Cat(T, Y, E, F, G, With(U, x.name, x), I)
             /\ (/\ \A i \in I \cup Range(U) : i.name # x.name
                 /\ x.on \in DOMAIN T
                 /\ x.cols \subseteq T[x.on].cols) => Accepts(c, st)
<1> DEFINE c == Cat(T, Y, E, F, G, U, I)
           st == CreateUniqueIndex(x)
<1>1. st.op = "create unique index" /\ st.index = x
  BY DEF CreateUniqueIndex
<1>2. c.tables = T /\ c.types = Y /\ c.extensions = E /\ c.functions = F
      /\ c.triggers = G /\ c.unique = U /\ c.indexed = I
  BY DEF Cat
<1> HIDE DEF st, c
<1>3. Effect(c, st) = [c EXCEPT !.unique = With(@, st.index.name, st.index)]
  BY <1>1, Zenon DEF Effect
<1>4. Effect(c, st) = Cat(T, Y, E, F, G, With(U, x.name, x), I)
  BY <1>1, <1>2, <1>3 DEF Cat, c
<1>5. Accepts(c, st) <=> (/\ \A i \in Indexes(c) : i.name # st.index.name
                          /\ st.index.on \in DOMAIN c.tables
                          /\ st.index.cols \subseteq c.tables[st.index.on].cols)
  BY <1>1, Zenon DEF Accepts
<1> QED
  BY <1>1, <1>2, <1>4, <1>5 DEF Indexes, c, st

LEMMA AddColumnEffect ==
  ASSUME NEW T, NEW Y, NEW E, NEW F, NEW G, NEW U, NEW I, NEW n, NEW col, NEW types
  PROVE  LET c == Cat(T, Y, E, F, G, U, I)
             st == AddColumn(n, col, types)
         IN  /\ Effect(c, st) = Cat(Wider(T, n, col, types), Y, E, F, G, U, I)
             /\ (/\ n \in DOMAIN T
                 /\ col \notin T[n].cols
                 /\ \A y \in types : y[2] \in DOMAIN Y \cup E) => Accepts(c, st)
<1> DEFINE c == Cat(T, Y, E, F, G, U, I)
           st == AddColumn(n, col, types)
<1>1. st.op = "add column" /\ st.name = n /\ st.col = col /\ st.types = types
  BY DEF AddColumn
<1>2. c.tables = T /\ c.types = Y /\ c.extensions = E /\ c.functions = F
      /\ c.triggers = G /\ c.unique = U /\ c.indexed = I
  BY DEF Cat
<1> HIDE DEF st, c
<1>3. Effect(c, st) = [c EXCEPT !.tables[st.name] = WithColumn(@, st.col, st.types)]
  BY <1>1, Zenon DEF Effect
<1>4. Effect(c, st) = Cat(Wider(T, n, col, types), Y, E, F, G, U, I)
  <2> DEFINE A == Wider(T, n, col, types)
  <2>1. Effect(c, st) = [c EXCEPT !.tables = A]
    BY <1>1, <1>2, <1>3, Zenon DEF Wider
  <2> HIDE DEF A
  <2>2. Effect(c, st) = PutTables(c, A)
    BY <2>1 DEF PutTables
  <2> QED
    BY <2>2, Altered DEF c, A
<1>5. Accepts(c, st) <=> (/\ st.name \in DOMAIN c.tables
                          /\ st.col \notin c.tables[st.name].cols
                          /\ \A y \in st.types : y[2] \in KnownTypes(c))
  BY <1>1, Zenon DEF Accepts
<1> QED
  BY <1>1, <1>2, <1>4, <1>5 DEF KnownTypes, c, st

LEMMA DropTableCascadeEffect ==
  ASSUME NEW T, NEW Y, NEW E, NEW F, NEW G, NEW U, NEW I, NEW n
  PROVE  LET c == Cat(T, Y, E, F, G, U, I)
             st == DropTableCascade(n)
         IN  /\ Effect(c, st) = Cat(Unreferred(T, n), Y, E, F, G \ {n},
                                     Restrict(U, {i \in DOMAIN U : U[i].on # n}), {i \in I : i.on # n})
             /\ Accepts(c, st)
<1> DEFINE c == Cat(T, Y, E, F, G, U, I)
           st == DropTableCascade(n)
<1>1. st.op = "drop table cascade" /\ st.name = n
  BY DEF DropTableCascade
<1>2. c.tables = T /\ c.types = Y /\ c.extensions = E /\ c.functions = F
      /\ c.triggers = G /\ c.unique = U /\ c.indexed = I
  BY DEF Cat
<1> HIDE DEF st, c
<1>3. Effect(c, st) = DropTable(c, st.name)
  BY <1>1, Zenon DEF Effect
<1>4. Effect(c, st) = Cat(Unreferred(T, n), Y, E, F, G \ {n},
                                     Restrict(U, {i \in DOMAIN U : U[i].on # n}), {i \in I : i.on # n})
  <2>1. DropTable(c, n) =
            Cat(Unreferred(T, n), Y, E, F, G \ {n},
                Restrict(U, {i \in DOMAIN U : U[i].on # n}), {i \in I : i.on # n})
    BY DropTableIs DEF c
  <2> QED
    BY <1>1, <1>3, <2>1, Zenon
<1>5. Accepts(c, st) <=> TRUE
  BY <1>1, Zenon DEF Accepts
<1> QED
  BY <1>1, <1>2, <1>4, <1>5 DEF c, st

LEMMA DropTableEffect ==
  ASSUME NEW T, NEW Y, NEW E, NEW F, NEW G, NEW U, NEW I, NEW n
  PROVE  LET c == Cat(T, Y, E, F, G, U, I)
             st == DropTableOnly(n)
         IN  /\ Effect(c, st) = Cat(Unreferred(T, n), Y, E, F, G \ {n},
                                     Restrict(U, {i \in DOMAIN U : U[i].on # n}), {i \in I : i.on # n})
             /\ (n \in DOMAIN T /\ Referring(T, n) = {}) => Accepts(c, st)
<1> DEFINE c == Cat(T, Y, E, F, G, U, I)
           st == DropTableOnly(n)
<1>1. st.op = "drop table" /\ st.name = n
  BY DEF DropTableOnly
<1>2. c.tables = T /\ c.types = Y /\ c.extensions = E /\ c.functions = F
      /\ c.triggers = G /\ c.unique = U /\ c.indexed = I
  BY DEF Cat
<1> HIDE DEF st, c
<1>3. Effect(c, st) = DropTable(c, st.name)
  BY <1>1, Zenon DEF Effect
<1>4. Effect(c, st) = Cat(Unreferred(T, n), Y, E, F, G \ {n},
                                     Restrict(U, {i \in DOMAIN U : U[i].on # n}), {i \in I : i.on # n})
  <2>1. DropTable(c, n) =
            Cat(Unreferred(T, n), Y, E, F, G \ {n},
                Restrict(U, {i \in DOMAIN U : U[i].on # n}), {i \in I : i.on # n})
    BY DropTableIs DEF c
  <2> QED
    BY <1>1, <1>3, <2>1, Zenon
<1>5. Accepts(c, st) <=> (st.name \in DOMAIN c.tables /\ Referring(c.tables, st.name) = {})
  BY <1>1, Zenon DEF Accepts
<1> QED
  BY <1>1, <1>2, <1>4, <1>5 DEF c, st

LEMMA DropColumnEffect ==
  ASSUME NEW T, NEW Y, NEW E, NEW F, NEW G, NEW U, NEW I, NEW n, NEW col
  PROVE  LET c == Cat(T, Y, E, F, G, U, I)
             st == DropColumnOf(n, col)
         IN  /\ Effect(c, st) = Cat(Narrower(T, n, col), Y, E, F, G,
                                     Restrict(U, {i \in DOMAIN U : ~ (U[i].on = n /\ col \in U[i].cols)}),
                                     {i \in I : ~ (i.on = n /\ col \in i.cols)})
             /\ (n \in DOMAIN T /\ col \in T[n].cols) => Accepts(c, st)
<1> DEFINE c == Cat(T, Y, E, F, G, U, I)
           st == DropColumnOf(n, col)
<1>1. st.op = "drop column" /\ st.name = n /\ st.col = col
  BY DEF DropColumnOf
<1>2. c.tables = T /\ c.types = Y /\ c.extensions = E /\ c.functions = F
      /\ c.triggers = G /\ c.unique = U /\ c.indexed = I
  BY DEF Cat
<1> HIDE DEF st, c
<1>3. Effect(c, st) = DropColumn(c, st.name, st.col)
  BY <1>1, Zenon DEF Effect
<1>4. Effect(c, st) = Cat(Narrower(T, n, col), Y, E, F, G,
                                     Restrict(U, {i \in DOMAIN U : ~ (U[i].on = n /\ col \in U[i].cols)}),
                                     {i \in I : ~ (i.on = n /\ col \in i.cols)})
  <2> DEFINE A == Narrower(T, n, col)
             C == Restrict(U, {i \in DOMAIN U : ~ (U[i].on = n /\ col \in U[i].cols)})
             D == {i \in I : ~ (i.on = n /\ col \in i.cols)}
  <2>1. Effect(c, st) = [c EXCEPT !.tables = A, !.unique = C, !.indexed = D]
    BY <1>1, <1>2, <1>3, Zenon DEF Narrower, DropColumn
  <2> HIDE DEF A, C, D
  <2>2. Effect(c, st) = PutIndexed(PutUnique(PutTables(c, A), C), D)
    BY <2>1 DEF PutTables, PutUnique, PutIndexed
  <2>3. Effect(c, st) = Cat(A, Y, E, F, G, C, D)
    BY <2>2, Altered DEF c
  <2> QED
    BY <2>3 DEF A, C, D
<1>5. Accepts(c, st) <=> (st.name \in DOMAIN c.tables /\ st.col \in c.tables[st.name].cols)
  BY <1>1, Zenon DEF Accepts
<1> QED
  BY <1>1, <1>2, <1>4, <1>5 DEF c, st

LEMMA DropIndexEffect ==
  ASSUME NEW T, NEW Y, NEW E, NEW F, NEW G, NEW U, NEW I, NEW n
  PROVE  LET c == Cat(T, Y, E, F, G, U, I)
             st == DropIndex(n)
         IN  /\ Effect(c, st) = Cat(T, Y, E, F, G, Without(U, n), {i \in I : i.name # n})
             /\ (\E i \in I \cup Range(U) : i.name = n) => Accepts(c, st)
<1> DEFINE c == Cat(T, Y, E, F, G, U, I)
           st == DropIndex(n)
<1>1. st.op = "drop index" /\ st.name = n
  BY DEF DropIndex
<1>2. c.tables = T /\ c.types = Y /\ c.extensions = E /\ c.functions = F
      /\ c.triggers = G /\ c.unique = U /\ c.indexed = I
  BY DEF Cat
<1> HIDE DEF st, c
<1>3. Effect(c, st) = [c EXCEPT !.unique = Without(@, st.name), !.indexed = {i \in @ : i.name # st.name}]
  BY <1>1, Zenon DEF Effect
<1>4. Effect(c, st) = Cat(T, Y, E, F, G, Without(U, n), {i \in I : i.name # n})
  BY <1>1, <1>2, <1>3 DEF Cat, c
<1>5. Accepts(c, st) <=> (\E i \in Indexes(c) : i.name = st.name)
  BY <1>1, Zenon DEF Accepts
<1> QED
  BY <1>1, <1>2, <1>4, <1>5 DEF Indexes, c, st

LEMMA DropFunctionEffect ==
  ASSUME NEW T, NEW Y, NEW E, NEW F, NEW G, NEW U, NEW I, NEW n
  PROVE  LET c == Cat(T, Y, E, F, G, U, I)
             st == DropFunction(n)
         IN  /\ Effect(c, st) = Cat(T, Y, E, F \ {n}, {}, U, I)
             /\ Accepts(c, st)
<1> DEFINE c == Cat(T, Y, E, F, G, U, I)
           st == DropFunction(n)
<1>1. st.op = "drop function" /\ st.name = n
  BY DEF DropFunction
<1>2. c.tables = T /\ c.types = Y /\ c.extensions = E /\ c.functions = F
      /\ c.triggers = G /\ c.unique = U /\ c.indexed = I
  BY DEF Cat
<1> HIDE DEF st, c
<1>3. Effect(c, st) = [c EXCEPT !.functions = @ \ {st.name}, !.triggers = {}]
  BY <1>1, Zenon DEF Effect
<1>4. Effect(c, st) = Cat(T, Y, E, F \ {n}, {}, U, I)
  BY <1>1, <1>2, <1>3 DEF Cat, c
<1>5. Accepts(c, st) <=> TRUE
  BY <1>1, Zenon DEF Accepts
<1> QED
  BY <1>1, <1>2, <1>4, <1>5 DEF c, st

LEMMA DropTypeEffect ==
  ASSUME NEW T, NEW Y, NEW E, NEW F, NEW G, NEW U, NEW I, NEW n
  PROVE  LET c == Cat(T, Y, E, F, G, U, I)
             st == DropType(n)
         IN  /\ Effect(c, st) = Cat(Untyped(T, n), Without(Y, n), E, F, G, U, I)
             /\ Accepts(c, st)
<1> DEFINE c == Cat(T, Y, E, F, G, U, I)
           st == DropType(n)
<1>1. st.op = "drop type" /\ st.name = n
  BY DEF DropType
<1>2. c.tables = T /\ c.types = Y /\ c.extensions = E /\ c.functions = F
      /\ c.triggers = G /\ c.unique = U /\ c.indexed = I
  BY DEF Cat
<1> HIDE DEF st, c
<1>3. Effect(c, st) = [c EXCEPT !.types = Without(@, st.name),
                      !.tables = [t \in DOMAIN @ |-> WithoutType(@[t], st.name)]]
  BY <1>1, Zenon DEF Effect
<1>4. Effect(c, st) = Cat(Untyped(T, n), Without(Y, n), E, F, G, U, I)
  <2> DEFINE A == Untyped(T, n)
             B == Without(Y, n)
  <2>1. Effect(c, st) = [c EXCEPT !.types = B, !.tables = A]
    BY <1>1, <1>2, <1>3, Zenon DEF Untyped
  <2> HIDE DEF A, B
  <2>2. Effect(c, st) = PutTables(PutTypes(c, B), A)
    BY <2>1 DEF PutTables, PutTypes
  <2>3. Effect(c, st) = Cat(A, B, E, F, G, U, I)
    BY <2>2, Altered DEF c
  <2> QED
    BY <2>3 DEF A, B
<1>5. Accepts(c, st) <=> TRUE
  BY <1>1, Zenon DEF Accepts
<1> QED
  BY <1>1, <1>2, <1>4, <1>5 DEF c, st

-----------------------------------------------------------------------------
(* Sound catalogs, and statements that undo each other on them             *)

\* What a foreign key, a column's type, a trigger or an index names is there.
IsTable(t) ==
    t = [cols |-> t.cols, pk |-> t.pk, uniq |-> t.uniq, fks |-> t.fks, types |-> t.types]

Fits(t, names, known) ==
    /\ IsTable(t)
    /\ \A k \in t.fks : k[2] \in names
    /\ \A y \in t.types : y[1] \in t.cols /\ y[2] \in known

IsFcn(f) == f = [x \in DOMAIN f |-> f[x]]

SoundTables(T, known) == IsFcn(T) /\ \A t \in DOMAIN T : Fits(T[t], DOMAIN T, known)

SoundIndexes(T, U, I) ==
    /\ IsFcn(U) /\ \A x \in DOMAIN U : U[x].name = x
    /\ \A x \in DOMAIN U : U[x].on \in DOMAIN T /\ U[x].cols \subseteq T[U[x].on].cols
    /\ \A i \in I : i.on \in DOMAIN T /\ i.cols \subseteq T[i.on].cols

Sound(T, Y, E, G, U, I) ==
    /\ SoundTables(T, DOMAIN Y \cup E)
    /\ IsFcn(Y)
    /\ G \subseteq DOMAIN T
    /\ SoundIndexes(T, U, I)

\* A statement that takes c to d, and one that takes d back to c.
Step(c, st, un, d) ==
    /\ Accepts(c, st) /\ Effect(c, st) = d
    /\ Accepts(d, un) /\ Effect(d, un) = c

LEMMA WithWithout ==
  ASSUME NEW f, NEW x, NEW v, IsFcn(f), x \notin DOMAIN f
  PROVE  /\ IsFcn(With(f, x, v)) /\ DOMAIN With(f, x, v) = DOMAIN f \cup {x}
         /\ Without(With(f, x, v), x) = f
<1> DEFINE g == With(f, x, v)
<1>1. /\ IsFcn(g) /\ DOMAIN g = DOMAIN f \cup {x}
      /\ g[x] = v /\ \A y \in DOMAIN f : g[y] = f[y]
  BY DEF With, IsFcn
<1> HIDE DEF g
<1>2. DOMAIN g \ {x} = DOMAIN f
  BY <1>1
<1>3. Without(g, x) = [y \in DOMAIN f |-> g[y]]
  BY <1>2 DEF Without, Restrict
<1>4. Without(g, x) = f
  BY <1>1, <1>3 DEF IsFcn
<1> QED
  BY <1>1, <1>4 DEF g

\* Nothing changes in a table that does not use what is dropped.
LEMMA Untouched ==
  ASSUME NEW t, IsTable(t), NEW n
  PROVE  /\ (\A k \in t.fks : k[2] # n) => WithoutKeysTo(t, n) = t
         /\ (\A y \in t.types : y[2] # n) => WithoutType(t, n) = t
<1>1. /\ t = [x \in DOMAIN t |-> t[x]]
      /\ DOMAIN t = {"cols", "pk", "uniq", "fks", "types"}
  BY DEF IsTable
<1>2. ASSUME \A k \in t.fks : k[2] # n
      PROVE  WithoutKeysTo(t, n) = t
  <2>1. {k \in t.fks : k[2] # n} = t.fks
    BY <1>2
  <2>2. [t EXCEPT !.fks = t.fks] = t
    BY <1>1
  <2> QED
    BY <2>1, <2>2, Zenon DEF WithoutKeysTo
<1>3. ASSUME \A y \in t.types : y[2] # n
      PROVE  WithoutType(t, n) = t
  <2>1. {y \in t.types : y[2] # n} = t.types
    BY <1>3
  <2>2. {z \in t.types : z[2] = n} = {}
    BY <1>3
  <2> DEFINE Z == {z \in t.types : z[2] = n}
             lost == {y[1] : y \in Z}
  <2>3. lost = {}
    BY <2>2
  <2>4. t.cols \ lost = t.cols
    BY <2>3
  <2>5. [t EXCEPT !.cols = t.cols, !.types = t.types] = t
    BY <1>1
  <2> HIDE DEF lost
  <2>6. [t EXCEPT !.cols = t.cols \ lost, !.types = {y \in t.types : y[2] # n}] = t
    BY <2>1, <2>4, <2>5, Zenon
  <2> QED
    BY <2>6, Zenon DEF WithoutType, lost
<1> QED
  BY <1>2, <1>3

LEMMA TypeStep ==
  ASSUME NEW T, NEW Y, NEW E, NEW F, NEW G, NEW U, NEW I, Sound(T, Y, E, G, U, I),
         NEW n, NEW l, n \notin DOMAIN Y \cup E
  PROVE  /\ Step(Cat(T, Y, E, F, G, U, I), CreateType(n, l), DropType(n),
                 Cat(T, With(Y, n, l), E, F, G, U, I))
         /\ Sound(T, With(Y, n, l), E, G, U, I)
<1> DEFINE Z == With(Y, n, l)
<1>1. IsFcn(Z) /\ DOMAIN Z = DOMAIN Y \cup {n} /\ Without(Z, n) = Y
  BY WithWithout DEF Sound
<1>2. \A t \in DOMAIN T : IsTable(T[t]) /\ \A y \in T[t].types : y[2] # n
  BY DEF Sound, SoundTables, Fits
<1>3. \A t \in DOMAIN T : WithoutType(T[t], n) = T[t]
  BY <1>2, Untouched
<1>4. Untyped(T, n) = T
  <2>1. Untyped(T, n) = [t \in DOMAIN T |-> T[t]]
    BY <1>3 DEF Untyped
  <2> QED
    BY <2>1 DEF Sound, SoundTables, IsFcn
<1>5. Sound(T, Z, E, G, U, I)
  <2>1. SoundTables(T, DOMAIN Z \cup E)
    BY <1>1 DEF Sound, SoundTables, Fits
  <2> QED
    BY <1>1, <2>1 DEF Sound
<1> DEFINE c == Cat(T, Y, E, F, G, U, I)
           d == Cat(T, Z, E, F, G, U, I)
<1>6. Accepts(c, CreateType(n, l)) /\ Effect(c, CreateType(n, l)) = d
  BY CreateTypeEffect
<1> HIDE DEF Z
<1>7. Accepts(d, DropType(n)) /\ Effect(d, DropType(n)) = Cat(Untyped(T, n), Without(Z, n), E, F, G, U, I)
  BY DropTypeEffect
<1>8. Effect(d, DropType(n)) = c
  BY <1>1, <1>4, <1>7
<1> QED
  BY <1>5, <1>6, <1>7, <1>8 DEF Step, Z

LEMMA TableStep ==
  ASSUME NEW T, NEW Y, NEW E, NEW F, NEW G, NEW U, NEW I, Sound(T, Y, E, G, U, I),
         NEW n, NEW t, n \notin DOMAIN T, Fits(t, DOMAIN T, DOMAIN Y \cup E)
  PROVE  LET c == Cat(T, Y, E, F, G, U, I)
             d == Cat(With(T, n, t), Y, E, F, G, U, I)
         IN  /\ Step(c, CreateTable(n, t), DropTableOnly(n), d)
             /\ Step(c, CreateTable(n, t), DropTableCascade(n), d)
             /\ Sound(With(T, n, t), Y, E, G, U, I)
<1> DEFINE V == With(T, n, t)
           c == Cat(T, Y, E, F, G, U, I)
           d == Cat(V, Y, E, F, G, U, I)
<1>1. IsFcn(T)
  BY DEF Sound, SoundTables
<1>2. /\ IsFcn(V) /\ DOMAIN V = DOMAIN T \cup {n} /\ V[n] = t
      /\ \A m \in DOMAIN T : V[m] = T[m]
  <2>1. IsFcn(V) /\ DOMAIN V = DOMAIN T \cup {n}
    BY <1>1, WithWithout
  <2>2. V[n] = t /\ \A m \in DOMAIN T : V[m] = T[m]
    BY DEF With
  <2> QED
    BY <2>1, <2>2
<1>3. Accepts(c, CreateTable(n, t)) /\ Effect(c, CreateTable(n, t)) = d
  BY CreateTableEffect DEF Fits
<1> HIDE DEF V
<1>4. \A m \in DOMAIN T : IsTable(T[m]) /\ \A k \in T[m].fks : k[2] # n
  BY DEF Sound, SoundTables, Fits
<1>5. \A m \in DOMAIN T : WithoutKeysTo(T[m], n) = T[m]
  BY <1>4, Untouched
<1>6. Unreferred(V, n) = T
  <2>1. DOMAIN V \ {n} = DOMAIN T
    BY <1>2
  <2>2. Unreferred(V, n) = [m \in DOMAIN T |-> T[m]]
    BY <2>1, <1>2, <1>5 DEF Unreferred
  <2> QED
    BY <2>2 DEF Sound, SoundTables, IsFcn
<1>7. Referring(V, n) = {}
  BY <1>2, <1>4 DEF Referring
<1>8. /\ G \ {n} = G
      /\ Restrict(U, {i \in DOMAIN U : U[i].on # n}) = U
      /\ {i \in I : i.on # n} = I
  <2>1. {i \in DOMAIN U : U[i].on # n} = DOMAIN U
    BY DEF Sound, SoundIndexes
  <2>2. Restrict(U, DOMAIN U) = U
    BY DEF Restrict, Sound, SoundIndexes, IsFcn
  <2> QED
    BY <2>1, <2>2 DEF Sound, SoundIndexes
<1>9. /\ Accepts(d, DropTableOnly(n)) /\ Accepts(d, DropTableCascade(n))
      /\ Effect(d, DropTableOnly(n)) = c /\ Effect(d, DropTableCascade(n)) = c
  <2> DEFINE R == Restrict(U, {i \in DOMAIN U : U[i].on # n})
             J == {i \in I : i.on # n}
             e == Cat(Unreferred(V, n), Y, E, F, G \ {n}, R, J)
  <2>1. Accepts(d, DropTableOnly(n)) /\ Effect(d, DropTableOnly(n)) = e
    <3>1. n \in DOMAIN V /\ Referring(V, n) = {}
      BY <1>2, <1>7
    <3>2. Effect(d, DropTableOnly(n)) = e
      BY DropTableEffect
    <3>3. Accepts(d, DropTableOnly(n))
      BY <3>1, DropTableEffect
    <3> QED
      BY <3>2, <3>3
  <2>2. Accepts(d, DropTableCascade(n)) /\ Effect(d, DropTableCascade(n)) = e
    BY DropTableCascadeEffect
  <2>3. R = U /\ J = I
    BY <1>8
  <2> HIDE DEF R, J
  <2>4. e = c
    BY <1>6, <1>8, <2>3
  <2> QED
    BY <2>1, <2>2, <2>4
<1>10. Sound(V, Y, E, G, U, I)
  <2>1. SoundTables(V, DOMAIN Y \cup E)
    BY <1>2 DEF Sound, SoundTables, Fits
  <2>2. SoundIndexes(V, U, I)
    BY <1>2 DEF Sound, SoundIndexes
  <2> QED
    BY <1>2, <2>1, <2>2 DEF Sound
<1> QED
  BY <1>3, <1>9, <1>10 DEF Step, V

\* A column is narrowed away again.
LEMMA ColumnStep ==
  ASSUME NEW T, NEW Y, NEW E, NEW F, NEW G, NEW U, NEW I, Sound(T, Y, E, G, U, I),
         NEW n \in DOMAIN T, NEW col, col \notin T[n].cols,
         NEW types, \A y \in types : y[1] = col /\ y[2] \in DOMAIN Y \cup E
  PROVE  /\ Step(Cat(T, Y, E, F, G, U, I), AddColumn(n, col, types), DropColumnOf(n, col),
                 Cat(Wider(T, n, col, types), Y, E, F, G, U, I))
         /\ Sound(Wider(T, n, col, types), Y, E, G, U, I)
         /\ DOMAIN Wider(T, n, col, types) = DOMAIN T
         /\ Wider(T, n, col, types)[n].cols = T[n].cols \cup {col}
<1> DEFINE V == Wider(T, n, col, types)
           w == WithColumn(T[n], col, types)
           c == Cat(T, Y, E, F, G, U, I)
           d == Cat(V, Y, E, F, G, U, I)
<1>1. IsTable(T[n]) /\ IsFcn(T)
  BY DEF Sound, SoundTables, Fits
<1>2. /\ IsTable(w) /\ w.cols = T[n].cols \cup {col} /\ w.types = T[n].types \cup types
      /\ w.fks = T[n].fks
  <2> DEFINE t == T[n]
  <2>1. t = [x \in DOMAIN t |-> t[x]] /\ DOMAIN t = {"cols", "pk", "uniq", "fks", "types"}
    BY <1>1 DEF IsTable
  <2> HIDE DEF t
  <2> DEFINE u == WithColumn(t, col, types)
  <2>2. /\ u = [x \in DOMAIN u |-> u[x]] /\ DOMAIN u = DOMAIN t
        /\ u.cols = t.cols \cup {col} /\ u.types = t.types \cup types /\ u.fks = t.fks
    BY <2>1 DEF WithColumn
  <2> HIDE DEF u
  <2>3. IsTable(u)
    BY <2>1, <2>2 DEF IsTable
  <2> QED
    BY <2>2, <2>3 DEF u, t
<1>3. WithoutColumn(w, col) = T[n]
  <2> DEFINE t == T[n]
  <2>1. t = [x \in DOMAIN t |-> t[x]] /\ DOMAIN t = {"cols", "pk", "uniq", "fks", "types"}
    BY <1>1 DEF IsTable
  <2>2. col \notin t.cols /\ \A y \in t.types : y[1] # col
    BY DEF Sound, SoundTables, Fits
  <2> HIDE DEF t
  <2> DEFINE u == WithColumn(t, col, types)
             A == u.cols \ {col}
             B == {y \in u.types : y[1] # col}
  <2>3. u = [x \in DOMAIN u |-> u[x]] /\ DOMAIN u = DOMAIN t
        /\ u.cols = t.cols \cup {col} /\ u.types = t.types \cup types
        /\ u.pk = t.pk /\ u.uniq = t.uniq /\ u.fks = t.fks
    BY <2>1 DEF WithColumn
  <2> HIDE DEF u
  <2>4. A = t.cols /\ B = t.types
    BY <2>2, <2>3
  <2> HIDE DEF A, B
  <2>5. [u EXCEPT !.cols = A, !.types = B] = t
    BY <2>1, <2>3, <2>4
  <2>6. WithoutColumn(u, col) = t
    BY <2>5 DEF WithoutColumn, A, B
  <2> QED
    BY <2>6 DEF u, t
<1>4. /\ IsFcn(V) /\ DOMAIN V = DOMAIN T /\ V[n] = w
      /\ \A m \in DOMAIN T \ {n} : V[m] = T[m]
  BY <1>1 DEF Wider, IsFcn
<1>5. Accepts(c, AddColumn(n, col, types)) /\ Effect(c, AddColumn(n, col, types)) = d
  BY AddColumnEffect
<1> HIDE DEF V, w
<1>6. Narrower(V, n, col) = T
  <2>1. Narrower(V, n, col) = [V EXCEPT ![n] = T[n]]
    BY <1>3, <1>4 DEF Narrower
  <2> QED
    BY <1>1, <1>4, <2>1 DEF IsFcn
<1> DEFINE R == Restrict(U, {i \in DOMAIN U : ~ (U[i].on = n /\ col \in U[i].cols)})
           J == {i \in I : ~ (i.on = n /\ col \in i.cols)}
<1>7. R = U /\ J = I
  <2>1. {i \in DOMAIN U : ~ (U[i].on = n /\ col \in U[i].cols)} = DOMAIN U
    BY DEF Sound, SoundIndexes
  <2>2. Restrict(U, DOMAIN U) = U
    BY DEF Restrict, Sound, SoundIndexes, IsFcn
  <2>3. R = U
    BY <2>1, <2>2
  <2>4. J = I
    BY DEF Sound, SoundIndexes
  <2> QED
    BY <2>3, <2>4
<1>8. Accepts(d, DropColumnOf(n, col)) /\ Effect(d, DropColumnOf(n, col)) = c
  <2>1. Effect(d, DropColumnOf(n, col)) = Cat(Narrower(V, n, col), Y, E, F, G, R, J)
    BY DropColumnEffect
  <2>2. n \in DOMAIN V /\ col \in V[n].cols
    BY <1>2, <1>4
  <2>3. Accepts(d, DropColumnOf(n, col))
    BY <2>2, DropColumnEffect
  <2> HIDE DEF R, J
  <2> QED
    BY <2>1, <2>3, <1>6, <1>7
<1>9. Sound(V, Y, E, G, U, I)
  <2>1. \A m \in DOMAIN V : T[m].cols \subseteq V[m].cols
    BY <1>2, <1>4
  <2>2. ASSUME NEW m \in DOMAIN V
        PROVE  Fits(V[m], DOMAIN V, DOMAIN Y \cup E)
    <3>1. Fits(T[m], DOMAIN T, DOMAIN Y \cup E)
      BY <1>4 DEF Sound, SoundTables
    <3>2. CASE m = n
      BY <1>2, <1>4, <3>1, <3>2 DEF Fits
    <3>3. CASE m # n
      BY <1>4, <3>1, <3>3
    <3> QED
      BY <3>2, <3>3
  <2>3. SoundTables(V, DOMAIN Y \cup E)
    BY <1>4, <2>2 DEF SoundTables
  <2>4. SoundIndexes(V, U, I)
    BY <1>4, <2>1 DEF Sound, SoundIndexes
  <2> QED
    BY <1>4, <2>3, <2>4 DEF Sound
<1> QED
  BY <1>2, <1>4, <1>5, <1>8, <1>9 DEF Step, V

LEMMA IndexStep ==
  ASSUME NEW T, NEW Y, NEW E, NEW F, NEW G, NEW U, NEW I, Sound(T, Y, E, G, U, I),
         NEW x, x.on \in DOMAIN T, x.cols \subseteq T[x.on].cols,
         \A i \in I : i.name # x.name, x.name \notin DOMAIN U
  PROVE  LET c == Cat(T, Y, E, F, G, U, I)
             d == Cat(T, Y, E, F, G, U, I \cup {x})
             e == Cat(T, Y, E, F, G, With(U, x.name, x), I)
         IN  /\ Step(c, CreateIndex(x), DropIndex(x.name), d)
             /\ Sound(T, Y, E, G, U, I \cup {x})
             /\ Step(c, CreateUniqueIndex(x), DropIndex(x.name), e)
             /\ Sound(T, Y, E, G, With(U, x.name, x), I)
<1> DEFINE c == Cat(T, Y, E, F, G, U, I)
           d == Cat(T, Y, E, F, G, U, I \cup {x})
           e == Cat(T, Y, E, F, G, With(U, x.name, x), I)
           n == x.name
           W == With(U, n, x)
<1>1. IsFcn(U) /\ \A y \in DOMAIN U : U[y].name = y
  BY DEF Sound, SoundIndexes
<1>2. \A i \in I \cup Range(U) : i.name # x.name
  BY <1>1 DEF Range
<1>3. /\ Accepts(c, CreateIndex(x)) /\ Effect(c, CreateIndex(x)) = d
      /\ Accepts(c, CreateUniqueIndex(x)) /\ Effect(c, CreateUniqueIndex(x)) = e
  <2>1. Effect(c, CreateIndex(x)) = d
    BY CreateIndexEffect
  <2>2. Effect(c, CreateUniqueIndex(x)) = e
    BY CreateUniqueIndexEffect
  <2>3. Accepts(c, CreateIndex(x))
    BY <1>2, CreateIndexEffect
  <2>4. Accepts(c, CreateUniqueIndex(x))
    BY <1>2, CreateUniqueIndexEffect
  <2> QED
    BY <2>1, <2>2, <2>3, <2>4
<1>4. Without(U, n) = U /\ {i \in I \cup {x} : i.name # n} = I /\ {i \in I : i.name # n} = I
  <2>1. DOMAIN U \ {n} = DOMAIN U
    OBVIOUS
  <2>2. Without(U, n) = U
    BY <1>1, <2>1 DEF Without, Restrict, IsFcn
  <2> QED
    BY <2>2
<1>5. IsFcn(W) /\ DOMAIN W = DOMAIN U \cup {n} /\ Without(W, n) = U
  BY <1>1, WithWithout
<1>6. W[n] = x /\ \A y \in DOMAIN U : W[y] = U[y]
  BY DEF With
<1> DEFINE J == {i \in I \cup {x} : i.name # n}
           K == {i \in I : i.name # n}
<1>7. Accepts(d, DropIndex(n)) /\ Effect(d, DropIndex(n)) = c
  <2>1. Effect(d, DropIndex(n)) = Cat(T, Y, E, F, G, Without(U, n), J)
    BY DropIndexEffect
  <2>2. \E i \in (I \cup {x}) \cup Range(U) : i.name = n
    OBVIOUS
  <2>3. Accepts(d, DropIndex(n))
    BY <2>2, DropIndexEffect
  <2> HIDE DEF J
  <2> QED
    BY <2>1, <2>3, <1>4 DEF J
<1> HIDE DEF W
<1>8. Accepts(e, DropIndex(n)) /\ Effect(e, DropIndex(n)) = c
  <2>0. e = Cat(T, Y, E, F, G, W, I)
    BY DEF W
  <2>1. Effect(e, DropIndex(n)) = Cat(T, Y, E, F, G, Without(W, n), K)
    BY <2>0, DropIndexEffect
  <2>2. \E i \in I \cup Range(W) : i.name = n
    BY <1>5, <1>6 DEF Range
  <2>3. Accepts(Cat(T, Y, E, F, G, W, I), DropIndex(n))
    BY <2>2, DropIndexEffect
  <2> HIDE DEF K
  <2> QED
    BY <2>0, <2>1, <2>3, <1>4, <1>5 DEF K
<1>9. Sound(T, Y, E, G, U, I \cup {x}) /\ Sound(T, Y, E, G, W, I)
  <2>1. SoundIndexes(T, U, I \cup {x})
    BY DEF Sound, SoundIndexes
  <2>2. SoundIndexes(T, W, I)
    <3>1. ASSUME NEW y \in DOMAIN W
          PROVE  W[y].name = y /\ W[y].on \in DOMAIN T /\ W[y].cols \subseteq T[W[y].on].cols
      <4>1. CASE y = n
        BY <4>1, <1>6
      <4>2. CASE y \in DOMAIN U
        BY <4>2, <1>6 DEF Sound, SoundIndexes
      <4> QED
        BY <4>1, <4>2, <1>5
    <3> QED
      BY <3>1, <1>5 DEF Sound, SoundIndexes
  <2> QED
    BY <2>1, <2>2 DEF Sound
<1> QED
  BY <1>3, <1>7, <1>8, <1>9 DEF Step, W

-----------------------------------------------------------------------------
(* Scripts that undo each other                                            *)

Undoes(c, up, d, down) == Runs(c, up, d) /\ Runs(d, down, c)

\* The statements of one script undo those of the other, the last one first.
Undoing(k, n, up, down) ==
    /\ IsScript(up) /\ IsScript(down) /\ Len(up) = n /\ Len(down) = n
    /\ \A i \in 1 .. n : Step(k[i - 1], up[i], down[n + 1 - i], k[i])

LEMMA StepsInvert ==
  ASSUME NEW n \in Nat, NEW up, NEW down, NEW k, Undoing(k, n, up, down)
  PROVE  Undoes(k[0], up, k[n], down)
<1>1. Through(k, k[0], up, k[n])
  BY DEF Through, Undoing, Step
<1> DEFINE h == [i \in 0 .. n |-> k[n - i]]
<1>2. h[0] = k[n] /\ h[n] = k[0]
  <2>1. n - 0 = n /\ n - n = 0 /\ 0 \in 0 .. n /\ n \in 0 .. n
    OBVIOUS
  <2> QED
    BY <2>1
<1>3. ASSUME NEW i \in 1 .. n
      PROVE  Accepts(h[i - 1], down[i]) /\ h[i] = Effect(h[i - 1], down[i])
  <2> DEFINE j == n + 1 - i
  <2>1. j \in 1 .. n /\ n + 1 - j = i
    OBVIOUS
  <2>2. i \in 0 .. n /\ i - 1 \in 0 .. n /\ n - i = j - 1 /\ n - (i - 1) = j
    OBVIOUS
  <2>3. h[i] = k[j - 1] /\ h[i - 1] = k[j]
    BY <2>2
  <2> HIDE DEF j, h
  <2>4. Step(k[j - 1], up[j], down[n + 1 - j], k[j])
    BY <2>1 DEF Undoing
  <2>5. Step(k[j - 1], up[j], down[i], k[j])
    BY <2>1, <2>4
  <2> QED
    BY <2>3, <2>5 DEF Step
<1> HIDE DEF h
<1>4. Through(h, k[n], down, k[0])
  BY <1>2, <1>3 DEF Through, Undoing
<1> QED
  BY <1>1, <1>4 DEF Undoes, Runs, Undoing

LEMMA TwoSteps ==
  ASSUME NEW b, NEW c, NEW d, NEW s1, NEW s2, NEW t1, NEW t2,
         Step(b, s1, t2, c), Step(c, s2, t1, d)
  PROVE  Undoes(b, <<s1, s2>>, d, <<t1, t2>>)
<1> DEFINE k == [i \in 0 .. 2 |-> IF i = 0 THEN b ELSE IF i = 1 THEN c ELSE d]
           up == <<s1, s2>>
           down == <<t1, t2>>
<1>1. k[0] = b /\ k[1] = c /\ k[2] = d
  OBVIOUS
<1>2. /\ up \in Seq({s1, s2}) /\ Len(up) = 2 /\ up[1] = s1 /\ up[2] = s2
      /\ down \in Seq({t1, t2}) /\ Len(down) = 2 /\ down[1] = t1 /\ down[2] = t2
  OBVIOUS
<1>3. IsScript(up) /\ IsScript(down)
  BY <1>2, SequencesAreScripts
<1> HIDE DEF k, up, down
<1>4. ASSUME NEW i \in 1 .. 2
      PROVE  Step(k[i - 1], up[i], down[2 + 1 - i], k[i])
  <2>1. i = 1 \/ i = 2
    OBVIOUS
  <2>2. CASE i = 1
    <3>1. i - 1 = 0 /\ 2 + 1 - i = 2
      BY <2>2
    <3> QED
      BY <2>2, <3>1, <1>1, <1>2
  <2>3. CASE i = 2
    <3>1. i - 1 = 1 /\ 2 + 1 - i = 1
      BY <2>3
    <3> QED
      BY <2>3, <3>1, <1>1, <1>2
  <2> QED
    BY <2>1, <2>2, <2>3
<1>5. Undoing(k, 2, up, down)
  BY <1>2, <1>3, <1>4 DEF Undoing
<1>6. Undoes(k[0], up, k[2], down)
  BY <1>5, StepsInvert
<1> QED
  BY <1>1, <1>6 DEF up, down

LEMMA InverseOn ==
  ASSUME NEW b, NEW c, NEW d, NEW u, NEW v, NEW w, NEW x,
         Undoes(b, u, c, x), Undoes(c, v, d, w)
  PROVE  Undoes(b, u \o v, d, w \o x)
  BY RunsOn DEF Undoes

LEMMA OneStep ==
  ASSUME NEW b, NEW c, NEW s, NEW t, Step(b, s, t, c)
  PROVE  Undoes(b, <<s>>, c, <<t>>)
  BY RunsOne DEF Undoes, Step

-----------------------------------------------------------------------------
(* The revisions that only add                                             *)

LEMMA ThreeIsScript ==
  ASSUME NEW a, NEW b, NEW c
  PROVE  IsScript(<<a, b, c>>)
  <1>1. <<a, b, c>> \in Seq({a, b, c})
    OBVIOUS
  <1> QED
    BY <1>1, SequencesAreScripts

LEMMA Revision3 ==
  ASSUME NEW T, NEW Y, NEW E, NEW F, NEW G, NEW U, NEW I, Sound(T, Y, E, G, U, I),
         "event_type" \notin DOMAIN Y \cup E, "refresh_events" \notin DOMAIN T,
         {"tickers", "analyses"} \subseteq DOMAIN T
  PROVE  LET V == With(T, "refresh_events", refresh_events)
             Z == With(Y, "event_type", EVENT_TYPES)
         IN  /\ Undoes(Cat(T, Y, E, F, G, U, I), Upgrade_0003,
                        Cat(V, Z, E, F, G, U, I), Downgrade_0003)
             /\ Sound(V, Z, E, G, U, I)
<1> DEFINE V == With(T, "refresh_events", refresh_events)
           Z == With(Y, "event_type", EVENT_TYPES)
<1>1. /\ Step(Cat(T, Y, E, F, G, U, I), CreateType("event_type", EVENT_TYPES),
              DropType("event_type"), Cat(T, Z, E, F, G, U, I))
      /\ Sound(T, Z, E, G, U, I)
  BY TypeStep
<1>2. DOMAIN Z = DOMAIN Y \cup {"event_type"}
  BY DEF With
<1>3. Fits(refresh_events, DOMAIN T, DOMAIN Z \cup E)
  <2>1. IsTable(refresh_events)
    BY DEF IsTable, refresh_events
  <2>2. refresh_events.fks = {<<"symbol", "tickers", "CASCADE">>, <<"analysis_id", "analyses", "SET NULL">>}
    BY DEF refresh_events, OfTicker
  <2>3. \A k \in refresh_events.fks : k[2] \in DOMAIN T
    <3> DEFINE a == <<"symbol", "tickers", "CASCADE">>
               b == <<"analysis_id", "analyses", "SET NULL">>
    <3>1. a[2] = "tickers" /\ b[2] = "analyses"
      OBVIOUS
    <3>2. refresh_events.fks = {a, b}
      BY <2>2
    <3> HIDE DEF a, b
    <3> QED
      BY <3>1, <3>2
  <2>4. \A y \in refresh_events.types : y[1] \in refresh_events.cols /\ y[2] \in DOMAIN Z \cup E
    BY <1>2 DEF refresh_events
  <2> QED
    BY <2>1, <2>3, <2>4 DEF Fits
<1> HIDE DEF Z
<1>4. /\ Step(Cat(T, Z, E, F, G, U, I), CreateTable("refresh_events", refresh_events),
              DropTableCascade("refresh_events"), Cat(V, Z, E, F, G, U, I))
      /\ Sound(V, Z, E, G, U, I)
  BY <1>1, <1>3, TableStep
<1>5. Undoes(Cat(T, Y, E, F, G, U, I),
              <<CreateType("event_type", EVENT_TYPES), CreateTable("refresh_events", refresh_events)>>,
              Cat(V, Z, E, F, G, U, I),
              <<DropTableCascade("refresh_events"), DropType("event_type")>>)
  BY <1>1, <1>4, TwoSteps
<1> QED
  BY <1>4, <1>5 DEF Upgrade_0003, Downgrade_0003, Z

LEMMA Revision4 ==
  ASSUME NEW T, NEW Y, NEW E, NEW F, NEW G, NEW U, NEW I, Sound(T, Y, E, G, U, I),
         {"chat_sessions", "chat_messages", "user_settings"} \cap DOMAIN T = {}
  PROVE  LET V == With(T, "chat_sessions", chat_sessions)
             W == With(V, "chat_messages", chat_messages)
             X == With(W, "user_settings", user_settings)
         IN  /\ Undoes(Cat(T, Y, E, F, G, U, I), Upgrade_0004,
                        Cat(X, Y, E, F, G, U, I), Downgrade_0004)
             /\ Sound(X, Y, E, G, U, I)
<1> DEFINE V == With(T, "chat_sessions", chat_sessions)
           W == With(V, "chat_messages", chat_messages)
           X == With(W, "user_settings", user_settings)
           b == Cat(T, Y, E, F, G, U, I)
           c == Cat(V, Y, E, F, G, U, I)
           d == Cat(W, Y, E, F, G, U, I)
           e == Cat(X, Y, E, F, G, U, I)
<1>1. /\ DOMAIN V = DOMAIN T \cup {"chat_sessions"}
      /\ DOMAIN W = DOMAIN V \cup {"chat_messages"}
  BY DEF With
<1>2. Fits(chat_sessions, DOMAIN T, DOMAIN Y \cup E)
  BY DEF Fits, IsTable, chat_sessions, Stamps
<1>3. Fits(chat_messages, DOMAIN V, DOMAIN Y \cup E)
  BY <1>1 DEF Fits, IsTable, chat_messages, Stamps
<1>4. Fits(user_settings, DOMAIN W, DOMAIN Y \cup E)
  BY DEF Fits, IsTable, user_settings, Stamps
<1>5. /\ Step(b, CreateTable("chat_sessions", chat_sessions), DropTableOnly("chat_sessions"), c)
      /\ Sound(V, Y, E, G, U, I)
  BY <1>2, TableStep
<1> HIDE DEF V
<1>6. /\ Step(c, CreateTable("chat_messages", chat_messages), DropTableOnly("chat_messages"), d)
      /\ Sound(W, Y, E, G, U, I)
  BY <1>1, <1>3, <1>5, TableStep
<1> HIDE DEF W
<1>7. /\ Step(d, CreateTable("user_settings", user_settings), DropTableOnly("user_settings"), e)
      /\ Sound(X, Y, E, G, U, I)
  BY <1>1, <1>4, <1>6, TableStep
<1> HIDE DEF X, b, c, d, e
<1> DEFINE k == [i \in 0 .. 3 |-> IF i = 0 THEN b ELSE IF i = 1 THEN c ELSE IF i = 2 THEN d ELSE e]
<1>8. k[0] = b /\ k[1] = c /\ k[2] = d /\ k[3] = e
  OBVIOUS
<1> HIDE DEF k
<1> DEFINE up == Upgrade_0004
           down == Downgrade_0004
<1>9. /\ Len(up) = 3 /\ Len(down) = 3
      /\ up[1] = CreateTable("chat_sessions", chat_sessions)
      /\ up[2] = CreateTable("chat_messages", chat_messages)
      /\ up[3] = CreateTable("user_settings", user_settings)
      /\ down[3] = DropTableOnly("chat_sessions") /\ down[2] = DropTableOnly("chat_messages")
      /\ down[1] = DropTableOnly("user_settings")
  BY DEF Upgrade_0004, Downgrade_0004
<1>10. IsScript(up) /\ IsScript(down)
  BY ThreeIsScript DEF Upgrade_0004, Downgrade_0004
<1> HIDE DEF up, down
<1>11. ASSUME NEW i \in 1 .. 3
       PROVE  Step(k[i - 1], up[i], down[3 + 1 - i], k[i])
  <2>1. /\ Step(k[1 - 1], up[1], down[3 + 1 - 1], k[1])
        /\ Step(k[2 - 1], up[2], down[3 + 1 - 2], k[2])
        /\ Step(k[3 - 1], up[3], down[3 + 1 - 3], k[3])
    BY <1>5, <1>6, <1>7, <1>8, <1>9
  <2>2. i = 1 \/ i = 2 \/ i = 3
    OBVIOUS
  <2> QED
    BY <2>1, <2>2
<1>12. Undoing(k, 3, up, down)
  BY <1>9, <1>10, <1>11 DEF Undoing
<1>13. Undoes(k[0], up, k[3], down)
  BY <1>12, StepsInvert
<1> QED
  BY <1>7, <1>8, <1>13 DEF b, e, up, down, X, W, V

LEMMA Revision7 ==
  ASSUME NEW T, NEW Y, NEW E, NEW F, NEW G, NEW U, NEW I, Sound(T, Y, E, G, U, I),
         "specialist_cache" \notin DOMAIN T, "tickers" \in DOMAIN T,
         "ix_specialist_cache_last_run_at" \notin DOMAIN U,
         \A i \in I : i.name # "ix_specialist_cache_last_run_at"
  PROVE  LET V == With(T, "specialist_cache", specialist_cache)
         IN  /\ Undoes(Cat(T, Y, E, F, G, U, I), Upgrade_0007,
                        Cat(V, Y, E, F, G, U, I \cup {ByLastRun}), Downgrade_0007)
             /\ Sound(V, Y, E, G, U, I \cup {ByLastRun})
<1> DEFINE V == With(T, "specialist_cache", specialist_cache)
<1>1. Fits(specialist_cache, DOMAIN T, DOMAIN Y \cup E)
  BY DEF Fits, IsTable, specialist_cache, OfTicker
<1>2. /\ Step(Cat(T, Y, E, F, G, U, I), CreateTable("specialist_cache", specialist_cache),
              DropTableOnly("specialist_cache"), Cat(V, Y, E, F, G, U, I))
      /\ Sound(V, Y, E, G, U, I)
  BY <1>1, TableStep
<1>3. /\ ByLastRun.name = "ix_specialist_cache_last_run_at"
      /\ ByLastRun.on = "specialist_cache" /\ ByLastRun.cols = {"last_run_at"}
  BY DEF ByLastRun, Index
<1>4. "specialist_cache" \in DOMAIN V /\ V["specialist_cache"] = specialist_cache
  BY DEF With
<1>5. ByLastRun.cols \subseteq V[ByLastRun.on].cols
  <2>1. "last_run_at" \in specialist_cache.cols
    BY DEF specialist_cache
  <2> QED
    BY <1>3, <1>4, <2>1
<1> HIDE DEF V
<1>6. /\ Step(Cat(V, Y, E, F, G, U, I), CreateIndex(ByLastRun), DropIndex(ByLastRun.name),
              Cat(V, Y, E, F, G, U, I \cup {ByLastRun}))
      /\ Sound(V, Y, E, G, U, I \cup {ByLastRun})
  BY <1>2, <1>3, <1>4, <1>5, IndexStep
<1>7. Undoes(Cat(T, Y, E, F, G, U, I),
              <<CreateTable("specialist_cache", specialist_cache), CreateIndex(ByLastRun)>>,
              Cat(V, Y, E, F, G, U, I \cup {ByLastRun}),
              <<DropIndex(ByLastRun.name), DropTableOnly("specialist_cache")>>)
  BY <1>2, <1>6, TwoSteps
<1> QED
  BY <1>3, <1>6, <1>7 DEF Upgrade_0007, Downgrade_0007, V

LEMMA Revision8 ==
  ASSUME NEW T, NEW Y, NEW E, NEW F, NEW G, NEW U, NEW I, Sound(T, Y, E, G, U, I),
         "report_critiques" \notin DOMAIN T, "tickers" \in DOMAIN T,
         "ix_report_critiques_symbol_created_at" \notin DOMAIN U,
         \A i \in I : i.name # "ix_report_critiques_symbol_created_at"
  PROVE  LET V == With(T, "report_critiques", report_critiques)
         IN  /\ Undoes(Cat(T, Y, E, F, G, U, I), Upgrade_0008,
                        Cat(V, Y, E, F, G, U, I \cup {ByCreation}), Downgrade_0008)
             /\ Sound(V, Y, E, G, U, I \cup {ByCreation})
<1> DEFINE V == With(T, "report_critiques", report_critiques)
<1>1. Fits(report_critiques, DOMAIN T, DOMAIN Y \cup E)
  BY DEF Fits, IsTable, report_critiques, OfTicker
<1>2. /\ Step(Cat(T, Y, E, F, G, U, I), CreateTable("report_critiques", report_critiques),
              DropTableOnly("report_critiques"), Cat(V, Y, E, F, G, U, I))
      /\ Sound(V, Y, E, G, U, I)
  BY <1>1, TableStep
<1>3. /\ ByCreation.name = "ix_report_critiques_symbol_created_at"
      /\ ByCreation.on = "report_critiques" /\ ByCreation.cols = {"symbol", "created_at"}
  BY DEF ByCreation, Index
<1>4. "report_critiques" \in DOMAIN V /\ V["report_critiques"] = report_critiques
  BY DEF With
<1>5. ByCreation.cols \subseteq V[ByCreation.on].cols
  <2>1. "symbol" \in report_critiques.cols /\ "created_at" \in report_critiques.cols
    BY DEF report_critiques
  <2> QED
    BY <1>3, <1>4, <2>1
<1> HIDE DEF V
<1>6. /\ Step(Cat(V, Y, E, F, G, U, I), CreateIndex(ByCreation), DropIndex(ByCreation.name),
              Cat(V, Y, E, F, G, U, I \cup {ByCreation}))
      /\ Sound(V, Y, E, G, U, I \cup {ByCreation})
  BY <1>2, <1>3, <1>4, <1>5, IndexStep
<1>7. Undoes(Cat(T, Y, E, F, G, U, I),
              <<CreateTable("report_critiques", report_critiques), CreateIndex(ByCreation)>>,
              Cat(V, Y, E, F, G, U, I \cup {ByCreation}),
              <<DropIndex(ByCreation.name), DropTableOnly("report_critiques")>>)
  BY <1>2, <1>6, TwoSteps
<1> QED
  BY <1>3, <1>6, <1>7 DEF Upgrade_0008, Downgrade_0008, V

LEMMA AddedColumns ==
  ASSUME NEW table, NEW cols, NEW X, cols \in Seq(X)
  PROVE  /\ IsScript(AddColumns(table, cols)) /\ Len(AddColumns(table, cols)) = Len(cols)
         /\ \A i \in 1 .. Len(cols) : AddColumns(table, cols)[i] = AddColumn(table, cols[i], {})
<1> DEFINE s == AddColumns(table, cols)
           n == Len(cols)
<1>1. DOMAIN cols = 1 .. n /\ n \in Nat
  OBVIOUS
<1> HIDE DEF n
<1>2. s = [i \in 1 .. n |-> AddColumn(table, cols[i], {})]
  BY <1>1 DEF AddColumns
<1> HIDE DEF s
<1>3. IsScript(s) /\ Len(s) = n
  BY <1>1, <1>2, EachIsScript
<1> QED
  BY <1>2, <1>3 DEF s, n

LEMMA DroppedColumns ==
  ASSUME NEW table, NEW cols, NEW X, cols \in Seq(X)
  PROVE  /\ IsScript(DropColumns(table, cols)) /\ Len(DropColumns(table, cols)) = Len(cols)
         /\ \A i \in 1 .. Len(cols) : DropColumns(table, cols)[i] = DropColumnOf(table, cols[i])
<1> DEFINE s == DropColumns(table, cols)
           n == Len(cols)
<1>1. DOMAIN cols = 1 .. n /\ n \in Nat
  OBVIOUS
<1> HIDE DEF n
<1>2. s = [i \in 1 .. n |-> DropColumnOf(table, cols[i])]
  BY <1>1 DEF DropColumns
<1> HIDE DEF s
<1>3. IsScript(s) /\ Len(s) = n
  BY <1>1, <1>2, EachIsScript
<1> QED
  BY <1>2, <1>3 DEF s, n

\* Script u is s, of length m, and then t, of length n.
Joins(u, s, t, m, n) ==
    /\ IsScript(u) /\ Len(u) = m + n
    /\ \A i \in 1 .. m : u[i] = s[i]
    /\ \A i \in 1 .. n : u[m + i] = t[i]

LEMMA Joined ==
  ASSUME NEW s, NEW t, NEW m, NEW n, IsScript(s), IsScript(t), Len(s) = m, Len(t) = n
  PROVE  Joins(s \o t, s, t, m, n)
  BY ScriptsConcatenate DEF Joins

LEMMA TwoIsScript ==
  ASSUME NEW a, NEW b
  PROVE  LET s == <<a, b>> IN IsScript(s) /\ Len(s) = 2 /\ s[1] = a /\ s[2] = b
<1>1. <<a, b>> \in Seq({a, b})
  OBVIOUS
<1> QED
  BY <1>1, SequencesAreScripts

LEMMA Revision6 ==
  ASSUME NEW T, NEW Y, NEW E, NEW F, NEW G, NEW U, NEW I, Sound(T, Y, E, G, U, I),
         "analyses" \in DOMAIN T,
         {"idempotency_key", "correlation_id"} \cap T["analyses"].cols = {},
         {"ix_analyses_idempotency_key", "ix_analyses_correlation_id"} \cap DOMAIN U = {},
         \A i \in I : i.name \notin {"ix_analyses_idempotency_key", "ix_analyses_correlation_id"}
  PROVE  LET V == Wider(T, "analyses", "idempotency_key", {})
             W == Wider(V, "analyses", "correlation_id", {})
             Q == With(U, "ix_analyses_idempotency_key", ByKey)
         IN  /\ Undoes(Cat(T, Y, E, F, G, U, I), Upgrade_0006,
                        Cat(W, Y, E, F, G, Q, I \cup {ByCorrelation}), Downgrade_0006)
             /\ Sound(W, Y, E, G, Q, I \cup {ByCorrelation})
<1> DEFINE V == Wider(T, "analyses", "idempotency_key", {})
           W == Wider(V, "analyses", "correlation_id", {})
           Q == With(U, "ix_analyses_idempotency_key", ByKey)
           J == I \cup {ByCorrelation}
           c0 == Cat(T, Y, E, F, G, U, I)
           c1 == Cat(V, Y, E, F, G, U, I)
           c2 == Cat(W, Y, E, F, G, U, I)
           c3 == Cat(W, Y, E, F, G, Q, I)
           c4 == Cat(W, Y, E, F, G, Q, J)
<1>1. /\ ByKey.name = "ix_analyses_idempotency_key" /\ ByKey.on = "analyses"
      /\ ByKey.cols = {"idempotency_key"}
      /\ ByCorrelation.name = "ix_analyses_correlation_id" /\ ByCorrelation.on = "analyses"
      /\ ByCorrelation.cols = {"correlation_id"}
  BY DEF ByKey, ByCorrelation, Index
<1>2. /\ Step(c0, AddColumn("analyses", "idempotency_key", {}),
              DropColumnOf("analyses", "idempotency_key"), c1)
      /\ Sound(V, Y, E, G, U, I) /\ DOMAIN V = DOMAIN T
      /\ V["analyses"].cols = T["analyses"].cols \cup {"idempotency_key"}
  <2>1. /\ "idempotency_key" \notin T["analyses"].cols
        /\ \A z \in {} : z[1] = "idempotency_key" /\ z[2] \in DOMAIN Y \cup E
    OBVIOUS
  <2> QED
    BY <2>1, ColumnStep
<1> HIDE DEF V
<1>3. /\ Step(c1, AddColumn("analyses", "correlation_id", {}),
              DropColumnOf("analyses", "correlation_id"), c2)
      /\ Sound(W, Y, E, G, U, I) /\ DOMAIN W = DOMAIN V
      /\ W["analyses"].cols = V["analyses"].cols \cup {"correlation_id"}
  BY <1>2, ColumnStep
<1> HIDE DEF W
<1>4. /\ Step(c2, CreateUniqueIndex(ByKey), DropIndex(ByKey.name), c3)
      /\ Sound(W, Y, E, G, Q, I)
  BY <1>1, <1>2, <1>3, IndexStep
<1>5. DOMAIN Q = DOMAIN U \cup {"ix_analyses_idempotency_key"}
  BY DEF With
<1> HIDE DEF Q
<1>6. /\ Step(c3, CreateIndex(ByCorrelation), DropIndex(ByCorrelation.name), c4)
      /\ Sound(W, Y, E, G, Q, J)
  BY <1>1, <1>2, <1>3, <1>4, <1>5, IndexStep
<1> HIDE DEF c0, c1, c2, c3, c4, J
<1> DEFINE k == [i \in 0 .. 4 |-> <<c0, c1, c2, c3, c4>>[i + 1]]
<1>7. k[0] = c0 /\ k[1] = c1 /\ k[2] = c2 /\ k[3] = c3 /\ k[4] = c4
  OBVIOUS
<1> HIDE DEF k
<1> DEFINE a == AddColumns("analyses", <<"idempotency_key", "correlation_id">>)
           b == <<CreateUniqueIndex(ByKey), CreateIndex(ByCorrelation)>>
           x == <<DropIndex("ix_analyses_correlation_id"), DropIndex("ix_analyses_idempotency_key")>>
           y == DropColumns("analyses", <<"correlation_id", "idempotency_key">>)
           up == a \o b
           down == x \o y
<1>8. /\ IsScript(a) /\ Len(a) = 2
       /\ a[1] = AddColumn("analyses", "idempotency_key", {})
       /\ a[2] = AddColumn("analyses", "correlation_id", {})
       /\ IsScript(y) /\ Len(y) = 2
       /\ y[1] = DropColumnOf("analyses", "correlation_id")
       /\ y[2] = DropColumnOf("analyses", "idempotency_key")
       /\ IsScript(b) /\ Len(b) = 2
       /\ b[1] = CreateUniqueIndex(ByKey) /\ b[2] = CreateIndex(ByCorrelation)
       /\ IsScript(x) /\ Len(x) = 2
       /\ x[1] = DropIndex(ByCorrelation.name) /\ x[2] = DropIndex(ByKey.name)
  <2>1. IsScript(a) /\ Len(a) = 2 /\ IsScript(y) /\ Len(y) = 2
    <3> DEFINE added == <<"idempotency_key", "correlation_id">>
               dropped == <<"correlation_id", "idempotency_key">>
    <3>1. /\ added \in Seq({"idempotency_key", "correlation_id"}) /\ Len(added) = 2
          /\ dropped \in Seq({"idempotency_key", "correlation_id"}) /\ Len(dropped) = 2
      OBVIOUS
    <3> HIDE DEF added, dropped
    <3> QED
      BY <3>1, AddedColumns, DroppedColumns DEF added, dropped
  <2>2. /\ a[1] = AddColumn("analyses", "idempotency_key", {})
        /\ a[2] = AddColumn("analyses", "correlation_id", {})
    BY DEF AddColumns
  <2>3. /\ y[1] = DropColumnOf("analyses", "correlation_id")
        /\ y[2] = DropColumnOf("analyses", "idempotency_key")
    BY DEF DropColumns
  <2>4. /\ IsScript(b) /\ Len(b) = 2
        /\ b[1] = CreateUniqueIndex(ByKey) /\ b[2] = CreateIndex(ByCorrelation)
    BY TwoIsScript
  <2>5. /\ IsScript(x) /\ Len(x) = 2
        /\ x[1] = DropIndex(ByCorrelation.name) /\ x[2] = DropIndex(ByKey.name)
    BY <1>1, TwoIsScript
  <2> QED
    BY <2>1, <2>2, <2>3, <2>4, <2>5
<1> HIDE DEF a, b, x, y
<1>9. Joins(up, a, b, 2, 2) /\ Joins(down, x, y, 2, 2)
  BY <1>8, Joined, Zenon
<1> HIDE DEF up, down
<1>10. IsScript(up) /\ Len(up) = 4 /\ IsScript(down) /\ Len(down) = 4
  BY <1>9 DEF Joins
<1>11. /\ up[1] = a[1] /\ up[2] = a[2] /\ up[3] = b[1] /\ up[4] = b[2]
       /\ down[1] = x[1] /\ down[2] = x[2] /\ down[3] = y[1] /\ down[4] = y[2]
  <2>1. 1 \in 1 .. 2 /\ 2 \in 1 .. 2 /\ 2 + 1 = 3 /\ 2 + 2 = 4
    OBVIOUS
  <2> QED
    BY <1>9, <2>1 DEF Joins
<1> HIDE DEF up, down
<1>12. ASSUME NEW i \in 1 .. 4
       PROVE  Step(k[i - 1], up[i], down[4 + 1 - i], k[i])
  <2>1. Step(k[1 - 1], up[1], down[4 + 1 - 1], k[1])
    <3>1. 1 - 1 = 0 /\ 4 + 1 - 1 = 4
      OBVIOUS
    <3> QED
      BY <3>1, <1>8, <1>2, <1>7, <1>11
  <2>2. Step(k[2 - 1], up[2], down[4 + 1 - 2], k[2])
    <3>1. 2 - 1 = 1 /\ 4 + 1 - 2 = 3
      OBVIOUS
    <3> QED
      BY <3>1, <1>8, <1>3, <1>7, <1>11
  <2>3. Step(k[3 - 1], up[3], down[4 + 1 - 3], k[3])
    <3>1. 3 - 1 = 2 /\ 4 + 1 - 3 = 2
      OBVIOUS
    <3> QED
      BY <3>1, <1>8, <1>4, <1>7, <1>11
  <2>4. Step(k[4 - 1], up[4], down[4 + 1 - 4], k[4])
    <3>1. 4 - 1 = 3 /\ 4 + 1 - 4 = 1
      OBVIOUS
    <3> QED
      BY <3>1, <1>8, <1>6, <1>7, <1>11
  <2>5. i = 1 \/ i = 2 \/ i = 3 \/ i = 4
    OBVIOUS
  <2> QED
    BY <2>1, <2>2, <2>3, <2>4, <2>5
<1>13. Undoing(k, 4, up, down)
  BY <1>10, <1>11, <1>12 DEF Undoing
<1>14. Undoes(k[0], up, k[4], down)
  BY <1>13, StepsInvert
<1> QED
  BY <1>6, <1>7, <1>14 DEF c0, c4, V, W, Q, J, up, down, a, b, x, y, Upgrade_0006, Downgrade_0006

LEMMA Revision5 ==
  ASSUME NEW T, NEW Y, NEW E, NEW F, NEW G, NEW U, NEW I, Sound(T, Y, E, G, U, I),
         "analyses" \in DOMAIN T, "analysis_outcomes" \notin DOMAIN T,
         "action_taken" \notin DOMAIN Y \cup E,
         {"action_taken", "action_size_usd", "action_price", "action_at",
          "action_notes", "prompt_versions_json"} \cap T["analyses"].cols = {},
         "ix_analyses_action_taken" \notin DOMAIN U,
         \A i \in I : i.name # "ix_analyses_action_taken"
  PROVE  LET Z == With(Y, "action_taken", ACTION_TAKEN_VALUES)
             V1 == Wider(T, "analyses", "action_taken", {<<"action_taken", "action_taken">>})
             V2 == Wider(V1, "analyses", "action_size_usd", {})
             V3 == Wider(V2, "analyses", "action_price", {})
             V4 == Wider(V3, "analyses", "action_at", {})
             V5 == Wider(V4, "analyses", "action_notes", {})
             V6 == Wider(V5, "analyses", "prompt_versions_json", {})
             X == With(V6, "analysis_outcomes", analysis_outcomes)
         IN  /\ Undoes(Cat(T, Y, E, F, G, U, I), Upgrade_0005,
                        Cat(X, Z, E, F, G, U, I \cup {ByAction}), Downgrade_0005)
             /\ Sound(X, Z, E, G, U, I \cup {ByAction})
<1> DEFINE Z == With(Y, "action_taken", ACTION_TAKEN_VALUES)
           V1 == Wider(T, "analyses", "action_taken", {<<"action_taken", "action_taken">>})
           V2 == Wider(V1, "analyses", "action_size_usd", {})
           V3 == Wider(V2, "analyses", "action_price", {})
           V4 == Wider(V3, "analyses", "action_at", {})
           V5 == Wider(V4, "analyses", "action_notes", {})
           V6 == Wider(V5, "analyses", "prompt_versions_json", {})
           X == With(V6, "analysis_outcomes", analysis_outcomes)
           J == I \cup {ByAction}
           c0 == Cat(T, Y, E, F, G, U, I)
           c1 == Cat(T, Z, E, F, G, U, I)
           c2 == Cat(V1, Z, E, F, G, U, I)
           c3 == Cat(V2, Z, E, F, G, U, I)
           c4 == Cat(V3, Z, E, F, G, U, I)
           c5 == Cat(V4, Z, E, F, G, U, I)
           c6 == Cat(V5, Z, E, F, G, U, I)
           c7 == Cat(V6, Z, E, F, G, U, I)
           c8 == Cat(V6, Z, E, F, G, U, J)
           c9 == Cat(X, Z, E, F, G, U, J)
<1>1. /\ ByAction.name = "ix_analyses_action_taken" /\ ByAction.on = "analyses"
      /\ ByAction.cols = {"action_taken"}
  BY DEF ByAction, Index
<1>2. /\ Step(c0, CreateType("action_taken", ACTION_TAKEN_VALUES), DropType("action_taken"), c1)
      /\ Sound(T, Z, E, G, U, I)
  BY TypeStep
<1>3. DOMAIN Z = DOMAIN Y \cup {"action_taken"}
  BY DEF With
<1> HIDE DEF Z
<1>4. /\ \A y \in {<<"action_taken", "action_taken">>} :
            y[1] = "action_taken" /\ y[2] \in DOMAIN Z \cup E
      /\ "action_taken" \notin T["analyses"].cols
  BY <1>3
<1>5. /\ Step(c1, AddColumn("analyses", "action_taken", {<<"action_taken", "action_taken">>}),
              DropColumnOf("analyses", "action_taken"), c2)
      /\ Sound(V1, Z, E, G, U, I) /\ DOMAIN V1 = DOMAIN T
      /\ V1["analyses"].cols = T["analyses"].cols \cup {"action_taken"}
  BY <1>2, <1>4, ColumnStep
<1> HIDE DEF V1
<1>6. /\ Step(c2, AddColumn("analyses", "action_size_usd", {}),
              DropColumnOf("analyses", "action_size_usd"), c3)
      /\ Sound(V2, Z, E, G, U, I) /\ DOMAIN V2 = DOMAIN V1
      /\ V2["analyses"].cols = V1["analyses"].cols \cup {"action_size_usd"}
  <2>1. "analyses" \in DOMAIN V1 /\ "action_size_usd" \notin V1["analyses"].cols
    BY <1>5
  <2> QED
    BY <1>5, <2>1, ColumnStep
<1> HIDE DEF V2
<1>7. /\ Step(c3, AddColumn("analyses", "action_price", {}),
              DropColumnOf("analyses", "action_price"), c4)
      /\ Sound(V3, Z, E, G, U, I) /\ DOMAIN V3 = DOMAIN V2
      /\ V3["analyses"].cols = V2["analyses"].cols \cup {"action_price"}
  <2>1. "analyses" \in DOMAIN V2 /\ "action_price" \notin V2["analyses"].cols
    BY <1>5, <1>6
  <2> QED
    BY <1>6, <2>1, ColumnStep
<1> HIDE DEF V3
<1>8. /\ Step(c4, AddColumn("analyses", "action_at", {}),
              DropColumnOf("analyses", "action_at"), c5)
      /\ Sound(V4, Z, E, G, U, I) /\ DOMAIN V4 = DOMAIN V3
      /\ V4["analyses"].cols = V3["analyses"].cols \cup {"action_at"}
  <2>1. "analyses" \in DOMAIN V3 /\ "action_at" \notin V3["analyses"].cols
    BY <1>5, <1>6, <1>7
  <2> QED
    BY <1>7, <2>1, ColumnStep
<1> HIDE DEF V4
<1>9. /\ Step(c5, AddColumn("analyses", "action_notes", {}),
              DropColumnOf("analyses", "action_notes"), c6)
      /\ Sound(V5, Z, E, G, U, I) /\ DOMAIN V5 = DOMAIN V4
      /\ V5["analyses"].cols = V4["analyses"].cols \cup {"action_notes"}
  <2>1. "analyses" \in DOMAIN V4 /\ "action_notes" \notin V4["analyses"].cols
    BY <1>5, <1>6, <1>7, <1>8
  <2> QED
    BY <1>8, <2>1, ColumnStep
<1> HIDE DEF V5
<1>10. /\ Step(c6, AddColumn("analyses", "prompt_versions_json", {}),
              DropColumnOf("analyses", "prompt_versions_json"), c7)
      /\ Sound(V6, Z, E, G, U, I) /\ DOMAIN V6 = DOMAIN V5
      /\ V6["analyses"].cols = V5["analyses"].cols \cup {"prompt_versions_json"}
  <2>1. "analyses" \in DOMAIN V5 /\ "prompt_versions_json" \notin V5["analyses"].cols
    BY <1>5, <1>6, <1>7, <1>8, <1>9
  <2> QED
    BY <1>9, <2>1, ColumnStep
<1> HIDE DEF V6
<1>11. ByAction.on \in DOMAIN V6 /\ ByAction.cols \subseteq V6[ByAction.on].cols
  BY <1>1, <1>5, <1>6, <1>7, <1>8, <1>9, <1>10
<1>12. /\ Step(c7, CreateIndex(ByAction), DropIndex(ByAction.name), c8)
       /\ Sound(V6, Z, E, G, U, J)
  BY <1>1, <1>10, <1>11, IndexStep
<1>13. "analyses" \in DOMAIN V6 /\ "analysis_outcomes" \notin DOMAIN V6
  BY <1>5, <1>6, <1>7, <1>8, <1>9, <1>10
<1>14. Fits(analysis_outcomes, DOMAIN V6, DOMAIN Z \cup E)
  BY <1>13 DEF Fits, IsTable, analysis_outcomes
<1> HIDE DEF J
<1>15. /\ Step(c8, CreateTable("analysis_outcomes", analysis_outcomes),
               DropTableOnly("analysis_outcomes"), c9)
       /\ Sound(X, Z, E, G, U, J)
  BY <1>12, <1>13, <1>14, TableStep
<1> HIDE DEF X, c0, c1, c2, c3, c4, c5, c6, c7, c8, c9
<1> DEFINE k == [i \in 0 .. 9 |-> <<c0, c1, c2, c3, c4, c5, c6, c7, c8, c9>>[i + 1]]
<1>16. /\ k[0] = c0 /\ k[1] = c1 /\ k[2] = c2 /\ k[3] = c3 /\ k[4] = c4
      /\ k[5] = c5 /\ k[6] = c6 /\ k[7] = c7 /\ k[8] = c8 /\ k[9] = c9
  OBVIOUS
<1> HIDE DEF k
<1> DEFINE a == <<CreateType("action_taken", ACTION_TAKEN_VALUES),
                 AddColumn("analyses", "action_taken", {<<"action_taken", "action_taken">>})>>
           b == AddColumns("analyses", <<"action_size_usd", "action_price", "action_at", "action_notes",
                                         "prompt_versions_json">>)
           c == <<CreateIndex(ByAction), CreateTable("analysis_outcomes", analysis_outcomes)>>
           x == <<DropTableOnly("analysis_outcomes"), DropIndex("ix_analyses_action_taken")>>
           y == DropColumns("analyses", <<"prompt_versions_json", "action_notes", "action_at", "action_price",
                                          "action_size_usd", "action_taken">>)
           z == <<DropType("action_taken")>>
           ab == a \o b
           xy == x \o y
           up == ab \o c
           down == xy \o z
<1>17. /\ IsScript(a) /\ Len(a) = 2 /\ a[1] = CreateType("action_taken", ACTION_TAKEN_VALUES)
       /\ a[2] = AddColumn("analyses", "action_taken", {<<"action_taken", "action_taken">>})
       /\ IsScript(b) /\ Len(b) = 5
       /\ b[1] = AddColumn("analyses", "action_size_usd", {})
       /\ b[2] = AddColumn("analyses", "action_price", {})
       /\ b[3] = AddColumn("analyses", "action_at", {})
       /\ b[4] = AddColumn("analyses", "action_notes", {})
       /\ b[5] = AddColumn("analyses", "prompt_versions_json", {})
       /\ IsScript(c) /\ Len(c) = 2
       /\ c[1] = CreateIndex(ByAction)
       /\ c[2] = CreateTable("analysis_outcomes", analysis_outcomes)
       /\ IsScript(x) /\ Len(x) = 2
       /\ x[1] = DropTableOnly("analysis_outcomes") /\ x[2] = DropIndex(ByAction.name)
       /\ IsScript(y) /\ Len(y) = 6
       /\ y[1] = DropColumnOf("analyses", "prompt_versions_json")
       /\ y[2] = DropColumnOf("analyses", "action_notes")
       /\ y[3] = DropColumnOf("analyses", "action_at")
       /\ y[4] = DropColumnOf("analyses", "action_price")
       /\ y[5] = DropColumnOf("analyses", "action_size_usd")
       /\ y[6] = DropColumnOf("analyses", "action_taken")
       /\ IsScript(z) /\ Len(z) = 1 /\ z[1] = DropType("action_taken")
  <2>1. IsScript(b) /\ Len(b) = 5 /\ IsScript(y) /\ Len(y) = 6
    <3> DEFINE added == <<"action_size_usd", "action_price", "action_at", "action_notes",
                          "prompt_versions_json">>
               dropped == <<"prompt_versions_json", "action_notes", "action_at", "action_price",
                            "action_size_usd", "action_taken">>
               names == {"action_taken", "action_size_usd", "action_price", "action_at",
                         "action_notes", "prompt_versions_json"}
    <3>1. /\ added \in Seq(names) /\ Len(added) = 5
          /\ dropped \in Seq(names) /\ Len(dropped) = 6
      OBVIOUS
    <3> HIDE DEF added, dropped, names
    <3> QED
      BY <3>1, AddedColumns, DroppedColumns DEF added, dropped
  <2>2. /\ b[1] = AddColumn("analyses", "action_size_usd", {})
        /\ b[2] = AddColumn("analyses", "action_price", {})
        /\ b[3] = AddColumn("analyses", "action_at", {})
        /\ b[4] = AddColumn("analyses", "action_notes", {})
        /\ b[5] = AddColumn("analyses", "prompt_versions_json", {})
    BY DEF AddColumns
  <2>3. /\ y[1] = DropColumnOf("analyses", "prompt_versions_json")
        /\ y[2] = DropColumnOf("analyses", "action_notes")
        /\ y[3] = DropColumnOf("analyses", "action_at")
        /\ y[4] = DropColumnOf("analyses", "action_price")
        /\ y[5] = DropColumnOf("analyses", "action_size_usd")
        /\ y[6] = DropColumnOf("analyses", "action_taken")
    BY DEF DropColumns
  <2>4. /\ IsScript(a) /\ Len(a) = 2 /\ a[1] = CreateType("action_taken", ACTION_TAKEN_VALUES)
        /\ a[2] = AddColumn("analyses", "action_taken", {<<"action_taken", "action_taken">>})
    BY TwoIsScript
  <2>5. /\ IsScript(c) /\ Len(c) = 2
        /\ c[1] = CreateIndex(ByAction)
        /\ c[2] = CreateTable("analysis_outcomes", analysis_outcomes)
    BY TwoIsScript
  <2>6. /\ IsScript(x) /\ Len(x) = 2
        /\ x[1] = DropTableOnly("analysis_outcomes") /\ x[2] = DropIndex(ByAction.name)
    BY <1>1, TwoIsScript
  <2>7. IsScript(z) /\ Len(z) = 1 /\ z[1] = DropType("action_taken")
    <3>1. z \in Seq({DropType("action_taken")}) /\ Len(z) = 1 /\ z[1] = DropType("action_taken")
      OBVIOUS
    <3> QED
      BY <3>1, SequencesAreScripts
  <2> QED
    BY <2>1, <2>2, <2>3, <2>4, <2>5, <2>6, <2>7
<1> HIDE DEF a, b, c, x, y, z
<1>18. Joins(ab, a, b, 2, 5) /\ Joins(xy, x, y, 2, 6)
  BY <1>17, Joined, Zenon
<1> HIDE DEF ab, xy
<1>19. IsScript(ab) /\ Len(ab) = 7 /\ IsScript(xy) /\ Len(xy) = 8
  BY <1>18 DEF Joins
<1>20. Joins(up, ab, c, 7, 2) /\ Joins(down, xy, z, 8, 1)
  BY <1>17, <1>19, Joined, Zenon
<1> HIDE DEF up, down
<1>21. IsScript(up) /\ Len(up) = 9 /\ IsScript(down) /\ Len(down) = 9
  BY <1>20 DEF Joins
<1>22. /\ \A i \in 1 .. 7 : up[i] = ab[i]
       /\ up[7 + 1] = c[1] /\ up[7 + 2] = c[2]
       /\ \A i \in 1 .. 8 : down[i] = xy[i]
       /\ down[8 + 1] = z[1]
  BY <1>20 DEF Joins
<1>23. /\ ab[1] = a[1] /\ ab[2] = a[2] /\ \A i \in 1 .. 5 : ab[2 + i] = b[i]
       /\ xy[1] = x[1] /\ xy[2] = x[2] /\ \A i \in 1 .. 6 : xy[2 + i] = y[i]
  BY <1>18 DEF Joins
<1>24. /\ ab[3] = b[1] /\ ab[4] = b[2] /\ ab[5] = b[3] /\ ab[6] = b[4] /\ ab[7] = b[5]
       /\ xy[3] = y[1] /\ xy[4] = y[2] /\ xy[5] = y[3] /\ xy[6] = y[4] /\ xy[7] = y[5]
       /\ xy[8] = y[6]
  <2>1. /\ 2 + 1 = 3 /\ 2 + 2 = 4 /\ 2 + 3 = 5 /\ 2 + 4 = 6 /\ 2 + 5 = 7 /\ 2 + 6 = 8
        /\ \A i \in {1, 2, 3, 4, 5} : i \in 1 .. 5
        /\ \A i \in {1, 2, 3, 4, 5, 6} : i \in 1 .. 6
    OBVIOUS
  <2> QED
    BY <1>23, <2>1
<1>25. /\ up[1] = a[1] /\ up[2] = a[2] /\ up[3] = b[1] /\ up[4] = b[2] /\ up[5] = b[3]
       /\ up[6] = b[4] /\ up[7] = b[5] /\ up[8] = c[1] /\ up[9] = c[2]
       /\ down[1] = x[1] /\ down[2] = x[2] /\ down[3] = y[1] /\ down[4] = y[2]
       /\ down[5] = y[3] /\ down[6] = y[4] /\ down[7] = y[5] /\ down[8] = y[6]
       /\ down[9] = z[1]
  <2>1. 7 + 1 = 8 /\ 7 + 2 = 9 /\ 8 + 1 = 9
    OBVIOUS
  <2> QED
    BY <1>22, <1>23, <1>24, <2>1
<1>26. ASSUME NEW i \in 1 .. 9
       PROVE  Step(k[i - 1], up[i], down[9 + 1 - i], k[i])
  <2>1. Step(k[1 - 1], up[1], down[9 + 1 - 1], k[1])
    <3>1. 1 - 1 = 0 /\ 9 + 1 - 1 = 9
      OBVIOUS
    <3> QED
      BY <3>1, <1>17, <1>2, <1>16, <1>25
  <2>2. Step(k[2 - 1], up[2], down[9 + 1 - 2], k[2])
    <3>1. 2 - 1 = 1 /\ 9 + 1 - 2 = 8
      OBVIOUS
    <3> QED
      BY <3>1, <1>17, <1>5, <1>16, <1>25
  <2>3. Step(k[3 - 1], up[3], down[9 + 1 - 3], k[3])
    <3>1. 3 - 1 = 2 /\ 9 + 1 - 3 = 7
      OBVIOUS
    <3> QED
      BY <3>1, <1>17, <1>6, <1>16, <1>25
  <2>4. Step(k[4 - 1], up[4], down[9 + 1 - 4], k[4])
    <3>1. 4 - 1 = 3 /\ 9 + 1 - 4 = 6
      OBVIOUS
    <3> QED
      BY <3>1, <1>17, <1>7, <1>16, <1>25
  <2>5. Step(k[5 - 1], up[5], down[9 + 1 - 5], k[5])
    <3>1. 5 - 1 = 4 /\ 9 + 1 - 5 = 5
      OBVIOUS
    <3> QED
      BY <3>1, <1>17, <1>8, <1>16, <1>25
  <2>6. Step(k[6 - 1], up[6], down[9 + 1 - 6], k[6])
    <3>1. 6 - 1 = 5 /\ 9 + 1 - 6 = 4
      OBVIOUS
    <3> QED
      BY <3>1, <1>17, <1>9, <1>16, <1>25
  <2>7. Step(k[7 - 1], up[7], down[9 + 1 - 7], k[7])
    <3>1. 7 - 1 = 6 /\ 9 + 1 - 7 = 3
      OBVIOUS
    <3> QED
      BY <3>1, <1>17, <1>10, <1>16, <1>25
  <2>8. Step(k[8 - 1], up[8], down[9 + 1 - 8], k[8])
    <3>1. 8 - 1 = 7 /\ 9 + 1 - 8 = 2
      OBVIOUS
    <3> QED
      BY <3>1, <1>17, <1>12, <1>16, <1>25
  <2>9. Step(k[9 - 1], up[9], down[9 + 1 - 9], k[9])
    <3>1. 9 - 1 = 8 /\ 9 + 1 - 9 = 1
      OBVIOUS
    <3> QED
      BY <3>1, <1>17, <1>15, <1>16, <1>25
  <2>10. i = 1 \/ i = 2 \/ i = 3 \/ i = 4 \/ i = 5 \/ i = 6 \/ i = 7 \/ i = 8 \/ i = 9
    OBVIOUS
  <2> QED
    BY <2>1, <2>2, <2>3, <2>4, <2>5, <2>6, <2>7, <2>8, <2>9, <2>10
<1>27. Undoing(k, 9, up, down)
  BY <1>21, <1>25, <1>26 DEF Undoing
<1>28. Undoes(k[0], up, k[9], down)
  BY <1>27, StepsInvert
<1> QED
  BY <1>15, <1>16, <1>28
     DEF c0, c9, Z, V1, V2, V3, V4, V5, V6, X, J, up, down, ab, xy, a, b, c, x, y, z,
         Upgrade_0005, Downgrade_0005

-----------------------------------------------------------------------------
(* The first tables                                                        *)

\* What f says of the first i names.
Prefix(f, names, i) == [x \in {names[j] : j \in 1 .. i} |-> f[x]]

\* The names are n different ones.
Different(names, n) ==
    /\ n \in Nat /\ Len(names) = n /\ DOMAIN names = 1 .. n
    /\ \A i, j \in 1 .. n : names[i] = names[j] => i = j

LEMMA EmptyIsFcn == /\ IsFcn(<<>>) /\ DOMAIN <<>> = {} /\ <<>> \o <<>> = <<>>
                    /\ \A f : Restrict(f, {}) = <<>>
  BY DEF IsFcn, Restrict

LEMMA PrefixGrows ==
  ASSUME NEW f, NEW names, NEW n, Different(names, n)
  PROVE  /\ Prefix(f, names, 0) = <<>>
         /\ \A i \in 1 .. n :
               /\ names[i] \notin DOMAIN Prefix(f, names, i - 1)
               /\ With(Prefix(f, names, i - 1), names[i], f[names[i]]) = Prefix(f, names, i)
<1>1. Prefix(f, names, 0) = <<>>
  BY DEF Prefix
<1>2. ASSUME NEW i \in 1 .. n
      PROVE  /\ names[i] \notin DOMAIN Prefix(f, names, i - 1)
             /\ With(Prefix(f, names, i - 1), names[i], f[names[i]]) = Prefix(f, names, i)
  <2> DEFINE D == {names[j] : j \in 1 .. i - 1}
  <2>1. names[i] \notin D
    BY DEF Different
  <2>2. {names[j] : j \in 1 .. i} = D \cup {names[i]}
    <3>1. \A j \in 1 .. i : j = i \/ j \in 1 .. i - 1
      BY DEF Different
    <3>2. \A j \in 1 .. i - 1 : j \in 1 .. i
      BY DEF Different
    <3>3. i \in 1 .. i
      BY DEF Different
    <3> QED
      BY <3>1, <3>2, <3>3
  <2>3. Prefix(f, names, i - 1) = [x \in D |-> f[x]]
    BY DEF Prefix
  <2>4. Prefix(f, names, i) = [x \in D \cup {names[i]} |-> f[x]]
    BY <2>2 DEF Prefix
  <2> HIDE DEF D
  <2> QED
    BY <2>1, <2>3, <2>4 DEF With
<1> QED
  BY <1>1, <1>2

LEMMA TypesOrder == Different(TypesOf_0002, 8) /\ Prefix(ENUMS, TypesOf_0002, 8) = ENUMS
<1> DEFINE p == [market_cap_bucket |-> 1, form_type |-> 2, statement_type |-> 3, analysis_type |-> 4,
                 analysis_status |-> 5, analysis_recommendation |-> 6, confidence |-> 7,
                 specialist_name |-> 8]
           names == TypesOf_0002
<1>1. Len(names) = 8 /\ DOMAIN names = 1 .. 8
  BY DEF TypesOf_0002
<1>2. \A i \in 1 .. 8 : p[names[i]] = i
  BY DEF TypesOf_0002
<1>3. {names[j] : j \in 1 .. 8} = DOMAIN p
  BY DEF TypesOf_0002
<1>4. ENUMS = [x \in DOMAIN p |-> ENUMS[x]]
  BY DEF ENUMS
<1> HIDE DEF p, names
<1>5. Different(names, 8)
  BY <1>1, <1>2 DEF Different
<1> QED
  BY <1>3, <1>4, <1>5 DEF Prefix, names

LEMMA TablesOrder ==
  /\ Different(OrderOf_0002, 15)
  /\ Prefix(TablesOf_0002, OrderOf_0002, 15) = TablesOf_0002
  /\ DOMAIN TablesOf_0002 = {OrderOf_0002[j] : j \in 1 .. 15}
<1> DEFINE p == [tickers |-> 1, prices_daily |-> 2, prices_intraday |-> 3,
                 fundamentals_quarterly |-> 4, filings |-> 5, filing_chunks |-> 6,
                 macro_series |-> 7, news_items |-> 8, insider_transactions |-> 9,
                 institutional_holdings |-> 10, analyses |-> 11, analysis_specialist_outputs |-> 12,
                 watchlist |-> 13, positions |-> 14, agent_prompts |-> 15]
           names == OrderOf_0002
<1>1. Len(names) = 15 /\ DOMAIN names = 1 .. 15
  BY DEF OrderOf_0002
<1>2. \A i \in 1 .. 15 : p[names[i]] = i
  BY DEF OrderOf_0002
<1>3. {names[j] : j \in 1 .. 15} = DOMAIN p
  BY DEF OrderOf_0002
<1>4. TablesOf_0002 = [x \in DOMAIN p |-> TablesOf_0002[x]]
  BY DEF TablesOf_0002
<1> HIDE DEF p, names
<1>5. Different(names, 15)
  BY <1>1, <1>2 DEF Different
<1> QED
  BY <1>3, <1>4, <1>5 DEF Prefix, names

\* Each table refers to tables created before it, and to types there are.
LEMMA TablesFit ==
  ASSUME NEW known, DOMAIN ENUMS \cup {"vector"} \subseteq known, NEW i \in 1 .. 15
  PROVE  Fits(TablesOf_0002[OrderOf_0002[i]], {OrderOf_0002[j] : j \in 1 .. i - 1}, known)
<1>1. {"vector", "market_cap_bucket", "form_type", "statement_type", "analysis_type",
       "analysis_status", "analysis_recommendation", "confidence", "specialist_name"} \subseteq known
  BY DEF ENUMS
<1>2. CASE i = 1
  <2>1. TablesOf_0002[OrderOf_0002[i]] = tickers
    BY <1>2 DEF TablesOf_0002, OrderOf_0002
  <2>2. IsTable(tickers)
    BY DEF IsTable, tickers
  <2>3. \A y \in tickers.types : y[1] \in tickers.cols /\ y[2] \in known
    BY <1>1 DEF tickers
  <2>4. tickers.fks = {}
    BY DEF tickers
  <2> QED
    BY <2>1, <2>2, <2>3, <2>4 DEF Fits
<1>3. CASE i = 2
  <2>1. TablesOf_0002[OrderOf_0002[i]] = prices_daily
    BY <1>3 DEF TablesOf_0002, OrderOf_0002
  <2>2. IsTable(prices_daily)
    BY DEF IsTable, prices_daily
  <2>3. \A y \in prices_daily.types : y[1] \in prices_daily.cols /\ y[2] \in known
    BY <1>1 DEF prices_daily
  <2>4. \A k \in prices_daily.fks : k[2] = "tickers"
    BY DEF prices_daily, OfTicker
  <2>5. 1 \in 1 .. i - 1 /\ OrderOf_0002[1] = "tickers"
    BY <1>3 DEF OrderOf_0002
  <2> QED
    BY <2>1, <2>2, <2>3, <2>4, <2>5 DEF Fits
<1>4. CASE i = 3
  <2>1. TablesOf_0002[OrderOf_0002[i]] = prices_intraday
    BY <1>4 DEF TablesOf_0002, OrderOf_0002
  <2>2. IsTable(prices_intraday)
    BY DEF IsTable, prices_intraday
  <2>3. \A y \in prices_intraday.types : y[1] \in prices_intraday.cols /\ y[2] \in known
    BY <1>1 DEF prices_intraday
  <2>4. \A k \in prices_intraday.fks : k[2] = "tickers"
    BY DEF prices_intraday, OfTicker
  <2>5. 1 \in 1 .. i - 1 /\ OrderOf_0002[1] = "tickers"
    BY <1>4 DEF OrderOf_0002
  <2> QED
    BY <2>1, <2>2, <2>3, <2>4, <2>5 DEF Fits
<1>5. CASE i = 4
  <2>1. TablesOf_0002[OrderOf_0002[i]] = fundamentals_quarterly
    BY <1>5 DEF TablesOf_0002, OrderOf_0002
  <2>2. IsTable(fundamentals_quarterly)
    BY DEF IsTable, fundamentals_quarterly
  <2>3. \A y \in fundamentals_quarterly.types : y[1] \in fundamentals_quarterly.cols /\ y[2] \in known
    BY <1>1 DEF fundamentals_quarterly
  <2>4. \A k \in fundamentals_quarterly.fks : k[2] = "tickers"
    BY DEF fundamentals_quarterly, OfTicker
  <2>5. 1 \in 1 .. i - 1 /\ OrderOf_0002[1] = "tickers"
    BY <1>5 DEF OrderOf_0002
  <2> QED
    BY <2>1, <2>2, <2>3, <2>4, <2>5 DEF Fits
<1>6. CASE i = 5
  <2>1. TablesOf_0002[OrderOf_0002[i]] = filings
    BY <1>6 DEF TablesOf_0002, OrderOf_0002
  <2>2. IsTable(filings)
    BY DEF IsTable, filings
  <2>3. \A y \in filings.types : y[1] \in filings.cols /\ y[2] \in known
    BY <1>1 DEF filings
  <2>4. \A k \in filings.fks : k[2] = "tickers"
    BY DEF filings, OfTicker
  <2>5. 1 \in 1 .. i - 1 /\ OrderOf_0002[1] = "tickers"
    BY <1>6 DEF OrderOf_0002
  <2> QED
    BY <2>1, <2>2, <2>3, <2>4, <2>5 DEF Fits
<1>7. CASE i = 6
  <2>1. TablesOf_0002[OrderOf_0002[i]] = filing_chunks
    BY <1>7 DEF TablesOf_0002, OrderOf_0002
  <2>2. IsTable(filing_chunks)
    BY DEF IsTable, filing_chunks
  <2>3. \A y \in filing_chunks.types : y[1] \in filing_chunks.cols /\ y[2] \in known
    BY <1>1 DEF filing_chunks
  <2>4. \A k \in filing_chunks.fks : k[2] = "tickers" \/ k[2] = "filings"
    BY DEF filing_chunks, OfTicker
  <2>5. 1 \in 1 .. i - 1 /\ OrderOf_0002[1] = "tickers"
    BY <1>7 DEF OrderOf_0002
  <2>6. 5 \in 1 .. i - 1 /\ OrderOf_0002[5] = "filings"
    BY <1>7 DEF OrderOf_0002
  <2> QED
    BY <2>1, <2>2, <2>3, <2>4, <2>5, <2>6 DEF Fits
<1>8. CASE i = 7
  <2>1. TablesOf_0002[OrderOf_0002[i]] = macro_series
    BY <1>8 DEF TablesOf_0002, OrderOf_0002
  <2>2. IsTable(macro_series)
    BY DEF IsTable, macro_series
  <2>3. \A y \in macro_series.types : y[1] \in macro_series.cols /\ y[2] \in known
    BY <1>1 DEF macro_series
  <2>4. macro_series.fks = {}
    BY DEF macro_series
  <2> QED
    BY <2>1, <2>2, <2>3, <2>4 DEF Fits
<1>9. CASE i = 8
  <2>1. TablesOf_0002[OrderOf_0002[i]] = news_items
    BY <1>9 DEF TablesOf_0002, OrderOf_0002
  <2>2. IsTable(news_items)
    BY DEF IsTable, news_items
  <2>3. \A y \in news_items.types : y[1] \in news_items.cols /\ y[2] \in known
    BY <1>1 DEF news_items
  <2>4. news_items.fks = {}
    BY DEF news_items
  <2> QED
    BY <2>1, <2>2, <2>3, <2>4 DEF Fits
<1>10. CASE i = 9
  <2>1. TablesOf_0002[OrderOf_0002[i]] = insider_transactions
    BY <1>10 DEF TablesOf_0002, OrderOf_0002
  <2>2. IsTable(insider_transactions)
    BY DEF IsTable, insider_transactions
  <2>3. \A y \in insider_transactions.types : y[1] \in insider_transactions.cols /\ y[2] \in known
    BY <1>1 DEF insider_transactions
  <2>4. \A k \in insider_transactions.fks : k[2] = "tickers"
    BY DEF insider_transactions, OfTicker
  <2>5. 1 \in 1 .. i - 1 /\ OrderOf_0002[1] = "tickers"
    BY <1>10 DEF OrderOf_0002
  <2> QED
    BY <2>1, <2>2, <2>3, <2>4, <2>5 DEF Fits
<1>11. CASE i = 10
  <2>1. TablesOf_0002[OrderOf_0002[i]] = institutional_holdings
    BY <1>11 DEF TablesOf_0002, OrderOf_0002
  <2>2. IsTable(institutional_holdings)
    BY DEF IsTable, institutional_holdings
  <2>3. \A y \in institutional_holdings.types : y[1] \in institutional_holdings.cols /\ y[2] \in known
    BY <1>1 DEF institutional_holdings
  <2>4. \A k \in institutional_holdings.fks : k[2] = "tickers"
    BY DEF institutional_holdings, OfTicker
  <2>5. 1 \in 1 .. i - 1 /\ OrderOf_0002[1] = "tickers"
    BY <1>11 DEF OrderOf_0002
  <2> QED
    BY <2>1, <2>2, <2>3, <2>4, <2>5 DEF Fits
<1>12. CASE i = 11
  <2>1. TablesOf_0002[OrderOf_0002[i]] = analyses
    BY <1>12 DEF TablesOf_0002, OrderOf_0002
  <2>2. IsTable(analyses)
    BY DEF IsTable, analyses
  <2>3. \A y \in analyses.types : y[1] \in analyses.cols /\ y[2] \in known
    BY <1>1 DEF analyses
  <2>4. \A k \in analyses.fks : k[2] = "tickers"
    BY DEF analyses, OfTicker
  <2>5. 1 \in 1 .. i - 1 /\ OrderOf_0002[1] = "tickers"
    BY <1>12 DEF OrderOf_0002
  <2> QED
    BY <2>1, <2>2, <2>3, <2>4, <2>5 DEF Fits
<1>13. CASE i = 12
  <2>1. TablesOf_0002[OrderOf_0002[i]] = analysis_specialist_outputs
    BY <1>13 DEF TablesOf_0002, OrderOf_0002
  <2>2. IsTable(analysis_specialist_outputs)
    BY DEF IsTable, analysis_specialist_outputs
  <2>3. \A y \in analysis_specialist_outputs.types :
           y[1] \in analysis_specialist_outputs.cols /\ y[2] \in known
    BY <1>1 DEF analysis_specialist_outputs
  <2>4. \A k \in analysis_specialist_outputs.fks : k[2] = "analyses"
    BY DEF analysis_specialist_outputs, OfTicker
  <2>5. 11 \in 1 .. i - 1 /\ OrderOf_0002[11] = "analyses"
    BY <1>13 DEF OrderOf_0002
  <2> QED
    BY <2>1, <2>2, <2>3, <2>4, <2>5 DEF Fits
<1>14. CASE i = 13
  <2>1. TablesOf_0002[OrderOf_0002[i]] = watchlist
    BY <1>14 DEF TablesOf_0002, OrderOf_0002
  <2>2. IsTable(watchlist)
    BY DEF IsTable, watchlist
  <2>3. \A y \in watchlist.types : y[1] \in watchlist.cols /\ y[2] \in known
    BY <1>1 DEF watchlist
  <2>4. \A k \in watchlist.fks : k[2] = "tickers"
    BY DEF watchlist, OfTicker
  <2>5. 1 \in 1 .. i - 1 /\ OrderOf_0002[1] = "tickers"
    BY <1>14 DEF OrderOf_0002
  <2> QED
    BY <2>1, <2>2, <2>3, <2>4, <2>5 DEF Fits
<1>15. CASE i = 14
  <2>1. TablesOf_0002[OrderOf_0002[i]] = positions
    BY <1>15 DEF TablesOf_0002, OrderOf_0002
  <2>2. IsTable(positions)
    BY DEF IsTable, positions
  <2>3. \A y \in positions.types : y[1] \in positions.cols /\ y[2] \in known
    BY <1>1 DEF positions
  <2>4. \A k \in positions.fks : k[2] = "tickers"
    BY DEF positions, OfTicker
  <2>5. 1 \in 1 .. i - 1 /\ OrderOf_0002[1] = "tickers"
    BY <1>15 DEF OrderOf_0002
  <2> QED
    BY <2>1, <2>2, <2>3, <2>4, <2>5 DEF Fits
<1>16. CASE i = 15
  <2>1. TablesOf_0002[OrderOf_0002[i]] = agent_prompts
    BY <1>16 DEF TablesOf_0002, OrderOf_0002
  <2>2. IsTable(agent_prompts)
    BY DEF IsTable, agent_prompts
  <2>3. \A y \in agent_prompts.types : y[1] \in agent_prompts.cols /\ y[2] \in known
    BY <1>1 DEF agent_prompts
  <2>4. agent_prompts.fks = {}
    BY DEF agent_prompts
  <2> QED
    BY <2>1, <2>2, <2>3, <2>4 DEF Fits
<1> QED
  BY <1>2, <1>3, <1>4, <1>5, <1>6, <1>7, <1>8, <1>9, <1>10, <1>11, <1>12, <1>13, <1>14,
     <1>15, <1>16

LEMMA RunsExtensions ==
  ASSUME NEW T, NEW Y, NEW E, NEW F, NEW G, NEW U, NEW I
  PROVE  Runs(Cat(T, Y, E, F, G, U, I), Upgrade_0001,
              Cat(T, Y, E \cup {"vector", "pg_trgm", "uuid-ossp"}, F, G, U, I))
<1> DEFINE x == <<"vector", "pg_trgm", "uuid-ossp">>
           had(i) == E \cup {x[j] : j \in 1 .. i}
           g == [i \in 0 .. 3 |-> Cat(T, Y, had(i), F, G, U, I)]
           s == Upgrade_0001
<1>1. s = [i \in 1 .. 3 |-> CreateExtension(x[i])]
  BY DEF Upgrade_0001
<1>2. x[1] = "vector" /\ x[2] = "pg_trgm" /\ x[3] = "uuid-ossp"
  OBVIOUS
<1> HIDE DEF x, s
<1>3. had(0) = E /\ had(3) = E \cup {"vector", "pg_trgm", "uuid-ossp"}
  <2>1. \A j \in 1 .. 3 : j = 1 \/ j = 2 \/ j = 3
    OBVIOUS
  <2>2. {x[j] : j \in 1 .. 3} = {"vector", "pg_trgm", "uuid-ossp"}
    BY <1>2, <2>1
  <2>3. {x[j] : j \in 1 .. 0} = {}
    OBVIOUS
  <2> QED
    BY <2>2, <2>3
<1>4. ASSUME NEW i \in 1 .. 3
      PROVE  Accepts(g[i - 1], s[i]) /\ Effect(g[i - 1], s[i]) = g[i]
  <2>1. i - 1 \in 0 .. 3 /\ i \in 0 .. 3
    OBVIOUS
  <2>2. had(i - 1) \cup {x[i]} = had(i)
    <3>1. \A j \in 1 .. i : j = i \/ j \in 1 .. i - 1
      OBVIOUS
    <3>2. \A j \in 1 .. i - 1 : j \in 1 .. i
      OBVIOUS
    <3>3. i \in 1 .. i
      OBVIOUS
    <3> QED
      BY <3>1, <3>2, <3>3
  <2>3. g[i - 1] = Cat(T, Y, had(i - 1), F, G, U, I) /\ g[i] = Cat(T, Y, had(i), F, G, U, I)
    BY <2>1
  <2>4. s[i] = CreateExtension(x[i])
    BY <1>1
  <2> HIDE DEF g
  <2> DEFINE a == had(i - 1)
             b == had(i)
             n == x[i]
  <2>5. g[i - 1] = Cat(T, Y, a, F, G, U, I) /\ g[i] = Cat(T, Y, b, F, G, U, I)
        /\ a \cup {n} = b /\ s[i] = CreateExtension(n)
    BY <2>2, <2>3, <2>4
  <2> HIDE DEF a, b, n
  <2>6. /\ Accepts(Cat(T, Y, a, F, G, U, I), CreateExtension(n))
        /\ Effect(Cat(T, Y, a, F, G, U, I), CreateExtension(n)) = Cat(T, Y, a \cup {n}, F, G, U, I)
    BY CreateExtensionEffect
  <2> QED
    BY <2>5, <2>6
<1>5. g[0] = Cat(T, Y, had(0), F, G, U, I) /\ g[3] = Cat(T, Y, had(3), F, G, U, I)
  OBVIOUS
<1>6. s = [i \in 1 .. 3 |-> s[i]]
  BY <1>1
<1> HIDE DEF g, had
<1>7. Runs(g[0], s, g[3])
  BY <1>4, <1>6, RunsThrough
<1> QED
  BY <1>3, <1>5, <1>7 DEF s

\* Revision 2 creates its types, ...
LEMMA RunsCreateTypes ==
  ASSUME NEW E, NEW F, NEW G, NEW U, NEW I, DOMAIN ENUMS \cap E = {}
  PROVE  Runs(Cat(<<>>, <<>>, E, F, G, U, I), CreateTypes(ENUMS, TypesOf_0002),
              Cat(<<>>, ENUMS, E, F, G, U, I))
<1> DEFINE names == TypesOf_0002
           Y(i) == Prefix(ENUMS, names, i)
           g == [i \in 0 .. 8 |-> Cat(<<>>, Y(i), E, F, G, U, I)]
           s == CreateTypes(ENUMS, names)
<1>1. /\ Different(names, 8) /\ Y(0) = <<>> /\ Y(8) = ENUMS
      /\ \A i \in 1 .. 8 : names[i] \notin DOMAIN Y(i - 1)
                           /\ With(Y(i - 1), names[i], ENUMS[names[i]]) = Y(i)
  BY TypesOrder, PrefixGrows
<1>2. \A i \in 1 .. 8 : names[i] \notin E
  BY DEF TypesOf_0002, ENUMS
<1>3. s = [i \in 1 .. 8 |-> CreateType(names[i], ENUMS[names[i]])]
  BY <1>1 DEF CreateTypes, Different
<1>4. g[0] = Cat(<<>>, Y(0), E, F, G, U, I) /\ g[8] = Cat(<<>>, Y(8), E, F, G, U, I)
  OBVIOUS
<1>5. \A i \in 1 .. 8 : /\ g[i - 1] = Cat(<<>>, Y(i - 1), E, F, G, U, I)
                        /\ g[i] = Cat(<<>>, Y(i), E, F, G, U, I)
  OBVIOUS
<1> HIDE DEF names, Y, g, s
<1>6. ASSUME NEW i \in 1 .. 8
      PROVE  Accepts(g[i - 1], s[i]) /\ Effect(g[i - 1], s[i]) = g[i]
  <2> DEFINE a == Y(i - 1)
             n == names[i]
             l == ENUMS[names[i]]
  <2>1. /\ g[i - 1] = Cat(<<>>, a, E, F, G, U, I) /\ n \notin DOMAIN a \cup E
        /\ g[i] = Cat(<<>>, With(a, n, l), E, F, G, U, I)
        /\ s[i] = CreateType(n, l)
    BY <1>1, <1>2, <1>3, <1>5
  <2> HIDE DEF a, n, l
  <2>2. /\ Accepts(Cat(<<>>, a, E, F, G, U, I), CreateType(n, l))
        /\ Effect(Cat(<<>>, a, E, F, G, U, I), CreateType(n, l)) = Cat(<<>>, With(a, n, l), E, F, G, U, I)
    BY <2>1, CreateTypeEffect
  <2> QED
    BY <2>1, <2>2
<1>7. s = [i \in 1 .. 8 |-> s[i]]
  BY <1>3
<1>8. Runs(g[0], s, g[8])
  BY <1>6, <1>7, RunsThrough
<1> QED
  BY <1>1, <1>4, <1>8 DEF s, names

\* ... its tables, ...
LEMMA RunsCreateTables ==
  ASSUME NEW E, NEW F, NEW G, NEW U, NEW I, "vector" \in E
  PROVE  Runs(Cat(<<>>, ENUMS, E, F, G, U, I), CreateTables(TablesOf_0002, OrderOf_0002),
              Cat(TablesOf_0002, ENUMS, E, F, G, U, I))
<1> DEFINE names == OrderOf_0002
           T(i) == Prefix(TablesOf_0002, names, i)
           g == [i \in 0 .. 15 |-> Cat(T(i), ENUMS, E, F, G, U, I)]
           s == CreateTables(TablesOf_0002, names)
<1>1. /\ Different(names, 15) /\ T(0) = <<>> /\ T(15) = TablesOf_0002
      /\ \A i \in 1 .. 15 : names[i] \notin DOMAIN T(i - 1)
                            /\ With(T(i - 1), names[i], TablesOf_0002[names[i]]) = T(i)
  BY TablesOrder, PrefixGrows
<1>2. \A i \in 1 .. 15 : Fits(TablesOf_0002[names[i]], DOMAIN T(i - 1), DOMAIN ENUMS \cup E)
  <2> TAKE i \in 1 .. 15
  <2>1. DOMAIN T(i - 1) = {names[j] : j \in 1 .. i - 1}
    BY DEF Prefix
  <2>2. DOMAIN ENUMS \cup {"vector"} \subseteq DOMAIN ENUMS \cup E
    OBVIOUS
  <2>3. Fits(TablesOf_0002[names[i]], {names[j] : j \in 1 .. i - 1}, DOMAIN ENUMS \cup E)
    BY <2>2, TablesFit
  <2> HIDE DEF T, names
  <2> QED
    BY <2>1, <2>3
<1>3. s = [i \in 1 .. 15 |-> CreateTable(names[i], TablesOf_0002[names[i]])]
  BY <1>1 DEF CreateTables, Different
<1>4. g[0] = Cat(T(0), ENUMS, E, F, G, U, I) /\ g[15] = Cat(T(15), ENUMS, E, F, G, U, I)
  OBVIOUS
<1>5. \A i \in 1 .. 15 : /\ g[i - 1] = Cat(T(i - 1), ENUMS, E, F, G, U, I)
                         /\ g[i] = Cat(T(i), ENUMS, E, F, G, U, I)
  OBVIOUS
<1> HIDE DEF names, T, g, s
<1>6. ASSUME NEW i \in 1 .. 15
      PROVE  Accepts(g[i - 1], s[i]) /\ Effect(g[i - 1], s[i]) = g[i]
  <2> DEFINE a == T(i - 1)
             n == names[i]
             t == TablesOf_0002[names[i]]
  <2>1. /\ g[i - 1] = Cat(a, ENUMS, E, F, G, U, I) /\ n \notin DOMAIN a
        /\ Fits(t, DOMAIN a, DOMAIN ENUMS \cup E)
        /\ g[i] = Cat(With(a, n, t), ENUMS, E, F, G, U, I)
        /\ s[i] = CreateTable(n, t)
    BY <1>1, <1>2, <1>3, <1>5
  <2> HIDE DEF a, n, t
  <2>2. /\ Accepts(Cat(a, ENUMS, E, F, G, U, I), CreateTable(n, t))
        /\ Effect(Cat(a, ENUMS, E, F, G, U, I), CreateTable(n, t))
           = Cat(With(a, n, t), ENUMS, E, F, G, U, I)
    BY <2>1, CreateTableEffect DEF Fits
  <2> QED
    BY <2>1, <2>2
<1>7. s = [i \in 1 .. 15 |-> s[i]]
  BY <1>3
<1>8. Runs(g[0], s, g[15])
  BY <1>6, <1>7, RunsThrough
<1> QED
  BY <1>1, <1>4, <1>8 DEF s, names

\* ... and their triggers.
Triggered == {tables_with_updated_at[i] : i \in 1 .. 11}

LEMMA TriggersOrder ==
  /\ Different(tables_with_updated_at, 11)
  /\ \A i \in 1 .. 11 : tables_with_updated_at[i] \in DOMAIN TablesOf_0002
<1> DEFINE p == [tickers |-> 1, fundamentals_quarterly |-> 2, filings |-> 3, news_items |-> 4,
                 insider_transactions |-> 5, institutional_holdings |-> 6, analyses |-> 7,
                 analysis_specialist_outputs |-> 8, watchlist |-> 9, positions |-> 10,
                 agent_prompts |-> 11]
           names == tables_with_updated_at
<1>1. Len(names) = 11 /\ DOMAIN names = 1 .. 11
  BY DEF tables_with_updated_at
<1>2. \A i \in 1 .. 11 : p[names[i]] = i
  BY DEF tables_with_updated_at
<1>3. \A i \in 1 .. 11 : names[i] \in DOMAIN TablesOf_0002
  BY DEF tables_with_updated_at, TablesOf_0002
<1> HIDE DEF p, names
<1>4. Different(names, 11)
  BY <1>1, <1>2 DEF Different
<1> QED
  BY <1>3, <1>4 DEF names

LEMMA RunsCreateTriggers ==
  ASSUME NEW Y, NEW E, NEW F, NEW U, NEW I, "fii_set_updated_at" \in F
  PROVE  Runs(Cat(TablesOf_0002, Y, E, F, {}, U, I),
              [i \in DOMAIN tables_with_updated_at |-> CreateTrigger(tables_with_updated_at[i])],
              Cat(TablesOf_0002, Y, E, F, Triggered, U, I))
<1> DEFINE names == tables_with_updated_at
           T == TablesOf_0002
           G(i) == {names[j] : j \in 1 .. i}
           g == [i \in 0 .. 11 |-> Cat(T, Y, E, F, G(i), U, I)]
           s == [i \in DOMAIN names |-> CreateTrigger(names[i])]
<1>1. Different(names, 11) /\ \A i \in 1 .. 11 : names[i] \in DOMAIN T
  BY TriggersOrder
<1>2. G(0) = {} /\ G(11) = Triggered
  BY DEF Triggered
<1>3. s = [i \in 1 .. 11 |-> CreateTrigger(names[i])]
  BY <1>1 DEF Different
<1>4. g[0] = Cat(T, Y, E, F, G(0), U, I) /\ g[11] = Cat(T, Y, E, F, G(11), U, I)
  OBVIOUS
<1>5. \A i \in 1 .. 11 : /\ g[i - 1] = Cat(T, Y, E, F, G(i - 1), U, I)
                         /\ g[i] = Cat(T, Y, E, F, G(i), U, I)
  OBVIOUS
<1> HIDE DEF names, T, g, s
<1>6. ASSUME NEW i \in 1 .. 11
      PROVE  Accepts(g[i - 1], s[i]) /\ Effect(g[i - 1], s[i]) = g[i]
  <2> DEFINE a == G(i - 1)
             n == names[i]
  <2>1. n \notin a /\ a \cup {n} = G(i)
    <3>1. \A j \in 1 .. i : j = i \/ j \in 1 .. i - 1
      OBVIOUS
    <3>2. \A j \in 1 .. i - 1 : j \in 1 .. i /\ j \in 1 .. 11 /\ j # i
      OBVIOUS
    <3>3. i \in 1 .. i
      OBVIOUS
    <3>4. n \notin a
      BY <1>1, <3>2 DEF Different
    <3> QED
      BY <3>1, <3>2, <3>3, <3>4
  <2> HIDE DEF G
  <2>2. /\ g[i - 1] = Cat(T, Y, E, F, a, U, I) /\ n \in DOMAIN T \ a
        /\ g[i] = Cat(T, Y, E, F, a \cup {n}, U, I)
        /\ s[i] = CreateTrigger(n)
    BY <1>1, <1>3, <1>5, <2>1
  <2> HIDE DEF a, n
  <2>3. /\ Accepts(Cat(T, Y, E, F, a, U, I), CreateTrigger(n))
        /\ Effect(Cat(T, Y, E, F, a, U, I), CreateTrigger(n)) = Cat(T, Y, E, F, a \cup {n}, U, I)
    BY <2>2, CreateTriggerEffect
  <2> QED
    BY <2>2, <2>3
<1>7. s = [i \in 1 .. 11 |-> s[i]]
  BY <1>3
<1> HIDE DEF G
<1>8. Runs(g[0], s, g[11])
  BY <1>6, <1>7, RunsThrough
<1> QED
  BY <1>2, <1>4, <1>8 DEF s, names, T

LEMMA RunsDropTypes ==
  ASSUME NEW E, NEW F, NEW G, NEW U, NEW I
  PROVE  Runs(Cat(<<>>, ENUMS, E, F, G, U, I),
              [i \in DOMAIN TypesOf_0002 |-> DropType(TypesOf_0002[i])],
              Cat(<<>>, <<>>, E, F, G, U, I))
<1> DEFINE names == TypesOf_0002
           Y(i) == [x \in {names[j] : j \in i + 1 .. 8} |-> ENUMS[x]]
           g == [i \in 0 .. 8 |-> Cat(<<>>, Y(i), E, F, G, U, I)]
           s == [i \in DOMAIN names |-> DropType(names[i])]
<1>1. Different(names, 8)
  BY TypesOrder
<1>2. Y(0) = ENUMS /\ Y(8) = <<>>
  <2>1. Prefix(ENUMS, names, 8) = ENUMS
    BY TypesOrder
  <2>2. Y(8) = <<>>
    OBVIOUS
  <2> QED
    BY <2>1, <2>2 DEF Prefix
<1>3. s = [i \in 1 .. 8 |-> DropType(names[i])]
  BY <1>1 DEF Different
<1>4. g[0] = Cat(<<>>, Y(0), E, F, G, U, I) /\ g[8] = Cat(<<>>, Y(8), E, F, G, U, I)
  OBVIOUS
<1>5. \A i \in 1 .. 8 : /\ g[i - 1] = Cat(<<>>, Y(i - 1), E, F, G, U, I)
                        /\ g[i] = Cat(<<>>, Y(i), E, F, G, U, I)
  OBVIOUS
<1>6. \A n : Untyped(<<>>, n) = <<>>
  BY DEF Untyped
<1> HIDE DEF names, g, s
<1>7. ASSUME NEW i \in 1 .. 8
      PROVE  Accepts(g[i - 1], s[i]) /\ Effect(g[i - 1], s[i]) = g[i]
  <2> DEFINE a == Y(i - 1)
             b == Y(i)
             n == names[i]
  <2>1. Without(a, n) = b
    <3> DEFINE D == {names[j] : j \in i .. 8}
               C == {names[j] : j \in i + 1 .. 8}
    <3>1. D \ {n} = C /\ C \subseteq D
      <4>1. \A j \in i .. 8 : j = i \/ j \in i + 1 .. 8
        OBVIOUS
      <4>2. \A j \in i + 1 .. 8 : j \in i .. 8 /\ j \in 1 .. 8 /\ j # i
        OBVIOUS
      <4>3. \A j \in i + 1 .. 8 : names[j] # n
        BY <1>1, <4>2 DEF Different
      <4> QED
        BY <4>1, <4>2, <4>3
    <3>2. (i - 1) + 1 = i
      OBVIOUS
    <3>3. a = [x \in D |-> ENUMS[x]] /\ b = [x \in C |-> ENUMS[x]]
      BY <3>2
    <3> HIDE DEF D, C, n, a, b
    <3> QED
      BY <3>1, <3>3 DEF Without, Restrict
  <2>2. /\ g[i - 1] = Cat(<<>>, a, E, F, G, U, I) /\ g[i] = Cat(<<>>, b, E, F, G, U, I)
        /\ s[i] = DropType(n)
    BY <1>3, <1>5
  <2> HIDE DEF a, b, n, Y
  <2>3. /\ Accepts(Cat(<<>>, a, E, F, G, U, I), DropType(n))
        /\ Effect(Cat(<<>>, a, E, F, G, U, I), DropType(n))
           = Cat(Untyped(<<>>, n), Without(a, n), E, F, G, U, I)
    BY DropTypeEffect
  <2> QED
    BY <1>6, <2>1, <2>2, <2>3
<1>8. s = [i \in 1 .. 8 |-> s[i]]
  BY <1>3
<1> HIDE DEF Y
<1>9. Runs(g[0], s, g[8])
  BY <1>7, <1>8, RunsThrough
<1> QED
  BY <1>2, <1>4, <1>9 DEF s, names

\* Dropping the last of the first k tables leaves the others as they are.
LEMMA LastTableDropped ==
  ASSUME NEW k \in 1 .. 15
  PROVE  Unreferred(Prefix(TablesOf_0002, OrderOf_0002, k), OrderOf_0002[k])
         = Prefix(TablesOf_0002, OrderOf_0002, k - 1)
<1> DEFINE names == OrderOf_0002
           T == TablesOf_0002
           D == {names[j] : j \in 1 .. k}
           C == {names[j] : j \in 1 .. k - 1}
           n == names[k]
           known == DOMAIN ENUMS \cup {"vector"}
<1>1. Different(names, 15)
  BY TablesOrder
<1>2. \A j \in 1 .. k - 1 : Fits(T[names[j]], {names[i] : i \in 1 .. j - 1}, known)
  <2> TAKE j \in 1 .. k - 1
  <2>1. j \in 1 .. 15
    OBVIOUS
  <2>2. DOMAIN ENUMS \cup {"vector"} \subseteq known
    OBVIOUS
  <2> QED
    BY <2>1, <2>2, TablesFit
<1> HIDE DEF names, T, known
<1>3. D \ {n} = C /\ C \subseteq D
  <2>1. \A j \in 1 .. k : j = k \/ j \in 1 .. k - 1
    OBVIOUS
  <2>2. \A j \in 1 .. k - 1 : j \in 1 .. k /\ j \in 1 .. 15 /\ j # k
    OBVIOUS
  <2>3. \A j \in 1 .. k - 1 : names[j] # n
    BY <1>1, <2>2 DEF Different
  <2> QED
    BY <2>1, <2>2, <2>3
<1>4. ASSUME NEW x \in C
      PROVE  WithoutKeysTo(T[x], n) = T[x]
  <2>1. PICK j \in 1 .. k - 1 : x = names[j]
    OBVIOUS
  <2>2. IsTable(T[x]) /\ \A q \in T[x].fks : q[2] \in {names[i] : i \in 1 .. j - 1}
    BY <1>2, <2>1 DEF Fits
  <2>3. \A i \in 1 .. j - 1 : names[i] # n
    <3>1. \A i \in 1 .. j - 1 : i \in 1 .. 15 /\ i # k
      OBVIOUS
    <3> QED
      BY <1>1, <3>1 DEF Different
  <2>4. \A q \in T[x].fks : q[2] # n
    BY <2>2, <2>3
  <2> QED
    BY <2>2, <2>4, Untouched
<1>5. Prefix(T, names, k) = [x \in D |-> T[x]] /\ Prefix(T, names, k - 1) = [x \in C |-> T[x]]
  BY DEF Prefix
<1> HIDE DEF D, C
<1>6. Unreferred([x \in D |-> T[x]], n) = [x \in C |-> T[x]]
  <2>1. Unreferred([x \in D |-> T[x]], n) = [x \in C |-> WithoutKeysTo(T[x], n)]
    BY <1>3 DEF Unreferred
  <2> QED
    BY <1>4, <2>1
<1> QED
  BY <1>5, <1>6 DEF names, T

LEMMA RunsDropTables ==
  ASSUME NEW Y, NEW E, NEW F
  PROVE  Runs(Cat(TablesOf_0002, Y, E, F, Triggered, <<>>, {}),
              [i \in DOMAIN OrderOf_0002 |-> DropTableCascade(Reverse(OrderOf_0002)[i])],
              Cat(<<>>, Y, E, F, {}, <<>>, {}))
<1> DEFINE names == OrderOf_0002
           T(i) == Prefix(TablesOf_0002, names, i)
           G(i) == {x \in Triggered : \E j \in 1 .. i : x = names[j]}
           g == [i \in 0 .. 15 |-> Cat(T(15 - i), Y, E, F, G(15 - i), <<>>, {})]
           s == [i \in DOMAIN names |-> DropTableCascade(Reverse(names)[i])]
<1>1. /\ Different(names, 15) /\ T(15) = TablesOf_0002
      /\ DOMAIN TablesOf_0002 = {names[j] : j \in 1 .. 15}
  BY TablesOrder
<1>2. T(0) = <<>>
  BY <1>1, PrefixGrows
<1>3. G(15) = Triggered /\ G(0) = {}
  <2>1. \A x \in Triggered : x \in DOMAIN TablesOf_0002
    BY TriggersOrder DEF Triggered
  <2> QED
    BY <1>1, <2>1
<1>4. s = [i \in 1 .. 15 |-> DropTableCascade(names[16 - i])]
  <2>1. DOMAIN names = 1 .. 15 /\ Len(names) = 15
    BY <1>1 DEF Different
  <2> HIDE DEF names
  <2>2. \A i \in 1 .. 15 : Reverse(names)[i] = names[16 - i]
    <3> TAKE i \in 1 .. 15
    <3>1. (15 - i) + 1 = 16 - i
      OBVIOUS
    <3> QED
      BY <2>1, <3>1 DEF Reverse
  <2> QED
    BY <2>1, <2>2
<1>5. /\ g[0] = Cat(T(15), Y, E, F, G(15), <<>>, {})
      /\ g[15] = Cat(T(0), Y, E, F, G(0), <<>>, {})
  <2>1. 15 - 0 = 15 /\ 15 - 15 = 0 /\ 0 \in 0 .. 15 /\ 15 \in 0 .. 15
    OBVIOUS
  <2> QED
    BY <2>1
<1>6. ASSUME NEW i \in 1 .. 15
      PROVE  /\ g[i - 1] = Cat(T(16 - i), Y, E, F, G(16 - i), <<>>, {})
             /\ g[i] = Cat(T((16 - i) - 1), Y, E, F, G((16 - i) - 1), <<>>, {})
  <2>1. /\ i - 1 \in 0 .. 15 /\ i \in 0 .. 15
        /\ 15 - (i - 1) = 16 - i /\ 15 - i = (16 - i) - 1
    OBVIOUS
  <2> QED
    BY <2>1
<1>7. \A k \in 1 .. 15 : Unreferred(T(k), names[k]) = T(k - 1)
  BY LastTableDropped
<1> HIDE DEF names, T, g, s
<1>8. \A k \in 1 .. 15 : G(k) \ {names[k]} = G(k - 1)
  <2> TAKE k \in 1 .. 15
  <2>1. \A j \in 1 .. k : j = k \/ j \in 1 .. k - 1
    OBVIOUS
  <2>2. \A j \in 1 .. k - 1 : j \in 1 .. k /\ j \in 1 .. 15 /\ j # k
    OBVIOUS
  <2>3. \A j \in 1 .. k - 1 : names[j] # names[k]
    BY <1>1, <2>2 DEF Different
  <2> QED
    BY <2>1, <2>2, <2>3
<1> HIDE DEF G
<1>9. ASSUME NEW i \in 1 .. 15
      PROVE  Accepts(g[i - 1], s[i]) /\ Effect(g[i - 1], s[i]) = g[i]
  <2> DEFINE k == 16 - i
             a == T(k)
             b == G(k)
             n == names[k]
             R == Restrict(<<>>, {x \in DOMAIN <<>> : <<>>[x].on # n})
             J == {x \in {} : x.on # n}
  <2>1. k \in 1 .. 15
    OBVIOUS
  <2>2. /\ g[i - 1] = Cat(a, Y, E, F, b, <<>>, {})
        /\ g[i] = Cat(Unreferred(a, n), Y, E, F, b \ {n}, <<>>, {})
        /\ s[i] = DropTableCascade(n)
    BY <1>4, <1>6, <1>7, <1>8, <2>1
  <2>3. R = <<>> /\ J = {}
    <3>1. {x \in DOMAIN <<>> : <<>>[x].on # n} = {}
      BY EmptyIsFcn
    <3>2. Restrict(<<>>, {}) = <<>>
      BY EmptyIsFcn
    <3>3. R = <<>>
      BY <3>1, <3>2
    <3> QED
      BY <3>3
  <2> HIDE DEF a, b, n, k
  <2>4. /\ Accepts(Cat(a, Y, E, F, b, <<>>, {}), DropTableCascade(n))
        /\ Effect(Cat(a, Y, E, F, b, <<>>, {}), DropTableCascade(n))
           = Cat(Unreferred(a, n), Y, E, F, b \ {n}, R, J)
    BY DropTableCascadeEffect
  <2> HIDE DEF R, J
  <2> QED
    BY <2>2, <2>3, <2>4
<1>10. s = [i \in 1 .. 15 |-> s[i]]
  BY <1>4
<1>11. Runs(g[0], s, g[15])
  BY <1>9, <1>10, RunsThrough
<1> QED
  BY <1>1, <1>2, <1>3, <1>5, <1>11 DEF s, names

Extensions == {"vector", "pg_trgm", "uuid-ossp"}

\* A new database with its extensions, and the schema of revision 2.
NewCatalog   == Cat(<<>>, <<>>, Extensions, {}, {}, <<>>, {})
FirstCatalog == Cat(TablesOf_0002, ENUMS, Extensions, {"fii_set_updated_at"}, Triggered, <<>>, {})

LEMMA Revision2 ==
  /\ Undoes(NewCatalog, Upgrade_0002, FirstCatalog, Downgrade_0002)
  /\ Sound(TablesOf_0002, ENUMS, Extensions, Triggered, <<>>, {})
<1> DEFINE E == Extensions
           F == {"fii_set_updated_at"}
           G == Triggered
           c1 == Cat(<<>>, ENUMS, E, {}, {}, <<>>, {})
           c2 == Cat(<<>>, ENUMS, E, F, {}, <<>>, {})
           c3 == Cat(TablesOf_0002, ENUMS, E, F, {}, <<>>, {})
           a == CreateTypes(ENUMS, TypesOf_0002)
           b == <<CreateFunction("fii_set_updated_at")>>
           c == CreateTables(TablesOf_0002, OrderOf_0002)
           d == [i \in DOMAIN tables_with_updated_at |-> CreateTrigger(tables_with_updated_at[i])]
           x == [i \in DOMAIN OrderOf_0002 |-> DropTableCascade(Reverse(OrderOf_0002)[i])]
           y == <<DropFunction("fii_set_updated_at")>>
           z == [i \in DOMAIN TypesOf_0002 |-> DropType(TypesOf_0002[i])]
<1>1. Runs(NewCatalog, a, c1)
  <2>1. DOMAIN ENUMS \cap E = {}
    BY DEF ENUMS, Extensions
  <2> QED
    BY <2>1, RunsCreateTypes DEF NewCatalog
<1>2. Runs(c1, b, c2)
  <2>1. Accepts(c1, CreateFunction("fii_set_updated_at"))
        /\ Effect(c1, CreateFunction("fii_set_updated_at")) = Cat(<<>>, ENUMS, E, {} \cup F, {}, <<>>, {})
    BY CreateFunctionEffect
  <2>2. {} \cup F = F
    OBVIOUS
  <2>3. Effect(c1, CreateFunction("fii_set_updated_at")) = c2
    BY <2>1, <2>2
  <2> QED
    BY <2>1, <2>3, RunsOne
<1>3. Runs(c2, c, c3)
  BY RunsCreateTables DEF Extensions
<1>4. Runs(c3, d, FirstCatalog)
  BY RunsCreateTriggers DEF FirstCatalog
<1>5. Runs(FirstCatalog, x, c2)
  BY RunsDropTables DEF FirstCatalog
<1>6. Runs(c2, y, c1)
  <2>1. Accepts(c2, DropFunction("fii_set_updated_at"))
        /\ Effect(c2, DropFunction("fii_set_updated_at"))
           = Cat(<<>>, ENUMS, E, F \ {"fii_set_updated_at"}, {}, <<>>, {})
    BY DropFunctionEffect
  <2>2. F \ {"fii_set_updated_at"} = {}
    OBVIOUS
  <2>3. Effect(c2, DropFunction("fii_set_updated_at")) = c1
    BY <2>1, <2>2
  <2> QED
    BY <2>1, <2>3, RunsOne
<1>7. Runs(c1, z, NewCatalog)
  BY RunsDropTypes DEF NewCatalog
<1> HIDE DEF a, b, c, d, x, y, z, c1, c2, c3
<1>8. Runs(NewCatalog, a \o b, c2)
  BY <1>1, <1>2, RunsOn
<1>9. Runs(NewCatalog, (a \o b) \o c, c3)
  BY <1>3, <1>8, RunsOn
<1>10. Runs(NewCatalog, ((a \o b) \o c) \o d, FirstCatalog)
  BY <1>4, <1>9, RunsOn
<1>11. Runs(FirstCatalog, x \o y, c1)
  BY <1>5, <1>6, RunsOn
<1>12. Runs(FirstCatalog, (x \o y) \o z, NewCatalog)
  BY <1>7, <1>11, RunsOn
<1>13. Undoes(NewCatalog, Upgrade_0002, FirstCatalog, Downgrade_0002)
  BY <1>10, <1>12 DEF Undoes, Upgrade_0002, Downgrade_0002, a, b, c, d, x, y, z
<1>14. Sound(TablesOf_0002, ENUMS, E, G, <<>>, {})
  <2>1. /\ IsFcn(TablesOf_0002) /\ IsFcn(ENUMS) /\ IsFcn(<<>>) /\ DOMAIN <<>> = {}
        /\ "vector" \in E
    BY EmptyIsFcn DEF IsFcn, TablesOf_0002, ENUMS, Extensions
  <2>2. G \subseteq DOMAIN TablesOf_0002
    BY TriggersOrder DEF Triggered
  <2>3. ASSUME NEW t \in DOMAIN TablesOf_0002
        PROVE  Fits(TablesOf_0002[t], DOMAIN TablesOf_0002, DOMAIN ENUMS \cup E)
    <3>1. PICK i \in 1 .. 15 : t = OrderOf_0002[i]
      BY TablesOrder
    <3>2. DOMAIN ENUMS \cup {"vector"} \subseteq DOMAIN ENUMS \cup E
      BY <2>1
    <3>3. Fits(TablesOf_0002[t], {OrderOf_0002[j] : j \in 1 .. i - 1}, DOMAIN ENUMS \cup E)
      BY <3>1, <3>2, TablesFit
    <3>4. {OrderOf_0002[j] : j \in 1 .. i - 1} \subseteq DOMAIN TablesOf_0002
      BY TablesOrder
    <3> QED
      BY <3>3, <3>4 DEF Fits
  <2>4. SoundIndexes(TablesOf_0002, <<>>, {})
    BY <2>1 DEF SoundIndexes
  <2> QED
    BY <2>1, <2>2, <2>3, <2>4 DEF Sound, SoundTables
<1> QED
  BY <1>13, <1>14

-----------------------------------------------------------------------------
(* The schema of every revision                                            *)

Tables_3 == With(TablesOf_0002, "refresh_events", refresh_events)
Types_3  == With(ENUMS, "event_type", EVENT_TYPES)

Tables_4 ==
    LET V == With(Tables_3, "chat_sessions", chat_sessions)
        W == With(V, "chat_messages", chat_messages)
    IN  With(W, "user_settings", user_settings)

\* The columns of revision 5 on analyses.
Acted(T) ==
    LET V1 == Wider(T, "analyses", "action_taken", {<<"action_taken", "action_taken">>})
        V2 == Wider(V1, "analyses", "action_size_usd", {})
        V3 == Wider(V2, "analyses", "action_price", {})
        V4 == Wider(V3, "analyses", "action_at", {})
        V5 == Wider(V4, "analyses", "action_notes", {})
    IN  Wider(V5, "analyses", "prompt_versions_json", {})

Tables_5  == With(Acted(Tables_4), "analysis_outcomes", analysis_outcomes)
Types_5   == With(Types_3, "action_taken", ACTION_TAKEN_VALUES)
Indexed_5 == {} \cup {ByAction}

Tables_6 ==
    Wider(Wider(Tables_5, "analyses", "idempotency_key", {}), "analyses", "correlation_id", {})
Unique_6  == With(<<>>, "ix_analyses_idempotency_key", ByKey)
Indexed_6 == Indexed_5 \cup {ByCorrelation}

Tables_7  == With(Tables_6, "specialist_cache", specialist_cache)
Indexed_7 == Indexed_6 \cup {ByLastRun}

Tables_8  == With(Tables_7, "report_critiques", report_critiques)
Indexed_8 == Indexed_7 \cup {ByCreation}

\* A catalog of a revision from the second on, in which the function and the triggers
\* are those of the second.
Later(T, Y, U, I) == Cat(T, Y, Extensions, {"fii_set_updated_at"}, Triggered, U, I)

SoundLater(T, Y, U, I) == Sound(T, Y, Extensions, Triggered, U, I)

LaterCatalogs ==
    <<FirstCatalog, Later(Tables_3, Types_3, <<>>, {}), Later(Tables_4, Types_3, <<>>, {}),
      Later(Tables_5, Types_5, <<>>, Indexed_5), Later(Tables_6, Types_5, Unique_6, Indexed_6),
      Later(Tables_7, Types_5, Unique_6, Indexed_7), Later(Tables_8, Types_5, Unique_6, Indexed_8)>>

\* The catalog of each revision.  Before the second it is that of a new database, whose
\* extensions stay when the first is taken back.
SchemaOf(r) == IF r <= 1 THEN NewCatalog ELSE LaterCatalogs[r - 1]

\* A table widened by a column, in full.
LEMMA WiderIs ==
  ASSUME NEW T, NEW n \in DOMAIN T, NEW col, NEW types, NEW a, NEW p, NEW q, NEW f, NEW y,
         T[n] = [cols |-> a, pk |-> p, uniq |-> q, fks |-> f, types |-> y]
  PROVE  /\ DOMAIN Wider(T, n, col, types) = DOMAIN T
         /\ Wider(T, n, col, types) = [m \in DOMAIN T |-> Wider(T, n, col, types)[m]]
         /\ Wider(T, n, col, types)[n]
            = [cols |-> a \cup {col}, pk |-> p, uniq |-> q, fks |-> f, types |-> y \cup types]
         /\ \A m \in DOMAIN T \ {n} : Wider(T, n, col, types)[m] = T[m]
<1> DEFINE t == T[n]
           w == WithColumn(t, col, types)
           V == Wider(T, n, col, types)
<1>1. /\ t = [x \in DOMAIN t |-> t[x]] /\ DOMAIN t = {"cols", "pk", "uniq", "fks", "types"}
      /\ t.cols = a /\ t.pk = p /\ t.uniq = q /\ t.fks = f /\ t.types = y
  OBVIOUS
<1>2. V = [T EXCEPT ![n] = w]
  BY DEF Wider
<1> HIDE DEF t
<1>3. /\ w = [x \in DOMAIN w |-> w[x]] /\ DOMAIN w = DOMAIN t
      /\ w.cols = a \cup {col} /\ w.types = y \cup types
      /\ w.pk = p /\ w.uniq = q /\ w.fks = f
  BY <1>1 DEF WithColumn
<1> HIDE DEF w
<1>4. w = [cols |-> a \cup {col}, pk |-> p, uniq |-> q, fks |-> f, types |-> y \cup types]
  BY <1>1, <1>3
<1> HIDE DEF V
<1>5. DOMAIN V = DOMAIN T /\ V[n] = w /\ \A m \in DOMAIN T \ {n} : V[m] = T[m]
  BY <1>2
<1>6. V = [m \in DOMAIN T |-> V[m]]
  BY <1>2
<1> QED
  BY <1>4, <1>5, <1>6 DEF V

\* g is f and its value v at x.
Extended(g, f, x, v) ==
    /\ DOMAIN g = DOMAIN f \cup {x} /\ g = [y \in DOMAIN g |-> g[y]]
    /\ g[x] = v /\ \A y \in DOMAIN f \ {x} : g[y] = f[y]

LEMMA WithExtends == ASSUME NEW f, NEW x, NEW v PROVE Extended(With(f, x, v), f, x, v)
  BY DEF With, Extended

\* V is T with columns a, of types y, in analyses.
Widened(T, V, a, p, q, f, y) ==
    /\ DOMAIN V = DOMAIN T /\ V = [m \in DOMAIN T |-> V[m]]
    /\ V["analyses"] = [cols |-> a, pk |-> p, uniq |-> q, fks |-> f, types |-> y]
    /\ \A m \in DOMAIN T \ {"analyses"} : V[m] = T[m]

LEMMA WidenedMore ==
  ASSUME NEW T, "analyses" \in DOMAIN T, NEW V, NEW a, NEW p, NEW q, NEW f, NEW y,
         Widened(T, V, a, p, q, f, y), NEW col, NEW types
  PROVE  Widened(T, Wider(V, "analyses", col, types), a \cup {col}, p, q, f, y \cup types)
<1> DEFINE W == Wider(V, "analyses", col, types)
<1>1. /\ "analyses" \in DOMAIN V
      /\ V["analyses"] = [cols |-> a, pk |-> p, uniq |-> q, fks |-> f, types |-> y]
      /\ DOMAIN V = DOMAIN T /\ \A m \in DOMAIN T \ {"analyses"} : V[m] = T[m]
  BY DEF Widened
<1>2. /\ DOMAIN W = DOMAIN V
      /\ W = [m \in DOMAIN V |-> W[m]]
      /\ W["analyses"]
         = [cols |-> a \cup {col}, pk |-> p, uniq |-> q, fks |-> f, types |-> y \cup types]
      /\ \A m \in DOMAIN V \ {"analyses"} : W[m] = V[m]
  BY <1>1, WiderIs
<1> HIDE DEF W
<1>3. Widened(T, W, a \cup {col}, p, q, f, y \cup types)
  BY <1>1, <1>2 DEF Widened
<1> QED
  BY <1>3 DEF W

LEMMA ActedIs ==
  ASSUME NEW T, "analyses" \in DOMAIN T, T = [m \in DOMAIN T |-> T[m]],
         NEW a, NEW p, NEW q, NEW f, NEW y,
         T["analyses"] = [cols |-> a, pk |-> p, uniq |-> q, fks |-> f, types |-> y]
  PROVE  Widened(T, Acted(T),
                 a \cup {"action_taken", "action_size_usd", "action_price", "action_at",
                         "action_notes", "prompt_versions_json"},
                 p, q, f, y \cup {<<"action_taken", "action_taken">>})
<1> DEFINE n == "analyses"
           z == y \cup {<<"action_taken", "action_taken">>}
           V1 == Wider(T, n, "action_taken", {<<"action_taken", "action_taken">>})
           V2 == Wider(V1, n, "action_size_usd", {})
           V3 == Wider(V2, n, "action_price", {})
           V4 == Wider(V3, n, "action_at", {})
           V5 == Wider(V4, n, "action_notes", {})
           V6 == Wider(V5, n, "prompt_versions_json", {})
           a1 == a \cup {"action_taken"}
           a2 == a1 \cup {"action_size_usd"}
           a3 == a2 \cup {"action_price"}
           a4 == a3 \cup {"action_at"}
           a5 == a4 \cup {"action_notes"}
           a6 == a5 \cup {"prompt_versions_json"}
<1>1. Widened(T, T, a, p, q, f, y)
  BY DEF Widened
<1>2. Widened(T, V1, a1, p, q, f, z)
  BY <1>1, WidenedMore
<1>3. z \cup {} = z
  OBVIOUS
<1> HIDE DEF V1, z
<1>4. Widened(T, V2, a2, p, q, f, z)
  BY <1>2, <1>3, WidenedMore
<1> HIDE DEF V2
<1>5. Widened(T, V3, a3, p, q, f, z)
  BY <1>4, <1>3, WidenedMore
<1> HIDE DEF V3
<1>6. Widened(T, V4, a4, p, q, f, z)
  BY <1>5, <1>3, WidenedMore
<1> HIDE DEF V4
<1>7. Widened(T, V5, a5, p, q, f, z)
  BY <1>6, <1>3, WidenedMore
<1> HIDE DEF V5
<1>8. Widened(T, V6, a6, p, q, f, z)
  BY <1>7, <1>3, WidenedMore
<1>9. a6 = a \cup {"action_taken", "action_size_usd", "action_price", "action_at",
                   "action_notes", "prompt_versions_json"}
  OBVIOUS
<1>10. Acted(T) = V6
  BY DEF Acted, V1, V2, V3, V4, V5
<1> HIDE DEF V6, a6
<1> QED
  BY <1>8, <1>9, <1>10 DEF z

Names_2 ==
    {"tickers", "prices_daily", "prices_intraday", "fundamentals_quarterly", "filings",
     "filing_chunks", "macro_series", "news_items", "insider_transactions",
     "institutional_holdings", "analyses", "analysis_specialist_outputs", "watchlist",
     "positions", "agent_prompts"}

Names_4 == Names_2 \cup {"refresh_events", "chat_sessions", "chat_messages", "user_settings"}

\* The names of the tables and types, and the columns of analyses, of each revision.
LEMMA Names2 ==
  /\ DOMAIN TablesOf_0002 = Names_2
  /\ TablesOf_0002["analyses"] = analyses
  /\ DOMAIN Types_3 = DOMAIN ENUMS \cup {"event_type"}
  /\ DOMAIN Types_5 = DOMAIN ENUMS \cup {"event_type", "action_taken"}
  /\ DOMAIN Unique_6 = {"ix_analyses_idempotency_key"}
  /\ {"event_type", "action_taken"} \cap (DOMAIN ENUMS \cup Extensions) = {}
<1>1. DOMAIN TablesOf_0002 = Names_2 /\ TablesOf_0002["analyses"] = analyses
  BY DEF TablesOf_0002, Names_2
<1>2. {"event_type", "action_taken"} \cap (DOMAIN ENUMS \cup Extensions) = {}
  BY DEF ENUMS, Extensions
<1>3. DOMAIN Types_3 = DOMAIN ENUMS \cup {"event_type"}
  BY WithExtends DEF Types_3, Extended
<1>4. DOMAIN Types_5 = DOMAIN Types_3 \cup {"action_taken"}
  BY WithExtends DEF Types_5, Extended
<1>5. DOMAIN Unique_6 = DOMAIN <<>> \cup {"ix_analyses_idempotency_key"}
  BY WithExtends DEF Unique_6, Extended
<1> QED
  BY <1>1, <1>2, <1>3, <1>4, <1>5, EmptyIsFcn

LEMMA Names4 ==
  /\ DOMAIN Tables_3 = Names_2 \cup {"refresh_events"}
  /\ DOMAIN Tables_4 = Names_4
  /\ \A m \in Names_2 : Tables_4[m] = TablesOf_0002[m]
  /\ Tables_4["refresh_events"] = refresh_events
  /\ Tables_4["chat_sessions"] = chat_sessions
  /\ Tables_4["chat_messages"] = chat_messages
  /\ Tables_4["user_settings"] = user_settings
  /\ Tables_4 = [m \in DOMAIN Tables_4 |-> Tables_4[m]]
<1> DEFINE V == With(Tables_3, "chat_sessions", chat_sessions)
           W == With(V, "chat_messages", chat_messages)
<1>1. /\ Extended(Tables_3, TablesOf_0002, "refresh_events", refresh_events)
      /\ Extended(V, Tables_3, "chat_sessions", chat_sessions)
      /\ Extended(W, V, "chat_messages", chat_messages)
      /\ Extended(Tables_4, W, "user_settings", user_settings)
  BY WithExtends DEF Tables_3, Tables_4
<1> HIDE DEF V, W
<1>2. /\ "refresh_events" \notin Names_2
      /\ "chat_sessions" \notin Names_2 \cup {"refresh_events"}
      /\ "chat_messages" \notin Names_2 \cup {"refresh_events", "chat_sessions"}
      /\ "user_settings" \notin Names_2 \cup {"refresh_events", "chat_sessions", "chat_messages"}
  BY DEF Names_2
<1>3. /\ DOMAIN Tables_3 = Names_2 \cup {"refresh_events"}
      /\ \A m \in Names_2 : Tables_3[m] = TablesOf_0002[m]
      /\ Tables_3["refresh_events"] = refresh_events
  BY <1>1, <1>2, Names2 DEF Extended
<1>4. /\ DOMAIN V = Names_2 \cup {"refresh_events", "chat_sessions"}
      /\ \A m \in Names_2 \cup {"refresh_events"} : V[m] = Tables_3[m]
      /\ V["chat_sessions"] = chat_sessions
  BY <1>1, <1>2, <1>3 DEF Extended
<1>5. /\ DOMAIN W = Names_2 \cup {"refresh_events", "chat_sessions", "chat_messages"}
      /\ \A m \in Names_2 \cup {"refresh_events", "chat_sessions"} : W[m] = V[m]
      /\ W["chat_messages"] = chat_messages
  BY <1>1, <1>2, <1>4 DEF Extended
<1>6. /\ DOMAIN Tables_4 = Names_4
      /\ \A m \in Names_2 \cup {"refresh_events", "chat_sessions", "chat_messages"} :
            Tables_4[m] = W[m]
      /\ Tables_4["user_settings"] = user_settings
      /\ Tables_4 = [m \in DOMAIN Tables_4 |-> Tables_4[m]]
  BY <1>1, <1>2, <1>5 DEF Extended, Names_4
<1> QED
  BY <1>3, <1>4, <1>5, <1>6

\* The analyses of revisions 5 and 6.
Analyses_5 ==
    [cols  |-> analyses.cols \cup {"action_taken", "action_size_usd", "action_price", "action_at",
                                   "action_notes", "prompt_versions_json"},
     pk    |-> analyses.pk, uniq |-> analyses.uniq, fks |-> analyses.fks,
     types |-> analyses.types \cup {<<"action_taken", "action_taken">>}]

Analyses_6 ==
    [cols  |-> (Analyses_5.cols \cup {"idempotency_key"}) \cup {"correlation_id"},
     pk    |-> analyses.pk, uniq |-> analyses.uniq, fks |-> analyses.fks,
     types |-> Analyses_5.types]

LEMMA AnalysesRecord ==
  analyses = [cols |-> analyses.cols, pk |-> analyses.pk, uniq |-> analyses.uniq,
              fks |-> analyses.fks, types |-> analyses.types]
  BY DEF analyses

LEMMA Names6 ==
  /\ DOMAIN Acted(Tables_4) = Names_4
  /\ DOMAIN Tables_5 = Names_4 \cup {"analysis_outcomes"}
  /\ Tables_5["analyses"] = Analyses_5
  /\ \A m \in Names_4 \ {"analyses"} : Tables_5[m] = Tables_4[m]
  /\ Tables_5["analysis_outcomes"] = analysis_outcomes
  /\ DOMAIN Tables_6 = Names_4 \cup {"analysis_outcomes"}
  /\ Tables_6["analyses"] = Analyses_6
  /\ \A m \in DOMAIN Tables_5 \ {"analyses"} : Tables_6[m] = Tables_5[m]
<1> DEFINE a == analyses.cols
           p == analyses.pk
           q == analyses.uniq
           f == analyses.fks
           y == analyses.types
           A == Acted(Tables_4)
           b == a \cup {"action_taken", "action_size_usd", "action_price", "action_at",
                         "action_notes", "prompt_versions_json"}
           z == y \cup {<<"action_taken", "action_taken">>}
<1>1. Tables_4["analyses"] = analyses /\ "analyses" \in DOMAIN Tables_4
  BY Names2, Names4 DEF Names_4, Names_2
<1>2. /\ Tables_4 = [m \in DOMAIN Tables_4 |-> Tables_4[m]]
      /\ Tables_4["analyses"] = [cols |-> a, pk |-> p, uniq |-> q, fks |-> f, types |-> y]
  BY <1>1, Names4, AnalysesRecord
<1>3. Widened(Tables_4, A, b, p, q, f, z)
  BY <1>1, <1>2, ActedIs
<1> HIDE DEF A
<1>4. Analyses_5 = [cols |-> b, pk |-> p, uniq |-> q, fks |-> f, types |-> z]
  BY DEF Analyses_5
<1> HIDE DEF a, p, q, f, y, b, z
<1>5. /\ DOMAIN A = Names_4 /\ A["analyses"] = Analyses_5
      /\ \A m \in Names_4 \ {"analyses"} : A[m] = Tables_4[m]
  BY <1>3, <1>4, Names4 DEF Widened
<1>6. "analyses" \in Names_4 /\ "analysis_outcomes" \notin Names_4
  BY DEF Names_4, Names_2
<1>7. /\ DOMAIN Tables_5 = Names_4 \cup {"analysis_outcomes"}
      /\ Tables_5["analyses"] = Analyses_5
      /\ Tables_5["analysis_outcomes"] = analysis_outcomes
      /\ \A m \in Names_4 \ {"analyses"} : Tables_5[m] = Tables_4[m]
      /\ Tables_5 = [m \in DOMAIN Tables_5 |-> Tables_5[m]]
  <2> DEFINE t == "analysis_outcomes"
             v == analysis_outcomes
  <2>1. Extended(Tables_5, A, t, v)
    BY WithExtends DEF Tables_5, A
  <2> HIDE DEF v
  <2> QED
    BY <1>5, <1>6, <2>1 DEF v, Extended
<1> DEFINE V == Wider(Tables_5, "analyses", "idempotency_key", {})
           W == Wider(V, "analyses", "correlation_id", {})
<1>8. "analyses" \in DOMAIN Tables_5 /\ z \cup {} = z
  BY <1>6, <1>7
<1>9. Widened(Tables_5, Tables_5, b, p, q, f, z)
  BY <1>4, <1>7 DEF Widened
<1>10. Widened(Tables_5, V, b \cup {"idempotency_key"}, p, q, f, z)
  BY <1>8, <1>9, WidenedMore
<1> HIDE DEF V
<1>11. Widened(Tables_5, W, (b \cup {"idempotency_key"}) \cup {"correlation_id"}, p, q, f, z)
  BY <1>8, <1>10, WidenedMore
<1>12. Tables_6 = W
  BY DEF Tables_6, V
<1> HIDE DEF W
<1>13. Analyses_6 = [cols |-> (b \cup {"idempotency_key"}) \cup {"correlation_id"},
                     pk |-> p, uniq |-> q, fks |-> f, types |-> z]
  BY <1>4 DEF Analyses_6, p, q, f
<1>14. /\ DOMAIN W = DOMAIN Tables_5 /\ W["analyses"] = Analyses_6
       /\ \A m \in DOMAIN Tables_5 \ {"analyses"} : W[m] = Tables_5[m]
  BY <1>11, <1>13 DEF Widened
<1> QED
  BY <1>5, <1>7, <1>12, <1>14 DEF A

LEMMA Names8 ==
  /\ DOMAIN Tables_7 = Names_4 \cup {"analysis_outcomes", "specialist_cache"}
  /\ Tables_7["specialist_cache"] = specialist_cache
  /\ \A m \in DOMAIN Tables_6 : Tables_7[m] = Tables_6[m]
  /\ DOMAIN Tables_8
       = Names_4 \cup {"analysis_outcomes", "specialist_cache", "report_critiques"}
  /\ Tables_8["report_critiques"] = report_critiques
  /\ \A m \in DOMAIN Tables_7 : Tables_8[m] = Tables_7[m]
<1>1. Extended(Tables_7, Tables_6, "specialist_cache", specialist_cache)
  BY WithExtends DEF Tables_7
<1>2. Extended(Tables_8, Tables_7, "report_critiques", report_critiques)
  BY WithExtends DEF Tables_8
<1>3. DOMAIN Tables_6 = Names_4 \cup {"analysis_outcomes"}
  BY Names6
<1>4. /\ "specialist_cache" \notin Names_4 \cup {"analysis_outcomes"}
      /\ "report_critiques" \notin Names_4 \cup {"analysis_outcomes", "specialist_cache"}
  BY DEF Names_4, Names_2
<1>5. /\ DOMAIN Tables_7 = DOMAIN Tables_6 \cup {"specialist_cache"}
      /\ Tables_7["specialist_cache"] = specialist_cache
      /\ \A m \in DOMAIN Tables_6 : Tables_7[m] = Tables_6[m]
  BY <1>1, <1>3, <1>4 DEF Extended
<1>6. DOMAIN Tables_7 = Names_4 \cup {"analysis_outcomes", "specialist_cache"}
  BY <1>3, <1>5
<1>7. /\ DOMAIN Tables_8 = DOMAIN Tables_7 \cup {"report_critiques"}
      /\ Tables_8["report_critiques"] = report_critiques
      /\ \A m \in DOMAIN Tables_7 : Tables_8[m] = Tables_7[m]
  BY <1>2, <1>4, <1>6 DEF Extended
<1>8. DOMAIN Tables_8
       = Names_4 \cup {"analysis_outcomes", "specialist_cache", "report_critiques"}
  BY <1>6, <1>7
<1> QED
  BY <1>5, <1>6, <1>7, <1>8

\* Each revision from the third on is undone by its downgrade.
LEMMA LaterRevisions ==
  LET c == LaterCatalogs
  IN  /\ Undoes(c[1], Upgrade_0003, c[2], Downgrade_0003)
      /\ Undoes(c[2], Upgrade_0004, c[3], Downgrade_0004)
      /\ Undoes(c[3], Upgrade_0005, c[4], Downgrade_0005)
      /\ Undoes(c[4], Upgrade_0006, c[5], Downgrade_0006)
      /\ Undoes(c[5], Upgrade_0007, c[6], Downgrade_0007)
      /\ Undoes(c[6], Upgrade_0008, c[7], Downgrade_0008)
<1> DEFINE E == Extensions
           F == {"fii_set_updated_at"}
           G == Triggered
<1>1. SoundLater(TablesOf_0002, ENUMS, <<>>, {})
  BY Revision2 DEF SoundLater
<1>2. FirstCatalog = Later(TablesOf_0002, ENUMS, <<>>, {})
  BY DEF FirstCatalog, Later
<1>3. /\ Undoes(Later(TablesOf_0002, ENUMS, <<>>, {}), Upgrade_0003,
                 Later(Tables_3, Types_3, <<>>, {}), Downgrade_0003)
      /\ SoundLater(Tables_3, Types_3, <<>>, {})
  <2>1. "event_type" \notin DOMAIN ENUMS \cup E
    BY Names2
  <2>2. "refresh_events" \notin DOMAIN TablesOf_0002
    BY Names2 DEF Names_2
  <2>3. {"tickers", "analyses"} \subseteq DOMAIN TablesOf_0002
    BY Names2 DEF Names_2
  <2>4. Sound(TablesOf_0002, ENUMS, E, G, <<>>, {})
    BY <1>1 DEF SoundLater
  <2> HIDE DEF E, F, G
  <2>5. Undoes(Cat(TablesOf_0002, ENUMS, E, F, G, <<>>, {}), Upgrade_0003,
                Cat(Tables_3, Types_3, E, F, G, <<>>, {}), Downgrade_0003)
    BY <2>1, <2>2, <2>3, <2>4, Revision3 DEF Tables_3, Types_3
  <2>6. Sound(Tables_3, Types_3, E, G, <<>>, {})
    BY <2>1, <2>2, <2>3, <2>4, Revision3 DEF Tables_3, Types_3
  <2> QED
    BY <2>5, <2>6 DEF Later, SoundLater, E, F, G
<1>4. /\ Undoes(Later(Tables_3, Types_3, <<>>, {}), Upgrade_0004,
                 Later(Tables_4, Types_3, <<>>, {}), Downgrade_0004)
      /\ SoundLater(Tables_4, Types_3, <<>>, {})
  <2>1. {"chat_sessions", "chat_messages", "user_settings"} \cap DOMAIN Tables_3 = {}
    BY Names4 DEF Names_2
  <2>2. Sound(Tables_3, Types_3, E, G, <<>>, {})
    BY <1>3 DEF SoundLater
  <2> HIDE DEF E, F, G
  <2>3. Undoes(Cat(Tables_3, Types_3, E, F, G, <<>>, {}), Upgrade_0004,
                Cat(Tables_4, Types_3, E, F, G, <<>>, {}), Downgrade_0004)
    BY <2>1, <2>2, Revision4 DEF Tables_4
  <2>4. Sound(Tables_4, Types_3, E, G, <<>>, {})
    BY <2>1, <2>2, Revision4 DEF Tables_4
  <2> QED
    BY <2>3, <2>4 DEF Later, SoundLater, E, F, G
<1>5. /\ Undoes(Later(Tables_4, Types_3, <<>>, {}), Upgrade_0005,
                 Later(Tables_5, Types_5, <<>>, Indexed_5), Downgrade_0005)
      /\ SoundLater(Tables_5, Types_5, <<>>, Indexed_5)
  <2>1. "analyses" \in DOMAIN Tables_4 /\ "analysis_outcomes" \notin DOMAIN Tables_4
    BY Names4 DEF Names_4, Names_2
  <2>2. "action_taken" \notin DOMAIN Types_3 \cup E
    BY Names2
  <2>3. {"action_taken", "action_size_usd", "action_price", "action_at",
         "action_notes", "prompt_versions_json"} \cap Tables_4["analyses"].cols = {}
    <3>1. Tables_4["analyses"] = analyses
      BY Names2, Names4 DEF Names_2
    <3>2. {"action_taken", "action_size_usd", "action_price", "action_at",
           "action_notes", "prompt_versions_json"} \cap analyses.cols = {}
      BY DEF analyses, Stamps
    <3> QED
      BY <3>1, <3>2
  <2>4. "ix_analyses_action_taken" \notin DOMAIN <<>>
        /\ \A i \in {} : i.name # "ix_analyses_action_taken"
    BY EmptyIsFcn
  <2>5. Sound(Tables_4, Types_3, E, G, <<>>, {})
    BY <1>4 DEF SoundLater
  <2> HIDE DEF E, F, G
  <2>6. Undoes(Cat(Tables_4, Types_3, E, F, G, <<>>, {}), Upgrade_0005,
                Cat(Tables_5, Types_5, E, F, G, <<>>, Indexed_5), Downgrade_0005)
    BY <2>1, <2>2, <2>3, <2>4, <2>5, Revision5 DEF Tables_5, Types_5, Indexed_5, Acted
  <2>7. Sound(Tables_5, Types_5, E, G, <<>>, Indexed_5)
    BY <2>1, <2>2, <2>3, <2>4, <2>5, Revision5 DEF Tables_5, Types_5, Indexed_5, Acted
  <2> QED
    BY <2>6, <2>7 DEF Later, SoundLater, E, F, G
<1>6. /\ Undoes(Later(Tables_5, Types_5, <<>>, Indexed_5), Upgrade_0006,
                 Later(Tables_6, Types_5, Unique_6, Indexed_6), Downgrade_0006)
      /\ SoundLater(Tables_6, Types_5, Unique_6, Indexed_6)
  <2>1. "analyses" \in DOMAIN Tables_5
    BY Names6 DEF Names_4, Names_2
  <2>2. {"idempotency_key", "correlation_id"} \cap Tables_5["analyses"].cols = {}
    <3>1. Tables_5["analyses"] = Analyses_5
      BY Names6
    <3>2. {"idempotency_key", "correlation_id"} \cap Analyses_5.cols = {}
      BY DEF Analyses_5, analyses, Stamps
    <3> QED
      BY <3>1, <3>2
  <2>3. {"ix_analyses_idempotency_key", "ix_analyses_correlation_id"} \cap DOMAIN <<>> = {}
    BY EmptyIsFcn
  <2>4. \A i \in Indexed_5 :
           i.name \notin {"ix_analyses_idempotency_key", "ix_analyses_correlation_id"}
    BY DEF Indexed_5, ByAction, Index
  <2>5. Sound(Tables_5, Types_5, E, G, <<>>, Indexed_5)
    BY <1>5 DEF SoundLater
  <2> HIDE DEF E, F, G
  <2>6. Undoes(Cat(Tables_5, Types_5, E, F, G, <<>>, Indexed_5), Upgrade_0006,
                Cat(Tables_6, Types_5, E, F, G, Unique_6, Indexed_6), Downgrade_0006)
    BY <2>1, <2>2, <2>3, <2>4, <2>5, Revision6 DEF Tables_6, Unique_6, Indexed_6
  <2>7. Sound(Tables_6, Types_5, E, G, Unique_6, Indexed_6)
    BY <2>1, <2>2, <2>3, <2>4, <2>5, Revision6 DEF Tables_6, Unique_6, Indexed_6
  <2> QED
    BY <2>6, <2>7 DEF Later, SoundLater, E, F, G
<1>7. /\ Undoes(Later(Tables_6, Types_5, Unique_6, Indexed_6), Upgrade_0007,
                 Later(Tables_7, Types_5, Unique_6, Indexed_7), Downgrade_0007)
      /\ SoundLater(Tables_7, Types_5, Unique_6, Indexed_7)
  <2>1. "specialist_cache" \notin DOMAIN Tables_6 /\ "tickers" \in DOMAIN Tables_6
    BY Names6 DEF Names_4, Names_2
  <2>2. "ix_specialist_cache_last_run_at" \notin DOMAIN Unique_6
    BY Names2
  <2>3. \A i \in Indexed_6 : i.name # "ix_specialist_cache_last_run_at"
    BY DEF Indexed_6, Indexed_5, ByAction, ByCorrelation, Index
  <2>4. Sound(Tables_6, Types_5, E, G, Unique_6, Indexed_6)
    BY <1>6 DEF SoundLater
  <2> HIDE DEF E, F, G
  <2>5. Undoes(Cat(Tables_6, Types_5, E, F, G, Unique_6, Indexed_6), Upgrade_0007,
                Cat(Tables_7, Types_5, E, F, G, Unique_6, Indexed_7), Downgrade_0007)
    BY <2>1, <2>2, <2>3, <2>4, Revision7 DEF Tables_7, Indexed_7
  <2>6. Sound(Tables_7, Types_5, E, G, Unique_6, Indexed_7)
    BY <2>1, <2>2, <2>3, <2>4, Revision7 DEF Tables_7, Indexed_7
  <2> QED
    BY <2>5, <2>6 DEF Later, SoundLater, E, F, G
<1>8. Undoes(Later(Tables_7, Types_5, Unique_6, Indexed_7), Upgrade_0008,
              Later(Tables_8, Types_5, Unique_6, Indexed_8), Downgrade_0008)
  <2>1. "report_critiques" \notin DOMAIN Tables_7 /\ "tickers" \in DOMAIN Tables_7
    BY Names8 DEF Names_4, Names_2
  <2>2. "ix_report_critiques_symbol_created_at" \notin DOMAIN Unique_6
    BY Names2
  <2>3. \A i \in Indexed_7 : i.name # "ix_report_critiques_symbol_created_at"
    BY DEF Indexed_7, Indexed_6, Indexed_5, ByAction, ByCorrelation, ByLastRun, Index
  <2>4. Sound(Tables_7, Types_5, E, G, Unique_6, Indexed_7)
    BY <1>7 DEF SoundLater
  <2> HIDE DEF E, F, G
  <2>5. Undoes(Cat(Tables_7, Types_5, E, F, G, Unique_6, Indexed_7), Upgrade_0008,
                Cat(Tables_8, Types_5, E, F, G, Unique_6, Indexed_8), Downgrade_0008)
    BY <2>1, <2>2, <2>3, <2>4, Revision8 DEF Tables_8, Indexed_8
  <2> QED
    BY <2>5 DEF Later, E, F, G
<1> QED
  BY <1>2, <1>3, <1>4, <1>5, <1>6, <1>7, <1>8 DEF LaterCatalogs

-----------------------------------------------------------------------------
(* Commands                                                                *)

LEMMA EmptyIs == Empty = Cat(<<>>, <<>>, {}, {}, {}, <<>>, {})
  BY DEF Empty, Cat

LEMMA FirstRevision ==
  /\ Runs(Empty, Upgrade_0001, NewCatalog)
  /\ Runs(NewCatalog, Upgrade_0001, NewCatalog)
  /\ Runs(NewCatalog, Downgrade_0001, NewCatalog)
<1>1. Runs(Cat(<<>>, <<>>, {}, {}, {}, <<>>, {}), Upgrade_0001,
           Cat(<<>>, <<>>, {} \cup {"vector", "pg_trgm", "uuid-ossp"}, {}, {}, <<>>, {}))
  BY RunsExtensions
<1>2. Runs(Cat(<<>>, <<>>, Extensions, {}, {}, <<>>, {}), Upgrade_0001,
           Cat(<<>>, <<>>, Extensions \cup {"vector", "pg_trgm", "uuid-ossp"}, {}, {}, <<>>, {}))
  BY RunsExtensions
<1>3. /\ {} \cup {"vector", "pg_trgm", "uuid-ossp"} = Extensions
      /\ Extensions \cup {"vector", "pg_trgm", "uuid-ossp"} = Extensions
  BY DEF Extensions
<1> QED
  BY <1>1, <1>2, <1>3, EmptyIs, RunsNothing DEF NewCatalog, Downgrade_0001

\* Every upgrade and every downgrade is accepted where it starts, and ends where the
\* other one starts.
LEMMA RevisionsInvert ==
  ASSUME NEW r \in 1 .. 8
  PROVE  Undoes(SchemaOf(r - 1), Upgrades[r], SchemaOf(r), Downgrades[r])
<1> DEFINE c == LaterCatalogs
<1>1. CASE r = 1
  <2>1. SchemaOf(r - 1) = NewCatalog /\ SchemaOf(r) = NewCatalog
    BY <1>1 DEF SchemaOf
  <2>2. Upgrades[r] = Upgrade_0001 /\ Downgrades[r] = Downgrade_0001
    BY <1>1 DEF Upgrades, Downgrades
  <2> QED
    BY <2>1, <2>2, FirstRevision DEF Undoes
<1>2. CASE r = 2
  <2>1. SchemaOf(r - 1) = NewCatalog /\ SchemaOf(r) = FirstCatalog
    BY <1>2 DEF SchemaOf, LaterCatalogs
  <2>2. Upgrades[r] = Upgrade_0002 /\ Downgrades[r] = Downgrade_0002
    BY <1>2 DEF Upgrades, Downgrades
  <2> QED
    BY <2>1, <2>2, Revision2
<1>3. CASE r > 2
  <2>1. SchemaOf(r - 1) = c[r - 2] /\ SchemaOf(r) = c[r - 1]
    BY <1>3 DEF SchemaOf
  <2>2. r \in 3 .. 8
    BY <1>3
  <2>3. /\ Upgrades[3] = Upgrade_0003 /\ Downgrades[3] = Downgrade_0003
        /\ Upgrades[4] = Upgrade_0004 /\ Downgrades[4] = Downgrade_0004
        /\ Upgrades[5] = Upgrade_0005 /\ Downgrades[5] = Downgrade_0005
        /\ Upgrades[6] = Upgrade_0006 /\ Downgrades[6] = Downgrade_0006
        /\ Upgrades[7] = Upgrade_0007 /\ Downgrades[7] = Downgrade_0007
        /\ Upgrades[8] = Upgrade_0008 /\ Downgrades[8] = Downgrade_0008
    BY DEF Upgrades, Downgrades
  <2>4. /\ Undoes(c[3 - 2], Upgrades[3], c[3 - 1], Downgrades[3])
        /\ Undoes(c[4 - 2], Upgrades[4], c[4 - 1], Downgrades[4])
        /\ Undoes(c[5 - 2], Upgrades[5], c[5 - 1], Downgrades[5])
        /\ Undoes(c[6 - 2], Upgrades[6], c[6 - 1], Downgrades[6])
        /\ Undoes(c[7 - 2], Upgrades[7], c[7 - 1], Downgrades[7])
        /\ Undoes(c[8 - 2], Upgrades[8], c[8 - 1], Downgrades[8])
    BY <2>3, LaterRevisions
  <2> HIDE DEF c
  <2>5. Undoes(c[r - 2], Upgrades[r], c[r - 1], Downgrades[r])
    BY <2>2, <2>4
  <2> QED
    BY <2>1, <2>5
<1> QED
  BY <1>1, <1>2, <1>3

LEMMA EightRevisions ==
  /\ Upgrades \in Seq({Upgrades[i] : i \in 1 .. 8}) /\ Len(Upgrades) = 8
  /\ Downgrades \in Seq({Downgrades[i] : i \in 1 .. 8}) /\ Len(Downgrades) = 8
  /\ Head_ = 8
<1>1. Len(Upgrades) = 8 /\ Upgrades = [i \in 1 .. 8 |-> Upgrades[i]]
  BY DEF Upgrades
<1>2. Len(Downgrades) = 8 /\ Downgrades = [i \in 1 .. 8 |-> Downgrades[i]]
  BY DEF Downgrades
<1>3. /\ Upgrades \in [1 .. 8 -> {Upgrades[i] : i \in 1 .. 8}]
      /\ Downgrades \in [1 .. 8 -> {Downgrades[i] : i \in 1 .. 8}]
  BY <1>1, <1>2
<1> QED
  BY <1>1, <1>2, <1>3, SeqDef DEF Head_

LEMMA PartOf ==
  ASSUME NEW X, NEW s \in Seq(X), NEW m \in 1 .. Len(s), NEW n \in m .. Len(s)
  PROVE  /\ Len(SubSeq(s, m, n)) = n - m + 1
         /\ SubSeq(s, m, n) = [i \in 1 .. n - m + 1 |-> SubSeq(s, m, n)[i]]
         /\ \A i \in 1 .. n - m + 1 : SubSeq(s, m, n)[i] = s[m + i - 1]
<1> DEFINE t == SubSeq(s, m, n)
<1>1. \A i \in m .. n : s[i] \in X
  OBVIOUS
<1>2. m \in Int /\ n \in Int /\ m <= n
  OBVIOUS
<1>3. /\ t \in Seq(X) /\ Len(t) = IF m <= n THEN n - m + 1 ELSE 0
      /\ \A i \in 1 .. n - m + 1 : t[i] = s[m + i - 1]
  BY <1>1, <1>2, SubSeqProperties
<1> HIDE DEF t
<1>4. t = [i \in 1 .. Len(t) |-> t[i]]
  BY <1>3
<1> QED
  BY <1>2, <1>3, <1>4 DEF t

\* A catalog of revision r: that of a new database too, while it has no extensions.
IsSchema(c, r) == c = SchemaOf(r) \/ (r = 0 /\ c = Empty)

LEMMA UpgradesRun ==
  ASSUME NEW from \in 0 .. 8, NEW to \in 0 .. 8, from < to, NEW c, IsSchema(c, from)
  PROVE  Runs(c, Scripts(from, to), SchemaOf(to))
<1> DEFINE N == to - from
           seqs == SubSeq(Upgrades, from + 1, to)
           at == [i \in 0 .. N |-> IF i = 0 THEN c ELSE SchemaOf(from + i)]
<1>1. /\ N \in Nat /\ Len(seqs) = N
      /\ seqs = [i \in 1 .. N |-> seqs[i]]
      /\ \A i \in 1 .. N : seqs[i] = Upgrades[from + i]
  <2>1. /\ N \in Nat /\ N = to - (from + 1) + 1
        /\ from + 1 \in 1 .. Len(Upgrades) /\ to \in from + 1 .. Len(Upgrades)
    BY EightRevisions
  <2>2. Len(seqs) = N /\ seqs = [i \in 1 .. N |-> seqs[i]]
        /\ \A i \in 1 .. N : seqs[i] = Upgrades[(from + 1) + i - 1]
    BY <2>1, PartOf, EightRevisions
  <2>3. \A i \in 1 .. N : (from + 1) + i - 1 = from + i
    OBVIOUS
  <2> HIDE DEF seqs, N
  <2> QED
    BY <2>1, <2>2, <2>3
<1>2. at[0] = c /\ at[N] = SchemaOf(to)
  BY <1>1
<1>3. ASSUME NEW i \in 1 .. N
      PROVE  Runs(at[i - 1], seqs[i], at[i])
  <2> DEFINE r == from + i
  <2>1. r \in 1 .. 8 /\ r - 1 = from + (i - 1) /\ i \in 0 .. N /\ i - 1 \in 0 .. N
    OBVIOUS
  <2>2. at[i] = SchemaOf(r) /\ seqs[i] = Upgrades[r]
    BY <1>1, <2>1
  <2>3. at[i - 1] = IF i = 1 THEN c ELSE SchemaOf(r - 1)
    BY <2>1
  <2>4. i = 1 => r - 1 = from
    OBVIOUS
  <2> HIDE DEF at, seqs, r, N
  <2>5. Runs(SchemaOf(r - 1), Upgrades[r], SchemaOf(r))
    BY <2>1, RevisionsInvert DEF Undoes
  <2>6. CASE at[i - 1] = SchemaOf(r - 1)
    BY <2>2, <2>5, <2>6
  <2>7. CASE at[i - 1] # SchemaOf(r - 1)
    <3>1. at[i - 1] = Empty /\ r - 1 = 0
      BY <2>3, <2>4, <2>7 DEF IsSchema
    <3>2. r = 1 /\ SchemaOf(r) = NewCatalog /\ Upgrades[r] = Upgrade_0001
      BY <2>1, <3>1 DEF SchemaOf, Upgrades
    <3> QED
      BY <2>2, <3>1, <3>2, FirstRevision
  <2> QED
    BY <2>6, <2>7
<1>4. Scripts(from, to) = FlattenSeq(seqs)
  BY DEF Scripts
<1> HIDE DEF at, seqs, N
<1>5. Runs(at[0], FlattenSeq(seqs), at[N])
  BY <1>1, <1>3, RunsFlat
<1> QED
  BY <1>2, <1>4, <1>5

LEMMA DowngradesRun ==
  ASSUME NEW from \in 0 .. 8, NEW to \in 0 .. 8, to < from
  PROVE  Runs(SchemaOf(from), Scripts(from, to), SchemaOf(to))
<1> DEFINE N == from - to
           part == SubSeq(Downgrades, to + 1, from)
           seqs == Reverse(part)
           at == [i \in 0 .. N |-> SchemaOf(from - i)]
<1>1. /\ N \in Nat /\ Len(part) = N
      /\ \A i \in 1 .. N : part[i] = Downgrades[to + i]
  <2>1. /\ N \in Nat /\ N = from - (to + 1) + 1
        /\ to + 1 \in 1 .. Len(Downgrades) /\ from \in to + 1 .. Len(Downgrades)
    BY EightRevisions
  <2>2. Len(part) = N /\ part = [i \in 1 .. N |-> part[i]]
        /\ \A i \in 1 .. N : part[i] = Downgrades[(to + 1) + i - 1]
    BY <2>1, PartOf, EightRevisions
  <2>3. \A i \in 1 .. N : (to + 1) + i - 1 = to + i
    OBVIOUS
  <2> HIDE DEF part, N
  <2> QED
    BY <2>1, <2>2, <2>3
<1>2. Scripts(from, to) = FlattenSeq(seqs)
  BY DEF Scripts
<1> HIDE DEF part
<1>3. seqs = [i \in 1 .. N |-> part[(N - i) + 1]]
  BY <1>1 DEF Reverse
<1> HIDE DEF seqs
<1>4. Len(seqs) = N /\ seqs = [i \in 1 .. N |-> seqs[i]]
  BY <1>1, <1>3, EachIsScript
<1>5. \A i \in 1 .. N : seqs[i] = Downgrades[(from - i) + 1]
  <2> TAKE i \in 1 .. N
  <2>1. (N - i) + 1 \in 1 .. N /\ to + ((N - i) + 1) = (from - i) + 1
    OBVIOUS
  <2> QED
    BY <1>1, <1>3, <2>1
<1>6. at[0] = SchemaOf(from) /\ at[N] = SchemaOf(to)
  <2>1. from - 0 = from /\ from - N = to /\ 0 \in 0 .. N /\ N \in 0 .. N
    OBVIOUS
  <2> QED
    BY <2>1
<1>7. ASSUME NEW i \in 1 .. N
      PROVE  Runs(at[i - 1], seqs[i], at[i])
  <2> DEFINE r == (from - i) + 1
  <2>1. r \in 1 .. 8 /\ from - (i - 1) = r /\ from - i = r - 1 /\ i \in 0 .. N /\ i - 1 \in 0 .. N
    OBVIOUS
  <2>2. at[i] = SchemaOf(r - 1) /\ at[i - 1] = SchemaOf(r) /\ seqs[i] = Downgrades[r]
    BY <1>5, <2>1
  <2> HIDE DEF at, r, N
  <2>3. Runs(SchemaOf(r), Downgrades[r], SchemaOf(r - 1))
    BY <2>1, RevisionsInvert DEF Undoes
  <2> QED
    BY <2>2, <2>3
<1> HIDE DEF at, N
<1>8. Runs(at[0], FlattenSeq(seqs), at[N])
  BY <1>1, <1>4, <1>7, RunsFlat
<1> QED
  BY <1>2, <1>6, <1>8

\* A command from any revision to another succeeds and leaves the catalog of its target.
LEMMA CommandsSucceed ==
  ASSUME NEW from \in 0 .. 8, NEW to \in 0 .. 8, from # to, NEW c, IsSchema(c, from)
  PROVE  RunScript(c, Scripts(from, to)) = [ok |-> TRUE, catalog |-> SchemaOf(to)]
<1>1. CASE from < to
  BY <1>1, UpgradesRun, RunsSucceed
<1>2. CASE to < from
  <2>1. c = SchemaOf(from)
    BY <1>2 DEF IsSchema
  <2> QED
    BY <1>2, <2>1, DowngradesRun, RunsSucceed
<1> QED
  BY <1>1, <1>2

LEMMA NothingFlat == FlattenSeq(<<>>) = <<>>
<1> DEFINE s == <<>>
<1>1. Len(s) = 0
  OBVIOUS
<1> HIDE DEF s
<1>2. FlattenSeq(s) = <<>>
  BY <1>1 DEF FlattenSeq
<1> QED
  BY <1>2 DEF s

\* The schema of a revision is what the upgrades make of an empty database.
LEMMA BuiltFromNothing ==
  ASSUME NEW r \in 0 .. 8
  PROVE  CatalogOf[r] = IF r = 0 THEN Empty ELSE SchemaOf(r)
<1>1. CatalogOf[r] = RunScript(Empty, Scripts(0, r)).catalog
  BY EightRevisions DEF CatalogOf
<1>2. CASE r = 0
  <2>1. SubSeq(Upgrades, 0 + 1, 0) = <<>>
    BY EightRevisions
  <2>2. FlattenSeq(<<>>) = <<>>
    BY NothingFlat
  <2>a. 0 <= r
    OBVIOUS
  <2>3. Scripts(0, r) = <<>>
    BY <1>2, <2>a, <2>1, <2>2, Zenon DEF Scripts
  <2>4. RunScript(Empty, <<>>) = [ok |-> TRUE, catalog |-> Empty]
    BY RunsNothing, RunsSucceed
  <2>5. [ok |-> TRUE, catalog |-> Empty].catalog = Empty
    OBVIOUS
  <2> QED
    BY <1>1, <1>2, <2>3, <2>4, <2>5
<1>3. CASE r # 0
  <2>1. RunScript(Empty, Scripts(0, r)) = [ok |-> TRUE, catalog |-> SchemaOf(r)]
    BY <1>3, CommandsSucceed DEF IsSchema
  <2>2. [ok |-> TRUE, catalog |-> SchemaOf(r)].catalog = SchemaOf(r)
    OBVIOUS
  <2> QED
    BY <1>1, <1>3, <2>1, <2>2
<1> QED
  BY <1>2, <1>3

LEMMA NoExtensions ==
  ASSUME NEW T, NEW Y, NEW E, NEW F, NEW G, NEW U, NEW I
  PROVE  [Cat(T, Y, E, F, G, U, I) EXCEPT !.extensions = {}] = Cat(T, Y, {}, F, G, U, I)
<1> DEFINE c == Cat(T, Y, E, F, G, U, I)
           x == {}
<1>1. /\ c.tables = T /\ c.types = Y /\ c.functions = F
      /\ c.triggers = G /\ c.unique = U /\ c.indexed = I
      /\ DOMAIN c
         = {"tables", "types", "extensions", "functions", "triggers", "unique", "indexed"}
      /\ c = [y \in DOMAIN c |-> c[y]]
  BY DEF Cat
<1> HIDE DEF c, x
<1>2. [c EXCEPT !.extensions = x] = Cat(T, Y, x, F, G, U, I)
  BY <1>1, SMT DEF Cat
<1> QED
  BY <1>2 DEF c, x

\* A database at revision 0 differs from an empty one in its extensions.
LEMMA SameButExtensions ==
  ASSUME NEW c, NEW r \in 0 .. 8, IsSchema(c, r)
  PROVE  [c EXCEPT !.extensions = {}] = [CatalogOf[r] EXCEPT !.extensions = {}]
<1>1. /\ [NewCatalog EXCEPT !.extensions = {}] = Empty
      /\ [Empty EXCEPT !.extensions = {}] = Empty
  BY NoExtensions, EmptyIs DEF NewCatalog
<1>2. CASE r # 0
  BY <1>2, BuiltFromNothing DEF IsSchema
<1>3. CASE r = 0
  <2>1. CatalogOf[r] = Empty /\ c \in {NewCatalog, Empty}
    BY <1>3, BuiltFromNothing DEF IsSchema, SchemaOf
  <2> QED
    BY <1>1, <2>1
<1> QED
  BY <1>2, <1>3

-----------------------------------------------------------------------------
(* The head revision and the mapped classes                                *)

\* What the last revision's tables are.
LEMMA HeadTables ==
  /\ Tables_8 = [m \in DOMAIN Tables_8 |-> Tables_8[m]]
  /\ \A m \in Names_2 \ {"analyses"} : Tables_8[m] = TablesOf_0002[m]
  /\ Tables_8["analyses"] = Analyses_6
  /\ Tables_8["refresh_events"] = refresh_events
  /\ Tables_8["chat_sessions"] = chat_sessions
  /\ Tables_8["chat_messages"] = chat_messages
  /\ Tables_8["user_settings"] = user_settings
  /\ Tables_8["analysis_outcomes"] = analysis_outcomes
  /\ Tables_8["specialist_cache"] = specialist_cache
  /\ Tables_8["report_critiques"] = report_critiques
<1>1. Extended(Tables_8, Tables_7, "report_critiques", report_critiques)
  BY WithExtends DEF Tables_8
<1>2. \A m \in Names_4 \cup {"analysis_outcomes"} : Tables_8[m] = Tables_6[m]
  BY Names6, Names8
<1>3. \A m \in Names_4 \ {"analyses"} : Tables_8[m] = Tables_4[m]
  BY <1>2, Names6
<1>4. {"refresh_events", "chat_sessions", "chat_messages", "user_settings"} \subseteq Names_4 \ {"analyses"}
  BY DEF Names_4
<1>5. Names_2 \subseteq Names_4 /\ "analyses" \in Names_4 /\ "analysis_outcomes" \notin Names_4
  BY DEF Names_4, Names_2
<1>6. Tables_8["analyses"] = Analyses_6 /\ Tables_8["analysis_outcomes"] = analysis_outcomes
  BY <1>2, <1>5, Names6
<1>7. Tables_8["specialist_cache"] = specialist_cache
  BY Names8
<1> QED
  BY <1>1, <1>3, <1>4, <1>5, <1>6, <1>7, Names4, Names8 DEF Extended

\* Each table of the migrations is that of its class.
LEMMA SameTables ==
  /\ tickers = Orm!Ticker
  /\ prices_daily = Orm!PriceDaily
  /\ prices_intraday = Orm!PriceIntraday
  /\ fundamentals_quarterly = Orm!FundamentalsQuarterly
  /\ filings = Orm!Filing
  /\ filing_chunks = Orm!FilingChunk
  /\ macro_series = Orm!MacroSeries
  /\ news_items = Orm!NewsItem
  /\ insider_transactions = Orm!InsiderTransaction
  /\ institutional_holdings = Orm!InstitutionalHolding
  /\ analysis_specialist_outputs = Orm!AnalysisSpecialistOutput
  /\ watchlist = Orm!Watchlist
  /\ positions = Orm!Position
  /\ agent_prompts = Orm!AgentPrompt
  /\ refresh_events = Orm!RefreshEvent
  /\ chat_sessions = Orm!ChatSession
  /\ chat_messages = Orm!ChatMessage
  /\ user_settings = Orm!UserSettings
  /\ analysis_outcomes = Orm!AnalysisOutcome
  /\ specialist_cache = Orm!SpecialistCache
  /\ report_critiques = Orm!ReportCritique
  /\ Analyses_6 = Orm!Analysis
<1>1. tickers = Orm!Ticker
  BY DEF tickers, Orm!Ticker, Stamps, Orm!Stamps, OfTicker, Orm!OfTicker
<1>2. prices_daily = Orm!PriceDaily
  BY DEF prices_daily, Orm!PriceDaily, Stamps, Orm!Stamps, OfTicker, Orm!OfTicker
<1>3. prices_intraday = Orm!PriceIntraday
  BY DEF prices_intraday, Orm!PriceIntraday, Stamps, Orm!Stamps, OfTicker, Orm!OfTicker
<1>4. fundamentals_quarterly = Orm!FundamentalsQuarterly
  BY DEF fundamentals_quarterly, Orm!FundamentalsQuarterly, Stamps, Orm!Stamps, OfTicker, Orm!OfTicker
<1>5. filings = Orm!Filing
  BY DEF filings, Orm!Filing, Stamps, Orm!Stamps, OfTicker, Orm!OfTicker
<1>6. filing_chunks = Orm!FilingChunk
  BY DEF filing_chunks, Orm!FilingChunk, Stamps, Orm!Stamps, OfTicker, Orm!OfTicker
<1>7. macro_series = Orm!MacroSeries
  BY DEF macro_series, Orm!MacroSeries, Stamps, Orm!Stamps, OfTicker, Orm!OfTicker
<1>8. news_items = Orm!NewsItem
  BY DEF news_items, Orm!NewsItem, Stamps, Orm!Stamps, OfTicker, Orm!OfTicker
<1>9. insider_transactions = Orm!InsiderTransaction
  BY DEF insider_transactions, Orm!InsiderTransaction, Stamps, Orm!Stamps, OfTicker, Orm!OfTicker
<1>10. institutional_holdings = Orm!InstitutionalHolding
  BY DEF institutional_holdings, Orm!InstitutionalHolding, Stamps, Orm!Stamps, OfTicker, Orm!OfTicker
<1>11. analysis_specialist_outputs = Orm!AnalysisSpecialistOutput
  BY DEF analysis_specialist_outputs, Orm!AnalysisSpecialistOutput, Stamps, Orm!Stamps, OfTicker, Orm!OfTicker
<1>12. watchlist = Orm!Watchlist
  BY DEF watchlist, Orm!Watchlist, Stamps, Orm!Stamps, OfTicker, Orm!OfTicker
<1>13. positions = Orm!Position
  BY DEF positions, Orm!Position, Stamps, Orm!Stamps, OfTicker, Orm!OfTicker
<1>14. agent_prompts = Orm!AgentPrompt
  BY DEF agent_prompts, Orm!AgentPrompt, Stamps, Orm!Stamps, OfTicker, Orm!OfTicker
<1>15. refresh_events = Orm!RefreshEvent
  BY DEF refresh_events, Orm!RefreshEvent, Stamps, Orm!Stamps, OfTicker, Orm!OfTicker
<1>16. chat_sessions = Orm!ChatSession
  BY DEF chat_sessions, Orm!ChatSession, Stamps, Orm!Stamps, OfTicker, Orm!OfTicker
<1>17. chat_messages = Orm!ChatMessage
  BY DEF chat_messages, Orm!ChatMessage, Stamps, Orm!Stamps, OfTicker, Orm!OfTicker
<1>18. user_settings = Orm!UserSettings
  BY DEF user_settings, Orm!UserSettings, Stamps, Orm!Stamps, OfTicker, Orm!OfTicker
<1>19. analysis_outcomes = Orm!AnalysisOutcome
  BY DEF analysis_outcomes, Orm!AnalysisOutcome, Stamps, Orm!Stamps, OfTicker, Orm!OfTicker
<1>20. specialist_cache = Orm!SpecialistCache
  BY DEF specialist_cache, Orm!SpecialistCache, Stamps, Orm!Stamps, OfTicker, Orm!OfTicker
<1>21. report_critiques = Orm!ReportCritique
  BY DEF report_critiques, Orm!ReportCritique, Stamps, Orm!Stamps, OfTicker, Orm!OfTicker
<1>22. Analyses_6 = Orm!Analysis
  <2> DEFINE c == Analyses_6.cols
             d == Orm!Analysis.cols
             y == Analyses_6.types
             z == Orm!Analysis.types
  <2>1. c = d
    BY DEF Analyses_6, Analyses_5, analyses, Orm!Analysis, Stamps, Orm!Stamps
  <2>2. y = z
    BY DEF Analyses_6, Analyses_5, analyses, Orm!Analysis
  <2>3. /\ Analyses_6.pk = Orm!Analysis.pk /\ Analyses_6.uniq = Orm!Analysis.uniq
        /\ Analyses_6.fks = Orm!Analysis.fks
    BY DEF Analyses_6, analyses, Orm!Analysis, OfTicker, Orm!OfTicker
  <2>4. /\ Analyses_6 = [cols |-> c, pk |-> Analyses_6.pk, uniq |-> Analyses_6.uniq,
                         fks |-> Analyses_6.fks, types |-> y]
        /\ Orm!Analysis = [cols |-> d, pk |-> Orm!Analysis.pk, uniq |-> Orm!Analysis.uniq,
                           fks |-> Orm!Analysis.fks, types |-> z]
    BY DEF Analyses_6, Orm!Analysis
  <2> HIDE DEF c, d, y, z
  <2> QED
    BY <2>1, <2>2, <2>3, <2>4
<1> QED
  BY <1>1, <1>2, <1>3, <1>4, <1>5, <1>6, <1>7, <1>8, <1>9, <1>10, <1>11, <1>12, <1>13, <1>14,
     <1>15, <1>16, <1>17, <1>18, <1>19, <1>20, <1>21, <1>22

LEMMA HeadTablesAreModels == Tables_8 = Orm!Models
<1>1. DOMAIN Tables_8 = DOMAIN Orm!Models
  BY Names8 DEF Names_4, Names_2, Orm!Models
<1>2. Orm!Models = [m \in DOMAIN Orm!Models |-> Orm!Models[m]]
  BY DEF Orm!Models
<1>3. ASSUME NEW m \in Names_2 \ {"analyses"}
      PROVE  TablesOf_0002[m] = Orm!Models[m]
  BY SameTables DEF TablesOf_0002, Names_2, Orm!Models
<1>4. Orm!Models["analyses"] = Orm!Analysis
  BY DEF Orm!Models
<1>5. /\ Orm!Models["refresh_events"] = Orm!RefreshEvent
      /\ Orm!Models["chat_sessions"] = Orm!ChatSession
      /\ Orm!Models["chat_messages"] = Orm!ChatMessage
      /\ Orm!Models["user_settings"] = Orm!UserSettings
      /\ Orm!Models["analysis_outcomes"] = Orm!AnalysisOutcome
      /\ Orm!Models["specialist_cache"] = Orm!SpecialistCache
      /\ Orm!Models["report_critiques"] = Orm!ReportCritique
  BY DEF Orm!Models
<1>6. \A m \in DOMAIN Tables_8 : Tables_8[m] = Orm!Models[m]
  <2> TAKE m \in DOMAIN Tables_8
  <2>1. CASE m \in Names_2 \ {"analyses"}
    BY <1>3, <2>1, HeadTables
  <2>2. CASE m = "analyses"
    BY <1>4, <2>2, HeadTables, SameTables
  <2>3. CASE m \notin Names_2
    BY <1>5, <2>3, HeadTables, SameTables, Names8 DEF Names_4
  <2> QED
    BY <2>1, <2>2, <2>3
<1>7. Tables_8 = [m \in DOMAIN Tables_8 |-> Tables_8[m]]
  BY HeadTables
<1> QED
  BY <1>1, <1>2, <1>6, <1>7

LEMMA HeadTypesAreEnums == Types_5 = Orm!Enums
<1>1. Extended(Types_3, ENUMS, "event_type", EVENT_TYPES)
      /\ Extended(Types_5, Types_3, "action_taken", ACTION_TAKEN_VALUES)
  BY WithExtends DEF Types_3, Types_5
<1>2. /\ DOMAIN Types_5 = DOMAIN Orm!Enums
      /\ "event_type" \notin DOMAIN ENUMS /\ "action_taken" \notin DOMAIN ENUMS
  BY Names2 DEF ENUMS, Orm!Enums
<1>3. Orm!Enums = [m \in DOMAIN Orm!Enums |-> Orm!Enums[m]]
  BY DEF Orm!Enums
<1>4. \A m \in DOMAIN ENUMS : ENUMS[m] = Orm!Enums[m]
  <2>1. /\ ENUMS["market_cap_bucket"] = Orm!Enums["market_cap_bucket"]
        /\ ENUMS["form_type"] = Orm!Enums["form_type"]
        /\ ENUMS["statement_type"] = Orm!Enums["statement_type"]
        /\ ENUMS["analysis_type"] = Orm!Enums["analysis_type"]
        /\ ENUMS["analysis_status"] = Orm!Enums["analysis_status"]
        /\ ENUMS["analysis_recommendation"] = Orm!Enums["analysis_recommendation"]
        /\ ENUMS["confidence"] = Orm!Enums["confidence"]
        /\ ENUMS["specialist_name"] = Orm!Enums["specialist_name"]
    BY DEF ENUMS, Orm!Enums
  <2>2. DOMAIN ENUMS = {"market_cap_bucket", "form_type", "statement_type", "analysis_type",
                        "analysis_status", "analysis_recommendation", "confidence",
                        "specialist_name"}
    BY DEF ENUMS
  <2> QED
    BY <2>1, <2>2
<1>5. EVENT_TYPES = Orm!Enums["event_type"] /\ ACTION_TAKEN_VALUES = Orm!Enums["action_taken"]
  BY DEF EVENT_TYPES, ACTION_TAKEN_VALUES, Orm!Enums
<1>6. /\ \A m \in DOMAIN ENUMS : Types_5[m] = ENUMS[m]
      /\ Types_5["event_type"] = EVENT_TYPES /\ Types_5["action_taken"] = ACTION_TAKEN_VALUES
  BY <1>1, <1>2, Names2 DEF Extended
<1>7. \A m \in DOMAIN Types_5 : Types_5[m] = Orm!Enums[m]
  BY <1>4, <1>5, <1>6, Names2
<1>8. Types_5 = [m \in DOMAIN Types_5 |-> Types_5[m]]
  BY <1>1 DEF Extended
<1> QED
  BY <1>2, <1>3, <1>7, <1>8

\* Every arbiter but one is a primary key or a unique constraint of its table.
LEMMA ArbitersAreKeys ==
  \A a \in Orm!Arbiters \ {<<"analyses", {"idempotency_key"}>>} :
     a[2] \in {Orm!Models[a[1]].pk} \cup Orm!Models[a[1]].uniq
<1> DEFINE Keyed(a) == a[2] \in {Orm!Models[a[1]].pk} \cup Orm!Models[a[1]].uniq
<1>1. Keyed(<<"tickers", {"symbol"}>>)
  BY DEF Orm!Models, Orm!Ticker
<1>2. Keyed(<<"prices_daily", {"symbol", "trade_date"}>>)
  BY DEF Orm!Models, Orm!PriceDaily
<1>3. Keyed(<<"prices_intraday", {"symbol", "bar_ts"}>>)
  BY DEF Orm!Models, Orm!PriceIntraday
<1>4. Keyed(<<"fundamentals_quarterly", {"symbol", "fiscal_period_end", "statement_type"}>>)
  BY DEF Orm!Models, Orm!FundamentalsQuarterly
<1>5. Keyed(<<"filings", {"accession_no"}>>)
  BY DEF Orm!Models, Orm!Filing
<1>6. Keyed(<<"macro_series", {"series_id", "observation_date"}>>)
  BY DEF Orm!Models, Orm!MacroSeries
<1>7. Keyed(<<"news_items", {"content_hash"}>>)
  BY DEF Orm!Models, Orm!NewsItem
<1>8. Keyed(<<"insider_transactions", {"symbol", "insider_name", "transaction_date", "shares",
                                        "transaction_type"}>>)
  BY DEF Orm!Models, Orm!InsiderTransaction
<1>9. Keyed(<<"analyses", {"analysis_id"}>>)
  BY DEF Orm!Models, Orm!Analysis
<1>10. Keyed(<<"analysis_specialist_outputs", {"analysis_id", "specialist_name"}>>)
  BY DEF Orm!Models, Orm!AnalysisSpecialistOutput
<1>11. Keyed(<<"analysis_outcomes", {"analysis_id"}>>)
  BY DEF Orm!Models, Orm!AnalysisOutcome
<1>12. Keyed(<<"specialist_cache", {"symbol", "specialist_name"}>>)
  BY DEF Orm!Models, Orm!SpecialistCache
<1>13. Keyed(<<"report_critiques", {"pdf_hash"}>>)
  BY DEF Orm!Models, Orm!ReportCritique
<1>14. Keyed(<<"watchlist", {"user_id", "symbol"}>>)
  BY DEF Orm!Models, Orm!Watchlist
<1>15. Keyed(<<"chat_sessions", {"session_id"}>>)
  BY DEF Orm!Models, Orm!ChatSession
<1>16. Keyed(<<"user_settings", {"user_id"}>>)
  BY DEF Orm!Models, Orm!UserSettings
<1>17. Keyed(<<"agent_prompts", {"specialist_name", "version"}>>)
  BY DEF Orm!Models, Orm!AgentPrompt
<1> HIDE DEF Keyed
<1>18. \A a \in Orm!Arbiters \ {<<"analyses", {"idempotency_key"}>>} : Keyed(a)
  BY <1>1, <1>2, <1>3, <1>4, <1>5, <1>6, <1>7, <1>8, <1>9, <1>10, <1>11, <1>12, <1>13, <1>14,
     <1>15, <1>16, <1>17, Zenon DEF Orm!Arbiters
<1> QED
  BY <1>18 DEF Keyed

\* What the code was written for is what the eight upgrades make of an empty database:
\* columns, keys, foreign keys, enum types and labels, and a unique key for every ON
\* CONFLICT clause (models.py, enums.py against migrations 0001-0008).
THEOREM SchemaServesCode == HeadServesModels
<1> DEFINE c == Later(Tables_8, Types_5, Unique_6, Indexed_8)
<1>1. CatalogOf[Head_] = c
  <2>1. CatalogOf[8] = SchemaOf(8)
    BY BuiltFromNothing
  <2>2. SchemaOf(8) = LaterCatalogs[7]
    BY DEF SchemaOf
  <2>3. LaterCatalogs[7] = c
    BY DEF LaterCatalogs
  <2> QED
    BY <2>1, <2>2, <2>3, EightRevisions
<1>2. c.tables = Orm!Models /\ c.types = Orm!Enums /\ c.unique = Unique_6
  BY HeadTablesAreModels, HeadTypesAreEnums DEF Later, Cat
<1> HIDE DEF c
<1>3. {"idempotency_key"} \in UniqueKeys(c, "analyses")
  <2>1. ByKey.on = "analyses" /\ ByKey.cols = {"idempotency_key"}
    BY DEF ByKey, Index
  <2>2. ByKey \in Range(Unique_6)
    <3>1. Extended(Unique_6, <<>>, "ix_analyses_idempotency_key", ByKey)
      BY WithExtends DEF Unique_6
    <3> QED
      BY <3>1, Names2 DEF Range, Extended
  <2>3. ByKey \in {j \in Range(c.unique) : j.on = "analyses"}
    BY <1>2, <2>1, <2>2
  <2>4. ByKey.cols \in {i.cols : i \in {j \in Range(c.unique) : j.on = "analyses"}}
    BY <2>3
  <2> QED
    BY <2>1, <2>4, Zenon DEF UniqueKeys
<1>4. ASSUME NEW a \in Orm!Arbiters
      PROVE  a[2] \in UniqueKeys(c, a[1])
  <2>1. CASE a = <<"analyses", {"idempotency_key"}>>
    <3>1. a[1] = "analyses" /\ a[2] = {"idempotency_key"}
      BY <2>1
    <3> QED
      BY <1>3, <3>1
  <2>2. CASE a # <<"analyses", {"idempotency_key"}>>
    <3>1. a[2] \in {c.tables[a[1]].pk} \cup c.tables[a[1]].uniq
      BY <1>2, <2>2, ArbitersAreKeys
    <3> QED
      BY <3>1, Zenon DEF UniqueKeys
  <2> QED
    BY <2>1, <2>2
<1>5. LET d == c
      IN  /\ d.tables = Orm!Models
          /\ d.types = Orm!Enums
          /\ \A a \in Orm!Arbiters : a[2] \in UniqueKeys(d, a[1])
  BY <1>2, <1>4
<1> QED
  BY <1>1, <1>5, Zenon DEF HeadServesModels

-----------------------------------------------------------------------------
(* Any number of commands                                                  *)

\* Nothing was ever refused, and the catalog is that of the recorded revision.
SchemaInv ==
    /\ version \in 0 .. 8
    /\ ~ refused
    /\ IsSchema(catalog, version)

LEMMA InitSchema == Init => SchemaInv
  BY DEF Init, SchemaInv, IsSchema

LEMMA MigrateSchema ==
  ASSUME SchemaInv, NEW target \in 0 .. Head_, Migrate(target)
  PROVE  SchemaInv'
<1> DEFINE result == RunScript(catalog, Scripts(version, target))
           done == SchemaOf(target)
<1>1. /\ version' = IF result.ok THEN target ELSE version
      /\ catalog' = IF result.ok THEN result.catalog ELSE catalog
      /\ refused' = (refused \/ ~ result.ok)
      /\ target # version
  BY DEF Migrate
<1>2. target \in 0 .. 8
  BY EightRevisions
<1>3. result = [ok |-> TRUE, catalog |-> done]
  BY <1>1, <1>2, CommandsSucceed DEF SchemaInv
<1> HIDE DEF result, done
<1>4. result.ok /\ result.catalog = done
  BY <1>3
<1>5. version' = target /\ catalog' = done /\ refused' = FALSE
  BY <1>1, <1>4, Zenon DEF SchemaInv
<1> QED
  BY <1>2, <1>5 DEF SchemaInv, IsSchema, done

\* Nothing else touches the schema.
LEMMA NextSchema == SchemaInv /\ [Next]_vars => SchemaInv'
<1> SUFFICES ASSUME SchemaInv, [Next]_vars PROVE SchemaInv'
  OBVIOUS
<1>1. ASSUME NEW target \in 0 .. Head_, Migrate(target) PROVE SchemaInv'
  BY <1>1, MigrateSchema
<1>2. CASE UNCHANGED schemaVars
  BY <1>2 DEF schemaVars, SchemaInv
<1> QED
  BY <1>1, <1>2 DEF Next, Ingesting, AddToWatchlist, vars

\* Whatever order operators upgrade and downgrade in, and however often, no statement is
\* refused and every downgrade undoes its upgrade (migrations 0001-0008).
THEOREM DowngradesUndoUpgrades == Spec => []ScriptsInvert
<1>1. SchemaInv => ScriptsInvert
  BY SameButExtensions DEF SchemaInv, ScriptsInvert
<1> QED
  BY InitSchema, NextSchema, <1>1, PTL DEF Spec

-----------------------------------------------------------------------------
(* The jobs                                                                *)


Fields == {"todo", "seed", "at", "text", "gone", "series", "open", "counted"}

\* The functions have their domains; nothing is said of what is left to do.
Shape ==
    /\ DOMAIN job = Jobs
    /\ \A j \in Jobs : DOMAIN job[j] = Fields
    /\ DOMAIN lock = Forms
    /\ DOMAIN chunks = Forms

InFiling(j) == job[j].at \in {"filed", "replaced"}

\* A transaction that has reached the filing holds its row, for a text of the filing.
HoldersHold ==
    \A j \in Jobs : InFiling(j) =>
        /\ Head(job[j].todo) \in Forms
        /\ lock[Head(job[j].todo)] = j
        /\ job[j].text \in Texts

\* Nobody else touches the chunks between the delete and the commit.
GoneIsAll ==
    \A j \in Jobs : job[j].at = "replaced" => job[j].gone = chunks[Head(job[j].todo)]

IdleIsEmpty == \A j \in Jobs : job[j].at = "idle" => job[j].counted = {}

IInv ==
    /\ Shape
    /\ HoldersHold
    /\ GoneIsAll
    /\ FilingChunksComplete
    /\ IdleIsEmpty
    /\ MacroCountsCommitted

USE DEF Forms

-----------------------------------------------------------------------------
LEMMA InitIInv == Init => IInv
  BY DEF Init, IngestInit, IInv, Shape, HoldersHold, GoneIsAll, FilingChunksComplete,
         IdleIsEmpty, MacroCountsCommitted, InFiling, NoJob, Fields

\* A step that leaves the data and the locks alone, and moves one job that is in no
\* filing to another place outside filings with nothing more counted.
LEMMA PlainStep ==
  ASSUME IInv, NEW j \in Jobs,
         UNCHANGED <<macro, chunks, lock>>, ~ InFiling(j),
         DOMAIN job' = Jobs, DOMAIN job'[j] = Fields,
         \A k \in Jobs \ {j} : job'[k] = job[k],
         ~ InFiling(j)',
         job'[j].counted = {} \/ (job'[j].counted \subseteq job[j].counted /\ job'[j].at # "idle")
  PROVE  IInv'
<1>1. Shape'
  BY DEF IInv, Shape
<1>2. HoldersHold'
  BY DEF IInv, HoldersHold, InFiling
<1>3. GoneIsAll'
  BY DEF IInv, GoneIsAll, InFiling
<1>4. FilingChunksComplete'
  BY DEF IInv, FilingChunksComplete
<1>5. IdleIsEmpty' /\ MacroCountsCommitted'
  BY DEF IInv, IdleIsEmpty, MacroCountsCommitted
<1> QED
  BY <1>1, <1>2, <1>3, <1>4, <1>5 DEF IInv

LEMMA StartIInv ==
  ASSUME IInv, NEW j \in Jobs, Start(j)
  PROVE  IInv'
<1> SUFFICES ASSUME NEW todo, NEW seed, Begin(j, todo, seed)
             PROVE  IInv'
  BY DEF Start, seed_ticker, command
<1>1. job' = [job EXCEPT ![j] = [NoJob EXCEPT !.todo = todo, !.seed = seed, !.at = "step",
                                              !.series = Series]]
  BY DEF Begin
<1>2. /\ DOMAIN job' = Jobs /\ DOMAIN job'[j] = Fields
      /\ \A k \in Jobs \ {j} : job'[k] = job[k]
      /\ job'[j].at = "step" /\ job'[j].counted = {}
  BY <1>1 DEF IInv, Shape, NoJob, Fields
<1>3. UNCHANGED <<macro, chunks, lock>> /\ job[j].at = "idle"
  BY DEF Begin, dataVars
<1> QED
  BY <1>2, <1>3, PlainStep DEF InFiling

\* The two ways a step is over; both leave the report alone.
LEMMA StepOver ==
  ASSUME IInv, NEW j \in Jobs, job' = Done(j) \/ job' = Skipped(j)
  PROVE  /\ DOMAIN job' = Jobs /\ DOMAIN job'[j] = Fields
         /\ \A k \in Jobs \ {j} : job'[k] = job[k]
         /\ job'[j].at = "step" /\ job'[j].counted = job[j].counted
  BY DEF IInv, Shape, Done, Skipped, Fields

LEMMA PlainJobStep ==
  ASSUME IInv, NEW j \in Jobs,
         \/ Profile(j)
         \/ ingest_fundamentals(j) \/ ingest_daily(j) \/ ingest_intraday(j)
         \/ ingest_insiders(j) \/ ingest_company_news(j)
         \/ StepFails(j)
         \/ \E f \in Forms : NoFiling(j, f)
         \/ MacroEnds(j)
  PROVE  IInv'
<1>1. /\ job' = Done(j) \/ job' = Skipped(j)
      /\ UNCHANGED <<macro, chunks, lock>>
      /\ job[j].at = "step"
  BY DEF Profile, ingest_fundamentals, ingest_daily, ingest_intraday, ingest_insiders,
         ingest_company_news, chunked_upsert, StepFails, NoFiling, MacroEnds, At, dataVars
<1> QED
  BY <1>1, StepOver, PlainStep DEF InFiling

LEMMA JobGoesStep ==
  ASSUME IInv, NEW j \in Jobs, JobEnds(j)
  PROVE  IInv'
<1>1. /\ job' = [job EXCEPT ![j] = NoJob]
      /\ UNCHANGED <<macro, chunks, lock>>
      /\ job[j].at = "step"
  BY DEF JobEnds, dataVars
<1>2. /\ DOMAIN job' = Jobs /\ DOMAIN job'[j] = Fields
      /\ \A k \in Jobs \ {j} : job'[k] = job[k]
      /\ job'[j].at = "idle" /\ job'[j].counted = {}
  BY <1>1 DEF IInv, Shape, NoJob, Fields
<1> QED
  BY <1>1, <1>2, PlainStep DEF InFiling

-----------------------------------------------------------------------------
(* Filings                                                                 *)

LEMMA UpsertFilingIInv ==
  ASSUME IInv, NEW j \in Jobs, NEW f \in Forms, NEW text \in Texts, UpsertFiling(j, f, text)
  PROVE  IInv'
<1>1. /\ job' = [job EXCEPT ![j].at = "filed", ![j].text = text]
      /\ lock' = [lock EXCEPT ![f] = j]
      /\ lock[f] = None
      /\ Head(job[j].todo) = f
      /\ UNCHANGED <<macro, chunks>>
      /\ job[j].at = "step"
  BY DEF UpsertFiling, may_upsert, At, dataVars
<1>2. /\ DOMAIN job' = Jobs /\ DOMAIN job'[j] = Fields
      /\ \A k \in Jobs \ {j} : job'[k] = job[k]
      /\ job'[j].at = "filed" /\ job'[j].text = text
      /\ job'[j].todo = job[j].todo /\ job'[j].counted = job[j].counted
  BY <1>1 DEF IInv, Shape, Fields
<1>3. Shape'
  BY <1>1, <1>2 DEF IInv, Shape
<1>4. HoldersHold'
  <2> SUFFICES ASSUME NEW k \in Jobs, InFiling(k)'
               PROVE  /\ Head(job'[k].todo) \in Forms
                      /\ lock'[Head(job'[k].todo)] = k
                      /\ job'[k].text \in Texts
    BY DEF HoldersHold
  <2>1. CASE k = j
    BY <2>1, <1>1, <1>2 DEF IInv, Shape
  <2>2. CASE k # j
    <3>1. /\ InFiling(k) /\ Head(job[k].todo) \in Forms
          /\ lock[Head(job[k].todo)] = k /\ job[k].text \in Texts
      BY <2>2, <1>2 DEF IInv, HoldersHold, InFiling
    <3>2. CASE Head(job[k].todo) = f
      BY <3>1, <3>2, <1>1, IngestAssumption DEF None
    <3>3. CASE Head(job[k].todo) # f
      BY <3>1, <3>3, <2>2, <1>1, <1>2 DEF IInv, Shape
    <3> QED
      BY <3>2, <3>3
  <2> QED
    BY <2>1, <2>2
<1>5. GoneIsAll'
  BY <1>1, <1>2 DEF IInv, GoneIsAll
<1>6. FilingChunksComplete' /\ IdleIsEmpty' /\ MacroCountsCommitted'
  BY <1>1, <1>2 DEF IInv, FilingChunksComplete, IdleIsEmpty, MacroCountsCommitted
<1> QED
  BY <1>3, <1>4, <1>5, <1>6 DEF IInv

\* What the three ways out of a filing have in common: j leaves, and its lock is free.
LEMMA LeaveFiling ==
  ASSUME IInv, NEW j \in Jobs, InFiling(j),
         lock' = Released(j),
         DOMAIN job' = Jobs, DOMAIN job'[j] = Fields,
         \A k \in Jobs \ {j} : job'[k] = job[k],
         ~ InFiling(j)',
         DOMAIN chunks' = Forms,
         \A f \in Forms : lock[f] # j => chunks'[f] = chunks[f]
  PROVE  /\ Shape' /\ HoldersHold' /\ GoneIsAll'
<1>1. \A f \in Forms : lock'[f] = IF lock[f] = j THEN None ELSE lock[f]
  BY DEF Released
<1>2. Shape'
  BY DEF IInv, Shape, Released
<1>3. \A k \in Jobs : InFiling(k)' =>
          /\ k # j /\ InFiling(k) /\ job'[k] = job[k]
          /\ Head(job[k].todo) \in Forms /\ lock[Head(job[k].todo)] = k
          /\ job[k].text \in Texts
  BY DEF IInv, HoldersHold, InFiling
<1>4. HoldersHold'
  BY <1>1, <1>3 DEF HoldersHold
<1>5. GoneIsAll'
  BY <1>3 DEF IInv, GoneIsAll, InFiling
<1> QED
  BY <1>2, <1>4, <1>5

LEMMA FilingFailsIInv ==
  ASSUME IInv, NEW j \in Jobs, FilingFails(j)
  PROVE  IInv'
<1>1. /\ job' = Skipped(j) /\ lock' = Released(j)
      /\ UNCHANGED <<macro, chunks>> /\ InFiling(j)
  BY DEF FilingFails, InFiling, dataVars
<1>2. /\ DOMAIN job' = Jobs /\ DOMAIN job'[j] = Fields
      /\ \A k \in Jobs \ {j} : job'[k] = job[k]
      /\ job'[j].at = "step" /\ job'[j].counted = job[j].counted
  BY <1>1, StepOver
<1>3. Shape' /\ HoldersHold' /\ GoneIsAll'
  BY <1>1, <1>2, LeaveFiling DEF IInv, Shape, InFiling
<1>4. FilingChunksComplete' /\ IdleIsEmpty' /\ MacroCountsCommitted'
  BY <1>1, <1>2 DEF IInv, FilingChunksComplete, IdleIsEmpty, MacroCountsCommitted
<1> QED
  BY <1>3, <1>4 DEF IInv

LEMMA CommitFilingIInv ==
  ASSUME IInv, NEW j \in Jobs, CommitFiling(j)
  PROVE  IInv'
<1> DEFINE f == Head(job[j].todo)
<1>1. /\ job' = Done(j) /\ lock' = Released(j)
      /\ UNCHANGED macro /\ InFiling(j)
  BY DEF CommitFiling, InFiling
<1>2. /\ DOMAIN job' = Jobs /\ DOMAIN job'[j] = Fields
      /\ \A k \in Jobs \ {j} : job'[k] = job[k]
      /\ job'[j].at = "step" /\ job'[j].counted = job[j].counted
  BY <1>1, StepOver
<1>3. f \in Forms /\ lock[f] = j /\ job[j].text \in Texts
  BY <1>1 DEF IInv, HoldersHold
\* The delete took all there was, so what is left is the new text's.
<1>4. /\ DOMAIN chunks' = Forms
      /\ \A g \in Forms \ {f} : chunks'[g] = chunks[g]
      /\ chunks'[f] = chunks[f] \/ chunks'[f] = RowsOf[job[j].text]
  <2>1. CASE job[j].at = "replaced" /\ chunks' = [chunks EXCEPT ![f] = (@ \ job[j].gone)
                                                          \cup RowsOf[job[j].text]]
    <3>1. job[j].gone = chunks[f]
      BY <2>1 DEF IInv, GoneIsAll
    <3>2. chunks'[f] = (chunks[f] \ chunks[f]) \cup RowsOf[job[j].text]
      BY <2>1, <3>1, <1>3 DEF IInv, Shape
    <3> QED
      BY <2>1, <3>2, <1>3 DEF IInv, Shape
  <2>2. CASE UNCHANGED chunks
    BY <2>2, <1>3 DEF IInv, Shape
  <2> QED
    BY <2>1, <2>2 DEF CommitFiling
<1>5. Shape' /\ HoldersHold' /\ GoneIsAll'
  BY <1>1, <1>2, <1>3, <1>4, LeaveFiling DEF InFiling
<1>6. FilingChunksComplete'
  BY <1>3, <1>4 DEF IInv, FilingChunksComplete
<1>7. IdleIsEmpty' /\ MacroCountsCommitted'
  BY <1>1, <1>2 DEF IInv, IdleIsEmpty, MacroCountsCommitted
<1> QED
  BY <1>5, <1>6, <1>7 DEF IInv

LEMMA ReplaceChunksIInv ==
  ASSUME IInv, NEW j \in Jobs, ReplaceChunks(j)
  PROVE  IInv'
<1> DEFINE f == Head(job[j].todo)
<1>1. /\ job' = [job EXCEPT ![j].at = "replaced", ![j].gone = chunks[f]]
      /\ UNCHANGED <<macro, chunks, lock>>
      /\ job[j].at = "filed"
  BY DEF ReplaceChunks, dataVars
<1>2. /\ DOMAIN job' = Jobs /\ DOMAIN job'[j] = Fields
      /\ \A k \in Jobs \ {j} : job'[k] = job[k]
      /\ job'[j].at = "replaced" /\ job'[j].gone = chunks[f]
      /\ job'[j].text = job[j].text
      /\ job'[j].todo = job[j].todo /\ job'[j].counted = job[j].counted
  BY <1>1 DEF IInv, Shape, Fields
<1>3. Shape' /\ HoldersHold'
  BY <1>1, <1>2 DEF IInv, Shape, HoldersHold, InFiling
<1>4. GoneIsAll'
  BY <1>1, <1>2 DEF IInv, GoneIsAll
<1>5. FilingChunksComplete' /\ IdleIsEmpty' /\ MacroCountsCommitted'
  BY <1>1, <1>2 DEF IInv, FilingChunksComplete, IdleIsEmpty, MacroCountsCommitted
<1> QED
  BY <1>3, <1>4, <1>5 DEF IInv

-----------------------------------------------------------------------------
(* Macro                                                                   *)

LEMMA UpsertSeriesIInv ==
  ASSUME IInv, NEW j \in Jobs, NEW s \in Series, UpsertSeries(j, s)
  PROVE  IInv'
<1>1. /\ job' = [job EXCEPT ![j].at = "series", ![j].open = s, ![j].counted = job[j].counted]
      /\ UNCHANGED <<macro, chunks, lock>>
      /\ job[j].at = "step"
  BY DEF UpsertSeries, counted_at_upsert, At, dataVars
<1>2. /\ DOMAIN job' = Jobs /\ DOMAIN job'[j] = Fields
      /\ \A k \in Jobs \ {j} : job'[k] = job[k]
      /\ job'[j].at = "series" /\ job'[j].counted = job[j].counted
  BY <1>1 DEF IInv, Shape, Fields
<1> QED
  BY <1>1, <1>2, PlainStep DEF InFiling

LEMMA SeriesFailsIInv ==
  ASSUME IInv, NEW j \in Jobs, SeriesFails(j)
  PROVE  IInv'
<1>1. /\ job' = NextSeries(j)
      /\ UNCHANGED <<macro, chunks, lock>>
      /\ job[j].at = "series"
  BY DEF SeriesFails, dataVars
<1>2. /\ DOMAIN job' = Jobs /\ DOMAIN job'[j] = Fields
      /\ \A k \in Jobs \ {j} : job'[k] = job[k]
      /\ job'[j].at = "step" /\ job'[j].counted = job[j].counted
  BY <1>1 DEF IInv, Shape, Fields, NextSeries
<1> QED
  BY <1>1, <1>2, PlainStep DEF InFiling

LEMMA CommitSeriesIInv ==
  ASSUME IInv, NEW j \in Jobs, CommitSeries(j)
  PROVE  IInv'
<1>1. /\ job' = [NextSeries(j) EXCEPT ![j].counted = @ \cup {job[j].open}]
      /\ macro' = macro \cup {job[j].open}
      /\ UNCHANGED <<chunks, lock>>
      /\ job[j].at = "series"
  BY DEF CommitSeries
<1>2. /\ DOMAIN job' = Jobs /\ DOMAIN job'[j] = Fields
      /\ \A k \in Jobs \ {j} : job'[k] = job[k]
      /\ job'[j].at = "step" /\ job'[j].counted = job[j].counted \cup {job[j].open}
  BY <1>1 DEF IInv, Shape, Fields, NextSeries
<1>3. Shape' /\ HoldersHold'
  BY <1>1, <1>2 DEF IInv, Shape, HoldersHold, InFiling
<1>4. GoneIsAll' /\ FilingChunksComplete'
  BY <1>1, <1>2 DEF IInv, GoneIsAll, FilingChunksComplete
<1>5. IdleIsEmpty' /\ MacroCountsCommitted'
  BY <1>1, <1>2 DEF IInv, IdleIsEmpty, MacroCountsCommitted
<1> QED
  BY <1>3, <1>4, <1>5 DEF IInv

-----------------------------------------------------------------------------
(* A job that dies, and the schema                                         *)

LEMMA JobDiesIInv ==
  ASSUME IInv, NEW j \in Jobs, JobDies(j)
  PROVE  IInv'
<1>1. /\ job' = [job EXCEPT ![j] = NoJob] /\ lock' = Released(j)
      /\ UNCHANGED <<macro, chunks>>
  BY DEF JobDies, dataVars
<1>2. /\ DOMAIN job' = Jobs /\ DOMAIN job'[j] = Fields
      /\ \A k \in Jobs \ {j} : job'[k] = job[k]
      /\ job'[j].at = "idle" /\ job'[j].counted = {}
  BY <1>1 DEF IInv, Shape, NoJob, Fields
<1>3. \A f \in Forms : lock'[f] = IF lock[f] = j THEN None ELSE lock[f]
  BY <1>1 DEF Released
<1>4. Shape'
  BY <1>1, <1>2 DEF IInv, Shape, Released
<1>5. HoldersHold'
  BY <1>2, <1>3 DEF IInv, HoldersHold, InFiling
<1>6. GoneIsAll' /\ FilingChunksComplete'
  BY <1>1, <1>2 DEF IInv, GoneIsAll, FilingChunksComplete
<1>7. IdleIsEmpty' /\ MacroCountsCommitted'
  BY <1>1, <1>2 DEF IInv, IdleIsEmpty, MacroCountsCommitted
<1> QED
  BY <1>4, <1>5, <1>6, <1>7 DEF IInv

\* A migration either keeps the rows or drops every one; nobody is counting.
LEMMA MigrateIInv ==
  ASSUME IInv, NEW target \in 0 .. Head_, Migrate(target)
  PROVE  IInv'
<1>1. /\ \A j \in Jobs : job[j].at = "idle"
      /\ UNCHANGED <<lock, job>>
      /\ macro' = macro \/ macro' = {}
      /\ chunks' = chunks \/ chunks' = [f \in Forms |-> {}]
  BY DEF Migrate, Kept
<1>2. Shape'
  BY <1>1 DEF IInv, Shape
<1>3. HoldersHold' /\ GoneIsAll'
  BY <1>1 DEF IInv, HoldersHold, GoneIsAll, InFiling
<1>4. FilingChunksComplete'
  BY <1>1 DEF IInv, FilingChunksComplete
<1>5. IdleIsEmpty' /\ MacroCountsCommitted'
  BY <1>1 DEF IInv, IdleIsEmpty, MacroCountsCommitted
<1> QED
  BY <1>2, <1>3, <1>4, <1>5 DEF IInv

LEMMA UnchangedIInv ==
  ASSUME IInv, UNCHANGED <<macro, chunks, lock, job>>
  PROVE  IInv'
  BY DEF IInv, Shape, HoldersHold, GoneIsAll, FilingChunksComplete, IdleIsEmpty,
         MacroCountsCommitted, InFiling

LEMMA NextIInv == IInv /\ [Next]_vars => IInv'
<1> SUFFICES ASSUME IInv, [Next]_vars PROVE IInv'
  OBVIOUS
<1>1. ASSUME NEW target \in 0 .. Head_, Migrate(target) PROVE IInv'
  BY <1>1, MigrateIInv
<1>2. CASE AddToWatchlist
  BY <1>2, UnchangedIInv DEF AddToWatchlist
<1>3. ASSUME NEW j \in Jobs, Start(j) PROVE IInv'
  BY <1>3, StartIInv
<1>4. ASSUME NEW j \in Jobs, JobStep(j) PROVE IInv'
  BY <1>4, PlainJobStep, UpsertFilingIInv, ReplaceChunksIInv, CommitFilingIInv, FilingFailsIInv,
     UpsertSeriesIInv, CommitSeriesIInv, SeriesFailsIInv, JobGoesStep, JobDiesIInv DEF JobStep
<1>5. CASE UNCHANGED vars
  BY <1>5, UnchangedIInv DEF vars, ingestVars, dataVars
<1> QED
  BY <1>1, <1>2, <1>3, <1>4, <1>5 DEF Next, Ingesting

LEMMA Inductive == Spec => []IInv
  BY InitIInv, NextIInv, PTL DEF Spec

\* The chunks of a filing are one whole parse of it, however jobs overlap, fail and
\* die (jobs/filings.py:95-185).
THEOREM ChunksStayComplete == Spec => []FilingChunksComplete
<1>1. IInv => FilingChunksComplete
  BY DEF IInv
<1> QED
  BY Inductive, <1>1, PTL

\* A running job's report counts committed series only (jobs/macro.py:80-122).
THEOREM CountsAreCommitted == Spec => []MacroCountsCommitted
<1>1. IInv => MacroCountsCommitted
  BY DEF IInv
<1> QED
  BY Inductive, <1>1, PTL

=============================================================================
