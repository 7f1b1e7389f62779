-------------------------- MODULE Calculations_proofs -------------------------
(***************************************************************************)
(* What the calculating parts of the service return, for every book of     *)
(* positions, every history of closes and every text, of any length: the   *)
(* decision outcomes (Outcomes), the filing chunker (Chunking) and the     *)
(* advisor's calculators (Portfolio).                                      *)
(***************************************************************************)
EXTENDS Portfolio, Outcomes, Chunking, Recursion_proofs, SequenceTheorems

-----------------------------------------------------------------------------
(* compute_outcomes                                                        *)

OutcomesInv ==
    /\ today \in Days
    /\ history \in [{"symbol", "spy"} -> [Days -> Closes]]

\* A lookup that found a close finds it again if nothing was written up to its row.
LEMMA LookupStands ==
  ASSUME NEW before \in [Days -> Closes], NEW after \in [Days -> Closes], NEW day \in Nat,
         \A d \in Examined(before, day) : after[d] = before[d],
         close_on_or_after(before, day) # NULL
  PROVE  close_on_or_after(after, day) = close_on_or_after(before, day)
<1> DEFINE LeastOf(S, m) == m \in S /\ \A y \in S : m =< y
<1>1. Days \subseteq Nat /\ \A n \in Nat, d \in Days : n <= d => n \in Days
  BY OutcomesAssumption DEF Days
<1>2. Rows(before, day) # {}
  BY DEF close_on_or_after
<1>3. Rows(before, day) \in SUBSET Nat /\ Rows(after, day) \in SUBSET Nat
  BY <1>1 DEF Rows
<1>4. PICK m : LeastOf(Rows(before, day), m)
  BY <1>2, <1>3, LeastNumber
<1>5. /\ m \in Days /\ m \in Nat /\ day <= m /\ m <= day + ScanDays /\ before[m] # NoRow
      /\ \A e \in day .. m - 1 : e \in Days /\ e <= day + ScanDays /\ before[e] = NoRow
  <2>1. m \in Days /\ m \in Nat /\ day <= m /\ m <= day + ScanDays /\ before[m] # NoRow
    BY <1>1, <1>4 DEF Rows
  <2>2. ASSUME NEW e \in day .. m - 1
        PROVE  e \in Days /\ e <= day + ScanDays /\ before[e] = NoRow
    <3>1. e \in Nat /\ day <= e /\ e < m
      BY <2>1
    <3>2. e \in Days /\ e <= day + ScanDays
      BY <1>1, <2>1, <3>1, OutcomesAssumption
    <3>3. ~ (m =< e)
      BY <2>1, <3>1
    <3>4. e \notin Rows(before, day)
      BY <1>4, <3>3
    <3> QED
      BY <3>1, <3>2, <3>4 DEF Rows
  <2> QED
    BY <2>1, <2>2
<1>6. m \in Examined(before, day) /\ day .. m - 1 \subseteq Examined(before, day)
  <2>1. m \in Examined(before, day)
    BY <1>5 DEF Examined
  <2>2. ASSUME NEW y \in day .. m - 1
        PROVE  y \in Examined(before, day)
    <3>1. \A e \in day .. y - 1 : e \in day .. m - 1
      BY <1>5
    <3> QED
      BY <1>5, <3>1 DEF Examined
  <2> QED
    BY <2>1, <2>2
<1>7. LeastOf(Rows(after, day), m) /\ after[m] = before[m]
  <2>1. m \in Rows(after, day) /\ after[m] = before[m]
    BY <1>5, <1>6 DEF Rows
  <2>2. ASSUME NEW y \in Rows(after, day), ~ (m =< y)
        PROVE  FALSE
    <3>1. y \in Nat /\ y \in day .. m - 1 /\ after[y] # NoRow
      BY <1>1, <1>5, <2>2 DEF Rows
    <3> QED
      BY <1>5, <1>6, <3>1
  <2> QED
    BY <2>1, <2>2
<1>8. ASSUME NEW S \in SUBSET Nat, LeastOf(S, m)
      PROVE  Min(S) = m
  <2>1. \A x \in S : (\A y \in S : x =< y) => x = m
    BY <1>8
  <2> QED
    BY <2>1, <1>8 DEF Min
<1>9. Min(Rows(before, day)) = m /\ Min(Rows(after, day)) = m
  <2> HIDE DEF LeastOf
  <2> QED
    BY <1>3, <1>4, <1>7, <1>8
<1>10. Rows(after, day) # {}
  BY <1>7
<1> QED
  BY <1>2, <1>7, <1>9, <1>10 DEF close_on_or_after

LEMMA OutcomesInitInv == OutcomesInit => OutcomesInv
  BY OutcomesAssumption DEF OutcomesInit, OutcomesInv, Days, Closes, NoRow

LEMMA OutcomesStepInv ==
  ASSUME OutcomesInv, [OutcomesNext]_outcomeVars
  PROVE  OutcomesInv' /\ today <= today'
<1>1. today \in Nat
  BY OutcomesAssumption DEF OutcomesInv, Days
<1>2. CASE IngestDaily
  <2>1. PICK s \in {"symbol", "spy"}, bars \in [0 .. today -> Closes] :
           history' = [history EXCEPT ![s] =
              [d \in Days |-> IF d <= today /\ bars[d] # NoRow THEN bars[d] ELSE @[d]]]
    BY <1>2 DEF IngestDaily
  <2>2. \A d \in Days : d <= today => d \in 0 .. today
    BY OutcomesAssumption DEF Days
  <2>3. [d \in Days |-> IF d <= today /\ bars[d] # NoRow THEN bars[d] ELSE history[s][d]]
           \in [Days -> Closes]
    BY <2>2 DEF OutcomesInv
  <2>4. history' \in [{"symbol", "spy"} -> [Days -> Closes]]
    BY <2>1, <2>3 DEF OutcomesInv
  <2> QED
    BY <1>1, <1>2, <2>4 DEF IngestDaily, OutcomesInv
<1>3. CASE DayEnds
  BY <1>1, <1>3, OutcomesAssumption DEF DayEnds, OutcomesInv, Days
<1>4. CASE UNCHANGED outcomeVars
  BY <1>1, <1>4 DEF outcomeVars, OutcomesInv
<1> QED
  BY <1>2, <1>3, <1>4 DEF OutcomesNext

LEMMA ReturnStands ==
  ASSUME OutcomesInv, OutcomesNext, NEW s \in {"symbol", "spy"}, NEW horizon \in Nat,
         Return(s, horizon) # NoReturn, ~ Rewritten(s, horizon)
  PROVE  Return(s, horizon)' = Return(s, horizon)
<1>1. /\ close_on_or_after(history[s], 0) # NULL /\ close_on_or_after(history[s], horizon) # NULL
      /\ ~ (horizon > today)
  BY DEF Return
<1>2. OutcomesInv' /\ today <= today'
  BY OutcomesStepInv
<1>3. history[s] \in [Days -> Closes] /\ history'[s] \in [Days -> Closes]
      /\ today \in Int /\ today' \in Int
  <2>1. history[s] \in [Days -> Closes] /\ today \in Int
    BY OutcomesAssumption DEF OutcomesInv, Days
  <2>2. history'[s] \in [Days -> Closes] /\ today' \in Int
    <3>1. today' \in Days /\ history' \in [{"symbol", "spy"} -> [Days -> Closes]]
      BY <1>2 DEF OutcomesInv, Days, Closes
    <3> QED
      BY <3>1, OutcomesAssumption DEF Days
  <2> QED
    BY <2>1, <2>2
<1>4. \A d \in Examined(history[s], 0) \cup Examined(history[s], horizon) :
         history'[s][d] = history[s][d]
  BY DEF Rewritten
<1>5. close_on_or_after(history'[s], 0) = close_on_or_after(history[s], 0)
  BY <1>1, <1>3, <1>4, LookupStands
<1>6. close_on_or_after(history'[s], horizon) = close_on_or_after(history[s], horizon)
  BY <1>1, <1>3, <1>4, LookupStands
<1>7. ~ (horizon > today')
  BY <1>1, <1>2, <1>3
<1> QED
  BY <1>1, <1>5, <1>6, <1>7 DEF Return

\* Whatever the horizons, the window and the closes, and however often the two jobs run,
\* with the price job rewriting whatever days it likes: a return that was computed, and a
\* hit decided against a known benchmark, change only in a step that writes a day they
\* were looked up from.
THEOREM DecidedOutcomesStand ==
  OutcomesInit /\ [][OutcomesNext]_outcomeVars => OutcomesFollowTheirCloses
<1>1. OutcomesInit => OutcomesInv
  BY OutcomesInitInv
<1>2. OutcomesInv /\ [OutcomesNext]_outcomeVars => OutcomesInv'
  BY OutcomesStepInv
<1>3. OutcomesInv /\ [OutcomesNext]_outcomeVars =>
        [\A horizon \in HORIZONS, recommendation \in {"buy", "sell"} :
            LET first == Outcome(recommendation, horizon) IN
            first.ret # NoReturn =>
                /\ Outcome(recommendation, horizon)'.ret # first.ret => Rewritten("symbol", horizon)
                /\ first.benchmark # NoReturn
                      /\ Outcome(recommendation, horizon)'.hit # first.hit =>
                         Rewritten("symbol", horizon) \/ Rewritten("spy", horizon)]_outcomeVars
  <2> SUFFICES ASSUME OutcomesInv, OutcomesNext,
                      NEW horizon \in HORIZONS, NEW recommendation \in {"buy", "sell"},
                      Return("symbol", horizon) # NoReturn, ~ Rewritten("symbol", horizon)
               PROVE  /\ Outcome(recommendation, horizon)'.ret = Return("symbol", horizon)
                      /\ Return("spy", horizon) # NoReturn /\ ~ Rewritten("spy", horizon) =>
                            Outcome(recommendation, horizon)'.hit =
                              Outcome(recommendation, horizon).hit
    BY DEF Outcome
  <2>1. horizon \in Nat
    BY OutcomesAssumption
  <2>2. Return("symbol", horizon)' = Return("symbol", horizon)
    BY <2>1, ReturnStands
  <2>3. Return("spy", horizon) # NoReturn /\ ~ Rewritten("spy", horizon) =>
           Return("spy", horizon)' = Return("spy", horizon)
    BY <2>1, ReturnStands
  <2> QED
    BY <2>2, <2>3 DEF Outcome
<1> QED
  BY <1>1, <1>2, <1>3, PTL DEF OutcomesFollowTheirCloses

-----------------------------------------------------------------------------
(* token_window                                                            *)

\* The window that starts at token i, and how much later the next one starts.
Piece(n, w, i) == i .. (IF i + w < n THEN i + w ELSE n) - 1

StepOf(w, o) == IF w > o THEN w - o ELSE 1

\* The equation of token_window's windows.
WindowsFrom(f, n, w, step) ==
    f = [i \in 0 .. n + step |->
           IF i >= n THEN <<>>
           ELSE <<Piece(n, w, i)>> \o (IF reaches_end(i, n, w) THEN <<>> ELSE f[i + step])]

\* It has a solution: a window ends nearer to the end than the one before.
LEMMA WindowsExist ==
  ASSUME NEW n \in Nat, NEW w \in Nat, NEW step \in Nat \ {0}
  PROVE  \E f : WindowsFrom(f, n, w, step)
<1> DEFINE S == 0 .. n + step
           T == Seq(SUBSET Int)
           rank == [i \in S |-> n + step - i]
           value(g, i) == IF i >= n THEN <<>>
                          ELSE <<Piece(n, w, i)>> \o (IF reaches_end(i, n, w) THEN <<>> ELSE g[i + step])
           body == [i \in S |-> [g \in [S -> T] |-> value(g, i)]]
<1>1. ASSUME NEW i \in S, NEW g \in [S -> T]
      PROVE  value(g, i) \in T
  <2>1. <<Piece(n, w, i)>> \in T /\ <<>> \in T
    BY DEF Piece
  <2>2. i < n => g[i + step] \in T
    OBVIOUS
  <2> HIDE DEF T
  <2>3. \A s, t \in T : s \o t \in T
    BY ConcatProperties DEF T
  <2> QED
    BY <2>1, <2>2, <2>3
<1>2. \A i \in S : \A g, h \in [S -> T] :
         (\A j \in S : rank[j] < rank[i] => g[j] = h[j]) => value(g, i) = value(h, i)
  <2> TAKE i \in S
  <2> TAKE g, h \in [S -> T]
  <2> HAVE \A j \in S : rank[j] < rank[i] => g[j] = h[j]
  <2>1. i < n => g[i + step] = h[i + step]
    OBVIOUS
  <2> QED
    BY <2>1
<1>3. rank \in [S -> Nat]
  OBVIOUS
<1>4. T # {}
  <2>1. <<>> \in T
    OBVIOUS
  <2> QED
    BY <2>1
<1>5. \A i \in S : \A g \in [S -> T] : body[i][g] = value(g, i)
  OBVIOUS
<1>6. body \in [S -> [[S -> T] -> T]]
  BY <1>1
<1> HIDE DEF body, value, rank, T, S
<1>7. \A i \in S : \A g, h \in [S -> T] :
         (\A j \in S : rank[j] < rank[i] => g[j] = h[j]) => body[i][g] = body[i][h]
  <2> TAKE i \in S
  <2> TAKE g, h \in [S -> T]
  <2> HAVE \A j \in S : rank[j] < rank[i] => g[j] = h[j]
  <2>1. value(g, i) = value(h, i)
    BY <1>2
  <2> QED
    BY <2>1, <1>5, Zenon
<1>8. Recursive(S, T, rank, body)
  BY <1>3, <1>6, <1>7, Zenon DEF Recursive
<1>9. PICK f : Solves(f, S, T, body)
  BY <1>4, <1>8, Recursion
<1>10. \A i \in S : f[i] = value(f, i)
  BY <1>5, <1>9, Zenon DEF Solves
<1> QED
  BY <1>10, <1>9 DEF WindowsFrom, value, S, Solves

\* token_window, with its recursion resolved.
LEMMA TokenWindow ==
  ASSUME NEW n \in Nat, NEW w \in Nat, NEW o \in Nat
  PROVE  \E f : /\ WindowsFrom(f, n, w, StepOf(w, o))
                /\ token_window(n, w, o) = IF n = 0 THEN <<>>
                                           ELSE IF n <= w THEN <<0 .. n - 1>>
                                           ELSE f[0]
<1> DEFINE f == CHOOSE g : WindowsFrom(g, n, w, StepOf(w, o))
<1>1. WindowsFrom(f, n, w, StepOf(w, o))
  BY WindowsExist DEF StepOf
<1>2. token_window(n, w, o) = IF n = 0 THEN <<>> ELSE IF n <= w THEN <<0 .. n - 1>> ELSE f[0]
  BY DEF token_window, WindowsFrom, StepOf, Piece
<1> QED
  BY <1>1, <1>2

\* The pieces from token i on: they begin with the window at i, hold every token from i
\* on, and each but the first follows one that starts a step earlier and is full.
Covers(p, n, w, step, i) ==
    /\ p \in Seq(SUBSET Int) /\ Len(p) > 0 /\ p[1] = Piece(n, w, i)
    /\ UNION {p[k] : k \in 1 .. Len(p)} = i .. n - 1
    /\ \A k \in 1 .. Len(p) : \E a \in i .. n - 1 :
          /\ p[k] = Piece(n, w, a)
          /\ k > 1 => i <= a - step /\ p[k - 1] = Piece(n, w, a - step) /\ a - step + w < n

\* The last window, and one window more in front.
LEMMA OnePiece ==
  ASSUME NEW n \in Nat, NEW w \in Nat \ {0}, NEW step, NEW i \in 0 .. n - 1, i + w >= n
  PROVE  Covers(<<Piece(n, w, i)>>, n, w, step, i)
<1> DEFINE p == <<Piece(n, w, i)>>
<1>1. Piece(n, w, i) = i .. n - 1 /\ Piece(n, w, i) \in SUBSET Int
  BY DEF Piece
<1>2. p \in Seq(SUBSET Int) /\ Len(p) = 1 /\ p[1] = Piece(n, w, i)
  BY <1>1
<1> HIDE DEF p
<1>3. 1 .. Len(p) = {1}
  BY <1>2
<1>4. UNION {p[k] : k \in 1 .. Len(p)} = p[1]
  BY <1>3
<1>5. \A k \in 1 .. Len(p) : k = 1
  BY <1>3
<1>6. Covers(p, n, w, step, i)
  BY <1>1, <1>2, <1>4, <1>5 DEF Covers
<1> QED
  BY <1>6 DEF p

LEMMA OneMorePiece ==
  ASSUME NEW n \in Nat, NEW w \in Nat \ {0}, NEW step \in 1 .. w, NEW i \in 0 .. n - 1,
         i + w < n, NEW q, Covers(q, n, w, step, i + step)
  PROVE  Covers(<<Piece(n, w, i)>> \o q, n, w, step, i)
<1> DEFINE p == <<Piece(n, w, i)>> \o q
<1>1. Piece(n, w, i) = i .. i + w - 1 /\ Piece(n, w, i) \in SUBSET Int
  BY DEF Piece
<1>2. /\ q \in Seq(SUBSET Int) /\ Len(q) \in Nat /\ Len(q) > 0 /\ q[1] = Piece(n, w, i + step)
      /\ UNION {q[k] : k \in 1 .. Len(q)} = i + step .. n - 1
  BY DEF Covers
<1>3. /\ p \in Seq(SUBSET Int) /\ Len(p) = Len(q) + 1 /\ p[1] = Piece(n, w, i)
      /\ \A k \in 1 .. Len(q) : p[k + 1] = q[k]
  <2>1. <<Piece(n, w, i)>> \in Seq(SUBSET Int) /\ Len(<<Piece(n, w, i)>>) = 1
        /\ <<Piece(n, w, i)>>[1] = Piece(n, w, i)
    BY <1>1
  <2> QED
    BY <1>2, <2>1, ConcatProperties
<1> HIDE DEF p
<1>4. UNION {p[k] : k \in 1 .. Len(p)} = i .. n - 1
  <2>1. \A k \in 1 .. Len(p) : k = 1 \/ (k - 1 \in 1 .. Len(q) /\ p[k] = q[k - 1])
    BY <1>2, <1>3
  <2>2. \A k \in 1 .. Len(q) : k + 1 \in 1 .. Len(p)
    BY <1>2, <1>3
  <2>3. 1 \in 1 .. Len(p)
    BY <1>2, <1>3
  <2>4. UNION {p[k] : k \in 1 .. Len(p)} = p[1] \cup UNION {q[k] : k \in 1 .. Len(q)}
    <3>1. ASSUME NEW x \in UNION {p[k] : k \in 1 .. Len(p)}
          PROVE  x \in p[1] \cup UNION {q[k] : k \in 1 .. Len(q)}
      <4>1. PICK k \in 1 .. Len(p) : x \in p[k]
        BY <3>1
      <4> QED
        BY <2>1, <4>1
    <3>2. ASSUME NEW x, NEW k \in 1 .. Len(q), x \in q[k]
          PROVE  x \in UNION {p[j] : j \in 1 .. Len(p)}
      <4>1. x \in p[k + 1] /\ k + 1 \in 1 .. Len(p)
        BY <1>3, <2>2, <3>2
      <4> QED
        BY <4>1, Zenon
    <3>3. p[1] \subseteq UNION {p[k] : k \in 1 .. Len(p)}
      BY <2>3, Zenon
    <3> QED
      BY <3>1, <3>2, <3>3, Zenon
  <2>5. (i .. i + w - 1) \cup (i + step .. n - 1) = i .. n - 1
    OBVIOUS
  <2> QED
    BY <1>1, <1>2, <1>3, <2>4, <2>5, Zenon
<1>5. ASSUME NEW k \in 1 .. Len(p)
      PROVE  \E a \in i .. n - 1 :
                /\ p[k] = Piece(n, w, a)
                /\ k > 1 => i <= a - step /\ p[k - 1] = Piece(n, w, a - step) /\ a - step + w < n
  <2>1. CASE k = 1
    BY <2>1, <1>3
  <2>2. CASE k = 2
    <3>1. p[2] = Piece(n, w, i + step) /\ p[2 - 1] = Piece(n, w, i)
      BY <1>2, <1>3
    <3>2. i + step \in i .. n - 1 /\ i + step - step = i
      OBVIOUS
    <3> QED
      BY <2>2, <3>1, <3>2
  <2>3. CASE k > 2
    <3>1. k - 1 \in 1 .. Len(q) /\ k - 1 > 1 /\ p[k] = q[k - 1] /\ p[k - 1] = q[k - 1 - 1]
      <4>1. k - 1 \in 1 .. Len(q) /\ k - 2 \in 1 .. Len(q) /\ k - 1 > 1
        BY <1>2, <1>3, <2>3
      <4>2. p[k - 1 + 1] = q[k - 1] /\ p[k - 2 + 1] = q[k - 2]
        BY <1>3, <4>1
      <4>3. k - 1 + 1 = k /\ k - 2 + 1 = k - 1 /\ k - 1 - 1 = k - 2
        OBVIOUS
      <4> QED
        BY <4>1, <4>2, <4>3
    <3>2. PICK a \in i + step .. n - 1 :
            /\ q[k - 1] = Piece(n, w, a)
            /\ k - 1 > 1 => i + step <= a - step /\ q[k - 1 - 1] = Piece(n, w, a - step)
                            /\ a - step + w < n
      BY <3>1 DEF Covers
    <3>3. a \in i .. n - 1 /\ i <= a - step
      BY <3>1, <3>2
    <3> QED
      BY <3>1, <3>2, <3>3
  <2> QED
    BY <2>1, <2>2, <2>3
<1>6. Len(p) > 0
  BY <1>2, <1>3
<1>7. Covers(p, n, w, step, i)
  BY <1>3, <1>4, <1>5, <1>6 DEF Covers
<1> QED
  BY <1>7 DEF p

\* By induction from the end, the windows from any token on cover the rest of the text.
LEMMA WindowsCover ==
  ASSUME NEW n \in Nat, NEW w \in Nat \ {0}, NEW step \in 1 .. w,
         NEW f, WindowsFrom(f, n, w, step)
  PROVE  \A i \in 0 .. n - 1 : Covers(f[i], n, w, step, i)
<1> DEFINE good == {d \in Nat : \A i \in 0 .. n - 1 : n - i <= d => Covers(f[i], n, w, step, i)}
<1>1. 0 \in good
  OBVIOUS
<1>2. ASSUME NEW d \in Nat, d \in good
      PROVE  d + 1 \in good
  <2> SUFFICES ASSUME NEW i \in 0 .. n - 1, n - i <= d + 1
               PROVE  Covers(f[i], n, w, step, i)
    OBVIOUS
  <2>1. f[i] = <<Piece(n, w, i)>> \o (IF reaches_end(i, n, w) THEN <<>> ELSE f[i + step])
    BY DEF WindowsFrom
  <2>2. CASE reaches_end(i, n, w)
    <3>1. <<Piece(n, w, i)>> \o <<>> = <<Piece(n, w, i)>>
      <4>1. <<Piece(n, w, i)>> \in Seq({Piece(n, w, i)})
        OBVIOUS
      <4> QED
        BY <4>1, ConcatEmptySeq
    <3>2. i + w >= n
      BY <2>2 DEF reaches_end
    <3>3. f[i] = <<Piece(n, w, i)>>
      BY <2>1, <2>2, <3>1
    <3> QED
      BY <3>2, <3>3, OnePiece
  <2>3. CASE ~ reaches_end(i, n, w)
    <3>1. i + w < n
      BY <2>3 DEF reaches_end
    <3>2. i + step \in 0 .. n - 1 /\ n - (i + step) <= d
      BY <3>1
    <3>3. Covers(f[i + step], n, w, step, i + step)
      BY <1>2, <3>2
    <3>4. f[i] = <<Piece(n, w, i)>> \o f[i + step]
      BY <2>1, <2>3
    <3> QED
      BY <3>1, <3>3, <3>4, OneMorePiece
  <2> QED
    BY <2>2, <2>3
<1> HIDE DEF good
<1>3. \A d \in Nat : d \in good
  BY <1>1, <1>2, Induction
<1>4. n \in good
  BY <1>3
<1> QED
  BY <1>4 DEF good

\* What ChunksCoverText says of the pieces of a text.
PiecesFit(pieces, n, w, o) ==
    /\ UNION {pieces[k] : k \in DOMAIN pieces} = 0 .. n - 1
    /\ \A k \in DOMAIN pieces :
          /\ Cardinality(pieces[k]) \in 1 .. w
          /\ k > 1 => /\ ~ (pieces[k] \subseteq pieces[k - 1])
                      /\ o < w => Cardinality(pieces[k] \cap pieces[k - 1]) = o

\* A piece has tokens and at most a window of them.
LEMMA PieceSizes ==
  ASSUME NEW n \in Nat, NEW w \in Nat \ {0}, NEW a \in 0 .. n - 1
  PROVE  Cardinality(Piece(n, w, a)) \in 1 .. w
<1>1. CASE a + w < n
  <2>1. Cardinality(a .. a + w - 1) = w
    BY FS_Interval
  <2> QED
    BY <1>1, <2>1 DEF Piece
<1>2. CASE ~ (a + w < n)
  <2>1. Cardinality(a .. n - 1) = n - 1 - a + 1
    BY FS_Interval
  <2> QED
    BY <1>2, <2>1 DEF Piece
<1> QED
  BY <1>1, <1>2

\* Two windows one step apart share the overlap, and neither holds the other.
LEMMA NeighbouringPieces ==
  ASSUME NEW n \in Nat, NEW w \in Nat \ {0}, NEW o \in Nat, NEW a \in 0 .. n - 1,
         0 <= a - StepOf(w, o), a - StepOf(w, o) + w < n
  PROVE  /\ ~ (Piece(n, w, a) \subseteq Piece(n, w, a - StepOf(w, o)))
         /\ o < w => Cardinality(Piece(n, w, a) \cap Piece(n, w, a - StepOf(w, o))) = o
<1> DEFINE step == StepOf(w, o)
<1>1. step \in 1 .. w /\ (o < w => step = w - o)
  BY DEF StepOf
<1> HIDE DEF step
<1>2. Piece(n, w, a - step) = a - step .. a - step + w - 1
  BY <1>1 DEF Piece, step
<1> DEFINE last == (IF a + w < n THEN a + w ELSE n) - 1
<1>3. last \in Int /\ a <= last /\ last > a - step + w - 1
  BY <1>1 DEF step
<1>4. Piece(n, w, a) = a .. last
  BY DEF Piece
<1> HIDE DEF last
<1>5. last \in Piece(n, w, a) /\ last \notin Piece(n, w, a - step)
  BY <1>1, <1>2, <1>3, <1>4
<1>6. ASSUME o < w
      PROVE  Cardinality(Piece(n, w, a) \cap Piece(n, w, a - step)) = o
  <2>1. Piece(n, w, a) \cap Piece(n, w, a - step) = a .. a + o - 1
    BY <1>1, <1>2, <1>3, <1>4, <1>6
  <2>2. Cardinality(a .. a + o - 1) = o
    BY FS_Interval
  <2> QED
    BY <2>1, <2>2
<1> QED
  BY <1>5, <1>6 DEF step

\* For every text, window and overlap: the pieces hold every token and nothing else, none
\* is empty or longer than the window or lies within its predecessor, and neighbours share
\* exactly the overlap whenever it is smaller than the window.
LEMMA TokenWindowFits ==
  ASSUME NEW n \in Nat, NEW w \in Nat \ {0}, NEW o \in Nat
  PROVE  PiecesFit(token_window(n, w, o), n, w, o)
<1> DEFINE step == StepOf(w, o)
<1>1. step \in 1 .. w
  BY DEF StepOf
<1>2. PICK f : /\ WindowsFrom(f, n, w, step)
               /\ token_window(n, w, o) = IF n = 0 THEN <<>>
                                          ELSE IF n <= w THEN <<0 .. n - 1>>
                                          ELSE f[0]
  BY TokenWindow
<1> DEFINE pieces == token_window(n, w, o)
<1>3. CASE n = 0
  <2>1. pieces = <<>> /\ DOMAIN <<>> = {}
    BY <1>2, <1>3
  <2>2. 0 .. n - 1 = {}
    BY <1>3
  <2> HIDE DEF pieces
  <2> QED
    BY <2>1, <2>2 DEF PiecesFit, pieces
<1>4. CASE n > 0
  <2>1. Covers(pieces, n, w, step, 0)
    <3>1. CASE n <= w
      <4>1. Piece(n, w, 0) = 0 .. n - 1
        BY <3>1, <1>4 DEF Piece
      <4>2. Covers(<<Piece(n, w, 0)>>, n, w, step, 0)
        BY <1>4, <3>1, OnePiece
      <4> QED
        BY <1>2, <1>4, <3>1, <4>1, <4>2
    <3>2. CASE n > w
      <4>1. Covers(f[0], n, w, step, 0)
        <5> HIDE DEF step
        <5> QED
          BY <1>1, <1>2, <1>4, WindowsCover
      <4> QED
        BY <1>2, <3>2, <4>1
    <3> QED
      BY <3>1, <3>2
  <2> HIDE DEF pieces
  <2>2. DOMAIN pieces = 1 .. Len(pieces)
    BY <2>1 DEF Covers
  <2>3. UNION {pieces[k] : k \in DOMAIN pieces} = 0 .. n - 1
    BY <2>1, <2>2 DEF Covers
  <2>4. ASSUME NEW k \in 1 .. Len(pieces)
        PROVE  /\ Cardinality(pieces[k]) \in 1 .. w
               /\ k > 1 => /\ ~ (pieces[k] \subseteq pieces[k - 1])
                           /\ o < w => Cardinality(pieces[k] \cap pieces[k - 1]) = o
    <3>1. PICK a \in 0 .. n - 1 :
            /\ pieces[k] = Piece(n, w, a)
            /\ k > 1 => 0 <= a - step /\ pieces[k - 1] = Piece(n, w, a - step) /\ a - step + w < n
      BY <2>1 DEF Covers
    <3>2. Cardinality(pieces[k]) \in 1 .. w
      BY <3>1, PieceSizes
    <3>3. ASSUME k > 1
          PROVE  /\ ~ (pieces[k] \subseteq pieces[k - 1])
                 /\ o < w => Cardinality(pieces[k] \cap pieces[k - 1]) = o
      <4>1. /\ pieces[k] = Piece(n, w, a) /\ pieces[k - 1] = Piece(n, w, a - StepOf(w, o))
            /\ 0 <= a - StepOf(w, o) /\ a - StepOf(w, o) + w < n
        BY <3>1, <3>3 DEF step
      <4>2. /\ ~ (Piece(n, w, a) \subseteq Piece(n, w, a - StepOf(w, o)))
            /\ o < w => Cardinality(Piece(n, w, a) \cap Piece(n, w, a - StepOf(w, o))) = o
        BY <4>1, NeighbouringPieces
      <4> QED
        BY <4>1, <4>2, Zenon
    <3> QED
      BY <3>2, <3>3
  <2> QED
    BY <2>2, <2>3, <2>4 DEF PiecesFit, pieces
<1> QED
  BY <1>3, <1>4

GivenTypeOK == given \in [tokens : Nat, max_tokens : Nat \ {0}, overlap_tokens : Nat]

\* Every text given to the chunker is cut into pieces that cover it.
THEOREM TextsAreCovered == ChunkInit /\ [][GiveText]_given => []ChunksCoverText
<1>1. ChunkInit => GivenTypeOK
  BY DEF ChunkInit, NoText, GivenTypeOK
<1>2. GivenTypeOK /\ [GiveText]_given => GivenTypeOK'
  BY ChunkingAssumption DEF GiveText, GivenTypeOK
<1>3. GivenTypeOK => ChunksCoverText
  <2> HAVE GivenTypeOK
  <2>1. PiecesFit(token_window(given.tokens, given.max_tokens, given.overlap_tokens),
                  given.tokens, given.max_tokens, given.overlap_tokens)
    BY TokenWindowFits DEF GivenTypeOK
  <2> QED
    BY <2>1 DEF ChunksCoverText, PiecesFit
<1> QED
  BY <1>1, <1>2, <1>3, PTL

-----------------------------------------------------------------------------
(* The amounts of Portfolio: rounding and sums                             *)

\* A larger amount is not rounded to a smaller one.
LEMMA FloatsKeepOrder ==
  ASSUME NEW x \in Amounts, NEW y \in Amounts, x <= y
  PROVE  fl[x] <= fl[y]
<1> DEFINE good == {n \in Nat : x + n <= Limit => fl[x] <= fl[x + n]}
<1>1. 0 \in good
  BY RoundingAssumption DEF Amounts
<1>2. ASSUME NEW n \in Nat, n \in good
      PROVE  n + 1 \in good
  <2>1. SUFFICES ASSUME x + (n + 1) <= Limit
                 PROVE  fl[x] <= fl[x + (n + 1)]
    OBVIOUS
  <2>2. fl[x] <= fl[x + n]
    BY <1>2, <2>1, RoundingAssumption DEF Amounts
  <2>3. x + n \in -Limit .. Limit - 1 /\ (x + n) + 1 = x + (n + 1)
    BY <2>1, RoundingAssumption DEF Amounts
  <2>4. fl[x + n] <= fl[x + (n + 1)]
    BY <2>3, RoundingAssumption
  <2>5. fl[x] \in Int /\ fl[x + n] \in Int /\ fl[x + (n + 1)] \in Int
    <3>1. x + n \in Amounts /\ x + (n + 1) \in Amounts
      BY <2>1, RoundingAssumption DEF Amounts
    <3>2. \A z \in Amounts : fl[z] \in Int
      BY RoundingAssumption DEF Amounts
    <3> QED
      BY <3>1, <3>2
  <2> QED
    BY <2>2, <2>4, <2>5
<1> HIDE DEF good
<1>3. \A n \in Nat : n \in good
  BY <1>1, <1>2, Induction
<1>4. y - x \in Nat /\ x + (y - x) = y /\ y <= Limit
  BY RoundingAssumption DEF Amounts
<1> QED
  BY <1>3, <1>4 DEF good

LEMMA FloatBounds ==
  ASSUME NEW x \in Int, -Limit <= x, x <= Limit
  PROVE  /\ x \in Amounts /\ fl[x] \in Int /\ -Limit <= fl[x] /\ fl[x] <= Limit
         /\ fl[fl[x]] = fl[x] /\ x - Ulp <= fl[x] /\ fl[x] <= x + Ulp
         /\ x >= 0 => fl[x] >= 0
<1>1. x \in Amounts /\ 0 \in Amounts /\ Limit \in Nat
  BY RoundingAssumption DEF Amounts
<1>2. fl[x] \in Amounts /\ fl[fl[x]] = fl[x] /\ x - Ulp <= fl[x] /\ fl[x] <= x + Ulp /\ fl[0] = 0
  BY <1>1, RoundingAssumption
<1>3. x >= 0 => fl[x] >= 0
  BY <1>1, <1>2, FloatsKeepOrder
<1> QED
  BY <1>1, <1>2, <1>3 DEF Amounts

\* Total adds up the values of a function, in any order.
LEMMA TotalAdds ==
  ASSUME NEW S, IsFiniteSet(S), NEW f \in [S -> Int]
  PROVE  \E it : Adds(it, f, S) /\ Total(f) = it[S]
<1> DEFINE Equation(g) == g = [s \in SUBSET S |->
                                 IF s = {} THEN 0
                                 ELSE LET x == CHOOSE x \in s : TRUE IN f[x] + g[s \ {x}]]
           it == CHOOSE g : Equation(g)
<1>1. DOMAIN f = S
  OBVIOUS
<1>2. Total(f) = it[S]
  BY <1>1 DEF Total, MapThenSumSet, MapThenFoldSet
<1>3. \A g : Equation(g) <=> SumsUp(g, f, S)
  BY DEF SumsUp
<1>4. \A x \in S : f[x] \in Int
  OBVIOUS
<1>5. \E g : Equation(g)
  <2> HIDE DEF Equation
  <2>1. PICK g : SumsUp(g, f, S)
    BY <1>4, SumExists
  <2> QED
    BY <1>3, <2>1
<1>6. Equation(it)
  <2> HIDE DEF Equation
  <2> QED
    BY <1>5
<1> HIDE DEF it, Equation
<1>7. Adds(it, f, S)
  BY <1>3, <1>4, <1>6, SumAdds
<1> QED
  BY <1>2, <1>7

\* Along a sequence, it is the last of the running totals.
LEMMA RunningTotal ==
  ASSUME NEW n \in Nat, NEW f \in [1 .. n -> Int]
  PROVE  \E p : /\ p \in [0 .. n -> Int] /\ p[0] = 0
                /\ \A k \in 1 .. n : p[k] = p[k - 1] + f[k]
                /\ Total(f) = p[n]
<1>1. IsFiniteSet(1 .. n)
  BY FS_Interval
<1>2. PICK it : Adds(it, f, 1 .. n) /\ Total(f) = it[1 .. n]
  BY <1>1, TotalAdds
<1> DEFINE p == [k \in 0 .. n |-> it[1 .. k]]
<1>3. \A k \in 0 .. n : 1 .. k \in SUBSET (1 .. n) /\ p[k] = it[1 .. k] /\ it[1 .. k] \in Int
  BY <1>2 DEF Adds
<1>4. p[0] = 0
  <2>1. 1 .. 0 = {}
    OBVIOUS
  <2> QED
    BY <1>2, <1>3, <2>1 DEF Adds
<1>5. ASSUME NEW k \in 1 .. n
      PROVE  p[k] = p[k - 1] + f[k]
  <2>1. k \in 1 .. k /\ (1 .. k) \ {k} = 1 .. k - 1 /\ k \in 0 .. n /\ k - 1 \in 0 .. n
    OBVIOUS
  <2>2. it[1 .. k] = f[k] + it[1 .. k - 1]
    <3>1. 1 .. k \in SUBSET (1 .. n)
      BY <1>3, <2>1
    <3>2. it[1 .. k] = f[k] + it[(1 .. k) \ {k}]
      BY <1>2, <2>1, <3>1 DEF Adds
    <3> QED
      BY <2>1, <3>2
  <2>3. f[k] \in Int /\ it[1 .. k - 1] \in Int
    BY <1>3, <2>1
  <2> QED
    BY <1>3, <2>1, <2>2, <2>3
<1>6. p \in [0 .. n -> Int] /\ Total(f) = p[n]
  BY <1>2, <1>3
<1> HIDE DEF p
<1> QED
  BY <1>4, <1>5, <1>6

\* One more term is one more summand.
LEMMA TotalOfAppend ==
  ASSUME NEW f \in Seq(Int), NEW a \in Int
  PROVE  Total(f) \in Int /\ Total(Append(f, a)) = Total(f) + a
<1> DEFINE n == Len(f)
           g == Append(f, a)
<1>1. /\ n \in Nat /\ f \in [1 .. n -> Int] /\ g \in [1 .. n + 1 -> Int]
      /\ \A k \in 1 .. n : g[k] = f[k]
      /\ g[n + 1] = a
  <2>1. n \in Nat /\ f \in [1 .. n -> Int]
    OBVIOUS
  <2>2. g \in Seq(Int) /\ Len(g) = n + 1
    BY AppendProperties
  <2>3. g \in [1 .. n + 1 -> Int]
    <3> HIDE DEF n, g
    <3> QED
      BY <2>2
  <2>4. \A k \in 1 .. n : g[k] = f[k]
    BY AppendProperties
  <2>5. g[n + 1] = a
    BY AppendProperties
  <2> QED
    BY <2>1, <2>3, <2>4, <2>5
<1> HIDE DEF n, g
<1>2. PICK p : /\ p \in [0 .. n -> Int] /\ p[0] = 0
               /\ \A k \in 1 .. n : p[k] = p[k - 1] + f[k]
               /\ Total(f) = p[n]
  BY <1>1, RunningTotal
<1>3. PICK q : /\ q \in [0 .. n + 1 -> Int] /\ q[0] = 0
               /\ \A k \in 1 .. n + 1 : q[k] = q[k - 1] + g[k]
               /\ Total(g) = q[n + 1]
  <2>1. n + 1 \in Nat
    BY <1>1
  <2> QED
    BY <1>1, <2>1, RunningTotal
<1> DEFINE good == {k \in 0 .. n : q[k] = p[k]}
<1>4. 0 \in good
  BY <1>1, <1>2, <1>3
<1>5. ASSUME NEW k \in 0 .. n - 1, k \in good
      PROVE  k + 1 \in good
  <2>1. k + 1 \in 1 .. n /\ k + 1 \in 1 .. n + 1 /\ (k + 1) - 1 = k /\ k + 1 \in 0 .. n
    BY <1>1
  <2>2. q[k + 1] = q[k] + g[k + 1] /\ p[k + 1] = p[k] + f[k + 1] /\ g[k + 1] = f[k + 1]
    BY <1>1, <1>2, <1>3, <2>1
  <2> QED
    BY <1>5, <2>1, <2>2
<1> HIDE DEF good
<1>6. n \in good
  <2>1. \A k \in 0 .. n : k \in good
    BY <1>1, <1>4, <1>5, InductionTo
  <2> QED
    BY <1>1, <2>1
<1>7. q[n] = p[n] /\ p[n] \in Int
  BY <1>1, <1>2, <1>6 DEF good
<1>8. q[n + 1] = q[n] + a
  <2>1. n + 1 \in 1 .. n + 1 /\ (n + 1) - 1 = n
    BY <1>1
  <2> QED
    BY <1>1, <1>3, <2>1
<1> QED
  BY <1>2, <1>3, <1>7, <1>8 DEF g

\* Totals of terms that are pairwise close are close.
LEMMA TotalsAreNear ==
  ASSUME NEW n \in Nat, NEW u \in Nat, NEW f \in [1 .. n -> Int], NEW g \in [1 .. n -> Int],
         \A i \in 1 .. n : f[i] - u <= g[i] /\ g[i] <= f[i] + u
  PROVE  /\ Total(f) \in Int /\ Total(g) \in Int
         /\ Total(f) - n * u <= Total(g) /\ Total(g) <= Total(f) + n * u
<1>1. PICK p : /\ p \in [0 .. n -> Int] /\ p[0] = 0
               /\ \A k \in 1 .. n : p[k] = p[k - 1] + f[k]
               /\ Total(f) = p[n]
  BY RunningTotal
<1>2. PICK q : /\ q \in [0 .. n -> Int] /\ q[0] = 0
               /\ \A k \in 1 .. n : q[k] = q[k - 1] + g[k]
               /\ Total(g) = q[n]
  BY RunningTotal
<1> DEFINE good == {k \in 0 .. n : p[k] - k * u <= q[k] /\ q[k] <= p[k] + k * u}
<1>3. 0 \in good
  <2>1. 0 * u = 0
    OBVIOUS
  <2> QED
    BY <1>1, <1>2, <2>1
<1>4. ASSUME NEW k \in 0 .. n - 1, k \in good
      PROVE  k + 1 \in good
  <2>1. k + 1 \in 1 .. n /\ (k + 1) - 1 = k /\ k \in 0 .. n /\ k + 1 \in 0 .. n
    OBVIOUS
  <2> DEFINE d == k * u
  <2>2. (k + 1) * u = d + u /\ d \in Int
    OBVIOUS
  <2>3. /\ q[k + 1] = q[k] + g[k + 1] /\ p[k + 1] = p[k] + f[k + 1]
        /\ q[k] \in Int /\ p[k] \in Int /\ g[k + 1] \in Int /\ f[k + 1] \in Int
        /\ f[k + 1] - u <= g[k + 1] /\ g[k + 1] <= f[k + 1] + u
    BY <1>1, <1>2, <2>1
  <2>4. p[k] - d <= q[k] /\ q[k] <= p[k] + d
    BY <1>4
  <2> HIDE DEF d
  <2>5. p[k + 1] - (d + u) <= q[k + 1] /\ q[k + 1] <= p[k + 1] + (d + u)
    BY <2>2, <2>3, <2>4, SMTT(30)
  <2> QED
    BY <2>1, <2>2, <2>5
<1> HIDE DEF good
<1>5. n \in good
  <2>1. \A k \in 0 .. n : k \in good
    BY <1>3, <1>4, InductionTo
  <2> QED
    BY <2>1
<1> QED
  BY <1>1, <1>2, <1>5 DEF good

-----------------------------------------------------------------------------
(* calculate_portfolio_impact                                              *)

Prices == [Symbols -> 0 .. MaxPrice]

BookTypeOK == positions \in Seq(Lots) /\ Len(positions) <= MaxPositions /\ close \in Prices

\* The positions are a list of lots and the closes are prices.
LEMMA BookTypes == BookInit => BookTypeOK
  BY BookAssumption DEF BookInit, BookTypeOK, Prices

LEMMA BookTypesStep ==
  ASSUME BookTypeOK, [BookNext]_bookVars
  PROVE  BookTypeOK'
<1>1. CASE OpenPosition
  <2>1. PICK lot \in Lots : positions' = Append(positions, lot)
    BY <1>1 DEF OpenPosition
  <2>2. positions' \in Seq(Lots) /\ Len(positions') = Len(positions) + 1
    BY <2>1, AppendProperties DEF BookTypeOK
  <2>3. Len(positions') <= MaxPositions
    BY <1>1, <2>2, BookAssumption DEF OpenPosition, BookTypeOK
  <2> QED
    BY <1>1, <2>2, <2>3 DEF OpenPosition, BookTypeOK, Prices
<1>2. CASE NewClose
  <2>1. PICK s \in Symbols, price \in 1 .. MaxPrice : close' = [close EXCEPT ![s] = price]
    BY <1>2 DEF NewClose
  <2>2. close' \in Prices
    BY <2>1, BookAssumption DEF BookTypeOK, Prices
  <2> QED
    BY <1>2, <2>2 DEF NewClose, BookTypeOK
<1>3. CASE UNCHANGED bookVars
  BY <1>3 DEF bookVars, BookTypeOK
<1> QED
  BY <1>1, <1>2, <1>3 DEF BookNext

\* A larger factor makes a larger product.
LEMMA Multiplied ==
  ASSUME NEW a \in Int, NEW b \in Int, NEW c \in Nat, a <= b
  PROVE  a * c \in Int /\ b * c \in Int /\ a * c <= b * c
<1>1. PICK d \in Nat : b = a + d
  <2>1. b - a \in Nat /\ b = a + (b - a)
    OBVIOUS
  <2> QED
    BY <2>1
<1>2. b * c = a * c + d * c /\ d * c \in Nat
  BY <1>1
<1> QED
  BY <1>2

\* What a position, and a trade, may add to a holding, and to the cash.
Size == MaxShares + 2 * Ulp
Paid == MaxShares * MaxPrice + 2 * Ulp
Dust == (MaxPrice + 2) * Ulp

\* Holdings of up to so many positions and trades, and payments for up to so many
\* trades, leave the amounts in their bounds.
LEMMA Room ==
  /\ Size \in Nat /\ Paid \in Nat /\ Dust \in Nat /\ Limit \in Nat /\ Ulp \in Nat
  /\ MaxPositions \in Nat /\ MaxTrades \in Nat /\ MaxShares \in Nat /\ MaxPrice \in Nat
  /\ Tolerance \in Nat
  /\ \A k \in 0 .. MaxPositions + MaxTrades :
        k * Size \in Nat /\ (k + 1) * Size = k * Size + Size /\ k * Size + Size + Tolerance <= Limit
  /\ \A k \in 0 .. MaxTrades - 1 :
        /\ k * Paid \in Nat /\ (k + 1) * Paid = k * Paid + Paid /\ k * Paid + Paid <= Limit
        /\ k * Dust \in Nat /\ (k + 1) * Dust = k * Dust + Dust
<1>1. /\ Limit \in Nat /\ Ulp \in Nat
      /\ MaxPositions \in Nat /\ MaxTrades \in Nat /\ MaxShares \in Nat /\ MaxPrice \in Nat
      /\ Tolerance \in Nat
  BY RoundingAssumption, BookAssumption
<1>2. Size \in Nat /\ Paid \in Nat /\ Dust \in Nat
  <2>1. MaxShares * MaxPrice \in Nat /\ (MaxPrice + 2) * Ulp \in Nat
    BY <1>1
  <2> QED
    BY <1>1, <2>1 DEF Size, Paid, Dust
<1>3. (MaxPositions + MaxTrades + 1) * Size + Tolerance <= Limit /\ MaxTrades * Paid <= Limit
  BY BookAssumption DEF Size, Paid
<1>4. ASSUME NEW k \in 0 .. MaxPositions + MaxTrades
      PROVE  k * Size \in Nat /\ (k + 1) * Size = k * Size + Size /\ k * Size + Size + Tolerance <= Limit
  <2>1. k \in Nat /\ k * Size \in Nat /\ (k + 1) * Size = k * Size + Size
    BY <1>1, <1>2
  <2>2. k + 1 \in Int /\ MaxPositions + MaxTrades + 1 \in Int /\ k + 1 <= MaxPositions + MaxTrades + 1
    BY <1>1
  <2>3. /\ (k + 1) * Size <= (MaxPositions + MaxTrades + 1) * Size
        /\ (MaxPositions + MaxTrades + 1) * Size \in Int
    BY <1>2, <2>2, Multiplied
  <2> DEFINE all == (MaxPositions + MaxTrades + 1) * Size
             here == k * Size
  <2>4. here + Size <= all /\ all + Tolerance <= Limit /\ all \in Int /\ here \in Int
    BY <1>3, <2>1, <2>3
  <2> HIDE DEF all, here
  <2>5. here + Size + Tolerance <= Limit
    BY <1>1, <1>2, <2>4
  <2> QED
    BY <2>1, <2>5 DEF here
<1>5. ASSUME NEW k \in 0 .. MaxTrades - 1
      PROVE  /\ k * Paid \in Nat /\ (k + 1) * Paid = k * Paid + Paid /\ k * Paid + Paid <= Limit
             /\ k * Dust \in Nat /\ (k + 1) * Dust = k * Dust + Dust
  <2>1. /\ k \in Nat /\ k * Paid \in Nat /\ (k + 1) * Paid = k * Paid + Paid
        /\ k * Dust \in Nat /\ (k + 1) * Dust = k * Dust + Dust
    BY <1>1, <1>2
  <2>2. k + 1 \in Int /\ MaxTrades \in Int /\ k + 1 <= MaxTrades
    BY <1>1
  <2>3. (k + 1) * Paid <= MaxTrades * Paid /\ MaxTrades * Paid \in Int
    BY <1>2, <2>2, Multiplied
  <2> DEFINE all == MaxTrades * Paid
             here == k * Paid
  <2>4. here + Paid <= all /\ all <= Limit /\ all \in Int /\ here \in Int
    BY <1>3, <2>1, <2>3
  <2> HIDE DEF all, here
  <2>5. here + Paid <= Limit
    BY <1>1, <1>2, <2>4
  <2> QED
    BY <2>1, <2>5 DEF here
<1> QED
  BY <1>1, <1>2, <1>4, <1>5

\* Books after k positions have been added up.
Books(k) ==
    {book \in [Symbols -> Int] : \A s \in Symbols :
        0 <= book[s] /\ book[s] <= k * Size /\ fl[book[s]] = book[s]}

LEMMA AddPositionStep ==
  ASSUME NEW k \in 0 .. MaxPositions - 1, NEW book \in Books(k), NEW p \in Lots
  PROVE  AddPosition(book, p) \in Books(k + 1)
<1> DEFINE s == p.symbol
           n == fl[p.shares]
           b == k * Size
           after == AddPosition(book, p)
<1>1. /\ s \in Symbols /\ p.shares \in 1 .. MaxShares
      /\ book \in [Symbols -> Int]
      /\ \A r \in Symbols : 0 <= book[r] /\ book[r] <= b /\ fl[book[r]] = book[r] /\ book[r] \in Int
  BY BookAssumption DEF Lots, Books
<1>2. b \in Nat /\ (k + 1) * Size = b + Size /\ b + Size <= Limit /\ Size \in Nat
  <2>1. k \in 0 .. MaxPositions + MaxTrades
    BY Room
  <2> DEFINE c == k * Size
  <2>2. c \in Nat /\ (k + 1) * Size = c + Size /\ c + Size + Tolerance <= Limit
    BY <2>1, Room
  <2> HIDE DEF c
  <2>3. c + Size <= Limit
    BY <2>2, Room
  <2> QED
    BY <2>2, <2>3, Room DEF c
<1> HIDE DEF b
<1>3. Size = MaxShares + 2 * Ulp /\ MaxShares \in Nat /\ Ulp \in Nat /\ Limit \in Nat
  BY Room DEF Size
<1>4. n \in Int /\ 0 <= n /\ n <= MaxShares + Ulp
  <2>1. p.shares \in Int /\ -Limit <= p.shares /\ p.shares <= Limit /\ p.shares >= 0 /\ p.shares <= MaxShares
    BY <1>1, <1>2, <1>3
  <2>2. fl[p.shares] \in Int /\ fl[p.shares] <= p.shares + Ulp /\ fl[p.shares] >= 0
    BY <2>1, FloatBounds
  <2> QED
    BY <1>3, <2>1, <2>2
<1> HIDE DEF n
<1> DEFINE z == book[s] + n
<1>5. z \in Int /\ 0 <= z /\ z <= b + MaxShares + Ulp /\ z <= Limit /\ -Limit <= z
  BY <1>1, <1>2, <1>3, <1>4
<1> HIDE DEF z
<1>6. fl[z] \in Int /\ 0 <= fl[z] /\ fl[z] <= b + Size /\ fl[fl[z]] = fl[z]
  <2>1. fl[z] \in Int /\ fl[z] <= z + Ulp /\ fl[fl[z]] = fl[z] /\ fl[z] >= 0
    BY <1>5, FloatBounds
  <2> QED
    BY <1>2, <1>3, <1>5, <2>1
<1>7. after = [book EXCEPT ![s] = fl[z]]
  BY <1>1 DEF AddPosition, z, n
<1> HIDE DEF after, s
<1>8. after \in [Symbols -> Int]
  BY <1>1, <1>6, <1>7
<1>9. ASSUME NEW r \in Symbols
      PROVE  0 <= after[r] /\ after[r] <= b + Size /\ fl[after[r]] = after[r]
  <2>1. CASE r = s
    BY <1>1, <1>6, <1>7, <2>1
  <2>2. CASE r # s
    <3>1. after[r] = book[r]
      BY <1>1, <1>7, <2>2
    <3> QED
      BY <1>1, <1>2, <3>1
  <2> QED
    BY <2>1, <2>2
<1>10. after \in Books(k + 1)
  BY <1>2, <1>8, <1>9 DEF Books
<1> QED
  BY <1>10 DEF after

\* The holdings a simulation starts from are the floats the positions add up to.
LEMMA BookIsBounded ==
  ASSUME BookTypeOK
  PROVE  Book \in Books(MaxPositions)
<1> DEFINE base == [s \in Symbols |-> 0]
           N == Len(positions)
           Equation(g) == g = [s \in SUBSET DOMAIN positions |->
                                 IF s = {} THEN base
                                 ELSE LET x == Max(s) IN AddPosition(g[s \ {x}], positions[x])]
           it == CHOOSE g : Equation(g)
           tier == [k \in 0 .. N |-> Books(k)]
           climb == [y \in UNION {Books(k) : k \in 0 .. N} |-> [a \in Lots |-> AddPosition(y, a)]]
<1>1. positions \in Seq(Lots) /\ DOMAIN positions = 1 .. N /\ N \in 0 .. MaxPositions
  BY Room DEF BookTypeOK
<1>2. Book = it[DOMAIN positions]
  BY DEF Book, FoldLeft, MapThenFoldSet
<1>3. base \in tier[0]
  <2>1. tier[0] = Books(0) /\ 0 * Size = 0 /\ fl[0] = 0
    BY <1>1, Room, RoundingAssumption
  <2> QED
    BY <2>1 DEF Books
<1>4. ASSUME NEW k \in 0 .. N - 1, NEW y \in tier[k], NEW a \in Lots
      PROVE  climb[y][a] = AddPosition(y, a) /\ AddPosition(y, a) \in tier[k + 1]
  <2>1. k \in 0 .. N /\ k + 1 \in 0 .. N /\ k \in 0 .. MaxPositions - 1
    BY <1>1
  <2>2. tier[k] = Books(k) /\ tier[k + 1] = Books(k + 1)
    BY <2>1
  <2>3. AddPosition(y, a) \in Books(k + 1)
    BY <2>1, <2>2, AddPositionStep
  <2> QED
    BY <2>1, <2>2, <2>3
<1> HIDE DEF base, tier, climb
<1>5. Climbs(tier, Lots, climb, N)
  BY <1>4 DEF Climbs
<1>6. \E g : Equation(g)
  <2>1. PICK g : /\ g = [s \in SUBSET DOMAIN positions |-> g[s]]
                 /\ Folds(g, climb, base, positions)
                 /\ \A s \in SUBSET DOMAIN positions :
                       Cardinality(s) \in 0 .. N /\ g[s] \in tier[Cardinality(s)]
    BY <1>1, <1>3, <1>5, TieredFoldExists
  <2>2. ASSUME NEW s \in SUBSET DOMAIN positions, s # {}
        PROVE  g[s] = AddPosition(g[s \ {Max(s)}], positions[Max(s)])
    <3>1. Max(s) \in s /\ s \ {Max(s)} \in SUBSET DOMAIN positions /\ positions[Max(s)] \in Lots
      <4>1. Max(s) \in s
        BY <1>1, <2>2, MaxIsGreatest
      <4> QED
        BY <1>1, <4>1
    <3>2. Cardinality(s \ {Max(s)}) \in 0 .. N - 1
      <4> DEFINE x == Max(s)
      <4>1. IsFiniteSet(DOMAIN positions) /\ x \in s
        BY <1>1, <3>1, FS_Interval
      <4> HIDE DEF x
      <4>2. Cardinality(s \ {x}) \in Nat /\ Cardinality(s) = Cardinality(s \ {x}) + 1
        BY <4>1, SmallerRest
      <4>3. Cardinality(s) \in 0 .. N
        BY <2>1
      <4> QED
        BY <1>1, <4>2, <4>3 DEF x
    <3>3. g[s \ {Max(s)}] \in tier[Cardinality(s \ {Max(s)})]
      BY <2>1, <3>1
    <3>4. g[s] = climb[g[s \ {Max(s)}]][positions[Max(s)]]
      BY <2>1, <2>2 DEF Folds
    <3> QED
      BY <1>4, <3>1, <3>2, <3>3, <3>4
  <2>3. Equation(g)
    BY <2>1, <2>2 DEF Folds
  <2> QED
    BY <2>3
<1>7. Equation(it)
  <2> HIDE DEF Equation
  <2> QED
    BY <1>6
<1> HIDE DEF it
<1> DEFINE K == (UNION {tier[k] : k \in 0 .. N}) \cup {it[s] : s \in SUBSET DOMAIN positions}
           known == [y \in K |-> [a \in Lots |-> AddPosition(y, a)]]
<1>a. /\ \A r \in SUBSET DOMAIN positions : it[r] \in K
      /\ \A k \in 0 .. N : tier[k] \subseteq K
  OBVIOUS
<1> HIDE DEF K
<1>b. \A y \in K, a \in Lots : known[y][a] = AddPosition(y, a)
  OBVIOUS
<1> HIDE DEF known
<1>8. Folds(it, known, base, positions)
  <2> SUFFICES ASSUME NEW s \in SUBSET DOMAIN positions
               PROVE  it[s] = IF s = {} THEN base ELSE known[it[s \ {Max(s)}]][positions[Max(s)]]
    BY DEF Folds
  <2>1. CASE s = {}
    BY <1>7, <2>1
  <2>2. CASE s # {}
    <3>1. Max(s) \in s
      BY <1>1, <2>2, MaxIsGreatest
    <3>2. positions[Max(s)] \in Lots /\ s \ {Max(s)} \in SUBSET DOMAIN positions
      BY <1>1, <3>1
    <3>3. it[s] = AddPosition(it[s \ {Max(s)}], positions[Max(s)])
      BY <1>7, <2>2
    <3> QED
      BY <1>a, <1>b, <2>2, <3>2, <3>3
  <2> QED
    BY <2>1, <2>2
<1>9. Climbs(tier, Lots, known, N)
  <2> SUFFICES ASSUME NEW k \in 0 .. N - 1, NEW y \in tier[k], NEW a \in Lots
               PROVE  known[y][a] \in tier[k + 1]
    BY DEF Climbs
  <2>1. k \in 0 .. N
    BY <1>1
  <2>2. known[y][a] = AddPosition(y, a)
    BY <1>a, <1>b, <2>1
  <2> QED
    BY <1>4, <2>2
<1>10. it[DOMAIN positions] \in tier[Cardinality(DOMAIN positions)]
       /\ Cardinality(DOMAIN positions) \in 0 .. N
  BY <1>1, <1>3, <1>8, <1>9, FoldClimbs
<1>11. PICK k \in 0 .. N : Book \in Books(k)
  BY <1>2, <1>10 DEF tier
<1>12. k * Size <= MaxPositions * Size /\ k * Size \in Int /\ MaxPositions * Size \in Int
  <2>1. k \in Int /\ k <= MaxPositions /\ MaxPositions \in Int
    BY <1>1, Room
  <2> QED
    BY <2>1, Room, Multiplied
<1> QED
  BY <1>11, <1>12 DEF Books

Statuses == {"ok", "no_price", "insufficient_shares"}

\* What a simulation is worth, written out for the two symbols.
Value(book, cash) == cash + (book["held"] * close["held"] + book["other"] * close["other"])

\* Simulations after k trades, of a value that began as start.
Sims(k, start) ==
    {sim \in [status : Statuses, book : [Symbols -> Int], cash : Int] :
        /\ \A s \in Symbols :
              /\ - (Tolerance + 2 * Ulp) <= sim.book[s]
              /\ sim.book[s] <= (MaxPositions + k) * Size
              /\ fl[sim.book[s]] = sim.book[s]
        /\ - (k * Paid) <= sim.cash /\ sim.cash <= k * Paid
        /\ start - k * Dust <= Value(sim.book, sim.cash)
        /\ Value(sim.book, sim.cash) <= start + k * Dust}

\* The sum over the symbols has two terms.
LEMMA WorthIsValue ==
  ASSUME BookTypeOK, NEW book \in [Symbols -> Int], NEW cash \in Int
  PROVE  Worth(book, cash) = Value(book, cash) /\ Value(book, cash) \in Int
<1> DEFINE f == [s \in Symbols |-> book[s] * close[s]]
<1>1. IsFiniteSet(Symbols)
  <2>1. IsFiniteSet({"held"}) /\ Symbols = {"held"} \cup {"other"}
    BY FS_Singleton DEF Symbols
  <2> QED
    BY <2>1, FS_AddElement
<1>2. \A s \in Symbols : f[s] \in Int /\ f[s] = book[s] * close[s]
  <2> TAKE s \in Symbols
  <2>1. book[s] \in Int /\ close[s] \in Int
    BY BookAssumption DEF BookTypeOK, Prices
  <2> QED
    BY <2>1
<1>3. f \in [Symbols -> Int]
  BY <1>2
<1>4. Worth(book, cash) = cash + Total(f)
  BY DEF Worth
<1> HIDE DEF f
<1>5. PICK it : Adds(it, f, Symbols) /\ Total(f) = it[Symbols]
  BY <1>1, <1>3, TotalAdds
<1>6. /\ {"other"} \in SUBSET Symbols /\ Symbols \ {"held"} = {"other"}
      /\ {"other"} \ {"other"} = {} /\ "held" \in Symbols /\ "other" \in Symbols
  BY DEF Symbols
<1>7. it[Symbols] = f["held"] + it[{"other"}]
  BY <1>5, <1>6 DEF Adds
<1>8. it[{"other"}] = f["other"] + it[{}] /\ it[{}] = 0
  BY <1>5, <1>6 DEF Adds
<1>9. f["held"] \in Int /\ f["other"] \in Int
  BY <1>3, <1>6
<1>10. it[Symbols] = f["held"] + f["other"]
  BY <1>7, <1>8, <1>9
<1>11. Value(book, cash) = cash + (f["held"] + f["other"])
  BY <1>2, <1>6 DEF Value
<1> QED
  BY <1>4, <1>5, <1>9, <1>10, <1>11

\* One trade, refused or not, moves a simulation's value by its rounding only and
\* leaves the holdings in their bounds.
LEMMA TradeStep ==
  ASSUME BookTypeOK, NEW start \in Int, NEW k \in 0 .. MaxTrades - 1,
         NEW sim \in Sims(k, start), NEW t \in Trades
  PROVE  ApplyTrade(sim, t) \in Sims(k + 1, start)
<1> DEFINE s == t.symbol
           n == t.shares
           have == sim.book[s]
           price == close[s]
           after == ApplyTrade(sim, t)
           low == - (Tolerance + 2 * Ulp)
           high == (MaxPositions + k) * Size
           paid == k * Paid
           dust == k * Dust
           Moved(b, c) == [sim EXCEPT !.book[s] = b, !.cash = c]
<1>1. /\ Size \in Nat /\ Paid \in Nat /\ Dust \in Nat /\ Limit \in Nat /\ Ulp \in Nat
      /\ MaxShares \in Nat /\ MaxPrice \in Nat /\ Tolerance \in Nat /\ low \in Int
      /\ Size = MaxShares + 2 * Ulp /\ Paid = MaxShares * MaxPrice + 2 * Ulp
      /\ Dust = (MaxPrice + 2) * Ulp /\ low = - (Tolerance + 2 * Ulp)
  BY Room DEF Size, Paid, Dust
<1>2. /\ high \in Nat /\ (MaxPositions + (k + 1)) * Size = high + Size
      /\ high + Size + Tolerance <= Limit
  <2>1. MaxPositions + k \in 0 .. MaxPositions + MaxTrades
        /\ MaxPositions + (k + 1) = (MaxPositions + k) + 1
    BY Room
  <2> QED
    BY <2>1, Room
<1>3. /\ paid \in Nat /\ (k + 1) * Paid = paid + Paid /\ paid + Paid <= Limit
      /\ dust \in Nat /\ (k + 1) * Dust = dust + Dust
  BY Room
<1>4. /\ sim \in [status : Statuses, book : [Symbols -> Int], cash : Int]
      /\ \A r \in Symbols : low <= sim.book[r] /\ sim.book[r] <= high /\ fl[sim.book[r]] = sim.book[r]
      /\ - paid <= sim.cash /\ sim.cash <= paid
      /\ start - dust <= Value(sim.book, sim.cash) /\ Value(sim.book, sim.cash) <= start + dust
  BY DEF Sims
<1> HIDE DEF low, high, paid, dust
<1>5. /\ s \in Symbols /\ n \in 1 .. MaxShares /\ fl[n] = n
      /\ have \in Int /\ low <= have /\ have <= high /\ fl[have] = have
      /\ price \in 0 .. MaxPrice /\ sim.cash \in Int /\ sim.book \in [Symbols -> Int]
  BY <1>4, BookAssumption DEF Trades, BookTypeOK, Prices
<1>6. /\ Value(sim.book, sim.cash) \in Int
  BY <1>4, WorthIsValue
<1>7. \* the simulations that are as they were
      ASSUME NEW status \in Statuses
      PROVE  [sim EXCEPT !.status = status] \in Sims(k + 1, start)
  <2> DEFINE same == [sim EXCEPT !.status = status]
  <2>1. same \in [status : Statuses, book : [Symbols -> Int], cash : Int]
        /\ same.book = sim.book /\ same.cash = sim.cash
    BY <1>4
  <2> HIDE DEF same
  <2>2. \A r \in Symbols : low <= same.book[r] /\ same.book[r] <= high + Size
                           /\ fl[same.book[r]] = same.book[r]
    <3> TAKE r \in Symbols
    <3>1. sim.book[r] \in Int /\ low <= sim.book[r] /\ sim.book[r] <= high
          /\ fl[sim.book[r]] = sim.book[r]
      BY <1>4
    <3> QED
      BY <1>1, <1>2, <2>1, <3>1
  <2>3. - (paid + Paid) <= same.cash /\ same.cash <= paid + Paid
    BY <1>1, <1>3, <1>4, <1>5, <2>1
  <2>4. start - (dust + Dust) <= Value(same.book, same.cash)
        /\ Value(same.book, same.cash) <= start + (dust + Dust)
    BY <1>1, <1>3, <1>4, <1>6, <2>1
  <2>5. same \in Sims(k + 1, start)
    BY <1>1, <1>2, <1>3, <2>1, <2>2, <2>3, <2>4 DEF Sims
  <2> QED
    BY <2>5 DEF same
<1>8. \* d shares more, rounded, against their price, rounded twice
      ASSUME NEW d \in Int, NEW b \in Int, NEW c \in Int,
             have + d - Ulp <= b, b <= have + d + Ulp, low <= b, b <= high + Size, fl[b] = b,
             sim.cash - d * price - 2 * Ulp <= c, c <= sim.cash - d * price + 2 * Ulp,
             - (paid + Paid) <= c, c <= paid + Paid
      PROVE  Moved(b, c) \in Sims(k + 1, start)
  <2> DEFINE next == Moved(b, c)
  <2>1. /\ next \in [status : Statuses, book : [Symbols -> Int], cash : Int]
        /\ next.book = [sim.book EXCEPT ![s] = b] /\ next.cash = c
    BY <1>4, <1>5
  <2> HIDE DEF next, Moved
  <2>2. next.book[s] = b /\ \A r \in Symbols \ {s} : next.book[r] = sim.book[r]
    BY <1>5, <2>1
  <2>3. \A r \in Symbols : low <= next.book[r] /\ next.book[r] <= high + Size
                           /\ fl[next.book[r]] = next.book[r]
    <3> TAKE r \in Symbols
    <3>1. CASE r = s
      BY <1>8, <2>2, <3>1
    <3>2. CASE r # s
      <4>1. next.book[r] = sim.book[r] /\ sim.book[r] \in Int /\ low <= sim.book[r]
            /\ sim.book[r] <= high /\ fl[sim.book[r]] = sim.book[r]
        BY <1>4, <2>2, <3>2
      <4> QED
        BY <1>1, <1>2, <4>1
    <3> QED
      BY <3>1, <3>2
  <2>4. PICK e \in Int : b = have + d + e /\ - Ulp <= e /\ e <= Ulp
    <3>1. b - have - d \in Int /\ b = have + d + (b - have - d)
          /\ - Ulp <= b - have - d /\ b - have - d <= Ulp
      BY <1>1, <1>5, <1>8
    <3> QED
      BY <3>1
  <2> DEFINE was == have * price
             bought == d * price
             lost == e * price
  <2>5. /\ was \in Int /\ bought \in Int /\ lost \in Int /\ price \in Int
        /\ b * price = was + bought + lost
    BY <1>5, <2>4
  <2>6. - (MaxPrice * Ulp) <= lost /\ lost <= MaxPrice * Ulp
    <3>1. price \in Nat /\ - Ulp \in Int /\ Ulp \in Int /\ e \in Int /\ MaxPrice \in Int /\ price <= MaxPrice
      BY <1>1, <1>5, <2>4
    <3>2. (- Ulp) * price <= e * price /\ e * price <= Ulp * price
      BY <1>1, <2>4, <3>1, Multiplied
    <3>3. price * Ulp <= MaxPrice * Ulp /\ price * Ulp \in Int /\ MaxPrice * Ulp \in Int
      BY <1>1, <3>1, Multiplied
    <3>4. Ulp * price = price * Ulp /\ (- Ulp) * price = - (price * Ulp)
      BY <1>1, <3>1
    <3> DEFINE x == price * Ulp
               y == MaxPrice * Ulp
    <3>5. x <= y /\ x \in Int /\ y \in Int /\ - x <= lost /\ lost <= x
      BY <3>2, <3>3, <3>4
    <3> HIDE DEF x, y, lost
    <3>6. - y <= lost /\ lost <= y
      BY <2>5, <3>5
    <3> QED
      BY <3>6 DEF y
  <2>7. Dust = MaxPrice * Ulp + 2 * Ulp /\ MaxPrice * Ulp \in Int
    BY <1>1
  <2>8. Value(next.book, next.cash) - Value(sim.book, sim.cash) = (c - sim.cash) + (bought + lost)
    <3>1. close["held"] \in Int /\ close["other"] \in Int
      BY BookAssumption DEF BookTypeOK, Prices, Symbols
    <3>2. CASE s = "held"
      <4>1. next.book["other"] = sim.book["other"] /\ sim.book["other"] \in Int
        BY <1>5, <2>2, <3>2 DEF Symbols
      <4> DEFINE rest == sim.book["other"] * close["other"]
      <4>2. rest \in Int
        BY <3>1, <4>1
      <4>3. Value(sim.book, sim.cash) = sim.cash + (was + rest)
        BY <3>2 DEF Value
      <4>4. Value(next.book, next.cash) = c + (b * price + rest)
        BY <2>1, <2>2, <3>2, <4>1 DEF Value
      <4> HIDE DEF rest, was, bought, lost
      <4> QED
        BY <1>5, <1>8, <2>5, <4>2, <4>3, <4>4
    <3>3. CASE s = "other"
      <4>1. next.book["held"] = sim.book["held"] /\ sim.book["held"] \in Int
        BY <1>5, <2>2, <3>3 DEF Symbols
      <4> DEFINE rest == sim.book["held"] * close["held"]
      <4>2. rest \in Int
        BY <3>1, <4>1
      <4>3. Value(sim.book, sim.cash) = sim.cash + (rest + was)
        BY <3>3 DEF Value
      <4>4. Value(next.book, next.cash) = c + (rest + b * price)
        BY <2>1, <2>2, <3>3, <4>1 DEF Value
      <4> HIDE DEF rest, was, bought, lost
      <4> QED
        BY <1>5, <1>8, <2>5, <4>2, <4>3, <4>4
    <3> QED
      BY <1>5, <3>2, <3>3 DEF Symbols
  <2>9. Value(next.book, next.cash) \in Int
    BY <2>1, WorthIsValue
  <2>10. sim.cash - bought - 2 * Ulp <= c /\ c <= sim.cash - bought + 2 * Ulp
    BY <1>8
  <2> DEFINE new == Value(next.book, next.cash)
             old == Value(sim.book, sim.cash)
             most == MaxPrice * Ulp
  <2>11. /\ new - old = (c - sim.cash) + (bought + lost) /\ new \in Int /\ old \in Int
         /\ - most <= lost /\ lost <= most /\ Dust = most + 2 * Ulp /\ most \in Int
         /\ start - dust <= old /\ old <= start + dust
    BY <1>4, <1>6, <2>6, <2>7, <2>8, <2>9
  <2> HIDE DEF new, old, most, bought, lost, was
  <2>12. start - (dust + Dust) <= new /\ new <= start + (dust + Dust)
    <3>1. new - old <= Dust /\ - Dust <= new - old
      BY <1>1, <1>5, <1>8, <2>5, <2>10, <2>11
    <3> QED
      BY <1>1, <1>3, <2>11, <3>1
  <2>13. next \in Sims(k + 1, start)
    BY <1>1, <1>2, <1>3, <1>8, <2>1, <2>3, <2>12 DEF Sims, new
  <2> QED
    BY <2>13 DEF next
<1> DEFINE cost == n * price
<1>9. /\ cost \in Nat /\ cost <= MaxShares * MaxPrice /\ cost <= Limit
      /\ MaxShares * MaxPrice \in Nat /\ fl[cost] \in Int
      /\ cost - Ulp <= fl[cost] /\ fl[cost] <= cost + Ulp /\ fl[cost] >= 0
  <2>1. n \in Nat /\ price \in Nat /\ n <= MaxShares /\ price <= MaxPrice
    BY <1>1, <1>5
  <2>2. n * price <= MaxShares * price /\ price * MaxShares <= MaxPrice * MaxShares
    <3>1. n \in Int /\ MaxShares \in Int /\ price \in Int /\ MaxPrice \in Int
      BY <1>1, <2>1
    <3> DEFINE a == n
               p == price
    <3> HIDE DEF a, p
    <3>2. a * p <= MaxShares * p
      BY <2>1, <3>1, Multiplied DEF a, p
    <3>3. p * MaxShares <= MaxPrice * MaxShares
      BY <1>1, <2>1, <3>1, Multiplied DEF p
    <3> QED
      BY <3>2, <3>3 DEF a, p
  <2>3. MaxShares * price = price * MaxShares /\ MaxPrice * MaxShares = MaxShares * MaxPrice
        /\ n * price \in Nat /\ MaxShares * MaxPrice \in Nat /\ price * MaxShares \in Nat
    BY <1>1, <2>1
  <2> DEFINE most == MaxShares * MaxPrice
             between == price * MaxShares
  <2>4. cost <= between /\ between <= most /\ cost \in Nat /\ between \in Nat /\ most \in Nat
        /\ most <= Limit
    BY <2>2, <2>3, BookAssumption
  <2> HIDE DEF cost, most, between
  <2>5. cost <= most /\ cost <= Limit /\ -Limit <= cost /\ cost >= 0 /\ cost \in Int
    BY <1>1, <2>4
  <2>6. fl[cost] \in Int /\ cost - Ulp <= fl[cost] /\ fl[cost] <= cost + Ulp /\ fl[cost] >= 0
    BY <2>5, FloatBounds
  <2> QED
    BY <2>4, <2>5, <2>6 DEF most
<1> HIDE DEF cost
<1> DEFINE most == MaxShares * MaxPrice
<1>10. most \in Nat /\ Paid = most + 2 * Ulp /\ cost <= most
  BY <1>1, <1>9
<1> HIDE DEF most
<1>11. CASE after = Moved(fl[have + n], fl[sim.cash - fl[cost]])
  <2> DEFINE b == fl[have + n]
             z == sim.cash - fl[cost]
             c == fl[z]
  <2>1. have + n \in Int /\ -Limit <= have + n /\ have + n <= Limit /\ have + n >= have
        /\ have <= Limit /\ -Limit <= have
    BY <1>1, <1>2, <1>5
  <2>2. b \in Int /\ have + n - Ulp <= b /\ b <= have + n + Ulp /\ fl[b] = b
    <3> DEFINE x == have + n
    <3>1. x \in Int /\ -Limit <= x /\ x <= Limit
      BY <2>1
    <3> HIDE DEF x
    <3>2. fl[x] \in Int /\ x - Ulp <= fl[x] /\ fl[x] <= x + Ulp /\ fl[fl[x]] = fl[x]
      BY <3>1, FloatBounds
    <3>3. x - Ulp = have + n - Ulp /\ x + Ulp = have + n + Ulp /\ fl[x] = b
      BY <1>1, <1>5 DEF x
    <3> HIDE DEF b
    <3> QED
      BY <3>2, <3>3
  <2>3. have <= b
    <3>1. have \in Amounts /\ have + n \in Amounts
      BY <1>5, <2>1, FloatBounds
    <3>2. fl[have] <= fl[have + n]
      BY <1>5, <2>1, <3>1, FloatsKeepOrder
    <3> QED
      BY <1>5, <3>2
  <2> HIDE DEF b
  <2>4. z \in Int /\ -Limit <= z /\ z <= Limit /\ sim.cash - cost - Ulp <= z
        /\ z <= sim.cash - cost + Ulp /\ z <= paid /\ - (paid + most + Ulp) <= z
    BY <1>1, <1>3, <1>4, <1>5, <1>9, <1>10
  <2> HIDE DEF z
  <2>5. c \in Int /\ z - Ulp <= c /\ c <= z + Ulp
    BY <2>4, FloatBounds
  <2> HIDE DEF c
  <2>6. /\ low <= b /\ b <= high + Size
        /\ sim.cash - n * price - 2 * Ulp <= c /\ c <= sim.cash - n * price + 2 * Ulp
        /\ - (paid + Paid) <= c /\ c <= paid + Paid
    <3>1. low <= b /\ b <= high + Size
      BY <1>1, <1>2, <1>5, <2>2, <2>3
    <3>2. sim.cash - cost - 2 * Ulp <= c /\ c <= sim.cash - cost + 2 * Ulp
      BY <1>1, <1>5, <1>9, <2>4, <2>5
    <3>3. - (paid + Paid) <= c /\ c <= paid + Paid
      BY <1>1, <1>3, <1>10, <2>4, <2>5
    <3> QED
      BY <3>1, <3>2, <3>3 DEF cost
  <2>7. Moved(b, c) \in Sims(k + 1, start)
    <3>1. n \in Int
      BY <1>5
    <3> HIDE DEF Moved
    <3> QED
      BY <1>8, <2>2, <2>5, <2>6, <3>1
  <2> QED
    BY <1>11, <2>7 DEF b, c, z
<1>12. CASE n <= fl[have + Tolerance] /\ after = Moved(fl[have - n], fl[sim.cash + fl[cost]])
  <2> DEFINE b == fl[have - n]
             z == sim.cash + fl[cost]
             c == fl[z]
  <2>1. fl[have + Tolerance] \in Int /\ fl[have + Tolerance] <= have + Tolerance + Ulp
    <3>1. have + Tolerance \in Int /\ -Limit <= have + Tolerance /\ have + Tolerance <= Limit
      BY <1>1, <1>2, <1>5
    <3> QED
      BY <3>1, FloatBounds
  <2>2. have - n \in Int /\ - (Tolerance + Ulp) <= have - n /\ have - n <= have /\ have <= Limit
        /\ -Limit <= have - n /\ -Limit <= have
    BY <1>1, <1>2, <1>5, <1>12, <2>1
  <2>3. b \in Int /\ have - n - Ulp <= b /\ b <= have - n + Ulp /\ fl[b] = b
    BY <1>1, <2>2, FloatBounds, <1>2, <1>5
  <2>4. b <= have
    <3>1. have \in Amounts /\ have - n \in Amounts
      BY <1>1, <1>2, <1>5, <2>2, FloatBounds
    <3>2. fl[have - n] <= fl[have]
      BY <1>5, <2>2, <3>1, FloatsKeepOrder
    <3> QED
      BY <1>5, <3>2
  <2> HIDE DEF b
  <2>5. z \in Int /\ -Limit <= z /\ z <= Limit /\ sim.cash + cost - Ulp <= z
        /\ z <= sim.cash + cost + Ulp /\ z <= paid + most + Ulp /\ - paid <= z
    BY <1>1, <1>3, <1>4, <1>5, <1>9, <1>10
  <2> HIDE DEF z
  <2>6. c \in Int /\ z - Ulp <= c /\ c <= z + Ulp
    BY <2>5, FloatBounds
  <2> HIDE DEF c
  <2>7. low <= b /\ b <= high + Size
    BY <1>1, <1>2, <1>5, <2>2, <2>3, <2>4
  <2>8. sim.cash + cost - 2 * Ulp <= c /\ c <= sim.cash + cost + 2 * Ulp
        /\ - (paid + Paid) <= c /\ c <= paid + Paid
    BY <1>1, <1>3, <1>5, <1>9, <1>10, <2>5, <2>6
  <2> DEFINE d == - n
  <2>9. d \in Int /\ d * price = - cost /\ have + d = have - n
    BY <1>5 DEF cost
  <2>10. /\ have + d - Ulp <= b /\ b <= have + d + Ulp
         /\ sim.cash - d * price - 2 * Ulp <= c /\ c <= sim.cash - d * price + 2 * Ulp
    BY <1>1, <1>5, <1>9, <2>3, <2>8, <2>9
  <2>11. Moved(b, c) \in Sims(k + 1, start)
    <3> HIDE DEF Moved, d
    <3> QED
      BY <1>8, <2>3, <2>6, <2>7, <2>8, <2>9, <2>10
  <2> QED
    BY <1>12, <2>11 DEF b, c, z
<1>13. \/ \E status \in Statuses : after = [sim EXCEPT !.status = status]
       \/ after = Moved(fl[have + n], fl[sim.cash - fl[cost]])
       \/ n <= fl[have + Tolerance] /\ after = Moved(fl[have - n], fl[sim.cash + fl[cost]])
  <2>1. CASE sim.status # "ok"
    <3>1. after = [sim EXCEPT !.status = sim.status] /\ sim.status \in Statuses
      BY <1>4, <2>1 DEF ApplyTrade
    <3> QED
      BY <3>1
  <2>2. CASE sim.status = "ok" /\ price = 0
    BY <2>2 DEF ApplyTrade, Statuses
  <2>3. CASE sim.status = "ok" /\ price # 0 /\ t.side = "buy"
    BY <2>3 DEF ApplyTrade, cost
  <2>4. CASE sim.status = "ok" /\ price # 0 /\ t.side # "buy" /\ n > fl[have + Tolerance]
    BY <2>4 DEF ApplyTrade, Statuses
  <2>5. CASE sim.status = "ok" /\ price # 0 /\ t.side # "buy" /\ ~ (n > fl[have + Tolerance])
    <3>1. after = Moved(fl[have - n], fl[sim.cash + fl[cost]])
      BY <2>5 DEF ApplyTrade, proceeds, cost
    <3>2. n <= fl[have + Tolerance]
      <4>1. have + Tolerance \in Int /\ -Limit <= have + Tolerance /\ have + Tolerance <= Limit
        BY <1>1, <1>2, <1>5
      <4>2. fl[have + Tolerance] \in Int
        BY <4>1, FloatBounds
      <4> QED
        BY <1>5, <2>5, <4>2
    <3> QED
      BY <3>1, <3>2
  <2> QED
    BY <2>1, <2>2, <2>3, <2>4, <2>5
<1> HIDE DEF after, Moved
<1> QED
  BY <1>7, <1>11, <1>12, <1>13 DEF after

\* Whatever the user holds, whatever the closes and however many trades are asked for,
\* in any order, the simulation stays among the simulations of that many trades.
LEMMA AnyTradesConserveValue ==
  ASSUME BookTypeOK, NEW trades \in Seq(Trades), Len(trades) <= MaxTrades
  PROVE  \E k \in 0 .. Len(trades) : PortfolioImpact(0, trades) \in Sims(k, Value(Book, 0))
<1> DEFINE start == Value(Book, 0)
           base == [status |-> "ok", book |-> Book, cash |-> 0]
           N == Len(trades)
           Equation(g) == g = [s \in SUBSET DOMAIN trades |->
                                 IF s = {} THEN base
                                 ELSE LET x == Max(s) IN ApplyTrade(g[s \ {x}], trades[x])]
           it == CHOOSE g : Equation(g)
           tier == [k \in 0 .. N |-> Sims(k, start)]
           K == (UNION {tier[k] : k \in 0 .. N}) \cup {it[s] : s \in SUBSET DOMAIN trades}
           climb == [y \in K |-> [a \in Trades |-> ApplyTrade(y, a)]]
<1>1. DOMAIN trades = 1 .. N /\ N \in 0 .. MaxTrades /\ N \in Nat
  BY Room
<1>2. PortfolioImpact(0, trades) = it[DOMAIN trades]
  BY DEF PortfolioImpact, FoldLeft, MapThenFoldSet
<1>3. start \in Int /\ Book \in Books(MaxPositions) /\ Book \in [Symbols -> Int]
  <2>1. Book \in Books(MaxPositions)
    BY BookIsBounded
  <2>2. Book \in [Symbols -> Int]
    BY <2>1 DEF Books
  <2> QED
    BY <2>1, <2>2, WorthIsValue
<1> HIDE DEF start
<1>4. base \in Sims(0, start)
  <2>1. 0 * Paid = 0 /\ 0 * Dust = 0 /\ MaxPositions + 0 = MaxPositions /\ Tolerance \in Nat /\ Ulp \in Nat
    BY Room
  <2>2. \A s \in Symbols : /\ - (Tolerance + 2 * Ulp) <= Book[s] /\ Book[s] <= MaxPositions * Size
                           /\ fl[Book[s]] = Book[s]
    <3> TAKE s \in Symbols
    <3>1. 0 <= Book[s] /\ Book[s] <= MaxPositions * Size /\ fl[Book[s]] = Book[s] /\ Book[s] \in Int
      BY <1>3 DEF Books
    <3> QED
      BY <2>1, <3>1
  <2>3. base \in [status : Statuses, book : [Symbols -> Int], cash : Int]
        /\ base.book = Book /\ base.cash = 0
    BY <1>3 DEF Statuses
  <2>4. start = Value(base.book, base.cash)
    BY <2>3 DEF start
  <2> HIDE DEF base
  <2> QED
    BY <1>3, <2>1, <2>2, <2>3, <2>4 DEF Sims
<1> HIDE DEF base
<1>5. base \in tier[0]
  BY <1>1, <1>4
<1>6. ASSUME NEW k \in 0 .. N - 1, NEW y \in tier[k], NEW a \in Trades
      PROVE  ApplyTrade(y, a) \in tier[k + 1]
  <2>1. k \in 0 .. N /\ k + 1 \in 0 .. N /\ k \in 0 .. MaxTrades - 1
    BY <1>1
  <2>2. tier[k] = Sims(k, start) /\ tier[k + 1] = Sims(k + 1, start)
    BY <2>1
  <2> HIDE DEF tier
  <2>3. ApplyTrade(y, a) \in Sims(k + 1, start)
    BY <1>3, <2>1, <2>2, TradeStep
  <2> QED
    BY <2>2, <2>3
<1> HIDE DEF tier
<1>7. /\ \A r \in SUBSET DOMAIN trades : it[r] \in K
      /\ \A k \in 0 .. N : tier[k] \subseteq K
  OBVIOUS
<1> HIDE DEF K
<1>8. \A y \in K, a \in Trades : climb[y][a] = ApplyTrade(y, a)
  OBVIOUS
<1> HIDE DEF climb
<1>9. Climbs(tier, Trades, climb, N)
  <2> SUFFICES ASSUME NEW k \in 0 .. N - 1, NEW y \in tier[k], NEW a \in Trades
               PROVE  climb[y][a] \in tier[k + 1]
    BY DEF Climbs
  <2>1. k \in 0 .. N
    BY <1>1
  <2>2. climb[y][a] = ApplyTrade(y, a)
    BY <1>7, <1>8, <2>1
  <2> QED
    BY <1>6, <2>2
<1>10. \E g : Equation(g)
  <2>1. PICK g : /\ g = [s \in SUBSET DOMAIN trades |-> g[s]]
                 /\ Folds(g, climb, base, trades)
                 /\ \A s \in SUBSET DOMAIN trades :
                       Cardinality(s) \in 0 .. N /\ g[s] \in tier[Cardinality(s)]
    BY <1>1, <1>5, <1>9, TieredFoldExists
  <2>2. ASSUME NEW s \in SUBSET DOMAIN trades, s # {}
        PROVE  g[s] = ApplyTrade(g[s \ {Max(s)}], trades[Max(s)])
    <3>1. Max(s) \in s
      BY <1>1, <2>2, MaxIsGreatest
    <3>2. s \ {Max(s)} \in SUBSET DOMAIN trades /\ trades[Max(s)] \in Trades
      BY <1>1, <3>1
    <3>3. g[s \ {Max(s)}] \in K
      BY <1>7, <2>1, <3>2
    <3>4. g[s] = climb[g[s \ {Max(s)}]][trades[Max(s)]]
      BY <2>1, <2>2 DEF Folds
    <3> QED
      BY <1>8, <3>2, <3>3, <3>4
  <2>3. Equation(g)
    BY <2>1, <2>2 DEF Folds
  <2> QED
    BY <2>3
<1>11. Equation(it)
  <2> HIDE DEF Equation
  <2> QED
    BY <1>10
<1> HIDE DEF it
<1>12. Folds(it, climb, base, trades)
  <2> SUFFICES ASSUME NEW s \in SUBSET DOMAIN trades
               PROVE  it[s] = IF s = {} THEN base ELSE climb[it[s \ {Max(s)}]][trades[Max(s)]]
    BY DEF Folds
  <2>1. CASE s = {}
    BY <1>11, <2>1
  <2>2. CASE s # {}
    <3>1. Max(s) \in s
      BY <1>1, <2>2, MaxIsGreatest
    <3>2. trades[Max(s)] \in Trades /\ s \ {Max(s)} \in SUBSET DOMAIN trades
      BY <1>1, <3>1
    <3>3. it[s] = ApplyTrade(it[s \ {Max(s)}], trades[Max(s)])
      BY <1>11, <2>2
    <3> QED
      BY <1>7, <1>8, <2>2, <3>2, <3>3
  <2> QED
    BY <2>1, <2>2
<1>13. it[DOMAIN trades] \in tier[Cardinality(DOMAIN trades)]
       /\ Cardinality(DOMAIN trades) \in 0 .. N
  BY <1>1, <1>5, <1>9, <1>12, FoldClimbs
<1> QED
  BY <1>2, <1>13 DEF tier, start

\* The trade lists that are checked are trade lists.
LEMMA ConservationHolds == BookTypeOK => TradesConserveValue
<1> SUFFICES ASSUME BookTypeOK, NEW trades \in TradeLists
             PROVE  /\ \A s \in Symbols : PortfolioImpact(0, trades).book[s] >= - (Tolerance + 2 * Ulp)
                    /\ Worth(PortfolioImpact(0, trades).book, PortfolioImpact(0, trades).cash)
                         \in Worth(Book, 0) - Len(trades) * ((MaxPrice + 2) * Ulp)
                               .. Worth(Book, 0) + Len(trades) * ((MaxPrice + 2) * Ulp)
  BY DEF TradesConserveValue
<1> DEFINE end == PortfolioImpact(0, trades)
           n == Len(trades)
           start == Worth(Book, 0)
<1>1. trades \in Seq(Trades) /\ n \in 0 .. MaxTrades
  <2>1. PICK m \in 0 .. MaxTrades : trades \in [1 .. m -> Trades]
    BY DEF TradeLists, SeqOf
  <2>2. trades \in Seq(Trades) /\ Len(trades) = m
    BY <2>1, Room, SeqDef
  <2> QED
    BY <2>1, <2>2
<1>2. Book \in [Symbols -> Int]
  BY BookIsBounded DEF Books
<1>3. start = Value(Book, 0) /\ start \in Int
  BY <1>2, WorthIsValue
<1> HIDE DEF start
<1>4. PICK k \in 0 .. n : end \in Sims(k, start)
  <2>1. n <= MaxTrades
    BY <1>1, Room
  <2> QED
    BY <1>1, <1>3, <2>1, AnyTradesConserveValue
<1> HIDE DEF end
<1>5. /\ end.book \in [Symbols -> Int] /\ end.cash \in Int
      /\ \A s \in Symbols : - (Tolerance + 2 * Ulp) <= end.book[s]
      /\ start - k * Dust <= Value(end.book, end.cash)
      /\ Value(end.book, end.cash) <= start + k * Dust
  BY <1>4 DEF Sims
<1>6. k * Dust <= n * Dust /\ k * Dust \in Int /\ n * Dust \in Int
  <2>1. k \in Int /\ n \in Int /\ k <= n
    BY <1>1
  <2> QED
    BY <2>1, Room, Multiplied
<1>7. Worth(end.book, end.cash) = Value(end.book, end.cash) /\ Value(end.book, end.cash) \in Int
  BY <1>5, WorthIsValue
<1>8. \A s \in Symbols : end.book[s] >= - (Tolerance + 2 * Ulp)
  <2> TAKE s \in Symbols
  <2>1. end.book[s] \in Int /\ Tolerance \in Int /\ Ulp \in Int
    BY <1>5, Room
  <2> QED
    BY <1>5, <2>1
<1>9. Worth(end.book, end.cash) \in start - n * Dust .. start + n * Dust
  <2> DEFINE x == k * Dust
             y == n * Dust
             z == Value(end.book, end.cash)
  <2>1. x <= y /\ x \in Int /\ y \in Int /\ z \in Int /\ start - x <= z /\ z <= start + x
    BY <1>5, <1>6, <1>7
  <2> HIDE DEF x, y, z
  <2>2. z \in start - y .. start + y
    BY <1>3, <2>1
  <2> QED
    BY <1>7, <2>2 DEF y, z
<1> QED
  BY <1>8, <1>9 DEF end, start, Dust

\* calculate_portfolio_impact, whatever the positions, the closes and the rounding:
\* trades neither make nor lose money but for the rounding of each, and oversell by no
\* more than the tolerance.
THEOREM TradesMakeNoMoney == BookInit /\ [][BookNext]_bookVars => []TradesConserveValue
<1>1. BookTypeOK /\ [BookNext]_bookVars => BookTypeOK'
  BY BookTypesStep
<1> QED
  BY <1>1, BookTypes, ConservationHolds, PTL

-----------------------------------------------------------------------------
(* calculate_tax_loss_harvest                                              *)

Sales == [symbol : Symbols, remaining : 0 .. Limit, sold : Seq(Int)]

\* What is taken from a lot: nothing, or what there is of it, up to what is wanted.
LEMMA OneLot ==
  ASSUME NEW sale \in Sales, NEW lot \in Lots
  PROVE  \E n \in 0 .. sale.remaining :
            /\ ConsumeLot(sale, lot) =
                 [sale EXCEPT !.remaining = fl[sale.remaining - n], !.sold = Append(sale.sold, n)]
            /\ n <= fl[lot.shares]
            /\ lot.symbol # sale.symbol => n = 0
            /\ lot.symbol = sale.symbol /\ n # sale.remaining => n = fl[lot.shares]
            /\ sale.remaining = 0 => n = 0
            /\ fl[sale.remaining - n] \in 0 .. Limit /\ fl[lot.shares] \in Nat
            /\ fl[fl[sale.remaining - n]] = fl[sale.remaining - n]
            /\ sale.remaining - n - Ulp <= fl[sale.remaining - n]
            /\ fl[sale.remaining - n] <= sale.remaining - n + Ulp
<1> DEFINE r == sale.remaining
           n == IF r <= 0 \/ lot.symbol # sale.symbol THEN 0 ELSE take(fl[lot.shares], r)
<1>1. r \in 0 .. Limit /\ Limit \in Nat /\ Ulp \in Nat
  BY Room DEF Sales
<1>2. fl[lot.shares] \in Nat
  <2>1. lot.shares \in Int /\ -Limit <= lot.shares /\ lot.shares <= Limit /\ lot.shares >= 0
    <3>1. lot.shares \in 1 .. MaxShares
      BY BookAssumption DEF Lots
    <3>2. 0 * Size = 0 /\ MaxShares <= Size /\ 0 \in 0 .. MaxPositions + MaxTrades
      BY Room DEF Size
    <3>3. Size <= Limit
      BY <3>2, Room
    <3> QED
      BY <3>1, <3>2, <3>3, Room
  <2> QED
    BY <2>1, FloatBounds
<1>3. n \in 0 .. r /\ n <= fl[lot.shares]
  BY <1>1, <1>2 DEF take, Smaller
<1>4. /\ lot.symbol # sale.symbol => n = 0
      /\ lot.symbol = sale.symbol /\ n # r => n = fl[lot.shares]
      /\ r = 0 => n = 0
  BY <1>1, <1>2 DEF take, Smaller
<1>5. ConsumeLot(sale, lot) = [sale EXCEPT !.remaining = fl[r - n], !.sold = Append(sale.sold, n)]
  BY DEF ConsumeLot, Sales
<1> HIDE DEF n
<1> DEFINE rest == r - n
<1>6. rest \in Int /\ -Limit <= rest /\ rest <= Limit /\ rest >= 0
  BY <1>1, <1>3
<1>7. rest - Ulp = r - n - Ulp /\ rest + Ulp = r - n + Ulp
  BY <1>1, <1>3
<1> HIDE DEF rest
<1>8. fl[rest] \in Int /\ fl[rest] >= 0 /\ fl[rest] <= Limit /\ fl[fl[rest]] = fl[rest]
      /\ rest - Ulp <= fl[rest] /\ fl[rest] <= rest + Ulp
  BY <1>6, FloatBounds
<1>9. fl[rest] \in 0 .. Limit
  BY <1>1, <1>8
<1> QED
  BY <1>1, <1>2, <1>3, <1>4, <1>5, <1>7, <1>8, <1>9 DEF rest

LEMMA ConsumeLotType ==
  ASSUME NEW sale \in Sales, NEW lot \in Lots
  PROVE  ConsumeLot(sale, lot) \in Sales
<1>1. PICK n \in 0 .. sale.remaining :
         /\ ConsumeLot(sale, lot) =
              [sale EXCEPT !.remaining = fl[sale.remaining - n], !.sold = Append(sale.sold, n)]
         /\ fl[sale.remaining - n] \in 0 .. Limit
  BY OneLot
<1>2. sale.sold \in Seq(Int) /\ n \in Int
  BY DEF Sales
<1>3. Append(sale.sold, n) \in Seq(Int)
  BY <1>2, AppendProperties
<1> QED
  BY <1>1, <1>3 DEF Sales

\* The fold over the positions, written as a run.
LEMMA SaleIsRun ==
  ASSUME BookTypeOK, NEW base \in Sales
  PROVE  \E run : /\ run \in [0 .. Len(positions) -> Sales]
                  /\ run[0] = base
                  /\ \A k \in 1 .. Len(positions) : run[k] = ConsumeLot(run[k - 1], positions[k])
                  /\ FoldLeft(ConsumeLot, base, positions) = run[Len(positions)]
<1> DEFINE Equation(g) == g = [s \in SUBSET DOMAIN positions |->
                                 IF s = {} THEN base
                                 ELSE LET x == Max(s) IN ConsumeLot(g[s \ {x}], positions[x])]
           it == CHOOSE g : Equation(g)
           op == [y \in Sales |-> [a \in Lots |-> ConsumeLot(y, a)]]
<1>1. positions \in Seq(Lots) /\ DOMAIN positions = 1 .. Len(positions) /\ Len(positions) \in Nat
  BY DEF BookTypeOK
<1>2. FoldLeft(ConsumeLot, base, positions) = it[DOMAIN positions]
  BY DEF FoldLeft, MapThenFoldSet
<1>3. \A y \in Sales, a \in Lots : op[y][a] = ConsumeLot(y, a) /\ op[y][a] \in Sales
  BY ConsumeLotType
<1>b. \A y \in Sales, a \in Lots : op[y][a] \in Sales
  BY <1>3
<1> HIDE DEF op
<1>4. PICK g : Equation(g) /\ g \in [SUBSET DOMAIN positions -> Sales]
  <2>1. PICK g : FoldsUp(g, Sales, op, base, positions)
    BY <1>1, <1>b, FoldExists
  <2>2. ASSUME NEW s \in SUBSET DOMAIN positions, s # {}
        PROVE  g[s] = ConsumeLot(g[s \ {Max(s)}], positions[Max(s)])
    <3>1. Max(s) \in s
      BY <1>1, <2>2, MaxIsGreatest
    <3>2. g[s \ {Max(s)}] \in Sales /\ positions[Max(s)] \in Lots
      BY <1>1, <2>1, <3>1 DEF FoldsUp
    <3>3. g[s] = op[g[s \ {Max(s)}]][positions[Max(s)]]
      BY <2>1, <2>2 DEF FoldsUp
    <3> QED
      BY <1>3, <3>2, <3>3
  <2>3. Equation(g)
    BY <2>1, <2>2 DEF FoldsUp
  <2>4. g \in [SUBSET DOMAIN positions -> Sales]
    BY <2>1 DEF FoldsUp
  <2> QED
    BY <2>3, <2>4
<1>5. Equation(it)
  <2> HIDE DEF Equation
  <2> QED
    BY <1>4
<1> HIDE DEF it
<1> DEFINE run == [k \in 0 .. Len(positions) |-> it[1 .. k]]
<1>6. run[0] = base
  <2>1. 1 .. 0 = {}
    OBVIOUS
  <2>2. it[{}] = base
    BY <1>5
  <2> QED
    BY <1>1, <2>1, <2>2
<1>7. ASSUME NEW k \in 1 .. Len(positions)
      PROVE  run[k] = ConsumeLot(run[k - 1], positions[k])
  <2>1. 1 .. k \in SUBSET DOMAIN positions /\ 1 .. k # {} /\ Max(1 .. k) = k /\ (1 .. k) \ {k} = 1 .. k - 1
    BY <1>1, MaxOfPrefix
  <2>2. it[1 .. k] = ConsumeLot(it[1 .. k - 1], positions[k])
    BY <1>5, <2>1
  <2> QED
    BY <1>1, <2>2
<1>8. FoldLeft(ConsumeLot, base, positions) = run[Len(positions)]
  BY <1>1, <1>2
<1>9. run \in [0 .. Len(positions) -> Sales]
  <2> DEFINE good == {k \in 0 .. Len(positions) : run[k] \in Sales}
  <2>0. DOMAIN run = 0 .. Len(positions) /\ run = [k \in 0 .. Len(positions) |-> run[k]]
    OBVIOUS
  <2> HIDE DEF run
  <2>1. 0 \in good
    BY <1>1, <1>6
  <2>2. ASSUME NEW k \in 0 .. Len(positions) - 1, k \in good
        PROVE  k + 1 \in good
    <3>1. k + 1 \in 1 .. Len(positions) /\ (k + 1) - 1 = k /\ positions[k + 1] \in Lots
      BY <1>1
    <3>2. run[k + 1] = ConsumeLot(run[k], positions[k + 1])
      BY <1>7, <3>1
    <3>3. run[k] \in Sales
      BY <2>2
    <3>4. run[k + 1] \in Sales
      BY <3>1, <3>2, <3>3, ConsumeLotType
    <3> QED
      BY <1>1, <3>1, <3>4
  <2> HIDE DEF good
  <2>3. \A k \in 0 .. Len(positions) : k \in good
    BY <1>1, <2>1, <2>2, InductionTo
  <2> QED
    BY <2>0, <2>3 DEF good
<1> HIDE DEF run
<1> QED
  BY <1>6, <1>7, <1>8, <1>9

\* A sale of wanted shares of s once k positions have come by.
SoldSoFar(sale, k, s, wanted) ==
    /\ sale \in Sales /\ sale.symbol = s
    /\ fl[sale.remaining] = sale.remaining
    /\ Len(sale.sold) = k
    /\ \A i \in 1 .. k : 0 <= sale.sold[i] /\ sale.sold[i] <= fl[Held(s)[i]]
    /\ \A i, j \in 1 .. k : i < j /\ sale.sold[j] > 0 => sale.sold[i] = fl[Held(s)[i]]
    /\ sale.remaining > 0 => \A i \in 1 .. k : sale.sold[i] = fl[Held(s)[i]]
    /\ wanted - k * Ulp <= Total(sale.sold) + sale.remaining
    /\ Total(sale.sold) + sale.remaining <= wanted + k * Ulp

LEMMA SaleStep ==
  ASSUME BookTypeOK, NEW s \in Symbols, NEW wanted \in Nat, NEW k \in 0 .. Len(positions) - 1,
         NEW sale, SoldSoFar(sale, k, s, wanted)
  PROVE  SoldSoFar(ConsumeLot(sale, positions[k + 1]), k + 1, s, wanted)
<1> DEFINE lot == positions[k + 1]
           next == ConsumeLot(sale, lot)
           r == sale.remaining
           sold == sale.sold
           held == Held(s)
           dust == k * Ulp
<1>1. /\ k \in Nat /\ k + 1 \in 1 .. Len(positions) /\ lot \in Lots
      /\ Limit \in Nat /\ Ulp \in Nat /\ dust \in Nat /\ (k + 1) * Ulp = dust + Ulp
  <2>1. k \in Nat /\ k + 1 \in 1 .. Len(positions) /\ Limit \in Nat /\ Ulp \in Nat
    BY Room DEF BookTypeOK
  <2> QED
    BY <2>1 DEF BookTypeOK
<1>2. /\ sale \in Sales /\ sale.symbol = s /\ fl[r] = r /\ r \in Nat /\ sold \in Seq(Int) /\ Len(sold) = k
      /\ \A i \in 1 .. k : 0 <= sold[i] /\ sold[i] <= fl[held[i]]
      /\ \A i, j \in 1 .. k : i < j /\ sold[j] > 0 => sold[i] = fl[held[i]]
      /\ r > 0 => \A i \in 1 .. k : sold[i] = fl[held[i]]
      /\ wanted - dust <= Total(sold) + r
      /\ Total(sold) + r <= wanted + dust
  BY Room DEF SoldSoFar, Sales
<1> HIDE DEF dust
<1>3. held[k + 1] = IF lot.symbol = s THEN lot.shares ELSE 0
  BY <1>1 DEF Held, BookTypeOK
<1> HIDE DEF lot, held
<1>4. PICK n \in 0 .. r :
         /\ next = [sale EXCEPT !.remaining = fl[r - n], !.sold = Append(sold, n)]
         /\ n <= fl[lot.shares]
         /\ lot.symbol # sale.symbol => n = 0
         /\ lot.symbol = sale.symbol /\ n # r => n = fl[lot.shares]
         /\ r = 0 => n = 0
         /\ fl[r - n] \in 0 .. Limit /\ fl[lot.shares] \in Nat
         /\ fl[fl[r - n]] = fl[r - n]
         /\ r - n - Ulp <= fl[r - n]
         /\ fl[r - n] <= r - n + Ulp
  BY <1>1, <1>2, OneLot
<1> DEFINE rest == fl[r - n]
           more == Append(sold, n)
<1>5. /\ rest \in Nat /\ fl[rest] = rest /\ r - n - Ulp <= rest /\ rest <= r - n + Ulp
      /\ n \in Nat /\ n <= r
  BY <1>1, <1>2, <1>4
<1>6. n = r => rest = 0
  <2>1. n = r => r - n = 0
    BY <1>2, <1>5
  <2> QED
    BY <2>1, RoundingAssumption
<1>7. /\ more \in Seq(Int) /\ Len(more) = k + 1 /\ more[k + 1] = n
      /\ \A i \in 1 .. k : more[i] = sold[i]
      /\ Total(more) = Total(sold) + n /\ Total(sold) \in Int
  <2>1. sold \in Seq(Int) /\ n \in Int
    BY <1>2, <1>5
  <2>2. more \in Seq(Int) /\ Len(more) = Len(sold) + 1 /\ more[Len(sold) + 1] = n
        /\ \A i \in 1 .. Len(sold) : more[i] = sold[i]
    BY <2>1, AppendProperties
  <2>3. Total(more) = Total(sold) + n /\ Total(sold) \in Int
    BY <2>1, TotalOfAppend
  <2> HIDE DEF more
  <2> QED
    BY <1>2, <2>2, <2>3
<1>8. next \in Sales /\ next.symbol = s /\ next.remaining = rest /\ next.sold = more
  <2>1. next \in Sales
    BY <1>1, <1>2, ConsumeLotType
  <2>2. next.symbol = s /\ next.remaining = rest /\ next.sold = more
    BY <1>2, <1>4 DEF Sales
  <2> QED
    BY <2>1, <2>2
<1> HIDE DEF next, more, rest
<1>9. /\ n <= fl[held[k + 1]]
      /\ rest > 0 => n = fl[held[k + 1]]
  <2>1. CASE lot.symbol = s
    <3>1. held[k + 1] = lot.shares
      BY <1>3, <2>1
    <3>2. n # r => n = fl[lot.shares]
      BY <1>2, <1>4, <2>1
    <3> QED
      BY <1>4, <1>5, <1>6, <3>1, <3>2
  <2>2. CASE lot.symbol # s
    <3>1. held[k + 1] = 0 /\ fl[0] = 0 /\ n = 0
      BY <1>2, <1>3, <1>4, <2>2, RoundingAssumption
    <3> QED
      BY <3>1
  <2> QED
    BY <2>1, <2>2
<1>10. n > 0 \/ rest > 0 => r > 0
  <2>1. CASE r = 0
    <3>1. n = 0 /\ r = n
      BY <1>4, <2>1
    <3>2. rest = 0
      BY <1>6, <3>1
    <3> QED
      BY <3>1, <3>2
  <2>2. CASE r # 0
    BY <1>2, <2>2
  <2> QED
    BY <2>1, <2>2
<1>11. \A i \in 1 .. k + 1 : i \in 1 .. k \/ i = k + 1
  BY <1>1
<1>12. \A i \in 1 .. k + 1 : 0 <= more[i] /\ more[i] <= fl[held[i]]
  <2> TAKE i \in 1 .. k + 1
  <2>1. CASE i \in 1 .. k
    BY <1>2, <1>7, <2>1
  <2>2. CASE i = k + 1
    BY <1>5, <1>7, <1>9, <2>2
  <2> QED
    BY <1>11, <2>1, <2>2
<1>13. r > 0 => \A i \in 1 .. k : more[i] = fl[held[i]]
  BY <1>2, <1>7
<1>14. \A i, j \in 1 .. k + 1 : i < j /\ more[j] > 0 => more[i] = fl[held[i]]
  <2> TAKE i, j \in 1 .. k + 1
  <2> HAVE i < j /\ more[j] > 0
  <2>1. i \in 1 .. k
    BY <1>1
  <2>2. CASE j \in 1 .. k
    BY <1>2, <1>7, <2>1, <2>2
  <2>3. CASE j = k + 1
    BY <1>7, <1>10, <1>13, <2>1, <2>3
  <2> QED
    BY <1>11, <2>2, <2>3
<1>15. rest > 0 => \A i \in 1 .. k + 1 : more[i] = fl[held[i]]
  BY <1>7, <1>9, <1>10, <1>11, <1>13
<1>16. /\ wanted - (dust + Ulp) <= Total(more) + rest
       /\ Total(more) + rest <= wanted + (dust + Ulp)
  <2> DEFINE a == Total(sold)
             b == Total(more)
  <2>1. /\ a \in Int /\ b = a + n /\ wanted - dust <= a + r /\ a + r <= wanted + dust
    BY <1>2, <1>7
  <2> HIDE DEF a, b
  <2>2. wanted - (dust + Ulp) <= b + rest /\ b + rest <= wanted + (dust + Ulp)
    BY <1>1, <1>2, <1>5, <2>1, SMTT(30)
  <2> QED
    BY <2>2 DEF b
<1> QED
  BY <1>1, <1>5, <1>7, <1>8, <1>12, <1>14, <1>15, <1>16 DEF SoldSoFar, held, next, lot

\* Whatever the positions and the rounding: what a sale has taken at its end.
LEMMA SaleSells ==
  ASSUME BookTypeOK, NEW s \in Symbols, NEW wanted \in Nat, wanted <= Limit, fl[wanted] = wanted
  PROVE  SoldSoFar(Sale(s, wanted), Len(positions), s, wanted)
<1> DEFINE base == [symbol |-> s, remaining |-> wanted, sold |-> <<>>]
           N == Len(positions)
<1>1. N \in Nat
  BY DEF BookTypeOK
<1>2. base \in Sales /\ SoldSoFar(base, 0, s, wanted)
  <2>1. <<>> \in Seq(Int) /\ Len(<<>>) = 0 /\ 0 * Ulp = 0 /\ wanted \in 0 .. Limit /\ Limit \in Nat
    BY Room
  <2>2. Total(<<>>) = 0
    <3>1. <<>> \in [1 .. 0 -> Int]
      BY <2>1
    <3>2. PICK p : p[0] = 0 /\ Total(<<>>) = p[0]
      BY <3>1, RunningTotal
    <3> QED
      BY <3>2
  <2>3. base \in Sales
    BY <2>1 DEF Sales
  <2>4. base.symbol = s /\ base.remaining = wanted /\ base.sold = <<>>
    OBVIOUS
  <2>5. \A i \in 1 .. 0 : FALSE
    OBVIOUS
  <2> HIDE DEF base
  <2> QED
    BY <2>1, <2>2, <2>3, <2>4, <2>5 DEF SoldSoFar
<1>3. Sale(s, wanted) = FoldLeft(ConsumeLot, base, positions)
  BY DEF Sale
<1> HIDE DEF base
<1>4. PICK run : /\ run \in [0 .. N -> Sales]
                 /\ run[0] = base
                 /\ \A k \in 1 .. N : run[k] = ConsumeLot(run[k - 1], positions[k])
                 /\ FoldLeft(ConsumeLot, base, positions) = run[N]
  BY <1>2, SaleIsRun
<1> DEFINE good == {k \in Nat : SoldSoFar(run[k], k, s, wanted)}
<1>5. 0 \in good
  BY <1>2, <1>4
<1>6. ASSUME NEW k \in 0 .. N - 1, k \in good
      PROVE  k + 1 \in good
  <2>1. k + 1 \in 1 .. N /\ (k + 1) - 1 = k /\ k + 1 \in Nat
    BY <1>1
  <2>2. run[k + 1] = ConsumeLot(run[k], positions[k + 1])
    BY <1>4, <2>1
  <2>3. SoldSoFar(run[k], k, s, wanted)
    BY <1>6
  <2>4. SoldSoFar(ConsumeLot(run[k], positions[k + 1]), k + 1, s, wanted)
    BY <2>3, SaleStep
  <2> QED
    BY <2>1, <2>2, <2>4
<1> HIDE DEF good
<1>7. N \in good
  <2>1. \A k \in 0 .. N : k \in good
    BY <1>1, <1>5, <1>6, InductionTo
  <2> QED
    BY <1>1, <2>1
<1> QED
  BY <1>3, <1>4, <1>7 DEF good

\* What the calculator answers, for every book, symbol and number of shares.
LEMMA AnySaleSellsOldest == BookTypeOK => SellsOldestShares
<1> SUFFICES ASSUME BookTypeOK, NEW s \in Symbols, NEW wanted \in Asked
             PROVE  LET lots   == Held(s)
                        sold   == Sale(s, wanted).sold
                        answer == TaxLossHarvest(s, wanted)
                        none   == \A i \in DOMAIN lots : lots[i] = 0
                        dust   == Len(positions) * Ulp
                    IN  /\ none => answer.status = "no_position"
                        /\ ~none /\ close[s] = 0 => answer.status = "no_price"
                        /\ ~none /\ close[s] # 0 =>
                              /\ \A i \in DOMAIN lots : sold[i] \in 0 .. fl[lots[i]]
                              /\ \A i, j \in DOMAIN lots : i < j /\ sold[j] > 0 => sold[i] = fl[lots[i]]
                              /\ \/ /\ answer.status = "ok"
                                    /\ Total(sold) \in wanted - dust .. wanted + dust
                                 \/ /\ answer.status = "insufficient_shares"
                                    /\ \A i \in DOMAIN lots : sold[i] = fl[lots[i]]
                                    /\ Total(lots) <= wanted + 2 * dust
                                    /\ answer.available \in
                                          Total(lots) - 2 * dust - Ulp .. Total(lots) + 2 * dust + Ulp
  BY DEF SellsOldestShares
<1> DEFINE N == Len(positions)
           lots == Held(s)
           sale == Sale(s, wanted)
           sold == sale.sold
           r == sale.remaining
           answer == TaxLossHarvest(s, wanted)
           dust == N * Ulp
<1>1. /\ N \in Nat /\ DOMAIN positions = 1 .. N /\ Ulp \in Nat /\ Limit \in Nat /\ dust \in Nat
      /\ positions \in Seq(Lots)
  <2>1. N \in Nat /\ DOMAIN positions = 1 .. N /\ Ulp \in Nat /\ Limit \in Nat
    BY Room DEF BookTypeOK
  <2> QED
    BY <2>1 DEF BookTypeOK
<1>2. wanted \in Nat /\ wanted <= Limit /\ fl[wanted] = wanted
  <2>1. wanted \in 1 .. MaxShares /\ fl[wanted] = wanted
    BY BookAssumption
  <2>2. 0 * Size = 0 /\ MaxShares <= Size /\ 0 \in 0 .. MaxPositions + MaxTrades
    BY Room DEF Size
  <2>3. Size <= Limit
    BY <2>2, Room
  <2> QED
    BY <2>1, <2>2, <2>3, Room
<1>3. SoldSoFar(sale, N, s, wanted)
  BY <1>2, SaleSells
<1>4. /\ DOMAIN lots = 1 .. N
      /\ \A i \in 1 .. N : /\ lots[i] = IF positions[i].symbol = s THEN positions[i].shares ELSE 0
                           /\ positions[i].shares \in 1 .. MaxShares
                           /\ lots[i] \in 0 .. Limit
  <2>1. DOMAIN lots = 1 .. N
    BY <1>1 DEF Held
  <2>2. ASSUME NEW i \in 1 .. N
        PROVE  /\ lots[i] = IF positions[i].symbol = s THEN positions[i].shares ELSE 0
               /\ positions[i].shares \in 1 .. MaxShares
               /\ lots[i] \in 0 .. Limit
    <3>1. positions[i] \in Lots
      BY <1>1
    <3>2. positions[i].shares \in 1 .. MaxShares
      BY <3>1, BookAssumption DEF Lots
    <3>3. lots[i] = IF positions[i].symbol = s THEN positions[i].shares ELSE 0
      BY <1>1 DEF Held
    <3>4. MaxShares <= Limit /\ MaxShares \in Nat
      <4>1. 0 * Size = 0 /\ MaxShares <= Size /\ 0 \in 0 .. MaxPositions + MaxTrades
        BY Room DEF Size
      <4>2. Size <= Limit
        BY <4>1, Room
      <4> QED
        BY <4>1, <4>2, Room
    <3> HIDE DEF lots
    <3> QED
      BY <1>1, <3>2, <3>3, <3>4
  <2> HIDE DEF lots
  <2> QED
    BY <2>1, <2>2
<1>5. /\ r \in Nat /\ r <= Limit /\ sold \in Seq(Int) /\ Len(sold) = N
      /\ \A i \in 1 .. N : 0 <= sold[i] /\ sold[i] <= fl[lots[i]]
      /\ \A i, j \in 1 .. N : i < j /\ sold[j] > 0 => sold[i] = fl[lots[i]]
      /\ r > 0 => \A i \in 1 .. N : sold[i] = fl[lots[i]]
      /\ wanted - dust <= Total(sold) + r
      /\ Total(sold) + r <= wanted + dust
  <2> HIDE DEF sale, lots, dust
  <2> QED
    BY <1>1, <1>3 DEF SoldSoFar, Sales, lots, dust
<1>6. answer = IF \A i \in 1 .. N : positions[i].symbol # s THEN [status |-> "no_position"]
               ELSE IF close[s] = 0 THEN [status |-> "no_price"]
               ELSE IF r > 0
               THEN [status |-> "insufficient_shares", available |-> fl[wanted - r]]
               ELSE [status |-> "ok", lots |-> sold]
  BY <1>1 DEF TaxLossHarvest
<1>7. (\A i \in 1 .. N : positions[i].symbol # s) <=> (\A i \in 1 .. N : lots[i] = 0)
  <2>1. \A i \in 1 .. N : positions[i].shares # 0
    BY <1>4
  <2> QED
    BY <1>4, <2>1
<1> HIDE DEF answer, lots, sale, dust
<1>8. CASE \A i \in 1 .. N : lots[i] = 0
  <2>1. answer.status = "no_position"
    BY <1>6, <1>7, <1>8
  <2> QED
    BY <1>4, <1>8, <2>1 DEF answer, lots, sale, dust
<1>9. CASE close[s] = 0 /\ \E i \in 1 .. N : lots[i] # 0
  <2>1. answer.status = "no_price"
    BY <1>6, <1>7, <1>9
  <2> QED
    BY <1>4, <1>9, <2>1 DEF answer, lots, sale, dust
<1>10. CASE close[s] # 0 /\ \E i \in 1 .. N : lots[i] # 0
  <2>1. \A i \in 1 .. N : sold[i] \in Int /\ fl[lots[i]] \in Int
                          /\ lots[i] - Ulp <= fl[lots[i]] /\ fl[lots[i]] <= lots[i] + Ulp
    <3> TAKE i \in 1 .. N
    <3>1. sold[i] \in Int
      BY <1>5
    <3>2. lots[i] \in Int /\ -Limit <= lots[i] /\ lots[i] <= Limit
      BY <1>1, <1>4
    <3> QED
      BY <3>1, <3>2, FloatBounds
  <2>2. \A i \in 1 .. N : sold[i] \in 0 .. fl[lots[i]]
    BY <1>5, <2>1
  <2>3. Total(sold) \in Int
    <3>1. sold \in Seq(Int) /\ 0 \in Int
      BY <1>5
    <3> QED
      BY <3>1, TotalOfAppend
  <2>4. CASE r = 0
    <3>1. answer.status = "ok"
      BY <1>6, <1>7, <1>10, <2>4
    <3>2. Total(sold) \in wanted - dust .. wanted + dust
      BY <1>1, <1>2, <1>5, <2>3, <2>4
    <3> QED
      BY <1>4, <1>5, <1>10, <2>2, <3>1, <3>2 DEF answer, lots, sale, dust
  <2>5. CASE r > 0
    <3>1. answer.status = "insufficient_shares" /\ answer.available = fl[wanted - r]
      BY <1>6, <1>7, <1>10, <2>5
    <3>2. \A i \in 1 .. N : sold[i] = fl[lots[i]]
      BY <1>5, <2>5
    <3> DEFINE a == Total(sold)
               b == Total(lots)
               x == wanted - r
    <3>3. a \in Int /\ b \in Int /\ b - dust <= a /\ a <= b + dust
      <4>1. sold \in [1 .. N -> Int]
        BY <1>5
      <4>2. lots \in [1 .. N -> Int]
        <5>1. lots = [i \in 1 .. N |-> lots[i]]
          BY <1>1, <1>4 DEF lots, Held
        <5>2. \A i \in 1 .. N : lots[i] \in Int
          BY <1>1, <1>4
        <5> QED
          BY <5>1, <5>2
      <4>3. \A i \in 1 .. N : lots[i] - Ulp <= sold[i] /\ sold[i] <= lots[i] + Ulp
        BY <2>1, <3>2
      <4>4. /\ Total(lots) \in Int /\ Total(sold) \in Int
            /\ Total(lots) - N * Ulp <= Total(sold) /\ Total(sold) <= Total(lots) + N * Ulp
        BY <1>1, <4>1, <4>2, <4>3, TotalsAreNear
      <4> QED
        BY <4>4 DEF dust
    <3>4. wanted - dust <= a + r /\ a + r <= wanted + dust
      BY <1>5
    <3> HIDE DEF a, b
    <3>5. b <= wanted + 2 * dust
      BY <1>1, <1>2, <1>5, <2>5, <3>3, <3>4
    <3>6. x \in Int /\ a - dust <= x /\ x <= a + dust
      BY <1>1, <1>2, <1>5, <3>3, <3>4
    <3>7. fl[x] \in Int /\ x - Ulp <= fl[x] /\ fl[x] <= x + Ulp
      <4>1. x \in Int /\ -Limit <= x /\ x <= Limit
        BY <1>1, <1>2, <1>5
      <4> HIDE DEF x
      <4> QED
        BY <4>1, FloatBounds
    <3> HIDE DEF x
    <3>8. b - 2 * dust - Ulp <= fl[x] /\ fl[x] <= b + 2 * dust + Ulp
      BY <1>1, <3>3, <3>6, <3>7
    <3>9. fl[x] \in b - 2 * dust - Ulp .. b + 2 * dust + Ulp
      BY <1>1, <3>3, <3>7, <3>8
    <3>10. answer.available \in Total(lots) - 2 * dust - Ulp .. Total(lots) + 2 * dust + Ulp
      BY <3>1, <3>9 DEF b, x
    <3>11. Total(lots) <= wanted + 2 * dust
      BY <3>5 DEF b
    <3>12. /\ answer.status = "insufficient_shares"
           /\ \A i \in DOMAIN lots : sold[i] = fl[lots[i]]
           /\ Total(lots) <= wanted + 2 * dust
           /\ answer.available \in Total(lots) - 2 * dust - Ulp .. Total(lots) + 2 * dust + Ulp
      BY <1>4, <3>1, <3>2, <3>10, <3>11
    <3>13. /\ \A i \in DOMAIN lots : sold[i] \in 0 .. fl[lots[i]]
           /\ \A i, j \in DOMAIN lots : i < j /\ sold[j] > 0 => sold[i] = fl[lots[i]]
      BY <1>4, <1>5, <2>2
    <3>14. /\ ~ \A i \in DOMAIN lots : lots[i] = 0
           /\ \E i \in DOMAIN lots : lots[i] # 0
           /\ close[s] # 0
      BY <1>4, <1>10
    <3> QED
      BY <3>12, <3>13, <3>14 DEF answer, lots, sale, dust
  <2> QED
    BY <1>5, <2>4, <2>5
<1> QED
  BY <1>8, <1>9, <1>10

\* calculate_tax_loss_harvest sells the oldest shares first, and what it was asked to
\* but for the rounding, of every list of positions.
THEOREM OldestSharesAreSold == BookInit /\ [][BookNext]_bookVars => []SellsOldestShares
<1>1. BookTypeOK /\ [BookNext]_bookVars => BookTypeOK'
  BY BookTypesStep
<1> QED
  BY <1>1, BookTypes, AnySaleSellsOldest, PTL

=============================================================================
