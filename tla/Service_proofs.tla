---------------------------- MODULE Service_proofs ----------------------------
(***************************************************************************)
(* The service's invariant, for any number of analyses, streams, sessions, *)
(* turns, reports and critique runs, any caps and any number of requests.  *)
(* Each of the three parts brings its share, with a lemma for every step:  *)
(*   - the routes: one id per key, and a running cost that exceeds the     *)
(*     hard cap by a bound;                                                *)
(*   - the critiques: a row that reads ok is whole, and no run costs more  *)
(*     than its two caps and one call past each;                           *)
(*   - the chat: a session's count follows its messages.                   *)
(***************************************************************************)
EXTENDS Service, TLAPS, FiniteSetTheorems, SequenceTheorems

-----------------------------------------------------------------------------
(* Analysis requests and streams                                           *)

\* A row is where its request, its task or its streams say it is, and a request that
\* was answered was answered with the one row that has its key.
RowsInv ==
    /\ \A a \in Analyses : req[a].at \in {"new", "checked"} => row[a] = Absent
    /\ \A a \in Analyses : req[a].at = "checked" => req[a].key \in Nat
    /\ \A a \in Analyses : task[a] = "running" => Exists(a)
    /\ \A s \in Streams : run[s].at # "idle" => run[s].of \in Analyses /\ Exists(run[s].of)
    /\ \A a \in Analyses : row[a].key # NoKey => Exists(a)
    /\ \A a, b \in Analyses : row[a].key # NoKey /\ row[a].key = row[b].key => a = b
    /\ \A a \in Analyses : req[a].at = "answered" =>
          req[a].key # NoKey /\ req[a].answer \in Analyses /\ row[req[a].answer].key = req[a].key

\* Before its synthesis a stream has spent less than its share: the cap, one superstep
\* and the syntheses of the k - 1 other streams that were opened.
Floor == HardCap - 1 + Cardinality(PRELIMINARY) * MaxNodeCost

Spending(r, k) ==
    /\ k > 0
    /\ r.at \in Supersteps =>
          /\ r.done \subseteq Nodes(r.at)
          /\ r.gain <= Cardinality(r.done) * MaxNodeCost
          /\ r.cost >= HardCap => r.gain = 0
    /\ r.at \notin Supersteps => r.gain = 0
    /\ r.at # "persist" => r.cost + r.gain <= Floor + (k - 1) * MaxSynthCost
    /\ r.cost + r.gain <= Floor + k * MaxSynthCost

BudgetInv ==
    /\ \A a \in Analyses : thread[a] <= Bound(a)
    /\ \A s \in Streams : run[s].at # "idle" => Spending(run[s], opened[run[s].of])

RoutesInv == RoutesTypeOK /\ RowsInv /\ BudgetInv

LEMMA RoutesInitInv == RoutesInit => RoutesInv
<1> SUFFICES ASSUME RoutesInit PROVE RoutesInv
  OBVIOUS
<1>1. RoutesTypeOK
  BY RoutesAssumption DEF RoutesInit, RoutesTypeOK, Absent, Idle, NoKey, None, Accumulated, Decisions,
     Supersteps
<1>2. RowsInv
  BY DEF RoutesInit, RowsInv, Absent, Idle, NoKey, Exists
<1>3. BudgetInv
  <2>1. Cardinality(PRELIMINARY) \in Nat
    BY RoutesAssumption, FS_CardinalityType
  <2>2. Cardinality(PRELIMINARY) * MaxNodeCost \in Nat
    BY <2>1, RoutesAssumption, Z3
  <2> QED
    BY <2>2, RoutesAssumption DEF RoutesInit, BudgetInv, Idle, Bound
<1> QED
  BY <1>1, <1>2, <1>3 DEF RoutesInv

-----------------------------------------------------------------------------
(* Types                                                                   *)

\* The values of the three variables that hold records, and what is put into them.
RequestRecords ==
    [at : {"new", "checked", "answered", "refused", "error", "taken"},
     key : Nat \cup {NoKey}, answer : Analyses \cup {None}]

AnalysisRows ==
    [status : {"absent", "pending", "succeeded", "failed"}, cost : Nat, since : Nat,
     key : Nat \cup {NoKey}, action : Decisions, dated : BOOLEAN]

StreamRecords ==
    [of : Analyses \cup {None}, at : Supersteps \cup {"idle", "synthesis", "persist"},
     cost : Nat, done : SUBSET Specialists, gain : Nat]

LEMMA RoutesTypes ==
  RoutesTypeOK <=> /\ minute \in 0 .. MaxMinute
                   /\ req \in [Analyses -> RequestRecords]
                   /\ row \in [Analyses -> AnalysisRows]
                   /\ task \in [Analyses -> {"none", "running", "ended"}]
                   /\ thread \in Accumulated /\ opened \in Accumulated
                   /\ run \in [Streams -> StreamRecords]
  BY DEF RoutesTypeOK, RequestRecords, AnalysisRows, StreamRecords

LEMMA RoutesTypesNext ==
  RoutesTypeOK' <=> /\ minute' \in 0 .. MaxMinute
                    /\ req' \in [Analyses -> RequestRecords]
                    /\ row' \in [Analyses -> AnalysisRows]
                    /\ task' \in [Analyses -> {"none", "running", "ended"}]
                    /\ thread' \in Accumulated /\ opened' \in Accumulated
                    /\ run' \in [Streams -> StreamRecords]
  BY DEF RoutesTypeOK, RequestRecords, AnalysisRows, StreamRecords

LEMMA InitialRecords == Absent \in AnalysisRows /\ Idle \in StreamRecords
  BY DEF Absent, AnalysisRows, Decisions, NoKey, Idle, StreamRecords, None

LEMMA RequestMoves ==
  ASSUME NEW r \in RequestRecords,
         NEW at \in {"new", "checked", "answered", "refused", "error", "taken"},
         NEW key \in Nat \cup {NoKey}, NEW answer \in Analyses
  PROVE  /\ [r EXCEPT !.at = at] \in RequestRecords
         /\ [r EXCEPT !.at = at, !.key = key] \in RequestRecords
         /\ [r EXCEPT !.at = at, !.answer = answer] \in RequestRecords
  BY DEF RequestRecords

LEMMA RequestRecord ==
  ASSUME NEW key \in Nat, NEW answer \in Analyses
  PROVE  [at |-> "answered", key |-> key, answer |-> answer] \in RequestRecords
  BY DEF RequestRecords

LEMMA RowPublished ==
  ASSUME NEW r \in AnalysisRows, NEW status \in {"succeeded", "failed"}, NEW cost \in Nat
  PROVE  [r EXCEPT !.status = status, !.cost = cost] \in AnalysisRows
  BY DEF AnalysisRows

LEMMA RowDecided ==
  ASSUME NEW r \in AnalysisRows, NEW action \in Decisions
  PROVE  [r EXCEPT !.action = action, !.dated = (action # "none")] \in AnalysisRows
<1>1. (action # "none") \in BOOLEAN
  OBVIOUS
<1> QED
  BY <1>1 DEF AnalysisRows

LEMMA RowOfQuickRun ==
  ASSUME NEW status \in {"succeeded", "failed"}, NEW cost \in Nat, NEW since \in Nat
  PROVE  [Absent EXCEPT !.status = status, !.cost = cost, !.since = since] \in AnalysisRows
<1> SUFFICES ASSUME NEW r \in AnalysisRows
             PROVE  [r EXCEPT !.status = status, !.cost = cost, !.since = since] \in AnalysisRows
  BY InitialRecords
<1> QED
  BY DEF AnalysisRows

LEMMA InsertedRow ==
  ASSUME NEW since \in Nat, NEW key \in Nat
  PROVE  [Absent EXCEPT !.status = "pending", !.since = since, !.key = key] \in AnalysisRows
<1> SUFFICES ASSUME NEW r \in AnalysisRows
             PROVE  [r EXCEPT !.status = "pending", !.since = since, !.key = key] \in AnalysisRows
  BY InitialRecords
<1> QED
  BY DEF AnalysisRows

LEMMA StreamOpens ==
  ASSUME NEW a \in Analyses, NEW cost \in Nat, NEW at \in Supersteps \cup {"synthesis"}
  PROVE  [Idle EXCEPT !.of = a, !.at = at, !.cost = cost] \in StreamRecords
<1> SUFFICES ASSUME NEW r \in StreamRecords
             PROVE  [r EXCEPT !.of = a, !.at = at, !.cost = cost] \in StreamRecords
  BY InitialRecords
<1> QED
  BY DEF StreamRecords

LEMMA StreamFinishes ==
  ASSUME NEW r \in StreamRecords, NEW cost, r.cost + cost \in Nat
  PROVE  [r EXCEPT !.at = "persist", !.cost = @ + cost] \in StreamRecords
  BY DEF StreamRecords

-----------------------------------------------------------------------------
(* The arithmetic of the budget                                            *)

LEMMA Numbers ==
    /\ HardCap \in Nat /\ HardCap > 0
    /\ MaxNodeCost \in Nat /\ MaxSynthCost \in Nat /\ MaxMinute \in Nat
    /\ Cardinality(PRELIMINARY) \in Nat /\ Cardinality(PRELIMINARY) >= 2
  BY RoutesAssumption, FS_CardinalityType

LEMMA Products ==
  ASSUME NEW k \in Nat, NEW m \in Nat, NEW n \in Nat
  PROVE  /\ k * m \in Nat
         /\ (k + 1) * m = k * m + m
         /\ n <= k => n * m <= k * m
<1>1. k * m \in Nat /\ n * m \in Nat /\ (k + 1) * m = k * m + m
  BY Z3
<1>2. ASSUME n <= k PROVE n * m <= k * m
  <2>1. k - n \in Nat
    BY <1>2
  <2>2. (k - n) * m \in Nat
    BY <2>1, Z3
  <2>3. (k - n) * m = k * m - n * m
    BY Z3
  <2> QED
    BY <1>1, <2>2, <2>3
<1> QED
  BY <1>1, <1>2

LEMMA FloorIsNumber == Floor \in Nat
  BY Numbers, Products DEF Floor

LEMMA BoundIsFloor ==
  ASSUME NEW a \in Analyses PROVE Bound(a) = Floor + opened[a] * MaxSynthCost
  BY DEF Bound, Floor

LEMMA NodesAreFew ==
  ASSUME NEW at \in Supersteps, NEW done, done \subseteq Nodes(at)
  PROVE  /\ IsFiniteSet(done)
         /\ Cardinality(done) \in Nat
         /\ Cardinality(done) <= Cardinality(PRELIMINARY)
<1>1. IsFiniteSet(Nodes(at)) /\ Cardinality(Nodes(at)) <= Cardinality(PRELIMINARY)
  <2>1. CASE at = "preliminary"
    BY <2>1, RoutesAssumption, Numbers DEF Nodes
  <2>2. CASE at = "debate"
    <3>1. IsFiniteSet({"bull", "bear"}) /\ Cardinality({"bull", "bear"}) = 2
      <4>1. IsFiniteSet({"bear"}) /\ Cardinality({"bear"}) = 1
        BY FS_Singleton
      <4>2. {"bull", "bear"} = {"bear"} \cup {"bull"} /\ "bull" \notin {"bear"}
        OBVIOUS
      <4> QED
        BY <4>1, <4>2, FS_AddElement
    <3> QED
      BY <2>2, <3>1, Numbers DEF Nodes, RESEARCHERS
  <2>3. CASE at = "risk_final"
    <3>1. IsFiniteSet({"risk"}) /\ Cardinality({"risk"}) = 1
      BY FS_Singleton
    <3> QED
      BY <2>3, <3>1, Numbers DEF Nodes
  <2> QED
    BY <2>1, <2>2, <2>3 DEF Supersteps
<1>2. Cardinality(Nodes(at)) \in Nat
  BY <1>1, FS_CardinalityType
<1>3. IsFiniteSet(done) /\ Cardinality(done) <= Cardinality(Nodes(at))
  BY <1>1, FS_Subset
<1>4. Cardinality(done) \in Nat
  BY <1>3, FS_CardinalityType
<1> QED
  BY <1>1, <1>2, <1>3, <1>4, Numbers

\* Another stream of the analysis is opened.
LEMMA SpendingGrows ==
  ASSUME NEW r \in StreamRecords, NEW k \in Nat, Spending(r, k)
  PROVE  Spending(r, k + 1)
<1>1. /\ k * MaxSynthCost \in Nat /\ (k + 1) * MaxSynthCost = k * MaxSynthCost + MaxSynthCost
      /\ (k - 1) * MaxSynthCost <= k * MaxSynthCost
      /\ (k - 1) * MaxSynthCost \in Nat
  BY Products, Numbers DEF Spending
<1>2. r.cost \in Nat /\ r.gain \in Nat
  BY DEF StreamRecords
<1> QED
  BY <1>1, <1>2, Numbers, FloorIsNumber DEF Spending

LEMMA SpendingOfNode ==
  ASSUME NEW r \in StreamRecords, NEW k \in Nat, Spending(r, k), r.at \in Supersteps,
         NEW n \in Nodes(r.at) \ r.done, NEW cost \in 0 .. MaxNodeCost,
         is_exceeded(r.cost) => cost = 0
  PROVE  Spending([r EXCEPT !.done = @ \cup {n}, !.gain = @ + cost], k)
<1> DEFINE done == r.done \cup {n}
<1>1. r.cost \in Nat /\ r.gain \in Nat /\ cost \in Nat /\ cost <= MaxNodeCost
  BY Numbers DEF StreamRecords
<1>2. done \subseteq Nodes(r.at) /\ r.done \subseteq Nodes(r.at)
  BY DEF Spending
<1>3. /\ IsFiniteSet(r.done) /\ Cardinality(r.done) \in Nat
      /\ Cardinality(done) \in Nat /\ Cardinality(done) <= Cardinality(PRELIMINARY)
  BY <1>2, NodesAreFew
<1>4. Cardinality(done) = Cardinality(r.done) + 1
  BY <1>3, FS_AddElement
<1>5. r.gain + cost <= Cardinality(done) * MaxNodeCost
  BY <1>1, <1>3, <1>4, Products, Numbers DEF Spending
<1>6. r.cost >= HardCap => r.gain + cost = 0
  BY <1>1 DEF Spending, is_exceeded
<1>7. k > 0 /\ (k - 1) * MaxSynthCost \in Nat /\ k * MaxSynthCost = (k - 1) * MaxSynthCost + MaxSynthCost
  <2>1. k > 0 /\ k - 1 \in Nat
    BY DEF Spending
  <2> QED
    BY <2>1, Products, Numbers
<1>8. r.cost + (r.gain + cost) <= Floor + (k - 1) * MaxSynthCost
  <2>1. CASE r.cost >= HardCap
    BY <2>1, <1>1, <1>6 DEF Spending, Supersteps
  <2>2. CASE r.cost < HardCap
    <3>1. Cardinality(done) * MaxNodeCost <= Cardinality(PRELIMINARY) * MaxNodeCost
      BY <1>3, Products, Numbers
    <3>2. Cardinality(done) * MaxNodeCost \in Nat /\ Cardinality(PRELIMINARY) * MaxNodeCost \in Nat
      BY <1>3, Products, Numbers
    <3> HIDE DEF done
    <3> QED
      BY <2>2, <3>1, <3>2, <1>1, <1>5, <1>7, Numbers DEF Floor
  <2> QED
    BY <2>1, <2>2, <1>1, Numbers
<1> DEFINE q == [r EXCEPT !.done = @ \cup {n}, !.gain = @ + cost]
<1>9. q.at = r.at /\ q.cost = r.cost /\ q.done = done /\ q.gain = r.gain + cost
  BY DEF StreamRecords
<1>10. q.cost + q.gain <= Floor + k * MaxSynthCost
  BY <1>1, <1>7, <1>8, <1>9, FloorIsNumber, Numbers
<1> HIDE DEF done, q
<1> QED
  BY <1>2, <1>5, <1>6, <1>7, <1>8, <1>9, <1>10 DEF Spending, q

\* A stream that begins, or goes from one superstep to the next.
LEMMA SpendingBegins ==
  ASSUME NEW r \in StreamRecords, NEW k \in Nat, k > 0, r.done = {}, r.gain = 0,
         r.at \in Supersteps \cup {"synthesis"},
         r.cost <= Floor + (k - 1) * MaxSynthCost
  PROVE  Spending(r, k)
<1>1. Cardinality(r.done) * MaxNodeCost = 0
  BY FS_EmptySet, Numbers
<1>2. (k - 1) * MaxSynthCost \in Nat /\ k * MaxSynthCost = (k - 1) * MaxSynthCost + MaxSynthCost
  BY Products, Numbers
<1>3. r.cost \in Nat /\ r.cost + r.gain = r.cost
  BY DEF StreamRecords
<1> QED
  BY <1>1, <1>2, <1>3, FloorIsNumber, Numbers DEF Spending, Supersteps

LEMMA SpendingOfSynthesis ==
  ASSUME NEW r \in StreamRecords, NEW k \in Nat, Spending(r, k), r.at = "synthesis",
         NEW cost \in 0 .. MaxSynthCost
  PROVE  Spending([r EXCEPT !.at = "persist", !.cost = @ + cost], k)
<1>1. k > 0 /\ (k - 1) * MaxSynthCost \in Nat /\ k * MaxSynthCost = (k - 1) * MaxSynthCost + MaxSynthCost
  <2>1. k > 0 /\ k - 1 \in Nat
    BY DEF Spending
  <2> QED
    BY <2>1, Products, Numbers
<1>2. r.cost \in Nat /\ r.gain = 0 /\ r.cost <= Floor + (k - 1) * MaxSynthCost
  BY DEF Spending, StreamRecords, Supersteps
<1>3. /\ [r EXCEPT !.at = "persist", !.cost = @ + cost].at = "persist"
      /\ [r EXCEPT !.at = "persist", !.cost = @ + cost].cost = r.cost + cost
      /\ [r EXCEPT !.at = "persist", !.cost = @ + cost].gain = r.gain
  BY DEF StreamRecords
<1> QED
  BY <1>1, <1>2, <1>3, FloorIsNumber, Numbers DEF Spending, Supersteps

-----------------------------------------------------------------------------
(* What most steps leave alone                                             *)

LEMMA RowsKept ==
  ASSUME RowsInv, req' = req,
         \A a \in Analyses : /\ row'[a].key = row[a].key
                             /\ Exists(a) => row'[a].status # "absent"
                             /\ row[a] = Absent => row'[a] = Absent,
         \A a \in Analyses : task'[a] = "running" => task[a] = "running",
         \A s \in Streams : run'[s].at # "idle" => run'[s].of \in Analyses /\ Exists(run'[s].of)
  PROVE  RowsInv'
  BY DEF RowsInv, Exists

LEMMA RowsUntouched ==
  ASSUME RowsInv, UNCHANGED <<req, row, task>>,
         \A s \in Streams : run'[s].at # "idle" => run'[s].of \in Analyses /\ Exists(run'[s].of)
  PROVE  RowsInv'
  BY DEF RowsInv, Exists

LEMMA RowReplaced ==
  ASSUME row \in [Analyses -> AnalysisRows], NEW a \in Analyses, NEW r,
         row' = [row EXCEPT ![a] = r], Exists(a), r.key = row[a].key, r.status # "absent"
  PROVE  \A b \in Analyses : /\ row'[b].key = row[b].key
                             /\ Exists(b) => row'[b].status # "absent"
                             /\ row[b] = Absent => row'[b] = Absent
<1> TAKE b \in Analyses
<1>1. CASE b = a
  <2>1. row'[b] = r
    BY <1>1
  <2>2. row[b] # Absent
    BY <1>1 DEF Exists, Absent
  <2> QED
    BY <2>1, <2>2, <1>1
<1>2. CASE b # a
  <2>1. row'[b] = row[b]
    BY <1>2
  <2> QED
    BY <2>1 DEF Exists
<1> QED
  BY <1>1, <1>2

LEMMA BudgetKept ==
  ASSUME BudgetInv, thread' = thread, opened' = opened,
         \A s \in Streams : run'[s] = run[s] \/ run'[s] = Idle
  PROVE  BudgetInv'
  BY DEF BudgetInv, Bound, Idle

-----------------------------------------------------------------------------
(* One lemma per step                                                      *)

LEMMA CheckAndLookUpInv ==
  ASSUME RoutesInv, NEW a \in Analyses, CheckAndLookUp(a) PROVE RoutesInv'
<1>1. /\ UNCHANGED <<minute, row, task, thread, opened, run>> /\ minute \in Nat
      /\ row[a] = Absent
  BY RoutesTypes, Numbers DEF CheckAndLookUp, graphVars, RoutesInv
<1> DEFINE Answers(q) ==
             /\ req' = [req EXCEPT ![a] = q]
             /\ q.at \in {"refused", "checked", "answered"}
             /\ q.at = "checked" => q.key = minute
             /\ q.at = "answered" => /\ q.key = minute
                                     /\ q.answer \in Analyses /\ row[q.answer].key = minute
<1>2. \E q \in RequestRecords : Answers(q)
  <2>1. req[a] \in RequestRecords /\ req \in [Analyses -> RequestRecords]
    BY RoutesTypes DEF RoutesInv
  <2>2. CASE req' = [req EXCEPT ![a].at = "refused"]
    <3>1. [req[a] EXCEPT !.at = "refused"] \in RequestRecords
      BY <2>1, RequestMoves
    <3> QED
      BY <2>1, <2>2, <3>1 DEF RequestRecords
  <2>3. ASSUME NEW b \in Analyses, row[b].key = minute,
               req' = [req EXCEPT ![a] = [at |-> "answered", key |-> minute, answer |-> b]]
        PROVE  \E q \in RequestRecords : Answers(q)
    <3>1. [at |-> "answered", key |-> minute, answer |-> b] \in RequestRecords
      BY <1>1, RequestRecord
    <3> QED
      BY <2>3, <3>1
  <2>4. CASE req' = [req EXCEPT ![a].at = "checked", ![a].key = minute]
    <3>1. [req[a] EXCEPT !.at = "checked", !.key = minute] \in RequestRecords
      BY <1>1, <2>1, RequestMoves
    <3> QED
      BY <2>1, <2>4, <3>1 DEF RequestRecords
  <2> HIDE DEF Answers
  <2> QED
    BY <2>2, <2>3, <2>4 DEF CheckAndLookUp
<1>a. PICK q \in RequestRecords : Answers(q)
  BY <1>2
<1>3. req \in [Analyses -> RequestRecords]
  BY RoutesTypes DEF RoutesInv
<1>4. RoutesTypeOK'
  BY <1>1, <1>a, <1>3, RoutesTypes, RoutesTypesNext DEF RoutesInv
<1>5. RowsInv'
  BY <1>1, <1>a, <1>3 DEF RoutesInv, RowsInv, Exists, NoKey
<1>6. BudgetInv'
  BY <1>1, BudgetKept DEF RoutesInv
<1> QED
  BY <1>4, <1>5, <1>6 DEF RoutesInv

LEMMA InsertPendingInv ==
  ASSUME RoutesInv, NEW a \in Analyses, InsertPending(a) PROVE RoutesInv'
<1>1. UNCHANGED <<minute, thread, opened, run>>
  BY DEF InsertPending, graphVars
<1>2. /\ req \in [Analyses -> RequestRecords] /\ req[a] \in RequestRecords
      /\ row \in [Analyses -> AnalysisRows] /\ minute \in Nat /\ req[a].key \in Nat
      /\ row[a] = Absent /\ req[a].at = "checked"
  BY RoutesTypes, Numbers DEF InsertPending, RoutesInv, RowsInv
<1>3. CASE KeyIsTaken(req[a].key)
  <2>1. /\ req' = [req EXCEPT ![a] = [req[a] EXCEPT !.at = "error"]]
        /\ row' = row /\ task' = task
    BY <1>3 DEF InsertPending
  <2>2. [req[a] EXCEPT !.at = "error"] \in RequestRecords
    BY <1>2, RequestMoves
  <2>3. RoutesTypeOK'
    BY <1>1, <1>2, <2>1, <2>2, RoutesTypes, RoutesTypesNext DEF RoutesInv
  <2>4. [req[a] EXCEPT !.at = "error"].at = "error"
    BY <1>2 DEF RequestRecords
  <2>5. RowsInv'
    BY <1>1, <1>2, <2>1, <2>4 DEF RoutesInv, RowsInv, Exists
  <2> QED
    BY <1>1, <2>3, <2>5, BudgetKept DEF RoutesInv
<1>4. CASE ~ KeyIsTaken(req[a].key)
  <2> DEFINE r == [Absent EXCEPT !.status = "pending", !.since = minute, !.key = req[a].key]
             q == [req[a] EXCEPT !.at = "answered", !.answer = a]
  <2>1. /\ row' = [row EXCEPT ![a] = r] /\ task' = [task EXCEPT ![a] = "running"]
        /\ req' = [req EXCEPT ![a] = q]
    BY <1>4 DEF InsertPending
  <2>2. r \in AnalysisRows /\ q \in RequestRecords
    BY <1>2, InitialRecords, InsertedRow, RequestMoves
  <2>3. r.status = "pending" /\ r.key = req[a].key
    BY DEF Absent
  <2>4. q.at = "answered" /\ q.answer = a /\ q.key = req[a].key
    BY <1>2 DEF RequestRecords
  <2> HIDE DEF r, q
  <2>5. RoutesTypeOK'
    BY <1>1, <1>2, <2>1, <2>2, RoutesTypes, RoutesTypesNext DEF RoutesInv
  <2>6. \A b \in Analyses : row[b].key # req[a].key
    BY <1>4 DEF KeyIsTaken
  <2>7. task \in [Analyses -> {"none", "running", "ended"}]
    BY RoutesTypes DEF RoutesInv
  <2>8. RowsInv'
    <3>1. \A b \in Analyses \ {a} : row'[b] = row[b] /\ req'[b] = req[b] /\ task'[b] = task[b]
      BY <1>2, <2>1, <2>7
    <3>2. row'[a] = r /\ req'[a] = q
      BY <1>2, <2>1
    <3>3. row[a].key = NoKey /\ req[a].key # NoKey
      BY <1>2 DEF Absent, NoKey
    <3>4. \A b \in Analyses : req[b].at = "answered" => row[req[b].answer].key # NoKey /\ req[b].answer # a
      BY <3>3 DEF RoutesInv, RowsInv
    <3>5. run' = run
      BY <1>1
    <3>6. \A b, c \in Analyses : row'[b].key # NoKey /\ row'[b].key = row'[c].key => b = c
      BY <2>3, <2>6, <3>1, <3>2 DEF RoutesInv, RowsInv
    <3>7. \A b \in Analyses : req'[b].at = "answered" =>
             req'[b].key # NoKey /\ req'[b].answer \in Analyses /\ row'[req'[b].answer].key = req'[b].key
      BY <2>3, <2>4, <3>1, <3>2, <3>3, <3>4 DEF RoutesInv, RowsInv
    <3> QED
      BY <2>3, <2>4, <3>1, <3>2, <3>5, <3>6, <3>7 DEF RoutesInv, RowsInv, Exists
  <2> QED
    BY <1>1, <2>5, <2>8, BudgetKept DEF RoutesInv
<1> QED
  BY <1>3, <1>4

LEMMA UpsertDecisionInv ==
  ASSUME RoutesInv, NEW a \in Analyses, NEW action \in Decisions, upsert_decision(a, action)
  PROVE  RoutesInv'
<1> DEFINE r == [row[a] EXCEPT !.action = action, !.dated = (action # "none")]
<1>1. /\ UNCHANGED <<minute, req, task, thread, opened, run>>
      /\ row' = [row EXCEPT ![a] = r] /\ Exists(a)
  BY DEF upsert_decision, clientVars, graphVars
<1>2. row \in [Analyses -> AnalysisRows] /\ row[a] \in AnalysisRows
  BY RoutesTypes DEF RoutesInv
<1>3. r \in AnalysisRows
  BY <1>2, RowDecided
<1>4. r.key = row[a].key /\ r.status = row[a].status
  BY <1>2 DEF AnalysisRows
<1>5. RoutesTypeOK'
  BY <1>1, <1>2, <1>3, RoutesTypes, RoutesTypesNext DEF RoutesInv
<1> HIDE DEF r
<1>6. \A b \in Analyses : /\ row'[b].key = row[b].key
                          /\ Exists(b) => row'[b].status # "absent"
                          /\ row[b] = Absent => row'[b] = Absent
  BY <1>1, <1>2, <1>4, RowReplaced DEF Exists
<1>7. \A s \in Streams : run'[s].at # "idle" => run'[s].of \in Analyses /\ Exists(run'[s].of)
  BY <1>1 DEF RoutesInv, RowsInv
<1>8. RowsInv'
  BY <1>1, <1>6, <1>7, RowsKept DEF RoutesInv
<1> QED
  BY <1>1, <1>5, <1>8, BudgetKept DEF RoutesInv

\* The two writers of a verdict: the task of a, and a stream of a that has its final.
LEMMA TaskPublishesInv ==
  ASSUME RoutesInv, NEW a \in Analyses, NEW status \in {"succeeded", "failed"},
         NEW cost \in 0 .. MaxSynthCost, TaskPublishes(a, status, cost)
  PROVE  RoutesInv'
<1> DEFINE r == [row[a] EXCEPT !.status = status, !.cost = cost]
<1>1. row \in [Analyses -> AnalysisRows] /\ row[a] \in AnalysisRows
      /\ task \in [Analyses -> {"none", "running", "ended"}] /\ Exists(a) /\ cost \in Nat
  BY RoutesTypes, Numbers DEF RoutesInv, RowsInv, TaskPublishes
<1>2. /\ UNCHANGED <<minute, req, thread, opened, run>>
      /\ task' = [task EXCEPT ![a] = "ended"] /\ row' = [row EXCEPT ![a] = r]
  BY <1>1 DEF TaskPublishes, graphVars
<1>3. r \in AnalysisRows
  BY <1>1, RowPublished
<1>4. r.key = row[a].key /\ r.status = status
  BY <1>1 DEF AnalysisRows
<1>5. RoutesTypeOK'
  BY <1>1, <1>2, <1>3, RoutesTypes, RoutesTypesNext DEF RoutesInv
<1> HIDE DEF r
<1>6. \A b \in Analyses : /\ row'[b].key = row[b].key
                          /\ Exists(b) => row'[b].status # "absent"
                          /\ row[b] = Absent => row'[b] = Absent
  BY <1>1, <1>2, <1>4, RowReplaced
<1>7. \A s \in Streams : run'[s].at # "idle" => run'[s].of \in Analyses /\ Exists(run'[s].of)
  BY <1>2 DEF RoutesInv, RowsInv
<1>8. \A b \in Analyses : task'[b] = "running" => task[b] = "running"
  BY <1>1, <1>2
<1>9. RowsInv'
  BY <1>2, <1>6, <1>7, <1>8, RowsKept DEF RoutesInv
<1> QED
  BY <1>2, <1>5, <1>9, BudgetKept DEF RoutesInv

LEMMA PersistInv ==
  ASSUME RoutesInv, NEW s \in Streams, Persist(s) PROVE RoutesInv'
<1> DEFINE a == run[s].of
           r == persisted(row[a], run[s].cost)
<1>1. /\ row \in [Analyses -> AnalysisRows] /\ run \in [Streams -> StreamRecords]
      /\ run[s] \in StreamRecords /\ run[s].cost \in Nat
      /\ a \in Analyses /\ row[a] \in AnalysisRows /\ Exists(a)
  <2>1. run \in [Streams -> StreamRecords] /\ row \in [Analyses -> AnalysisRows]
    BY RoutesTypes DEF RoutesInv
  <2>2. a \in Analyses /\ Exists(a)
    BY DEF RoutesInv, RowsInv, Persist
  <2> QED
    BY <2>1, <2>2 DEF StreamRecords
<1>2. /\ UNCHANGED <<minute, req, task, thread, opened>>
      /\ row' = [row EXCEPT ![a] = r] /\ run' = [run EXCEPT ![s] = Idle]
  BY DEF Persist, clientVars
<1>3. r \in AnalysisRows
  BY <1>1, RowPublished DEF persisted
<1>4. r.key = row[a].key /\ r.status = "succeeded"
  BY <1>1 DEF AnalysisRows, persisted
<1>5. RoutesTypeOK'
  BY <1>1, <1>2, <1>3, InitialRecords, RoutesTypes, RoutesTypesNext DEF RoutesInv
<1> HIDE DEF r
<1>6. \A b \in Analyses : /\ row'[b].key = row[b].key
                          /\ Exists(b) => row'[b].status # "absent"
                          /\ row[b] = Absent => row'[b] = Absent
  BY <1>1, <1>2, <1>4, RowReplaced
<1>7. \A t \in Streams : run'[t] = run[t] \/ run'[t] = Idle
  BY <1>1, <1>2
<1>8. \A t \in Streams : run'[t].at # "idle" => run'[t].of \in Analyses /\ Exists(run'[t].of)
  BY <1>7 DEF RoutesInv, RowsInv, Idle
<1>9. RowsInv'
  BY <1>2, <1>6, <1>8, RowsKept DEF RoutesInv
<1> QED
  BY <1>2, <1>5, <1>7, <1>9, BudgetKept DEF RoutesInv

LEMMA TaskLeavesPendingInv ==
  ASSUME RoutesInv, NEW a \in Analyses, TaskLeavesPending(a) PROVE RoutesInv'
<1>1. /\ UNCHANGED <<minute, req, row, thread, opened, run>> /\ task' = [task EXCEPT ![a] = "ended"]
      /\ task \in [Analyses -> {"none", "running", "ended"}]
  BY RoutesTypes DEF TaskLeavesPending, graphVars, RoutesInv
<1>2. RoutesTypeOK'
  BY <1>1, RoutesTypes, RoutesTypesNext DEF RoutesInv
<1>3. RowsInv'
  BY <1>1 DEF RoutesInv, RowsInv, Exists
<1> QED
  BY <1>1, <1>2, <1>3, BudgetKept DEF RoutesInv

LEMMA MinutePassesInv ==
  ASSUME RoutesInv, MinutePasses PROVE RoutesInv'
<1>1. UNCHANGED <<req, row, task, thread, opened, run>> /\ minute' \in 0 .. MaxMinute
  BY RoutesTypes, Numbers DEF MinutePasses, graphVars, RoutesInv
<1>2. RoutesTypeOK'
  BY <1>1, RoutesTypes, RoutesTypesNext DEF RoutesInv
<1>3. RowsInv'
  BY <1>1 DEF RoutesInv, RowsInv, Exists
<1> QED
  BY <1>1, <1>2, <1>3, BudgetKept DEF RoutesInv

\* Steps of streams, which leave requests, rows and tasks alone.
LEMMA OpenStreamInv ==
  ASSUME RoutesInv, NEW s \in Streams, NEW a \in Analyses, OpenStream(s, a) PROVE RoutesInv'
<1> DEFINE r == [Idle EXCEPT !.of = a, !.at = "preliminary", !.cost = thread[a]]
<1>1. /\ run \in [Streams -> StreamRecords] /\ opened \in [Analyses -> Nat]
      /\ thread \in [Analyses -> Nat]
  BY RoutesTypes DEF RoutesInv, Accumulated
<1>2. /\ UNCHANGED <<minute, req, row, task, thread>> /\ Exists(a)
      /\ run' = [run EXCEPT ![s] = r] /\ opened' = [opened EXCEPT ![a] = opened[a] + 1]
  BY DEF OpenStream, clientVars
<1>3. r \in StreamRecords
  BY <1>1, StreamOpens DEF Supersteps
<1>4. r.of = a /\ r.at = "preliminary" /\ r.cost = thread[a] /\ r.done = {} /\ r.gain = 0
  BY DEF Idle
<1> HIDE DEF r
<1>5. RoutesTypeOK'
  <2>1. opened' \in [Analyses -> Nat]
    BY <1>1, <1>2
  <2> QED
    BY <1>1, <1>2, <1>3, <2>1, RoutesTypes, RoutesTypesNext DEF RoutesInv, Accumulated
<1>6. \A t \in Streams : run'[t] = IF t = s THEN r ELSE run[t]
  BY <1>1, <1>2
<1>7. RowsInv'
  <2>1. \A t \in Streams : run'[t].at # "idle" => run'[t].of \in Analyses /\ Exists(run'[t].of)
    BY <1>2, <1>4, <1>6 DEF RoutesInv, RowsInv
  <2> QED
    BY <1>2, <2>1, RowsUntouched DEF RoutesInv
<1>8. \A b \in Analyses : thread'[b] <= Bound(b)'
  <2> TAKE b \in Analyses
  <2>1. thread[b] <= Floor + opened[b] * MaxSynthCost
    BY BoundIsFloor DEF RoutesInv, BudgetInv
  <2>2. /\ opened[b] \in Nat /\ opened'[b] \in Nat /\ opened[b] <= opened'[b]
        /\ thread[b] \in Nat
    BY <1>1, <1>2
  <2>3. /\ opened[b] * MaxSynthCost \in Nat /\ opened'[b] * MaxSynthCost \in Nat
        /\ opened[b] * MaxSynthCost <= opened'[b] * MaxSynthCost
    BY <2>2, Products, Numbers
  <2>4. thread[b] <= Floor + opened'[b] * MaxSynthCost
    BY <2>1, <2>2, <2>3, FloorIsNumber
  <2> QED
    BY <1>2, <2>4 DEF Bound, Floor
<1>9. \A t \in Streams : run'[t].at # "idle" => Spending(run'[t], opened'[run'[t].of])
  <2> SUFFICES ASSUME NEW t \in Streams, run'[t].at # "idle"
               PROVE  Spending(run'[t], opened'[run'[t].of])
    OBVIOUS
  <2>1. CASE t = s
    <3>1. thread[a] <= Floor + opened[a] * MaxSynthCost
      BY BoundIsFloor DEF RoutesInv, BudgetInv
    <3>2. opened'[a] = opened[a] + 1 /\ opened[a] \in Nat /\ opened'[a] - 1 = opened[a]
      BY <1>1, <1>2
    <3>3. r.cost <= Floor + (opened'[a] - 1) * MaxSynthCost
      BY <1>4, <3>1, <3>2
    <3>4. opened'[a] \in Nat /\ opened'[a] > 0
      BY <3>2
    <3>5. Spending(r, opened'[a])
      BY <1>3, <1>4, <3>3, <3>4, SpendingBegins DEF Supersteps
    <3> QED
      BY <2>1, <3>5, <1>4, <1>6
  <2>2. CASE t # s
    <3>1. /\ run'[t] = run[t] /\ run[t] \in StreamRecords /\ run[t].of \in Analyses
          /\ Spending(run[t], opened[run[t].of])
      BY <2>2, <1>1, <1>6 DEF RoutesInv, RowsInv, BudgetInv
    <3>2. CASE run[t].of = a
      BY <3>1, <3>2, <1>1, <1>2, SpendingGrows
    <3>3. CASE run[t].of # a
      BY <3>1, <3>3, <1>1, <1>2
    <3> QED
      BY <3>2, <3>3
  <2> QED
    BY <2>1, <2>2
<1> QED
  BY <1>5, <1>7, <1>8, <1>9 DEF RoutesInv, BudgetInv

\* What a step of one stream has to show: what it spends stays within its share, and
\* what it adds to the thread within the bound.
LEMMA StreamChanged ==
  ASSUME RoutesInv, NEW s \in Streams, run[s].at # "idle", NEW r \in StreamRecords,
         UNCHANGED <<minute, req, row, task, opened>>, run' = [run EXCEPT ![s] = r],
         r.of = run[s].of, Spending(r, opened[r.of]),
         thread' = thread \/ thread' = [thread EXCEPT ![r.of] = r.cost + r.gain]
  PROVE  RoutesInv'
<1>1. /\ run \in [Streams -> StreamRecords] /\ opened \in [Analyses -> Nat]
      /\ thread \in [Analyses -> Nat] /\ r.of \in Analyses /\ Exists(r.of)
  BY RoutesTypes DEF RoutesInv, RowsInv, Accumulated
<1>2. r.cost + r.gain \in Nat
  BY DEF StreamRecords
<1>3. RoutesTypeOK'
  <2>1. thread' \in [Analyses -> Nat]
    BY <1>1, <1>2
  <2> QED
    BY <1>1, <2>1, RoutesTypes, RoutesTypesNext DEF RoutesInv, Accumulated
<1>4. \A t \in Streams : run'[t] = IF t = s THEN r ELSE run[t]
  BY <1>1
<1>5. RowsInv'
  <2>1. \A t \in Streams : run'[t].at # "idle" => run'[t].of \in Analyses /\ Exists(run'[t].of)
    BY <1>1, <1>4 DEF RoutesInv, RowsInv
  <2> QED
    BY <2>1, RowsUntouched DEF RoutesInv
<1>6. \A b \in Analyses : thread'[b] <= Bound(b)'
  <2> TAKE b \in Analyses
  <2>1. thread'[b] <= Bound(b)
    <3>1. thread[b] <= Bound(b)
      BY DEF RoutesInv, BudgetInv
    <3>2. r.cost + r.gain <= Bound(r.of)
      BY <1>1, BoundIsFloor DEF Spending
    <3> QED
      BY <3>1, <3>2, <1>1
  <2> QED
    BY <2>1 DEF Bound
<1>7. \A t \in Streams : run'[t].at # "idle" => Spending(run'[t], opened'[run'[t].of])
  BY <1>4 DEF RoutesInv, BudgetInv
<1> QED
  BY <1>3, <1>5, <1>6, <1>7 DEF RoutesInv, BudgetInv

LEMMA StreamFacts ==
  ASSUME RoutesInv, NEW s \in Streams, run[s].at # "idle"
  PROVE  /\ run \in [Streams -> StreamRecords] /\ run[s] \in StreamRecords
         /\ run[s].of \in Analyses /\ opened[run[s].of] \in Nat
         /\ Spending(run[s], opened[run[s].of])
<1>1. run \in [Streams -> StreamRecords] /\ opened \in [Analyses -> Nat]
  BY RoutesTypes DEF RoutesInv, Accumulated
<1>2. run[s].of \in Analyses /\ Spending(run[s], opened[run[s].of])
  BY DEF RoutesInv, RowsInv, BudgetInv
<1> QED
  BY <1>1, <1>2

LEMMA NodeEndsInv ==
  ASSUME RoutesInv, NEW s \in Streams, NEW n \in Specialists, NEW cost \in 0 .. MaxNodeCost,
         NodeEnds(s, n, cost)
  PROVE  RoutesInv'
<1> DEFINE r == [run[s] EXCEPT !.done = @ \cup {n}, !.gain = @ + cost]
<1>1. run[s].at # "idle" /\ run[s].at \in Supersteps
  BY DEF NodeEnds, Supersteps
<1>2. UNCHANGED <<minute, req, row, task, opened, thread>> /\ run' = [run EXCEPT ![s] = r]
  BY <1>1, StreamFacts DEF NodeEnds, clientVars
<1>3. r \in StreamRecords /\ r.of = run[s].of
  <2>1. run[s] \in StreamRecords
    BY <1>1, StreamFacts
  <2>2. run[s].gain + cost \in Nat /\ run[s].done \cup {n} \in SUBSET Specialists
    BY <2>1, Numbers DEF StreamRecords
  <2>3. r \in StreamRecords
    BY <2>1, <2>2 DEF StreamRecords
  <2> QED
    BY <2>1, <2>3 DEF StreamRecords
<1>4. Spending(r, opened[run[s].of])
  BY <1>1, StreamFacts, SpendingOfNode DEF NodeEnds
<1> HIDE DEF r
<1> QED
  BY <1>1, <1>2, <1>3, <1>4, StreamChanged

LEMMA SuperstepEndsInv ==
  ASSUME RoutesInv, NEW s \in Streams, SuperstepEnds(s) PROVE RoutesInv'
<1> DEFINE at == After(run[s].at)
           total == run[s].cost + run[s].gain
           r == [Idle EXCEPT !.of = run[s].of, !.at = at, !.cost = total]
<1>1. run[s].at # "idle" /\ run[s].at # "persist" /\ at \in Supersteps \cup {"synthesis"}
  BY DEF SuperstepEnds, Supersteps, After
<1>2. /\ UNCHANGED <<minute, req, row, task, opened>> /\ run' = [run EXCEPT ![s] = r]
      /\ thread' = [thread EXCEPT ![run[s].of] = total]
  BY DEF SuperstepEnds, clientVars
<1>3. total \in Nat /\ run[s].of \in Analyses
  BY <1>1, StreamFacts DEF StreamRecords
<1>4. r.of = run[s].of /\ r.at = at /\ r.cost = total /\ r.done = {} /\ r.gain = 0
  BY DEF Idle
<1> HIDE DEF at
<1>5. r \in StreamRecords
  BY <1>1, <1>3, StreamOpens
<1>6. /\ total <= Floor + (opened[run[s].of] - 1) * MaxSynthCost
      /\ opened[run[s].of] \in Nat /\ opened[run[s].of] > 0
  BY <1>1, StreamFacts DEF Spending
<1> HIDE DEF r, total
<1>7. Spending(r, opened[run[s].of])
  BY <1>1, <1>4, <1>5, <1>6, SpendingBegins
<1>8. thread' = [thread EXCEPT ![r.of] = r.cost + r.gain]
  <2>1. r.cost + r.gain = total
    BY <1>3, <1>4
  <2> QED
    BY <1>2, <1>4, <2>1, Zenon
<1> QED
  BY <1>1, <1>2, <1>3, <1>4, <1>5, <1>7, <1>8, StreamChanged

LEMMA SynthesizeInv ==
  ASSUME RoutesInv, NEW s \in Streams, NEW cost \in 0 .. MaxSynthCost, Synthesize(s, cost)
  PROVE  RoutesInv'
<1> DEFINE r == [run[s] EXCEPT !.at = "persist", !.cost = @ + cost]
<1>1. run[s].at = "synthesis" /\ run[s].at # "idle"
  BY DEF Synthesize
<1>2. /\ UNCHANGED <<minute, req, row, task, opened>> /\ run' = [run EXCEPT ![s] = r]
      /\ thread' = [thread EXCEPT ![run[s].of] = run[s].cost + cost]
  BY <1>1, StreamFacts DEF Synthesize, clientVars
<1>3. /\ run[s] \in StreamRecords /\ run[s].gain = 0 /\ run[s].cost + cost \in Nat
      /\ Spending(run[s], opened[run[s].of]) /\ opened[run[s].of] \in Nat
  BY <1>1, StreamFacts, Numbers DEF Spending, Supersteps, StreamRecords
<1>4. r \in StreamRecords
  BY <1>3, StreamFinishes
<1>5. r.of = run[s].of /\ r.cost + r.gain = run[s].cost + cost
  BY <1>3 DEF StreamRecords
<1>6. Spending(r, opened[run[s].of])
  BY <1>1, <1>3, SpendingOfSynthesis
<1> HIDE DEF r
<1> QED
  BY <1>1, <1>2, <1>4, <1>5, <1>6, StreamChanged

LEMMA StreamBreaksInv ==
  ASSUME RoutesInv, NEW s \in Streams, StreamBreaks(s) PROVE RoutesInv'
<1>1. /\ UNCHANGED <<minute, req, row, task, thread, opened>> /\ run' = [run EXCEPT ![s] = Idle]
      /\ run \in [Streams -> StreamRecords]
  BY RoutesTypes DEF StreamBreaks, clientVars, RoutesInv
<1>2. RoutesTypeOK'
  BY <1>1, InitialRecords, RoutesTypes, RoutesTypesNext DEF RoutesInv
<1>3. \A t \in Streams : run'[t] = run[t] \/ run'[t] = Idle
  BY <1>1
<1>4. \A t \in Streams : run'[t].at # "idle" => run'[t].of \in Analyses /\ Exists(run'[t].of)
  BY <1>3 DEF RoutesInv, RowsInv, Idle
<1>5. RowsInv'
  BY <1>1, <1>4, RowsUntouched DEF RoutesInv
<1> QED
  BY <1>1, <1>2, <1>3, <1>5, BudgetKept DEF RoutesInv

-----------------------------------------------------------------------------
(* What Service_proofs takes from here                                     *)

LEMMA RoutesRequestInv == RoutesInv /\ RoutesRequest => RoutesInv'
  BY CheckAndLookUpInv, OpenStreamInv, UpsertDecisionInv DEF RoutesRequest

LEMMA RoutesStepInv ==
  ASSUME RoutesInv, RoutesStep PROVE RoutesInv'
<1>1. ASSUME NEW a \in Analyses,
             \/ InsertPending(a)
             \/ \E status \in {"succeeded", "failed"}, cost \in 0 .. MaxSynthCost :
                   TaskPublishes(a, status, cost)
             \/ TaskLeavesPending(a)
      PROVE  RoutesInv'
  BY <1>1, InsertPendingInv, TaskPublishesInv, TaskLeavesPendingInv
<1>2. ASSUME NEW s \in Streams, StreamStep(s) \/ StreamBreaks(s) PROVE RoutesInv'
  BY <1>2, NodeEndsInv, SuperstepEndsInv, SynthesizeInv, PersistInv, StreamBreaksInv DEF StreamStep
<1> QED
  BY <1>1, <1>2, MinutePassesInv DEF RoutesStep

LEMMA RoutesStutterInv == RoutesInv /\ UNCHANGED routeVars => RoutesInv'
<1> SUFFICES ASSUME RoutesInv, UNCHANGED routeVars PROVE RoutesInv'
  OBVIOUS
<1>1. UNCHANGED <<minute, req, task, thread, opened, run, row>>
  BY DEF routeVars, clientVars, graphVars
<1>2. RoutesTypeOK'
  BY <1>1, RoutesTypes, RoutesTypesNext DEF RoutesInv
<1>3. RowsInv'
  BY <1>1 DEF RoutesInv, RowsInv, Exists
<1> QED
  BY <1>1, <1>2, <1>3, BudgetKept DEF RoutesInv

LEMMA RoutesInvImplies == RoutesInv => SameKeySameAnswer /\ BudgetOvershoot
<1>1. RoutesInv => SameKeySameAnswer
  BY DEF RoutesInv, RowsInv, SameKeySameAnswer
<1>2. ASSUME RoutesInv, NEW s \in Streams, run[s].at # "idle"
      PROVE  run[s].cost + run[s].gain <= Bound(run[s].of)
  BY <1>2, StreamFacts, BoundIsFloor DEF Spending
<1> QED
  BY <1>1, <1>2 DEF RoutesInv, BudgetInv, BudgetOvershoot

\* A step that starts or ends a task, or moves a stream, leaves the user's part of
\* every row.
LEMMA RecordKept ==
  ASSUME RoutesInv, RoutesRequest \/ RoutesStep, NEW a \in Analyses, Exists(a),
         task' # task \/ run' # run
  PROVE  /\ row'[a].key = row[a].key /\ row'[a].since = row[a].since
         /\ row'[a].action = row[a].action /\ row'[a].dated = row[a].dated
<1> DEFINE Kept == /\ row'[a].key = row[a].key /\ row'[a].since = row[a].since
                   /\ row'[a].action = row[a].action /\ row'[a].dated = row[a].dated
<1>1. row \in [Analyses -> AnalysisRows] /\ row[a] \in AnalysisRows
  BY RoutesTypes DEF RoutesInv
<1>2. CASE RoutesRequest
  BY <1>2 DEF RoutesRequest, CheckAndLookUp, OpenStream, upsert_decision, clientVars, graphVars
<1>3. ASSUME NEW b \in Analyses, InsertPending(b) PROVE Kept
  <2>1. row[b] = Absent
    BY <1>3 DEF InsertPending, RoutesInv, RowsInv
  <2>2. a # b
    BY <2>1 DEF Exists, Absent
  <2> QED
    BY <1>1, <1>3, <2>2 DEF InsertPending
<1>4. ASSUME NEW b \in Analyses, NEW status, NEW cost, TaskPublishes(b, status, cost) PROVE Kept
  BY <1>1, <1>4 DEF TaskPublishes, AnalysisRows
<1>5. ASSUME NEW s \in Streams, Persist(s) PROVE Kept
  BY <1>1, <1>5 DEF Persist, persisted, AnalysisRows
<1>6. CASE row' = row
  BY <1>6
<1>7. CASE RoutesStep
  BY <1>3, <1>4, <1>5, <1>6, <1>7
  DEF RoutesStep, StreamStep, TaskLeavesPending, NodeEnds, SuperstepEnds, Synthesize, StreamBreaks,
      MinutePasses
<1> QED
  BY <1>2, <1>7

-----------------------------------------------------------------------------
(* Report critiques                                                        *)

\* What a run has spent so far, by the stage it is in: the first call is charged to
\* cost until it parses, and to spent from then on.
StageCost(r) ==
    /\ crit[r].at \in {"idle", "marked"} => crit[r].cost = 0 /\ crit[r].spent = 0
    /\ crit[r].at = "extract" =>
          crit[r].spent = 0 /\ crit[r].cost <= EXTRACTOR_COST_CAP - 1 + MaxCallCost
    /\ crit[r].at = "critique" =>
          /\ crit[r].spent <= EXTRACTOR_COST_CAP - 1 + MaxCallCost
          /\ crit[r].cost <= CRITIC_COST_CAP - 1 + MaxCallCost
    /\ crit[r].at = "parsed" => crit[r].cost = 0 /\ crit[r].spent <= CritiqueCostBound

CritiqueInv ==
    /\ CritiqueTypeOK
    /\ \A r \in Runs : crit[r].at # "idle" => crit[r].of \in Reports
    /\ \A r \in Runs : StageCost(r)
    /\ \A p \in Reports : report[p].cost <= CritiqueCostBound
    /\ OkIsWhole

LEMMA CritiqueInitInv == CritiqueInit => CritiqueInv
  BY CritiqueAssumption DEF CritiqueInit, CritiqueInv, CritiqueTypeOK, StageCost, OkIsWhole,
     NotUploaded, NoRun, Calls, CritiqueCostBound

\* The values of the two variables, and what may be replaced in one of them.
ReportRecords == [status : {"absent", "pending", "running", "ok", "extract_invalid",
                            "critique_invalid", "aborted_cap"},
                  claims : BOOLEAN, critique : BOOLEAN, completed : BOOLEAN, cost : Nat]

CritiqueRecords == [of : Reports \cup {"none"}, at : Calls \cup {"idle", "marked", "parsed"},
               attempts : 0 .. MAX_PARSE_ATTEMPTS, cost : Nat, spent : Nat]

LEMMA CritiqueTypes == CritiqueTypeOK <=> report \in [Reports -> ReportRecords] /\ crit \in [Runs -> CritiqueRecords]
  BY DEF CritiqueTypeOK, ReportRecords, CritiqueRecords

LEMMA CritiqueTypesNext ==
  CritiqueTypeOK' <=> report' \in [Reports -> ReportRecords] /\ crit' \in [Runs -> CritiqueRecords]
  BY DEF CritiqueTypeOK, ReportRecords, CritiqueRecords

LEMMA NoRunIsRun == NoRun \in CritiqueRecords
  BY CritiqueAssumption DEF NoRun, CritiqueRecords

LEMMA RunsMarked ==
  ASSUME NEW c \in CritiqueRecords, NEW p \in Reports
  PROVE  [c EXCEPT !.of = p, !.at = "marked"] \in CritiqueRecords
  BY DEF CritiqueRecords

LEMMA RunsMove ==
  ASSUME NEW c \in CritiqueRecords, NEW at \in Calls PROVE [c EXCEPT !.at = at] \in CritiqueRecords
  BY DEF CritiqueRecords

LEMMA RunsPay ==
  ASSUME NEW c \in CritiqueRecords, NEW at \in {"critique", "parsed"}, NEW spent \in Nat
  PROVE  [c EXCEPT !.at = at, !.attempts = 0, !.cost = 0, !.spent = spent] \in CritiqueRecords
<1>1. 0 \in 0 .. MAX_PARSE_ATTEMPTS
  BY CritiqueAssumption
<1> QED
  BY <1>1 DEF CritiqueRecords, Calls

LEMMA CapsAreNumbers ==
    /\ MAX_PARSE_ATTEMPTS \in Nat /\ MAX_PARSE_ATTEMPTS > 0
    /\ EXTRACTOR_COST_CAP \in Nat /\ EXTRACTOR_COST_CAP > 0
    /\ CRITIC_COST_CAP \in Nat /\ CRITIC_COST_CAP > 0
    /\ MaxCallCost \in Nat
  BY CritiqueAssumption

LEMMA CritiqueInvImplies == CritiqueInv => CritiquePaysWithinCaps
<1> SUFFICES ASSUME CritiqueInv, NEW r \in Runs
             PROVE  crit[r].spent + crit[r].cost <= CritiqueCostBound
  BY DEF CritiqueInv, CritiquePaysWithinCaps
<1>1. /\ crit[r].spent \in Nat /\ crit[r].cost \in Nat
      /\ crit[r].at \in Calls \cup {"idle", "marked", "parsed"}
  BY DEF CritiqueInv, CritiqueTypeOK
<1>2. StageCost(r)
  BY DEF CritiqueInv
<1> QED
  BY <1>1, <1>2, CapsAreNumbers DEF StageCost, CritiqueCostBound, Calls

-----------------------------------------------------------------------------
(* One lemma per step.  Every step changes one row and one run at most, so  *)
(* what is said of the others carries over.                                 *)

LEMMA UploadInv ==
  ASSUME CritiqueInv, NEW p \in Reports, upload_critique(p) PROVE CritiqueInv'
<1>1. CritiqueTypeOK'
  BY DEF CritiqueInv, CritiqueTypeOK, upload_critique
<1>2. \A q \in Reports : report'[q].cost = report[q].cost
  BY DEF CritiqueInv, CritiqueTypeOK, upload_critique
<1>3. OkIsWhole'
  BY DEF CritiqueInv, CritiqueTypeOK, OkIsWhole, upload_critique
<1> QED
  BY <1>1, <1>2, <1>3 DEF CritiqueInv, StageCost, upload_critique

LEMMA StartInv ==
  ASSUME CritiqueInv, NEW r \in Runs, NEW p \in Reports, StartCritique(r, p) PROVE CritiqueInv'
<1>1. CritiqueTypeOK'
  <2>1. report' \in [Reports -> ReportRecords]
    BY CritiqueTypes DEF CritiqueInv, StartCritique, ReportRecords
  <2> QED
    BY <2>1, RunsMarked, NoRunIsRun, CritiqueTypes, CritiqueTypesNext DEF CritiqueInv, StartCritique
<1>2. \A q \in Reports : report'[q].cost = report[q].cost
  BY DEF CritiqueInv, CritiqueTypeOK, StartCritique
<1>3. OkIsWhole'
  BY DEF CritiqueInv, CritiqueTypeOK, OkIsWhole, StartCritique
<1>4. \A q \in Runs : crit'[q].at # "idle" => crit'[q].of \in Reports
  BY DEF CritiqueInv, CritiqueTypeOK, StartCritique, NoRun
<1>5. \A q \in Runs : StageCost(q)'
  BY DEF CritiqueInv, CritiqueTypeOK, StageCost, StartCritique, NoRun
<1> QED
  BY <1>1, <1>2, <1>3, <1>4, <1>5 DEF CritiqueInv

LEMMA CheckCapInv ==
  ASSUME CritiqueInv, NEW r \in Runs, NEW exceeded, CheckCap(r, exceeded) PROVE CritiqueInv'
<1>1. CritiqueTypeOK'
  <2>1. report' \in [Reports -> ReportRecords]
    BY CritiqueTypes DEF CritiqueInv, CheckCap, ReportRecords
  <2>2. [crit[r] EXCEPT !.at = "extract"] \in CritiqueRecords
    BY RunsMove, CritiqueTypes DEF CritiqueInv, Calls
  <2>3. crit' = [crit EXCEPT ![r] = NoRun] \/ crit' = [crit EXCEPT ![r] = [crit[r] EXCEPT !.at = "extract"]]
    BY DEF CheckCap
  <2> QED
    BY <2>1, <2>2, <2>3, NoRunIsRun, CritiqueTypes, CritiqueTypesNext DEF CritiqueInv
<1>2. \A q \in Reports : report'[q].cost = report[q].cost
  BY DEF CritiqueInv, CritiqueTypeOK, CheckCap
<1>3. OkIsWhole'
  BY DEF CritiqueInv, CritiqueTypeOK, OkIsWhole, CheckCap
<1>4. \A q \in Runs : crit'[q].at # "idle" => crit'[q].of \in Reports
  BY DEF CritiqueInv, CritiqueTypeOK, CheckCap, NoRun
<1>5. \A q \in Runs : StageCost(q)'
  <2>1. StageCost(r)'
    BY CapsAreNumbers DEF CritiqueInv, CritiqueTypeOK, StageCost, CheckCap, NoRun
  <2>2. \A q \in Runs \ {r} : crit'[q] = crit[q]
    BY DEF CritiqueInv, CritiqueTypeOK, CheckCap
  <2> QED
    BY <2>1, <2>2 DEF CritiqueInv, StageCost
<1> QED
  BY <1>1, <1>2, <1>3, <1>4, <1>5 DEF CritiqueInv

LEMMA CallInvalidInv ==
  ASSUME CritiqueInv, NEW r \in Runs, NEW cost \in 0 .. MaxCallCost, CallInvalid(r, cost)
  PROVE  CritiqueInv'
<1>1. CritiqueTypeOK'
  <2>1. crit[r].attempts + 1 \in 0 .. MAX_PARSE_ATTEMPTS
    BY CapsAreNumbers DEF CritiqueInv, CritiqueTypeOK, CallInvalid, may_call
  <2>2. crit[r].cost + cost \in Nat
    BY CapsAreNumbers DEF CritiqueInv, CritiqueTypeOK
  <2>3. [crit[r] EXCEPT !.attempts = @ + 1, !.cost = @ + cost] \in CritiqueRecords
    BY <2>1, <2>2, CritiqueTypes DEF CritiqueInv, CritiqueRecords
  <2>4. crit' = [crit EXCEPT ![r] = [crit[r] EXCEPT !.attempts = @ + 1, !.cost = @ + cost]]
    BY CritiqueTypes DEF CritiqueInv, CallInvalid, CritiqueRecords
  <2> QED
    BY <2>3, <2>4, CritiqueTypes, CritiqueTypesNext DEF CritiqueInv, CallInvalid
<1>2. report' = report
  BY DEF CallInvalid
<1>3. \A q \in Runs : crit'[q].at = crit[q].at /\ crit'[q].of = crit[q].of
  BY DEF CritiqueInv, CritiqueTypeOK, CallInvalid
<1>4. \A q \in Runs : StageCost(q)'
  <2>1. StageCost(r)'
    BY CapsAreNumbers
    DEF CritiqueInv, CritiqueTypeOK, StageCost, CallInvalid, may_call, CostCap, Calls
  <2>2. \A q \in Runs \ {r} : crit'[q] = crit[q]
    BY DEF CritiqueInv, CritiqueTypeOK, CallInvalid
  <2> QED
    BY <2>1, <2>2 DEF CritiqueInv, StageCost
<1> QED
  BY <1>1, <1>2, <1>3, <1>4 DEF CritiqueInv, OkIsWhole

LEMMA CallParsesInv ==
  ASSUME CritiqueInv, NEW r \in Runs, NEW cost \in 0 .. MaxCallCost, CallParses(r, cost)
  PROVE  CritiqueInv'
<1>0. /\ crit[r].at \in Calls /\ crit[r].cost \in Nat /\ crit[r].spent \in Nat
      /\ crit[r].cost < CostCap(crit[r].at) /\ StageCost(r)
      /\ crit[r].of \in Reports
  BY DEF CritiqueInv, CritiqueTypeOK, CallParses, may_call, Calls
<1> DEFINE at == IF crit[r].at = "extract" THEN "critique" ELSE "parsed"
           spent == crit[r].spent + crit[r].cost + cost
           c == [crit[r] EXCEPT !.at = at, !.attempts = 0, !.cost = 0, !.spent = spent]
<1>1. crit' = [crit EXCEPT ![r] = c] /\ crit'[r] = c
  <2>1. crit' = [crit EXCEPT ![r] = c]
    BY DEF CallParses
  <2> QED
    BY <2>1, CritiqueTypes DEF CritiqueInv
<1>2. \A q \in Runs \ {r} : crit'[q] = crit[q]
  BY DEF CritiqueInv, CritiqueTypeOK, CallParses
<1>3. crit[r] \in CritiqueRecords /\ c \in CritiqueRecords
  <2>1. crit[r] \in CritiqueRecords
    BY CritiqueTypes DEF CritiqueInv
  <2>2. at \in {"critique", "parsed"}
    OBVIOUS
  <2>3. spent \in Nat
    BY <1>0, CapsAreNumbers
  <2> QED
    BY <2>1, <2>2, <2>3, RunsPay
<1>a. /\ c.at = IF crit[r].at = "extract" THEN "critique" ELSE "parsed"
      /\ c.of = crit[r].of /\ c.attempts = 0 /\ c.cost = 0
      /\ c.spent = crit[r].spent + crit[r].cost + cost
  BY <1>3 DEF CritiqueRecords
<1>b. CritiqueTypeOK'
  BY <1>1, <1>3, CritiqueTypes, CritiqueTypesNext DEF CritiqueInv, CallParses
<1> HIDE DEF c
<1>4. StageCost(r)'
  <2>1. CASE crit[r].at = "extract"
    BY <2>1, <1>0, <1>1, <1>a, CapsAreNumbers DEF StageCost, CostCap
  <2>2. CASE crit[r].at = "critique"
    BY <2>2, <1>0, <1>1, <1>a, CapsAreNumbers DEF StageCost, CostCap, CritiqueCostBound
  <2> QED
    BY <2>1, <2>2, <1>0 DEF Calls
<1>5. \A q \in Runs : StageCost(q)'
  BY <1>2, <1>4 DEF CritiqueInv, StageCost
<1>6. report' = report
  BY DEF CallParses
<1> QED
  BY <1>0, <1>1, <1>2, <1>a, <1>b, <1>5, <1>6 DEF CritiqueInv, OkIsWhole

LEMMA EndsInv ==
  ASSUME CritiqueInv, NEW r \in Runs, crit[r].at \in Calls \cup {"parsed"},
         NEW status \in {"ok", "extract_invalid", "critique_invalid", "aborted_cap"},
         status = "ok" => crit[r].at = "parsed", Ends(r, status)
  PROVE  CritiqueInv'
<1> DEFINE spent == crit[r].spent + crit[r].cost
<1>a. crit[r].at # "idle" /\ crit[r].spent \in Nat /\ crit[r].cost \in Nat
  BY DEF CritiqueInv, CritiqueTypeOK, Calls
<1>0. crit[r].of \in Reports /\ spent \in Nat /\ spent <= CritiqueCostBound
  BY <1>a, CritiqueInvImplies DEF CritiqueInv, CritiquePaysWithinCaps
<1>1. CritiqueTypeOK'
  <2>1. report' \in [Reports -> ReportRecords]
    BY <1>0, CritiqueTypes DEF CritiqueInv, Ends, ReportRecords
  <2> QED
    BY <2>1, NoRunIsRun, CritiqueTypes, CritiqueTypesNext DEF CritiqueInv, Ends
<1>2. \A q \in Reports : report'[q].cost <= CritiqueCostBound
  BY <1>0 DEF CritiqueInv, CritiqueTypeOK, Ends
<1>3. OkIsWhole'
  BY <1>0 DEF CritiqueInv, CritiqueTypeOK, OkIsWhole, Ends, Calls
<1>4. \A q \in Runs : crit'[q].at # "idle" => crit'[q].of \in Reports
  BY DEF CritiqueInv, CritiqueTypeOK, Ends, NoRun
<1>5. \A q \in Runs : StageCost(q)'
  BY DEF CritiqueInv, CritiqueTypeOK, StageCost, Ends, NoRun
<1> QED
  BY <1>1, <1>2, <1>3, <1>4, <1>5 DEF CritiqueInv

LEMMA DiesInv ==
  ASSUME CritiqueInv, NEW r \in Runs, CritiqueDies(r) PROVE CritiqueInv'
<1>1. CritiqueTypeOK'
  BY CapsAreNumbers DEF CritiqueInv, CritiqueTypeOK, CritiqueDies, NoRun
<1>2. \A q \in Runs : crit'[q].at # "idle" => crit'[q].of \in Reports
  BY DEF CritiqueInv, CritiqueTypeOK, CritiqueDies, NoRun
<1>3. \A q \in Runs : StageCost(q)'
  BY DEF CritiqueInv, CritiqueTypeOK, StageCost, CritiqueDies, NoRun
<1> QED
  BY <1>1, <1>2, <1>3 DEF CritiqueInv, OkIsWhole, CritiqueDies

-----------------------------------------------------------------------------
(* What Service_proofs takes from here                                     *)

LEMMA CritiqueRequestInv == CritiqueInv /\ CritiqueRequest => CritiqueInv'
  BY UploadInv, StartInv DEF CritiqueRequest

LEMMA CritiqueStepInv ==
  ASSUME CritiqueInv, NEW exceeded, CritiqueStep(exceeded) PROVE CritiqueInv'
<1> PICK r \in Runs :
       \/ CheckCap(r, exceeded)
       \/ \E cost \in 0 .. MaxCallCost : CallInvalid(r, cost) \/ CallParses(r, cost)
       \/ PersistOk(r)
       \/ PersistFailure(r)
       \/ CritiqueDies(r)
  BY DEF CritiqueStep
<1>1. CASE CheckCap(r, exceeded)
  BY <1>1, CheckCapInv
<1>2. CASE \E cost \in 0 .. MaxCallCost : CallInvalid(r, cost) \/ CallParses(r, cost)
  BY <1>2, CallInvalidInv, CallParsesInv
<1>3. CASE PersistOk(r)
  BY <1>3, EndsInv DEF PersistOk, persist_ok
<1>4. CASE PersistFailure(r)
  BY <1>4, EndsInv DEF PersistFailure, Calls
<1>5. CASE CritiqueDies(r)
  BY <1>5, DiesInv
<1> QED
  BY <1>1, <1>2, <1>3, <1>4, <1>5

LEMMA CritiqueStutterInv == CritiqueInv /\ UNCHANGED critiqueVars => CritiqueInv'
  BY DEF CritiqueInv, CritiqueTypeOK, StageCost, OkIsWhole, critiqueVars

\* A step of the critiques leaves a row that is ok and has no run.
LEMMA OkStays ==
  ASSUME CritiqueInv, NEW p \in Reports, report[p].status = "ok",
         \A r \in Runs : crit[r].of # p,
         CritiqueRequest \/ (\E exceeded \in BOOLEAN : CritiqueStep(exceeded))
  PROVE  report'[p] = report[p]
<1>1. CASE CritiqueRequest
  BY <1>1 DEF CritiqueRequest, upload_critique, StartCritique, is_cached, CritiqueInv,
     CritiqueTypeOK
<1>2. ASSUME NEW exceeded \in BOOLEAN, CritiqueStep(exceeded) PROVE report'[p] = report[p]
  BY <1>2 DEF CritiqueStep, CheckCap, CallInvalid, CallParses, PersistOk, PersistFailure,
     Ends, CritiqueDies, CritiqueInv, CritiqueTypeOK
<1> QED
  BY <1>1, <1>2

-----------------------------------------------------------------------------
(* The chat, and the service as a whole                                    *)

Messages == [role : {"user", "assistant"}, tools : 0 .. MaxCalls, refs : SUBSET Analyses]

SessionRecords ==
    [status : {"none", "open", "deleted"}, count : Nat, messages : Seq(Messages)]

TurnRecords ==
    [of : Sessions \cup {None}, at : {"idle", "saved", "thinking", "complete", "answered"},
     rounds : 0 .. max_iterations, tools : 0 .. MaxCalls, refs : SUBSET Analyses]

\* The count of an open session, and what a session is before it is created.
CountInv ==
    /\ \A t \in Turns : turn[t].at # "idle" => turn[t].of \in Sessions
    /\ \A s \in Sessions : IsFiniteSet(Counting(s))
    /\ \A s \in Sessions : session[s].status = "none" =>
          session[s].messages = <<>> /\ session[s].count = 0 /\ uncounted[s] = 0 /\ Counting(s) = {}
    /\ CountTracksMessages

ChatInv == ChatTypeOK /\ CountInv

LEMMA ChatNumbers ==
    max_iterations \in Nat /\ max_iterations > 0 /\ MaxCalls \in Nat /\ MaxCalls > 0
  BY ChatAssumption

LEMMA ChatTypes ==
  ChatTypeOK <=> /\ session \in [Sessions -> SessionRecords]
                 /\ turn \in [Turns -> TurnRecords]
                 /\ uncounted \in [Sessions -> Nat]
  BY DEF ChatTypeOK, SessionRecords, TurnRecords, Messages

LEMMA ChatTypesNext ==
  ChatTypeOK' <=> /\ session' \in [Sessions -> SessionRecords]
                  /\ turn' \in [Turns -> TurnRecords]
                  /\ uncounted' \in [Sessions -> Nat]
  BY DEF ChatTypeOK, SessionRecords, TurnRecords, Messages

LEMMA MessagesAre ==
  /\ UserMessage \in Messages
  /\ \A tools \in 0 .. MaxCalls, refs \in SUBSET Analyses :
        [role |-> "assistant", tools |-> tools, refs |-> refs] \in Messages
  BY ChatNumbers DEF UserMessage, Messages

LEMMA SessionOpens ==
  ASSUME NEW r \in SessionRecords PROVE [r EXCEPT !.status = "open"] \in SessionRecords
  BY DEF SessionRecords

LEMMA SessionStores ==
  ASSUME NEW r \in SessionRecords, NEW m \in Messages
  PROVE  [r EXCEPT !.messages = Append(r.messages, m)] \in SessionRecords
<1>1. Append(r.messages, m) \in Seq(Messages)
  BY AppendProperties DEF SessionRecords
<1> QED
  BY <1>1 DEF SessionRecords

LEMMA SessionCounts ==
  ASSUME NEW r \in SessionRecords PROVE [r EXCEPT !.count = r.count + 1] \in SessionRecords
<1>1. r.count + 1 \in Nat
  BY DEF SessionRecords
<1> QED
  BY <1>1 DEF SessionRecords

LEMMA NoTurnIsTurn == NoTurn \in TurnRecords
  BY ChatNumbers DEF NoTurn, TurnRecords, None

LEMMA TurnBegins ==
  ASSUME NEW s \in Sessions PROVE [NoTurn EXCEPT !.of = s, !.at = "saved"] \in TurnRecords
<1> SUFFICES ASSUME NEW r \in TurnRecords
             PROVE  [r EXCEPT !.of = s, !.at = "saved"] \in TurnRecords
  BY NoTurnIsTurn
<1> QED
  BY DEF TurnRecords

LEMMA NewSessionIsSession ==
  ASSUME NEW status \in {"none", "open", "deleted"}
  PROVE  [status |-> status, messages |-> <<>>, count |-> 0] \in SessionRecords
  BY DEF SessionRecords

LEMMA ChatInitInv == ChatInit => ChatInv
<1> SUFFICES ASSUME ChatInit PROVE ChatInv
  OBVIOUS
<1>1. ChatTypeOK
  BY NewSessionIsSession, NoTurnIsTurn, ChatTypes DEF ChatInit
<1>2. \A s \in Sessions : Counting(s) = {}
  BY DEF ChatInit, Counting, NoTurn
<1>3. CountInv
  <2>1. \A t \in Turns : turn[t].at = "idle"
    BY DEF ChatInit, NoTurn
  <2> QED
    BY <1>2, <2>1, FS_EmptySet DEF ChatInit, CountInv, CountTracksMessages, Open
<1> QED
  BY <1>1, <1>3 DEF ChatInv

-----------------------------------------------------------------------------
(* What a step does to the turns that are about to count                   *)

LEMMA CountingFacts ==
  ASSUME ChatInv, NEW s \in Sessions
  PROVE  IsFiniteSet(Counting(s)) /\ Cardinality(Counting(s)) \in Nat
  BY FS_CardinalityType DEF ChatInv, CountInv

\* A turn that is not counting starts to.
LEMMA CountingAdds ==
  ASSUME ChatInv, NEW t \in Turns, NEW q, turn' = [turn EXCEPT ![t] = q],
         turn[t].at \notin {"saved", "answered"}, q.at \in {"saved", "answered"},
         NEW s \in Sessions
  PROVE  /\ IsFiniteSet(Counting(s)')
         /\ q.of = s => Cardinality(Counting(s)') = Cardinality(Counting(s)) + 1
         /\ q.of # s => Counting(s)' = Counting(s)
<1>1. turn \in [Turns -> TurnRecords]
  BY ChatTypes DEF ChatInv
<1>2. CASE q.of = s
  <2>1. Counting(s)' = Counting(s) \cup {t} /\ t \notin Counting(s)
    BY <1>1, <1>2 DEF Counting
  <2> QED
    BY <1>2, <2>1, CountingFacts, FS_AddElement
<1>3. CASE q.of # s
  <2>1. Counting(s)' = Counting(s)
    BY <1>1, <1>3 DEF Counting
  <2> QED
    BY <1>3, <2>1, CountingFacts
<1> QED
  BY <1>2, <1>3

\* A turn stops counting, if it did.
LEMMA CountingRemoves ==
  ASSUME ChatInv, NEW t \in Turns, NEW q, turn' = [turn EXCEPT ![t] = q],
         q.at \notin {"saved", "answered"},
         NEW s \in Sessions
  PROVE  /\ IsFiniteSet(Counting(s)')
         /\ Counting(s)' \subseteq Counting(s)
         /\ t \in Counting(s) => Cardinality(Counting(s)) = Cardinality(Counting(s)') + 1
         /\ t \notin Counting(s) => Counting(s)' = Counting(s)
<1>1. turn \in [Turns -> TurnRecords]
  BY ChatTypes DEF ChatInv
<1>2. Counting(s)' = Counting(s) \ {t}
  BY <1>1 DEF Counting
<1>3. IsFiniteSet(Counting(s)') /\ Cardinality(Counting(s)') \in Nat
  BY <1>2, CountingFacts, FS_Subset, FS_CardinalityType
<1>4. ASSUME t \in Counting(s) PROVE Cardinality(Counting(s)) = Cardinality(Counting(s)') + 1
  <2>1. Counting(s) = Counting(s)' \cup {t} /\ t \notin Counting(s)'
    BY <1>2, <1>4
  <2> QED
    BY <1>3, <2>1, FS_AddElement
<1> QED
  BY <1>2, <1>3, <1>4

\* What is left to show of a step, once its types are: the count of each session.
Counted(s) ==
    /\ Open(s) => Len(session[s].messages) = session[s].count + Cardinality(Counting(s)) + uncounted[s]
    /\ session[s].status = "none" =>
          session[s].messages = <<>> /\ session[s].count = 0 /\ uncounted[s] = 0 /\ Counting(s) = {}

LEMMA CountedIs ==
  ASSUME ChatInv, NEW s \in Sessions PROVE Counted(s)
  BY DEF ChatInv, CountInv, Counted, CountTracksMessages

LEMMA CountedThenInv ==
  ASSUME ChatTypeOK', \A t \in Turns : turn'[t].at # "idle" => turn'[t].of \in Sessions,
         \A s \in Sessions : IsFiniteSet(Counting(s)') /\ Counted(s)'
  PROVE  ChatInv'
  BY DEF ChatInv, CountInv, Counted, CountTracksMessages

-----------------------------------------------------------------------------
(* One lemma per step of the chat                                          *)

LEMMA ChatFacts ==
  ASSUME ChatInv
  PROVE  /\ session \in [Sessions -> SessionRecords]
         /\ turn \in [Turns -> TurnRecords]
         /\ uncounted \in [Sessions -> Nat]
         /\ \A s \in Sessions : /\ session[s] \in SessionRecords
                                 /\ session[s].count \in Nat /\ uncounted[s] \in Nat
                                 /\ session[s].messages \in Seq(Messages)
                                 /\ Len(session[s].messages) \in Nat
         /\ \A t \in Turns : turn[t] \in TurnRecords /\ (turn[t].at # "idle" => turn[t].of \in Sessions)
<1>1. /\ session \in [Sessions -> SessionRecords] /\ turn \in [Turns -> TurnRecords]
      /\ uncounted \in [Sessions -> Nat]
  BY ChatTypes DEF ChatInv
<1>2. \A s \in Sessions : session[s].messages \in Seq(Messages) /\ session[s].count \in Nat
  BY <1>1 DEF SessionRecords
<1>3. \A s \in Sessions : Len(session[s].messages) \in Nat
  BY <1>2, LenProperties
<1> QED
  BY <1>1, <1>2, <1>3 DEF ChatInv, CountInv

LEMMA CreateSessionInv ==
  ASSUME ChatInv, NEW s \in Sessions, create_session(s) PROVE ChatInv'
<1>1. /\ session' = [session EXCEPT ![s] = [session[s] EXCEPT !.status = "open"]]
      /\ turn' = turn /\ uncounted' = uncounted /\ session[s].status = "none"
  BY DEF create_session
<1>2. ChatTypeOK'
  BY <1>1, ChatFacts, SessionOpens, ChatTypesNext
<1>3. \A c \in Sessions : Counting(c)' = Counting(c)
  BY <1>1 DEF Counting
<1>4. /\ session'[s].messages = <<>> /\ session'[s].count = 0 /\ uncounted'[s] = 0 /\ Counting(s) = {}
      /\ session'[s].status = "open"
  BY <1>1, ChatFacts, CountedIs DEF Counted, SessionRecords
<1>5. Counted(s)'
  <2>1. Len(session'[s].messages) = 0 /\ Cardinality(Counting(s)') = 0
    BY <1>3, <1>4, FS_EmptySet, EmptySeq
  <2>2. Len(session'[s].messages) = session'[s].count + Cardinality(Counting(s)') + uncounted'[s]
    BY <1>4, <2>1
  <2> QED
    BY <1>4, <2>2 DEF Counted, Open
<1>6. \A c \in Sessions \ {s} : Counted(c)'
  BY <1>1, <1>3, ChatFacts, CountedIs DEF Counted, Open
<1> QED
  BY <1>1, <1>2, <1>3, <1>5, <1>6, ChatFacts, CountingFacts, CountedThenInv

LEMMA DeleteSessionInv ==
  ASSUME ChatInv, NEW s \in Sessions, delete_session(s) PROVE ChatInv'
<1>1. /\ session' = [session EXCEPT ![s] = [status |-> "deleted", messages |-> <<>>, count |-> 0]]
      /\ turn' = turn /\ uncounted' = [uncounted EXCEPT ![s] = 0]
  BY DEF delete_session
<1>2. ChatTypeOK'
  BY <1>1, ChatFacts, NewSessionIsSession, ChatTypesNext
<1>3. \A c \in Sessions : Counting(c)' = Counting(c)
  BY <1>1 DEF Counting
<1>4. session'[s].status = "deleted"
  BY <1>1, ChatFacts
<1>5. Counted(s)'
  BY <1>4 DEF Counted, Open
<1>6. \A c \in Sessions \ {s} : Counted(c)'
  BY <1>1, <1>3, ChatFacts, CountedIs DEF Counted, Open
<1> QED
  BY <1>1, <1>2, <1>3, <1>5, <1>6, ChatFacts, CountingFacts, CountedThenInv

\* A message is stored: the turn is about to count it.
LEMMA MessageStored ==
  ASSUME ChatInv, NEW t \in Turns, NEW s \in Sessions, NEW m \in Messages, NEW q \in TurnRecords,
         turn[t].at \notin {"saved", "answered"}, Open(s),
         q.of = s, q.at \in {"saved", "answered"},
         session' = [session EXCEPT ![s] = [session[s] EXCEPT !.messages = Append(session[s].messages, m)]],
         turn' = [turn EXCEPT ![t] = q], uncounted' = uncounted
  PROVE  ChatInv'
<1>1. ChatTypeOK'
  BY ChatFacts, SessionStores, ChatTypesNext
<1>2. \A c \in Sessions : IsFiniteSet(Counting(c)')
  BY CountingAdds
<1>3. \A u \in Turns : turn'[u].at # "idle" => turn'[u].of \in Sessions
  BY ChatFacts
<1>4. Counted(s)'
  <2>1. /\ session'[s].status = "open" /\ session'[s].count = session[s].count
        /\ session'[s].messages = Append(session[s].messages, m)
    BY ChatFacts DEF SessionRecords, Open
  <2>2. Len(session'[s].messages) = Len(session[s].messages) + 1
    BY <2>1, ChatFacts, AppendProperties
  <2>3. Cardinality(Counting(s)') = Cardinality(Counting(s)) + 1
    BY CountingAdds
  <2>4. Len(session[s].messages) = session[s].count + Cardinality(Counting(s)) + uncounted[s]
    BY CountedIs DEF Counted
  <2>5. session[s].count \in Nat /\ uncounted[s] \in Nat /\ Cardinality(Counting(s)) \in Nat
    BY ChatFacts, CountingFacts
  <2>6. uncounted'[s] = uncounted[s]
    OBVIOUS
  <2> DEFINE l == Len(session[s].messages)
             k == Cardinality(Counting(s))
             c == session[s].count
             u == uncounted[s]
             l1 == Len(session'[s].messages)
             k1 == Cardinality(Counting(s)')
             c1 == session'[s].count
             u1 == uncounted'[s]
  <2>a. /\ l = c + k + u /\ k \in Nat /\ u \in Nat /\ c \in Nat
        /\ l1 = l + 1 /\ k1 = k + 1 /\ c1 = c /\ u1 = u
    BY <2>1, <2>2, <2>3, <2>4, <2>5, <2>6
  <2> HIDE DEF l, k, c, u, l1, k1, c1, u1
  <2>b. l1 = c1 + k1 + u1
    BY <2>a
  <2>7. Len(session'[s].messages) = session'[s].count + Cardinality(Counting(s)') + uncounted'[s]
    BY <2>b DEF l1, k1, c1, u1
  <2> QED
    BY <2>1, <2>7 DEF Counted, Open
<1>5. ASSUME NEW c \in Sessions \ {s} PROVE Counted(c)'
  <2>1. Counting(c)' = Counting(c) /\ session'[c] = session[c]
    BY CountingAdds, ChatFacts
  <2> QED
    BY <2>1, CountedIs DEF Counted, Open
<1> QED
  BY <1>1, <1>2, <1>3, <1>4, <1>5, CountedThenInv

\* A turn that has nothing to count in an open session goes on or stops.
LEMMA TurnGoesOn ==
  ASSUME ChatInv, NEW t \in Turns, NEW q \in TurnRecords,
         turn' = [turn EXCEPT ![t] = q], q.at \notin {"saved", "answered"},
         q.at # "idle" => q.of = turn[t].of /\ turn[t].at # "idle",
         \A c \in Sessions : t \in Counting(c) => ~ Open(c),
         UNCHANGED <<session, uncounted>>
  PROVE  ChatInv'
<1>1. ChatTypeOK'
  BY ChatFacts, ChatTypesNext
<1>2. \A c \in Sessions : IsFiniteSet(Counting(c)')
  BY CountingRemoves
<1>3. \A u \in Turns : turn'[u].at # "idle" => turn'[u].of \in Sessions
  BY ChatFacts
<1>4. ASSUME NEW c \in Sessions PROVE Counted(c)'
  <2>1. /\ Counting(c)' \subseteq Counting(c)
        /\ t \notin Counting(c) => Counting(c)' = Counting(c)
    BY CountingRemoves
  <2>2. Counted(c)
    BY CountedIs
  <2>3. CASE t \notin Counting(c)
    BY <2>1, <2>2, <2>3 DEF Counted, Open
  <2>4. CASE t \in Counting(c)
    BY <2>1, <2>2, <2>4 DEF Counted, Open
  <2> QED
    BY <2>3, <2>4
<1> QED
  BY <1>1, <1>2, <1>3, <1>4, CountedThenInv

\* A turn counts its message, or is lost before it does.
LEMMA MessageCounted ==
  ASSUME ChatInv, NEW t \in Turns, NEW s \in Sessions, turn[t].of = s, NEW q \in TurnRecords,
         turn' = [turn EXCEPT ![t] = q], q.at \notin {"saved", "answered"},
         q.at # "idle" => q.of = s,
         turn[t].at \in {"saved", "answered"}, Open(s),
         NEW counted \in 0 .. 1, NEW lost \in 0 .. 1, counted + lost = 1,
         session' = [session EXCEPT ![s] = [session[s] EXCEPT !.count = session[s].count + counted]],
         uncounted' = [uncounted EXCEPT ![s] = uncounted[s] + lost]
  PROVE  ChatInv'
<1>0. /\ session[s] \in SessionRecords /\ session[s].count \in Nat
      /\ uncounted[s] \in Nat /\ t \in Counting(s)
  BY ChatFacts DEF Counting
<1>1. ChatTypeOK'
  <2>1. session[s].count + counted \in Nat /\ uncounted[s] + lost \in Nat
    BY <1>0
  <2>2. [session[s] EXCEPT !.count = session[s].count + counted] \in SessionRecords
    BY <1>0, <2>1 DEF SessionRecords
  <2> QED
    BY <1>0, <2>1, <2>2, ChatFacts, ChatTypesNext
<1>2. \A c \in Sessions : IsFiniteSet(Counting(c)')
  BY CountingRemoves
<1>3. \A u \in Turns : turn'[u].at # "idle" => turn'[u].of \in Sessions
  BY <1>0, ChatFacts
<1>4. Counted(s)'
  <2>1. Cardinality(Counting(s)) = Cardinality(Counting(s)') + 1
    BY <1>0, CountingRemoves
  <2>2. Cardinality(Counting(s)') \in Nat
    BY <1>0, <1>2, FS_CardinalityType
  <2>3. Len(session[s].messages) = session[s].count + Cardinality(Counting(s)) + uncounted[s]
    BY <1>0, CountedIs DEF Counted
  <2>4. /\ session'[s].status = "open" /\ session'[s].count = session[s].count + counted
        /\ session'[s].messages = session[s].messages /\ uncounted'[s] = uncounted[s] + lost
    BY <1>0, ChatFacts DEF SessionRecords, Open
  <2>5. Len(session'[s].messages) = session'[s].count + Cardinality(Counting(s)') + uncounted'[s]
    BY <1>0, <2>1, <2>2, <2>3, <2>4
  <2> QED
    BY <2>4, <2>5 DEF Counted, Open
<1>5. ASSUME NEW c \in Sessions \ {s} PROVE Counted(c)'
  <2>1. t \notin Counting(c)
    BY <1>5 DEF Counting
  <2>2. Counting(c)' = Counting(c) /\ session'[c] = session[c] /\ uncounted'[c] = uncounted[c]
    BY <1>0, <1>5, <2>1, CountingRemoves, ChatFacts
  <2> QED
    BY <2>2, CountedIs DEF Counted, Open
<1> QED
  BY <1>0, <1>1, <1>2, <1>3, <1>4, <1>5, CountedThenInv

-----------------------------------------------------------------------------
(* The actions of a turn                                                   *)

LEMMA SaveQuestionInv ==
  ASSUME ChatInv, NEW t \in Turns, NEW s \in Sessions, SaveQuestion(t, s) PROVE ChatInv'
<1> DEFINE q == [NoTurn EXCEPT !.of = s, !.at = "saved"]
<1>1. q \in TurnRecords /\ q.of = s /\ q.at = "saved"
  BY TurnBegins DEF NoTurn
<1>2. /\ turn[t].at = "idle" /\ Open(s) /\ uncounted' = uncounted /\ turn' = [turn EXCEPT ![t] = q]
      /\ session' = [session EXCEPT ![s] = [session[s] EXCEPT !.messages = Append(session[s].messages, UserMessage)]]
  BY DEF SaveQuestion
<1> HIDE DEF q
<1> QED
  BY <1>1, <1>2, MessagesAre, MessageStored

\* A turn that counts nothing: idle, thinking or complete.
LEMMA NotCounting ==
  ASSUME NEW t \in Turns, turn[t].at \notin {"saved", "answered"} \/ ~ Open(turn[t].of)
  PROVE  \A c \in Sessions : t \in Counting(c) => ~ Open(c)
  BY DEF Counting

LEMMA StopsUncounted ==
  ASSUME ChatInv, NEW t \in Turns, turn[t].at \notin {"saved", "answered"} \/ ~ Open(turn[t].of),
         turn' = [turn EXCEPT ![t] = NoTurn], UNCHANGED <<session, uncounted>>
  PROVE  ChatInv'
<1>1. NoTurn \in TurnRecords /\ NoTurn.at = "idle"
  BY NoTurnIsTurn DEF NoTurn
<1> QED
  BY <1>1, NotCounting, TurnGoesOn

LEMMA CountsAndMoves ==
  ASSUME ChatInv, NEW t \in Turns, turn[t].at \in {"saved", "answered"}, Open(turn[t].of),
         NEW q \in TurnRecords, turn' = [turn EXCEPT ![t] = q], q.at \notin {"saved", "answered"},
         q.at # "idle" => q.of = turn[t].of,
         session' = [session EXCEPT ![turn[t].of] =
                        [session[turn[t].of] EXCEPT !.count = session[turn[t].of].count + 1]],
         uncounted' = uncounted
  PROVE  ChatInv'
<1>1. PICK s \in Sessions : s = turn[t].of
  BY ChatFacts
<1>2. uncounted' = [uncounted EXCEPT ![s] = uncounted[s] + 0]
  BY ChatFacts
<1>3. 1 \in 0 .. 1 /\ 0 \in 0 .. 1 /\ 1 + 0 = 1
  OBVIOUS
<1> QED
  BY <1>1, <1>2, <1>3, MessageCounted

LEMMA CountQuestionInv ==
  ASSUME ChatInv, NEW t \in Turns, CountQuestion(t) PROVE ChatInv'
<1> DEFINE q == [turn[t] EXCEPT !.at = "thinking"]
<1>1. turn[t] \in TurnRecords /\ turn[t].at = "saved" /\ uncounted' = uncounted
  BY ChatFacts DEF CountQuestion
<1>2. q \in TurnRecords
  <2>1. \A r \in TurnRecords : [r EXCEPT !.at = "thinking"] \in TurnRecords
    BY DEF TurnRecords
  <2> QED
    BY <1>1, <2>1
<1>3. q.of = turn[t].of /\ q.at = "thinking"
  BY <1>1 DEF TurnRecords
<1>4. CASE Open(turn[t].of)
  <2>1. /\ turn' = [turn EXCEPT ![t] = q]
        /\ session' = [session EXCEPT ![turn[t].of] =
                         [session[turn[t].of] EXCEPT !.count = session[turn[t].of].count + 1]]
    BY <1>4 DEF CountQuestion, bumped
  <2> HIDE DEF q
  <2> QED
    BY <1>1, <1>2, <1>3, <1>4, <2>1, CountsAndMoves
<1>5. CASE ~ Open(turn[t].of)
  BY <1>1, <1>5, StopsUncounted DEF CountQuestion
<1> QED
  BY <1>4, <1>5

LEMMA CountAnswerInv ==
  ASSUME ChatInv, NEW t \in Turns, CountAnswer(t) PROVE ChatInv'
<1>1. turn[t].at = "answered" /\ uncounted' = uncounted /\ turn' = [turn EXCEPT ![t] = NoTurn]
  BY DEF CountAnswer
<1>2. NoTurn \in TurnRecords /\ NoTurn.at = "idle"
  BY NoTurnIsTurn DEF NoTurn
<1>3. CASE Open(turn[t].of)
  <2>1. session' = [session EXCEPT ![turn[t].of] =
                      [session[turn[t].of] EXCEPT !.count = session[turn[t].of].count + 1]]
    BY <1>3 DEF CountAnswer, bumped
  <2> QED
    BY <1>1, <1>2, <1>3, <2>1, CountsAndMoves
<1>4. CASE ~ Open(turn[t].of)
  BY <1>1, <1>4, StopsUncounted DEF CountAnswer
<1> QED
  BY <1>3, <1>4

LEMMA TurnStopsInv ==
  ASSUME ChatInv, NEW t \in Turns, TurnStops(t) PROVE ChatInv'
<1>1. turn' = [turn EXCEPT ![t] = NoTurn] /\ session' = session /\ turn[t].at # "idle"
  BY DEF TurnStops
<1>2. NoTurn \in TurnRecords /\ NoTurn.at = "idle"
  BY NoTurnIsTurn DEF NoTurn
<1>3. CASE turn[t].at \in {"saved", "answered"} /\ Open(turn[t].of)
  <2>1. PICK s \in Sessions : s = turn[t].of
    BY <1>1, ChatFacts
  <2>2. session[s] \in SessionRecords /\ session[s].count + 0 = session[s].count
    BY ChatFacts
  <2>3. [session[s] EXCEPT !.count = session[s].count] = session[s]
    <3>1. \A r \in SessionRecords : [r EXCEPT !.count = r.count] = r
      BY DEF SessionRecords
    <3> QED
      BY <2>2, <3>1
  <2>4. session' = [session EXCEPT ![s] = [session[s] EXCEPT !.count = session[s].count + 0]]
    <3>1. [session EXCEPT ![s] = session[s]] = session
      BY ChatFacts
    <3> QED
      BY <1>1, <2>2, <2>3, <3>1
  <2>5. uncounted' = [uncounted EXCEPT ![s] = uncounted[s] + 1]
    BY <1>3, <2>1 DEF TurnStops
  <2>6. /\ turn[t].of = s /\ Open(s) /\ turn[t].at \in {"saved", "answered"}
        /\ NoTurn.at \notin {"saved", "answered"}
    BY <1>2, <1>3, <2>1
  <2> PICK q \in TurnRecords : q = NoTurn
    BY <1>2
  <2> PICK counted \in 0 .. 1, lost \in 0 .. 1 : counted = 0 /\ lost = 1
    OBVIOUS
  <2>7. /\ session' = [session EXCEPT ![s] = [session[s] EXCEPT !.count = session[s].count + counted]]
        /\ uncounted' = [uncounted EXCEPT ![s] = uncounted[s] + lost]
    BY <2>4, <2>5
  <2>8. turn' = [turn EXCEPT ![t] = q] /\ q.at = "idle" /\ counted + lost = 1
    BY <1>1, <1>2
  <2> QED
    BY <2>6, <2>7, <2>8, MessageCounted
<1>4. CASE ~ (turn[t].at \in {"saved", "answered"} /\ Open(turn[t].of))
  BY <1>1, <1>4, StopsUncounted DEF TurnStops
<1> QED
  BY <1>3, <1>4

LEMMA SaveAnswerInv ==
  ASSUME ChatInv, NEW t \in Turns, SaveAnswer(t) PROVE ChatInv'
<1> DEFINE m == [role |-> "assistant", tools |-> turn[t].tools, refs |-> turn[t].refs]
           q == [turn[t] EXCEPT !.at = "answered"]
<1>1. /\ turn[t] \in TurnRecords /\ turn[t].at = "complete" /\ uncounted' = uncounted
      /\ turn[t].of \in Sessions
  BY ChatFacts DEF SaveAnswer
<1>2. m \in Messages
  BY <1>1, MessagesAre DEF TurnRecords
<1>3. q \in TurnRecords
  <2>1. \A r \in TurnRecords : [r EXCEPT !.at = "answered"] \in TurnRecords
    BY DEF TurnRecords
  <2> QED
    BY <1>1, <2>1
<1>4. q.of = turn[t].of /\ q.at = "answered"
  BY <1>1 DEF TurnRecords
<1>5. CASE Open(turn[t].of)
  <2>1. /\ turn' = [turn EXCEPT ![t] = q]
        /\ session' = [session EXCEPT ![turn[t].of] =
                         [session[turn[t].of] EXCEPT !.messages = Append(session[turn[t].of].messages, m)]]
    BY <1>5 DEF SaveAnswer
  <2> HIDE DEF q, m
  <2> QED
    BY <1>1, <1>2, <1>3, <1>4, <1>5, <2>1, MessageStored
<1>6. CASE ~ Open(turn[t].of)
  BY <1>1, <1>6, StopsUncounted DEF SaveAnswer
<1> QED
  BY <1>5, <1>6

LEMMA CompleteInv ==
  ASSUME ChatInv, NEW t \in Turns, Complete(t) PROVE ChatInv'
<1> DEFINE rounds == IF may_iterate(t) THEN turn[t].rounds + 1 ELSE turn[t].rounds
           q == [turn[t] EXCEPT !.at = "complete", !.rounds = rounds]
<1>1. turn[t] \in TurnRecords /\ turn[t].at = "thinking" /\ UNCHANGED <<session, uncounted>>
  BY ChatFacts DEF Complete
<1>2. turn' = [turn EXCEPT ![t] = q]
  BY DEF Complete
<1>3. rounds \in 0 .. max_iterations
  BY <1>1, ChatNumbers DEF TurnRecords, may_iterate
<1> HIDE DEF rounds
<1>4. q \in TurnRecords
  <2>1. \A r \in TurnRecords : [r EXCEPT !.at = "complete", !.rounds = rounds] \in TurnRecords
    BY <1>3 DEF TurnRecords
  <2> QED
    BY <1>1, <2>1
<1>5. q.of = turn[t].of /\ q.at = "complete"
  BY <1>1 DEF TurnRecords
<1> HIDE DEF q
<1> QED
  BY <1>1, <1>2, <1>4, <1>5, NotCounting, TurnGoesOn

LEMMA UseToolsInv ==
  ASSUME ChatInv, NEW t \in Turns, NEW calls \in Nat, turn[t].tools + calls <= MaxCalls,
         NEW refs \in SUBSET Analyses, UseTools(t, calls, refs)
  PROVE  ChatInv'
<1> DEFINE rounds == turn[t].rounds + 1
           tools == turn[t].tools + calls
           named == turn[t].refs \cup refs
           q == [turn[t] EXCEPT !.rounds = rounds, !.tools = tools, !.refs = named]
<1>1. turn[t] \in TurnRecords /\ turn[t].at = "thinking" /\ UNCHANGED <<session, uncounted>>
  BY ChatFacts DEF UseTools
<1>2. turn' = [turn EXCEPT ![t] = q]
  BY DEF UseTools
<1>3. rounds \in 0 .. max_iterations /\ tools \in 0 .. MaxCalls /\ named \in SUBSET Analyses
  BY <1>1, ChatNumbers DEF TurnRecords, UseTools, may_iterate
<1> HIDE DEF rounds, tools, named
<1>4. q \in TurnRecords
  <2>1. \A r \in TurnRecords : [r EXCEPT !.rounds = rounds, !.tools = tools, !.refs = named] \in TurnRecords
    BY <1>3 DEF TurnRecords
  <2> QED
    BY <1>1, <2>1
<1>5. q.of = turn[t].of /\ q.at = "thinking"
  BY <1>1 DEF TurnRecords
<1> HIDE DEF q
<1> QED
  BY <1>1, <1>2, <1>4, <1>5, NotCounting, TurnGoesOn

-----------------------------------------------------------------------------
(* run_quick_analysis: the row it leaves has no key                        *)

LEMMA RowsOfQuickRun ==
  ASSUME RowsInv, NEW a \in Analyses, req[a].at = "new", row[a] = Absent,
         NEW r, r.key = NoKey, r.status # "absent" \/ r = Absent,
         \A b \in Analyses : req'[b] = IF b = a THEN req'[a] ELSE req[b],
         req'[a].at = "taken",
         \A b \in Analyses : row'[b] = IF b = a THEN r ELSE row[b],
         UNCHANGED <<task, run>>
  PROVE  RowsInv'
<1>1. row[a].key = NoKey /\ ~ Exists(a)
  BY DEF Absent, Exists
<1>2. \A b \in Analyses : row'[b].key = row[b].key /\ (Exists(b) => row'[b] = row[b])
  BY <1>1
<1>3. \A b \in Analyses : req'[b].at = "taken" \/ (b # a /\ req'[b] = req[b] /\ row'[b] = row[b])
  OBVIOUS
<1>4. \A b \in Analyses : Exists(b) => Exists(b)'
  BY <1>2 DEF Exists
<1>5. \A b \in Analyses : row'[b].key # NoKey => Exists(b)'
  BY <1>2, <1>4 DEF RowsInv
<1>6. \A b, c \in Analyses : row'[b].key # NoKey /\ row'[b].key = row'[c].key => b = c
  BY <1>2 DEF RowsInv
<1>7. \A b \in Analyses : req'[b].at = "answered" =>
         req'[b].key # NoKey /\ req'[b].answer \in Analyses /\ row'[req'[b].answer].key = req'[b].key
  BY <1>2, <1>3 DEF RowsInv
<1> QED
  BY <1>3, <1>4, <1>5, <1>6, <1>7 DEF RowsInv

LEMMA QuickRunInv ==
  ASSUME RoutesInv, NEW t \in Turns, NEW a \in Analyses, RunQuickAnalysis(t, a)
  PROVE  RoutesInv'
<1>1. /\ req[a].at = "new" /\ row[a] = Absent /\ UNCHANGED <<minute, task, thread, opened, run>>
      /\ req' = [req EXCEPT ![a] = [req[a] EXCEPT !.at = "taken"]]
  BY DEF RunQuickAnalysis, graphVars
<1>2. /\ req \in [Analyses -> RequestRecords] /\ row \in [Analyses -> AnalysisRows]
      /\ minute \in Nat
  BY RoutesTypes, Numbers DEF RoutesInv
<1>3. PICK r \in AnalysisRows :
         /\ row' = [row EXCEPT ![a] = r] /\ r.key = NoKey /\ (r.status # "absent" \/ r = Absent)
  <2>1. CASE row' = row
    <3>1. [row EXCEPT ![a] = Absent] = row
      BY <1>1, <1>2
    <3> QED
      BY <2>1, <3>1, InitialRecords DEF Absent
  <2>2. CASE \E status \in {"succeeded", "failed"}, cost \in 0 .. MaxSynthCost :
                row' = [row EXCEPT ![a] = [Absent EXCEPT !.status = status, !.cost = cost, !.since = minute]]
    <3>1. PICK status \in {"succeeded", "failed"}, cost \in 0 .. MaxSynthCost :
             row' = [row EXCEPT ![a] = [Absent EXCEPT !.status = status, !.cost = cost, !.since = minute]]
      BY <2>2
    <3> DEFINE r == [Absent EXCEPT !.status = status, !.cost = cost, !.since = minute]
    <3>2. r \in AnalysisRows
      <4>1. cost \in Nat
        BY Numbers
      <4> QED
        BY <1>2, <4>1, RowOfQuickRun
    <3>3. r.key = NoKey /\ r.status = status
      BY DEF Absent
    <3> QED
      BY <3>1, <3>2, <3>3
  <2> QED
    BY <2>1, <2>2 DEF RunQuickAnalysis
<1>4. [req[a] EXCEPT !.at = "taken"] \in RequestRecords /\ [req[a] EXCEPT !.at = "taken"].at = "taken"
  <2>1. \A q \in RequestRecords : [q EXCEPT !.at = "taken"] \in RequestRecords
                                  /\ [q EXCEPT !.at = "taken"].at = "taken"
    BY DEF RequestRecords
  <2> QED
    BY <1>2, <2>1
<1>5. RoutesTypeOK'
  <2>1. req' \in [Analyses -> RequestRecords] /\ row' \in [Analyses -> AnalysisRows]
    BY <1>1, <1>2, <1>3, <1>4
  <2> QED
    BY <1>1, <2>1, RoutesTypes, RoutesTypesNext DEF RoutesInv
<1>6. RowsInv'
  <2>1. /\ \A b \in Analyses : req'[b] = IF b = a THEN req'[a] ELSE req[b]
        /\ req'[a].at = "taken"
        /\ \A b \in Analyses : row'[b] = IF b = a THEN r ELSE row[b]
    BY <1>1, <1>2, <1>3, <1>4
  <2> QED
    BY <1>1, <1>3, <2>1, RowsOfQuickRun DEF RoutesInv
<1> QED
  BY <1>1, <1>5, <1>6, BudgetKept DEF RoutesInv

-----------------------------------------------------------------------------
(* The service                                                             *)

ServiceInv ==
    /\ RoutesInv
    /\ ChatInv
    /\ CritiqueInv
    /\ requests \in 0 .. MaxRequests

LEMMA ChatRequestInv == ChatInv /\ ChatRequest => ChatInv'
  BY CreateSessionInv, DeleteSessionInv, SaveQuestionInv DEF ChatRequest

LEMMA ChatStutterInv == ChatInv /\ UNCHANGED chatVars => ChatInv'
<1> SUFFICES ASSUME ChatInv, UNCHANGED chatVars PROVE ChatInv'
  OBVIOUS
<1>1. UNCHANGED <<session, turn, uncounted>>
  BY DEF chatVars
<1>2. ChatTypeOK'
  BY <1>1, ChatFacts, ChatTypesNext
<1>3. \A s \in Sessions : Counting(s)' = Counting(s)
  BY <1>1 DEF Counting
<1>4. \A s \in Sessions : Counted(s)'
  BY <1>1, <1>3, CountedIs DEF Counted, Open
<1> QED
  BY <1>1, <1>2, <1>3, <1>4, ChatFacts, CountingFacts, CountedThenInv

LEMMA TurnInv ==
  ASSUME ChatInv, NEW t \in Turns, TurnStep(t) \/ TurnStops(t) PROVE ChatInv'
  BY CountQuestionInv, CompleteInv, SaveAnswerInv, CountAnswerInv, TurnStopsInv DEF TurnStep

LEMMA ReadToolsInv ==
  ASSUME ChatInv, NEW t \in Turns, ReadTools(t) PROVE ChatInv'
<1>1. PICK calls \in 1 .. MaxCalls - turn[t].tools, refs \in SUBSET {a \in Analyses : Exists(a)} :
         UseTools(t, calls, refs)
  BY DEF ReadTools
<1>2. turn[t].tools \in 0 .. MaxCalls
  BY ChatFacts DEF TurnRecords
<1>3. calls \in Nat /\ turn[t].tools + calls <= MaxCalls /\ refs \in SUBSET Analyses
  BY <1>1, <1>2, ChatNumbers
<1> QED
  BY <1>1, <1>3, UseToolsInv

LEMMA QuickToolInv ==
  ASSUME ChatInv, NEW t \in Turns, NEW a \in Analyses, RunQuickAnalysis(t, a) PROVE ChatInv'
<1>1. \E refs \in SUBSET Analyses : UseTools(t, 1, refs)
  BY DEF RunQuickAnalysis
<1>2. turn[t].tools \in 0 .. MaxCalls /\ turn[t].tools < MaxCalls
  BY ChatFacts DEF TurnRecords, RunQuickAnalysis
<1>3. 1 \in Nat /\ turn[t].tools + 1 <= MaxCalls
  BY <1>2, ChatNumbers
<1> QED
  BY <1>1, <1>3, UseToolsInv

\* A turn of the chat, or a tool of it that runs the pipeline.
LEMMA ChatStepInv ==
  ASSUME RoutesInv, ChatInv, NEW t \in Turns, Chat(t) PROVE RoutesInv' /\ ChatInv'
<1>1. CASE (TurnStep(t) \/ TurnStops(t)) /\ UNCHANGED routeVars
  BY <1>1, TurnInv, RoutesStutterInv
<1>2. CASE ReadTools(t)
  BY <1>2, ReadToolsInv, RoutesStutterInv DEF ReadTools
<1>3. CASE \E a \in Analyses : RunQuickAnalysis(t, a)
  BY <1>3, QuickToolInv, QuickRunInv
<1> QED
  BY <1>1, <1>2, <1>3 DEF Chat

LEMMA ServiceStep == ServiceInv /\ [Next]_vars => ServiceInv'
<1> SUFFICES ASSUME ServiceInv, [Next]_vars PROVE ServiceInv'
  OBVIOUS
<1> USE DEF ServiceInv
<1>1. CASE Request
  <2>1. requests' \in 0 .. MaxRequests
    BY <1>1, ServiceAssumption DEF Request
  <2> QED
    BY <1>1, <2>1, RoutesRequestInv, RoutesStutterInv, ChatRequestInv, ChatStutterInv,
       CritiqueRequestInv, CritiqueStutterInv DEF Request
<1>2. CASE Routes
  BY <1>2, RoutesStepInv, ChatStutterInv, CritiqueStutterInv DEF Routes
<1>3. ASSUME NEW t \in Turns, Chat(t) PROVE ServiceInv'
  BY <1>3, ChatStepInv, CritiqueStutterInv DEF Chat
<1>4. CASE Critiques
  BY <1>4, CritiqueStepInv, ChatStutterInv, RoutesStutterInv DEF Critiques
<1>5. CASE UNCHANGED vars
  BY <1>5, RoutesStutterInv, ChatStutterInv, CritiqueStutterInv DEF vars
<1> QED
  BY <1>1, <1>2, <1>3, <1>4, <1>5 DEF Next

LEMMA ServiceInit == Init => ServiceInv
  BY RoutesInitInv, ChatInitInv, CritiqueInitInv, ServiceAssumption DEF Init, ServiceInv

\* The invariant the theorems below take their facts from.
THEOREM ServiceInvariant == Spec => []ServiceInv
  BY ServiceInit, ServiceStep, PTL DEF Spec

\* Every variable of the service keeps its type (Service.tla, TypeOK).
THEOREM ServiceTypes == Spec => []TypeOK
<1>1. ServiceInv => TypeOK
  BY DEF ServiceInv, TypeOK, RoutesInv, ChatInv, CritiqueInv
<1> QED
  BY <1>1, ServiceInvariant, PTL

\* Two requests that were answered under one idempotency key were given one id, for
\* any number of API processes, requests and chat turns that run the pipeline
\* (routes/analyses.py:118-146).
THEOREM OneAnswerPerKey == Spec => []SameKeySameAnswer
<1>1. ServiceInv => SameKeySameAnswer
  BY RoutesInvImplies DEF ServiceInv
<1> QED
  BY <1>1, ServiceInvariant, PTL

\* However many readers run one analysis, its running cost passes the hard cap by one
\* superstep and one synthesis for each of them at most (nodes.py:163-220).
THEOREM OvershootIsBounded == Spec => []BudgetOvershoot
<1>1. ServiceInv => BudgetOvershoot
  BY RoutesInvImplies DEF ServiceInv
<1> QED
  BY <1>1, ServiceInvariant, PTL

\* message_count and the stored messages differ by what is about to be counted and
\* what was lost before it could be (routes/chat.py:169-185, 240-270).
THEOREM CountIsTracked == Spec => []CountTracksMessages
<1>1. ServiceInv => CountTracksMessages
  BY DEF ServiceInv, ChatInv, CountInv
<1> QED
  BY <1>1, ServiceInvariant, PTL

\* A critique that reads ok is whole, whichever runs of it end in whatever order
\* (routes/critiques.py:224-245).
THEOREM CritiquesAreWhole == Spec => []OkIsWhole
<1>1. ServiceInv => OkIsWhole
  BY DEF ServiceInv, CritiqueInv
<1> QED
  BY <1>1, ServiceInvariant, PTL

\* No run of a critique costs more than its two caps and the one call past each
\* (report_critic.py:278-280).
THEOREM CritiquesPayWithinCaps == Spec => []CritiquePaysWithinCaps
<1>1. ServiceInv => CritiquePaysWithinCaps
  BY CritiqueInvImplies DEF ServiceInv
<1> QED
  BY <1>1, ServiceInvariant, PTL

\* A run that ends leaves the idempotency key, the creation time and the user's
\* decision in the row (nodes.py:229-329).
THEOREM UsersRecordIsKept == Spec => RunsKeepTheUsersRecord
<1>1. ServiceInv /\ [Next]_vars =>
         [\A a \in Analyses :
             Exists(a) /\ (task' # task \/ run' # run) =>
                 /\ row'[a].key = row[a].key /\ row'[a].since = row[a].since
                 /\ row'[a].action = row[a].action /\ row'[a].dated = row[a].dated]_routeVars
  <2> SUFFICES ASSUME ServiceInv, [Next]_vars, NEW a \in Analyses, Exists(a),
                      task' # task \/ run' # run
               PROVE  /\ row'[a].key = row[a].key /\ row'[a].since = row[a].since
                      /\ row'[a].action = row[a].action /\ row'[a].dated = row[a].dated
    OBVIOUS
  <2>1. CASE RoutesRequest \/ RoutesStep
    BY <2>1, RecordKept DEF ServiceInv
  <2>2. CASE UNCHANGED routeVars
    BY <2>2 DEF routeVars, clientVars, graphVars
  <2>3. ASSUME NEW t \in Turns, NEW b \in Analyses, RunQuickAnalysis(t, b) PROVE FALSE
    BY <2>3 DEF RunQuickAnalysis, graphVars
  <2> QED
    BY <2>1, <2>2, <2>3 DEF Next, Request, Routes, Chat, ReadTools, Critiques, vars
<1> QED
  BY <1>1, ServiceInvariant, PTL DEF Spec, RunsKeepTheUsersRecord

\* A critique that is ok and that no run is at work on never changes again
\* (routes/critiques.py:177-192).
THEOREM OkIsFinal == Spec => OkIsFinalWhenQuiet
<1>1. ServiceInv /\ [Next]_vars =>
         [\A p \in Reports :
             report[p].status = "ok" /\ (\A r \in Runs : crit[r].of # p) =>
                 report'[p] = report[p]]_critiqueVars
  <2> SUFFICES ASSUME ServiceInv, [Next]_vars, NEW p \in Reports, report[p].status = "ok",
                      \A r \in Runs : crit[r].of # p
               PROVE  report'[p] = report[p]
    OBVIOUS
  <2>1. CASE CritiqueRequest \/ CritiqueStep(cap_exceeded)
    <3>1. cap_exceeded \in BOOLEAN
      BY DEF cap_exceeded
    <3> QED
      BY <2>1, <3>1, OkStays DEF ServiceInv
  <2>2. CASE UNCHANGED critiqueVars
    BY <2>2 DEF critiqueVars
  <2> QED
    BY <2>1, <2>2 DEF Next, Request, Routes, Chat, Critiques, vars
<1> QED
  BY <1>1, ServiceInvariant, PTL DEF Spec, OkIsFinalWhenQuiet

=============================================================================
