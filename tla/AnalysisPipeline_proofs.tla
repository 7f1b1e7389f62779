----------------------- MODULE AnalysisPipeline_proofs -----------------------
(***************************************************************************)
(* Proofs about AnalysisPipeline, for any number of specialists, analyses, *)
(* events, callers, restarts and any lifetimes of the rows.                *)
(***************************************************************************)
EXTENDS AnalysisPipeline, TLAPS

------------------------------------------------------------------------------
(* The inductive invariant. *)

\* Nothing carries a time that has not come.
TimeInv ==
    /\ \A a \in Analyses : started[a] <= now
    /\ \A w \in Analyses \cup Callers : unsaved[w].at <= now

\* A worker in its loop over the specialists.
Looping == {"specialists", "running", "storing"}

\* What a worker's position says of its own state and of its analysis.
ControlInv ==
    \A a \in Analyses :
        /\ pc[a] \in {"running", "storing"} => next[a] \in 1 .. N
        /\ pc[a] = "storing" => unsaved[a] # NoRun
        /\ pc[a] = "idle" => next[a] = 1 /\ refusal[a] = {} /\ status[a] = "absent"
        /\ pc[a] \in {"idle"} \cup Looping => priors[a] = NoRows
        /\ Published(a) <=> pc[a] = "done"

\* A caller has stamped a run of the specialist it is running.
CallInv ==
    \A c \in Callers : unsaved[c] # NoRun => calling[c] # "none"

\* The row a worker of kind k, begun at time t, leaves when it passes s.
Served(k, t, s) ==
    s \in Visits(k) =>
        /\ cache[s].status # "missing"
        /\ k \in Events => cache[s].written >= t

VisitedInv ==
    \A a \in Analyses :
        /\ pc[a] \in Looping =>
              \A i \in 1 .. N :
                  i < next[a] => Served(kind[a], started[a], CACHEABLE_SPECIALISTS[i])
        /\ refusal[a] \cap Visits(kind[a]) = {}

\* What is known of a row r of s that a worker of kind k, begun at t, read at rd.
Sound(k, t, rd, s, r) ==
    /\ is_fresh(s, r, rd)
    /\ k \in Events /\ s \in Scope[k] => r.written >= t

PriorsInv ==
    \A a \in Analyses :
        /\ pc[a] \in {"debate", "synthesis", "done"} =>
              \A s \in Specialists :
                  Sound(kind[a], started[a], readAt[a], s, priors[a][s])
        /\ pc[a] = "done" => evidence[a] = priors[a]

IInv ==
    /\ TypeOK
    /\ TimeInv
    /\ ControlInv
    /\ CallInv
    /\ VisitedInv
    /\ PriorsInv

------------------------------------------------------------------------------
(* Facts about the cache. *)

\* Positions of the loop are specialists, and every specialist has a position.
LEMMA SpecialistAt ==
    /\ N \in Nat
    /\ \A i \in 1 .. N : CACHEABLE_SPECIALISTS[i] \in Specialists
    /\ \A s \in Specialists : \E i \in 1 .. N : s = CACHEABLE_SPECIALISTS[i]
  BY SpecialistsAssumption DEF Specialists, N

\* One run of s replaces the row of s and leaves the others.
LEMMA RunWrites ==
    ASSUME cache \in Rows, now \in Nat, NEW s \in Specialists, NEW run \in Runs,
           cache' = upsert_cache(cache, s, run, now)
    PROVE  /\ cache' \in Rows
           /\ cache'[s].status # "missing" /\ cache'[s].written = now
           /\ \A r \in Specialists : r # s => cache'[r] = cache[r]
  BY RunStatusAssumption DEF upsert_cache, Rows, Row, Runs

LEMMA NoRowsType == NoRows \in Rows
  BY DEF NoRows, NoRow, Rows, Row

\* The rows a worker may read have a row for everyone, and every row is fresh.
LEMMA UsableRows ==
    ASSUME NEW rows \in Rows, NEW t \in Nat
    PROVE  Usable(rows, t) <=> \A s \in Specialists : is_fresh(s, rows[s], t)
  BY DEF Usable, missing, stale, is_fresh

------------------------------------------------------------------------------
(* The invariant holds initially. *)

LEMMA InitIInv == Init => IInv
  <1> SUFFICES ASSUME Init PROVE IInv
    OBVIOUS
  <1>1. TypeOK
    BY NoRowsType, SpecialistAt DEF Init, TypeOK, Kinds, Live, Ended
  <1>2. TimeInv
    BY DEF Init, TimeInv, NoRun
  <1>3. ControlInv /\ CallInv
    BY DEF Init, ControlInv, CallInv, Published, Looping
  <1>4. VisitedInv
    BY DEF Init, VisitedInv
  <1>5. PriorsInv
    BY DEF Init, PriorsInv
  <1> QED
    BY <1>1, <1>2, <1>3, <1>4, <1>5 DEF IInv

------------------------------------------------------------------------------
(* Every step preserves it, one part at a time. *)

LEMMA TypeStep == TypeOK /\ ControlInv /\ CallInv /\ [Next]_vars => TypeOK'
  <1> SUFFICES ASSUME TypeOK, ControlInv, CallInv, [Next]_vars PROVE TypeOK'
    OBVIOUS
  <1> USE DEF TypeOK, Kinds, Live, Ended, rowVars, requestVars, readVars, workerVars
  <1>1. CASE UNCHANGED vars
    BY <1>1 DEF vars
  <1>2. ASSUME NEW a \in Analyses, NEW k \in Kinds, create_analysis(a, k) PROVE TypeOK'
    BY <1>2 DEF create_analysis
  <1>3. ASSUME NEW a \in Analyses, synthesize(a) PROVE TypeOK'
    BY <1>3, SpecialistAt DEF synthesize
  <1>4. ASSUME NEW a \in Analyses, SkipOffScope(a) PROVE TypeOK'
    BY <1>4, SpecialistAt DEF SkipOffScope, Visiting, Advance
  <1>5. ASSUME NEW a \in Analyses, CacheHit(a) PROVE TypeOK'
    BY <1>5, SpecialistAt DEF CacheHit, Visiting, Advance
  <1>6. ASSUME NEW a \in Analyses, StartRun(a) PROVE TypeOK'
    BY <1>6 DEF StartRun
  <1>7. ASSUME NEW a \in Analyses, NEW st \in RunStatus, FinishRun(a, st) PROVE TypeOK'
    BY <1>7 DEF FinishRun, Runs
  <1>8. ASSUME NEW a \in Analyses, StoreRun(a) PROVE TypeOK'
    <2>1. /\ next[a] \in 1 .. N /\ CACHEABLE_SPECIALISTS[next[a]] \in Specialists
          /\ unsaved[a] \in Runs
      BY <1>8, SpecialistAt DEF StoreRun, ControlInv
    <2>2. cache' \in Rows
      BY <1>8, <2>1, RunWrites DEF StoreRun
    <2> QED
      BY <1>8, <2>1, <2>2, SpecialistAt DEF StoreRun, Advance
  <1>9. ASSUME NEW a \in Analyses, ReadPriors(a) PROVE TypeOK'
    BY <1>9 DEF ReadPriors
  <1>10. ASSUME NEW a \in Analyses, Blocked(a) PROVE TypeOK'
    <2>1. missing(cache) \in SUBSET Specialists
      BY DEF missing
    <2> QED
      BY <1>10, <2>1 DEF Blocked
  <1>11. ASSUME NEW a \in Analyses, Debate(a) PROVE TypeOK'
    BY <1>11 DEF Debate
  <1>12. ASSUME NEW a \in Analyses, NEW o \in DOMAIN AnalysisStatus, Publish(a, o) PROVE TypeOK'
    BY <1>12 DEF Publish, AnalysisStatus
  <1>13. ASSUME NEW a \in Analyses, Raises(a) PROVE TypeOK'
    BY <1>13 DEF Raises
  <1>14. ASSUME NEW c \in Callers, NEW s \in Specialists, NEW f \in BOOLEAN, StartCall(c, s, f)
         PROVE TypeOK'
    BY <1>14 DEF StartCall
  <1>15. ASSUME NEW c \in Callers, NEW st \in RunStatus, FinishCall(c, st) PROVE TypeOK'
    BY <1>15 DEF FinishCall, Runs
  <1>16. ASSUME NEW c \in Callers, StoreCall(c) PROVE TypeOK'
    <2>1. calling[c] \in Specialists /\ unsaved[c] \in Runs
      BY <1>16 DEF StoreCall, CallInv
    <2>2. cache' \in Rows
      BY <1>16, <2>1, RunWrites DEF StoreCall
    <2> QED
      BY <1>16, <2>2 DEF StoreCall
  <1>17. ASSUME NEW c \in Callers, CallRaises(c) PROVE TypeOK'
    BY <1>17 DEF CallRaises
  <1>18. CASE Tick
    BY <1>18 DEF Tick
  <1>19. ASSUME NEW W \in SUBSET Analyses, NEW C \in SUBSET Callers, Crash(W, C) PROVE TypeOK'
    BY <1>19 DEF Crash
  <1> QED
    BY <1>1, <1>2, <1>3, <1>4, <1>5, <1>6, <1>7, <1>8, <1>9, <1>10, <1>11, <1>12, <1>13, <1>14,
       <1>15, <1>16, <1>17, <1>18, <1>19 DEF Next, WorkerStep

LEMMA ControlStep == TypeOK /\ ControlInv /\ [Next]_vars => ControlInv'
  <1> SUFFICES ASSUME TypeOK, ControlInv, [Next]_vars PROVE ControlInv'
    OBVIOUS
  <1> USE DEF TypeOK, ControlInv, Looping, Published, rowVars, requestVars, readVars, workerVars
  <1>1. CASE UNCHANGED vars
    BY <1>1 DEF vars
  <1>2. ASSUME NEW a \in Analyses, NEW k \in Kinds, create_analysis(a, k) PROVE ControlInv'
    BY <1>2 DEF create_analysis
  <1>3. ASSUME NEW a \in Analyses, synthesize(a) PROVE ControlInv'
    BY <1>3 DEF synthesize
  <1>4. ASSUME NEW a \in Analyses, SkipOffScope(a) PROVE ControlInv'
    BY <1>4 DEF SkipOffScope, Visiting, Advance
  <1>5. ASSUME NEW a \in Analyses, CacheHit(a) PROVE ControlInv'
    BY <1>5 DEF CacheHit, Visiting, Advance
  <1>6. ASSUME NEW a \in Analyses, StartRun(a) PROVE ControlInv'
    BY <1>6 DEF StartRun, Visiting
  <1>7. ASSUME NEW a \in Analyses, NEW st \in RunStatus, FinishRun(a, st) PROVE ControlInv'
    BY <1>7, RunStatusAssumption DEF FinishRun, NoRun
  <1>8. ASSUME NEW a \in Analyses, StoreRun(a) PROVE ControlInv'
    BY <1>8 DEF StoreRun, Advance
  <1>9. ASSUME NEW a \in Analyses, ReadPriors(a) PROVE ControlInv'
    BY <1>9 DEF ReadPriors, VisitedAll
  <1>10. ASSUME NEW a \in Analyses, Blocked(a) PROVE ControlInv'
    BY <1>10 DEF Blocked, VisitedAll
  <1>11. ASSUME NEW a \in Analyses, Debate(a) PROVE ControlInv'
    BY <1>11 DEF Debate
  <1>12. ASSUME NEW a \in Analyses, NEW o \in DOMAIN AnalysisStatus, Publish(a, o)
         PROVE ControlInv'
    BY <1>12 DEF Publish, AnalysisStatus
  <1>13. ASSUME NEW a \in Analyses, Raises(a) PROVE ControlInv'
    BY <1>13 DEF Raises, Live
  <1>14. ASSUME NEW c \in Callers, NEW s \in Specialists, NEW f \in BOOLEAN, StartCall(c, s, f)
         PROVE ControlInv'
    BY <1>14 DEF StartCall
  <1>15. ASSUME NEW c \in Callers, NEW st \in RunStatus, FinishCall(c, st) PROVE ControlInv'
    BY <1>15, WritersAssumption DEF FinishCall
  <1>16. ASSUME NEW c \in Callers, StoreCall(c) PROVE ControlInv'
    BY <1>16, WritersAssumption DEF StoreCall
  <1>17. ASSUME NEW c \in Callers, CallRaises(c) PROVE ControlInv'
    BY <1>17, WritersAssumption DEF CallRaises
  <1>18. CASE Tick
    BY <1>18 DEF Tick
  <1>19. ASSUME NEW W \in SUBSET Analyses, NEW C \in SUBSET Callers, Crash(W, C)
         PROVE ControlInv'
    BY <1>19, WritersAssumption DEF Crash, Live
  <1> QED
    BY <1>1, <1>2, <1>3, <1>4, <1>5, <1>6, <1>7, <1>8, <1>9, <1>10, <1>11, <1>12, <1>13, <1>14,
       <1>15, <1>16, <1>17, <1>18, <1>19 DEF Next, WorkerStep

LEMMA CallStep == TypeOK /\ CallInv /\ [Next]_vars => CallInv'
  <1> SUFFICES ASSUME TypeOK, CallInv, [Next]_vars PROVE CallInv'
    OBVIOUS
  <1> USE DEF TypeOK, CallInv, rowVars, requestVars, readVars, workerVars
  <1>1. CASE UNCHANGED <<calling, unsaved>>
    BY <1>1
  <1>2. ASSUME NEW a \in Analyses, WorkerStep(a) \/ Raises(a) \/ synthesize(a)
                                  \/ \E k \in Kinds : create_analysis(a, k)
        PROVE  CallInv'
    <2>1. calling' = calling /\ \A c \in Callers : unsaved'[c] = unsaved[c]
      BY <1>2, WritersAssumption DEF WorkerStep, SkipOffScope, CacheHit, StartRun, FinishRun,
         StoreRun, ReadPriors, Blocked, Debate, Publish, Raises, synthesize, create_analysis
    <2> QED
      BY <2>1
  <1>3. ASSUME NEW c \in Callers, NEW s \in Specialists, NEW f \in BOOLEAN, StartCall(c, s, f)
        PROVE  CallInv'
    BY <1>3 DEF StartCall
  <1>4. ASSUME NEW c \in Callers,
               StoreCall(c) \/ CallRaises(c) \/ \E st \in RunStatus : FinishCall(c, st)
        PROVE  CallInv'
    BY <1>4 DEF StoreCall, CallRaises, FinishCall
  <1>5. ASSUME NEW W \in SUBSET Analyses, NEW C \in SUBSET Callers, Crash(W, C) PROVE CallInv'
    BY <1>5 DEF Crash
  <1>6. Tick \/ UNCHANGED vars => UNCHANGED <<calling, unsaved>>
    BY DEF Tick, vars
  <1> QED
    BY <1>1, <1>2, <1>3, <1>4, <1>5, <1>6 DEF Next

\* Requests and runs carry the current time; everything else only ages.
LEMMA TimeStep == TypeOK /\ TimeInv /\ [Next]_vars => TimeInv'
  <1> SUFFICES ASSUME TypeOK, TimeInv, [Next]_vars PROVE TimeInv'
    OBVIOUS
  <1> USE DEF TypeOK, TimeInv, rowVars, requestVars, readVars, workerVars
  <1>1. NoRun.at = 0 /\ 0 <= now
    BY DEF NoRun
  <1>2. ASSUME UNCHANGED <<started, unsaved>>, now' \in Nat, now <= now' PROVE TimeInv'
    BY <1>2 DEF Runs, NoRun
  <1>3. ASSUME NEW a \in Analyses, NEW st \in RunStatus, FinishRun(a, st) PROVE TimeInv'
    BY <1>3 DEF FinishRun
  <1>4. ASSUME NEW a \in Analyses, StoreRun(a) \/ Raises(a) PROVE TimeInv'
    BY <1>1, <1>4 DEF StoreRun, Raises
  <1>5. ASSUME NEW a \in Analyses, synthesize(a) \/ \E k \in Kinds : create_analysis(a, k)
        PROVE  TimeInv'
    BY <1>5 DEF create_analysis, synthesize
  <1>6. ASSUME NEW a \in Analyses,
               SkipOffScope(a) \/ CacheHit(a) \/ StartRun(a) \/ ReadPriors(a) \/ Blocked(a)
               \/ Debate(a) \/ \E o \in DOMAIN AnalysisStatus : Publish(a, o)
        PROVE TimeInv'
    BY <1>2, <1>6 DEF SkipOffScope, CacheHit, StartRun, ReadPriors, Blocked, Debate, Publish
  <1>7. ASSUME NEW c \in Callers, NEW s \in Specialists, NEW f \in BOOLEAN, StartCall(c, s, f)
        PROVE TimeInv'
    BY <1>2, <1>7 DEF StartCall
  <1>8. ASSUME NEW c \in Callers, NEW st \in RunStatus, FinishCall(c, st) PROVE TimeInv'
    BY <1>8 DEF FinishCall
  <1>9. ASSUME NEW c \in Callers, StoreCall(c) \/ CallRaises(c) PROVE TimeInv'
    BY <1>1, <1>9 DEF StoreCall, CallRaises
  <1>10. CASE Tick
    BY <1>2, <1>10 DEF Tick
  <1>11. ASSUME NEW W \in SUBSET Analyses, NEW C \in SUBSET Callers, Crash(W, C) PROVE TimeInv'
    BY <1>1, <1>11 DEF Crash
  <1>12. CASE UNCHANGED vars
    BY <1>2, <1>12 DEF vars
  <1> QED
    BY <1>3, <1>4, <1>5, <1>6, <1>7, <1>8, <1>9, <1>10, <1>11, <1>12 DEF Next, WorkerStep

\* The loop leaves a row, new if the run was forced, for every specialist it has
\* to visit and has passed.
LEMMA VisitedStep ==
    TypeOK /\ ControlInv /\ CallInv /\ TimeInv /\ VisitedInv /\ [Next]_vars => VisitedInv'
  <1> SUFFICES ASSUME TypeOK, ControlInv, CallInv, TimeInv, VisitedInv, [Next]_vars
               PROVE  VisitedInv'
    OBVIOUS
  <1> DEFINE Passed(a) ==
          pc[a] \in Looping =>
              \A i \in 1 .. N :
                  i < next[a] => Served(kind[a], started[a], CACHEABLE_SPECIALISTS[i])
             Spared(a) == refusal[a] \cap Visits(kind[a]) = {}
  <1> USE DEF TypeOK, Looping, rowVars, requestVars, readVars, workerVars
  <1>0. SUFFICES ASSUME NEW b \in Analyses PROVE Passed(b)' /\ Spared(b)'
    BY DEF VisitedInv
  <1>b. Passed(b) /\ Spared(b)
    BY DEF VisitedInv
  <1>1. ASSUME UNCHANGED <<cache, kind, started, next, refusal>>,
               pc'[b] \in Looping => pc[b] \in Looping
        PROVE  Passed(b)' /\ Spared(b)'
    BY <1>b, <1>1 DEF Served, Visits
  <1>2. ASSUME NEW a \in Analyses, NEW k \in Kinds, create_analysis(a, k)
        PROVE  Passed(b)' /\ Spared(b)'
    <2>1. CASE b = a
      BY <1>2, <2>1, SpecialistAt DEF create_analysis, ControlInv
    <2>2. CASE b # a
      BY <1>b, <1>2, <2>2 DEF create_analysis, Served, Visits
    <2> QED
      BY <2>1, <2>2
  <1>3. ASSUME NEW a \in Analyses, synthesize(a) PROVE Passed(b)' /\ Spared(b)'
    <2>1. CASE b = a
      BY <1>3, <2>1, KindAssumption DEF synthesize, ControlInv, Served, Visits
    <2>2. CASE b # a
      BY <1>b, <1>3, <2>2 DEF synthesize, Served, Visits
    <2> QED
      BY <2>1, <2>2
  <1>4. ASSUME NEW a \in Analyses, SkipOffScope(a) PROVE Passed(b)' /\ Spared(b)'
    <2>1. Served(kind[a], started[a], CACHEABLE_SPECIALISTS[next[a]])
      BY <1>4 DEF SkipOffScope, Visiting, forced, Served, Visits
    <2>2. Spared(b)'
      BY <1>b, <1>4 DEF SkipOffScope, Visits
    <2>3. Passed(b)'
      <3>1. /\ UNCHANGED <<cache, kind, started, pc>>
            /\ next[a] \in 1 .. N
            /\ next'[b] = IF b = a THEN next[b] + 1 ELSE next[b]
        BY <1>4 DEF SkipOffScope, Visiting, Advance
      <3>2. \A s : Served(kind[b], started[b], s)' <=> Served(kind[b], started[b], s)
        BY <3>1 DEF Served, Visits
      <3> QED
        BY <1>b, <2>1, <3>1, <3>2, SpecialistAt
    <2> QED
      BY <2>2, <2>3
  <1>5. ASSUME NEW a \in Analyses, CacheHit(a) PROVE Passed(b)' /\ Spared(b)'
    <2>1. Served(kind[a], started[a], CACHEABLE_SPECIALISTS[next[a]])
      BY <1>5 DEF CacheHit, Visiting, forced, Served, Visits, is_fresh
    <2>2. Spared(b)'
      BY <1>b, <1>5 DEF CacheHit, Visits
    <2>3. Passed(b)'
      <3>1. /\ UNCHANGED <<cache, kind, started, pc>>
            /\ next[a] \in 1 .. N
            /\ next'[b] = IF b = a THEN next[b] + 1 ELSE next[b]
        BY <1>5 DEF CacheHit, Visiting, Advance
      <3>2. \A s : Served(kind[b], started[b], s)' <=> Served(kind[b], started[b], s)
        BY <3>1 DEF Served, Visits
      <3> QED
        BY <1>b, <2>1, <3>1, <3>2, SpecialistAt
    <2> QED
      BY <2>2, <2>3
  <1>6. ASSUME NEW a \in Analyses, StartRun(a) PROVE Passed(b)' /\ Spared(b)'
    BY <1>1, <1>6 DEF StartRun, Visiting
  <1>7. ASSUME NEW a \in Analyses, NEW st \in RunStatus, FinishRun(a, st)
        PROVE  Passed(b)' /\ Spared(b)'
    BY <1>1, <1>7 DEF FinishRun
  <1>8. ASSUME NEW a \in Analyses, StoreRun(a) PROVE Passed(b)' /\ Spared(b)'
    <2>1. /\ next[a] \in 1 .. N /\ CACHEABLE_SPECIALISTS[next[a]] \in Specialists
          /\ unsaved[a] \in Runs
      BY <1>8, SpecialistAt DEF StoreRun, ControlInv
    <2>2. started[b] <= now
      BY DEF TimeInv
    <2>3. ASSUME NEW i \in 1 .. N, i < next[b] \/ i = next[a],
                 i < next[b] => Served(kind[b], started[b], CACHEABLE_SPECIALISTS[i])
          PROVE  Served(kind[b], started[b], CACHEABLE_SPECIALISTS[i])'
      <3>1. CACHEABLE_SPECIALISTS[i] \in Specialists
        BY SpecialistAt
      <3>2. Served(kind[b], started[b], CACHEABLE_SPECIALISTS[i])
            \/ CACHEABLE_SPECIALISTS[i] = CACHEABLE_SPECIALISTS[next[a]]
        BY <2>3
      <3>3. kind'[b] = kind[b] /\ started'[b] = started[b]
        BY <1>8 DEF StoreRun
      <3>4. cache' = upsert_cache(cache, CACHEABLE_SPECIALISTS[next[a]], unsaved[a], now)
        BY <1>8 DEF StoreRun
      <3>5. /\ cache'[CACHEABLE_SPECIALISTS[next[a]]].status # "missing"
            /\ cache'[CACHEABLE_SPECIALISTS[next[a]]].written = now
            /\ \A r \in Specialists : r # CACHEABLE_SPECIALISTS[next[a]] => cache'[r] = cache[r]
        BY <2>1, <3>4, RunWrites
      <3> QED
        BY <2>2, <3>1, <3>2, <3>3, <3>5 DEF Served, Visits
    <2>4. Spared(b)'
      BY <1>b, <1>8 DEF StoreRun, Visits
    <2>5. next'[b] = IF b = a THEN next[b] + 1 ELSE next[b]
      BY <1>8 DEF StoreRun, Advance
    <2>6. pc'[b] \in Looping => pc[b] \in Looping
      BY <1>8 DEF StoreRun
    <2>7. Passed(b)'
      BY <1>b, <2>1, <2>3, <2>5, <2>6, SpecialistAt
    <2> QED
      BY <2>4, <2>7
  <1>9. ASSUME NEW a \in Analyses, ReadPriors(a) PROVE Passed(b)' /\ Spared(b)'
    BY <1>1, <1>9 DEF ReadPriors
  <1>10. ASSUME NEW a \in Analyses, Blocked(a) PROVE Passed(b)' /\ Spared(b)'
    <2>1. pc[a] = "specialists" /\ next[a] = N + 1 /\ refusal'[a] = missing(cache)
      BY <1>10 DEF Blocked, VisitedAll
    <2>2. \A i \in 1 .. N : a = b => Served(kind[b], started[b], CACHEABLE_SPECIALISTS[i])
      BY <1>b, <2>1, SpecialistAt
    <2>3. a = b => missing(cache) \cap Visits(kind[b]) = {}
      BY <2>2, SpecialistAt DEF missing, Served
    <2>4. Spared(b)'
      BY <1>b, <1>10, <2>1, <2>3 DEF Blocked, Visits
    <2>5. Passed(b)'
      BY <1>b, <1>10 DEF Blocked, Served, Visits
    <2> QED
      BY <2>4, <2>5
  <1>11. ASSUME NEW a \in Analyses, Debate(a) PROVE Passed(b)' /\ Spared(b)'
    BY <1>1, <1>11 DEF Debate
  <1>12. ASSUME NEW a \in Analyses, NEW o \in DOMAIN AnalysisStatus, Publish(a, o)
         PROVE  Passed(b)' /\ Spared(b)'
    BY <1>1, <1>12 DEF Publish
  <1>13. ASSUME NEW a \in Analyses, Raises(a) PROVE Passed(b)' /\ Spared(b)'
    BY <1>1, <1>13 DEF Raises
  <1>14. ASSUME NEW c \in Callers, NEW s \in Specialists, NEW f \in BOOLEAN, StartCall(c, s, f)
         PROVE  Passed(b)' /\ Spared(b)'
    BY <1>1, <1>14 DEF StartCall
  <1>15. ASSUME NEW c \in Callers,
                CallRaises(c) \/ \E st \in RunStatus : FinishCall(c, st)
         PROVE  Passed(b)' /\ Spared(b)'
    BY <1>1, <1>15 DEF FinishCall, CallRaises
  <1>16. ASSUME NEW c \in Callers, StoreCall(c) PROVE Passed(b)' /\ Spared(b)'
    <2>1. calling[c] \in Specialists /\ unsaved[c] \in Runs
      BY <1>16 DEF StoreCall, CallInv
    <2>2. /\ cache' = upsert_cache(cache, calling[c], unsaved[c], now)
          /\ UNCHANGED <<kind, started, next, refusal, pc>>
      BY <1>16 DEF StoreCall
    <2>3. /\ cache'[calling[c]].status # "missing"
          /\ cache'[calling[c]].written = now
          /\ \A r \in Specialists : r # calling[c] => cache'[r] = cache[r]
      BY <2>1, <2>2, RunWrites
    <2>4. ASSUME NEW s \in Specialists, Served(kind[b], started[b], s)
          PROVE  Served(kind[b], started[b], s)'
      BY <2>2, <2>3, <2>4 DEF Served, TimeInv, Visits
    <2> QED
      BY <1>b, <2>2, <2>4, SpecialistAt DEF Visits
  <1>17. CASE Tick
    BY <1>1, <1>17 DEF Tick
  <1>18. ASSUME NEW W \in SUBSET Analyses, NEW C \in SUBSET Callers, Crash(W, C)
         PROVE  Passed(b)' /\ Spared(b)'
    BY <1>1, <1>18 DEF Crash
  <1>19. CASE UNCHANGED vars
    BY <1>1, <1>19 DEF vars
  <1> QED
    BY <1>2, <1>3, <1>4, <1>5, <1>6, <1>7, <1>8, <1>9, <1>10, <1>11, <1>12, <1>13, <1>14,
       <1>15, <1>16, <1>17, <1>18, <1>19 DEF Next, WorkerStep

\* A worker that may read the cache has, for every specialist, a row that is new
\* if its request forced it.
LEMMA AllServed ==
    ASSUME TypeOK, VisitedInv, NEW a \in Analyses, VisitedAll(a), NEW s \in Specialists
    PROVE  Served(kind[a], started[a], s)
  <1>1. PICK i \in 1 .. N : s = CACHEABLE_SPECIALISTS[i]
    BY SpecialistAt
  <1>2. i < next[a]
    BY SpecialistAt DEF VisitedAll
  <1> QED
    BY <1>1, <1>2 DEF VisitedInv, VisitedAll, Looping

\* What a worker read stays sound until it is written, whoever writes to the cache.
LEMMA PriorsStep ==
    TypeOK /\ ControlInv /\ VisitedInv /\ PriorsInv /\ [Next]_vars => PriorsInv'
  <1> SUFFICES ASSUME TypeOK, ControlInv, VisitedInv, PriorsInv, [Next]_vars
               PROVE  PriorsInv'
    OBVIOUS
  <1> DEFINE Read == {"debate", "synthesis", "done"}
             SoundFor(b) ==
                 /\ pc[b] \in Read =>
                       \A s \in Specialists :
                           Sound(kind[b], started[b], readAt[b], s, priors[b][s])
                 /\ pc[b] = "done" => evidence[b] = priors[b]
  <1> USE DEF TypeOK, rowVars, requestVars, readVars, workerVars
  <1>0. SUFFICES ASSUME NEW b \in Analyses PROVE SoundFor(b)'
    BY DEF PriorsInv
  <1>b. SoundFor(b)
    BY DEF PriorsInv
  <1>1. ASSUME UNCHANGED <<kind, started, readAt, priors, evidence>>,
               pc'[b] \in Read => pc[b] \in Read,
               pc'[b] = "done" => pc[b] = "done"
        PROVE  SoundFor(b)'
    BY <1>b, <1>1 DEF Sound
  <1>2. ASSUME NEW a \in Analyses, NEW k \in Kinds, create_analysis(a, k) PROVE SoundFor(b)'
    <2>1. CASE b = a
      BY <1>2, <2>1 DEF create_analysis
    <2>2. CASE b # a
      BY <1>b, <1>2, <2>2 DEF create_analysis, Sound
    <2> QED
      BY <2>1, <2>2
  <1>3. ASSUME NEW a \in Analyses, synthesize(a) PROVE SoundFor(b)'
    <2>1. CASE b = a
      BY <1>3, <2>1 DEF synthesize
    <2>2. CASE b # a
      BY <1>b, <1>3, <2>2 DEF synthesize, Sound
    <2> QED
      BY <2>1, <2>2
  <1>4. ASSUME NEW a \in Analyses, SkipOffScope(a) PROVE SoundFor(b)'
    BY <1>1, <1>4 DEF SkipOffScope
  <1>5. ASSUME NEW a \in Analyses, CacheHit(a) PROVE SoundFor(b)'
    BY <1>1, <1>5 DEF CacheHit
  <1>6. ASSUME NEW a \in Analyses, StartRun(a) PROVE SoundFor(b)'
    BY <1>1, <1>6 DEF StartRun
  <1>7. ASSUME NEW a \in Analyses, NEW st \in RunStatus, FinishRun(a, st) PROVE SoundFor(b)'
    BY <1>1, <1>7 DEF FinishRun
  <1>8. ASSUME NEW a \in Analyses, StoreRun(a) PROVE SoundFor(b)'
    BY <1>1, <1>8 DEF StoreRun
  <1>9. ASSUME NEW c \in Callers,
               StoreCall(c) \/ CallRaises(c) \/ \E st \in RunStatus : FinishCall(c, st)
        PROVE  SoundFor(b)'
    BY <1>1, <1>9 DEF FinishCall, StoreCall, CallRaises
  <1>10. ASSUME NEW a \in Analyses, ReadPriors(a) PROVE SoundFor(b)'
    <2>1. CASE b = a
      <3>1. /\ pc'[b] = "debate" /\ priors'[b] = cache /\ readAt'[b] = now
            /\ UNCHANGED <<cache, kind, started>>
        BY <1>10, <2>1 DEF ReadPriors
      <3>2. \A s \in Specialists : is_fresh(s, cache[s], now)
        BY <1>10, UsableRows DEF ReadPriors
      <3>3. \A s \in Specialists : kind[b] \in Events /\ s \in Scope[kind[b]] => cache[s].written >= started[b]
        BY <1>10, <2>1, AllServed DEF ReadPriors, Served, Visits
      <3>4. ASSUME NEW s \in Specialists
            PROVE  Sound(kind[b], started[b], readAt[b], s, priors[b][s])'
        <4>1. priors'[b][s] = cache[s]
          BY <3>1
        <4>2. is_fresh(s, cache[s], now)
          BY <3>2
        <4>3. cache'[s] = cache[s] /\ readAt'[b] = now /\ started'[b] = started[b] /\ kind'[b] = kind[b]
          BY <3>1
        <4> QED
          BY <3>3, <4>1, <4>2, <4>3 DEF Sound, is_fresh
      <3> QED
        BY <3>1, <3>4
    <2>2. CASE b # a
      BY <1>b, <1>10, <2>2 DEF ReadPriors, Sound
    <2> QED
      BY <2>1, <2>2
  <1>11. ASSUME NEW a \in Analyses, Blocked(a) PROVE SoundFor(b)'
    BY <1>1, <1>11 DEF Blocked
  <1>12. ASSUME NEW a \in Analyses, Debate(a) PROVE SoundFor(b)'
    BY <1>1, <1>12 DEF Debate
  <1>13. ASSUME NEW a \in Analyses, NEW o \in DOMAIN AnalysisStatus, Publish(a, o)
         PROVE  SoundFor(b)'
    <2>1. CASE b = a
      BY <1>b, <1>13, <2>1 DEF Publish, Sound
    <2>2. CASE b # a
      BY <1>b, <1>13, <2>2 DEF Publish, Sound
    <2> QED
      BY <2>1, <2>2
  <1>14. ASSUME NEW a \in Analyses, Raises(a) PROVE SoundFor(b)'
    BY <1>1, <1>14 DEF Raises
  <1>15. ASSUME NEW c \in Callers, NEW s \in Specialists, NEW f \in BOOLEAN, StartCall(c, s, f)
         PROVE  SoundFor(b)'
    BY <1>1, <1>15 DEF StartCall
  <1>16. CASE Tick
    BY <1>1, <1>16 DEF Tick
  <1>17. ASSUME NEW W \in SUBSET Analyses, NEW C \in SUBSET Callers, Crash(W, C)
         PROVE  SoundFor(b)'
    BY <1>1, <1>17 DEF Crash
  <1>18. CASE UNCHANGED vars
    BY <1>1, <1>18 DEF vars
  <1> QED
    BY <1>2, <1>3, <1>4, <1>5, <1>6, <1>7, <1>8, <1>9, <1>10, <1>11, <1>12, <1>13, <1>14, <1>15,
       <1>16, <1>17, <1>18 DEF Next, WorkerStep

------------------------------------------------------------------------------
(* The theorems. *)

THEOREM Invariance == Spec => []IInv
  <1>1. IInv /\ [Next]_vars => IInv'
    BY TypeStep, ControlStep, CallStep, TimeStep, VisitedStep, PriorsStep DEF IInv
  <1> QED
    BY InitIInv, <1>1, PTL DEF Spec

\* Every variable keeps its type: no worker runs past the last specialist, no row
\* gets a status the tables do not know.
THEOREM TypeCorrectness == Spec => []TypeOK
  <1>1. IInv => TypeOK
    BY DEF IInv
  <1> QED
    BY Invariance, <1>1, PTL

\* synthesize_from_cache never publishes an output it would have had to refuse.
THEOREM PublishesUsableEvidence == Spec => []EvidenceWasUsable
  <1>1. IInv => EvidenceWasUsable
    BY DEF IInv, ControlInv, PriorsInv, EvidenceWasUsable, Sound
  <1> QED
    BY Invariance, <1>1, PTL

\* The analysis an event triggered never rests, in the event's scope, on a row
\* that was there before the request.
THEOREM RefreshIsAboutTheEvent == Spec => []RefreshEvidenceIsNew
  <1>1. IInv => RefreshEvidenceIsNew
    BY ScopeAssumption DEF IInv, ControlInv, PriorsInv, RefreshEvidenceIsNew, Sound
  <1> QED
    BY Invariance, <1>1, PTL

\* A refusal names no specialist the worker was asked to run.
THEOREM RefusalIsHonest == Spec => []RefusalSparesVisited
  <1>1. IInv => RefusalSparesVisited
    BY DEF IInv, VisitedInv, RefusalSparesVisited
  <1> QED
    BY Invariance, <1>1, PTL

------------------------------------------------------------------------------
(* The pipeline implements Publication. *)

\* Every step of the pipeline is a step of Publication or changes nothing it sees:
\* completed runs write, requests open, reads choose, publications publish.
LEMMA StepSimulation == IInv /\ [Next]_vars => [Promise!Next]_(Promise!vars)
  <1> SUFFICES ASSUME IInv, [Next]_vars PROVE Promise!Next \/ UNCHANGED Promise!vars
    OBVIOUS
  <1> USE DEF IInv, TypeOK, rowVars, requestVars, readVars, workerVars
  <1>1. ASSUME UNCHANGED <<now, cache, priors, status, evidence>>
        PROVE  UNCHANGED Promise!vars
    BY <1>1 DEF Promise!vars
  <1>2. ASSUME NEW s \in Specialists, NEW run \in Runs, run.at <= now,
               cache' = upsert_cache(cache, s, run, now),
               UNCHANGED <<now, priors, status, evidence>>
        PROVE  Promise!Next
    <2>1. Promise!Write(s, run)
      BY <1>2 DEF Promise!Write, Promise!upsert_cache, upsert_cache
    <2>2. run \in [status : RunStatus, at : 0 .. now]
      BY <1>2 DEF Runs
    <2> QED
      BY <2>1, <2>2 DEF Promise!Next, Promise!Specialists, Specialists
  <1>3. ASSUME NEW a \in Analyses, NEW k \in Kinds, create_analysis(a, k) PROVE Promise!Next
    <2>1. Promise!Open(a)
      BY <1>3 DEF create_analysis, ControlInv, Promise!Open
    <2> QED
      BY <2>1 DEF Promise!Next
  <1>4. ASSUME NEW a \in Analyses, StoreRun(a) PROVE Promise!Next
    <2>1. /\ CACHEABLE_SPECIALISTS[next[a]] \in Specialists
          /\ unsaved[a] \in Runs /\ unsaved[a].at <= now
      BY <1>4, SpecialistAt DEF StoreRun, ControlInv, TimeInv
    <2> QED
      BY <1>2, <1>4, <2>1 DEF StoreRun
  <1>5. ASSUME NEW c \in Callers, StoreCall(c) PROVE Promise!Next
    <2>1. calling[c] \in Specialists /\ unsaved[c] \in Runs /\ unsaved[c].at <= now
      BY <1>5 DEF StoreCall, CallInv, TimeInv
    <2> QED
      BY <1>2, <1>5, <2>1 DEF StoreCall
  <1>6. ASSUME NEW a \in Analyses, ReadPriors(a) PROVE Promise!Next
    <2>1. priors[a] = Promise!NoRows
      BY <1>6 DEF ReadPriors, VisitedAll, ControlInv, Looping, NoRows, NoRow, Promise!NoRows,
         Promise!NoRow, Specialists, Promise!Specialists
    <2>2. Promise!Usable(cache, now)
      BY <1>6 DEF ReadPriors, Usable, missing, stale, is_fresh, Specialists, Promise!Usable,
         Promise!missing, Promise!stale, Promise!is_fresh, Promise!Specialists
    <2>3. status[a] \notin Promise!Verdict
      BY <1>6 DEF ReadPriors, VisitedAll, ControlInv, Published, Promise!Verdict
    <2>4. Promise!Choose(a)
      BY <1>6, <2>1, <2>2, <2>3 DEF ReadPriors, Promise!Choose
    <2> QED
      BY <2>4 DEF Promise!Next
  <1>7. ASSUME NEW a \in Analyses, NEW o \in DOMAIN AnalysisStatus, Publish(a, o)
        PROVE  Promise!Next
    <2>1. \A s \in Promise!Specialists : priors[a][s].status = "ok"
      BY <1>7 DEF Publish, PriorsInv, Sound, is_fresh, Specialists, Promise!Specialists
    <2>2. status[a] \notin Promise!Verdict
      BY <1>7 DEF Publish, ControlInv, Published, Promise!Verdict
    <2>3. AnalysisStatus[o] \in Promise!Verdict
      BY DEF AnalysisStatus, Promise!Verdict
    <2>4. Promise!Publish(a, AnalysisStatus[o])
      BY <1>7, <2>1, <2>2 DEF Publish, Promise!Publish
    <2> QED
      BY <2>3, <2>4 DEF Promise!Next
  <1>8. CASE Tick
    BY <1>8 DEF Tick, Promise!Next, Promise!Tick
  <1>9. ASSUME NEW a \in Analyses,
               synthesize(a) \/ SkipOffScope(a) \/ CacheHit(a) \/ StartRun(a) \/ Blocked(a)
               \/ Debate(a) \/ Raises(a) \/ \E st \in RunStatus : FinishRun(a, st)
        PROVE  UNCHANGED Promise!vars
    BY <1>1, <1>9
       DEF synthesize, SkipOffScope, CacheHit, StartRun, FinishRun, Blocked, Debate, Raises
  <1>10. ASSUME NEW c \in Callers,
                \/ \E s \in Specialists, f \in BOOLEAN : StartCall(c, s, f)
                \/ \E st \in RunStatus : FinishCall(c, st)
                \/ CallRaises(c)
         PROVE  UNCHANGED Promise!vars
    BY <1>1, <1>10 DEF StartCall, FinishCall, CallRaises
  <1>11. ASSUME NEW W \in SUBSET Analyses, NEW C \in SUBSET Callers, Crash(W, C)
         PROVE  UNCHANGED Promise!vars
    BY <1>1, <1>11 DEF Crash
  <1>12. CASE UNCHANGED vars
    BY <1>1, <1>12 DEF vars
  <1> QED
    BY <1>3, <1>4, <1>5, <1>6, <1>7, <1>8, <1>9, <1>10, <1>11, <1>12 DEF Next, WorkerStep

\* Whatever workers, callers and restarts do, each verdict is written once and
\* with the one snapshot its analysis was committed to.
THEOREM Implementation == Spec => KeepsPromise
  <1>1. Init => Promise!Init
    BY DEF Init, Promise!Init, NoRows, NoRow, Specialists, Promise!NoRows, Promise!NoRow,
       Promise!Specialists
  <1> QED
    BY Invariance, <1>1, StepSimulation, PTL DEF Spec, KeepsPromise, Promise!Spec

==============================================================================
