------------------------ MODULE EventDispatch_proofs ------------------------
(***************************************************************************)
(* Proofs about EventDispatch, for any processes, emitters, candidates,    *)
(* window, queue size, number of events and number of failures.            *)
(***************************************************************************)
EXTENDS EventDispatch, TLAPS, SequenceTheorems

------------------------------------------------------------------------------
(* Types, and where the handler is. *)

\* Between the handler's transactions there is an event in its hands, and after the
\* first of them the analysis that its process opened for that event.
HandlerInv ==
    /\ Len(task) = Len(analyses)
    /\ \A p \in Processes :
          /\ listener[p] \in {"precreate", "mark"} => handling[p] \in 1 .. Len(rows)
          /\ listener[p] = "mark" =>
                /\ opened[p] \in 1 .. Len(analyses)
                /\ analyses[opened[p]] = [event |-> handling[p], by |-> p]

TypeInv == TypeOK /\ HandlerInv

TaskState == {"none", "running", "ended", "raised", "lost"}

LEMMA RowType ==
    ASSUME TypeOK, NEW e \in Emitters, e \in busy
    PROVE  emitting[e] \in Row
  BY DEF TypeOK, busy

LEMMA Lengths ==
    ASSUME TypeOK
    PROVE  /\ Len(rows) \in Nat
           /\ Len(analyses) \in Nat
           /\ Len(task) \in Nat
           /\ \A p \in Processes : Len(feed[p]) \in Nat /\ Len(pending[p]) \in Nat
  BY LenProperties DEF TypeOK

LEMMA FunctionIsSeq ==
    ASSUME NEW S, NEW n \in Nat, NEW f \in [1 .. n -> S]
    PROVE  f \in Seq(S) /\ Len(f) = n
  OBVIOUS

LEMMA PutType ==
    ASSUME NEW S, NEW q \in Seq(S), NEW n \in S
    PROVE  put(q, n) \in Seq(S)
  <1>1. CASE Len(q) < max_queue_size
    BY <1>1, AppendProperties DEF put
  <1>2. CASE ~ (Len(q) < max_queue_size)
    <2>1. q # <<>>
      BY <1>2, QueueAssumption, EmptySeq
    <2> QED
      BY <1>2, <2>1, HeadTailProperties, AppendProperties DEF put
  <1> QED
    BY <1>1, <1>2

\* What publish does to the feeds, and that it keeps the broker's types.
LEMMA PublishType ==
    ASSUME TypeOK, NEW p \in Processes, NEW envelope \in Envelope, publish(p, envelope)
    PROVE  /\ feed' \in [Processes -> Seq(Envelope)]
           /\ Len(feed'[p]) = Len(feed[p]) + 1
           /\ \A m \in 1 .. Len(feed[p]) : feed'[p][m] = feed[p][m]
           /\ feed'[p][Len(feed'[p])] = envelope
           /\ \A r \in Processes \ {p} : feed'[r] = feed[r]
           /\ queue' \in [Subscribers -> Seq(Nat)]
           /\ UNCHANGED <<seen, subscribed>>
  <1> USE DEF TypeOK
  <1>1. feed[p] \in Seq(Envelope) /\ Len(feed[p]) \in Nat
    BY LenProperties
  <1>2. feed'[p] = Append(feed[p], envelope) /\ \A r \in Processes \ {p} : feed'[r] = feed[r]
    BY DEF publish
  <1>3. feed' \in [Processes -> Seq(Envelope)]
    BY <1>1, AppendProperties DEF publish
  <1>4. \A s \in Subscribers : put(queue[s], Len(feed[p]) + 1) \in Seq(Nat)
    BY <1>1, PutType
  <1> QED
    BY <1>1, <1>2, <1>3, <1>4, AppendProperties DEF publish

\* The steps that touch a sequence or a table, and what they leave of it.
LEMMA CommitAppends ==
    ASSUME TypeOK, NEW e \in Emitters, EmitCommits(e)
    PROVE  /\ rows' \in Seq(Row)
           /\ Len(rows') = Len(rows) + 1
           /\ \A i \in 1 .. Len(rows) : rows'[i] = rows[i]
           /\ LET row == rows'[Len(rows')] IN
                 /\ row.heard = {p \in Processes : listener[p] # "disconnected"}
                 /\ row.key = emitting[e].key
                 /\ row.at = emitting[e].at
                 /\ row.saw = emitting[e].saw
                 /\ row.analysis = emitting[e].analysis
           /\ pending' = [p \in Processes |->
                            IF p \in rows'[Len(rows')].heard
                            THEN Append(pending[p], Len(rows'))
                            ELSE pending[p]]
  <1> DEFINE heard == {p \in Processes : listener[p] # "disconnected"}
  <1> DEFINE row == [emitting[e] EXCEPT !.heard = heard]
  <1>1. emitting[e] \in Row
    BY RowType DEF EmitCommits
  <1>2. /\ row \in Row
        /\ row.heard = heard
        /\ row.key = emitting[e].key
        /\ row.at = emitting[e].at
        /\ row.saw = emitting[e].saw
        /\ row.analysis = emitting[e].analysis
    BY <1>1 DEF Row
  <1>3. /\ rows' = Append(rows, row)
        /\ pending' = [p \in Processes |->
                         IF p \in heard THEN Append(pending[p], Len(rows')) ELSE pending[p]]
    BY DEF EmitCommits
  <1> HIDE DEF row
  <1>4. rows \in Seq(Row)
    BY DEF TypeOK
  <1>5. /\ rows' \in Seq(Row)
        /\ Len(rows') = Len(rows) + 1
        /\ \A i \in 1 .. Len(rows) : rows'[i] = rows[i]
        /\ rows'[Len(rows')] = row
    BY <1>2, <1>3, <1>4, AppendProperties
  <1> QED
    BY <1>2, <1>3, <1>5

LEMMA TailOfPending ==
    ASSUME TypeOK, NEW p \in Processes, pending[p] # <<>>,
           pending' = [pending EXCEPT ![p] = Tail(@)]
    PROVE  /\ pending' \in [Processes -> Seq(1 .. Len(rows))]
           /\ 1 \in 1 .. Len(pending[p])
           /\ Head(pending[p]) = pending[p][1]
           /\ Head(pending[p]) \in 1 .. Len(rows)
           /\ Len(pending'[p]) = Len(pending[p]) - 1
           /\ \A n \in 1 .. Len(pending'[p]) :
                 n + 1 \in 1 .. Len(pending[p]) /\ pending'[p][n] = pending[p][n + 1]
           /\ \A r \in Processes \ {p} : pending'[r] = pending[r]
  <1>1. pending \in [Processes -> Seq(1 .. Len(rows))] /\ pending[p] \in Seq(1 .. Len(rows))
    BY DEF TypeOK
  <1>2. Len(pending[p]) \in Nat \ {0}
    BY <1>1, EmptySeq
  <1>3. /\ Tail(pending[p]) \in Seq(1 .. Len(rows))
        /\ Head(pending[p]) \in 1 .. Len(rows)
    BY <1>1, HeadTailProperties
  <1> QED
    BY <1>1, <1>2, <1>3, HeadTailProperties

LEMMA PrecreateAppends ==
    ASSUME TypeInv, NEW p \in Processes, Precreate(p)
    PROVE  /\ handling[p] \in 1 .. Len(rows)
           /\ analyses' \in Seq(Analysis)
           /\ Len(analyses') = Len(analyses) + 1
           /\ \A a \in 1 .. Len(analyses) : analyses'[a] = analyses[a] /\ task'[a] = task[a]
           /\ analyses'[Len(analyses')] = [event |-> handling[p], by |-> p]
           /\ task' \in Seq(TaskState)
           /\ Len(task') = Len(analyses')
           /\ task'[Len(analyses')] = "none"
  <1> USE DEF TypeInv, TypeOK, HandlerInv, Precreate, Opens
  <1>1. handling[p] \in 1 .. Len(rows) /\ handling[p] \in Nat
    BY LenProperties
  <1>2. [event |-> handling[p], by |-> p] \in Analysis
    BY <1>1 DEF Analysis
  <1>3. /\ analyses' \in Seq(Analysis)
        /\ Len(analyses') = Len(analyses) + 1
        /\ \A a \in 1 .. Len(analyses) : analyses'[a] = analyses[a]
        /\ analyses'[Len(analyses) + 1] = [event |-> handling[p], by |-> p]
    BY <1>2, AppendProperties
  <1>4. /\ task' \in Seq(TaskState)
        /\ Len(task') = Len(task) + 1
        /\ \A a \in 1 .. Len(task) : task'[a] = task[a]
        /\ task'[Len(task) + 1] = "none"
    BY AppendProperties DEF TaskState
  <1> QED
    BY <1>1, <1>3, <1>4

\* The mark on a row is all that ever changes of it.
LEMMA MarkKeepsRows ==
    ASSUME TypeInv, NEW p \in Processes, Mark(p)
    PROVE  /\ handling[p] \in 1 .. Len(rows)
           /\ opened[p] \in 1 .. Len(analyses)
           /\ analyses[opened[p]].event = handling[p]
           /\ rows' \in Seq(Row)
           /\ Len(rows') = Len(rows)
           /\ \A i \in 1 .. Len(rows) : /\ rows'[i].key = rows[i].key
                                        /\ rows'[i].at = rows[i].at
                                        /\ rows'[i].saw = rows[i].saw
                                        /\ rows'[i].heard = rows[i].heard
                                        /\ i # handling[p] => rows'[i] = rows[i]
           /\ rows'[handling[p]].analysis = opened[p]
           /\ task' \in Seq(TaskState)
           /\ Len(task') = Len(task)
           /\ \A a \in 1 .. Len(analyses) :
                 task'[a] = IF a = opened[p] THEN "running" ELSE task[a]
  <1> DEFINE h == handling[p]
             row == [rows[h] EXCEPT !.analysis = opened[p]]
  <1>1. /\ h \in 1 .. Len(rows)
        /\ opened[p] \in 1 .. Len(analyses)
        /\ opened[p] \in Nat
        /\ analyses[opened[p]].event = h
        /\ Len(task) = Len(analyses)
    <2>1. listener[p] = "mark" /\ Len(analyses) \in Nat
      BY Lengths DEF Mark, Marks, TypeInv
    <2>2. /\ handling[p] \in 1 .. Len(rows)
          /\ opened[p] \in 1 .. Len(analyses)
          /\ analyses[opened[p]] = [event |-> handling[p], by |-> p]
          /\ Len(task) = Len(analyses)
      BY <2>1 DEF TypeInv, HandlerInv
    <2> QED
      BY <2>1, <2>2
  <1>2. rows \in Seq(Row) /\ \A i \in 1 .. Len(rows) : rows[i] \in Row
    BY ElementOfSeq DEF TypeInv, TypeOK
  <1>3. rows' = [rows EXCEPT ![h] = row]
    BY DEF Mark, Marks
  <1>4. /\ row \in Row
        /\ row.key = rows[h].key
        /\ row.at = rows[h].at
        /\ row.saw = rows[h].saw
        /\ row.heard = rows[h].heard
        /\ row.analysis = opened[p]
    BY <1>1, <1>2 DEF Row
  <1> HIDE DEF row, h
  <1>5. /\ rows' \in Seq(Row)
        /\ Len(rows') = Len(rows)
        /\ \A i \in 1 .. Len(rows) : rows'[i] = IF i = h THEN row ELSE rows[i]
    BY <1>1, <1>2, <1>3, <1>4, ExceptSeq
  <1>6. /\ task' \in Seq(TaskState)
        /\ Len(task') = Len(task)
        /\ \A a \in 1 .. Len(analyses) : task'[a] = IF a = opened[p] THEN "running" ELSE task[a]
    <2>1. task \in Seq(TaskState) /\ task' = [task EXCEPT ![opened[p]] = "running"]
      BY DEF Mark, TypeInv, TypeOK, TaskState
    <2>2. "running" \in TaskState
      BY DEF TaskState
    <2> QED
      BY <1>1, <2>1, <2>2, ExceptSeq
  <1> QED
    BY <1>1, <1>4, <1>5, <1>6 DEF h

\* A task ends or is cut short, and has been started.
LEMMA TasksEnd ==
    ASSUME TypeInv,
           \/ \E a \in 1 .. Len(analyses) : FinishRun(a) \/ RunRaises(a)
           \/ \E p \in Processes : Crash(p)
    PROVE  /\ UNCHANGED <<rows, analyses>>
           /\ task' \in Seq(TaskState)
           /\ Len(task') = Len(task)
           /\ \A a \in 1 .. Len(analyses) : task'[a] = "none" <=> task[a] = "none"
  <1> USE DEF TypeInv, TypeOK, HandlerInv, TaskState
  <1>1. ASSUME NEW a \in 1 .. Len(analyses), NEW state \in {"ended", "raised"},
               task[a] = "running", task' = [task EXCEPT ![a] = state]
        PROVE  /\ task' \in Seq(TaskState)
               /\ Len(task') = Len(task)
               /\ \A b \in 1 .. Len(analyses) : task'[b] = "none" <=> task[b] = "none"
    BY <1>1, ExceptSeq
  <1>2. ASSUME NEW a \in 1 .. Len(analyses), FinishRun(a) \/ RunRaises(a)
        PROVE  /\ UNCHANGED <<rows, analyses>>
               /\ task[a] = "running"
               /\ \E state \in {"ended", "raised"} : task' = [task EXCEPT ![a] = state]
    BY <1>2 DEF FinishRun, RunRaises, emitVars
  <1>3. ASSUME NEW p \in Processes, Crash(p)
        PROVE  /\ UNCHANGED <<rows, analyses>>
               /\ task' \in Seq(TaskState)
               /\ Len(task') = Len(task)
               /\ \A a \in 1 .. Len(analyses) : task'[a] = "none" <=> task[a] = "none"
    <2> DEFINE cut == {a \in DOMAIN task : task[a] = "running" /\ analyses[a].by = p}
    <2>1. /\ UNCHANGED <<rows, analyses>>
          /\ task' = [a \in DOMAIN task |-> IF a \in cut THEN "lost" ELSE task[a]]
      BY <1>3 DEF Crash
    <2>2. /\ Len(task) \in Nat
          /\ DOMAIN task = 1 .. Len(task)
          /\ task \in [1 .. Len(task) -> TaskState]
      BY LenProperties
    <2>3. \A a \in cut : task[a] = "running"
      OBVIOUS
    <2> HIDE DEF cut
    <2>4. /\ task' \in [1 .. Len(task) -> TaskState]
          /\ \A a \in 1 .. Len(task) : task'[a] = "none" <=> task[a] = "none"
      BY <2>1, <2>2, <2>3
    <2>5. task' \in Seq(TaskState) /\ Len(task') = Len(task)
      BY ONLY <2>2, <2>4, FunctionIsSeq
    <2> QED
      BY <2>1, <2>4, <2>5
  <1> QED
    BY <1>1, <1>2, <1>3

\* A failure empties the hands of its process.
LEMMA FailuresLose ==
    ASSUME TypeInv, NEW p \in Processes, Drop(p) \/ Crash(p)
    PROVE  /\ listener' = [listener EXCEPT ![p] = "disconnected"]
           /\ handling' = [handling EXCEPT ![p] = 0]
           /\ opened' = [opened EXCEPT ![p] = 0]
           /\ pending' = [pending EXCEPT ![p] = <<>>]
           /\ failures' = failures + 1
           /\ lost' \subseteq Processes \X Nat
           /\ UNCHANGED <<now, rows, emitting, analyses, feed>>
  <1> USE DEF TypeInv, TypeOK
  <1>1. inHand(p) \subseteq Nat
    BY LenProperties DEF inHand
  <1>2. ASSUME NEW a \in 1 .. Len(analyses) PROVE analyses[a].event \in Nat
    <2>1. analyses[a] \in Analysis
      BY ElementOfSeq
    <2> QED
      BY <2>1 DEF Analysis
  <1>3. CASE Drop(p)
    BY <1>1, <1>3 DEF Drop, Disconnected, Fails, runVars, brokerVars
  <1>4. CASE Crash(p)
    <2> DEFINE cut == {a \in DOMAIN task : task[a] = "running" /\ analyses[a].by = p}
    <2>1. \A a \in cut : analyses[a].event \in Nat
      BY <1>2, LenProperties DEF HandlerInv
    <2>2. Fails(p, inHand(p) \cup {analyses[a].event : a \in cut}) /\ Disconnected(p)
      BY <1>4 DEF Crash
    <2> HIDE DEF cut
    <2>3. inHand(p) \cup {analyses[a].event : a \in cut} \subseteq Nat
      BY <1>1, <2>1
    <2> QED
      BY <1>4, <2>2, <2>3 DEF Crash, Disconnected, Fails
  <1> QED
    BY <1>3, <1>4

LEMMA InitTypeInv == Init => TypeInv
  BY EmptySeq DEF Init, TypeInv, TypeOK, HandlerInv, NoRow

LEMMA NextTypeInv == TypeInv /\ [Next]_vars => TypeInv'
  <1> SUFFICES ASSUME TypeInv, [Next]_vars PROVE TypeInv'
    OBVIOUS
  <1> USE DEF TypeInv, TypeOK, HandlerInv
  <1>a. /\ Len(rows) \in Nat
        /\ Len(analyses) \in Nat
        /\ Len(task) \in Nat
        /\ \A p \in Processes : Len(feed[p]) \in Nat /\ Len(pending[p]) \in Nat
    BY Lengths
  <1>1. ASSUME NEW e \in Emitters, NEW c \in Candidates, NEW o \in Orders, EmitReads(e, c, o)
        PROVE  TypeInv'
    <2>1. [key |-> dedupe_key(c, o), at |-> now, saw |-> Len(rows), analysis |-> 0,
           heard |-> {}] \in Row
      BY <1>a DEF Row, EventCandidate, dedupe_key
    <2> QED
      BY <1>1, <2>1 DEF EmitReads, listenVars, runVars, brokerVars, failVars
  <1>2. ASSUME NEW e \in Emitters, EmitCommits(e) PROVE TypeInv'
    <2>1. rows' \in Seq(Row) /\ Len(rows') = Len(rows) + 1
      BY <1>2, CommitAppends
    <2>2. /\ 1 .. Len(rows) \subseteq 1 .. Len(rows')
          /\ Len(rows') \in 1 .. Len(rows')
      BY <1>a, <2>1
    <2>3. pending' \in [Processes -> Seq(1 .. Len(rows'))]
      <3>1. ASSUME NEW p \in Processes
            PROVE  /\ pending[p] \in Seq(1 .. Len(rows'))
                   /\ Append(pending[p], Len(rows')) \in Seq(1 .. Len(rows'))
        <4>1. pending[p] \in Seq(1 .. Len(rows))
          OBVIOUS
        <4>2. pending[p] \in Seq(1 .. Len(rows'))
          BY ONLY <2>2, <4>1, SeqMonotonic
        <4> QED
          BY ONLY <2>2, <4>2, AppendProperties
      <3>2. pending' = [p \in Processes |->
                          IF p \in rows'[Len(rows')].heard
                          THEN Append(pending[p], Len(rows'))
                          ELSE pending[p]]
        BY <1>2, CommitAppends
      <3> QED
        BY ONLY <3>1, <3>2
    <2>4. emitting' \in [Emitters -> Row \cup {NoRow}]
      BY <1>2 DEF EmitCommits
    <2> QED
      BY <1>2, <1>a, <2>1, <2>3, <2>4 DEF EmitCommits, listenVars, runVars, brokerVars, failVars
  <1>3. ASSUME NEW e \in Emitters, EmitFails(e) PROVE TypeInv'
    BY <1>3 DEF EmitFails, listenVars, runVars, brokerVars, failVars
  <1>4. ASSUME NEW s \in Subscribers, subscribe(s) PROVE TypeInv'
    <2>1. Len(feed[server[s]]) \in Nat
      BY <1>a, ServerAssumption
    <2> QED
      BY <1>4, <2>1, EmptySeq DEF subscribe, emitVars, listenVars, runVars, failVars
  <1>5. ASSUME NEW s \in Subscribers, unsubscribe(s) PROVE TypeInv'
    BY <1>5, EmptySeq DEF unsubscribe, Leave, emitVars, listenVars, runVars, failVars
  <1>6. ASSUME NEW s \in Subscribers, Receive(s) PROVE TypeInv'
    <2>1. Head(queue[s]) \in Nat /\ Tail(queue[s]) \in Seq(Nat)
      BY <1>6, HeadTailProperties DEF Receive
    <2> QED
      BY <1>6, <2>1 DEF Receive, emitVars, listenVars, runVars, failVars
  <1>7. ASSUME NEW p \in Processes, Connect(p) PROVE TypeInv'
    BY <1>7 DEF Connect, emitVars, runVars, brokerVars, failVars
  <1>8. ASSUME NEW p \in Processes, Load(p) PROVE TypeInv'
    <2> DEFINE i == Head(pending[p])
    <2>1. i \in 1 .. Len(rows) /\ pending' \in [Processes -> Seq(1 .. Len(rows))]
      BY <1>8, TailOfPending DEF Load
    <2>2. [kind |-> "event", event |-> i] \in Envelope
      BY <1>a, <2>1 DEF Envelope
    <2>3. publish(p, [kind |-> "event", event |-> i])
      BY <1>8 DEF Load
    <2>4. /\ feed' \in [Processes -> Seq(Envelope)]
          /\ queue' \in [Subscribers -> Seq(Nat)]
          /\ UNCHANGED <<seen, subscribed>>
      BY <2>2, <2>3, PublishType
    <2>5. /\ UNCHANGED <<now, rows, emitting, opened, analyses, task, failures, lost>>
          /\ \/ listener' = [listener EXCEPT ![p] = "precreate"] /\ handling' = [handling EXCEPT ![p] = i]
             \/ UNCHANGED <<listener, handling>>
      BY <1>8 DEF Load, runVars, failVars
    <2>6. HandlerInv'
      BY <2>1, <2>5
    <2>7. /\ listener' \in [Processes -> {"disconnected", "listening", "precreate", "mark"}]
          /\ handling' \in [Processes -> 0 .. Len(rows)]
      <3>1. i \in 0 .. Len(rows)
        BY <1>a, <2>1
      <3> HIDE DEF i
      <3> QED
        BY <2>5, <3>1
    <2> QED
      BY <2>1, <2>4, <2>5, <2>6, <2>7
  <1>9. ASSUME NEW p \in Processes, Precreate(p) PROVE TypeInv'
    <2>1. /\ UNCHANGED <<now, emitVars, handling, brokerVars, failVars>>
          /\ opened' = [opened EXCEPT ![p] = Len(analyses) + 1]
          /\ listener' = [listener EXCEPT ![p] = "mark"]
      BY <1>9 DEF Precreate, Opens
    <2>2. /\ handling[p] \in 1 .. Len(rows)
          /\ analyses' \in Seq(Analysis)
          /\ Len(analyses') = Len(analyses) + 1
          /\ \A a \in 1 .. Len(analyses) : analyses'[a] = analyses[a]
          /\ analyses'[Len(analyses')] = [event |-> handling[p], by |-> p]
          /\ task' \in Seq(TaskState)
          /\ Len(task') = Len(analyses')
      BY <1>9, PrecreateAppends
    <2>3. opened' \in [Processes -> 0 .. Len(analyses')]
      BY <1>a, <2>1, <2>2
    <2>4. HandlerInv'
      BY <1>a, <2>1, <2>2 DEF emitVars
    <2> QED
      BY <2>1, <2>2, <2>3, <2>4 DEF emitVars, brokerVars, failVars, TaskState
  <1>10. ASSUME NEW p \in Processes, Mark(p) PROVE TypeInv'
    <2>1. /\ rows' \in Seq(Row)
          /\ Len(rows') = Len(rows)
          /\ task' \in Seq(TaskState)
          /\ Len(task') = Len(task)
      BY <1>10, MarkKeepsRows
    <2> QED
      BY <1>10, <1>a, <2>1 DEF Mark, Marks, brokerVars, failVars, TaskState
  <1>11. ASSUME NEW a \in 1 .. Len(analyses), FinishRun(a) PROVE TypeInv'
    <2>1. analyses[a] \in Analysis
      BY ElementOfSeq
    <2>2. /\ analyses[a].by \in Processes
          /\ [kind |-> "analysis_updated", event |-> analyses[a].event] \in Envelope
      BY <2>1 DEF Envelope, Analysis
    <2>3. publish(analyses[a].by, [kind |-> "analysis_updated", event |-> analyses[a].event])
      BY <1>11 DEF FinishRun
    <2>4. /\ feed' \in [Processes -> Seq(Envelope)]
          /\ queue' \in [Subscribers -> Seq(Nat)]
          /\ UNCHANGED <<seen, subscribed>>
      BY <2>2, <2>3, PublishType
    <2>5. task' \in Seq(TaskState) /\ Len(task') = Len(task)
      BY <1>11, TasksEnd
    <2> QED
      BY <1>11, <2>4, <2>5 DEF FinishRun, emitVars, listenVars, failVars, TaskState
  <1>12. ASSUME NEW a \in 1 .. Len(analyses), RunRaises(a) PROVE TypeInv'
    <2>1. task' \in Seq(TaskState) /\ Len(task') = Len(task)
      BY <1>12, TasksEnd
    <2> QED
      BY <1>12, <2>1 DEF RunRaises, emitVars, listenVars, brokerVars, failVars, TaskState
  <1>13. ASSUME NEW p \in Processes, LoadFails(p) PROVE TypeInv'
    <2>1. pending[p] # <<>> /\ pending' = [pending EXCEPT ![p] = Tail(@)]
      BY <1>13 DEF LoadFails
    <2>2. Head(pending[p]) \in 1 .. Len(rows) /\ pending' \in [Processes -> Seq(1 .. Len(rows))]
      BY <2>1, TailOfPending
    <2>3. Head(pending[p]) \in Nat
      BY <1>a, <2>2
    <2> QED
      BY <1>13, <2>2, <2>3 DEF LoadFails, Fails, listenVars, runVars, brokerVars
  <1>14. ASSUME NEW p \in Processes, Drop(p) PROVE TypeInv'
    <2>1. UNCHANGED <<task, queue, seen, subscribed>>
      BY <1>14 DEF Drop, runVars, brokerVars
    <2>2. /\ listener' = [listener EXCEPT ![p] = "disconnected"]
          /\ handling' = [handling EXCEPT ![p] = 0]
          /\ opened' = [opened EXCEPT ![p] = 0]
          /\ pending' = [pending EXCEPT ![p] = <<>>]
          /\ failures' = failures + 1
          /\ lost' \subseteq Processes \X Nat
          /\ UNCHANGED <<now, rows, emitting, analyses, feed>>
      BY <1>14, FailuresLose
    <2>3. HandlerInv'
      BY <2>1, <2>2
    <2> QED
      BY <1>a, <2>1, <2>2, <2>3, EmptySeq
  <1>15. ASSUME NEW p \in Processes, Crash(p) PROVE TypeInv'
    <2>1. /\ queue' \in [Subscribers -> Seq(Nat)]
          /\ seen' \in [Subscribers -> Nat]
          /\ subscribed' \subseteq Subscribers
      BY <1>15, EmptySeq DEF Crash, Leave
    <2>2. task' \in Seq(TaskState) /\ Len(task') = Len(task)
      BY <1>15, TasksEnd
    <2>3. /\ listener' = [listener EXCEPT ![p] = "disconnected"]
          /\ handling' = [handling EXCEPT ![p] = 0]
          /\ opened' = [opened EXCEPT ![p] = 0]
          /\ pending' = [pending EXCEPT ![p] = <<>>]
          /\ failures' = failures + 1
          /\ lost' \subseteq Processes \X Nat
          /\ UNCHANGED <<now, rows, emitting, analyses, feed>>
      BY <1>15, FailuresLose
    <2>4. HandlerInv'
      BY <2>2, <2>3
    <2> QED
      BY <1>a, <2>1, <2>2, <2>3, <2>4, EmptySeq DEF TaskState
  <1>16. CASE Tick
    BY <1>16 DEF Tick, emitVars, listenVars, runVars, brokerVars, failVars
  <1>17. CASE UNCHANGED vars
    BY <1>17 DEF vars, emitVars, listenVars, runVars, brokerVars, failVars
  <1> QED
    BY <1>1, <1>2, <1>3, <1>4, <1>5, <1>6, <1>7, <1>8, <1>9, <1>10, <1>11, <1>12, <1>13,
       <1>14, <1>15, <1>16, <1>17 DEF Next, ListenerStep

\* The types of the state are kept, and each handler always has the event and the
\* analysis that its next transaction needs.
THEOREM DispatchTypes == Spec => []TypeInv
  BY InitTypeInv, NextTypeInv, PTL DEF Spec

\* Every variable of emission, listeners and brokers keeps its type.
THEOREM DispatchTypeCorrectness == Spec => []TypeOK
  <1>1. TypeInv => TypeOK
    BY DEF TypeInv
  <1> QED
    BY DispatchTypes, <1>1, PTL

------------------------------------------------------------------------------
(* The debounce. *)

\* A row about to be inserted is apart from every row its emitter could see.
EmittingInv ==
    \A e \in busy :
        /\ emitting[e].analysis = 0
        /\ emitting[e].saw \in 0 .. Len(rows)
        /\ \A i \in 1 .. emitting[e].saw :
              rows[i].key = emitting[e].key => emitting[e].at - rows[i].at > DEBOUNCE_WINDOW

DebounceInv == EmittingInv /\ DebounceHolds

LEMMA NextDebounceInv ==
    ASSUME TypeInv, DebounceInv, [Next]_vars
    PROVE  DebounceInv'
  <1> USE DEF TypeInv, TypeOK, DebounceInv, EmittingInv, DebounceHolds, busy
  <1>a. Len(rows) \in Nat /\ \A i \in 1 .. Len(rows) : rows[i] \in Row
    BY LenProperties, ElementOfSeq
  <1>1. ASSUME NEW e \in Emitters, NEW c \in Candidates, NEW o \in Orders, EmitReads(e, c, o)
        PROVE  DebounceInv'
    <2>1. rows' = rows
      BY <1>1 DEF EmitReads
    <2>2. /\ emitting'[e].analysis = 0
          /\ emitting'[e].saw = Len(rows)
          /\ emitting'[e].key = dedupe_key(c, o)
          /\ emitting'[e].at = now
      BY <1>1 DEF EmitReads
    <2>3. \A f \in Emitters \ {e} : emitting'[f] = emitting[f]
      BY <1>1 DEF EmitReads
    <2>4. ASSUME NEW i \in 1 .. Len(rows), rows[i].key = dedupe_key(c, o)
          PROVE  now - rows[i].at > DEBOUNCE_WINDOW
      <3>1. rows[i].at \in Nat
        BY <1>a DEF Row
      <3>2. ~ (rows[i].at >= now - DEBOUNCE_WINDOW)
        BY <1>1, <2>4 DEF EmitReads, debounced
      <3> QED
        BY <3>1, <3>2, WindowAssumption
    <2>5. ASSUME NEW f \in busy'
          PROVE  /\ emitting'[f].analysis = 0
                 /\ emitting'[f].saw \in 0 .. Len(rows')
                 /\ \A i \in 1 .. emitting'[f].saw :
                       rows'[i].key = emitting'[f].key
                          => emitting'[f].at - rows'[i].at > DEBOUNCE_WINDOW
      <3>1. CASE f = e
        BY <1>a, <2>1, <2>2, <2>4, <3>1
      <3>2. CASE f # e
        BY <2>1, <2>3, <2>5, <3>2
      <3> QED
        BY <3>1, <3>2
    <2> QED
      BY <2>1, <2>5
  <1>2. ASSUME NEW e \in Emitters, EmitCommits(e) PROVE DebounceInv'
    <2>1. emitting[e] \in Row
      BY <1>2, RowType DEF EmitCommits
    <2>2. /\ Len(rows') = Len(rows) + 1
          /\ \A i \in 1 .. Len(rows) : rows'[i] = rows[i]
          /\ rows'[Len(rows) + 1].key = emitting[e].key
          /\ rows'[Len(rows) + 1].at = emitting[e].at
          /\ rows'[Len(rows) + 1].saw = emitting[e].saw
      BY <1>2, CommitAppends
    <2>3. \A f \in Emitters : f # e => emitting'[f] = emitting[f]
      BY <1>2 DEF EmitCommits
    <2>4. emitting'[e] = NoRow
      BY <1>2 DEF EmitCommits
    <2>5. ASSUME NEW f \in busy'
          PROVE  /\ emitting'[f].analysis = 0
                 /\ emitting'[f].saw \in 0 .. Len(rows')
                 /\ \A i \in 1 .. emitting'[f].saw :
                       rows'[i].key = emitting'[f].key
                          => emitting'[f].at - rows'[i].at > DEBOUNCE_WINDOW
      <3>1. f \in busy /\ emitting'[f] = emitting[f]
        BY <2>3, <2>4, <2>5
      <3>2. /\ emitting[f].analysis = 0
            /\ emitting[f].saw \in 0 .. Len(rows)
            /\ \A i \in 1 .. emitting[f].saw :
                  rows[i].key = emitting[f].key => emitting[f].at - rows[i].at > DEBOUNCE_WINDOW
        BY <3>1
      <3>3. \A i \in 1 .. emitting[f].saw : i \in 1 .. Len(rows) /\ rows'[i] = rows[i]
        BY <1>a, <2>2, <3>2
      <3>4. emitting[f].saw \in 0 .. Len(rows')
        <4>1. Len(rows') = Len(rows) + 1
          BY <2>2
        <4> QED
          BY ONLY <1>a, <3>2, <4>1
      <3> QED
        BY <3>1, <3>2, <3>3, <3>4
    <2>6. DebounceHolds'
      <3> SUFFICES ASSUME NEW i \in 1 .. Len(rows'), NEW j \in 1 .. Len(rows'), i < j,
                          rows'[i].key = rows'[j].key,
                          rows'[j].at - rows'[i].at <= DEBOUNCE_WINDOW
                   PROVE  rows'[j].saw < i
        OBVIOUS
      <3>1. CASE j \in 1 .. Len(rows)
        <4>1. i \in 1 .. Len(rows) /\ rows'[i] = rows[i] /\ rows'[j] = rows[j]
          BY <1>a, <2>2, <3>1
        <4> QED
          BY <3>1, <4>1
      <3>2. CASE j = Len(rows) + 1
        <4>1. /\ i \in 1 .. Len(rows)
              /\ rows'[i] = rows[i]
              /\ rows'[j].key = emitting[e].key
              /\ rows'[j].at = emitting[e].at
              /\ rows'[j].saw = emitting[e].saw
          BY <1>a, <2>2, <3>2
        <4>2. emitting[e].saw \in 0 .. Len(rows)
          BY <1>2 DEF EmitCommits
        <4>3. ~ (emitting[e].at - rows[i].at > DEBOUNCE_WINDOW)
          <5>1. emitting[e].at \in Nat /\ rows[i].at \in Nat
            BY <1>a, <2>1, <4>1 DEF Row
          <5>2. emitting[e].at - rows[i].at <= DEBOUNCE_WINDOW
            BY <4>1
          <5> QED
            BY <5>1, <5>2, WindowAssumption
        <4>4. i \notin 1 .. emitting[e].saw
          BY <1>2, <4>1, <4>3 DEF EmitCommits
        <4> QED
          BY <1>a, <4>1, <4>2, <4>4
      <3>3. j \in 1 .. Len(rows) \/ j = Len(rows) + 1
        <4>1. Len(rows') = Len(rows) + 1 /\ j \in 1 .. Len(rows')
          BY <2>2
        <4> QED
          BY ONLY <1>a, <4>1
      <3> QED
        BY <3>1, <3>2, <3>3
    <2> QED
      BY <2>5, <2>6
  <1>3. ASSUME NEW e \in Emitters, EmitFails(e) PROVE DebounceInv'
    BY <1>3 DEF EmitFails
  <1>4. ASSUME NEW p \in Processes, Mark(p) PROVE DebounceInv'
    <2>1. emitting' = emitting
      BY <1>4 DEF Mark, Marks
    <2>2. EmittingInv'
      <3> SUFFICES ASSUME NEW f \in busy
                   PROVE  /\ emitting[f].analysis = 0
                          /\ emitting[f].saw \in 0 .. Len(rows')
                          /\ \A i \in 1 .. emitting[f].saw :
                                rows'[i].key = emitting[f].key
                                   => emitting[f].at - rows'[i].at > DEBOUNCE_WINDOW
        BY <2>1
      <3>1. \A i \in 1 .. emitting[f].saw : i \in 1 .. Len(rows)
        BY <1>a
      <3> QED
        BY <1>4, <3>1, MarkKeepsRows
    <2>3. DebounceHolds'
      BY <1>4, MarkKeepsRows
    <2> QED
      BY <2>2, <2>3
  <1>5. CASE UNCHANGED <<rows, emitting>>
    BY <1>5
  <1>6. \/ \E e \in Emitters : \/ \E c \in Candidates, o \in Orders : EmitReads(e, c, o)
                               \/ EmitCommits(e)
                               \/ EmitFails(e)
        \/ \E p \in Processes : Mark(p)
        \/ UNCHANGED <<rows, emitting>>
    BY DEF Next, vars, ListenerStep, subscribe, unsubscribe, Receive, Connect, Load, Precreate,
           Opens, FinishRun, RunRaises, LoadFails, Drop, Crash, Tick, emitVars
  <1> QED
    BY <1>1, <1>2, <1>3, <1>4, <1>5, <1>6

\* Two rows with one key within the window: the emitter of the later one looked
\* before the earlier one was there.
THEOREM DebounceWorks == Spec => []DebounceHolds
  <1>1. Init => DebounceInv
    BY DEF Init, DebounceInv, EmittingInv, DebounceHolds, busy
  <1>2. TypeInv /\ DebounceInv /\ [Next]_vars => DebounceInv'
    BY NextDebounceInv
  <1>3. DebounceInv => DebounceHolds
    BY DEF DebounceInv
  <1> QED
    BY DispatchTypes, <1>1, <1>2, <1>3, PTL DEF Spec

------------------------------------------------------------------------------
(* What an event costs. *)

\* Each process handles events in the order of their rows: what waits is in order, and
\* behind everything that was handled before.  What it handles, it was notified of.
OrderInv ==
    /\ \A p \in Processes :
          /\ \A m, n \in 1 .. Len(pending[p]) : m < n => pending[p][m] < pending[p][n]
          /\ \A n \in 1 .. Len(pending[p]) :
                handling[p] < pending[p][n] /\ p \in rows[pending[p][n]].heard
          /\ listener[p] = "precreate" => p \in rows[handling[p]].heard
    /\ \A a \in 1 .. Len(analyses) :
          LET i == analyses[a].event  p == analyses[a].by IN
          /\ i \in 1 .. Len(rows)
          /\ p \in Processes
          /\ p \in rows[i].heard
          /\ \A n \in 1 .. Len(pending[p]) : i < pending[p][n]
          /\ listener[p] = "precreate" => i < handling[p]

LEMMA OrderFacts ==
    ASSUME TypeInv
    PROVE  /\ Len(rows) \in Nat
           /\ Len(analyses) \in Nat
           /\ \A p \in Processes :
                 /\ Len(pending[p]) \in Nat
                 /\ handling[p] \in 0 .. Len(rows)
                 /\ listener[p] = "precreate" => handling[p] \in 1 .. Len(rows)
                 /\ \A n \in 1 .. Len(pending[p]) : pending[p][n] \in 1 .. Len(rows)
  <1>1. ASSUME NEW p \in Processes, NEW n \in 1 .. Len(pending[p])
        PROVE  pending[p][n] \in 1 .. Len(rows)
    <2>1. pending[p] \in Seq(1 .. Len(rows))
      BY DEF TypeInv, TypeOK
    <2> QED
      BY <2>1, ElementOfSeq
  <1> QED
    BY <1>1, Lengths DEF TypeInv, TypeOK, HandlerInv

\* A step that only takes notifications away and hands over none keeps the order.
LEMMA FewerPending ==
    ASSUME TypeInv, OrderInv, NEW p \in Processes, UNCHANGED <<rows, analyses>>,
           \A r \in Processes \ {p} : UNCHANGED <<pending[r], handling[r], listener[r]>>,
           \/ pending'[p] = <<>>
           \/ /\ pending[p] # <<>>
              /\ pending' = [pending EXCEPT ![p] = Tail(@)]
              /\ handling'[p] = handling[p]
           \/ pending'[p] = pending[p] /\ handling'[p] = 0,
           listener'[p] # "precreate"
    PROVE  OrderInv'
  <1> USE DEF OrderInv
  <1>1. /\ \A m, n \in 1 .. Len(pending'[p]) : m < n => pending'[p][m] < pending'[p][n]
        /\ \A n \in 1 .. Len(pending'[p]) :
              handling'[p] < pending'[p][n] /\ p \in rows[pending'[p][n]].heard
        /\ \A a \in 1 .. Len(analyses) : analyses[a].by = p =>
              \A n \in 1 .. Len(pending'[p]) : analyses[a].event < pending'[p][n]
    <2>1. CASE pending'[p] = <<>>
      BY <2>1
    <2>2. CASE /\ pending[p] # <<>>
               /\ pending' = [pending EXCEPT ![p] = Tail(@)]
               /\ handling'[p] = handling[p]
      <3>1. /\ Len(pending'[p]) = Len(pending[p]) - 1
            /\ \A n \in 1 .. Len(pending'[p]) :
                  n + 1 \in 1 .. Len(pending[p]) /\ pending'[p][n] = pending[p][n + 1]
        BY <2>2, TailOfPending DEF TypeInv
      <3> QED
        BY <2>2, <3>1, OrderFacts
    <2>3. CASE pending'[p] = pending[p] /\ handling'[p] = 0
      BY <2>3, OrderFacts
    <2> QED
      BY <2>1, <2>2, <2>3
  <1>2. ASSUME NEW r \in Processes
        PROVE  /\ \A m, n \in 1 .. Len(pending'[r]) : m < n => pending'[r][m] < pending'[r][n]
               /\ \A n \in 1 .. Len(pending'[r]) :
                     handling'[r] < pending'[r][n] /\ r \in rows'[pending'[r][n]].heard
               /\ listener'[r] = "precreate" => r \in rows'[handling'[r]].heard
    BY <1>1
  <1>3. ASSUME NEW a \in 1 .. Len(analyses')
        PROVE  LET i == analyses'[a].event  r == analyses'[a].by IN
               /\ i \in 1 .. Len(rows')
               /\ r \in Processes
               /\ r \in rows'[i].heard
               /\ \A n \in 1 .. Len(pending'[r]) : i < pending'[r][n]
               /\ listener'[r] = "precreate" => i < handling'[r]
    BY <1>1
  <1> QED
    BY <1>2, <1>3

LEMMA NextOrderInv ==
    ASSUME TypeInv, OrderInv, [Next]_vars
    PROVE  OrderInv'
  <1>a. /\ Len(rows) \in Nat
        /\ Len(analyses) \in Nat
        /\ \A p \in Processes :
              /\ Len(pending[p]) \in Nat
              /\ handling[p] \in 0 .. Len(rows)
              /\ listener[p] = "precreate" => handling[p] \in 1 .. Len(rows)
              /\ \A n \in 1 .. Len(pending[p]) : pending[p][n] \in 1 .. Len(rows)
    BY OrderFacts
  <1>b. /\ handling \in [Processes -> 0 .. Len(rows)]
        /\ listener \in [Processes -> {"disconnected", "listening", "precreate", "mark"}]
        /\ pending \in [Processes -> Seq(1 .. Len(rows))]
    BY DEF TypeInv, TypeOK
  <1>1. ASSUME NEW e \in Emitters, EmitCommits(e) PROVE OrderInv'
    <2>1. UNCHANGED <<handling, listener, analyses>>
      BY <1>1 DEF EmitCommits, listenVars, runVars
    <2>2. /\ Len(rows') = Len(rows) + 1
          /\ \A i \in 1 .. Len(rows) : rows'[i] = rows[i]
          /\ pending' = [p \in Processes |->
                           IF p \in rows'[Len(rows')].heard
                           THEN Append(pending[p], Len(rows'))
                           ELSE pending[p]]
      BY <1>1, CommitAppends DEF TypeInv
    <2>3. ASSUME NEW p \in Processes
          PROVE  \A n \in 1 .. Len(pending'[p]) :
                    \/ n \in 1 .. Len(pending[p]) /\ pending'[p][n] = pending[p][n]
                    \/ /\ n = Len(pending[p]) + 1
                       /\ pending'[p][n] = Len(rows')
                       /\ p \in rows'[Len(rows')].heard
      <3>1. CASE p \in rows'[Len(rows')].heard
        <4>1. pending'[p] = Append(pending[p], Len(rows'))
          BY <2>2, <3>1
        <4>2. Len(rows') \in Nat /\ pending[p] \in Seq(Nat)
          BY <1>a, <1>b, <2>2, SeqMonotonic, 1 .. Len(rows) \subseteq Nat
        <4>3. /\ Len(pending'[p]) = Len(pending[p]) + 1
              /\ \A n \in 1 .. Len(pending[p]) : pending'[p][n] = pending[p][n]
              /\ pending'[p][Len(pending[p]) + 1] = Len(rows')
          BY <4>1, <4>2, AppendProperties
        <4>4. ASSUME NEW n \in 1 .. Len(pending'[p])
              PROVE  n \in 1 .. Len(pending[p]) \/ n = Len(pending[p]) + 1
          BY <1>a, <4>3
        <4> QED
          BY <3>1, <4>3, <4>4
      <3>2. CASE p \notin rows'[Len(rows')].heard
        BY <2>2, <3>2
      <3> QED
        BY <3>1, <3>2
    <2>4. ASSUME NEW p \in Processes
          PROVE  /\ \A m, n \in 1 .. Len(pending'[p]) : m < n => pending'[p][m] < pending'[p][n]
                 /\ \A n \in 1 .. Len(pending'[p]) :
                       handling'[p] < pending'[p][n] /\ p \in rows'[pending'[p][n]].heard
                 /\ listener'[p] = "precreate" => p \in rows'[handling'[p]].heard
      <3>1. ASSUME NEW m \in 1 .. Len(pending'[p]), NEW n \in 1 .. Len(pending'[p]), m < n
            PROVE  pending'[p][m] < pending'[p][n]
        <4>1. \A i, j \in 1 .. Len(pending[p]) : i < j => pending[p][i] < pending[p][j]
          BY DEF OrderInv
        <4>2. m \in 1 .. Len(pending[p]) /\ pending'[p][m] = pending[p][m]
          <5>1. Len(pending'[p]) <= Len(pending[p]) + 1
            BY <1>a, <2>3
          <5> QED
            BY <1>a, <2>3, <3>1, <5>1
        <4>3. CASE n \in 1 .. Len(pending[p]) /\ pending'[p][n] = pending[p][n]
          BY <3>1, <4>1, <4>2, <4>3
        <4>4. CASE pending'[p][n] = Len(rows')
          BY <1>a, <2>2, <4>2, <4>4
        <4> QED
          BY <2>3, <4>3, <4>4
      <3>2. \A n \in 1 .. Len(pending'[p]) :
               handling'[p] < pending'[p][n] /\ p \in rows'[pending'[p][n]].heard
        <4> TAKE n \in 1 .. Len(pending'[p])
        <4>1. handling'[p] = handling[p] /\ handling[p] < Len(rows')
          BY <1>a, <2>1, <2>2
        <4>2. CASE n \in 1 .. Len(pending[p]) /\ pending'[p][n] = pending[p][n]
          <5> DEFINE i == pending[p][n]
          <5>1. handling[p] < i /\ p \in rows[i].heard
            BY <4>2 DEF OrderInv
          <5>2. rows'[i] = rows[i]
            BY <1>a, <2>2, <4>2
          <5> QED
            BY <4>1, <4>2, <5>1, <5>2
        <4>3. CASE pending'[p][n] = Len(rows') /\ p \in rows'[Len(rows')].heard
          BY <4>1, <4>3
        <4> QED
          BY <2>3, <4>2, <4>3
      <3>3. listener'[p] = "precreate" => p \in rows'[handling'[p]].heard
        BY <1>a, <2>1, <2>2 DEF OrderInv
      <3> QED
        BY <3>1, <3>2, <3>3
    <2>5. ASSUME NEW a \in 1 .. Len(analyses)
          PROVE  LET i == analyses[a].event  p == analyses[a].by IN
                 /\ i \in 1 .. Len(rows')
                 /\ p \in Processes
                 /\ p \in rows'[i].heard
                 /\ \A n \in 1 .. Len(pending'[p]) : i < pending'[p][n]
                 /\ listener'[p] = "precreate" => i < handling'[p]
      <3> DEFINE i == analyses[a].event
                 p == analyses[a].by
      <3>1. /\ i \in 1 .. Len(rows)
            /\ p \in Processes
            /\ p \in rows[i].heard
            /\ \A n \in 1 .. Len(pending[p]) : i < pending[p][n]
            /\ listener[p] = "precreate" => i < handling[p]
        BY DEF OrderInv
      <3> HIDE DEF i, p
      <3>2. /\ i \in 1 .. Len(rows')
            /\ p \in Processes
            /\ p \in rows'[i].heard
            /\ listener'[p] = "precreate" => i < handling'[p]
        BY <1>a, <2>1, <2>2, <3>1
      <3>3. \A n \in 1 .. Len(pending'[p]) : i < pending'[p][n]
        BY <1>a, <2>2, <2>3, <3>1
      <3> QED
        BY <3>2, <3>3 DEF i, p
    <2> QED
      BY <2>1, <2>4, <2>5 DEF OrderInv
  <1>2. ASSUME NEW p \in Processes, Load(p) PROVE OrderInv'
    <2>1. /\ pending[p] # <<>>
          /\ listener[p] = "listening"
          /\ pending' = [pending EXCEPT ![p] = Tail(@)]
          /\ UNCHANGED <<rows, analyses>>
          /\ \/ /\ handling' = [handling EXCEPT ![p] = Head(pending[p])]
                /\ listener' = [listener EXCEPT ![p] = "precreate"]
             \/ UNCHANGED <<handling, listener>>
      BY <1>2 DEF Load, runVars
    <2>2. /\ 1 \in 1 .. Len(pending[p])
          /\ Head(pending[p]) = pending[p][1]
          /\ Len(pending'[p]) = Len(pending[p]) - 1
          /\ \A n \in 1 .. Len(pending'[p]) :
                n + 1 \in 1 .. Len(pending[p]) /\ pending'[p][n] = pending[p][n + 1]
          /\ \A r \in Processes \ {p} : pending'[r] = pending[r]
      BY <2>1, TailOfPending DEF TypeInv
    <2>3. CASE UNCHANGED <<handling, listener>>
      BY <2>1, <2>2, <2>3, FewerPending
    <2>4. CASE /\ handling' = [handling EXCEPT ![p] = Head(pending[p])]
               /\ listener' = [listener EXCEPT ![p] = "precreate"]
      <3>1. /\ handling'[p] = pending[p][1]
            /\ \A r \in Processes \ {p} : UNCHANGED <<pending[r], handling[r], listener[r]>>
        BY <1>b, <2>2, <2>4
      <3>2. /\ \A m, n \in 1 .. Len(pending'[p]) : m < n => pending'[p][m] < pending'[p][n]
            /\ \A n \in 1 .. Len(pending'[p]) :
                  handling'[p] < pending'[p][n] /\ p \in rows[pending'[p][n]].heard
            /\ p \in rows[handling'[p]].heard
        <4>1. \A n \in 1 .. Len(pending'[p]) : 1 < n + 1
          BY <1>a, <2>2
        <4>2. \A m, n \in 1 .. Len(pending'[p]) : m < n => m + 1 < n + 1
          BY <1>a, <2>2
        <4>3. /\ \A m, n \in 1 .. Len(pending[p]) : m < n => pending[p][m] < pending[p][n]
              /\ \A n \in 1 .. Len(pending[p]) : p \in rows[pending[p][n]].heard
          BY DEF OrderInv
        <4>4. \A m, n \in 1 .. Len(pending'[p]) : m < n => pending'[p][m] < pending'[p][n]
          BY <2>2, <4>2, <4>3
        <4>5. \A n \in 1 .. Len(pending'[p]) :
                 handling'[p] < pending'[p][n] /\ p \in rows[pending'[p][n]].heard
          BY <2>2, <3>1, <4>1, <4>3
        <4> QED
          BY <2>2, <3>1, <4>3, <4>4, <4>5
      <3>3. \A a \in 1 .. Len(analyses) : analyses[a].by = p =>
               /\ \A n \in 1 .. Len(pending'[p]) : analyses[a].event < pending'[p][n]
               /\ analyses[a].event < handling'[p]
        <4>1. \A a \in 1 .. Len(analyses) : analyses[a].by = p =>
                 \A n \in 1 .. Len(pending[p]) : analyses[a].event < pending[p][n]
          BY DEF OrderInv
        <4> QED
          BY <2>2, <3>1, <4>1
      <3> QED
        BY <2>1, <3>1, <3>2, <3>3 DEF OrderInv
    <2> QED
      BY <2>1, <2>3, <2>4
  <1>3. ASSUME NEW p \in Processes, LoadFails(p) PROVE OrderInv'
    <2>1. /\ pending[p] # <<>>
          /\ pending' = [pending EXCEPT ![p] = Tail(@)]
          /\ listener[p] = "listening"
          /\ UNCHANGED <<rows, analyses, handling, listener>>
      BY <1>3 DEF LoadFails, listenVars, runVars
    <2> QED
      BY <1>b, <2>1, FewerPending
  <1>4. ASSUME NEW p \in Processes, Precreate(p) PROVE OrderInv'
    <2>1. /\ UNCHANGED <<rows, pending, handling>>
          /\ listener' = [listener EXCEPT ![p] = "mark"]
          /\ listener[p] = "precreate"
      BY <1>4 DEF Precreate, Opens, emitVars
    <2>2. /\ handling[p] \in 1 .. Len(rows)
          /\ \A a \in 1 .. Len(analyses') :
                \/ a \in 1 .. Len(analyses) /\ analyses'[a] = analyses[a]
                \/ analyses'[a] = [event |-> handling[p], by |-> p]
      BY <1>4, <1>a, PrecreateAppends
    <2>3. \A r \in Processes : listener'[r] = "precreate" => listener[r] = "precreate" /\ r # p
      BY <1>b, <2>1
    <2>4. ASSUME NEW a \in 1 .. Len(analyses')
          PROVE  LET i == analyses'[a].event  r == analyses'[a].by IN
                 /\ i \in 1 .. Len(rows)
                 /\ r \in Processes
                 /\ r \in rows[i].heard
                 /\ \A n \in 1 .. Len(pending[r]) : i < pending[r][n]
                 /\ listener'[r] = "precreate" => i < handling[r]
      <3>1. CASE a \in 1 .. Len(analyses) /\ analyses'[a] = analyses[a]
        BY <2>3, <3>1 DEF OrderInv
      <3>2. CASE analyses'[a] = [event |-> handling[p], by |-> p]
        BY <2>1, <2>2, <2>3, <3>2 DEF OrderInv
      <3> QED
        BY <2>2, <3>1, <3>2
    <2> QED
      BY <2>1, <2>3, <2>4 DEF OrderInv
  <1>5. ASSUME NEW p \in Processes, Mark(p) PROVE OrderInv'
    <2>1. /\ UNCHANGED <<pending, analyses>>
          /\ handling' = [handling EXCEPT ![p] = 0]
          /\ listener' = [listener EXCEPT ![p] = "listening"]
      BY <1>5 DEF Mark, Marks
    <2>2. Len(rows') = Len(rows) /\ \A i \in 1 .. Len(rows) : rows'[i].heard = rows[i].heard
      BY <1>5, MarkKeepsRows
    <2>3. /\ \A r \in Processes : \A n \in 1 .. Len(pending[r]) : handling'[r] < pending[r][n]
          /\ \A r \in Processes : listener'[r] = "precreate" =>
                listener[r] = "precreate" /\ handling'[r] = handling[r]
      BY <1>a, <1>b, <2>1 DEF OrderInv
    <2>4. \A r \in Processes : \A n \in 1 .. Len(pending[r]) :
             rows'[pending[r][n]].heard = rows[pending[r][n]].heard
      BY <1>a, <2>2
    <2>5. \A r \in Processes : listener'[r] = "precreate" =>
             rows'[handling'[r]].heard = rows[handling[r]].heard
      BY <1>a, <2>2, <2>3
    <2>6. ASSUME NEW r \in Processes
          PROVE  /\ \A m, n \in 1 .. Len(pending'[r]) : m < n => pending'[r][m] < pending'[r][n]
                 /\ \A n \in 1 .. Len(pending'[r]) :
                       handling'[r] < pending'[r][n] /\ r \in rows'[pending'[r][n]].heard
                 /\ listener'[r] = "precreate" => r \in rows'[handling'[r]].heard
      BY <2>1, <2>3, <2>4, <2>5 DEF OrderInv
    <2>7. ASSUME NEW a \in 1 .. Len(analyses')
          PROVE  LET i == analyses'[a].event  r == analyses'[a].by IN
                 /\ i \in 1 .. Len(rows')
                 /\ r \in Processes
                 /\ r \in rows'[i].heard
                 /\ \A n \in 1 .. Len(pending'[r]) : i < pending'[r][n]
                 /\ listener'[r] = "precreate" => i < handling'[r]
      BY <2>1, <2>2, <2>3 DEF OrderInv
    <2> QED
      BY <2>6, <2>7 DEF OrderInv
  <1>6. ASSUME NEW p \in Processes, Drop(p) \/ Crash(p) PROVE OrderInv'
    <2>1. /\ listener' = [listener EXCEPT ![p] = "disconnected"]
          /\ handling' = [handling EXCEPT ![p] = 0]
          /\ pending' = [pending EXCEPT ![p] = <<>>]
          /\ UNCHANGED <<rows, analyses>>
      BY <1>6, FailuresLose
    <2> QED
      BY <1>b, <2>1, FewerPending
  <1>7. CASE /\ UNCHANGED <<rows, pending, handling, analyses>>
             /\ \A p \in Processes : listener'[p] = "precreate" => listener[p] = "precreate"
    BY <1>7 DEF OrderInv
  <1>8. ASSUME NEW p \in Processes, Connect(p)
        PROVE  /\ UNCHANGED <<rows, pending, handling, analyses>>
               /\ \A r \in Processes : listener'[r] = "precreate" => listener[r] = "precreate"
    BY <1>8, <1>b DEF Connect, emitVars, runVars
  <1>9. \/ \E e \in Emitters : EmitCommits(e)
        \/ \E p \in Processes :
              Load(p) \/ LoadFails(p) \/ Precreate(p) \/ Mark(p) \/ Drop(p) \/ Crash(p) \/ Connect(p)
        \/ UNCHANGED <<rows, pending, handling, analyses, listener>>
    BY DEF Next, vars, ListenerStep, EmitReads, EmitFails, subscribe, unsubscribe, Receive,
           FinishRun, RunRaises, Tick, emitVars, listenVars, runVars
  <1> QED
    BY <1>1, <1>2, <1>3, <1>4, <1>5, <1>6, <1>7, <1>8, <1>9

LEMMA NextOneRefresh ==
    ASSUME TypeInv, OrderInv, OneRefreshPerListener, [Next]_vars, OrderInv'
    PROVE  OneRefreshPerListener'
  <1>a. Len(analyses) \in Nat
    BY Lengths DEF TypeInv
  <1>b. \A a \in 1 .. Len(analyses') : analyses'[a].by \in rows'[analyses'[a].event].heard
    BY DEF OrderInv
  <1>1. ASSUME NEW p \in Processes, Precreate(p) PROVE OneRefreshPerListener'
    <2>1. /\ Len(analyses') = Len(analyses) + 1
          /\ \A a \in 1 .. Len(analyses) : analyses'[a] = analyses[a]
          /\ analyses'[Len(analyses')] = [event |-> handling[p], by |-> p]
          /\ handling[p] \in Nat
      BY <1>1, PrecreateAppends, Lengths DEF TypeInv
    <2>2. ASSUME NEW a \in 1 .. Len(analyses)
          PROVE  analyses[a] # [event |-> handling[p], by |-> p]
      <3>1. listener[p] = "precreate"
        BY <1>1 DEF Precreate, Opens
      <3>2. analyses[a].by = p => analyses[a].event < handling[p]
        BY <3>1 DEF OrderInv
      <3> QED
        BY <2>1, <3>2
    <2>3. \A a \in 1 .. Len(analyses') : a \in 1 .. Len(analyses) \/ a = Len(analyses')
      BY <1>a, <2>1
    <2>4. \A a, b \in 1 .. Len(analyses') : analyses'[a] = analyses'[b] => a = b
      BY <2>1, <2>2, <2>3 DEF OneRefreshPerListener
    <2> QED
      BY <1>b, <2>4 DEF OneRefreshPerListener
  <1>2. CASE UNCHANGED analyses
    BY <1>b, <1>2 DEF OneRefreshPerListener
  <1>3. (\E p \in Processes : Precreate(p)) \/ UNCHANGED analyses
    BY DEF Next, vars, ListenerStep, EmitReads, EmitCommits, EmitFails, subscribe, unsubscribe,
           Receive, Connect, Load, Mark, Marks, LoadFails, Drop, Crash, FinishRun, RunRaises,
           Tick, runVars
  <1> QED
    BY <1>1, <1>2, <1>3

\* Whatever fails between the transactions of its handler, and however the processes
\* overlap, each of them opens one analysis for an event at most, and only if it was
\* listening when the event was committed.
THEOREM OneRefresh == Spec => []OneRefreshPerListener
  <1>1. Init => OrderInv /\ OneRefreshPerListener
    BY DEF Init, OrderInv, OneRefreshPerListener
  <1>2. TypeInv /\ OrderInv /\ OneRefreshPerListener /\ [Next]_vars
            => (OrderInv /\ OneRefreshPerListener)'
    BY NextOrderInv, NextOneRefresh
  <1> QED
    BY DispatchTypes, <1>1, <1>2, PTL DEF Spec

------------------------------------------------------------------------------
(* The mark on an event. *)

LEMMA NextMarksAgree ==
    ASSUME TypeInv, EmittingInv, OrderInv, MarksAgree, [Next]_vars
    PROVE  MarksAgree'
  <1> USE DEF MarksAgree
  <1>a. /\ Len(rows) \in Nat
        /\ Len(analyses) \in Nat
        /\ Len(task) = Len(analyses)
        /\ \A a \in 1 .. Len(analyses) : analyses[a].event \in 1 .. Len(rows)
    BY Lengths DEF TypeInv, HandlerInv, OrderInv
  <1>1. ASSUME NEW e \in Emitters, EmitCommits(e) PROVE MarksAgree'
    <2>1. UNCHANGED <<analyses, task>>
      BY <1>1 DEF EmitCommits, runVars
    <2>2. /\ Len(rows') = Len(rows) + 1
          /\ \A i \in 1 .. Len(rows) : rows'[i] = rows[i]
          /\ rows'[Len(rows')].analysis = emitting[e].analysis
      BY <1>1, CommitAppends DEF TypeInv
    <2>3. rows'[Len(rows')].analysis = 0
      BY <1>1, <2>2 DEF EmitCommits, EmittingInv
    <2>4. \A i \in 1 .. Len(rows') : i \in 1 .. Len(rows) \/ i = Len(rows')
      BY <1>a, <2>2
    <2> QED
      BY <1>a, <2>1, <2>2, <2>3, <2>4
  <1>2. ASSUME NEW p \in Processes, Precreate(p) PROVE MarksAgree'
    <2>1. rows' = rows
      BY <1>2 DEF Precreate, Opens, emitVars
    <2>2. /\ Len(analyses') = Len(analyses) + 1
          /\ \A a \in 1 .. Len(analyses) : analyses'[a] = analyses[a] /\ task'[a] = task[a]
          /\ task'[Len(analyses')] = "none"
      BY <1>2, PrecreateAppends
    <2>3. /\ \A a \in 1 .. Len(analyses') : a \in 1 .. Len(analyses) \/ a = Len(analyses')
          /\ \A a \in 1 .. Len(analyses) : a \in 1 .. Len(analyses')
      BY <1>a, <2>2
    <2> QED
      BY <2>1, <2>2, <2>3
  <1>3. ASSUME NEW p \in Processes, Mark(p) PROVE MarksAgree'
    <2> DEFINE h == handling[p]
    <2>1. /\ analyses' = analyses
          /\ h \in 1 .. Len(rows)
          /\ opened[p] \in 1 .. Len(analyses)
          /\ analyses[opened[p]].event = h
          /\ Len(rows') = Len(rows)
          /\ \A i \in 1 .. Len(rows) : i # h => rows'[i] = rows[i]
          /\ rows'[h].analysis = opened[p]
          /\ \A a \in 1 .. Len(analyses) :
                task'[a] = IF a = opened[p] THEN "running" ELSE task[a]
      BY <1>3, MarkKeepsRows DEF Mark, Marks
    <2> HIDE DEF h
    <2>2. \A i \in 1 .. Len(rows') : rows'[i].analysis # 0 =>
             \E a \in 1 .. Len(analyses') :
                 a = rows'[i].analysis /\ analyses'[a].event = i /\ task'[a] # "none"
      BY <2>1
    <2>3. \A a \in 1 .. Len(analyses') :
             task'[a] # "none" => rows'[analyses'[a].event].analysis # 0
      <3>1. opened[p] # 0
        BY <1>a, <2>1
      <3> QED
        BY <1>a, <2>1, <3>1
    <2> QED
      BY <2>2, <2>3
  <1>4. ASSUME \/ \E a \in 1 .. Len(analyses) : FinishRun(a) \/ RunRaises(a)
               \/ \E p \in Processes : Crash(p)
        PROVE  MarksAgree'
    <2>1. /\ UNCHANGED <<rows, analyses>>
          /\ \A a \in 1 .. Len(analyses) : task'[a] = "none" <=> task[a] = "none"
      BY <1>4, TasksEnd
    <2> QED
      BY <2>1
  <1>5. CASE UNCHANGED <<rows, analyses, task>>
    BY <1>5
  <1>6. \/ \E e \in Emitters : EmitCommits(e)
        \/ \E p \in Processes : Precreate(p) \/ Mark(p)
        \/ \E a \in 1 .. Len(analyses) : FinishRun(a) \/ RunRaises(a)
        \/ \E p \in Processes : Crash(p)
        \/ UNCHANGED <<rows, analyses, task>>
    BY DEF Next, vars, ListenerStep, EmitReads, EmitFails, subscribe, unsubscribe, Receive,
           Connect, Load, LoadFails, Drop, Tick, emitVars, runVars
  <1> QED
    BY <1>1, <1>2, <1>3, <1>4, <1>5, <1>6

\* The mark on an event names an analysis that was opened for it and whose task was
\* started, and no task is started for an event without a mark.
THEOREM MarksAreRight == Spec => []MarksAgree
  <1> DEFINE Inv == DebounceInv /\ OrderInv /\ MarksAgree
  <1>1. Init => Inv
    BY DEF Init, DebounceInv, EmittingInv, DebounceHolds, busy, OrderInv, MarksAgree
  <1>2. TypeInv /\ Inv /\ [Next]_vars => Inv'
    BY NextDebounceInv, NextOrderInv, NextMarksAgree DEF DebounceInv
  <1> QED
    BY DispatchTypes, <1>1, <1>2, PTL DEF Spec

------------------------------------------------------------------------------
(* The brokers. *)

Announced(f, i) == \E m \in 1 .. Len(f) : f[m] = [kind |-> "event", event |-> i]

\* UpdateFollowsEvent, of one feed.
Follows(f) ==
    \A n \in 1 .. Len(f) :
        f[n].kind = "analysis_updated" =>
            \E m \in 1 .. n - 1 : f[m] = [kind |-> "event", event |-> f[n].event]

\* A process opens an analysis for an event that it has broadcast.
FeedInv ==
    /\ \A p \in Processes : Follows(feed[p])
    /\ \A a \in 1 .. Len(analyses) :
          analyses[a].by \in Processes /\ Announced(feed[analyses[a].by], analyses[a].event)
    /\ \A p \in Processes : listener[p] = "precreate" => Announced(feed[p], handling[p])

\* An update may be published once its event was.
LEMMA AppendKeepsOrder ==
    ASSUME NEW f, NEW g, NEW envelope, Len(f) \in Nat, Len(g) = Len(f) + 1,
           \A m \in 1 .. Len(f) : g[m] = f[m],
           g[Len(g)] = envelope,
           Follows(f),
           envelope.kind = "analysis_updated" => Announced(f, envelope.event)
    PROVE  /\ Follows(g)
           /\ \A i : Announced(f, i) => Announced(g, i)
  <1>1. ASSUME NEW n \in 1 .. Len(g), g[n].kind = "analysis_updated"
        PROVE  \E m \in 1 .. n - 1 : g[m] = [kind |-> "event", event |-> g[n].event]
    <2>1. CASE n \in 1 .. Len(f)
      <3>1. PICK m \in 1 .. n - 1 : f[m] = [kind |-> "event", event |-> f[n].event]
        BY <1>1, <2>1 DEF Follows
      <3> QED
        BY <2>1, <3>1
    <2>2. CASE n = Len(g)
      BY <1>1, <2>2 DEF Announced
    <2> QED
      BY <2>1, <2>2
  <1>2. ASSUME NEW i, Announced(f, i) PROVE Announced(g, i)
    BY <1>2 DEF Announced
  <1> QED
    BY <1>1, <1>2 DEF Follows

LEMMA PublishKeepsOrder ==
    ASSUME TypeInv, NEW p \in Processes, NEW envelope \in Envelope, publish(p, envelope),
           \A r \in Processes : Follows(feed[r]),
           envelope.kind = "analysis_updated" => Announced(feed[p], envelope.event)
    PROVE  /\ \A r \in Processes : Follows(feed'[r])
           /\ \A r \in Processes : \A i : Announced(feed[r], i) => Announced(feed'[r], i)
           /\ envelope.kind = "event" =>
                 envelope = [kind |-> "event", event |-> envelope.event]
           /\ \E m \in 1 .. Len(feed'[p]) : feed'[p][m] = envelope
  <1>1. /\ Len(feed[p]) \in Nat
        /\ Len(feed'[p]) = Len(feed[p]) + 1
        /\ \A m \in 1 .. Len(feed[p]) : feed'[p][m] = feed[p][m]
        /\ feed'[p][Len(feed'[p])] = envelope
        /\ \A r \in Processes \ {p} : feed'[r] = feed[r]
    BY PublishType, Lengths DEF TypeInv
  <1>2. /\ Follows(feed'[p])
        /\ \A i : Announced(feed[p], i) => Announced(feed'[p], i)
    BY ONLY <1>1, AppendKeepsOrder, Follows(feed[p]),
            envelope.kind = "analysis_updated" => Announced(feed[p], envelope.event)
  <1>3. envelope.kind = "event" => envelope = [kind |-> "event", event |-> envelope.event]
    BY DEF Envelope
  <1>4. Len(feed'[p]) \in 1 .. Len(feed'[p])
    BY <1>1
  <1> QED
    BY <1>1, <1>2, <1>3, <1>4

LEMMA NextFeedInv ==
    ASSUME TypeInv, FeedInv, [Next]_vars
    PROVE  FeedInv'
  <1>a. Len(analyses) \in Nat /\ Len(rows) \in Nat
    BY Lengths DEF TypeInv
  <1>b. /\ handling \in [Processes -> 0 .. Len(rows)]
        /\ listener \in [Processes -> {"disconnected", "listening", "precreate", "mark"}]
    BY DEF TypeInv, TypeOK
  <1>1. ASSUME NEW p \in Processes, Load(p) PROVE FeedInv'
    <2> DEFINE i == Head(pending[p])
               envelope == [kind |-> "event", event |-> i]
    <2>1. /\ publish(p, envelope)
          /\ UNCHANGED analyses
          /\ listener[p] = "listening"
          /\ \/ /\ handling' = [handling EXCEPT ![p] = i]
                /\ listener' = [listener EXCEPT ![p] = "precreate"]
             \/ UNCHANGED <<handling, listener>>
      BY <1>1 DEF Load, runVars
    <2>2. i \in 1 .. Len(rows)
      BY <1>1, TailOfPending DEF Load, TypeInv
    <2>3. envelope \in Envelope /\ envelope.kind # "analysis_updated"
      BY <1>a, <2>2 DEF Envelope
    <2>4. /\ \A r \in Processes : Follows(feed'[r])
          /\ \A r \in Processes : \A j : Announced(feed[r], j) => Announced(feed'[r], j)
          /\ \E m \in 1 .. Len(feed'[p]) : feed'[p][m] = envelope
      BY <2>1, <2>3, PublishKeepsOrder DEF FeedInv
    <2>5. Announced(feed'[p], i)
      BY <2>4 DEF Announced
    <2> HIDE DEF i, envelope
    <2>6. \A r \in Processes : listener'[r] = "precreate" => Announced(feed'[r], handling'[r])
      BY <1>b, <2>1, <2>4, <2>5 DEF FeedInv
    <2> QED
      BY <2>1, <2>4, <2>6 DEF FeedInv
  <1>2. ASSUME NEW a \in 1 .. Len(analyses), FinishRun(a) PROVE FeedInv'
    <2> DEFINE envelope == [kind |-> "analysis_updated", event |-> analyses[a].event]
    <2>1. /\ publish(analyses[a].by, envelope)
          /\ UNCHANGED <<listener, handling, analyses>>
      BY <1>2 DEF FinishRun, listenVars
    <2>2. analyses[a] \in Analysis
      BY ElementOfSeq DEF TypeInv, TypeOK
    <2>3. envelope \in Envelope /\ analyses[a].by \in Processes
      BY <2>2 DEF Envelope, Analysis
    <2>4. /\ \A r \in Processes : Follows(feed'[r])
          /\ \A r \in Processes : \A j : Announced(feed[r], j) => Announced(feed'[r], j)
      <3>1. Announced(feed[analyses[a].by], envelope.event)
        BY DEF FeedInv
      <3> QED
        BY <2>1, <2>3, <3>1, PublishKeepsOrder DEF FeedInv
    <2> QED
      BY <2>1, <2>4 DEF FeedInv
  <1>3. ASSUME NEW p \in Processes, Precreate(p) PROVE FeedInv'
    <2>1. /\ UNCHANGED <<feed, handling>>
          /\ listener[p] = "precreate"
          /\ listener' = [listener EXCEPT ![p] = "mark"]
      BY <1>3 DEF Precreate, Opens, brokerVars
    <2>2. \A a \in 1 .. Len(analyses') :
             \/ a \in 1 .. Len(analyses) /\ analyses'[a] = analyses[a]
             \/ analyses'[a] = [event |-> handling[p], by |-> p]
      BY <1>3, <1>a, PrecreateAppends
    <2>3. \A r \in Processes : listener'[r] = "precreate" => listener[r] = "precreate"
      BY <1>b, <2>1
    <2>4. \A a \in 1 .. Len(analyses') :
             /\ analyses'[a].by \in Processes
             /\ Announced(feed[analyses'[a].by], analyses'[a].event)
      BY <2>1, <2>2 DEF FeedInv
    <2> QED
      BY <2>1, <2>3, <2>4 DEF FeedInv
  <1>4. ASSUME NEW p \in Processes, Connect(p) \/ Mark(p) \/ Drop(p) \/ Crash(p) PROVE FeedInv'
    <2>1. /\ UNCHANGED <<feed, analyses>>
          /\ \E state \in {"listening", "disconnected"} : listener' = [listener EXCEPT ![p] = state]
          /\ handling' = handling \/ handling' = [handling EXCEPT ![p] = 0]
      BY <1>4, FailuresLose DEF Connect, Mark, Marks, runVars, brokerVars
    <2>2. \A r \in Processes : listener'[r] = "precreate" =>
             listener[r] = "precreate" /\ handling'[r] = handling[r]
      BY <1>b, <2>1
    <2> QED
      BY <2>1, <2>2 DEF FeedInv
  <1>5. CASE UNCHANGED <<feed, analyses, listener, handling>>
    BY <1>5 DEF FeedInv
  <1>6. \/ \E p \in Processes :
              Load(p) \/ Precreate(p) \/ Connect(p) \/ Mark(p) \/ Drop(p) \/ Crash(p)
        \/ \E a \in 1 .. Len(analyses) : FinishRun(a)
        \/ UNCHANGED <<feed, analyses, listener, handling>>
    BY DEF Next, vars, ListenerStep, EmitReads, EmitCommits, EmitFails, subscribe, unsubscribe,
           Receive, LoadFails, RunRaises, Tick, listenVars, runVars, brokerVars
  <1> QED
    BY <1>1, <1>2, <1>3, <1>4, <1>5, <1>6

\* In no process is an update published before the event that it answers.
THEOREM UpdatesFollow == Spec => []UpdateFollowsEvent
  <1>1. Init => FeedInv
    BY DEF Init, FeedInv, Follows
  <1>2. TypeInv /\ FeedInv /\ [Next]_vars => FeedInv'
    BY NextFeedInv
  <1>3. FeedInv => UpdateFollowsEvent
    BY DEF FeedInv, Follows, UpdateFollowsEvent
  <1> QED
    BY DispatchTypes, <1>1, <1>2, <1>3, PTL DEF Spec

\* What SubscribersStayCurrent says of a queue q when `last' envelopes are published
\* and its subscriber has come as far as `got', with the bound of the queue.
Current(q, last, got) ==
    /\ Len(q) <= max_queue_size
    /\ \A n \in 1 .. Len(q) : q[n] = (last - Len(q)) + n
    /\ last - Len(q) >= got
    /\ last - Len(q) > got => Len(q) = max_queue_size

LEMMA PutKeepsCurrent ==
    ASSUME NEW q \in Seq(Nat), NEW last \in Nat, NEW got \in Nat, Current(q, last, got)
    PROVE  Current(put(q, last + 1), last + 1, got)
  <1> USE QueueAssumption
  <1> DEFINE r == put(q, last + 1)
  <1>a. Len(q) \in Nat /\ Len(q) <= max_queue_size
    BY LenProperties DEF Current
  <1>1. CASE Len(q) < max_queue_size
    <2>1. /\ Len(r) = Len(q) + 1
          /\ \A n \in 1 .. Len(q) : r[n] = q[n]
          /\ r[Len(q) + 1] = last + 1
      BY <1>1, AppendProperties DEF put
    <2> HIDE DEF r
    <2>2. last - Len(q) = got
      BY <1>1, <1>a DEF Current
    <2>3. \A n \in 1 .. Len(r) : r[n] = (last + 1 - Len(r)) + n
      <3> TAKE n \in 1 .. Len(r)
      <3>1. CASE n \in 1 .. Len(q)
        BY <1>a, <2>1, <3>1 DEF Current
      <3>2. CASE n = Len(q) + 1
        BY <1>a, <2>1, <3>2
      <3> QED
        BY <1>a, <2>1, <3>1, <3>2
    <2> QED
      BY <1>1, <1>a, <2>1, <2>2, <2>3 DEF Current, r
  <1>2. CASE Len(q) = max_queue_size
    <2>1. q # <<>>
      BY <1>2, EmptySeq
    <2>2. /\ Tail(q) \in Seq(Nat)
          /\ Len(Tail(q)) = Len(q) - 1
          /\ \A n \in 1 .. Len(q) - 1 : Tail(q)[n] = q[n + 1]
      BY <2>1, HeadTailProperties
    <2>3. /\ Len(r) = Len(q)
          /\ \A n \in 1 .. Len(q) - 1 : r[n] = q[n + 1]
          /\ r[Len(q)] = last + 1
      BY <1>2, <1>a, <2>2, AppendProperties DEF put
    <2> HIDE DEF r
    <2>4. \A n \in 1 .. Len(r) : r[n] = (last + 1 - Len(r)) + n
      <3> TAKE n \in 1 .. Len(r)
      <3>1. CASE n \in 1 .. Len(q) - 1
        <4>1. q[n + 1] = (last - Len(q)) + (n + 1)
          BY <1>a, <3>1 DEF Current
        <4> QED
          BY <1>a, <2>3, <3>1, <4>1
      <3>2. CASE n = Len(q)
        BY <1>a, <2>3, <3>2
      <3> QED
        BY <1>a, <2>3, <3>1, <3>2
    <2> QED
      BY <1>2, <1>a, <2>3, <2>4 DEF Current, r
  <1> QED
    BY <1>1, <1>2, <1>a

LEMMA TakeKeepsCurrent ==
    ASSUME NEW q \in Seq(Nat), q # <<>>, NEW last \in Nat, NEW got \in Nat, Current(q, last, got)
    PROVE  Current(Tail(q), last, Head(q))
  <1> USE QueueAssumption
  <1>1. Len(q) \in Nat \ {0}
    BY EmptySeq
  <1>2. /\ Len(Tail(q)) = Len(q) - 1
        /\ \A n \in 1 .. Len(q) - 1 : Tail(q)[n] = q[n + 1]
    BY HeadTailProperties
  <1>3. Head(q) = (last - Len(q)) + 1
    BY <1>1 DEF Current
  <1>4. \A n \in 1 .. Len(Tail(q)) : Tail(q)[n] = (last - Len(Tail(q))) + n
    <2> TAKE n \in 1 .. Len(Tail(q))
    <2>1. n \in 1 .. Len(q) - 1 /\ n + 1 \in 1 .. Len(q)
      BY <1>1, <1>2
    <2>2. q[n + 1] = (last - Len(q)) + (n + 1)
      BY <2>1 DEF Current
    <2> QED
      BY <1>1, <1>2, <2>1, <2>2
  <1>5. Len(q) <= max_queue_size
    BY DEF Current
  <1>6. /\ last - Len(Tail(q)) = Head(q)
        /\ last - Len(Tail(q)) \in Int
        /\ Len(Tail(q)) <= max_queue_size
    BY <1>1, <1>2, <1>3, <1>5
  <1>7. last - Len(Tail(q)) >= Head(q) /\ ~ (last - Len(Tail(q)) > Head(q))
    BY ONLY <1>6
  <1> QED
    BY <1>4, <1>6, <1>7 DEF Current

QueuesInv == \A s \in subscribed : Current(queue[s], Len(feed[server[s]]), seen[s])

LEMMA NextQueuesInv ==
    ASSUME TypeInv, QueuesInv, [Next]_vars
    PROVE  QueuesInv'
  <1> USE DEF QueuesInv
  <1>a. /\ subscribed \subseteq Subscribers
        /\ \A s \in Subscribers : /\ server[s] \in Processes
                                  /\ Len(feed[server[s]]) \in Nat
                                  /\ seen[s] \in Nat
                                  /\ queue[s] \in Seq(Nat)
    BY Lengths, ServerAssumption DEF TypeInv, TypeOK
  <1>1. ASSUME NEW p \in Processes, NEW envelope, publish(p, envelope) PROVE QueuesInv'
    <2>1. /\ feed' = [feed EXCEPT ![p] = Append(@, envelope)]
          /\ subscribed' = subscribed /\ seen' = seen
          /\ \A s \in Subscribers : s \in subscribed =>
                queue'[s] = IF server[s] = p THEN put(queue[s], Len(feed[p]) + 1) ELSE queue[s]
      BY <1>1 DEF publish
    <2>2. ASSUME NEW s \in subscribed
          PROVE  Current(queue'[s], Len(feed'[server[s]]), seen'[s])
      <3>1. s \in Subscribers /\ Current(queue[s], Len(feed[server[s]]), seen[s])
        BY <1>a
      <3>2. CASE server[s] = p
        <4>1. feed[p] \in Seq(Envelope) /\ feed'[p] = Append(feed[p], envelope)
          BY <2>1 DEF TypeInv, TypeOK
        <4>2. Len(feed'[p]) = Len(feed[p]) + 1
          BY <4>1
        <4>3. queue'[s] = put(queue[s], Len(feed[p]) + 1)
          BY <2>1, <3>1, <3>2
        <4> QED
          BY <1>a, <2>1, <3>1, <3>2, <4>2, <4>3, PutKeepsCurrent
      <3>3. CASE server[s] # p
        <4>1. feed'[server[s]] = feed[server[s]]
          BY <1>a, <2>1, <3>1, <3>3 DEF TypeInv, TypeOK
        <4> QED
          BY <2>1, <3>1, <3>3, <4>1
      <3> QED
        BY <3>2, <3>3
    <2> QED
      BY <2>1, <2>2
  <1>2. ASSUME NEW s \in Subscribers, subscribe(s) PROVE QueuesInv'
    <2>1. /\ feed' = feed
          /\ queue'[s] = <<>> /\ seen'[s] = Len(feed[server[s]])
          /\ \A r \in subscribed : queue'[r] = queue[r] /\ seen'[r] = seen[r]
          /\ subscribed' = subscribed \cup {s}
      BY <1>2 DEF subscribe, TypeInv, TypeOK
    <2>2. Current(<<>>, Len(feed[server[s]]), Len(feed[server[s]]))
      BY <1>a, QueueAssumption DEF Current
    <2> QED
      BY <2>1, <2>2
  <1>3. ASSUME NEW s \in Subscribers, Receive(s) PROVE QueuesInv'
    <2>1. /\ UNCHANGED <<feed, subscribed>>
          /\ s \in subscribed /\ queue[s] # <<>>
          /\ queue'[s] = Tail(queue[s]) /\ seen'[s] = Head(queue[s])
          /\ \A r \in subscribed : r # s => queue'[r] = queue[r] /\ seen'[r] = seen[r]
      BY <1>3, <1>a DEF Receive, TypeInv, TypeOK
    <2>2. Current(queue'[s], Len(feed[server[s]]), seen'[s])
      BY <1>a, <2>1, TakeKeepsCurrent
    <2> QED
      BY <2>1, <2>2
  <1>4. ASSUME NEW leaving, Leave(leaving), UNCHANGED feed PROVE QueuesInv'
    <2>1. /\ subscribed' = subscribed \ leaving
          /\ \A s \in Subscribers : s \notin leaving => queue'[s] = queue[s] /\ seen'[s] = seen[s]
      BY <1>4 DEF Leave
    <2> QED
      BY <1>a, <1>4, <2>1
  <1>5. CASE UNCHANGED <<feed, queue, seen, subscribed>>
    BY <1>5
  <1>6. ASSUME NEW a \in 1 .. Len(analyses), FinishRun(a)
        PROVE  \E p \in Processes, envelope \in Envelope : publish(p, envelope)
    <2>1. analyses[a] \in Analysis
      BY ElementOfSeq DEF TypeInv, TypeOK
    <2>2. /\ analyses[a].by \in Processes
          /\ [kind |-> "analysis_updated", event |-> analyses[a].event] \in Envelope
      BY <2>1 DEF Analysis, Envelope
    <2> QED
      BY <1>6, <2>2 DEF FinishRun
  <1>7. ASSUME NEW p \in Processes, Load(p) PROVE \E envelope : publish(p, envelope)
    BY <1>7 DEF Load
  <1>8. ASSUME NEW p \in Processes, Crash(p) PROVE (\E leaving : Leave(leaving)) /\ UNCHANGED feed
    BY <1>8 DEF Crash
  <1>9. \/ \E p \in Processes : Load(p) \/ Crash(p)
        \/ \E a \in 1 .. Len(analyses) : FinishRun(a)
        \/ \E s \in Subscribers : subscribe(s) \/ Receive(s) \/ (Leave({s}) /\ UNCHANGED feed)
        \/ UNCHANGED <<feed, queue, seen, subscribed>>
    BY DEF Next, vars, ListenerStep, EmitReads, EmitCommits, EmitFails, unsubscribe, Connect,
           Precreate, Opens, Mark, Marks, LoadFails, Drop, RunRaises, Tick, brokerVars
  <1> QED
    BY <1>1, <1>2, <1>3, <1>4, <1>5, <1>6, <1>7, <1>8, <1>9

\* What waits for a subscriber is always the latest envelopes, in order and without
\* a gap, and only a full queue costs it any.
THEOREM QueuesStayCurrent == Spec => []SubscribersStayCurrent
  <1>1. Init => QueuesInv
    BY DEF Init, QueuesInv
  <1>2. TypeInv /\ QueuesInv /\ [Next]_vars => QueuesInv'
    BY NextQueuesInv
  <1>3. QueuesInv => SubscribersStayCurrent
    BY DEF QueuesInv, Current, SubscribersStayCurrent
  <1> QED
    BY DispatchTypes, <1>1, <1>2, <1>3, PTL DEF Spec

==============================================================================
