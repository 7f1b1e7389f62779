---------------------------- MODULE EventDispatch ----------------------------
(***************************************************************************)
(* From a detected event to a refreshed analysis:                          *)
(*                                                                         *)
(*   - emit_event, in the ingest commands and in POST /events/simulate,    *)
(*     debounces against the refresh_events table, inserts a row and       *)
(*     notifies the channel, in one READ COMMITTED transaction;            *)
(*   - every API process that listens is notified: its listener takes one  *)
(*     notification at a time, broadcasts the event in the process and,    *)
(*     for a symbol on the watchlist, opens an analysis, marks the event   *)
(*     with it and starts a background task.  A deployment overlaps two    *)
(*     processes, and neither asks whether the other has the event;        *)
(*   - the task runs the analysis and broadcasts that it was updated;      *)
(*   - the broker of a process keeps a bounded queue for each subscriber.  *)
(*                                                                         *)
(* A step is a transaction or the code between two awaits.  Rows and       *)
(* envelopes are named by their place in the order in which they were      *)
(* committed or published.                                                 *)
(***************************************************************************)
EXTENDS Integers, Sequences, FiniteSets

CONSTANTS
    Processes,        \* API processes
    Emitters,         \* concurrent callers of emit_event
    Candidates,       \* what detectors detect: a symbol, an event type, a payload
    Orders,           \* orders in which a process may list a payload's keywords
    Watched,          \* the candidates whose symbol is on the watchlist
    DEBOUNCE_WINDOW,
    Subscribers,      \* open event streams of the web client
    server,           \* server[s]: the process that the load balancer picked for s
    max_queue_size,
    MaxEvents,        \* bound: events emitted
    MaxTime,          \* bound: the clock stops here
    MaxFailures       \* bound: lost connections, failed handlers and restarts

ASSUME WatchedAssumption == Watched \subseteq Candidates

ASSUME WindowAssumption == DEBOUNCE_WINDOW \in Nat

ASSUME QueueAssumption == max_queue_size \in Nat \ {0}

ASSUME LimitsAssumption == MaxEvents \in Nat /\ MaxTime \in Nat /\ MaxFailures \in Nat

ASSUME ServerAssumption == server \in [Subscribers -> Processes]

VARIABLES
    now,
    rows,        \* refresh_events, in the order of their commits
    emitting,    \* emitting[e]: the row e is about to insert, or NoRow
    pending,     \* pending[p]: rows notified on p's connection and not handled yet
    listener,    \* listener[p]: disconnected, listening, or the handler's next transaction
    handling,    \* handling[p]: the row in the hands of p's handler, or 0
    opened,      \* opened[p]: the analysis p's handler has opened for it, or 0
    analyses,    \* analyses the listeners opened: the row each is for, and by whom
    task,        \* task[a]: the background task of the a-th of them
    feed,        \* feed[p]: every envelope published in p so far
    queue,       \* queue[s]: the envelopes waiting for s
    seen,        \* seen[s]: the latest envelope that s received or missed before it joined
    subscribed,  \* the subscribers that the brokers know
    failures,    \* number of failures so far
    lost         \* history: <<p, i>> when a failure took the i-th row out of p's hands

emitVars == <<rows, emitting, pending>>
listenVars == <<listener, handling, opened>>
runVars == <<analyses, task>>
brokerVars == <<feed, queue, seen, subscribed>>
failVars == <<failures, lost>>
vars == <<now, emitVars, listenVars, runVars, brokerVars, failVars>>

NoRow == [key |-> <<>>, at |-> 0, saw |-> 0, analysis |-> 0, heard |-> {}]

\* What a detector emits: the keywords of a news item come out of a set of strings,
\* in an order that each process draws anew.
EventCandidate == Candidates \X Orders

\* saw: the rows that were committed when the emitter looked for duplicates.
\* heard: the processes that were notified of the row.
Row == [key : EventCandidate, at : Nat, saw : Nat, analysis : Nat, heard : SUBSET Processes]

Analysis == [event : Nat, by : Processes]

Envelope == [kind : {"event", "analysis_updated"}, event : Nat]

TypeOK ==
    /\ now \in Nat
    /\ rows \in Seq(Row)
    /\ emitting \in [Emitters -> Row \cup {NoRow}]
    /\ pending \in [Processes -> Seq(1 .. Len(rows))]
    /\ listener \in [Processes -> {"disconnected", "listening", "precreate", "mark"}]
    /\ handling \in [Processes -> 0 .. Len(rows)]
    /\ opened \in [Processes -> 0 .. Len(analyses)]
    /\ analyses \in Seq(Analysis)
    /\ task \in Seq({"none", "running", "ended", "raised", "lost"})
    /\ feed \in [Processes -> Seq(Envelope)]
    /\ queue \in [Subscribers -> Seq(Nat)]
    /\ seen \in [Subscribers -> Nat]
    /\ subscribed \subseteq Subscribers
    /\ failures \in Nat
    /\ lost \subseteq Processes \X Nat

Init ==
    /\ now = 0
    /\ rows = <<>>
    /\ emitting = [e \in Emitters |-> NoRow]
    /\ pending = [p \in Processes |-> <<>>]
    /\ listener = [p \in Processes |-> "disconnected"]
    /\ handling = [p \in Processes |-> 0]
    /\ opened = [p \in Processes |-> 0]
    /\ analyses = <<>>
    /\ task = <<>>
    /\ feed = [p \in Processes |-> <<>>]
    /\ queue = [s \in Subscribers |-> <<>>]
    /\ seen = [s \in Subscribers |-> 0]
    /\ subscribed = {}
    /\ failures = 0
    /\ lost = {}

------------------------------------------------------------------------------
(* emit_event. *)

\* Mutant: the payload is left out of the key.
dedupe_key_plain(c, o) == <<c>>

\* _dedupe_key hashes the payload as it is listed.
dedupe_key(c, o) == <<c, o>>

\* Mutant: the window is open at its far end.
debounced_before(key) ==
    \E i \in 1 .. Len(rows) : rows[i].key = key /\ rows[i].at > now - DEBOUNCE_WINDOW

\* A row with the same key was detected within the window.
debounced(key) ==
    \E i \in 1 .. Len(rows) : rows[i].key = key /\ rows[i].at >= now - DEBOUNCE_WINDOW

busy == {e \in Emitters : emitting[e] # NoRow}

\* The transaction begins with the look-up.  detected_at is the database's now(),
\* the time at which the transaction began.  An emission that finds one row is
\* debounced, and one that finds several raises: neither changes anything.
EmitReads(e, c, o) ==
    /\ e \notin busy
    /\ Len(rows) + Cardinality(busy) < MaxEvents
    /\ ~ debounced(dedupe_key(c, o))
    /\ emitting' = [emitting EXCEPT ![e] =
           [key |-> dedupe_key(c, o), at |-> now, saw |-> Len(rows), analysis |-> 0,
            heard |-> {}]]
    /\ UNCHANGED <<now, rows, pending, listenVars, runVars, brokerVars, failVars>>

\* The commit inserts the row and delivers the notification to every process that
\* listens.
EmitCommits(e) ==
    /\ e \in busy
    /\ LET heard == {p \in Processes : listener[p] # "disconnected"} IN
          /\ rows' = Append(rows, [emitting[e] EXCEPT !.heard = heard])
          /\ pending' = [p \in Processes |->
                           IF p \in heard THEN Append(pending[p], Len(rows')) ELSE pending[p]]
    /\ emitting' = [emitting EXCEPT ![e] = NoRow]
    /\ UNCHANGED <<now, listenVars, runVars, brokerVars, failVars>>

\* The transaction is rolled back, or its process dies.
EmitFails(e) ==
    /\ e \in busy
    /\ emitting' = [emitting EXCEPT ![e] = NoRow]
    /\ UNCHANGED <<now, rows, pending, listenVars, runVars, brokerVars, failVars>>

------------------------------------------------------------------------------
(* EventBroker. *)

\* Mutant: a full queue takes no more.
put_nowait(q, n) == IF Len(q) < max_queue_size THEN Append(q, n) ELSE q

\* A full queue drops its oldest envelope.
put(q, n) == Append(IF Len(q) < max_queue_size THEN q ELSE Tail(q), n)

publish(p, envelope) ==
    /\ feed' = [feed EXCEPT ![p] = Append(@, envelope)]
    /\ queue' = [s \in Subscribers |->
                    IF s \in subscribed /\ server[s] = p
                    THEN put(queue[s], Len(feed[p]) + 1)
                    ELSE queue[s]]
    /\ UNCHANGED <<seen, subscribed>>

\* GET /events/stream
subscribe(s) ==
    /\ s \notin subscribed
    /\ subscribed' = subscribed \cup {s}
    /\ queue' = [queue EXCEPT ![s] = <<>>]
    /\ seen' = [seen EXCEPT ![s] = Len(feed[server[s]])]
    /\ UNCHANGED <<now, emitVars, listenVars, runVars, feed, failVars>>

\* The broker forgets the queues of those that leave.
Leave(leaving) ==
    /\ subscribed' = subscribed \ leaving
    /\ queue' = [s \in Subscribers |-> IF s \in leaving THEN <<>> ELSE queue[s]]
    /\ seen' = [s \in Subscribers |-> IF s \in leaving THEN 0 ELSE seen[s]]

unsubscribe(s) ==
    /\ s \in subscribed
    /\ Leave({s})
    /\ UNCHANGED <<now, emitVars, listenVars, runVars, feed, failVars>>

Receive(s) ==
    /\ s \in subscribed
    /\ queue[s] # <<>>
    /\ seen' = [seen EXCEPT ![s] = Head(queue[s])]
    /\ queue' = [queue EXCEPT ![s] = Tail(@)]
    /\ UNCHANGED <<now, emitVars, listenVars, runVars, feed, subscribed, failVars>>

------------------------------------------------------------------------------
(* The listener of a process. *)

Connect(p) ==
    /\ listener[p] = "disconnected"
    /\ listener' = [listener EXCEPT ![p] = "listening"]
    /\ UNCHANGED <<now, emitVars, handling, opened, runVars, brokerVars, failVars>>

\* Mutant: an event that will be followed by an update is not broadcast itself.
Load_quietly(p) ==
    /\ listener[p] = "listening"
    /\ pending[p] # <<>>
    /\ LET i == Head(pending[p]) IN
          IF rows[i].key[1] \in Watched
          THEN /\ listener' = [listener EXCEPT ![p] = "precreate"]
               /\ handling' = [handling EXCEPT ![p] = i]
               /\ UNCHANGED <<opened, brokerVars>>
          ELSE publish(p, [kind |-> "event", event |-> i]) /\ UNCHANGED listenVars
    /\ pending' = [pending EXCEPT ![p] = Tail(@)]
    /\ UNCHANGED <<now, rows, emitting, runVars, failVars>>

\* _handle_notify: the event is loaded and broadcast, and that is all for a symbol
\* that is not on the watchlist.  Whether another process has the event is not asked.
Load(p) ==
    /\ listener[p] = "listening"
    /\ pending[p] # <<>>
    /\ LET i == Head(pending[p]) IN
          /\ publish(p, [kind |-> "event", event |-> i])
          /\ IF rows[i].key[1] \in Watched
             THEN /\ listener' = [listener EXCEPT ![p] = "precreate"]
                  /\ handling' = [handling EXCEPT ![p] = i]
             ELSE UNCHANGED <<listener, handling>>
    /\ pending' = [pending EXCEPT ![p] = Tail(@)]
    /\ UNCHANGED <<now, rows, emitting, opened, runVars, failVars>>

\* The first of the two transactions that follow, with the task that is given to it.
Opens(p, state) ==
    /\ listener[p] = "precreate"
    /\ analyses' = Append(analyses, [event |-> handling[p], by |-> p])
    /\ task' = Append(task, state)
    /\ opened' = [opened EXCEPT ![p] = Len(analyses) + 1]
    /\ listener' = [listener EXCEPT ![p] = "mark"]
    /\ UNCHANGED <<now, emitVars, handling, brokerVars, failVars>>

\* Mutant: the task is started as soon as its analysis has a row.
Precreate_starts_task(p) == Opens(p, "running")

\* _precreate_quick_refresh_row
Precreate(p) == Opens(p, "none")

\* The second one; the handler is done with the event.
Marks(p) ==
    /\ listener[p] = "mark"
    /\ rows' = [rows EXCEPT ![handling[p]].analysis = opened[p]]
    /\ listener' = [listener EXCEPT ![p] = "listening"]
    /\ handling' = [handling EXCEPT ![p] = 0]
    /\ opened' = [opened EXCEPT ![p] = 0]
    /\ UNCHANGED <<now, emitting, analyses, brokerVars, failVars>>

\* Mutant: the notification is taken again.
Mark_and_retry(p) ==
    /\ Marks(p)
    /\ task' = [task EXCEPT ![opened[p]] = "running"]
    /\ pending' = [pending EXCEPT ![p] = Append(@, handling[p])]

\* Mutant: the task is not started.
Mark_without_task(p) == Marks(p) /\ UNCHANGED <<task, pending>>

\* _mark_event_dispatched, over the mark of another process, and the task is created.
Mark(p) ==
    /\ Marks(p)
    /\ task' = [task EXCEPT ![opened[p]] = "running"]
    /\ UNCHANGED pending

\* _run_quick_refresh: whatever run_analysis returns, in the process that opened the
\* analysis the update is announced.
FinishRun(a) ==
    /\ task[a] = "running"
    /\ task' = [task EXCEPT ![a] = "ended"]
    /\ publish(analyses[a].by, [kind |-> "analysis_updated", event |-> analyses[a].event])
    /\ UNCHANGED <<now, emitVars, listenVars, analyses, failVars>>

\* run_analysis raised, which is logged.
RunRaises(a) ==
    /\ task[a] = "running"
    /\ task' = [task EXCEPT ![a] = "raised"]
    /\ UNCHANGED <<now, emitVars, listenVars, analyses, brokerVars, failVars>>

------------------------------------------------------------------------------
(* Failures and time. *)

Fails(p, S) ==
    /\ failures < MaxFailures
    /\ failures' = failures + 1
    /\ lost' = lost \cup ({p} \X S)

\* The event cannot be loaded: it is logged and passed over.
LoadFails(p) ==
    /\ listener[p] = "listening"
    /\ pending[p] # <<>>
    /\ Fails(p, {Head(pending[p])})
    /\ pending' = [pending EXCEPT ![p] = Tail(@)]
    /\ UNCHANGED <<now, rows, emitting, listenVars, runVars, brokerVars>>

\* The rows that p was notified of and whose handling is not over.
inHand(p) ==
    {i \in 1 .. Len(rows) : handling[p] = i \/ \E n \in 1 .. Len(pending[p]) : pending[p][n] = i}

\* The handler's hands are empty and so is its connection.
Disconnected(p) ==
    /\ listener' = [listener EXCEPT ![p] = "disconnected"]
    /\ handling' = [handling EXCEPT ![p] = 0]
    /\ opened' = [opened EXCEPT ![p] = 0]
    /\ pending' = [pending EXCEPT ![p] = <<>>]

\* The connection is lost, or a transaction of the handler raises and closes it:
\* what was notified on it and not handled is gone.
Drop(p) ==
    /\ listener[p] # "disconnected"
    /\ Fails(p, inHand(p))
    /\ Disconnected(p)
    /\ UNCHANGED <<now, rows, emitting, runVars, brokerVars>>

\* An API process stops or restarts; nothing looks for events or analyses left behind.
Crash(p) ==
    /\ LET cut == {a \in DOMAIN task : task[a] = "running" /\ analyses[a].by = p} IN
          /\ Fails(p, inHand(p) \cup {analyses[a].event : a \in cut})
          /\ task' = [a \in DOMAIN task |-> IF a \in cut THEN "lost" ELSE task[a]]
    /\ Disconnected(p)
    /\ Leave({s \in Subscribers : server[s] = p})
    /\ UNCHANGED <<now, rows, emitting, analyses, feed>>

Tick ==
    /\ now < MaxTime
    /\ now' = now + 1
    /\ UNCHANGED <<emitVars, listenVars, runVars, brokerVars, failVars>>

------------------------------------------------------------------------------

ListenerStep(p) == Load(p) \/ Precreate(p) \/ Mark(p)

Next ==
    \/ \E e \in Emitters :
          \/ \E c \in Candidates, o \in Orders : EmitReads(e, c, o)
          \/ EmitCommits(e)
          \/ EmitFails(e)
    \/ \E s \in Subscribers :
          \/ subscribe(s)
          \/ unsubscribe(s)
          \/ Receive(s)
    \/ \E p \in Processes : Connect(p) \/ ListenerStep(p) \/ LoadFails(p) \/ Drop(p) \/ Crash(p)
    \/ \E a \in 1 .. Len(analyses) : FinishRun(a) \/ RunRaises(a)
    \/ Tick

\* The event loop of each process runs its listener and its tasks, and run_analysis
\* ends: its model calls are timed out.
Fairness ==
    /\ \A p \in Processes : WF_vars(ListenerStep(p))
    /\ \A a \in 1 .. MaxEvents * Cardinality(Processes) :
          WF_vars(a \in 1 .. Len(analyses) /\ (FinishRun(a) \/ RunRaises(a)))

Spec == Init /\ [][Next]_vars

FairSpec == Spec /\ Fairness

------------------------------------------------------------------------------
(* Safety. *)

\* The debounce: two rows with one key within the window come from emitters that
\* overlapped, so that the later one could not see the row of the earlier.
DebounceHolds ==
    \A i, j \in 1 .. Len(rows) :
        /\ i < j
        /\ rows[i].key = rows[j].key
        /\ rows[j].at - rows[i].at <= DEBOUNCE_WINDOW
        => rows[j].saw < i

\* What an event costs: it is refreshed only by processes that were listening when it
\* was committed, and once by each of them, whatever fails between the transactions of
\* their handlers.  So a deployment, which overlaps two, may pay twice for one event,
\* and never three times.
OneRefreshPerListener ==
    \A a, b \in 1 .. Len(analyses) :
        /\ analyses[a].by \in rows[analyses[a].event].heard
        /\ analyses[a] = analyses[b] => a = b

\* The marks and the tasks agree: an event is marked only with an analysis that was
\* opened for it and whose task was started, and no task runs for an unmarked event,
\* whichever of two listeners marked last.
MarksAgree ==
    /\ \A i \in 1 .. Len(rows) : rows[i].analysis # 0 =>
          \E a \in 1 .. Len(analyses) :
              a = rows[i].analysis /\ analyses[a].event = i /\ task[a] # "none"
    /\ \A a \in 1 .. Len(analyses) :
          task[a] # "none" => rows[analyses[a].event].analysis # 0

\* "Drop the oldest so the UI stays current": what waits for a subscriber is always
\* the latest envelopes of its process, in order and without a gap, and envelopes are
\* missing only for a subscriber whose queue is full.
SubscribersStayCurrent ==
    \A s \in subscribed :
        LET first == Len(feed[server[s]]) - Len(queue[s]) IN
        /\ \A n \in 1 .. Len(queue[s]) : queue[s][n] = first + n
        /\ first >= seen[s]
        /\ first > seen[s] => Len(queue[s]) = max_queue_size

\* In no process does an update overtake the event it answers.
UpdateFollowsEvent ==
    \A p \in Processes : \A n \in 1 .. Len(feed[p]) :
        feed[p][n].kind = "analysis_updated" =>
            \E m \in 1 .. n - 1 : feed[p][m] = [kind |-> "event", event |-> feed[p][n].event]

------------------------------------------------------------------------------
(* Liveness. *)

Answered(p, i) ==
    \E a \in 1 .. Len(analyses) :
        analyses[a] = [event |-> i, by |-> p] /\ task[a] \in {"ended", "raised"}

\* An event on the watchlist is answered by every process that was notified of it,
\* unless a failure takes just this event out of the hands of just this process.
\* (Both are for good, so that this is a leads-to for each process and row.)
NotifiedIsAnswered ==
    []<>(\A i \in 1 .. Len(rows) : rows[i].key[1] \in Watched =>
            \A p \in rows[i].heard : Answered(p, i) \/ <<p, i>> \in lost)

------------------------------------------------------------------------------
(* What the code says of itself. *)

\* "The 15-minute debounce collapses repeated identical events from the same
\* detector into a single row": one row for a candidate in a window.
OneRowPerWindow ==
    \A i, j \in 1 .. Len(rows) :
        i < j /\ rows[i].key[1] = rows[j].key[1] => rows[j].at - rows[i].at > DEBOUNCE_WINDOW

==============================================================================
