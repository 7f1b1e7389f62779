----------------------------- MODULE AdvisorChat -----------------------------
(***************************************************************************)
(* Chat sessions with the advisor: a posted message is stored, answered by *)
(* a loop of model calls and tool calls whose frames are streamed to the   *)
(* client, and the answer is stored after it was streamed.                 *)
(*                                                                         *)
(* A message is its role and, for an answer, how many tool calls it made   *)
(* and the analyses they named.  Every transaction is an action, so a      *)
(* session may be deleted, another message posted or the process lost      *)
(* between any two.                                                        *)
(***************************************************************************)
EXTENDS AnalysisRoutes, Sequences, SequencesExt

CONSTANTS
    Sessions,       \* session ids
    Turns,          \* posted messages under way
    max_iterations, \* model calls in one turn
    MaxCalls        \* bound: tool calls in one turn

ASSUME ChatAssumption == {max_iterations, MaxCalls} \subseteq Nat \ {0}

VARIABLES
    session,   \* session[s]: the chat_sessions row and its chat_messages rows
    turn,      \* turn[t]: a message being answered
    uncounted  \* history variable: messages of s whose count was lost with their turn

chatVars == <<session, turn, uncounted>>

NoTurn == [of |-> None, at |-> "idle", rounds |-> 0, tools |-> 0, refs |-> {}]

ChatInit ==
    /\ session = [s \in Sessions |-> [status |-> "none", messages |-> <<>>, count |-> 0]]
    /\ turn = [t \in Turns |-> NoTurn]
    /\ uncounted = [s \in Sessions |-> 0]

Open(s) == session[s].status = "open"

create_session(s) ==
    /\ session[s].status = "none"
    /\ session' = [session EXCEPT ![s].status = "open"]
    /\ UNCHANGED <<turn, uncounted>>

\* The foreign key of chat_messages cascades.
delete_session(s) ==
    /\ Open(s)
    /\ session' = [session EXCEPT ![s] = [status |-> "deleted", messages |-> <<>>, count |-> 0]]
    /\ uncounted' = [uncounted EXCEPT ![s] = 0]
    /\ UNCHANGED turn

UserMessage == [role |-> "user", tools |-> 0, refs |-> {}]

\* post_message: an unknown session is a 404; otherwise the history is read and
\* the user's message is stored.
SaveQuestion(t, s) ==
    /\ turn[t].at = "idle"
    /\ Open(s)
    /\ session' = [session EXCEPT ![s].messages = Append(@, UserMessage)]
    /\ turn' = [turn EXCEPT ![t] = [NoTurn EXCEPT !.of = s, !.at = "saved"]]
    /\ UNCHANGED uncounted

\* Mutant: the count is set from the messages seen when the turn began.
bumped_from_snapshot(s, count) == Len(SelectSeq(session[s].messages, LAMBDA m : m.role = "user"))

\* message_count is incremented by the UPDATE itself.
bumped(s, count) == count + 1

\* _bump_session of the question: a session deleted meanwhile is a 500 before
\* anything is streamed.
CountQuestion(t) ==
    LET s == turn[t].of IN
    /\ turn[t].at = "saved"
    /\ IF Open(s)
       THEN /\ session' = [session EXCEPT ![s].count = bumped(s, @)]
            /\ turn' = [turn EXCEPT ![t].at = "thinking"]
       ELSE /\ turn' = [turn EXCEPT ![t] = NoTurn]
            /\ UNCHANGED session
    /\ UNCHANGED uncounted

\* Mutant: the loop forgets its limit.
may_iterate_always(t) == TRUE

may_iterate(t) == turn[t].rounds < max_iterations

\* A model call that asks for tools: dispatch_tool answers each one (an unknown
\* tool or a failing one with an error result); refs is what the results name.
UseTools(t, calls, refs) ==
    /\ turn[t].at = "thinking"
    /\ may_iterate(t)
    /\ turn' = [turn EXCEPT ![t].rounds = @ + 1, ![t].tools = @ + calls, ![t].refs = @ \cup refs]
    /\ UNCHANGED <<session, uncounted>>

\* The answer: a model call without tools, or the iteration budget is used up.
\* The client has the message_complete frame.
Complete(t) ==
    /\ turn[t].at = "thinking"
    /\ turn' = [turn EXCEPT ![t].at = "complete", ![t].rounds = IF may_iterate(t) THEN @ + 1 ELSE @]
    /\ UNCHANGED <<session, uncounted>>

\* The assistant row; without its session the foreign key refuses it and the
\* client gets an error frame.
SaveAnswer(t) ==
    LET s == turn[t].of
        answer == [role |-> "assistant", tools |-> turn[t].tools, refs |-> turn[t].refs]
    IN
    /\ turn[t].at = "complete"
    /\ IF Open(s)
       THEN /\ session' = [session EXCEPT ![s].messages = Append(@, answer)]
            /\ turn' = [turn EXCEPT ![t].at = "answered"]
       ELSE /\ turn' = [turn EXCEPT ![t] = NoTurn]
            /\ UNCHANGED session
    /\ UNCHANGED uncounted

\* _bump_session of the answer: an UPDATE of no row when the session is gone.
CountAnswer(t) ==
    LET s == turn[t].of IN
    /\ turn[t].at = "answered"
    /\ session' = IF Open(s) THEN [session EXCEPT ![s].count = bumped(s, @)] ELSE session
    /\ turn' = [turn EXCEPT ![t] = NoTurn]
    /\ UNCHANGED uncounted

\* The client disconnects or a model call fails while the turn is thinking, or the
\* process dies anywhere: the turn stops where it is.
TurnStops(t) ==
    /\ turn[t].at # "idle"
    /\ turn' = [turn EXCEPT ![t] = NoTurn]
    /\ uncounted' = IF turn[t].at \in {"saved", "answered"} /\ Open(turn[t].of)
                    THEN [uncounted EXCEPT ![turn[t].of] = @ + 1]
                    ELSE uncounted
    /\ UNCHANGED session

ChatRequest ==
    \E s \in Sessions :
       \/ create_session(s)
       \/ delete_session(s)
       \/ \E t \in Turns : SaveQuestion(t, s)

TurnStep(t) == CountQuestion(t) \/ Complete(t) \/ SaveAnswer(t) \/ CountAnswer(t)

\* Tools that only read; get_latest_analysis and get_peers name analyses that exist.
ReadTools(t) ==
    /\ \E calls \in 1 .. MaxCalls - turn[t].tools, refs \in SUBSET {a \in Analyses : Exists(a)} :
          UseTools(t, calls, refs)
    /\ UNCHANGED routeVars

\* run_quick_analysis runs the pipeline under a fresh id, with no pending row, no
\* idempotency key and no look at the daily cap.  Its result names the id whether
\* the pipeline published or was blocked; only an exception leaves it out.
RunQuickAnalysis(t, a) ==
    /\ turn[t].tools < MaxCalls
    /\ req[a].at = "new" /\ row[a] = Absent
    /\ req' = [req EXCEPT ![a].at = "taken"]
    /\ \/ /\ UseTools(t, 1, {a})
          /\ \E status \in {"succeeded", "failed"}, cost \in 0 .. MaxSynthCost :
                row' = [row EXCEPT ![a] = [Absent EXCEPT !.status = status, !.cost = cost,
                                                         !.since = minute]]
       \/ /\ \E refs \in {{a}, {}} : UseTools(t, 1, refs)
          /\ UNCHANGED row
    /\ UNCHANGED <<minute, task, graphVars>>

-----------------------------------------------------------------------------
(* Replay: _build_anthropic_history                                        *)

\* A stored tool call has no id (post_message collects name, input and result), so
\* each tool_use gets a random one and each tool_result the constant one.
ToolUseId(i, j) == <<"toolu", i, j>>
ToolResultId(i, j) == <<"toolu_unknown">>

Replayed(messages, i) ==
    LET m == messages[i] IN
    IF m.role = "user" THEN <<[role |-> "user", uses |-> {}, results |-> {}]>>
    ELSE <<[role |-> "assistant", uses |-> {ToolUseId(i, j) : j \in 1 .. m.tools}, results |-> {}]>>
         \o IF m.tools = 0 THEN <<>>
            ELSE <<[role |-> "user", uses |-> {},
                    results |-> {ToolResultId(i, j) : j \in 1 .. m.tools}]>>

History(messages) == FlattenSeq([i \in 1 .. Len(messages) |-> Replayed(messages, i)])

-----------------------------------------------------------------------------
(* Properties                                                              *)

ChatTypeOK ==
    /\ session \in [Sessions -> [status : {"none", "open", "deleted"}, count : Nat,
                                 messages : Seq([role : {"user", "assistant"}, tools : 0 .. MaxCalls,
                                                 refs : SUBSET Analyses])]]
    /\ turn \in [Turns -> [of : Sessions \cup {None}, at : {"idle", "saved", "thinking", "complete", "answered"},
                          rounds : 0 .. max_iterations, tools : 0 .. MaxCalls, refs : SUBSET Analyses]]
    /\ uncounted \in [Sessions -> Nat]

\* Turns of s that have stored a message and not counted it yet.
Counting(s) == {t \in Turns : turn[t].of = s /\ turn[t].at \in {"saved", "answered"}}

\* message_count is the number of messages, less those some turn is about to count
\* and those whose turn was lost before it did (routes/chat.py:169-185, 240-270).
CountTracksMessages ==
    \A s \in Sessions : Open(s) =>
        Len(session[s].messages) = session[s].count + Cardinality(Counting(s)) + uncounted[s]

\* What the model is given on the next turn: results answer the tool calls of the
\* assistant message right before them, each of them once.
ReplayAnswersToolUse ==
    \A s \in Sessions :
        LET h == History(session[s].messages) IN
        \A i \in 1 .. Len(h) : h[i].results # {} => i > 1 /\ h[i].results = h[i - 1].uses

=============================================================================
