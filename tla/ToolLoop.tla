------------------------------ MODULE ToolLoop -------------------------------
(***************************************************************************)
(* run_tool_loop: one specialist's conversation with the model, under its  *)
(* caps on calls, on cost and on the size of its input.                    *)
(*                                                                         *)
(* The model may ask for tools, answer with a valid output or with an      *)
(* invalid one, or raise; a tool may raise; the task may be cancelled.     *)
(* Money is counted in whole units.  The messages are abstracted to their  *)
(* roles and, for the turns that ask for or bring tool results, the number *)
(* of tools; what they hold only shows in the estimate of their cost,      *)
(* where what a call asked with is counted with what the call brought.     *)
(***************************************************************************)
EXTENDS Integers, Sequences

CONSTANTS
    max_iterations,
    max_cost_usd,
    CallCaps,        \* the caps on calls that may be configured
    CallCosts,       \* what one model call may cost
    Growth,          \* what one turn may add to the estimated cost of the input
    MaxTools         \* bound: tools the model asks for in one turn

ASSUME CapsAssumption ==
    /\ max_iterations \in Nat
    /\ max_cost_usd \in Nat
    /\ CallCaps \subseteq Nat

ASSUME CostAssumption == CallCosts \subseteq Nat /\ Growth \subseteq Nat

ASSUME ToolsAssumption == MaxTools \in Nat

VARIABLES
    pc,           \* where the loop is
    max_calls,    \* the cap on calls, looked up when the loop starts
    iterations,   \* iterations begun
    model_calls,
    cost_usd,
    lastCost,     \* the cost of the latest call
    billed,       \* what the calls made so far have cost, kept outside the loop
    est_in,       \* estimated input cost of the next request
    messages,     \* the conversation
    pending,      \* tools of the current turn still to dispatch
    result        \* the SpecialistResult, or NoResult

loopVars == <<max_calls, iterations, model_calls, cost_usd, lastCost, billed>>
vars == <<pc, loopVars, est_in, messages, pending, result>>

Message == [role : {"user", "assistant"}, tools : 0 .. MaxTools]

NoResult == [status |-> "none", cost_usd |-> 0]

Statuses == {"ok", "error", "aborted_cap", "input_too_large"}

TypeOK ==
    /\ pc \in {"check", "respond", "dispatch", "done", "cancelled"}
    /\ max_calls \in CallCaps
    /\ iterations \in 0 .. max_iterations
    /\ model_calls \in Nat
    /\ cost_usd \in Nat
    /\ lastCost \in Nat
    /\ billed \in Nat
    /\ est_in \in Nat
    /\ messages \in Seq(Message)
    /\ pending \in 0 .. MaxTools
    /\ result \in [status : Statuses, cost_usd : Nat] \cup {NoResult}

Turn(role, tools) == [role |-> role, tools |-> tools]

Init ==
    /\ pc = "check"
    /\ max_calls \in CallCaps
    /\ iterations = 0
    /\ model_calls = 0
    /\ cost_usd = 0
    /\ lastCost = 0
    /\ billed = 0
    /\ est_in \in Growth
    /\ messages = <<Turn("user", 0)>>
    /\ pending = 0
    /\ result = NoResult

------------------------------------------------------------------------------
(* The end of the loop. *)

\* Mutant: the cost is not carried into the result.
Return_without_cost(status) ==
    /\ pc' = "done"
    /\ result' = [status |-> status, cost_usd |-> 0]

\* Every exit builds its result from the totals kept so far.
Return(status) ==
    /\ pc' = "done"
    /\ result' = [status |-> status, cost_usd |-> cost_usd]

\* The iterations are used up.
Exhausted ==
    /\ pc = "check"
    /\ iterations = max_iterations
    /\ Return("aborted_cap")
    /\ UNCHANGED <<loopVars, est_in, messages, pending>>

AtCap == model_calls >= max_calls \/ cost_usd >= max_cost_usd

\* _aborted_cap
AbortedCap ==
    /\ pc = "check"
    /\ iterations < max_iterations
    /\ AtCap
    /\ Return("aborted_cap")
    /\ UNCHANGED <<loopVars, est_in, messages, pending>>

\* INPUT_COST_CAP_FRACTION is 0.60.
InputTooLarge == 10 * est_in > 6 * max_cost_usd

\* _input_too_large
AbortedInput ==
    /\ pc = "check"
    /\ iterations < max_iterations
    /\ ~ AtCap
    /\ InputTooLarge
    /\ Return("input_too_large")
    /\ UNCHANGED <<loopVars, est_in, messages, pending>>

------------------------------------------------------------------------------
(* One iteration. *)

\* Mutant: the cost cap is only looked at before the first call.
Request_without_cost_cap ==
    /\ pc = "check"
    /\ iterations < max_iterations
    /\ model_calls < max_calls
    /\ ~ InputTooLarge
    /\ pc' = "respond"
    /\ iterations' = iterations + 1
    /\ UNCHANGED <<max_calls, model_calls, cost_usd, lastCost, billed, est_in, messages, pending,
                   result>>

\* Mutant: the loop is not limited to max_iterations.
Request_unlimited ==
    /\ pc = "check"
    /\ ~ AtCap
    /\ ~ InputTooLarge
    /\ pc' = "respond"
    /\ iterations' = iterations + 1
    /\ UNCHANGED <<max_calls, model_calls, cost_usd, lastCost, billed, est_in, messages, pending,
                   result>>

\* The checks passed: the request is sent and awaited.
Request ==
    /\ pc = "check"
    /\ iterations < max_iterations
    /\ ~ AtCap
    /\ ~ InputTooLarge
    /\ pc' = "respond"
    /\ iterations' = iterations + 1
    /\ UNCHANGED <<max_calls, model_calls, cost_usd, lastCost, billed, est_in, messages, pending,
                   result>>

Count(cost) ==
    /\ model_calls' = model_calls + 1
    /\ cost_usd' = cost_usd + cost
    /\ lastCost' = cost
    /\ billed' = billed + cost
    /\ UNCHANGED <<max_calls, iterations>>

\* The model asks for n tools; they are dispatched one after the other.
AsksTools(cost, n) ==
    /\ pc = "respond"
    /\ Count(cost)
    /\ messages' = Append(messages, Turn("assistant", n))
    /\ pending' = n
    /\ pc' = "dispatch"
    /\ UNCHANGED <<est_in, result>>

\* A tool returned; what failed inside it is a result too.  The last one sends the
\* loop round with all results in one turn.
ToolReturns(g) ==
    /\ pc = "dispatch"
    /\ pending' = pending - 1
    /\ est_in' = est_in + g
    /\ IF pending = 1
       THEN /\ messages' = Append(messages, Turn("user", messages[Len(messages)].tools))
            /\ pc' = "check"
       ELSE UNCHANGED <<messages, pc>>
    /\ UNCHANGED <<loopVars, result>>

\* Mutant: the invalid answer is not shown to the model again.
Reprompt_alone(cost, g) ==
    /\ pc = "respond"
    /\ Count(cost)
    /\ messages' = Append(messages, Turn("user", 0))
    /\ est_in' = est_in + g
    /\ pc' = "check"
    /\ UNCHANGED <<pending, result>>

\* The answer does not parse: it is quoted back with what is wrong with it.
Reprompt(cost, g) ==
    /\ pc = "respond"
    /\ Count(cost)
    /\ messages' = messages \o <<Turn("assistant", 0), Turn("user", 0)>>
    /\ est_in' = est_in + g
    /\ pc' = "check"
    /\ UNCHANGED <<pending, result>>

\* The answer parses.
Parsed(cost) ==
    /\ pc = "respond"
    /\ Count(cost)
    /\ pc' = "done"
    /\ result' = [status |-> "ok", cost_usd |-> cost_usd']
    /\ UNCHANGED <<est_in, messages, pending>>

\* Mutant: an exception is left to run_specialist, that records no cost.
Raises_uncaught ==
    /\ pc \in {"respond", "dispatch"}
    /\ Return_without_cost("error")
    /\ UNCHANGED <<loopVars, est_in, messages, pending>>

\* The model or a tool raised.
Raises ==
    /\ pc \in {"respond", "dispatch"}
    /\ Return("error")
    /\ UNCHANGED <<loopVars, est_in, messages, pending>>

\* Validating the answer of a counted call raised something else than try_parse catches.
AnswerRaises(cost) ==
    /\ pc = "respond"
    /\ Count(cost)
    /\ pc' = "done"
    /\ result' = [status |-> "error", cost_usd |-> cost_usd']
    /\ UNCHANGED <<est_in, messages, pending>>

\* CancelledError is no Exception: there is no result.
Cancelled ==
    /\ pc \in {"respond", "dispatch"}
    /\ pc' = "cancelled"
    /\ UNCHANGED <<loopVars, est_in, messages, pending, result>>

------------------------------------------------------------------------------

Next ==
    \/ Exhausted
    \/ AbortedCap
    \/ AbortedInput
    \/ Request
    \/ \E cost \in CallCosts :
          \/ \E n \in 1 .. MaxTools : AsksTools(cost, n)
          \/ \E g \in Growth : Reprompt(cost, g)
          \/ Parsed(cost)
          \/ AnswerRaises(cost)
    \/ \E g \in Growth : ToolReturns(g)
    \/ Raises
    \/ Cancelled

Spec == Init /\ [][Next]_vars

------------------------------------------------------------------------------
(* Safety. *)

\* "Wrap the whole loop so a transient API error or tool exception still surfaces a
\* SpecialistResult carrying the partial cost": whichever way the loop ends with a
\* result, the result says what the calls cost.
SpendIsReported == result # NoResult => result.cost_usd = billed

\* However the model behaves, it is called at most max_calls times, and each call
\* was made while the cost was under its cap: the cap is exceeded by less than the
\* price of one call.
CapsBind ==
    /\ model_calls <= max_calls
    /\ model_calls > 0 => cost_usd - lastCost < max_cost_usd

\* What is sent to the model is a conversation it accepts: turns alternate, the
\* user has the last word, and a turn that asks for tools is followed by one that
\* brings as many results, after reprompts and in every order of the two.
ConversationIsWellFormed ==
    pc = "respond" =>
        /\ \A i \in 1 .. Len(messages) :
              messages[i].role = IF i % 2 = 1 THEN "user" ELSE "assistant"
        /\ Len(messages) % 2 = 1
        /\ \A i \in 1 .. Len(messages) - 1 :
              messages[i].role = "assistant" => messages[i + 1].tools = messages[i].tools

------------------------------------------------------------------------------
(* What the code says of itself. *)

\* "Checked BEFORE the next call so we never blow past the limit by 1 call / by the
\* cost of one extra invocation."
NeverPastTheLimit == model_calls <= max_calls /\ cost_usd <= max_cost_usd

==============================================================================
