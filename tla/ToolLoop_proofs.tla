--------------------------- MODULE ToolLoop_proofs ---------------------------
(***************************************************************************)
(* Proofs about ToolLoop, for any caps, prices and growth of the input.    *)
(***************************************************************************)
EXTENDS ToolLoop, TLAPS

\* The loop's own total is the bill, and a request is only ever under way below
\* both caps.
CostInv ==
    /\ cost_usd = billed
    /\ result # NoResult => pc = "done" /\ result.cost_usd = billed
    /\ pc = "respond" => model_calls < max_calls /\ cost_usd < max_cost_usd
    /\ model_calls <= max_calls
    /\ model_calls > 0 => cost_usd - lastCost < max_cost_usd

Alternates(m) ==
    \A i \in 1 .. Len(m) : m[i].role = IF i % 2 = 1 THEN "user" ELSE "assistant"

Answered(m) ==
    \A i \in 1 .. Len(m) - 1 : m[i].role = "assistant" => m[i + 1].tools = m[i].tools

\* The conversation is complete between rounds and lacks one user turn while tools
\* are dispatched.
TalkInv ==
    /\ Alternates(messages)
    /\ Answered(messages)
    /\ pc \in {"check", "respond"} => Len(messages) % 2 = 1
    /\ pc = "dispatch" => Len(messages) > 0 /\ Len(messages) % 2 = 0 /\ pending > 0

LoopInv == TypeOK /\ CostInv /\ TalkInv

LEMMA InitLoopInv == Init => LoopInv
  <1> SUFFICES ASSUME Init PROVE LoopInv
    OBVIOUS
  <1>1. TypeOK
    BY CapsAssumption, CostAssumption, ToolsAssumption
       DEF Init, TypeOK, Turn, Message, NoResult
  <1>2. CostInv
    BY <1>1, CapsAssumption DEF Init, CostInv, TypeOK
  <1>3. TalkInv
    BY DEF Init, TalkInv, Alternates, Answered, Turn
  <1> QED
    BY <1>1, <1>2, <1>3 DEF LoopInv

LEMMA TypeStep == LoopInv /\ [Next]_vars => TypeOK'
  <1> SUFFICES ASSUME LoopInv, [Next]_vars PROVE TypeOK'
    OBVIOUS
  <1> USE CapsAssumption, CostAssumption, ToolsAssumption DEF LoopInv, TypeOK, loopVars
  <1>1. CASE Exhausted
    BY <1>1 DEF Exhausted, Return, Statuses
  <1>2. CASE AbortedCap
    BY <1>2 DEF AbortedCap, Return, Statuses
  <1>3. CASE AbortedInput
    BY <1>3 DEF AbortedInput, Return, Statuses
  <1>4. CASE Request
    BY <1>4 DEF Request
  <1>5. ASSUME NEW cost \in CallCosts, NEW n \in 1 .. MaxTools, AsksTools(cost, n) PROVE TypeOK'
    <2>1. Turn("assistant", n) \in Message
      BY DEF Turn, Message
    <2>2. messages' \in Seq(Message)
      BY <1>5, <2>1 DEF AsksTools
    <2> QED
      BY <1>5, <2>2 DEF AsksTools, Count
  <1>6. ASSUME NEW cost \in CallCosts, NEW g \in Growth, Reprompt(cost, g) PROVE TypeOK'
    <2>1. Turn("assistant", 0) \in Message /\ Turn("user", 0) \in Message
      BY DEF Turn, Message
    <2>2. messages' \in Seq(Message)
      BY <1>6, <2>1 DEF Reprompt
    <2> QED
      BY <1>6, <2>2 DEF Reprompt, Count
  <1>7. ASSUME NEW cost \in CallCosts, Parsed(cost) \/ AnswerRaises(cost)
      PROVE  TypeOK'
    BY <1>7 DEF Parsed, AnswerRaises, Count, Statuses
  <1>8. ASSUME NEW g \in Growth, ToolReturns(g) PROVE TypeOK'
    <2>1. messages[Len(messages)] \in Message /\ pending > 0
      BY <1>8 DEF ToolReturns, TalkInv
    <2>2. Turn("user", messages[Len(messages)].tools) \in Message
      BY <2>1 DEF Turn, Message
    <2>3. messages' \in Seq(Message)
      BY <1>8, <2>2 DEF ToolReturns
    <2> QED
      BY <1>8, <2>1, <2>3 DEF ToolReturns
  <1>9. CASE Raises
    BY <1>9 DEF Raises, Return, Statuses
  <1>10. CASE Cancelled
    BY <1>10 DEF Cancelled
  <1>11. CASE UNCHANGED vars
    BY <1>11 DEF vars
  <1> QED
    BY <1>1, <1>2, <1>3, <1>4, <1>5, <1>6, <1>7, <1>8, <1>9, <1>10, <1>11 DEF Next

LEMMA CostStep == LoopInv /\ [Next]_vars => CostInv'
  <1> SUFFICES ASSUME LoopInv, [Next]_vars PROVE CostInv'
    OBVIOUS
  <1> USE CapsAssumption, CostAssumption DEF LoopInv, TypeOK, CostInv, loopVars
  <1>1. CASE Exhausted \/ AbortedCap \/ AbortedInput \/ Raises
    BY <1>1 DEF Exhausted, AbortedCap, AbortedInput, Raises, Return
  <1>2. CASE Request
    BY <1>2 DEF Request, AtCap
  <1>3. ASSUME NEW cost \in CallCosts, NEW n \in 1 .. MaxTools, AsksTools(cost, n) PROVE CostInv'
    BY <1>3 DEF AsksTools, Count
  <1>4. ASSUME NEW cost \in CallCosts, NEW g \in Growth, Reprompt(cost, g) PROVE CostInv'
    BY <1>4 DEF Reprompt, Count
  <1>5. ASSUME NEW cost \in CallCosts, Parsed(cost) \/ AnswerRaises(cost)
      PROVE  CostInv'
    BY <1>5 DEF Parsed, AnswerRaises, Count
  <1>6. ASSUME NEW g \in Growth, ToolReturns(g) PROVE CostInv'
    BY <1>6 DEF ToolReturns
  <1>7. CASE Cancelled \/ UNCHANGED vars
    BY <1>7 DEF Cancelled, vars
  <1> QED
    BY <1>1, <1>2, <1>3, <1>4, <1>5, <1>6, <1>7 DEF Next

\* One more turn of the right role keeps the roles alternating.
LEMMA AppendTurn ==
    ASSUME NEW m \in Seq(Message), Alternates(m), Answered(m), NEW t \in Message,
           t.role = IF Len(m) % 2 = 0 THEN "user" ELSE "assistant",
           Len(m) > 0 /\ m[Len(m)].role = "assistant" => t.tools = m[Len(m)].tools
    PROVE  /\ Alternates(Append(m, t))
           /\ Answered(Append(m, t))
           /\ Len(Append(m, t)) = Len(m) + 1
           /\ Append(m, t)[Len(m) + 1] = t
  <1> DEFINE a == Append(m, t)
  <1>1. /\ a \in Seq(Message) /\ Len(a) = Len(m) + 1 /\ a[Len(m) + 1] = t
        /\ \A i \in 1 .. Len(m) : a[i] = m[i]
    OBVIOUS
  <1>2. Len(m) \in Nat
    OBVIOUS
  <1> HIDE DEF a
  <1>3. Alternates(a)
    <2> SUFFICES ASSUME NEW i \in 1 .. Len(a)
                 PROVE  a[i].role = IF i % 2 = 1 THEN "user" ELSE "assistant"
      BY DEF Alternates
    <2>1. CASE i \in 1 .. Len(m)
      BY <1>1, <2>1 DEF Alternates
    <2>2. CASE i = Len(m) + 1
      BY <1>1, <1>2, <2>2
    <2> QED
      BY <1>1, <1>2, <2>1, <2>2
  <1>4. Answered(a)
    <2> SUFFICES ASSUME NEW i \in 1 .. Len(a) - 1, a[i].role = "assistant"
                 PROVE  a[i + 1].tools = a[i].tools
      BY DEF Answered
    <2>1. i \in 1 .. Len(m) /\ a[i] = m[i]
      BY <1>1, <1>2
    <2>2. CASE i = Len(m)
      BY <1>1, <2>1, <2>2
    <2>3. CASE i # Len(m)
      <3>1. i \in 1 .. Len(m) - 1 /\ i + 1 \in 1 .. Len(m)
        BY <1>2, <2>1, <2>3
      <3> QED
        BY <1>1, <2>1, <3>1 DEF Answered
    <2> QED
      BY <2>2, <2>3
  <1> QED
    BY <1>1, <1>3, <1>4 DEF a

LEMMA TalkStep == LoopInv /\ [Next]_vars => TalkInv'
  <1> SUFFICES ASSUME LoopInv, [Next]_vars PROVE TalkInv'
    OBVIOUS
  <1> USE ToolsAssumption DEF LoopInv, TypeOK, TalkInv, loopVars
  <1>1. CASE Exhausted \/ AbortedCap \/ AbortedInput \/ Raises
    BY <1>1 DEF Exhausted, AbortedCap, AbortedInput, Raises, Return
  <1>2. CASE Request
    BY <1>2 DEF Request
  <1>3. ASSUME NEW cost \in CallCosts, NEW n \in 1 .. MaxTools, AsksTools(cost, n) PROVE TalkInv'
    <2> DEFINE t == Turn("assistant", n)
    <2>1. pc = "respond" /\ messages' = Append(messages, t) /\ pc' = "dispatch" /\ pending' = n
      BY <1>3 DEF AsksTools
    <2>2. t \in Message /\ t.role = "assistant"
      BY DEF Turn, Message
    <2>3. Len(messages) > 0 /\ messages[Len(messages)].role = "user"
      BY <2>1 DEF Alternates
    <2>4. Alternates(messages') /\ Answered(messages') /\ Len(messages') = Len(messages) + 1
      BY <2>1, <2>2, <2>3, AppendTurn
    <2> QED
      BY <2>1, <2>4
  <1>4. ASSUME NEW cost \in CallCosts, NEW g \in Growth, Reprompt(cost, g) PROVE TalkInv'
    <2> DEFINE t == Turn("assistant", 0)
               u == Turn("user", 0)
               m == Append(messages, t)
    <2>1. pc = "respond" /\ pc' = "check"
      BY <1>4 DEF Reprompt
    <2>2. t \in Message /\ t.role = "assistant" /\ u \in Message /\ u.role = "user" /\ u.tools = t.tools
      BY DEF Turn, Message
    <2>3. messages' = Append(m, u)
      BY <1>4, <2>2 DEF Reprompt
    <2>4. Len(messages) > 0 /\ messages[Len(messages)].role = "user"
      BY <2>1 DEF Alternates
    <2>5. Alternates(m) /\ Answered(m) /\ Len(m) = Len(messages) + 1 /\ m[Len(m)] = t
      BY <2>1, <2>2, <2>4, AppendTurn
    <2>6. m \in Seq(Message)
      BY <2>2
    <2> HIDE DEF m, t, u
    <2>7. Len(m) \in Nat /\ Len(m) % 2 = 0 /\ u.tools = m[Len(m)].tools
      BY <2>1, <2>2, <2>5
    <2>8. Alternates(Append(m, u)) /\ Answered(Append(m, u)) /\ Len(Append(m, u)) = Len(m) + 1
      BY <2>2, <2>5, <2>6, <2>7, AppendTurn
    <2> QED
      BY <2>1, <2>3, <2>7, <2>8
  <1>5. ASSUME NEW cost \in CallCosts, Parsed(cost) \/ AnswerRaises(cost)
      PROVE  TalkInv'
    BY <1>5 DEF Parsed, AnswerRaises
  <1>6. ASSUME NEW g \in Growth, ToolReturns(g) PROVE TalkInv'
    <2>1. CASE pending = 1
      <3> DEFINE t == Turn("user", messages[Len(messages)].tools)
      <3>1. pc = "dispatch" /\ pc' = "check" /\ messages' = Append(messages, t)
        BY <1>6, <2>1 DEF ToolReturns
      <3>2. messages[Len(messages)] \in Message
        BY <3>1
      <3>3. t \in Message /\ t.role = "user" /\ t.tools = messages[Len(messages)].tools
        BY <3>2 DEF Turn, Message
      <3> HIDE DEF t
      <3>4. Alternates(messages') /\ Answered(messages') /\ Len(messages') = Len(messages) + 1
        BY <3>1, <3>3, AppendTurn
      <3> QED
        BY <3>1, <3>4
    <2>2. CASE pending # 1
      BY <1>6, <2>2 DEF ToolReturns
    <2> QED
      BY <2>1, <2>2
  <1>7. CASE Cancelled \/ UNCHANGED vars
    BY <1>7 DEF Cancelled, vars
  <1> QED
    BY <1>1, <1>2, <1>3, <1>4, <1>5, <1>6, <1>7 DEF Next

------------------------------------------------------------------------------

THEOREM LoopInvariance == Spec => []LoopInv
  <1>1. LoopInv /\ [Next]_vars => LoopInv'
    BY TypeStep, CostStep, TalkStep DEF LoopInv
  <1> QED
    BY InitLoopInv, <1>1, PTL DEF Spec

\* Every variable of the loop keeps its type; the iterations keep to their limit.
THEOREM LoopTypes == Spec => []TypeOK
  <1>1. LoopInv => TypeOK
    BY DEF LoopInv
  <1> QED
    BY LoopInvariance, <1>1, PTL

\* No exit of the loop loses the cost of a call that was made.
THEOREM NoSpendIsLost == Spec => []SpendIsReported
  <1>1. LoopInv => SpendIsReported
    BY DEF LoopInv, CostInv, SpendIsReported
  <1> QED
    BY LoopInvariance, <1>1, PTL

\* Whatever a call costs, the cap is exceeded by less than one call.
THEOREM TheCapsBind == Spec => []CapsBind
  <1>1. LoopInv => CapsBind
    BY DEF LoopInv, CostInv, CapsBind
  <1> QED
    BY LoopInvariance, <1>1, PTL

\* Every request carries a conversation whose turns alternate and whose tool
\* requests are all answered.
THEOREM EveryRequestIsWellFormed == Spec => []ConversationIsWellFormed
  <1>1. LoopInv => ConversationIsWellFormed
    BY DEF LoopInv, TypeOK, TalkInv, Alternates, Answered, ConversationIsWellFormed
  <1> QED
    BY LoopInvariance, <1>1, PTL

==============================================================================
