-------------------------- MODULE ChatDrawerProofs ---------------------------
(***************************************************************************)
(* The tool loop and the drawer, for any number of runs, tools, steps and  *)
(* retries.                                                                *)
(*                                                                         *)
(* That an answer passed the check is the end of a check that others       *)
(* commit runs under: Checked says, of each place in it, what has been     *)
(* established and stays.  The budget has to count what the turn at hand   *)
(* has used (Spent).  Shape says which turn there is at which place, and   *)
(* how far its calls are answered.                                         *)
(***************************************************************************)
EXTENDS ChatDrawer, SequenceTheorems, FiniteSetTheorems, FunctionTheorems,
        WellFoundedInduction, TLAPS

Asking == {"stream", "post", "turn", "ground"}

Shape ==
  /\ pc \notin {"ask", "ended"} => step > 0
  /\ \A s \in 1 .. MaxSteps : s > step \/ (s = step /\ pc \in Asking)
                              => trace[s] = <<>>
  /\ pc = "stream" => turn.calls = <<>>
  /\ pc = "turn" => turn \in Turns
  /\ pc \in {"call", "wait"} =>
       /\ turn.calls # <<>>
       /\ Len(trace[step]) < Len(turn.calls)
       /\ surface = "harness" => Disallowed = {}
       /\ \A i \in 1 .. Len(trace[step]) : trace[step][i].tool = turn.calls[i]
  /\ outcome # "none" <=> pc = "ended"
  /\ approvals # {} => outcome = "approval_required"

Streams == IF surface = "chat" /\ provider = "ollama" THEN 1 ELSE 0

Spent ==
  /\ pc = "stream" => requests <= (step - 1) * TurnBudget + Streams
  /\ pc = "post"   => requests <= (step - 1) * TurnBudget + Streams + attempt
  /\ requests <= step * TurnBudget

Checked ==
  /\ pc = "ground" =>
       /\ unfound \subseteq uncompared
       /\ uncompared \subseteq Cited(turn.text)
       /\ Cited(turn.text) \ unfound \subseteq committed
       /\ \A r \in Cited(turn.text) \ (uncompared \union skipped) :
            ~Contradicts(turn.text, r)
  /\ AnswersPassedCheck

LoopInv == TypeOK /\ Shape /\ Spent /\ Checked /\ NothingOfADisallowedTurn
             /\ EveryCallAnswered

News == [type : {"token"}, delta : Sentences]
          \union [type : {"tool_started"}, tool : Tools]
          \union [type : {"tool_result"}, tool : Tools, ok : BOOLEAN]
          \union [type : {"result"}, status : Outcomes]

\* The result is the last of the events, so that what is shown of it stays.
Delivered ==
  /\ events \in Seq(News)
  /\ read \in 0 .. Len(events)
  /\ bubble = [kind |-> bubble.kind, text |-> bubble.text]
  /\ \A i \in 1 .. Len(events) : events[i].type = "result" =>
       pc = "ended" /\ i = Len(events) /\ events[i].status = outcome
  /\ error \/ bubble.kind = "answer" => pc = "ended" /\ read = Len(events)
  /\ bubble.kind = "answer" =>
       outcome = "success" /\ bubble.text = turn.text /\ ~error
-----------------------------------------------------------------------------
\* Sequences of sentences and of calls.
LEMMA ListFacts ==
  ASSUME NEW S, NEW m \in Nat, NEW t \in UNION {[1 .. n -> S] : n \in 1 .. m}
  PROVE  /\ t \in Seq(S) /\ Len(t) \in 1 .. m /\ t # <<>>
         /\ DOMAIN t = 1 .. Len(t)
<1>1. PICK n \in 1 .. m : t \in [1 .. n -> S]
  OBVIOUS
<1>2. t \in Seq(S)
  BY <1>1, SeqDef
<1>3. Len(t) = n
  BY <1>1, <1>2, LenProperties
<1>. QED
  BY <1>1, <1>2, <1>3, LenProperties, EmptySeq

\* A text, or what there is of it.
LEMMA TextIsSeq == \A t \in Texts \union {<<>>} : t \in Seq(Sentences)
<1>1. ASSUME NEW t \in Texts PROVE t \in Seq(Sentences)
  <2>. MaxText \in Nat
    BY GroundingAssumption
  <2>. QED
    BY <1>1, ListFacts DEF Texts
<1>2. <<>> \in Seq(Sentences)
  BY EmptySeq
<1>. QED
  BY <1>1, <1>2

\* A streamed text keeps to the bound.
LEMMA LongerText ==
  ASSUME NEW t \in Texts \union {<<>>}, Len(t) < MaxText, NEW s \in Sentences
  PROVE  Append(t, s) \in Texts
<1>. MaxText \in Nat
  BY GroundingAssumption
<1>1. t \in Seq(Sentences)
  BY TextIsSeq
<1>2. /\ Append(t, s) \in Seq(Sentences)
      /\ Len(Append(t, s)) = Len(t) + 1
  BY <1>1, AppendProperties
<1>3. Append(t, s) \in [1 .. Len(t) + 1 -> Sentences]
  BY <1>2, LenProperties
<1>4. Len(t) + 1 \in 1 .. MaxText
  BY <1>1, LenProperties
<1>. QED
  BY <1>3, <1>4 DEF Texts

\* The turns of the adapters.
LEMMA TurnFacts ==
  /\ \A m \in Messages : TurnOf(m) \in Turns \union {NoTurn}
  /\ \A t \in Turns \union {NoTurn} :
       /\ t.text \in Texts \union {<<>>} /\ t.calls \in CallLists \union {<<>>}
       /\ t.calls = <<>> => t = TextTurn(t.text)
  /\ \A t \in Texts \union {<<>>} : TextTurn(t) \in Turns \union {NoTurn}
  /\ \A t \in Turns : t # NoTurn
<1>1. <<>> \notin Texts /\ <<>> \notin CallLists
  <2>. MaxText \in Nat /\ MaxCalls \in Nat
    BY GroundingAssumption, LoopAssumption
  <2>. QED
    BY ListFacts DEF Texts, CallLists
<1>2. \A t \in Texts \union {<<>>} : TextTurn(t) \in Turns \union {NoTurn}
  BY DEF Turns, TextTurn, NoTurn
<1>3. \A c \in CallLists : CallTurn(c) \in Turns
  BY DEF Turns
<1>4. ASSUME NEW m \in Messages
      PROVE  TurnOf(m) \in Turns \union {NoTurn}
  <2>1. m.content \in Texts \union {<<>>} /\ m.calls \in CallLists \union {<<>>}
    BY DEF Messages
  <2>2. OllamaTurn(m) \in Turns \union {NoTurn}
    BY <2>1, <1>2, <1>3 DEF OllamaTurn
  <2>3. OpenAITurn(m) \in Turns \union {NoTurn}
    BY <2>1, <1>2, <1>3 DEF OpenAITurn
  <2>. QED
    BY <2>2, <2>3 DEF TurnOf
<1>5. ASSUME NEW t \in Turns \union {NoTurn}
      PROVE  /\ t.text \in Texts \union {<<>>} /\ t.calls \in CallLists \union {<<>>}
             /\ t.calls = <<>> => t = TextTurn(t.text)
  BY <1>1 DEF Turns, TextTurn, CallTurn, NoTurn
<1>6. \A t \in Turns : t # NoTurn
  BY <1>1 DEF Turns, TextTurn, CallTurn, NoTurn
<1>. QED
  BY <1>2, <1>4, <1>5, <1>6

\* The call that is next.
LEMMA CurrentFacts ==
  ASSUME TypeOK, Shape, pc \in {"call", "wait"}
  PROVE  /\ step \in 1 .. MaxSteps
         /\ turn.calls \in Seq(Tools)
         /\ trace[step] \in Seq(Answers)
         /\ Len(trace[step]) + 1 \in 1 .. Len(turn.calls)
         /\ Current \in Tools
<1>1. step \in 1 .. MaxSteps /\ MaxCalls \in Nat
  BY LoopAssumption DEF TypeOK, Shape
<1>2. turn.calls \in CallLists
  BY TurnFacts DEF TypeOK, Shape
<1>3. turn.calls \in Seq(Tools) /\ Len(turn.calls) \in Nat
  BY <1>1, <1>2, ListFacts DEF CallLists
<1>4. trace[step] \in Seq(Answers) /\ Len(trace[step]) \in Nat
  BY <1>1, LenProperties DEF TypeOK
<1>5. Len(trace[step]) + 1 \in 1 .. Len(turn.calls)
  BY <1>3, <1>4 DEF Shape
<1>. QED
  BY <1>1, <1>3, <1>4, <1>5, ElementOfSeq DEF Current
-----------------------------------------------------------------------------
\* The loop starts with nothing asked and nothing spent.
LEMMA LoopInit == Init => LoopInv
<1>. SUFFICES ASSUME Init PROVE LoopInv
  OBVIOUS
<1>. MaxSteps \in Nat \ {0} /\ MaxRetries \in Nat
  BY LoopAssumption
<1>1. TypeOK
  BY EmptySeq DEF Init, TypeOK, Places
<1>2. Shape
  BY DEF Init, Shape, Asking, NoTurn
<1>3. Spent
  BY DEF Init, Spent, TurnBudget, Streams
<1>4. Checked
  BY DEF Init, Checked, AnswersPassedCheck
<1>5. NothingOfADisallowedTurn /\ EveryCallAnswered
  BY DEF Init, NothingOfADisallowedTurn, EveryCallAnswered
<1>. QED
  BY <1>1, <1>2, <1>3, <1>4, <1>5 DEF LoopInv

\* What an answered call leaves.
LEMMA AnswerTypes ==
  ASSUME TypeOK, Shape, pc = "wait",
         NEW ok \in BOOLEAN, NEW cached \in BOOLEAN, Answer(ok, cached)
  PROVE  trace' \in [1 .. MaxSteps -> Seq(Answers)] /\ pc' \in Places
<1>1. [tool |-> Current, ok |-> ok, cached |-> cached] \in Answers
  BY CurrentFacts DEF Answers
<1>2. Append(trace[step], [tool |-> Current, ok |-> ok, cached |-> cached])
        \in Seq(Answers)
  BY <1>1, CurrentFacts, AppendProperties
<1>. QED
  BY <1>2, CurrentFacts DEF Answer, TypeOK, Places

\* One action after the other.
LEMMA TypeStep == TypeOK /\ Shape /\ LoopNext => TypeOK'
<1>. SUFFICES ASSUME TypeOK, Shape, LoopNext PROVE TypeOK'
  OBVIOUS
<1>. USE DEF fixed, checks
<1>. MaxSteps \in Nat \ {0} /\ MaxRetries \in Nat
  BY LoopAssumption
<1>1. CASE Ask
  <2>1. NoTurn \in Turns \union {NoTurn}
    OBVIOUS
  <2>. QED
    BY <1>1, <2>1 DEF Ask, End, TypeOK, Places, Outcomes
<1>2. CASE StreamDelta
  <2>1. PICK s \in Sentences : turn' = TextTurn(Append(turn.text, s))
    BY <1>2 DEF StreamDelta
  <2>2. turn' \in Turns
    <3>1. turn.text \in Texts \union {<<>>} /\ Len(turn.text) < MaxText
      BY <1>2, TurnFacts DEF StreamDelta, TypeOK
    <3>. QED
      BY <2>1, <3>1, LongerText DEF Turns
  <2>. QED
    BY <1>2, <2>2 DEF StreamDelta, TypeOK
<1>3. CASE StreamEnd
  BY <1>3 DEF StreamEnd, TypeOK, Places
<1>4. CASE StreamBreak \/ GiveUp
  BY <1>4 DEF StreamBreak, GiveUp, End, TypeOK, Places, Outcomes
<1>5. CASE Answered
  BY <1>5, TurnFacts DEF Answered, TypeOK, Places
<1>6. CASE Retry
  BY <1>6 DEF Retry, TypeOK
<1>7. CASE TakeText
  <2>1. Cited(turn.text) \subseteq Runs
    <3>1. turn.text \in Texts \union {<<>>}
      BY TurnFacts DEF TypeOK
    <3>2. \A i \in DOMAIN turn.text : turn.text[i].run \in Runs \union {NoRun}
      <4>1. CASE turn.text = <<>>
        BY <4>1
      <4>2. CASE turn.text \in Texts
        BY <4>2, GroundingAssumption DEF Texts
      <4>. QED
        BY <3>1, <4>1, <4>2
    <3>. QED
      BY <3>2 DEF Cited
  <2>. QED
    BY <1>7, <2>1 DEF TakeText, End, TypeOK, Places, Outcomes
<1>8. CASE TakeCalls
  BY <1>8 DEF TakeCalls, TypeOK, Places
<1>9. CASE NeedApproval
  <2>1. \A i \in Disallowed : turn.calls[i] \in Tools
    <3>. MaxCalls \in Nat
      BY LoopAssumption
    <3>1. turn.calls \in CallLists \union {<<>>}
      BY TurnFacts DEF TypeOK
    <3>2. CASE turn.calls = <<>>
      BY <3>2 DEF Disallowed
    <3>3. CASE turn.calls \in CallLists
      BY <3>3 DEF Disallowed, CallLists
    <3>. QED
      BY <3>1, <3>2, <3>3
  <2>. QED
    BY <1>9, <2>1 DEF NeedApproval, End, TypeOK, Places, Outcomes
<1>10. ASSUME NEW r \in Runs, CheckManifest(r) \/ CheckMetrics(r)
       PROVE  TypeOK'
  BY <1>10 DEF CheckManifest, CheckMetrics, Comparing, PassOver, End, TypeOK, Places, Outcomes
<1>11. CASE StartCall
  BY <1>11 DEF StartCall, TypeOK, Places
<1>12. CASE AnswerUnknown \/ AnswerCached \/ AnswerExecuted
  <2>1. PICK ok \in BOOLEAN, cached \in BOOLEAN : pc = "wait" /\ Answer(ok, cached)
    BY <1>12 DEF AnswerUnknown, AnswerCached, AnswerExecuted
  <2>2. memo' \subseteq Memoised
    BY <1>12 DEF AnswerUnknown, AnswerCached, AnswerExecuted, TypeOK
  <2>3. trace' \in [1 .. MaxSteps -> Seq(Answers)] /\ pc' \in Places
    BY <2>1, AnswerTypes
  <2>. QED
    BY <2>1, <2>2, <2>3 DEF Answer, TypeOK
<1>13. CASE CallRaises
  BY <1>13 DEF CallRaises, End, TypeOK, Places, Outcomes
<1>14. ASSUME NEW r \in Runs, Commit(r)
       PROVE  TypeOK'
  BY <1>14 DEF Commit, TypeOK
<1>. QED
  BY <1>1, <1>2, <1>3, <1>4, <1>5, <1>6, <1>7, <1>8, <1>9, <1>10, <1>11, <1>12,
     <1>13, <1>14 DEF LoopNext, Work

\* The answered calls of the turn, one more: Answer.
LEMMA OneMoreAnswer ==
  ASSUME TypeOK, Shape, pc = "wait",
         NEW ok \in BOOLEAN, NEW cached \in BOOLEAN, Answer(ok, cached)
  PROVE  /\ trace'[step] \in Seq(Answers)
         /\ Len(trace'[step]) = Len(trace[step]) + 1
         /\ \A i \in 1 .. Len(trace'[step]) : trace'[step][i].tool = turn.calls[i]
         /\ \A s \in 1 .. MaxSteps : s # step => trace'[s] = trace[s]
<1>. DEFINE new == [tool |-> Current, ok |-> ok, cached |-> cached]
<1>1. new \in Answers
  BY CurrentFacts DEF Answers
<1>2. trace' = [trace EXCEPT ![step] = Append(trace[step], new)]
  BY DEF Answer
<1>3. trace'[step] = Append(trace[step], new)
  BY <1>2, CurrentFacts DEF TypeOK
<1>4. \A s \in 1 .. MaxSteps : s # step => trace'[s] = trace[s]
  BY <1>2 DEF TypeOK
<1>. HIDE DEF new
<1>5. /\ Append(trace[step], new) \in Seq(Answers)
      /\ Len(Append(trace[step], new)) = Len(trace[step]) + 1
      /\ \A i \in 1 .. Len(trace[step]) : Append(trace[step], new)[i] = trace[step][i]
      /\ Append(trace[step], new)[Len(trace[step]) + 1] = new
  BY <1>1, CurrentFacts, AppendProperties
<1>6. new.tool = turn.calls[Len(trace[step]) + 1]
  BY DEF new, Current
<1>7. ASSUME NEW i \in 1 .. Len(trace'[step])
      PROVE  trace'[step][i].tool = turn.calls[i]
  <2>1. Len(trace[step]) \in Nat
    BY CurrentFacts, LenProperties
  <2>2. CASE i = Len(trace[step]) + 1
    BY <2>2, <1>3, <1>5, <1>6
  <2>3. CASE i \in 1 .. Len(trace[step])
    BY <2>3, <1>3, <1>5 DEF Shape
  <2>. QED
    BY <1>3, <1>5, <2>1, <2>2, <2>3
<1>. QED
  BY <1>3, <1>4, <1>5, <1>7

\* Which turn there is where, and how far its calls are answered.
LEMMA ShapeStep == TypeOK /\ Shape /\ LoopNext => Shape'
<1>. SUFFICES ASSUME TypeOK, Shape, LoopNext PROVE Shape'
  OBVIOUS
<1>. USE DEF fixed, checks
<1>. MaxSteps \in Nat \ {0} /\ MaxRetries \in Nat /\ step \in 0 .. MaxSteps
  BY LoopAssumption DEF TypeOK
<1>1. CASE Ask
  BY <1>1 DEF Ask, End, Shape, Asking, NoTurn
<1>2. CASE StreamDelta
  BY <1>2 DEF StreamDelta, Shape, Asking, TextTurn
<1>3. CASE StreamEnd
  <2>1. turn # NoTurn => turn \in Turns
    BY DEF TypeOK
  <2>. QED
    BY <1>3, <2>1 DEF StreamEnd, Shape, Asking
<1>4. CASE StreamBreak \/ GiveUp \/ CallRaises
  BY <1>4 DEF StreamBreak, GiveUp, CallRaises, End, Shape, Asking
<1>5. CASE Answered
  <2>1. turn' \in Turns
    BY <1>5, TurnFacts DEF Answered
  <2>. QED
    BY <1>5, <2>1 DEF Answered, Shape, Asking
<1>6. CASE Retry
  BY <1>6 DEF Retry, Shape, Asking
<1>7. CASE TakeText
  BY <1>7 DEF TakeText, End, Shape, Asking
<1>8. CASE TakeCalls
  <2>1. step > 0 /\ trace[step] = <<>>
    BY <1>8 DEF TakeCalls, Shape, Asking
  <2>2. Len(turn.calls) > 0
    <3>. MaxCalls \in Nat
      BY LoopAssumption
    <3>1. turn.calls \in CallLists
      BY <1>8, TurnFacts DEF TakeCalls, TypeOK
    <3>. QED
      BY <3>1, ListFacts DEF CallLists
  <2>3. Disallowed' = Disallowed
    BY <1>8 DEF TakeCalls, Disallowed
  <2>4. pc' = "call" /\ UNCHANGED <<surface, step, turn, trace, outcome, approvals>>
        /\ turn.calls # <<>> /\ (surface = "harness" => Disallowed = {})
    BY <1>8 DEF TakeCalls
  <2>. QED
    BY <2>1, <2>2, <2>3, <2>4, <1>8 DEF TakeCalls, Shape, Asking
<1>9. CASE NeedApproval
  BY <1>9 DEF NeedApproval, End, Shape, Asking
<1>10. ASSUME NEW r \in Runs, CheckManifest(r) \/ CheckMetrics(r)
       PROVE  Shape'
  BY <1>10 DEF CheckManifest, CheckMetrics, Comparing, PassOver, End, Shape, Asking
<1>11. CASE StartCall
  <2>1. Disallowed' = Disallowed
    BY <1>11 DEF StartCall, Disallowed
  <2>. QED
    BY <1>11, <2>1 DEF StartCall, Shape, Asking
<1>12. CASE AnswerUnknown \/ AnswerCached \/ AnswerExecuted
  <2>1. PICK ok \in BOOLEAN, cached \in BOOLEAN : pc = "wait" /\ Answer(ok, cached)
    BY <1>12 DEF AnswerUnknown, AnswerCached, AnswerExecuted
  <2>2. /\ Len(trace'[step]) = Len(trace[step]) + 1
        /\ \A i \in 1 .. Len(trace'[step]) : trace'[step][i].tool = turn.calls[i]
        /\ \A s \in 1 .. MaxSteps : s # step => trace'[s] = trace[s]
    BY <2>1, OneMoreAnswer
  <2>3. UNCHANGED <<surface, step, turn, outcome, approvals>>
    BY <2>1 DEF Answer
  <2>4. pc' = IF Len(trace[step]) + 1 = Len(turn.calls) THEN "ask" ELSE "call"
    BY <2>1 DEF Answer
  <2>5. Disallowed' = Disallowed
    BY <2>3 DEF Disallowed
  <2>6. /\ step > 0 /\ turn.calls # <<>> /\ (surface = "harness" => Disallowed = {})
        /\ Len(trace[step]) + 1 \in 1 .. Len(turn.calls)
        /\ Len(turn.calls) \in Nat
    BY <2>1, CurrentFacts, LenProperties DEF Shape
  <2>. QED
    BY <2>1, <2>2, <2>3, <2>4, <2>5, <2>6 DEF Shape, Asking
<1>13. ASSUME NEW r \in Runs, Commit(r)
       PROVE  Shape'
  <2>1. Disallowed' = Disallowed
    BY <1>13 DEF Commit, Disallowed
  <2>. QED
    BY <1>13, <2>1 DEF Commit, Shape, Asking
<1>. QED
  BY <1>1, <1>2, <1>3, <1>4, <1>5, <1>6, <1>7, <1>8, <1>9, <1>10, <1>11, <1>12,
     <1>13 DEF LoopNext, Work

\* What the turns before the one at hand may have used, and it.
LEMMA BudgetFacts ==
  ASSUME TypeOK
  PROVE  /\ TurnBudget \in Nat /\ Streams \in Nat
         /\ TurnBudget = MaxRetries + 1 + Streams
         /\ step > 0 => /\ (step - 1) * TurnBudget \in Nat
                        /\ step * TurnBudget = (step - 1) * TurnBudget + TurnBudget
<1>1. MaxRetries \in Nat /\ step \in Nat
  BY LoopAssumption DEF TypeOK
<1>2. Streams \in Nat /\ TurnBudget = MaxRetries + 1 + Streams
  BY DEF Streams, TurnBudget
<1>3. TurnBudget \in Nat
  BY <1>1, <1>2
<1>4. ASSUME step > 0
      PROVE  /\ (step - 1) * TurnBudget \in Nat
             /\ step * TurnBudget = (step - 1) * TurnBudget + TurnBudget
  <2>. HIDE DEF TurnBudget
  <2>. QED
    BY <1>1, <1>3, <1>4
<1>. QED
  BY <1>1, <1>2, <1>3, <1>4

\* Each request is one of the budget of the turn at hand.
LEMMA SpentStep == TypeOK /\ Shape /\ Spent /\ LoopNext => Spent'
<1>. SUFFICES ASSUME TypeOK, Shape, Spent, LoopNext PROVE Spent'
  OBVIOUS
<1>. USE DEF fixed, checks
<1>. /\ MaxSteps \in Nat \ {0} /\ MaxRetries \in Nat /\ step \in Nat
     /\ attempt \in 0 .. MaxRetries /\ requests \in Nat
  BY LoopAssumption DEF TypeOK
<1>. DEFINE before == (step - 1) * TurnBudget
            upto   == step * TurnBudget
<1>0. /\ TurnBudget \in Nat /\ Streams \in Nat /\ TurnBudget = MaxRetries + 1 + Streams
      /\ step > 0 => before \in Nat /\ upto = before + TurnBudget
  BY BudgetFacts
<1>a. /\ pc = "stream" => requests <= before + Streams
      /\ pc = "post" => requests <= before + Streams + attempt
      /\ requests <= upto
  BY DEF Spent
<1>b. UNCHANGED <<surface, provider>>
  BY DEF LoopNext, Work, Ask, StreamDelta, StreamEnd, StreamBreak, Answered, Retry,
         GiveUp, TakeText, TakeCalls, NeedApproval, CheckManifest, CheckMetrics, Comparing,
         PassOver,
         StartCall, AnswerUnknown, AnswerCached, AnswerExecuted, Answer,
         CallRaises, Commit
<1>c. TurnBudget' = TurnBudget /\ Streams' = Streams
  BY <1>b DEF TurnBudget, Streams
<1>d. upto \in Nat
  <2>. HIDE DEF TurnBudget
  <2>. QED
    BY <1>0
<1>1. CASE Ask
  <2>1. CASE pc' = "ended"
    <3>1. UNCHANGED <<requests, step>>
      BY <1>1, <2>1 DEF Ask
    <3>. QED
      BY <1>c, <2>1, <3>1 DEF Spent
  <2>2. CASE pc' # "ended"
    <3>1. step' = step + 1 /\ attempt' = 0
          /\ (\/ pc' = "stream" /\ requests' = requests + 1
                 /\ surface = "chat" /\ provider = "ollama"
              \/ pc' = "post" /\ requests' = requests)
      BY <1>1, <2>2 DEF Ask, End
    <3>2. pc' = "stream" => Streams = 1
      BY <3>1 DEF Streams
    <3>3. (step' - 1) * TurnBudget' = upto /\ step' * TurnBudget' = upto + TurnBudget
      <4>1. step' - 1 = step /\ step' * TurnBudget = step * TurnBudget + TurnBudget
        <5>. HIDE DEF TurnBudget, upto
        <5>. QED
          BY <1>0, <3>1 DEF upto
      <4>. QED
        BY <4>1, <1>c
    <3>. HIDE DEF upto, before
    <3>4. /\ pc' = "stream" => requests' <= upto + Streams
          /\ pc' = "post" => requests' <= upto + Streams + attempt'
          /\ requests' <= upto + TurnBudget
      BY <1>0, <1>a, <1>d, <3>1, <3>2
    <3>. QED
      BY <1>c, <3>3, <3>4 DEF Spent
  <2>. QED
    BY <2>1, <2>2
<1>2. CASE Answered \/ GiveUp \/ Retry
  <2>1. /\ pc = "post" /\ step' = step /\ requests' = requests + 1
        /\ \/ pc' \in {"turn", "ended"}
           \/ pc' = "post" /\ attempt' = attempt + 1 /\ attempt < MaxRetries
    BY <1>2 DEF Answered, GiveUp, Retry, End
  <2>2. step > 0
    BY <2>1 DEF Shape
  <2>. HIDE DEF upto, before
  <2>3. /\ pc' = "post" => requests' <= before + Streams + attempt'
        /\ requests' <= upto
        /\ pc' # "stream"
    BY <1>0, <1>a, <2>1, <2>2
  <2>. QED
    BY <1>c, <2>1, <2>3 DEF Spent, upto, before
<1>3. CASE StreamDelta
  BY <1>3, <1>c DEF StreamDelta, Spent
<1>4. CASE StreamEnd
  <2>1. pc = "stream" /\ pc' \in {"post", "turn"}
        /\ UNCHANGED <<step, requests, attempt>>
    BY <1>4 DEF StreamEnd
  <2>2. step > 0
    BY <2>1 DEF Shape
  <2>. HIDE DEF upto, before
  <2>3. /\ pc' = "post" => requests' <= before + Streams + attempt'
        /\ requests' <= upto
        /\ pc' # "stream"
    BY <1>0, <1>a, <2>1, <2>2
  <2>. QED
    BY <1>c, <2>1, <2>3 DEF Spent, upto, before
<1>5. ASSUME pc' \notin {"stream", "post"}, UNCHANGED <<step, requests>>
      PROVE  Spent'
  BY <1>5, <1>c DEF Spent
<1>6. CASE StreamBreak \/ CallRaises \/ NeedApproval
  BY <1>5, <1>6 DEF StreamBreak, CallRaises, NeedApproval, End
<1>7. CASE TakeText \/ TakeCalls \/ StartCall
  BY <1>5, <1>7 DEF TakeText, TakeCalls, StartCall, End
<1>8. ASSUME NEW r \in Runs, CheckManifest(r) \/ CheckMetrics(r)
      PROVE  Spent'
  BY <1>5, <1>8 DEF CheckManifest, CheckMetrics, Comparing, PassOver, End
<1>9. CASE AnswerUnknown \/ AnswerCached \/ AnswerExecuted
  BY <1>5, <1>9 DEF AnswerUnknown, AnswerCached, AnswerExecuted, Answer
<1>10. ASSUME NEW r \in Runs, Commit(r)
       PROVE  Spent'
  BY <1>10, <1>c DEF Commit, Spent
<1>. QED
  BY <1>1, <1>2, <1>3, <1>4, <1>6, <1>7, <1>8, <1>9, <1>10 DEF LoopNext, Work

\* What is established of an answer stays so, whatever is committed meanwhile.
LEMMA CheckedStep == TypeOK /\ Shape /\ Checked /\ LoopNext => Checked'
<1>. SUFFICES ASSUME TypeOK, Shape, Checked, LoopNext PROVE Checked'
  OBVIOUS
<1>. USE DEF fixed, checks
<1>1. ASSUME pc' \notin {"ground", "ended"}
      PROVE  Checked'
  <2>1. outcome' = "none"
    BY <1>1, ShapeStep DEF Shape
  <2>. QED
    BY <1>1, <2>1 DEF Checked, AnswersPassedCheck
<1>2. ASSUME pc' = "ended", outcome' # "success"
      PROVE  Checked'
  BY <1>2 DEF Checked, AnswersPassedCheck
<1>3. CASE Ask
  BY <1>1, <1>2, <1>3 DEF Ask, End
<1>4. CASE StreamDelta \/ StreamEnd \/ Answered \/ Retry \/ TakeCalls \/ StartCall
  BY <1>1, <1>4 DEF StreamDelta, StreamEnd, Answered, Retry, TakeCalls, StartCall
<1>5. CASE StreamBreak \/ GiveUp \/ NeedApproval \/ CallRaises
  BY <1>2, <1>5 DEF StreamBreak, GiveUp, NeedApproval, CallRaises, End
<1>6. CASE TakeText
  <2>1. /\ UNCHANGED <<turn, committed>>
        /\ unfound' = Cited(turn.text) /\ uncompared' = Cited(turn.text)
        /\ skipped' = {}
    BY <1>6 DEF TakeText
  <2>2. CASE Cited(turn.text) = {}
    <3>1. pc' = "ended" /\ PassesCheck(turn.text, committed, {})
      BY <1>6, <2>2 DEF TakeText, End, PassesCheck
    <3>. QED
      BY <2>1, <3>1 DEF Checked, AnswersPassedCheck
  <2>3. CASE Cited(turn.text) # {}
    <3>1. pc = "turn" /\ pc' = "ground" /\ UNCHANGED outcome
      BY <1>6, <2>3 DEF TakeText
    <3>2. outcome # "success"
      BY <3>1 DEF Shape
    <3>. QED
      BY <2>1, <3>1, <3>2 DEF Checked, AnswersPassedCheck
  <2>. QED
    BY <2>2, <2>3
<1>7. ASSUME NEW r \in Runs, CheckManifest(r)
      PROVE  Checked'
  <2>1. CASE r \in committed
    <3>1. /\ pc = "ground" /\ unfound' = unfound \ {r}
          /\ UNCHANGED <<pc, outcome, turn, committed, uncompared, skipped>>
      BY <1>7, <2>1 DEF CheckManifest
    <3>. QED
      BY <2>1, <3>1 DEF Checked, AnswersPassedCheck
  <2>2. CASE r \notin committed
    BY <1>2, <1>7, <2>2 DEF CheckManifest, End
  <2>. QED
    BY <2>1, <2>2
<1>8. ASSUME NEW r \in Runs, CheckMetrics(r)
      PROVE  Checked'
  <2>1. /\ pc = "ground" /\ r \in uncompared \ unfound
        /\ uncompared' = uncompared \ {r}
        /\ UNCHANGED <<turn, committed, unfound>>
    BY <1>8 DEF CheckMetrics, Comparing
  <2>2. CASE Contradicts(turn.text, r) /\ pc' = "ended" /\ outcome' = "ungrounded"
    BY <1>2, <2>2
  <2>3. CASE /\ PassOver(r)
             /\ \/ ~Contradicts(turn.text, r) /\ skipped' = skipped
                \/ skipped' = skipped \union {r}
    <3>1. \A q \in Cited(turn.text) \ (uncompared' \union skipped') :
            ~Contradicts(turn.text, q)
      BY <2>1, <2>3 DEF Checked
    <3>2. CASE uncompared = {r}
      <4>1. unfound = {} /\ Cited(turn.text) \subseteq committed /\ uncompared' = {}
        BY <2>1, <3>2 DEF Checked
      <4>2. pc' = "ended"
        BY <2>3, <3>2 DEF PassOver, End
      <4>3. PassesCheck(turn.text, committed, skipped')
        BY <3>1, <4>1 DEF PassesCheck
      <4>. QED
        BY <2>1, <4>2, <4>3 DEF Checked, AnswersPassedCheck, PassesCheck
    <3>3. CASE uncompared # {r}
      <4>1. UNCHANGED <<pc, outcome>>
        BY <2>3, <3>3 DEF PassOver
      <4>2. outcome # "success"
        BY <2>1 DEF Shape
      <4>. QED
        BY <2>1, <3>1, <4>1, <4>2 DEF Checked, AnswersPassedCheck
    <3>. QED
      BY <3>2, <3>3
  <2>4. CASE Contradicts(turn.text, r) /\ End("ungrounded")
    BY <2>2, <2>4 DEF End
  <2>. QED
    BY <1>8, <2>3, <2>4 DEF CheckMetrics
<1>9. CASE AnswerUnknown \/ AnswerCached \/ AnswerExecuted
  BY <1>1, <1>9 DEF AnswerUnknown, AnswerCached, AnswerExecuted, Answer
<1>10. ASSUME NEW r \in Runs, Commit(r)
       PROVE  Checked'
  <2>1. UNCHANGED <<pc, outcome, turn, unfound, uncompared, skipped>>
        /\ committed \subseteq committed'
    BY <1>10 DEF Commit
  <2>. QED
    BY <2>1 DEF Checked, AnswersPassedCheck, PassesCheck
<1>. QED
  BY <1>3, <1>4, <1>5, <1>6, <1>7, <1>8, <1>9, <1>10 DEF LoopNext, Work

\* A turn whose calls are executed has none outside the allowlist.
LEMMA DisallowedStep ==
  TypeOK /\ Shape /\ NothingOfADisallowedTurn /\ LoopNext
    => NothingOfADisallowedTurn'
<1>. SUFFICES ASSUME TypeOK, Shape, NothingOfADisallowedTurn, LoopNext
              PROVE  NothingOfADisallowedTurn'
  OBVIOUS
<1>. USE DEF fixed, checks
<1>. step \in 0 .. MaxSteps /\ MaxSteps \in Nat \ {0}
  BY LoopAssumption DEF TypeOK
<1>1. ASSUME UNCHANGED <<surface, step, turn, trace, approvals>>, approvals = {}
      PROVE  NothingOfADisallowedTurn'
  BY <1>1 DEF NothingOfADisallowedTurn, Disallowed
<1>2. approvals # {} => pc = "ended"
  BY DEF Shape
<1>3. CASE Ask
  <2>1. approvals = {} /\ approvals' = {}
    BY <1>2, <1>3 DEF Ask
  <2>2. CASE step' = step
    BY <1>1, <1>3, <2>1, <2>2 DEF Ask, End, NothingOfADisallowedTurn, Disallowed
  <2>3. CASE step' # step
    <3>1. step' = step + 1 /\ step' \in 1 .. MaxSteps /\ UNCHANGED trace
      BY <1>3, <2>3 DEF Ask
    <3>2. trace'[step'] = <<>>
      BY <3>1 DEF Shape
    <3>. QED
      BY <2>1, <3>2 DEF NothingOfADisallowedTurn
  <2>. QED
    BY <2>2, <2>3
<1>4. ASSUME pc \in Asking, UNCHANGED <<step, trace, approvals>>
      PROVE  NothingOfADisallowedTurn'
  <2>1. step \in 1 .. MaxSteps /\ trace[step] = <<>> /\ approvals = {}
    BY <1>2, <1>4 DEF Shape, Asking
  <2>. QED
    BY <1>4, <2>1 DEF NothingOfADisallowedTurn
<1>5. CASE StreamDelta \/ StreamEnd \/ StreamBreak \/ Answered \/ Retry \/ GiveUp
  BY <1>4, <1>5 DEF StreamDelta, StreamEnd, StreamBreak, Answered, Retry, GiveUp, Asking
<1>6. CASE TakeText \/ TakeCalls
  BY <1>4, <1>6 DEF TakeText, TakeCalls, Asking
<1>7. CASE NeedApproval
  <2>1. step \in 1 .. MaxSteps /\ trace[step] = <<>>
    BY <1>7 DEF NeedApproval, Shape, Asking
  <2>2. /\ UNCHANGED <<surface, turn, trace, step>> /\ Disallowed # {}
        /\ outcome' = "approval_required"
    BY <1>7 DEF NeedApproval, End
  <2>. QED
    BY <2>1, <2>2 DEF NothingOfADisallowedTurn, Disallowed
<1>8. ASSUME NEW r \in Runs, CheckManifest(r) \/ CheckMetrics(r)
      PROVE  NothingOfADisallowedTurn'
  BY <1>4, <1>8 DEF CheckManifest, CheckMetrics, Comparing,
       PassOver, End, Asking
<1>9. CASE StartCall \/ CallRaises
  BY <1>1, <1>2, <1>9 DEF StartCall, CallRaises
<1>10. CASE AnswerUnknown \/ AnswerCached \/ AnswerExecuted
  <2>1. pc = "wait" /\ UNCHANGED <<surface, turn, approvals>>
    BY <1>10 DEF AnswerUnknown, AnswerCached, AnswerExecuted, Answer
  <2>2. surface = "harness" => Disallowed = {}
    BY <2>1 DEF Shape
  <2>. QED
    BY <1>2, <2>1, <2>2 DEF NothingOfADisallowedTurn, Disallowed
<1>11. ASSUME NEW r \in Runs, Commit(r)
       PROVE  NothingOfADisallowedTurn'
  BY <1>11 DEF Commit, NothingOfADisallowedTurn, Disallowed
<1>. QED
  BY <1>3, <1>5, <1>6, <1>7, <1>8, <1>9, <1>10, <1>11 DEF LoopNext, Work

\* The last call's answer is the one that lets the provider be asked again.
LEMMA AnsweredStep ==
  TypeOK /\ Shape /\ EveryCallAnswered /\ LoopNext => EveryCallAnswered'
<1>. SUFFICES ASSUME TypeOK, Shape, EveryCallAnswered, LoopNext,
                     pc' = "ask", step' > 0
              PROVE  turn'.calls = [i \in DOMAIN trace'[step'] |-> trace'[step'][i].tool]
  BY DEF EveryCallAnswered
<1>. USE DEF fixed, checks
<1>1. CASE AnswerUnknown \/ AnswerCached \/ AnswerExecuted
  <2>1. PICK ok \in BOOLEAN, cached \in BOOLEAN : pc = "wait" /\ Answer(ok, cached)
    BY <1>1 DEF AnswerUnknown, AnswerCached, AnswerExecuted
  <2>2. UNCHANGED <<step, turn>> /\ Len(trace[step]) + 1 = Len(turn.calls)
    BY <2>1 DEF Answer
  <2>3. /\ trace'[step] \in Seq(Answers)
        /\ Len(trace'[step]) = Len(turn.calls)
        /\ \A i \in 1 .. Len(trace'[step]) : trace'[step][i].tool = turn.calls[i]
    BY <2>1, <2>2, OneMoreAnswer
  <2>4. turn.calls \in Seq(Tools)
    BY <2>1, CurrentFacts
  <2>5. /\ DOMAIN trace'[step] = 1 .. Len(turn.calls)
        /\ turn.calls \in [1 .. Len(turn.calls) -> Tools]
    BY <2>3, <2>4, LenProperties
  <2>6. turn.calls = [i \in 1 .. Len(turn.calls) |-> trace'[step][i].tool]
    BY <2>3, <2>5
  <2>. QED
    BY <2>2, <2>5, <2>6
<1>2. CASE \E r \in Runs : Commit(r)
  BY <1>2 DEF Commit, EveryCallAnswered
<1>. QED
  BY <1>1, <1>2
  DEF LoopNext, Work, Ask, StreamDelta, StreamEnd, StreamBreak, Answered, Retry,
      GiveUp, TakeText, TakeCalls, NeedApproval, CheckManifest, CheckMetrics, Comparing,
         PassOver,
      StartCall, CallRaises, End

\* Together, and for steps that leave the loop alone.
LEMMA LoopInvStep == LoopInv /\ [LoopNext]_loopVars => LoopInv'
<1>. SUFFICES ASSUME LoopInv, [LoopNext]_loopVars PROVE LoopInv'
  OBVIOUS
<1>1. CASE LoopNext
  BY <1>1, TypeStep, ShapeStep, SpentStep, CheckedStep, DisallowedStep, AnsweredStep
  DEF LoopInv
<1>2. CASE UNCHANGED loopVars
  <2>. USE <1>2 DEF loopVars, LoopInv
  <2>1. TypeOK'
    BY DEF TypeOK
  <2>2. Disallowed' = Disallowed
    BY DEF Disallowed
  <2>3. Shape'
    BY <2>2 DEF Shape
  <2>4. TurnBudget' = TurnBudget /\ Streams' = Streams
    BY DEF TurnBudget, Streams
  <2>5. Spent'
    BY <2>4 DEF Spent
  <2>6. Checked'
    BY DEF Checked, AnswersPassedCheck
  <2>7. NothingOfADisallowedTurn' /\ EveryCallAnswered'
    BY <2>2 DEF NothingOfADisallowedTurn, EveryCallAnswered
  <2>. QED
    BY <2>1, <2>3, <2>5, <2>6, <2>7
<1>. QED
  BY <1>1, <1>2

\* In every state of the loop: what is asked, spent, checked and answered so
\* far (the inductive invariant of run and chat).
THEOREM LoopInvariant == Spec => []LoopInv
<1>1. DrawerInit => LoopInv
  BY LoopInit DEF DrawerInit
<1>2. [Next]_vars => [LoopNext]_loopVars
  BY DEF Next, Read, vars, loopVars
<1>3. LoopInv /\ [Next]_vars => LoopInv'
  BY <1>2, LoopInvStep
<1>. QED
  BY <1>1, <1>3, PTL DEF Spec
-----------------------------------------------------------------------------
\* What on_event is told by a step of the loop, which ends with the result.
LEMMA Telling ==
  ASSUME TypeOK, Shape, LoopNext
  PROVE  /\ pc = "ended" => UNCHANGED <<pc, turn, outcome, events>>
         /\ \/ UNCHANGED events
            \/ \E news \in News :
                 /\ events' = Append(events, news)
                 /\ news.type = "result" => pc' = "ended" /\ news.status = outcome'
<1>. USE DEF fixed, checks
<1>1. CASE StreamEnd \/ Answered \/ Retry \/ TakeCalls
  BY <1>1 DEF StreamEnd, Answered, Retry, TakeCalls
<1>2. CASE \E r \in Runs : Commit(r)
  BY <1>2 DEF Commit
<1>3. ASSUME NEW how \in Outcomes, End(how), pc # "ended"
      PROVE  \/ UNCHANGED events
             \/ \E news \in News :
                  /\ events' = Append(events, news)
                  /\ news.type = "result" => pc' = "ended" /\ news.status = outcome'
  <2>1. [type |-> "result", status |-> how] \in News
    BY DEF News
  <2>. QED
    BY <1>3, <2>1 DEF End, Tell
<1>4. CASE StreamBreak \/ GiveUp \/ NeedApproval \/ CallRaises
  <2>1. \E how \in Outcomes : End(how) /\ pc # "ended"
    BY <1>4 DEF StreamBreak, GiveUp, NeedApproval, CallRaises, Outcomes
  <2>. QED
    BY <1>3, <2>1
<1>5. CASE Ask \/ TakeText \/ \E r \in Runs : CheckManifest(r) \/ CheckMetrics(r)
  <2>1. pc # "ended" /\ (UNCHANGED events \/ \E how \in Outcomes : End(how))
    BY <1>5 DEF Ask, TakeText, CheckManifest, CheckMetrics, Comparing,
       PassOver, Outcomes
  <2>. QED
    BY <1>3, <2>1
<1>6. CASE StreamDelta
  <2>1. PICK s \in Sentences : Tell([type |-> "token", delta |-> s])
    BY <1>6 DEF StreamDelta
  <2>2. [type |-> "token", delta |-> s] \in News
    BY DEF News
  <2>3. [type |-> "token", delta |-> s].type # "result"
    OBVIOUS
  <2>. QED
    BY <1>6, <2>1, <2>2, <2>3 DEF StreamDelta, Tell
<1>7. CASE StartCall
  <2>1. [type |-> "tool_started", tool |-> Current] \in News
    BY <1>7, CurrentFacts DEF StartCall, News
  <2>2. [type |-> "tool_started", tool |-> Current].type # "result"
    OBVIOUS
  <2>. QED
    BY <1>7, <2>1, <2>2 DEF StartCall, Tell
<1>8. CASE AnswerUnknown \/ AnswerCached \/ AnswerExecuted
  <2>1. PICK ok \in BOOLEAN, cached \in BOOLEAN : pc = "wait" /\ Answer(ok, cached)
    BY <1>8 DEF AnswerUnknown, AnswerCached, AnswerExecuted
  <2>2. [type |-> "tool_result", tool |-> Current, ok |-> ok] \in News
    BY <2>1, CurrentFacts DEF News
  <2>3. [type |-> "tool_result", tool |-> Current, ok |-> ok].type # "result"
    OBVIOUS
  <2>. QED
    BY <2>1, <2>2, <2>3 DEF Answer, Tell
<1>. QED
  BY <1>1, <1>2, <1>4, <1>5, <1>6, <1>7, <1>8 DEF LoopNext, Work

\* The result comes once; before it nothing is shown as an answer or error.
LEMMA DeliveredLoop ==
  LoopInv /\ Delivered /\ LoopNext /\ UNCHANGED drawerVars => Delivered'
<1>. SUFFICES ASSUME LoopInv, Delivered, LoopNext, UNCHANGED drawerVars
              PROVE  Delivered'
  OBVIOUS
<1>. TypeOK /\ Shape
  BY DEF LoopInv
<1>. UNCHANGED <<read, bubble, error>>
  BY DEF drawerVars
<1>1. CASE pc = "ended"
  <2>1. UNCHANGED <<pc, turn, outcome, events>>
    BY <1>1, Telling
  <2>. QED
    BY <2>1 DEF Delivered
<1>2. CASE pc # "ended"
  <2>1. ~error /\ bubble.kind # "answer"
        /\ \A i \in 1 .. Len(events) : events[i].type # "result"
    BY <1>2 DEF Delivered
  <2>2. CASE UNCHANGED events
    BY <2>1, <2>2 DEF Delivered
  <2>3. ASSUME NEW news \in News, events' = Append(events, news),
               news.type = "result" => pc' = "ended" /\ news.status = outcome'
        PROVE  Delivered'
    <3>1. /\ events' \in Seq(News) /\ Len(events') = Len(events) + 1
          /\ events'[Len(events) + 1] = news
          /\ \A i \in 1 .. Len(events) : events'[i] = events[i]
      BY <2>3, AppendProperties DEF Delivered
    <3>2. Len(events) \in Nat
      BY LenProperties DEF Delivered
    <3>3. \A i \in 1 .. Len(events') : i \in 1 .. Len(events) \/ i = Len(events')
      BY <3>1, <3>2
    <3>4. \A i \in 1 .. Len(events') : events'[i].type = "result" =>
            pc' = "ended" /\ i = Len(events') /\ events'[i].status = outcome'
      BY <2>1, <2>3, <3>1, <3>3
    <3>5. read \in 0 .. Len(events')
      BY <3>1, <3>2 DEF Delivered
    <3>. QED
      BY <2>1, <3>1, <3>4, <3>5 DEF Delivered
  <2>. QED
    BY <2>2, <2>3, Telling
<1>. QED
  BY <1>1, <1>2

\* The client reads the result last.
LEMMA DeliveredRead == Delivered /\ Read => Delivered'
<1>. SUFFICES ASSUME Delivered, Read PROVE Delivered'
  OBVIOUS
<1>1. UNCHANGED <<pc, outcome, turn, events>>
  BY DEF Read, loopVars
<1>2. Len(events) \in Nat /\ read \in Nat /\ read < Len(events)
      /\ read' = read + 1 /\ read + 1 \in 1 .. Len(events)
  BY LenProperties DEF Delivered, Read
<1>3. ~error /\ bubble.kind # "answer"
  BY <1>2 DEF Delivered
<1>4. CASE ReadToken \/ ReadTool
  <2>1. /\ UNCHANGED error /\ bubble'.kind = bubble.kind
        /\ bubble' = [kind |-> bubble'.kind, text |-> bubble'.text]
    BY <1>4 DEF ReadToken, ReadTool, Delivered
  <2>. QED
    BY <1>1, <1>2, <1>3, <2>1 DEF Delivered
<1>5. CASE ReadResult
  <2>1. pc = "ended" /\ read + 1 = Len(events) /\ events[read + 1].status = outcome
    BY <1>2, <1>5 DEF ReadResult, Delivered
  <2>2. CASE outcome = "success"
    <3>1. bubble' = [kind |-> "answer", text |-> turn.text] /\ UNCHANGED error
      BY <1>5, <2>1, <2>2 DEF ReadResult
    <3>2. bubble'.kind = "answer" /\ bubble'.text = turn.text
      BY <3>1
    <3>. QED
      BY <1>1, <1>2, <1>3, <2>1, <2>2, <3>1, <3>2 DEF Delivered
  <2>3. CASE outcome # "success"
    <3>1. bubble' = bubble \/ bubble' = [bubble EXCEPT !.kind = "none"]
      BY <1>5, <2>1, <2>3 DEF ReadResult
    <3>2. /\ bubble'.kind # "answer"
          /\ bubble' = [kind |-> bubble'.kind, text |-> bubble'.text]
      BY <1>3, <3>1 DEF Delivered
    <3>. QED
      BY <1>1, <1>2, <2>1, <3>2 DEF Delivered
  <2>. QED
    BY <2>2, <2>3
<1>. QED
  BY <1>4, <1>5 DEF Read

\* A result is the last thing a client of the stream is told, and what the
\* drawer made of it stays (runner and gen of chat_stream, ChatDrawer.tsx).
THEOREM DeliveredInvariant == Spec => []Delivered
<1>1. DrawerInit => Delivered
  BY EmptySeq DEF DrawerInit, Init, Delivered
<1>2. LoopInv /\ Delivered /\ [Next]_vars => Delivered'
  <2>1. ASSUME Delivered, UNCHANGED vars
        PROVE  Delivered'
    BY <2>1 DEF Delivered, vars
  <2>. QED
    BY <2>1, DeliveredLoop, DeliveredRead DEF Next
<1>. QED
  BY <1>1, <1>2, LoopInvariant, PTL DEF Spec
-----------------------------------------------------------------------------
\* The variables of the loop keep to their types.
THEOREM TypeCorrect == Spec => []TypeOK
<1>1. LoopInv => TypeOK
  BY DEF LoopInv
<1>. QED
  BY <1>1, LoopInvariant, PTL

\* An answer that is handed on cites only runs that can be read, and its claim
\* contradicts none of them, whatever runs are committed around its check
\* (_check_grounding of the harness and of the chat).
THEOREM AnswersChecked == Spec => []AnswersPassedCheck
<1>1. LoopInv => AnswersPassedCheck
  BY DEF LoopInv, Checked
<1>. QED
  BY <1>1, LoopInvariant, PTL

\* The provider gets a bounded number of requests for each turn, however it
\* fails and whatever it asks for (max_steps, _post_with_retries, _run_stream).
THEOREM RequestsBounded == Spec => []RequestBudget
<1>1. LoopInv => RequestBudget
  BY DEF LoopInv, Spent, RequestBudget
<1>. QED
  BY <1>1, LoopInvariant, PTL

\* The harness executes no call of a turn that has one outside the allowlist
\* (AgentHarness.run).
THEOREM DisallowedTurnsDoNothing == Spec => []NothingOfADisallowedTurn
<1>1. LoopInv => NothingOfADisallowedTurn
  BY DEF LoopInv
<1>. QED
  BY <1>1, LoopInvariant, PTL

\* The provider is asked again only when each of its calls has one answer, in
\* order: the tool messages of run and chat.
THEOREM CallsAnswered == Spec => []EveryCallAnswered
<1>1. LoopInv => EveryCallAnswered
  BY DEF LoopInv
<1>. QED
  BY <1>1, LoopInvariant, PTL

\* The text the drawer shows as an answer is the one that passed the check
\* (runner and gen of chat_stream, ChatDrawer's reader).
THEOREM ShownWasChecked == Spec => []ShownAnswerWasChecked
<1>1. LoopInv /\ Delivered => ShownAnswerWasChecked
  BY DEF LoopInv, Checked, AnswersPassedCheck, Delivered, ShownAnswerWasChecked
<1>. QED
  BY <1>1, LoopInvariant, DeliveredInvariant, PTL
-----------------------------------------------------------------------------
(* What is memoised: each answer has a position (step, call), and a new one   *)
(* has the last.                                                              *)

At == {p \in (1 .. MaxSteps) \X (1 .. MaxCalls) : p[2] <= Len(trace[p[1]])}
Ans(p) == trace[p[1]][p[2]]
Before(p, q) == p[1] < q[1] \/ (p[1] = q[1] /\ p[2] < q[2])
Executed(tool) == {p \in At : Ans(p).tool = tool /\ Ans(p).ok /\ ~Ans(p).cached}

MemoInv ==
  surface = "chat" => \A tool \in Memoised :
    /\ tool \in memo => Executed(tool) # {}
    /\ tool \notin memo => Executed(tool) = {}
    /\ \A p, q \in Executed(tool) : p = q
    /\ \A q \in At : Ans(q).tool = tool /\ Ans(q).cached =>
         \E p \in Executed(tool) : Before(p, q)

\* An answer is added after all others.
LEMMA LastPosition ==
  ASSUME TypeOK, Shape, pc = "wait",
         NEW ok \in BOOLEAN, NEW cached \in BOOLEAN, Answer(ok, cached)
  PROVE  \E q \in (1 .. MaxSteps) \X Nat :
             /\ At' = At \union {q} /\ q \notin At
             /\ \A p \in At : Ans(p)' = Ans(p) /\ Before(p, q)
             /\ Ans(q)' = [tool |-> Current, ok |-> ok, cached |-> cached]
<1>. DEFINE len == Len(trace[step])
            new == [tool |-> Current, ok |-> ok, cached |-> cached]
<1>1. /\ step \in 1 .. MaxSteps /\ MaxSteps \in Nat /\ MaxCalls \in Nat
      /\ trace[step] \in Seq(Answers) /\ len \in Nat /\ len + 1 \in 1 .. MaxCalls
  <2>1. turn.calls \in CallLists
    BY TurnFacts DEF TypeOK, Shape
  <2>2. MaxCalls \in Nat /\ MaxSteps \in Nat
    BY LoopAssumption
  <2>3. Len(turn.calls) \in 1 .. MaxCalls
    BY <2>1, <2>2, ListFacts DEF CallLists
  <2>. QED
    BY <2>2, <2>3, CurrentFacts, LenProperties
<1>2. new \in Answers
  BY CurrentFacts DEF Answers
<1>3. /\ trace'[step] = Append(trace[step], new)
      /\ \A s \in 1 .. MaxSteps : s # step => trace'[s] = trace[s]
  BY <1>1 DEF Answer, TypeOK
<1>. HIDE DEF new
<1>4. /\ Len(trace'[step]) = len + 1
      /\ \A i \in 1 .. len : trace'[step][i] = trace[step][i]
      /\ trace'[step][len + 1] = new
  BY <1>1, <1>2, <1>3, AppendProperties
<1>5. \A s \in 1 .. MaxSteps : s > step => Len(trace[s]) = 0
  BY EmptySeq DEF Shape
<1>. HIDE DEF len
<1>6. Len(trace[step]) = len
  BY DEF len
<1>7. \A s \in 1 .. MaxSteps, i \in 1 .. MaxCalls :
        i <= Len(trace'[s]) <=> i <= Len(trace[s]) \/ (s = step /\ i = len + 1)
  BY <1>1, <1>3, <1>4, <1>6
<1>8. PICK q \in (1 .. MaxSteps) \X Nat : q = <<step, len + 1>>
  <2>1. len + 1 \in Nat
    BY <1>1
  <2>. QED
    BY <1>1, <2>1
<1>9. At' = At \union {q} /\ q \notin At
  BY <1>1, <1>6, <1>7, <1>8 DEF At
<1>10. ASSUME NEW p \in At PROVE Ans(p)' = Ans(p) /\ Before(p, q)
  <2>1. p[1] \in 1 .. MaxSteps /\ p[2] \in 1 .. MaxCalls /\ p[2] <= Len(trace[p[1]])
    BY DEF At
  <2>2. CASE p[1] = step
    BY <1>1, <1>4, <1>6, <1>8, <2>1, <2>2 DEF Ans, Before
  <2>3. CASE p[1] # step
    <3>1. p[1] < step
      BY <1>1, <1>5, <2>1, <2>3
    <3>. QED
      BY <1>3, <1>8, <2>1, <2>3, <3>1 DEF Ans, Before
  <2>. QED
    BY <2>2, <2>3
<1>11. Ans(q)' = new
  BY <1>4, <1>8 DEF Ans
<1>. QED
  BY <1>9, <1>10, <1>11 DEF new

\* Steps that answer no call.
LEMMA MemoKept ==
  ASSUME MemoInv, UNCHANGED <<surface, trace, memo>>
  PROVE  MemoInv'
<1>1. At' = At /\ \A p : Ans(p)' = Ans(p)
  BY DEF At, Ans
<1>2. \A tool : Executed(tool)' = Executed(tool)
  BY <1>1 DEF Executed
<1>. QED
  BY <1>1, <1>2 DEF MemoInv, Before

\* An answered call: executed and kept, or not executed, or not kept.
LEMMA MemoAnswer ==
  ASSUME TypeOK, Shape, MemoInv, AnswerUnknown \/ AnswerCached \/ AnswerExecuted
  PROVE  MemoInv'
<1>1. PICK ok \in BOOLEAN, cached \in BOOLEAN :
        /\ pc = "wait" /\ Answer(ok, cached)
        /\ cached => surface = "chat" /\ Current \in memo
        /\ ok /\ ~cached => Current \notin memo
        /\ memo' = IF surface = "chat" /\ ok /\ ~cached
                   THEN memo \union ({Current} \intersect Memoised) ELSE memo
  BY DEF AnswerUnknown, AnswerCached, AnswerExecuted
<1>2. SUFFICES ASSUME surface = "chat", NEW tool \in Memoised
      PROVE  /\ tool \in memo' => Executed(tool)' # {}
             /\ tool \notin memo' => Executed(tool)' = {}
             /\ \A p, q \in Executed(tool)' : p = q
             /\ \A q \in At' : Ans(q)'.tool = tool /\ Ans(q)'.cached =>
                  \E p \in Executed(tool)' : Before(p, q)
  <2>1. surface' = surface
    BY <1>1 DEF Answer, fixed
  <2>. QED
    BY <2>1 DEF MemoInv, Before
<1>3. PICK new \in (1 .. MaxSteps) \X Nat :
        /\ At' = At \union {new} /\ new \notin At
        /\ \A p \in At : Ans(p)' = Ans(p) /\ Before(p, new)
        /\ Ans(new)' = [tool |-> Current, ok |-> ok, cached |-> cached]
  BY <1>1, LastPosition
<1>4. Executed(tool)' = IF Current = tool /\ ok /\ ~cached
                        THEN Executed(tool) \union {new} ELSE Executed(tool)
  BY <1>3 DEF Executed
<1>5. Executed(tool) \subseteq At
  BY DEF Executed
<1>6. CASE Current = tool /\ ok /\ ~cached
  <2>1. Executed(tool) = {} /\ tool \in memo'
    BY <1>1, <1>2, <1>6 DEF MemoInv
  <2>2. \A q \in At : ~(Ans(q).tool = tool /\ Ans(q).cached)
    BY <1>2, <2>1 DEF MemoInv
  <2>3. Executed(tool)' = {new} /\ ~Ans(new)'.cached
    BY <1>3, <1>4, <1>6, <2>1
  <2>. QED
    BY <1>3, <2>1, <2>2, <2>3
<1>7. CASE ~(Current = tool /\ ok /\ ~cached)
  <2>1. Executed(tool)' = Executed(tool) /\ (tool \in memo' <=> tool \in memo)
    BY <1>1, <1>4, <1>7
  <2>2. ASSUME NEW q \in At', Ans(q)'.tool = tool, Ans(q)'.cached
        PROVE  \E p \in Executed(tool) : Before(p, q)
    <3>1. CASE q \in At
      BY <1>2, <1>3, <2>2, <3>1 DEF MemoInv
    <3>2. CASE q = new
      <4>1. cached /\ Current = tool
        BY <1>3, <2>2, <3>2
      <4>2. PICK p \in Executed(tool) : TRUE
        BY <1>1, <1>2, <4>1 DEF MemoInv
      <4>. QED
        BY <1>3, <1>5, <3>2, <4>2
    <3>. QED
      BY <1>3, <2>2, <3>1, <3>2
  <2>. QED
    BY <1>2, <2>1, <2>2 DEF MemoInv
<1>. QED
  BY <1>6, <1>7

\* A memoised result stands for one successful execution before it, and an
\* analysis that succeeded is not executed again (tool_cache of chat).
THEOREM MemoisedWasExecuted == Spec => []MemoStandsForSuccess
<1>1. DrawerInit => MemoInv
  <2>1. ASSUME DrawerInit PROVE At = {}
    BY <2>1, EmptySeq DEF DrawerInit, Init, At
  <2>. QED
    BY <2>1 DEF DrawerInit, Init, MemoInv, Executed
<1>2. LoopInv /\ MemoInv /\ [Next]_vars => MemoInv'
  <2>1. SUFFICES ASSUME TypeOK, Shape, MemoInv, [Next]_vars PROVE MemoInv'
    BY DEF LoopInv
  <2>2. CASE AnswerUnknown \/ AnswerCached \/ AnswerExecuted
    BY <2>1, <2>2, MemoAnswer
  <2>3. CASE ~(AnswerUnknown \/ AnswerCached \/ AnswerExecuted)
    <3>1. UNCHANGED <<surface, trace, memo>>
      BY <2>1, <2>3
      DEF Next, Read, vars, loopVars, LoopNext, Work, Ask, StreamDelta, StreamEnd,
          StreamBreak, Answered, Retry, GiveUp, TakeText, TakeCalls, NeedApproval,
          CheckManifest, CheckMetrics, Comparing, PassOver,
          StartCall, CallRaises, Commit, fixed
    <3>. QED
      BY <2>1, <3>1, MemoKept
  <2>. QED
    BY <2>2, <2>3
<1>3. MemoInv => MemoStandsForSuccess
  BY DEF MemoInv, MemoStandsForSuccess, Executed, At, Ans, Before
<1>. QED
  BY <1>1, <1>2, <1>3, LoopInvariant, PTL DEF Spec
-----------------------------------------------------------------------------
\* The client is told tokens of one stream only: the one that began after the
\* first k events. Its text is the turn's, and so is what is shown of it.
Streamed(k) ==
  /\ \A i \in 1 .. Len(events) : events[i].type = "token" =>
       /\ k < i /\ i <= k + MaxText
       /\ pc \in {"stream", "turn", "ground", "ended"} /\ turn.calls = <<>>
  /\ pc = "stream" => surface = "chat" /\ Len(events) = k + Len(turn.text)
  /\ bubble.kind # "answer" /\ bubble.text # <<>> =>
       /\ k + Len(bubble.text) <= read
       /\ \E i \in 1 .. read : events[i].type = "token"

Shown ==
  /\ bubble.kind \in {"none", "streaming", "answer"}
  /\ bubble.text \in Texts \union {<<>>}
  /\ error \in BOOLEAN
  /\ \E k \in Nat : Streamed(k)

\* A turn that is asked for begins a stream; no other was shown.
LEMMA AskStreamed ==
  ASSUME LoopInv, Delivered, Shown, Ask, UNCHANGED drawerVars
  PROVE  Shown'
<1>. USE DEF fixed, checks
<1>. UNCHANGED <<read, bubble, error>>
  BY DEF drawerVars
<1>1. PICK k \in Nat : Streamed(k)
  BY DEF Shown
<1>2. pc = "ask" /\ bubble.kind # "answer" /\ ~error
  BY DEF Ask, Delivered
<1>3. \A i \in 1 .. Len(events) : events[i].type # "token"
  BY <1>1, <1>2 DEF Streamed
<1>4. Len(events) \in Nat /\ read \in 0 .. Len(events)
  BY LenProperties DEF Delivered
<1>5. bubble.text = <<>>
  BY <1>1, <1>2, <1>3, <1>4 DEF Streamed
<1>6. CASE pc' # "ended"
  <2>1. /\ UNCHANGED events /\ turn' = NoTurn
        /\ pc' = "stream" => surface' = "chat"
    BY <1>2, <1>6 DEF Ask, End
  <2>2. Len(events) = Len(events) + Len(turn'.text)
    BY <2>1, <1>4, EmptySeq DEF NoTurn
  <2>3. Streamed(Len(events))'
    BY <1>3, <1>5, <2>1, <2>2 DEF Streamed
  <2>. QED
    BY <1>4, <2>1, <2>3 DEF Shown
<1>7. CASE pc' = "ended"
  <2>1. PICK news \in News : news.type # "token"
                             /\ (UNCHANGED events \/ events' = Append(events, news))
    <3>1. [type |-> "result", status |-> "max_steps"] \in News
          /\ [type |-> "result", status |-> "max_steps"].type # "token"
      BY DEF News, Outcomes
    <3>2. End("max_steps")
      BY <1>2, <1>7 DEF Ask
    <3>. QED
      BY <3>1, <3>2 DEF End, Tell
  <2>2. \A i \in 1 .. Len(events') : events'[i].type # "token"
    <3>1. CASE UNCHANGED events
      BY <1>3, <3>1
    <3>2. CASE events' = Append(events, news)
      <4>1. /\ Len(events') = Len(events) + 1 /\ events'[Len(events) + 1] = news
            /\ \A i \in 1 .. Len(events) : events'[i] = events[i]
        BY <3>2, AppendProperties DEF Delivered
      <4>2. \A i \in 1 .. Len(events') : i \in 1 .. Len(events) \/ i = Len(events) + 1
        BY <1>4, <4>1
      <4>. QED
        BY <1>3, <2>1, <4>1, <4>2
    <3>. QED
      BY <2>1, <3>1, <3>2
  <2>3. Streamed(k)'
    BY <1>5, <1>7, <2>2 DEF Streamed
  <2>. QED
    BY <2>3 DEF Shown
<1>. QED
  BY <1>6, <1>7

\* What a step tells the client, which is a token only if it streams.
LEMMA TokenIsStreamed ==
  ASSUME LoopInv, LoopNext, ~Ask, ~StreamDelta
  PROVE  /\ pc' = "stream" => pc = "stream" /\ UNCHANGED <<turn, surface, events>>
         /\ pc \in {"stream", "turn", "ground", "ended"} /\ turn.calls = <<>> =>
              \/ pc' \in {"stream", "turn", "ground", "ended"} /\ turn'.calls = <<>>
              \/ pc = "stream" /\ turn = NoTurn
         /\ \/ UNCHANGED events
            \/ \E news \in News : events' = Append(events, news) /\ news.type # "token"
<1>. USE DEF fixed, checks
<1>. TypeOK /\ Shape
  BY DEF LoopInv
<1>1. CASE StreamEnd
  BY <1>1 DEF StreamEnd
<1>2. CASE Answered \/ Retry \/ TakeCalls \/ \E r \in Runs : Commit(r)
  BY <1>2 DEF Answered, Retry, TakeCalls, Commit
<1>3. ASSUME NEW how \in Outcomes, End(how), UNCHANGED turn
      PROVE  /\ pc' = "ended" /\ turn' = turn
             /\ UNCHANGED events
                \/ \E news \in News : events' = Append(events, news) /\ news.type # "token"
  <2>1. [type |-> "result", status |-> how] \in News
        /\ [type |-> "result", status |-> how].type # "token"
    BY DEF News
  <2>. QED
    BY <1>3, <2>1 DEF End, Tell
<1>4. CASE StreamBreak \/ GiveUp \/ NeedApproval \/ CallRaises
  <2>1. UNCHANGED turn /\ \E how \in Outcomes : End(how)
    BY <1>4 DEF StreamBreak, GiveUp, NeedApproval, CallRaises, Outcomes
  <2>. QED
    BY <1>3, <2>1
<1>5. CASE TakeText \/ \E r \in Runs : CheckManifest(r) \/ CheckMetrics(r)
  <2>1. /\ pc \in {"turn", "ground"} /\ UNCHANGED turn
        /\ \/ pc' \in {"ground", pc} /\ UNCHANGED events
           \/ \E how \in Outcomes : End(how)
    BY <1>5 DEF TakeText, CheckManifest, CheckMetrics, Comparing,
       PassOver, Outcomes
  <2>2. TakeText => pc' # "turn"
    BY DEF TakeText, End
  <2>. QED
    BY <1>3, <2>1
<1>6. CASE StartCall \/ AnswerUnknown \/ AnswerCached \/ AnswerExecuted
  <2>1. pc \in {"call", "wait"} /\ pc' # "stream"
    BY <1>6 DEF StartCall, AnswerUnknown, AnswerCached, AnswerExecuted, Answer
  <2>2. Current \in Tools
    BY <2>1, CurrentFacts
  <2>3. \E news \in News : Tell(news) /\ news.type # "token"
    <3>1. /\ [type |-> "tool_started", tool |-> Current] \in News
          /\ [type |-> "tool_started", tool |-> Current].type # "token"
      BY <2>2 DEF News
    <3>2. \A ok \in BOOLEAN :
            /\ [type |-> "tool_result", tool |-> Current, ok |-> ok] \in News
            /\ [type |-> "tool_result", tool |-> Current, ok |-> ok].type # "token"
      BY <2>2 DEF News
    <3>3. CASE StartCall
      BY <3>1, <3>3 DEF StartCall
    <3>4. CASE AnswerUnknown \/ AnswerCached \/ AnswerExecuted
      <4>1. PICK ok \in BOOLEAN, cached \in BOOLEAN : Answer(ok, cached)
        BY <3>4 DEF AnswerUnknown, AnswerCached, AnswerExecuted
      <4>. QED
        BY <3>2, <4>1 DEF Answer
    <3>. QED
      BY <1>6, <3>3, <3>4
  <2>. QED
    BY <2>1, <2>3 DEF Tell
<1>. QED
  BY <1>1, <1>2, <1>4, <1>5, <1>6 DEF LoopNext, Work

LEMMA TokensKept ==
  ASSUME LoopInv, Delivered, Shown, LoopNext, ~Ask, ~StreamDelta, UNCHANGED drawerVars
  PROVE  Shown'
<1>. UNCHANGED <<read, bubble, error>>
  BY DEF drawerVars
<1>1. PICK k \in Nat : Streamed(k)
  BY DEF Shown
<1>2. Len(events) \in Nat /\ read \in 0 .. Len(events)
  BY LenProperties DEF Delivered
<1>3. /\ \A i \in 1 .. Len(events) : events'[i] = events[i]
      /\ \A i \in 1 .. Len(events') :
           events'[i].type = "token" => i \in 1 .. Len(events) /\ events'[i] = events[i]
  <2>1. CASE UNCHANGED events
    BY <2>1
  <2>2. ASSUME NEW news \in News, events' = Append(events, news), news.type # "token"
        PROVE  /\ \A i \in 1 .. Len(events) : events'[i] = events[i]
               /\ \A i \in 1 .. Len(events') :
                    events'[i].type = "token" => i \in 1 .. Len(events) /\ events'[i] = events[i]
    <3>1. /\ Len(events') = Len(events) + 1 /\ events'[Len(events) + 1] = news
          /\ \A i \in 1 .. Len(events) : events'[i] = events[i]
      BY <2>2, AppendProperties DEF Delivered
    <3>2. \A i \in 1 .. Len(events') : i \in 1 .. Len(events) \/ i = Len(events) + 1
      BY <1>2, <3>1
    <3>. QED
      BY <2>2, <3>1, <3>2
  <2>. QED
    BY <2>1, <2>2, TokenIsStreamed
<1>4. pc = "stream" /\ turn = NoTurn => \A i \in 1 .. Len(events) : events[i].type # "token"
  <2>1. ASSUME pc = "stream", turn = NoTurn PROVE Len(events) = k
    BY <1>1, <2>1, EmptySeq DEF Streamed, NoTurn
  <2>. QED
    BY <1>1, <2>1 DEF Streamed
<1>5. \A i \in 1 .. Len(events') : events'[i].type = "token" =>
        /\ k < i /\ i <= k + MaxText
        /\ pc' \in {"stream", "turn", "ground", "ended"} /\ turn'.calls = <<>>
  BY <1>1, <1>3, <1>4, TokenIsStreamed DEF Streamed
<1>6. pc' = "stream" => surface' = "chat" /\ Len(events') = k + Len(turn'.text)
  BY <1>1, TokenIsStreamed DEF Streamed
<1>7. \A i \in 1 .. read : events[i].type = "token" => events'[i].type = "token"
  BY <1>2, <1>3
<1>8. Streamed(k)'
  BY <1>1, <1>5, <1>6, <1>7 DEF Streamed
<1>. QED
  BY <1>8 DEF Shown

\* A token that is told is the last sentence of the turn so far.
LEMMA TokenAdded ==
  ASSUME LoopInv, Delivered, Shown, StreamDelta, UNCHANGED drawerVars
  PROVE  Shown'
<1>. USE DEF fixed, checks
<1>. UNCHANGED <<read, bubble, error>>
  BY DEF drawerVars
<1>1. PICK k \in Nat : Streamed(k)
  BY DEF Shown
<1>2. Len(events) \in Nat /\ read \in 0 .. Len(events) /\ MaxText \in Nat
  BY LenProperties, GroundingAssumption DEF Delivered
<1>3. pc = "stream" /\ surface = "chat" /\ Len(events) = k + Len(turn.text)
  BY <1>1 DEF Streamed, StreamDelta
<1>4. PICK s \in Sentences :
        turn' = TextTurn(Append(turn.text, s)) /\ Tell([type |-> "token", delta |-> s])
  BY DEF StreamDelta
<1>5. turn.text \in Seq(Sentences) /\ Len(turn.text) < MaxText
  <2>1. turn.text \in Texts \union {<<>>}
    BY TurnFacts DEF LoopInv, TypeOK
  <2>. QED
    BY <2>1, TextIsSeq DEF StreamDelta
<1>6. /\ Len(turn'.text) = Len(turn.text) + 1 /\ turn'.calls = <<>>
      /\ pc' = pc /\ surface' = surface
  BY <1>4, <1>5, AppendProperties DEF TextTurn, StreamDelta
<1>7. /\ Len(events') = Len(events) + 1
      /\ \A i \in 1 .. Len(events) : events'[i] = events[i]
  <2>1. [type |-> "token", delta |-> s] \in News
    BY DEF News
  <2>2. events' = Append(events, [type |-> "token", delta |-> s])
    BY <1>3, <1>4 DEF Tell
  <2>. QED
    BY <2>1, <2>2, AppendProperties DEF Delivered
<1>8. \A i \in 1 .. Len(events') : events'[i].type = "token" => k < i /\ i <= k + MaxText
  <2>1. ASSUME NEW i \in 1 .. Len(events) PROVE events[i].type = "token" => k < i /\ i <= k + MaxText
    BY <1>1 DEF Streamed
  <2>2. Len(turn.text) \in Nat
    BY <1>5, LenProperties
  <2>3. \A i \in 1 .. Len(events') : i \in 1 .. Len(events) \/ i = Len(events) + 1
    BY <1>2, <1>7
  <2>4. k < Len(events) + 1 /\ Len(events) + 1 <= k + MaxText
    BY <1>2, <1>3, <1>5, <2>2
  <2>. QED
    BY <1>7, <2>1, <2>3, <2>4
<1>9. Len(events') = k + Len(turn'.text)
  <2>1. Len(turn.text) \in Nat
    BY <1>5, LenProperties
  <2>. QED
    BY <1>3, <1>6, <1>7, <2>1
<1>10. \A i \in 1 .. read : events'[i] = events[i]
  BY <1>2, <1>7
<1>11. Streamed(k)'
  BY <1>1, <1>3, <1>6, <1>8, <1>9, <1>10 DEF Streamed
<1>. QED
  BY <1>11 DEF Shown

\* The client appends what it reads, which is no longer than what was streamed.
LEMMA ShownRead ==
  ASSUME LoopInv, Delivered, Shown, Read
  PROVE  Shown'
<1>1. PICK k \in Nat : Streamed(k)
  BY DEF Shown
<1>2. UNCHANGED <<pc, outcome, turn, events, surface>>
  BY DEF Read, loopVars
<1>3. /\ Len(events) \in Nat /\ read \in Nat /\ read < Len(events)
      /\ read' = read + 1 /\ read + 1 \in 1 .. Len(events)
      /\ events[read + 1] \in News /\ MaxText \in Nat
  BY LenProperties, ElementOfSeq, GroundingAssumption DEF Delivered, Read
<1>4. ~error /\ bubble.kind # "answer"
  BY <1>3 DEF Delivered
<1>5. Len(bubble.text) \in Nat /\ (bubble.text # <<>> => Len(bubble.text) > 0)
  <2>1. bubble.text \in Seq(Sentences)
    BY TextIsSeq DEF Shown
  <2>. QED
    BY <2>1, EmptySeq
<1>6. CASE ReadToken
  <2>1. events[read + 1].type = "token" /\ events[read + 1].delta \in Sentences
    BY <1>3, <1>6 DEF ReadToken, News
  <2>2. k < read + 1 /\ read + 1 <= k + MaxText
    BY <1>1, <1>3, <2>1 DEF Streamed
  <2>3. k + Len(bubble.text) <= read /\ Len(bubble.text) < MaxText
    <3>1. bubble.text = <<>> => Len(bubble.text) = 0
      BY EmptySeq
    <3>. QED
      BY <1>1, <1>3, <1>4, <1>5, <2>2, <3>1 DEF Streamed
  <2>4. bubble' = [bubble EXCEPT !.text = Append(@, events[read + 1].delta)] /\ UNCHANGED error
    BY <1>6 DEF ReadToken
  <2>5. bubble'.kind = bubble.kind /\ bubble'.text = Append(bubble.text, events[read + 1].delta)
    BY <2>4 DEF Delivered
  <2>6. bubble'.text \in Texts
    BY <2>1, <2>3, <2>5, LongerText DEF Shown
  <2>7. Len(bubble'.text) = Len(bubble.text) + 1
    <3>1. bubble.text \in Seq(Sentences)
      BY TextIsSeq DEF Shown
    <3>. QED
      BY <2>1, <2>5, <3>1, AppendProperties
  <2>8. k + Len(bubble'.text) <= read' /\ \E i \in 1 .. read' : events'[i].type = "token"
    BY <1>2, <1>3, <1>5, <2>1, <2>3, <2>7
  <2>9. Streamed(k)'
    BY <1>1, <1>2, <2>8 DEF Streamed
  <2>. QED
    BY <2>4, <2>5, <2>6, <2>9 DEF Shown
<1>7. ASSUME bubble'.text = bubble.text \/ bubble'.kind = "answer"
      PROVE  Streamed(k)'
  <2>1. \A i \in 1 .. read : i \in 1 .. read'
    BY <1>3
  <2>2. bubble.text # <<>> => k + Len(bubble.text) <= read' /\ \E i \in 1 .. read' : events[i].type = "token"
    BY <1>1, <1>3, <1>4, <1>5, <2>1 DEF Streamed
  <2>. QED
    BY <1>1, <1>2, <1>7, <2>2 DEF Streamed
<1>8. CASE ReadTool
  BY <1>7, <1>8 DEF ReadTool, Shown
<1>9. CASE ReadResult
  <2>1. turn.text \in Texts \union {<<>>}
    BY TurnFacts DEF LoopInv, TypeOK
  <2>2. /\ bubble'.kind \in {"none", "streaming", "answer"}
        /\ bubble'.text \in Texts \union {<<>>} /\ error' \in BOOLEAN
        /\ bubble'.text = bubble.text \/ bubble'.kind = "answer"
    <3>1. CASE events[read + 1].status = "success"
      <4>1. bubble' = [kind |-> "answer", text |-> turn.text] /\ UNCHANGED error
        BY <1>9, <3>1 DEF ReadResult
      <4>. QED
        BY <2>1, <4>1 DEF Shown
    <3>2. CASE events[read + 1].status # "success"
      <4>1. /\ bubble' = bubble \/ bubble' = [bubble EXCEPT !.kind = "none"]
            /\ error' = TRUE
        BY <1>9, <3>2 DEF ReadResult
      <4>2. /\ bubble'.kind \in {bubble.kind, "none"}
            /\ bubble'.text = bubble.text
        BY <4>1 DEF Delivered
      <4>. QED
        BY <4>1, <4>2 DEF Shown
    <3>. QED
      BY <3>1, <3>2
  <2>. QED
    BY <1>7, <2>2 DEF Shown
<1>. QED
  BY <1>6, <1>8, <1>9 DEF Read

\* The variables of the drawer keep to their types, too: what is shown while an
\* answer is streamed is no longer than the text a provider streams, though the
\* client reads it late (runner of chat_stream, ChatDrawer's reader).
THEOREM DrawerTypeCorrect == Spec => []DrawerTypeOK
<1>1. DrawerInit => Shown
  <2>1. ASSUME DrawerInit
        PROVE  Streamed(0) /\ bubble.text \in Texts \union {<<>>}
               /\ bubble.kind = "streaming" /\ error = FALSE
    BY <2>1, EmptySeq DEF DrawerInit, Init, Streamed
  <2>. QED
    BY <2>1 DEF Shown
<1>2. LoopInv /\ Delivered /\ Shown /\ [Next]_vars => Shown'
  <2>1. SUFFICES ASSUME LoopInv, Delivered, Shown, [Next]_vars
                 PROVE  Shown'
    OBVIOUS
  <2>2. CASE UNCHANGED vars
    BY <2>1, <2>2 DEF Shown, Streamed, vars
  <2>3. CASE Read
    BY <2>1, <2>3, ShownRead
  <2>4. CASE LoopNext /\ UNCHANGED drawerVars
    BY <2>1, <2>4, AskStreamed, TokenAdded, TokensKept
  <2>. QED
    BY <2>1, <2>2, <2>3, <2>4 DEF Next
<1>3. LoopInv /\ Delivered /\ Shown => DrawerTypeOK
  BY DEF LoopInv, Delivered, Shown, DrawerTypeOK
<1>. QED
  BY <1>1, <1>2, <1>3, LoopInvariant, DeliveredInvariant, PTL DEF Spec
-----------------------------------------------------------------------------
(* Why the loop ends.  Its work goes down in a well-founded order: the turns   *)
(* that are left, then how far the turn at hand is, then what is left to do    *)
(* there.                                                                      *)

Stage ==
  CASE pc = "stream" -> 6
    [] pc = "post"   -> 5
    [] pc = "turn"   -> 4
    [] pc = "ground" -> 3
    [] pc \in {"call", "wait"} -> 2
    [] pc = "ask"    -> 1
    [] OTHER         -> 0

Left ==
  CASE pc = "stream" -> MaxText - Len(turn.text)
    [] pc = "post"   -> MaxRetries - attempt
    [] pc = "ground" -> Cardinality(unfound) + Cardinality(uncompared)
    [] pc = "call"   -> 2 * (Len(turn.calls) - Len(trace[step]))
    [] pc = "wait"   -> 2 * (Len(turn.calls) - Len(trace[step])) - 1
    [] OTHER         -> 0

Rank  == <<MaxSteps - step, Stage, Left>>
NatLess == OpToRel(<, Nat)
Lower == LexProductOrdering(NatLess, Nat, 3)

\* Nothing goes down for ever in this order, whatever the bounds of the loop.
THEOREM LowerIsWellFounded == IsWellFoundedOn(Lower, [1 .. 3 -> Nat])
<1>1. IsWellFoundedOn(NatLess, Nat)
  BY NatLessThanWellFounded DEF NatLess
<1>. HIDE DEF NatLess
<1>. QED
  BY <1>1, WFLexProductOrdering DEF Lower

LEMMA LowerIs ==
  ASSUME NEW a \in Nat, NEW b \in Nat, NEW c \in Nat,
         NEW x \in Nat, NEW y \in Nat, NEW z \in Nat,
         x < a \/ (x = a /\ y < b) \/ (x = a /\ y = b /\ z < c)
  PROVE  <<<<x, y, z>>, <<a, b, c>>>> \in Lower
<1>. DEFINE p == <<x, y, z>>
            q == <<a, b, c>>
<1>1. p \in [1 .. 3 -> Nat] /\ q \in [1 .. 3 -> Nat]
  OBVIOUS
<1>2. \A m, n \in Nat : m < n => <<m, n>> \in NatLess
  BY DEF NatLess, OpToRel
<1>3. \E j \in 1 .. 3 : (\A i \in 1 .. (j - 1) : p[i] = q[i]) /\ <<p[j], q[j]>> \in NatLess
  <2>1. CASE x < a
    BY <1>2, <2>1
  <2>2. CASE x = a /\ y < b
    <3>1. <<p[2], q[2]>> \in NatLess /\ \A i \in 1 .. (2 - 1) : p[i] = q[i]
      BY <1>2, <2>2
    <3>. QED
      BY <3>1
  <2>3. CASE x = a /\ y = b /\ z < c
    <3>1. <<p[3], q[3]>> \in NatLess
      BY <1>2, <2>3
    <3>2. ASSUME NEW i \in 1 .. (3 - 1) PROVE p[i] = q[i]
      <4>1. i = 1 \/ i = 2
        OBVIOUS
      <4>. QED
        BY <4>1, <2>3
    <3>. QED
      BY <3>1, <3>2
  <2>. QED
    BY <2>1, <2>2, <2>3
<1>. HIDE DEF p, q
<1>4. <<p, q>> \in Lower
  BY <1>1, <1>3 DEF Lower, LexProductOrdering
<1>. QED
  BY <1>4 DEF p, q

\* A text cites finitely many runs.
LEMMA CitedFinite ==
  ASSUME NEW t \in Texts \union {<<>>}
  PROVE  IsFiniteSet(Cited(t))
<1>1. t \in Seq(Sentences) /\ Len(t) \in Nat /\ DOMAIN t = 1 .. Len(t)
  BY TextIsSeq, LenProperties
<1>2. IsFiniteSet(1 .. Len(t))
  <2>1. 1 \in Int /\ Len(t) \in Int
    BY <1>1
  <2>. QED
    BY <2>1, FS_Interval
<1>. DEFINE S == {t[i].run : i \in DOMAIN t}
            f == [i \in DOMAIN t |-> t[i].run]
<1>3. f \in [DOMAIN t -> S] /\ \A x \in S : \E i \in DOMAIN t : f[i] = x
  OBVIOUS
<1>4. f \in Surjection(DOMAIN t, S)
  <2>. HIDE DEF f, S
  <2>. QED
    BY <1>3, Fun_IsSurj
<1>. HIDE DEF f, S
<1>5. IsFiniteSet(S)
  BY <1>1, <1>2, <1>4, FS_Surjection
<1>6. Cited(t) \in SUBSET S
  BY DEF Cited, S
<1>. QED
  BY <1>5, <1>6, FS_Subset

LEMMA ChecksFinite ==
  ASSUME LoopInv, pc = "ground"
  PROVE  /\ IsFiniteSet(unfound) /\ IsFiniteSet(uncompared)
         /\ Cardinality(unfound) \in Nat /\ Cardinality(uncompared) \in Nat
<1>1. turn.text \in Texts \union {<<>>}
  BY TurnFacts DEF LoopInv, TypeOK
<1>2. unfound \in SUBSET Cited(turn.text) /\ uncompared \in SUBSET Cited(turn.text)
  BY DEF LoopInv, Checked
<1>. QED
  BY <1>1, <1>2, CitedFinite, FS_Subset, FS_CardinalityType

\* The rank is one.
LEMMA RankType == LoopInv => MaxSteps - step \in Nat /\ Stage \in Nat /\ Left \in Nat
<1>. SUFFICES ASSUME LoopInv
              PROVE  MaxSteps - step \in Nat /\ Stage \in Nat /\ Left \in Nat
  OBVIOUS
<1>. TypeOK /\ Shape
  BY DEF LoopInv
<1>1. MaxSteps - step \in Nat /\ MaxRetries - attempt \in Nat /\ MaxText \in Nat
  BY LoopAssumption, GroundingAssumption DEF TypeOK
<1>2. Stage \in Nat
  BY DEF Stage
<1>3. CASE pc = "stream"
  <2>1. turn.text \in Texts \union {<<>>}
    BY TurnFacts DEF TypeOK
  <2>2. Len(turn.text) \in 0 .. MaxText
    <3>1. turn.text = <<>> => Len(turn.text) = 0
      BY EmptySeq
    <3>2. turn.text \in Texts => Len(turn.text) \in 1 .. MaxText
      BY <1>1, ListFacts DEF Texts
    <3>. QED
      BY <2>1, <3>1, <3>2, <1>1
  <2>. QED
    BY <1>1, <1>2, <1>3, <2>2 DEF Left
<1>4. CASE pc = "ground"
  BY <1>1, <1>2, <1>4, ChecksFinite DEF Left
<1>5. CASE pc \in {"call", "wait"}
  <2>1. Len(turn.calls) - Len(trace[step]) \in Nat \ {0}
    BY <1>5, CurrentFacts, LenProperties
  <2>2. Left \in {2 * (Len(turn.calls) - Len(trace[step])),
                  2 * (Len(turn.calls) - Len(trace[step])) - 1}
    BY <1>5 DEF Left
  <2>3. \A n \in Nat \ {0} : 2 * n \in Nat /\ 2 * n - 1 \in Nat
    OBVIOUS
  <2>4. Left \in Nat
    BY <2>1, <2>2, <2>3
  <2>. QED
    BY <1>1, <1>2, <2>4
<1>6. CASE pc \notin {"stream", "ground", "call", "wait"}
  BY <1>1, <1>2, <1>6 DEF Left
<1>. QED
  BY <1>3, <1>4, <1>5, <1>6

\* Of a check, a run less is left to read or to compare.
LEMMA CheckDescends ==
  ASSUME LoopInv, LoopInv', NEW r \in Runs, CheckManifest(r) \/ CheckMetrics(r)
  PROVE  <<Rank', Rank>> \in Lower
<1>1. /\ MaxSteps - step \in Nat /\ Stage \in Nat /\ Left \in Nat
      /\ (MaxSteps - step)' \in Nat /\ Stage' \in Nat /\ Left' \in Nat
  <2>1. LoopInv' => (MaxSteps - step \in Nat /\ Stage \in Nat /\ Left \in Nat)'
    BY RankType, PTL
  <2>. QED
    BY <2>1, RankType
<1>2. pc = "ground" /\ step' = step /\ Stage = 3
  BY DEF CheckManifest, CheckMetrics, Comparing, Stage
<1>3. CASE pc' = "ended"
  BY <1>1, <1>2, <1>3, LowerIs DEF Rank, Stage
<1>4. CASE pc' # "ended"
  <2>1. /\ IsFiniteSet(unfound) /\ IsFiniteSet(uncompared)
        /\ Cardinality(unfound) \in Nat /\ Cardinality(uncompared) \in Nat
    BY <1>2, ChecksFinite
  <2>2. /\ pc' = "ground"
        /\ \/ r \in unfound /\ unfound' = unfound \ {r} /\ uncompared' = uncompared
           \/ r \in uncompared /\ uncompared' = uncompared \ {r} /\ unfound' = unfound
    BY <1>2, <1>4 DEF CheckManifest, CheckMetrics, Comparing, PassOver, End, checks
  <2>3. /\ r \in unfound => Cardinality(unfound \ {r}) = Cardinality(unfound) - 1
        /\ r \in uncompared => Cardinality(uncompared \ {r}) = Cardinality(uncompared) - 1
    BY <2>1, FS_RemoveElement
  <2>4. /\ Left = Cardinality(unfound) + Cardinality(uncompared)
        /\ Left' = Cardinality(unfound') + Cardinality(uncompared')
        /\ Stage' = Stage
    BY <1>2, <2>2 DEF Left, Stage
  <2>5. Left' < Left
    <3>1. CASE r \in unfound /\ unfound' = unfound \ {r} /\ uncompared' = uncompared
      BY <2>1, <2>3, <2>4, <3>1
    <3>2. CASE r \in uncompared /\ uncompared' = uncompared \ {r} /\ unfound' = unfound
      BY <2>1, <2>3, <2>4, <3>2
    <3>. QED
      BY <2>2, <3>1, <3>2
  <2>. QED
    BY <1>1, <1>2, <2>4, <2>5, LowerIs DEF Rank
<1>. QED
  BY <1>3, <1>4

LEMMA WorkDescends ==
  ASSUME LoopInv, LoopInv', Work
  PROVE  <<Rank', Rank>> \in Lower
<1>. TypeOK /\ Shape
  BY DEF LoopInv
<1>. USE DEF fixed, checks
<1>1. /\ MaxSteps - step \in Nat /\ Stage \in Nat /\ Left \in Nat
      /\ (MaxSteps - step)' \in Nat /\ Stage' \in Nat /\ Left' \in Nat
  <2>1. LoopInv' => (MaxSteps - step \in Nat /\ Stage \in Nat /\ Left \in Nat)'
    BY RankType, PTL
  <2>. QED
    BY <2>1, RankType
<1>2. SUFFICES \/ (MaxSteps - step)' < MaxSteps - step
               \/ step' = step /\ Stage' < Stage
               \/ step' = step /\ Stage' = Stage /\ Left' < Left
               \/ <<Rank', Rank>> \in Lower
  BY <1>1, LowerIs DEF Rank
<1>3. /\ MaxSteps \in Nat /\ step \in 0 .. MaxSteps /\ MaxRetries \in Nat
      /\ attempt \in 0 .. MaxRetries /\ MaxText \in Nat
  BY LoopAssumption, GroundingAssumption DEF TypeOK
<1>4. CASE Ask
  <2>1. CASE pc' = "ended"
    BY <1>4, <2>1 DEF Ask, Stage
  <2>2. CASE pc' # "ended"
    BY <1>3, <1>4, <2>2 DEF Ask, End
  <2>. QED
    BY <2>1, <2>2
<1>5. CASE StreamDelta
  <2>1. turn.text \in Seq(Sentences)
    BY TurnFacts, TextIsSeq DEF TypeOK
  <2>2. PICK s \in Sentences : turn' = TextTurn(Append(turn.text, s))
    BY <1>5 DEF StreamDelta
  <2>3. Len(turn'.text) = Len(turn.text) + 1 /\ Len(turn.text) \in Nat
    BY <2>1, <2>2, AppendProperties, LenProperties DEF TextTurn
  <2>4. pc = "stream" /\ pc' = "stream" /\ step' = step
    BY <1>5 DEF StreamDelta
  <2>. QED
    BY <1>3, <2>3, <2>4 DEF Left, Stage
<1>6. CASE StreamEnd \/ StreamBreak \/ Answered \/ GiveUp \/ TakeText \/ TakeCalls \/ NeedApproval
  BY <1>6 DEF StreamEnd, StreamBreak, Answered, GiveUp, TakeText, TakeCalls, NeedApproval, End, Stage
<1>7. CASE Retry
  BY <1>3, <1>7 DEF Retry, Left, Stage
<1>8. CASE \E r \in Runs : CheckManifest(r) \/ CheckMetrics(r)
  BY <1>8, CheckDescends
<1>9. CASE StartCall
  <2>1. Len(turn.calls) \in Nat /\ Len(trace[step]) \in Nat
    BY <1>9, CurrentFacts, LenProperties DEF StartCall
  <2>2. pc = "call" /\ pc' = "wait" /\ UNCHANGED <<step, turn, trace>>
    BY <1>9 DEF StartCall
  <2>3. /\ Left = 2 * (Len(turn.calls) - Len(trace[step]))
        /\ Left' = 2 * (Len(turn.calls) - Len(trace[step])) - 1
        /\ Stage' = Stage
    BY <2>2 DEF Left, Stage
  <2>4. \A a, b \in Nat : 2 * (a - b) - 1 < 2 * (a - b)
    OBVIOUS
  <2>5. Left' < Left
    BY <2>1, <2>3, <2>4
  <2>. QED
    BY <2>2, <2>3, <2>5
<1>10. CASE AnswerUnknown \/ AnswerCached \/ AnswerExecuted
  <2>1. PICK ok \in BOOLEAN, cached \in BOOLEAN : pc = "wait" /\ Answer(ok, cached)
    BY <1>10 DEF AnswerUnknown, AnswerCached, AnswerExecuted
  <2>2. /\ Len(trace'[step]) = Len(trace[step]) + 1
        /\ Len(turn.calls) \in Nat /\ Len(trace[step]) \in Nat
    BY <2>1, OneMoreAnswer, CurrentFacts, LenProperties
  <2>3. UNCHANGED <<step, turn>> /\ pc' \in {"ask", "call"}
    BY <2>1 DEF Answer
  <2>4. CASE pc' = "ask"
    BY <2>1, <2>3, <2>4 DEF Stage
  <2>5. CASE pc' = "call"
    <3>1. /\ Left = 2 * (Len(turn.calls) - Len(trace[step])) - 1
          /\ Left' = 2 * (Len(turn.calls) - Len(trace'[step]))
          /\ Stage' = Stage
      BY <2>1, <2>3, <2>5 DEF Left, Stage
    <3>2. \A a, b \in Nat : 2 * (a - (b + 1)) < 2 * (a - b) - 1
      OBVIOUS
    <3>3. Left' < Left
      BY <2>2, <3>1, <3>2
    <3>. QED
      BY <2>3, <3>1, <3>3
  <2>. QED
    BY <2>3, <2>4, <2>5
<1>11. CASE CallRaises
  BY <1>11 DEF CallRaises, End, Stage
<1>. QED
  BY <1>4, <1>5, <1>6, <1>7, <1>8, <1>9, <1>10, <1>11 DEF Work

\* Each step of the loop takes it down, whatever the provider and the tools do,
\* and nothing else takes it up, neither runs that are committed nor the client:
\* a request comes to its end (max_steps, _post_with_retries, _run_stream).
THEOREM LoopDescends ==
  Spec => [][IF Work THEN <<Rank', Rank>> \in Lower ELSE Rank' = Rank]_vars
<1>1. LoopInv /\ LoopInv' /\ [Next]_vars =>
        [IF Work THEN <<Rank', Rank>> \in Lower ELSE Rank' = Rank]_vars
  <2>1. SUFFICES ASSUME LoopInv, LoopInv', Next, ~Work
                 PROVE  Rank' = Rank
    BY WorkDescends
  <2>2. UNCHANGED <<pc, step, attempt, turn, unfound, uncompared, trace>>
    BY <2>1 DEF Next, LoopNext, Commit, Read, loopVars, checks
  <2>. QED
    BY <2>2 DEF Rank, Stage, Left
<1>. QED
  BY <1>1, LoopInvariant, PTL DEF Spec
=============================================================================
