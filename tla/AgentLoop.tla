------------------------------ MODULE AgentLoop ------------------------------
(***************************************************************************)
(* The bounded tool loop around a language model: AgentHarness.run         *)
(* (thelab/agents/harness.py), whose tools are those of MCP servers, and   *)
(* chat (thelab/agents/chat.py), whose tools are functions of the lab;     *)
(* with the HTTP adapters under thelab/agents/providers/ and their         *)
(* retries.  Meanwhile other tasks and processes commit runs.              *)
(*                                                                         *)
(* One request of the user.  What the model answers is any message.        *)
(***************************************************************************)
EXTENDS Grounding

CONSTANTS Tools,      \* tool names the model may call
          Registry,   \* surface -> the tools that were discovered or built
          Memoised,   \* dataset_eda and get_dataset_context, of the chat
          MaxSteps,   \* max_steps
          MaxRetries, \* max_retries of an adapter
          MaxCalls    \* bound: calls of one turn

Surfaces  == {"harness", "chat"}
Providers == {"openai_compat", "ollama"}

ASSUME LoopAssumption ==
  /\ Registry \in [Surfaces -> SUBSET Tools]
  /\ Memoised \subseteq Registry["chat"]
  /\ MaxSteps \in Nat \ {0} /\ MaxRetries \in Nat /\ MaxCalls \in Nat \ {0}

VARIABLES
  surface, provider, \* who asks, and whom
  committed,  \* runs whose manifest can be read
  pc,         \* where the loop is
  step,       \* turns asked for
  attempt,    \* retries of the current request
  requests,   \* requests sent to the provider (history)
  turn,       \* the current AgentTurn
  unfound,    \* cited runs whose manifest is still to be read
  uncompared, \* cited runs whose metrics are still to be compared
  skipped,    \* cited runs whose metrics could not be read
  trace,      \* step -> its answered calls: tool messages and tool_trace
  memo,       \* tool_cache, by tool
  approvals,  \* tools whose approval requests were persisted
  outcome,    \* how it ended
  events      \* what on_event was told, and the result

loopVars == <<surface, provider, committed, pc, step, attempt, requests, turn,
              unfound, uncompared, skipped, trace, memo, approvals, outcome, events>>
fixed  == <<surface, provider, committed>>
checks == <<unfound, uncompared, skipped>>

CallLists == UNION {[1 .. n -> Tools] : n \in 1 .. MaxCalls}

\* An AgentTurn is a text or calls, never both and never neither.
TextTurn(text)  == [text |-> text, calls |-> <<>>]
CallTurn(calls) == [text |-> <<>>, calls |-> calls]
NoTurn == [text |-> <<>>, calls |-> <<>>]
Turns  == {TextTurn(t) : t \in Texts} \union {CallTurn(c) : c \in CallLists}

Outcomes == {"success", "ungrounded", "max_steps", "failed", "approval_required"}
Places   == {"ask", "stream", "post", "turn", "ground", "call", "wait", "ended"}
Answers  == [tool : Tools, ok : BOOLEAN, cached : BOOLEAN]

TypeOK ==
  /\ surface \in Surfaces /\ provider \in Providers
  /\ committed \subseteq Runs
  /\ pc \in Places
  /\ step \in 0 .. MaxSteps /\ attempt \in 0 .. MaxRetries /\ requests \in Nat
  /\ turn \in Turns \union {NoTurn}
  /\ unfound \subseteq Runs /\ uncompared \subseteq Runs /\ skipped \subseteq Runs
  /\ trace \in [1 .. MaxSteps -> Seq(Answers)]
  /\ memo \subseteq Memoised
  /\ approvals \subseteq Tools
  /\ outcome \in Outcomes \union {"none"}

Init ==
  /\ surface \in Surfaces /\ provider \in Providers
  /\ committed = {}
  /\ pc = "ask" /\ step = 0 /\ attempt = 0 /\ requests = 0
  /\ turn = NoTurn /\ unfound = {} /\ uncompared = {} /\ skipped = {}
  /\ trace = [s \in 1 .. MaxSteps |-> <<>>] /\ memo = {} /\ approvals = {}
  /\ outcome = "none" /\ events = <<>>
-----------------------------------------------------------------------------
\* on_event, which only the chat has.
Tell(news) == events' = IF surface = "chat" THEN Append(events, news) ELSE events

\* The end of run or chat; an exception of chat becomes a result as well.
End(how) ==
  /\ pc' = "ended"
  /\ outcome' = how
  /\ Tell([type |-> "result", status |-> how])

\* The next turn, or the end of the budget.  The chat streams if it can.
Ask ==
  /\ pc = "ask"
  /\ \/ /\ step < MaxSteps
        /\ step' = step + 1
        /\ attempt' = 0
        /\ turn' = NoTurn
        /\ IF surface = "chat" /\ provider = "ollama"
           THEN pc' = "stream" /\ requests' = requests + 1
           ELSE pc' = "post" /\ UNCHANGED requests
        /\ UNCHANGED <<outcome, events>>
     \/ /\ step = MaxSteps
        /\ End("max_steps")
        /\ UNCHANGED <<step, attempt, turn, requests>>
  /\ UNCHANGED <<fixed, checks, trace, memo, approvals>>

\* OllamaProvider.stream: each delta of the text is shown as it comes.
StreamDelta ==
  /\ pc = "stream"
  /\ Len(turn.text) < MaxText
  /\ \E s \in Sentences :
       /\ turn' = TextTurn(Append(turn.text, s))
       /\ Tell([type |-> "token", delta |-> s])
  /\ UNCHANGED <<fixed, pc, step, attempt, requests, checks, trace, memo,
                 approvals, outcome>>

\* The stream ends.  Without a text, which is also what calls look like
\* there, _run_stream asks again with complete.
StreamEnd ==
  /\ pc = "stream"
  /\ pc' = IF turn = NoTurn THEN "post" ELSE "turn"
  /\ UNCHANGED <<fixed, step, attempt, requests, turn, checks, trace, memo,
                 approvals, outcome, events>>

\* The stream breaks: there is no retry, and no answer, even of what was shown.
StreamBreak ==
  /\ pc = "stream"
  /\ End("failed")
  /\ UNCHANGED <<fixed, step, attempt, requests, turn, checks, trace, memo,
                 approvals>>
-----------------------------------------------------------------------------
\* A message in the answer to a request, and the turn an adapter reads in it;
\* NoTurn is a protocol error.  "length" stands for any other finish_reason,
\* "stop" for a missing one too.
Messages == [content : Texts \union {<<>>}, calls : CallLists \union {<<>>},
             finish : {"stop", "tool_calls", "length"}]

OpenAITurn(m) ==
  CASE m.finish = "tool_calls" /\ m.calls # <<>> -> CallTurn(m.calls)
    [] m.finish = "stop" /\ m.calls = <<>>       -> TextTurn(m.content)
    [] OTHER                                     -> NoTurn

OllamaTurn(m) == IF m.calls # <<>> THEN CallTurn(m.calls) ELSE TextTurn(m.content)

TurnOf(m) == IF provider = "ollama" THEN OllamaTurn(m) ELSE OpenAITurn(m)

\* One attempt of _post_with_retries.  A network error, 429 or 5xx is tried
\* again after a pause; any other status, and what cannot be read, is final.
Answered ==
  /\ pc = "post"
  /\ requests' = requests + 1
  /\ \E m \in Messages :
       /\ TurnOf(m) # NoTurn
       /\ turn' = TurnOf(m)
  /\ pc' = "turn"
  /\ UNCHANGED <<fixed, step, attempt, checks, trace, memo, approvals,
                 outcome, events>>

\* Mutant of Retry: one attempt too many.
RetryOnceMore ==
  /\ pc = "post"
  /\ attempt <= MaxRetries
  /\ requests' = requests + 1
  /\ attempt' = attempt + 1
  /\ UNCHANGED <<fixed, pc, step, turn, checks, trace, memo, approvals,
                 outcome, events>>

Retry ==
  /\ pc = "post"
  /\ attempt < MaxRetries
  /\ requests' = requests + 1
  /\ attempt' = attempt + 1
  /\ UNCHANGED <<fixed, pc, step, turn, checks, trace, memo, approvals,
                 outcome, events>>

GiveUp ==
  /\ pc = "post"
  /\ requests' = requests + 1
  /\ End("failed")
  /\ UNCHANGED <<fixed, step, attempt, turn, checks, trace, memo, approvals>>
-----------------------------------------------------------------------------
\* What is done with a turn.  The harness executes no call of a turn that has
\* one outside the allowlist: it persists a request for the first of these.
TakeText ==
  /\ pc = "turn" /\ turn.calls = <<>>
  /\ unfound' = Cited(turn.text)
  /\ uncompared' = Cited(turn.text)
  /\ skipped' = {}
  /\ IF Cited(turn.text) = {} THEN End("success")
     ELSE pc' = "ground" /\ UNCHANGED <<outcome, events>>
  /\ UNCHANGED <<fixed, step, attempt, requests, turn, trace, memo, approvals>>

Disallowed == {i \in DOMAIN turn.calls : turn.calls[i] \notin Registry[surface]}

\* Mutant of TakeCalls: only the first call is looked up in the allowlist.
TakeCallsByFirst ==
  /\ pc = "turn" /\ turn.calls # <<>>
  /\ surface = "harness" => 1 \notin Disallowed
  /\ pc' = "call"
  /\ UNCHANGED <<fixed, step, attempt, requests, turn, checks, trace, memo,
                 approvals, outcome, events>>

TakeCalls ==
  /\ pc = "turn" /\ turn.calls # <<>>
  /\ surface = "harness" => Disallowed = {}
  /\ pc' = "call"
  /\ UNCHANGED <<fixed, step, attempt, requests, turn, checks, trace, memo,
                 approvals, outcome, events>>

NeedApproval ==
  /\ pc = "turn" /\ surface = "harness"
  /\ \E i \in Disallowed :
       /\ \A j \in Disallowed : i <= j
       /\ approvals' = approvals \union {turn.calls[i]}
  /\ End("approval_required")
  /\ UNCHANGED <<fixed, step, attempt, requests, turn, checks, trace, memo>>

\* _check_grounding.  The harness reads each run's manifest and then its
\* metrics; the chat all the manifests, and then all the metrics.  In which
\* order it takes the runs decides only which of several faults it names.
CheckManifest(r) ==
  /\ pc = "ground" /\ r \in unfound
  /\ surface = "harness" => uncompared = unfound
  /\ IF r \in committed
     THEN unfound' = unfound \ {r} /\ UNCHANGED <<pc, outcome, events>>
     ELSE End("ungrounded") /\ UNCHANGED unfound
  /\ UNCHANGED <<fixed, step, attempt, requests, turn, uncompared, skipped,
                 trace, memo, approvals>>

\* The metrics of r are next.
Comparing(r) ==
  /\ pc = "ground" /\ r \in uncompared \ unfound
  /\ surface = "chat" => unfound = {}
  /\ uncompared' = uncompared \ {r}
  /\ UNCHANGED <<fixed, step, attempt, requests, turn, unfound, trace, memo,
                 approvals>>

\* The check goes on, or has got through.
PassOver(r) ==
  IF uncompared = {r} THEN End("success") ELSE UNCHANGED <<pc, outcome, events>>

\* Mutant of CheckMetrics: the first run that fits is enough.
CheckMetricsOfOne(r) ==
  /\ Comparing(r)
  /\ End(IF Contradicts(turn.text, r) THEN "ungrounded" ELSE "success")
  /\ UNCHANGED skipped

\* Mutant of CheckMetrics: a run without the metric is not got over.
CheckMetricsThere(r) ==
  /\ Comparing(r)
  /\ Metric[r] # NoClaim
  /\ IF Contradicts(turn.text, r) THEN End("ungrounded") ELSE PassOver(r)
  /\ UNCHANGED skipped

\* Metrics that cannot be read (an artifact the manifest does not name, a file
\* that is no JSON, an error of the tool) contradict nothing.
CheckMetrics(r) ==
  /\ Comparing(r)
  /\ \/ /\ IF Contradicts(turn.text, r) THEN End("ungrounded") ELSE PassOver(r)
        /\ UNCHANGED skipped
     \/ /\ PassOver(r)
        /\ skipped' = skipped \union {r}
-----------------------------------------------------------------------------
\* The calls of a turn, one after the other; this one is next.
Current == turn.calls[Len(trace[step]) + 1]

StartCall ==
  /\ pc = "call"
  /\ pc' = "wait"
  /\ Tell([type |-> "tool_started", tool |-> Current])
  /\ UNCHANGED <<fixed, step, attempt, requests, turn, checks, trace, memo,
                 approvals, outcome>>

\* Its result goes to the messages and, in the chat, to the trace and client.
Answer(ok, cached) ==
  /\ trace' = [trace EXCEPT ![step] =
       Append(@, [tool |-> Current, ok |-> ok, cached |-> cached])]
  /\ pc' = IF Len(trace[step]) + 1 = Len(turn.calls) THEN "ask" ELSE "call"
  /\ Tell([type |-> "tool_result", tool |-> Current, ok |-> ok])
  /\ UNCHANGED <<fixed, step, attempt, requests, turn, checks, approvals,
                 outcome>>

\* Mutant of AnswerUnknown: it breaks off the turn.
AnswerUnknownBreaks ==
  /\ pc = "wait"
  /\ Current \notin Registry[surface]
  /\ pc' = "ask"
  /\ Tell([type |-> "tool_result", tool |-> Current, ok |-> FALSE])
  /\ UNCHANGED <<fixed, step, attempt, requests, turn, checks, trace, memo,
                 approvals, outcome>>

AnswerUnknown ==
  /\ pc = "wait"
  /\ Current \notin Registry[surface]
  /\ Answer(FALSE, FALSE)
  /\ UNCHANGED memo

AnswerCached ==
  /\ pc = "wait"
  /\ surface = "chat" /\ Current \in memo
  /\ Answer(TRUE, TRUE)
  /\ UNCHANGED memo

\* Mutant of AnswerExecuted: failures are kept, too.
AnswerExecutedAnyhow ==
  /\ pc = "wait"
  /\ Current \in Registry[surface] \ memo
  /\ \E ok \in BOOLEAN :
       /\ Answer(ok, FALSE)
       /\ memo' = IF surface = "chat" THEN memo \union ({Current} \intersect Memoised)
                  ELSE memo

\* Executed.  Only a result that is ok is kept for the same call later.
AnswerExecuted ==
  /\ pc = "wait"
  /\ Current \in Registry[surface] \ memo
  /\ \E ok \in BOOLEAN :
       /\ Answer(ok, FALSE)
       /\ memo' = IF surface = "chat" /\ ok
                  THEN memo \union ({Current} \intersect Memoised) ELSE memo

\* An exception of an MCP session ends run, in a tool's call as in a check; of
\* a tool's the chat makes a result, and its check reads files.
CallRaises ==
  /\ pc \in {"wait", "ground"} /\ surface = "harness"
  /\ End("failed")
  /\ UNCHANGED <<fixed, step, attempt, requests, turn, checks, trace, memo,
                 approvals>>

\* Another task or process writes the manifest of a run.
Commit(r) ==
  /\ r \notin committed
  /\ committed' = committed \union {r}
  /\ UNCHANGED <<surface, provider, pc, step, attempt, requests, turn, checks,
                 trace, memo, approvals, outcome, events>>

Work ==
  \/ Ask \/ StreamDelta \/ StreamEnd \/ StreamBreak
  \/ Answered \/ Retry \/ GiveUp
  \/ TakeText \/ TakeCalls \/ NeedApproval
  \/ \E r \in Runs : CheckManifest(r) \/ CheckMetrics(r)
  \/ StartCall \/ AnswerUnknown \/ AnswerCached \/ AnswerExecuted \/ CallRaises

LoopNext == Work \/ \E r \in Runs : Commit(r)

LoopSpec == Init /\ [][LoopNext]_loopVars
-----------------------------------------------------------------------------
\* An answer is handed on only if every run it cites can be read and its
\* claim, as far as the check looks for it, contradicts none of those whose
\* metrics it could read; runs that are committed during or after the check do
\* not take that back (_check_grounding, _run_manifest, _run_metrics, _run_brief).
AnswersPassedCheck ==
  outcome = "success" => PassesCheck(turn.text, committed, skipped)

\* Requests of one turn: its attempts, and the stream before them.
TurnBudget ==
  MaxRetries + 1 + (IF surface = "chat" /\ provider = "ollama" THEN 1 ELSE 0)

\* However the provider fails, and however often it asks for tools, it gets a
\* bounded number of requests (max_steps, max_retries, _run_stream).
RequestBudget == requests <= step * TurnBudget

\* A turn with one call outside the allowlist executes none of its calls, also
\* not those before it; its request for approval ends the run (run :214-218).
NothingOfADisallowedTurn ==
  surface = "harness" =>
    /\ step > 0 /\ trace[step] # <<>> => Disallowed = {}
    /\ approvals # {} => outcome = "approval_required" /\ Disallowed # {}

\* The provider is asked again only when each call of its turn has one answer,
\* in the order of the calls: known, unknown, cached or failed.
EveryCallAnswered ==
  pc = "ask" /\ step > 0 =>
    turn.calls = [i \in DOMAIN trace[step] |-> trace[step][i].tool]

\* A memoised result stands for one successful execution before it, and an
\* analysis that succeeded is not executed again (tool_cache).
MemoStandsForSuccess ==
  LET At == {p \in (1 .. MaxSteps) \X (1 .. MaxCalls) : p[2] <= Len(trace[p[1]])}
      Ans(p) == trace[p[1]][p[2]]
      Before(p, q) == p[1] < q[1] \/ (p[1] = q[1] /\ p[2] < q[2])
      Executed(tool) ==
        {p \in At : Ans(p).tool = tool /\ Ans(p).ok /\ ~Ans(p).cached}
  IN  surface = "chat" => \A tool \in Memoised :
        /\ \A p, q \in Executed(tool) : p = q
        /\ \A q \in At : Ans(q).tool = tool /\ Ans(q).cached =>
             \E p \in Executed(tool) : Before(p, q)

\* A run of the loop ends, whatever the provider answers.
LoopEnds == <>(pc = "ended")
=============================================================================
