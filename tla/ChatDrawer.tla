----------------------------- MODULE ChatDrawer ------------------------------
(***************************************************************************)
(* The chat over its event stream: POST /agent/chat/stream                 *)
(* (thelab/model_service/app.py), which queues what on_event is told and   *)
(* the result, and ChatDrawer.tsx, which reads them.  The queue has no     *)
(* bound.  Tokens are put from the thread of the stream, so that when the  *)
(* reader wakes is open; their order is not.                               *)
(***************************************************************************)
EXTENDS AgentLoop

VARIABLES
  read,   \* events read so far
  bubble, \* the assistant's turn on the screen
  error   \* an error turn is shown

drawerVars == <<read, bubble, error>>
vars == <<surface, provider, committed, pc, step, attempt, requests, turn,
          unfound, uncompared, skipped, trace, memo, approvals, outcome, events,
          read, bubble, error>>

DrawerTypeOK ==
  /\ TypeOK
  /\ read \in 0 .. Len(events)
  /\ bubble \in [kind : {"none", "streaming", "answer"},
                text : Texts \union {<<>>}]
  /\ error \in BOOLEAN

DrawerInit ==
  /\ Init
  /\ read = 0
  /\ bubble = [kind |-> "streaming", text |-> <<>>]
  /\ error = FALSE

\* The next item of the stream.  runner builds {"type": "event", **e}, where e
\* brings a type of its own, so that no item has the type "event" by which the
\* drawer knows what tools do: it passes those items over.
ReadToken ==
  /\ events[read + 1].type = "token"
  /\ bubble' = [bubble EXCEPT !.text = Append(@, events[read + 1].delta)]
  /\ UNCHANGED error

ReadTool ==
  /\ events[read + 1].type \in {"tool_started", "tool_result"}
  /\ UNCHANGED <<bubble, error>>

\* Mutant of ReadResult: a refusal leaves the streamed text as an answer.
ReadResultLeavesText ==
  /\ events[read + 1].type = "result"
  /\ IF events[read + 1].status # "failed"
     THEN /\ bubble' = [kind |-> "answer", text |-> turn.text]
          /\ UNCHANGED error
     ELSE /\ bubble' = [bubble EXCEPT !.kind = "none"]
          /\ error' = TRUE

\* The answer replaces what was streamed.  Of a refused or failed answer the
\* bubble stays if there is text in it.
ReadResult ==
  /\ events[read + 1].type = "result"
  /\ IF events[read + 1].status = "success"
     THEN /\ bubble' = [kind |-> "answer", text |-> turn.text]
          /\ UNCHANGED error
     ELSE /\ bubble' = IF bubble.text = <<>> THEN [bubble EXCEPT !.kind = "none"]
                       ELSE bubble
          /\ error' = TRUE

Read ==
  /\ surface = "chat" /\ read < Len(events)
  /\ read' = read + 1
  /\ ReadToken \/ ReadTool \/ ReadResult
  /\ UNCHANGED loopVars

Next == (LoopNext /\ UNCHANGED drawerVars) \/ Read

\* The loop's task runs while it can.  Nothing makes the client read.
Spec == DrawerInit /\ [][Next]_vars /\ WF_vars(Work /\ UNCHANGED drawerVars)
-----------------------------------------------------------------------------
\* What the drawer shows as an answer is the text that passed the check, and
\* nothing else of what it was streamed (runner, gen, ChatDrawer's reader).
ShownAnswerWasChecked ==
  bubble.kind = "answer" =>
    /\ outcome = "success" /\ bubble.text = turn.text /\ ~error
    /\ PassesCheck(bubble.text, committed, skipped)
=============================================================================
