------------------------------ MODULE JobStream ------------------------------
(***************************************************************************)
(* One job of thelab/ide/jobs.py and the clients that follow its event     *)
(* stream, for the jobs that emit from the event loop (experiment,         *)
(* proposal_experiment, agentic_round_execute).  Between two awaits the    *)
(* loop runs nothing else, so a handler up to its next await is one step.  *)
(* JobThread has the jobs that emit from a worker thread.                  *)
(***************************************************************************)
EXTENDS Naturals, Sequences, FiniteSets

CONSTANTS Clients,     \* SSE clients of the job
          Cap,         \* capacity of a client's queue, 256 in the code
          MaxProgress, \* bound: progress events of the job's own
          MaxCancels   \* bound: calls of cancel while the job is on

\* A job's own events (queued, started, progress, verdict, done) fit a queue.
ASSUME CapAssumption ==
  /\ Cap \in Nat /\ MaxProgress \in Nat /\ MaxCancels \in Nat
  /\ MaxProgress + 4 <= Cap

VARIABLES
  status,          \* Job.status
  cancelRequested, \* Job.cancel_requested
  events,          \* Job.events, by kind
  phase,           \* c -> "off", or where its generator events() is
  queue,           \* c -> the positions in events its queue holds
  received         \* c -> the positions delivered to it since it subscribed

vars == <<status, cancelRequested, events, phase, queue, received>>

Kinds    == {"queued", "started", "progress", "cancel", "verdict", "done"}
Verdicts == {"completed", "failed", "cancelled"}

TypeOK ==
  /\ status \in {"pending", "running"} \union Verdicts
  /\ cancelRequested \in BOOLEAN
  /\ events   \in Seq(Kinds)
  /\ phase    \in [Clients -> {"off", "open", "closed"}]
  /\ queue    \in [Clients -> Seq(Nat)]
  /\ received \in [Clients -> Seq(Nat)]

\* submit: the job is queued before anybody knows its id.
Init ==
  /\ status = "pending"
  /\ cancelRequested = FALSE
  /\ events   = <<"queued">>
  /\ phase    = [c \in Clients |-> "off"]
  /\ queue    = [c \in Clients |-> <<>>]
  /\ received = [c \in Clients |-> <<>>]
-----------------------------------------------------------------------------
Count(kind) == Cardinality({i \in 1 .. Len(events) : events[i] = kind})

\* Positions m+1 .. n.
Span(m, n) == [i \in 1 .. n - m |-> m + i]

\* put_nowait on a queue, one after the other: QueueFull drops the event.
Put(q, new) ==
  IF Len(q) + Len(new) <= Cap THEN q \o new ELSE SubSeq(q \o new, 1, Cap)

\* Job.emit of some events in a row, to every subscriber.
Emit(kinds) ==
  /\ events' = events \o kinds
  /\ queue'  = [c \in Clients |->
       IF phase[c] = "open"
       THEN Put(queue[c], Span(Len(events), Len(events) + Len(kinds)))
       ELSE queue[c]]
  /\ UNCHANGED <<phase, received>>

\* _run: the task starts.
Start ==
  /\ status = "pending"
  /\ status' = "running"
  /\ Emit(<<"started">>)
  /\ UNCHANGED cancelRequested

\* The stages and entries of the job report their progress.
Progress ==
  /\ status = "running"
  /\ Count("progress") < MaxProgress
  /\ Emit(<<"progress">>)
  /\ UNCHANGED <<status, cancelRequested>>

\* cancel: asked for again, it emits again.
Cancel ==
  /\ status \in {"pending", "running"}
  /\ Count("cancel") < MaxCancels
  /\ cancelRequested' = TRUE
  /\ Emit(<<"cancel">>)
  /\ UNCHANGED status

\* How _run ends: the job's coroutine returns a result, raises
\* OrchestrationCancelled once it notices the request, or raises an error.
VerdictsFor ==
  (IF cancelRequested THEN {"cancelled"} ELSE {"completed", "failed"})
    \union {"failed"}

Finish ==
  /\ status = "running"
  /\ status' \in VerdictsFor
  /\ Emit(<<"verdict", "done">>)
  /\ UNCHANGED cancelRequested
-----------------------------------------------------------------------------
\* Mutant of Subscribe: no replay.
SubscribeLive(c) ==
  /\ phase[c] = "off"
  /\ phase'    = [phase EXCEPT ![c] = "open"]
  /\ queue'    = [queue EXCEPT ![c] = <<>>]
  /\ received' = [received EXCEPT ![c] = <<>>]
  /\ UNCHANGED <<status, cancelRequested, events>>

\* subscribe: the queue gets the history, up to its capacity.
Subscribe(c) ==
  /\ phase[c] = "off"
  /\ phase'    = [phase EXCEPT ![c] = "open"]
  /\ queue'    = [queue EXCEPT ![c] = Put(<<>>, Span(0, Len(events)))]
  /\ received' = [received EXCEPT ![c] = <<>>]
  /\ UNCHANGED <<status, cancelRequested, events>>

\* events: the generator yields the next event, and returns after "done".
Deliver(c) ==
  /\ phase[c] = "open"
  /\ queue[c] # <<>>
  /\ queue'    = [queue EXCEPT ![c] = Tail(@)]
  /\ received' = [received EXCEPT ![c] = Append(@, Head(queue[c]))]
  /\ phase'    = [phase EXCEPT ![c] =
                    IF events[Head(queue[c])] = "done" THEN "closed" ELSE @]
  /\ UNCHANGED <<status, cancelRequested, events>>

\* Mutant of Timeout: a failed job is not over.
TimeoutOfCompleted(c) ==
  /\ phase[c] = "open"
  /\ queue[c] = <<>>
  /\ status \in {"completed", "rejected"}
  /\ phase' = [phase EXCEPT ![c] = "closed"]
  /\ UNCHANGED <<status, cancelRequested, events, queue, received>>

\* Thirty seconds without an event: the generator looks at the status.
\* No job ever is "rejected", and "cancelled" is not among the three.
Timeout(c) ==
  /\ phase[c] = "open"
  /\ queue[c] = <<>>
  /\ status \in {"completed", "failed", "rejected"}
  /\ phase' = [phase EXCEPT ![c] = "closed"]
  /\ UNCHANGED <<status, cancelRequested, events, queue, received>>

\* The client goes away, and may come back: unsubscribe.  What it has shown
\* stays on its screen until it follows the job again.
Disconnect(c) ==
  /\ phase[c] # "off"
  /\ phase' = [phase EXCEPT ![c] = "off"]
  /\ queue' = [queue EXCEPT ![c] = <<>>]
  /\ UNCHANGED <<status, cancelRequested, events, received>>

Client(c) == Subscribe(c) \/ Deliver(c) \/ Timeout(c) \/ Disconnect(c)

Next ==
  \/ Start \/ Progress \/ Cancel \/ Finish
  \/ \E c \in Clients : Client(c)

\* The loop runs every task that is ready, and a timer that is due: the job's
\* coroutine comes to its end, each generator gets its event or its timeout.
Fairness ==
  /\ WF_vars(Start)
  /\ WF_vars(Finish)
  /\ \A c \in Clients : WF_vars(Deliver(c)) /\ WF_vars(Timeout(c))

Spec == Init /\ [][Next]_vars /\ Fairness
-----------------------------------------------------------------------------
\* "done", the event clients stop at, is emitted once, with the verdict, and
\* nothing follows it (jobs.py:267, :197).
DoneIsLast ==
  \A i \in 1 .. Len(events) :
    events[i] = "done" <=> status \in Verdicts /\ i = Len(events)

\* Wherever a client comes in, leaves and comes back, it gets every event of
\* the job once and in order, as long as they fit a queue (jobs.py:128, the
\* replay of subscribe meets the events emitted since), and the "done" it stops
\* at is the end of them, with the verdict.
CompleteHistory ==
  /\ \A c \in Clients :
       phase[c] # "off" /\ Len(events) <= Cap
         => received[c] \o queue[c] = Span(0, Len(events))
  /\ DoneIsLast

\* A queue that overflows loses events, and never repeats or reorders them.
InOrder ==
  \A c \in Clients :
    LET seen == received[c] \o queue[c]
    IN  phase[c] # "off" => \A i \in 2 .. Len(seen) : seen[i - 1] < seen[i]

\* A job whose cancellation was acknowledged never is reported as completed
\* (jobs.py:248), even when its work was through before it noticed.
CancelNeverCompletes == cancelRequested => status # "completed"

\* The stream of a job that is over ends: by its "done" event or, when that
\* was lost to a full queue, by the status (jobs.py:217-219), which does not
\* know "cancelled".
StreamEnds ==
  \A c \in Clients :
    /\ phase[c] = "open"
    /\ \/ status \in {"completed", "failed"}
       \/ status = "cancelled" /\ Len(events) <= Cap
    ~> phase[c] # "open"
=============================================================================
