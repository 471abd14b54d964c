------------------------------ MODULE JobThread ------------------------------
(***************************************************************************)
(* The jobs of thelab/ide/jobs.py that work in a thread (train, batch,     *)
(* try_all): the thread emits its progress while the event loop serves the *)
(* clients of JobStream.  Job.emit and Job.subscribe take no lock, so      *)
(* their parts interleave: append to the history, read the subscribers,    *)
(* put to one queue, replay one event.                                     *)
(***************************************************************************)
EXTENDS JobStream

VARIABLES
  work,   \* where the thread is in the loop over the entries
  emit,   \* who -> the emission it is in the middle of
  replay  \* c -> the position in events that subscribe puts next, 0 when done

threadVars == <<work, emit, replay>>
allVars    == <<vars, threadVars>>

Emitters == {"loop", "thread"}
NoEmit   == [pc |-> "idle", pos |-> 0, todo |-> {}]

ThreadTypeOK ==
  /\ TypeOK
  /\ work   \in {"none", "check", "train", "returned"}
  /\ emit   \in [Emitters -> [pc: {"idle", "snapshot", "put"}, pos: Nat,
                              todo: SUBSET Clients]]
  /\ replay \in [Clients -> Nat]

ThreadInit ==
  /\ Init
  /\ work   = "none"
  /\ emit   = [e \in Emitters |-> NoEmit]
  /\ replay = [c \in Clients |-> 0]

\* The event loop is between two tasks.
LoopFree == emit["loop"] = NoEmit /\ \A c \in Clients : replay[c] = 0
-----------------------------------------------------------------------------
\* Job.emit, as e runs it.
EmitAppend(e, kind) ==
  /\ events' = Append(events, kind)
  /\ emit' = [emit EXCEPT ![e] =
                [pc |-> "snapshot", pos |-> Len(events) + 1, todo |-> {}]]

EmitSnapshot(e) ==
  /\ emit[e].pc = "snapshot"
  /\ emit' = [emit EXCEPT ![e].pc = "put",
                          ![e].todo = {c \in Clients : phase[c] = "open"}]
  /\ UNCHANGED <<vars, work, replay>>

EmitPut(e) ==
  /\ emit[e].pc = "put"
  /\ \E c \in emit[e].todo :
       /\ queue' = [queue EXCEPT ![c] = Put(@, <<emit[e].pos>>)]
       /\ emit'  = [emit EXCEPT ![e].todo = @ \ {c}]
  /\ UNCHANGED <<status, cancelRequested, events, phase, received, work, replay>>

EmitEnd(e) ==
  /\ emit[e].pc = "put"
  /\ emit[e].todo = {}
  /\ emit' = [emit EXCEPT ![e] = NoEmit]
  /\ work' = IF e = "thread" THEN "check" ELSE work
  /\ UNCHANGED <<vars, replay>>
-----------------------------------------------------------------------------
\* Mutant of CheckContinue: should_continue is not asked.
CheckEntriesLeft ==
  /\ work = "check"
  /\ work' = IF Count("progress") = MaxProgress THEN "returned" ELSE "train"
  /\ UNCHANGED <<vars, emit, replay>>

\* BatchRunner.run and try_all_models ask should_continue before each entry.
CheckContinue ==
  /\ work = "check"
  /\ work' = IF cancelRequested \/ Count("progress") = MaxProgress
             THEN "returned" ELSE "train"
  /\ UNCHANGED <<vars, emit, replay>>

\* The entry is trained, or failed; on_result emits.
EntryDone ==
  /\ work = "train"
  /\ emit["thread"] = NoEmit
  /\ EmitAppend("thread", "progress")
  /\ UNCHANGED <<status, cancelRequested, phase, queue, received, work, replay>>

\* The gate or the runner raises, or there are no entries left.
ThreadEnds ==
  /\ work \in {"check", "train"}
  /\ emit["thread"] = NoEmit
  /\ work' = "returned"
  /\ UNCHANGED <<vars, emit, replay>>

\* _run around the thread: nothing else emits before it starts and after it
\* returned, so that its own events are put at once.
ThreadStart ==
  /\ LoopFree
  /\ Start
  /\ work' = "check"
  /\ UNCHANGED <<emit, replay>>

ThreadFinish ==
  /\ LoopFree
  /\ work = "returned"
  /\ Finish
  /\ UNCHANGED threadVars

\* cancel sets the flag, then emits.
CancelThread ==
  /\ LoopFree
  /\ status \in {"pending", "running"}
  /\ Count("cancel") < MaxCancels
  /\ cancelRequested' = TRUE
  /\ EmitAppend("loop", "cancel")
  /\ UNCHANGED <<status, phase, queue, received, work, replay>>

\* subscribe: the queue is known to the emitters before the history is in it.
SubscribeThread(c) ==
  /\ LoopFree
  /\ phase[c] = "off"
  /\ phase'    = [phase EXCEPT ![c] = "open"]
  /\ received' = [received EXCEPT ![c] = <<>>]
  /\ replay'   = [replay EXCEPT ![c] = 1]
  /\ UNCHANGED <<status, cancelRequested, events, queue, work, emit>>

\* Mutant of Replay: the last event of the history is left out.
ReplayTooShort(c) ==
  /\ replay[c] # 0
  /\ IF replay[c] < Len(events) /\ Len(queue[c]) < Cap
     THEN /\ queue'  = [queue EXCEPT ![c] = Append(@, replay[c])]
          /\ replay' = [replay EXCEPT ![c] = @ + 1]
     ELSE /\ replay' = [replay EXCEPT ![c] = 0]
          /\ UNCHANGED queue
  /\ UNCHANGED <<status, cancelRequested, events, phase, received, work, emit>>

\* The replay runs over the list the emitters append to, and breaks off when
\* the queue is full.
Replay(c) ==
  /\ replay[c] # 0
  /\ IF replay[c] <= Len(events) /\ Len(queue[c]) < Cap
     THEN /\ queue'  = [queue EXCEPT ![c] = Append(@, replay[c])]
          /\ replay' = [replay EXCEPT ![c] = @ + 1]
     ELSE /\ replay' = [replay EXCEPT ![c] = 0]
          /\ UNCHANGED queue
  /\ UNCHANGED <<status, cancelRequested, events, phase, received, work, emit>>

FromLoop(A) == LoopFree /\ A /\ UNCHANGED threadVars

\* What an emission still puts to the queue of a client that left is lost.
DisconnectThread(c) ==
  /\ LoopFree
  /\ Disconnect(c)
  /\ emit' = [emit EXCEPT !["thread"].todo = @ \ {c}]
  /\ UNCHANGED <<work, replay>>

ThreadNext ==
  \/ ThreadStart \/ ThreadFinish \/ CancelThread
  \/ CheckContinue \/ EntryDone \/ ThreadEnds
  \/ \E e \in Emitters : EmitSnapshot(e) \/ EmitPut(e) \/ EmitEnd(e)
  \/ \E c \in Clients :
       \/ SubscribeThread(c) \/ Replay(c)
       \/ FromLoop(Deliver(c)) \/ FromLoop(Timeout(c)) \/ DisconnectThread(c)

ThreadSpec == ThreadInit /\ [][ThreadNext]_allVars
-----------------------------------------------------------------------------
\* Nothing is on its way to client c.
Settled(c) ==
  /\ replay[c] = 0
  /\ \A e \in Emitters : emit[e].pc # "snapshot" /\ c \notin emit[e].todo

\* However emit and subscribe interleave, no event falls between the replay
\* and the live events (jobs.py:117-128): emit appends to the history before
\* it reads the subscribers, subscribe registers before it reads the history.
\* The entries' events may come twice, and have to fit the queue twice.
NothingMissed ==
  \A c \in Clients :
    phase[c] = "open" /\ Settled(c) /\ Len(events) + Count("progress") <= Cap
      => \A n \in 1 .. Len(events) :
           \E i \in 1 .. Len(received[c] \o queue[c]) :
             (received[c] \o queue[c])[i] = n

\* The job stops "at the next entry" (jobs.py:199): once a cancellation is
\* acknowledged, the entry under way is the last to report.
CancelStopsAtNextEntry ==
  \A k \in 1 .. Len(events) :
    events[k] = "cancel"
      => Cardinality({i \in k .. Len(events) : events[i] = "progress"}) <= 1
=============================================================================
