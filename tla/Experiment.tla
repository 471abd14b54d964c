----------------------------- MODULE Experiment -----------------------------
(***************************************************************************)
(* One experiment: its record in thelab/ide/experiment.py, the endpoints   *)
(* of thelab/ide/experiment_api.py that change it, and the jobs of         *)
(* thelab/ide/jobs.py that work on it.                                     *)
(*                                                                         *)
(* Endpoints and jobs run on one event loop.  Each loads the whole record, *)
(* changes its own copy and saves it whole; a job keeps its copy from one  *)
(* await to the next, while the endpoints go on.  What runs between two    *)
(* awaits is one step.  With a live provider a job awaits each of its      *)
(* interpretations and the analyst of the agentic round; with the mock     *)
(* provider, and to execute a proposal, it awaits nothing.                 *)
(***************************************************************************)
EXTENDS Naturals, Sequences

CONSTANTS MaxJobs,   \* bound: jobs submitted for the experiment
          Overlap    \* a client may call while a job of the experiment is on:
                     \* no endpoint refuses it, and the web front end leaves
                     \* the feedback enabled while a job plans or trains

ASSUME ConstantsAssumption == MaxJobs \in Nat /\ Overlap \in BOOLEAN

VARIABLES
  exp,      \* the saved record of the experiment, or Absent
  jobs,     \* the jobs submitted for it, in order
  proposal, \* the records of the agentic round's proposal that exist
  asked,    \* history: feedback the user has given
  crashed   \* history: the server was restarted, and its jobs are gone

vars == <<exp, jobs, proposal, asked, crashed>>

States == {"pending", "planning", "cleaning", "training", "evaluating",
           "awaiting_approval", "completed", "iterating", "failed", "cancelled"}
InProgress == {"pending", "planning", "cleaning", "training", "evaluating",
               "iterating"}
Verdicts == {"completed", "failed", "cancelled"}

\* job, provider and round are entries of the plan; provider is "lost" when
\* the plan has none.  round: the plan's agentic round, which names a proposal
\* unless it ended without one.  best: which arm best_run_id came from.
WithProposal == {"awaiting_approval", "approved", "rejected"}
Records == [state: States, job: Nat, provider: {"live", "mock", "lost"},
            feedback: Nat, round: {"none", "over"} \union WithProposal,
            best: {"none", "deterministic", "agentic"}]
Absent  == [state |-> "absent"]

\* at: what the job does once it gets the loop.
Steps == {"begin", "features", "selection", "training", "round", "over"}
Kinds == {"experiment", "agentic_round_execute", "proposal_experiment"}
Jobs  == [kind: Kinds, at: Steps,
          status: {"pending", "running", "lost"} \union Verdicts,
          cancel: BOOLEAN, live: BOOLEAN, wantsRound: BOOLEAN,
          local: Records]

TypeOK ==
  /\ exp  \in Records \union {Absent}
  /\ jobs \in Seq(Jobs)
  /\ proposal \subseteq {"saved", "approved", "rejected"}
  /\ asked \in Nat
  /\ crashed \in BOOLEAN

Init ==
  /\ exp  = Absent
  /\ jobs = <<>>
  /\ proposal = {}
  /\ asked = 0
  /\ crashed = FALSE
-----------------------------------------------------------------------------
JobIds  == 1 .. Len(jobs)
Over(j) == jobs[j].at = "over"
Quiet   == \A j \in JobIds : Over(j)
Begun   == \A j \in JobIds : jobs[j].at # "begin"

\* The loop takes what is ready in order, so that a submitted job has begun
\* when a later request is read.
MayCall == exp # Absent /\ Begun /\ (Overlap \/ Quiet)

\* JobManager.submit, and the record that goes with it.
Submit(kind, live, wantsRound, record) ==
  /\ Len(jobs) < MaxJobs
  /\ exp'  = [record EXCEPT !.job = Len(jobs) + 1]
  /\ jobs' = Append(jobs,
       [kind |-> kind, at |-> "begin", status |-> "pending", cancel |-> FALSE,
        live |-> live, wantsRound |-> wantsRound, local |-> exp'])

StartExperiment(live, wantsRound) ==
  /\ exp = Absent
  /\ Submit("experiment", live, wantsRound,
            [state |-> "pending", job |-> 0,
             provider |-> IF live THEN "live" ELSE "mock",
             feedback |-> 0, round |-> "none", best |-> "none"])
  /\ UNCHANGED <<proposal, asked, crashed>>

\* run_proposal_as_experiment: the click approves the proposal, which the job
\* executes as an experiment of its own.
StartFromProposal ==
  /\ exp = Absent
  /\ proposal' = {"saved", "approved"}
  /\ Submit("proposal_experiment", FALSE, FALSE,
            [state |-> "pending", job |-> 0, provider |-> "lost",
             feedback |-> 0, round |-> "none", best |-> "none"])
  /\ UNCHANGED <<asked, crashed>>

\* The provider is the one of the plan, and mock by default.
AddFeedback ==
  /\ MayCall
  /\ asked' = asked + 1
  /\ Submit("experiment", exp.provider = "live", FALSE,
            [exp EXCEPT !.state = "iterating", !.feedback = asked'])
  /\ UNCHANGED <<proposal, crashed>>

\* record_human_approval, then the execution is queued and streamed.
ApproveRound ==
  /\ MayCall
  /\ exp.round \in WithProposal
  /\ "rejected" \notin proposal
  /\ proposal' = proposal \union {"approved"}
  /\ Submit("agentic_round_execute", FALSE, FALSE,
            [exp EXCEPT !.state = "training", !.round = "approved"])
  /\ UNCHANGED <<asked, crashed>>

RejectRound ==
  /\ MayCall
  /\ exp.round \in WithProposal
  /\ proposal' = proposal \union {"rejected"}
  /\ exp' = [exp EXCEPT !.state = "completed", !.round = "rejected"]
  /\ UNCHANGED <<jobs, asked, crashed>>

\* The same proposal decided on in the proposals tab or on the command line.
DecideElsewhere ==
  /\ "saved" \in proposal
  /\ \/ "rejected" \notin proposal /\ proposal' = proposal \union {"approved"}
     \/ proposal' = proposal \union {"rejected"}
  /\ UNCHANGED <<exp, jobs, asked, crashed>>

Cancel(j) ==
  /\ jobs[j].status \in {"pending", "running"}
  /\ jobs' = [jobs EXCEPT ![j].cancel = TRUE]
  /\ UNCHANGED <<exp, proposal, asked, crashed>>

\* Jobs are kept in memory only.
Restart ==
  /\ ~crashed
  /\ crashed' = TRUE
  /\ jobs' = [j \in JobIds |-> IF Over(j) THEN jobs[j]
                ELSE [jobs[j] EXCEPT !.at = "over", !.status = "lost"]]
  /\ UNCHANGED <<exp, proposal, asked>>
-----------------------------------------------------------------------------
\* The loop starts the jobs in the order in which they were submitted.
Starts(j) ==
  /\ jobs[j].at = "begin"
  /\ \A i \in 1 .. j - 1 : jobs[i].at # "begin"

\* The job saves its copy and awaits its next step.
Await(j, record, next) ==
  /\ exp'  = record
  /\ jobs' = [jobs EXCEPT ![j].at = next, ![j].status = "running",
                          ![j].local = record]

\* The job saves its copy and is over, with the verdict of _run: on a result,
\* unless a cancellation was asked for, or on an exception.
End(j, record, verdict) ==
  /\ exp'  = record
  /\ jobs' = [jobs EXCEPT ![j].at = "over", ![j].local = record,
                          ![j].status = verdict]

Return(j, record, verdict) ==
  End(j, record, IF jobs[j].cancel THEN "cancelled" ELSE verdict)

\* Mutant of Fail: the job fails and the experiment is left as it is.
FailJobOnly(j, record) == End(j, record, "failed")

Fail(j, record) == End(j, [record EXCEPT !.state = "failed"], "failed")

\* Mutant of CancelAt: the experiment is left as it is.
CancelJobOnly(j, record) ==
  jobs[j].cancel /\ End(j, record, "cancelled")

CancelAt(j, record) ==
  /\ jobs[j].cancel
  /\ End(j, [record EXCEPT !.state = "cancelled"], "cancelled")

\* The copy of job j once its batch is through: a plan of its own and, when
\* some run completed, the best run.  An empty batch is no failed batch.
Concluded(j, record, trained) ==
  [record EXCEPT
     !.job = j, !.provider = "lost", !.round = "none",
     !.best  = IF trained = "some" THEN "deterministic" ELSE @,
     !.state = IF trained = "none" THEN "failed" ELSE "completed"]

\* Mutant of WithRound: every round is taken to await a decision.
RoundAlwaysAwaits(record, round) ==
  [record EXCEPT !.round = "awaiting_approval", !.state = "awaiting_approval"]

\* The round's record in the plan; its proposal is fresh, and so awaits.
WithRound(record, round) ==
  [record EXCEPT !.round = round,
     !.state = IF round = "awaiting_approval" THEN round ELSE @]

\* The round ends with a proposal, or without one.
RoundOutcome(j, record) ==
  \/ /\ proposal' = proposal \union {"saved"}
     /\ Return(j, WithRound(record, "awaiting_approval"), "completed")
  \/ /\ Return(j, WithRound(record, "over"), "completed")
     /\ UNCHANGED proposal

Trained == {"some", "none", "empty"}
-----------------------------------------------------------------------------
\* _run_experiment up to the first interpretation: the provider may be
\* unusable, the data analysis may fail.
BeginLive(j) ==
  /\ jobs[j].kind = "experiment" /\ jobs[j].live /\ Starts(j)
  /\ \/ CancelAt(j, exp)
     \/ Fail(j, exp)
     \/ ~jobs[j].cancel /\ Await(j, [exp EXCEPT !.state = "planning"], "features")
  /\ UNCHANGED <<proposal, asked, crashed>>

Features(j) ==
  /\ jobs[j].at = "features"
  /\ LET copy == jobs[j].local
     IN  \/ CancelAt(j, copy)
         \/ /\ ~jobs[j].cancel
            /\ \/ Fail(j, copy)
               \/ Await(j, [copy EXCEPT !.state = "cleaning"], "selection")
  /\ UNCHANGED <<proposal, asked, crashed>>

\* Mutant of Selection: a cancelled job goes nowhere.
SelectionUncancelled(j) ==
  /\ jobs[j].at = "selection"
  /\ ~jobs[j].cancel
  /\ LET copy == jobs[j].local
     IN  Fail(j, copy) \/ Await(j, [copy EXCEPT !.state = "training"], "training")
  /\ UNCHANGED <<proposal, asked, crashed>>

Selection(j) ==
  /\ jobs[j].at = "selection"
  /\ LET copy == jobs[j].local
     IN  \/ CancelAt(j, copy)
         \/ /\ ~jobs[j].cancel
            /\ \/ Fail(j, copy)
               \/ Await(j, [copy EXCEPT !.state = "training"], "training")
  /\ UNCHANGED <<proposal, asked, crashed>>

\* The batch, and the evaluation.  Before the round the conclusion is in the
\* job's own copy only.
Train(j) ==
  /\ jobs[j].at = "training"
  /\ LET copy == jobs[j].local
     IN  \/ CancelAt(j, copy)
         \/ ~jobs[j].cancel /\ Fail(j, copy)
         \/ /\ ~jobs[j].cancel
            /\ \E trained \in Trained :
                 IF jobs[j].wantsRound
                 THEN /\ exp'  = [copy EXCEPT !.state = "evaluating"]
                      /\ jobs' = [jobs EXCEPT ![j].at = "round",
                                    ![j].local = Concluded(j, copy, trained)]
                 ELSE Return(j, Concluded(j, copy, trained), "completed")
  /\ UNCHANGED <<proposal, asked, crashed>>

\* run_agentic_round after its analyst: cancelled, it leaves no proposal.
EndRound(j) ==
  /\ jobs[j].at = "round"
  /\ IF jobs[j].cancel
     THEN /\ Return(j, WithRound(jobs[j].local, "over"), "completed")
          /\ UNCHANGED proposal
     ELSE RoundOutcome(j, jobs[j].local)
  /\ UNCHANGED <<asked, crashed>>

\* The whole experiment on the mock provider.
RunMock(j) ==
  /\ jobs[j].kind = "experiment" /\ ~jobs[j].live /\ Starts(j)
  /\ \/ CancelAt(j, exp) /\ UNCHANGED proposal
     \/ ~jobs[j].cancel /\ Fail(j, exp) /\ UNCHANGED proposal
     \/ /\ ~jobs[j].cancel
        /\ \E trained \in Trained \ {"empty"} :
             IF jobs[j].wantsRound
             THEN RoundOutcome(j, Concluded(j, exp, trained))
             ELSE /\ Return(j, Concluded(j, exp, trained), "completed")
                  /\ UNCHANGED proposal
  /\ UNCHANGED <<asked, crashed>>

\* _run_agentic_round_execute: the gate denies it, or the batch runs, without
\* a run once the job is cancelled; an error that is no denial leaves the
\* record as it was saved on the way in.
RunRound(j) ==
  /\ jobs[j].kind = "agentic_round_execute" /\ Starts(j)
  /\ IF "rejected" \in proposal
     THEN Return(j, [exp EXCEPT !.state = "awaiting_approval"], "completed")
     ELSE \/ End(j, [exp EXCEPT !.state = "training"], "failed")
          \/ Return(j, [exp EXCEPT !.state = "failed"], "failed")
          \/ /\ ~jobs[j].cancel
             /\ \E best \in {exp.best, "agentic"} :
                  Return(j, [exp EXCEPT !.state = "completed", !.best = best],
                         "completed")
  /\ UNCHANGED <<proposal, asked, crashed>>

\* _run_proposal_experiment: here a denial leaves the record as it is, too.
RunProposal(j) ==
  /\ jobs[j].kind = "proposal_experiment" /\ Starts(j)
  /\ IF "rejected" \in proposal
     THEN End(j, exp, "failed")
     ELSE \/ End(j, [exp EXCEPT !.state = "training"], "failed")
          \/ CancelAt(j, exp)
          \/ /\ ~jobs[j].cancel
             /\ \/ Return(j, [exp EXCEPT !.state = "failed"], "failed")
                \/ Return(j, [exp EXCEPT !.state = "completed",
                                         !.best = "deterministic"], "completed")
  /\ UNCHANGED <<proposal, asked, crashed>>

JobStep(j) ==
  \/ BeginLive(j) \/ Features(j) \/ Selection(j) \/ Train(j) \/ EndRound(j)
  \/ RunMock(j)   \/ RunRound(j) \/ RunProposal(j)

Next ==
  \/ \E live, wantsRound \in BOOLEAN : StartExperiment(live, wantsRound)
  \/ StartFromProposal
  \/ AddFeedback \/ ApproveRound \/ RejectRound \/ DecideElsewhere \/ Restart
  \/ \E j \in JobIds : Cancel(j) \/ JobStep(j)

\* The loop resumes a job when what it awaits is there: interpretations have
\* a timeout.
Fairness == \A j \in 1 .. MaxJobs : WF_vars(j \in JobIds /\ JobStep(j))

Spec == Init /\ [][Next]_vars /\ Fairness
-----------------------------------------------------------------------------
\* The latest job is the execution of a proposal, and ended in an error or a
\* denial, which leave the stage it saved as it is.
ExecutionFailed ==
  LET last == jobs[Len(jobs)]
  IN  last.kind # "experiment" /\ last.status = "failed"

\* Once every job is over the record shows an outcome and no stage, however
\* the calls and the jobs that kept copies of it overlapped: the copy saved
\* last is the one of a job that ends (jobs.py:527-636).  Jobs that a restart
\* took with it are excepted, and a latest execution that ended in an error.
SettledWhenQuiet ==
  exp # Absent /\ Quiet /\ ~crashed
    => exp.state \notin InProgress \/ ExecutionFailed

\* A round that the record says awaits a decision, or was decided, has its
\* proposal saved, whatever stale copy brought that record back
\* (jobs.py:646, agentic_round.py:554).
RoundHasProposal ==
  exp # Absent /\ exp.round \in WithProposal => "saved" \in proposal

\* The feedback a user gave stays in the record (experiment_api.py:122).
FeedbackKept == exp # Absent => exp.feedback = asked

\* Once the experiment job that the record names is over, the record shows an
\* outcome and no stage, whether the job ended by its result, an error, a
\* cancellation or a failing provider (jobs.py:569-590).
NeverLeftInAStage ==
  exp # Absent =>
    LET job == jobs[exp.job]
    IN  job.kind = "experiment" /\ job.at = "over" /\ job.status # "lost"
          => exp.state \notin InProgress

\* An experiment that awaits a decision has a proposal to decide on.
AwaitingIsDecidable ==
  exp.state = "awaiting_approval"
    => exp.round \in WithProposal /\ "saved" \in proposal

\* An experiment shows as cancelled only if its job was asked to stop, and
\* that job does not show as completed.
CancelledWasAsked ==
  exp.state = "cancelled"
    => jobs[exp.job].cancel /\ jobs[exp.job].status = "cancelled"

\* A stage is left in the end, whoever calls meanwhile, unless the server goes
\* down under the jobs or the latest execution ended in an error or a denial
\* (jobs.py:569-636).
StagesEnd ==
  exp.state \in InProgress
    ~> exp.state \notin InProgress \/ crashed \/ ExecutionFailed

=============================================================================
