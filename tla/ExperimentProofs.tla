--------------------------- MODULE ExperimentProofs ---------------------------
(***************************************************************************)
(* That an experiment's record, its jobs and its proposal agree, for any   *)
(* number of jobs.  The types, that a proposal the record names is there   *)
(* and that the record shows an outcome in the end hold whoever calls; the *)
(* rest provided that nobody calls while a job is on (Overlap is FALSE):   *)
(* feedback_lost is a run of what happens otherwise.                       *)
(*                                                                         *)
(* A job saves a copy it took some awaits ago, so the invariant has to say *)
(* what that copy may hold: it is the last job's, it names that job, and   *)
(* the proposal it names exists.                                           *)
(***************************************************************************)
EXTENDS Experiment, TLAPS

\* A record that may be saved while job j is the last one.
RecordFits(record, j, saved) ==
  /\ record \in Records
  /\ record.job = j
  /\ record.round \in WithProposal => saved
  /\ record.state = "awaiting_approval" => record.round \in WithProposal

Stages == {"features", "selection", "training", "round"}

\* The last job, j, beside the record that is saved.
JobFits(job, j, record, saved) ==
  /\ job.at \in Stages =>
       job.kind = "experiment" /\ RecordFits(job.local, j, saved)
  /\ job.at = "round" => job.local.state \in {"failed", "completed"}
  /\ job.at = "begin" /\ job.kind = "agentic_round_execute"
       => record.round \in WithProposal
  /\ job.at = "over" /\ job.kind = "experiment" /\ job.status # "lost"
       => record.state \notin InProgress
  /\ record.state = "cancelled"
       => job.at = "over" /\ job.cancel /\ job.status = "cancelled"

Saved == "saved" \in proposal

\* Only the last job works.
OneAtATime == \A j \in JobIds : ~Over(j) => j = Len(jobs)

RecordIsLast ==
  /\ exp = Absent <=> Len(jobs) = 0
  /\ exp # Absent =>
       /\ RecordFits(exp, Len(jobs), Saved)
       /\ JobFits(jobs[Len(jobs)], Len(jobs), exp, Saved)

IInv == TypeOK /\ OneAtATime /\ RecordIsLast
-----------------------------------------------------------------------------
(* Records *)

LEMMA AbsentIsNone == Absent \notin Records
  <1>1. \A record \in Records : DOMAIN record =
          {"state", "job", "provider", "feedback", "round", "best"}
    BY DEF Records
  <1>2. DOMAIN Absent = {"state"}
    BY DEF Absent
  <1> QED
    BY <1>1, <1>2

LEMMA StateSet ==
  ASSUME NEW record, NEW j, NEW saved, RecordFits(record, j, saved),
         NEW state \in States \ {"awaiting_approval"}
  PROVE  /\ RecordFits([record EXCEPT !.state = state], j, saved)
         /\ [record EXCEPT !.state = state].state = state
         /\ [record EXCEPT !.state = state].round = record.round
  BY DEF RecordFits, Records

LEMMA ConcludedFits ==
  ASSUME NEW record, NEW j \in Nat, NEW saved, RecordFits(record, j, saved),
         NEW trained \in Trained
  PROVE  /\ RecordFits(Concluded(j, record, trained), j, saved)
         /\ Concluded(j, record, trained).state \in {"failed", "completed"}
  <1>1. record \in Records
    BY DEF RecordFits
  <1>2. Concluded(j, record, trained) \in Records
    BY <1>1 DEF Concluded, Records, States
  <1>3. /\ Concluded(j, record, trained).job = j
        /\ Concluded(j, record, trained).round = "none"
        /\ Concluded(j, record, trained).state \in {"failed", "completed"}
    BY <1>1 DEF Concluded, Records
  <1> QED
    BY <1>2, <1>3 DEF RecordFits, WithProposal

LEMMA WithRoundFits ==
  ASSUME NEW record, NEW j, NEW saved, RecordFits(record, j, saved),
         record.state \in {"failed", "completed"},
         NEW round \in {"over", "awaiting_approval"}, NEW saved2,
         round = "awaiting_approval" => saved2
  PROVE  /\ RecordFits(WithRound(record, round), j, saved2)
         /\ WithRound(record, round).state \notin InProgress \union {"cancelled"}
  <1>1. record \in Records /\ record.job = j
    BY DEF RecordFits
  <1>2. WithRound(record, round) \in Records
    BY <1>1 DEF WithRound, Records, States, WithProposal
  <1>3. /\ WithRound(record, round).job = j
        /\ WithRound(record, round).round = round
        /\ WithRound(record, round).state =
             IF round = "awaiting_approval" THEN round ELSE record.state
    BY <1>1 DEF WithRound, Records
  <1> QED
    BY <1>2, <1>3 DEF RecordFits, WithProposal, InProgress

-----------------------------------------------------------------------------
(* A job that takes a step *)

LEMMA LastJob ==
  ASSUME IInv, NEW j \in JobIds, ~Over(j)
  PROVE  /\ j = Len(jobs) /\ j \in Nat /\ j > 0 /\ exp # Absent /\ jobs[j] \in Jobs
         /\ RecordFits(exp, j, Saved) /\ JobFits(jobs[j], j, exp, Saved)
  <1>1. j = Len(jobs) /\ Len(jobs) \in Nat /\ j > 0 /\ jobs[j] \in Jobs
    BY DEF IInv, TypeOK, OneAtATime, JobIds
  <1> QED
    BY <1>1 DEF IInv, RecordIsLast

LEMMA Moved ==
  ASSUME IInv, NEW j \in JobIds, ~Over(j), NEW job \in Jobs, NEW record,
         exp' = record, jobs' = [jobs EXCEPT ![j] = job],
         RecordFits(record, j, Saved'), JobFits(job, j, record, Saved'),
         proposal' \subseteq {"saved", "approved", "rejected"},
         UNCHANGED <<asked, crashed>>
  PROVE  IInv'
  <1>1. j = Len(jobs) /\ Len(jobs) \in Nat /\ j > 0
    BY LastJob
  <1>2. /\ jobs' \in Seq(Jobs) /\ Len(jobs') = Len(jobs) /\ jobs'[j] = job
        /\ \A i \in JobIds : i # j => jobs'[i] = jobs[i]
    BY DEF IInv, TypeOK, JobIds
  <1>3. TypeOK'
    BY <1>2 DEF IInv, TypeOK, RecordFits
  <1>4. OneAtATime'
    BY <1>1, <1>2 DEF IInv, OneAtATime, JobIds, Over
  <1>5. RecordIsLast'
    <2>1. record # Absent
      BY AbsentIsNone DEF RecordFits
    <2> QED
      BY <1>1, <1>2, <2>1 DEF RecordIsLast
  <1> QED
    BY <1>3, <1>4, <1>5 DEF IInv

LEMMA EndFits ==
  ASSUME IInv, NEW j \in JobIds, ~Over(j), NEW record, NEW verdict \in Verdicts,
         End(j, record, verdict), RecordFits(record, j, Saved'),
         jobs[j].kind = "experiment" => record.state \notin InProgress,
         record.state = "cancelled" => jobs[j].cancel /\ verdict = "cancelled",
         proposal' \subseteq {"saved", "approved", "rejected"},
         UNCHANGED <<asked, crashed>>
  PROVE  IInv'
  <1> DEFINE job == [jobs[j] EXCEPT !.at = "over", !.local = record, !.status = verdict]
  <1>1. jobs' = [jobs EXCEPT ![j] = job] /\ exp' = record
    BY DEF End
  <1>2. jobs[j] \in Jobs /\ record \in Records
    BY LastJob DEF RecordFits
  <1>3. /\ job \in Jobs /\ job.at = "over" /\ job.kind = jobs[j].kind
        /\ job.cancel = jobs[j].cancel /\ job.status = verdict
    BY <1>2 DEF Jobs, Steps, Verdicts
  <1> HIDE DEF job
  <1>4. JobFits(job, j, record, Saved')
    BY <1>3 DEF JobFits, Stages
  <1> QED
    BY <1>1, <1>3, <1>4, Moved

LEMMA ReturnFits ==
  ASSUME IInv, NEW j \in JobIds, ~Over(j), NEW record,
         NEW verdict \in {"completed", "failed"},
         Return(j, record, verdict), RecordFits(record, j, Saved'),
         jobs[j].kind = "experiment" => record.state \notin InProgress,
         record.state # "cancelled",
         proposal' \subseteq {"saved", "approved", "rejected"},
         UNCHANGED <<asked, crashed>>
  PROVE  IInv'
  <1>1. PICK v \in Verdicts : End(j, record, v)
    BY DEF Return, Verdicts
  <1> QED
    BY <1>1, EndFits

LEMMA FailFits ==
  ASSUME IInv, NEW j \in JobIds, ~Over(j), NEW record,
         Fail(j, record), RecordFits(record, j, Saved),
         UNCHANGED <<proposal, asked, crashed>>
  PROVE  IInv'
  <1> DEFINE new == [record EXCEPT !.state = "failed"]
  <1>1. RecordFits(new, j, Saved) /\ new.state = "failed"
    BY StateSet DEF States
  <1>2. End(j, new, "failed") /\ "failed" \in Verdicts
    BY DEF Fail, Verdicts
  <1> HIDE DEF new
  <1>3. Saved' = Saved /\ proposal' \subseteq {"saved", "approved", "rejected"}
    BY DEF Saved, IInv, TypeOK
  <1>4. new.state \notin InProgress /\ new.state # "cancelled"
    BY <1>1 DEF InProgress
  <1> QED
    BY <1>1, <1>2, <1>3, <1>4, EndFits

LEMMA CancelFits ==
  ASSUME IInv, NEW j \in JobIds, ~Over(j), NEW record,
         CancelAt(j, record), RecordFits(record, j, Saved),
         UNCHANGED <<proposal, asked, crashed>>
  PROVE  IInv'
  <1> DEFINE new == [record EXCEPT !.state = "cancelled"]
  <1>1. RecordFits(new, j, Saved) /\ new.state = "cancelled"
    BY StateSet DEF States
  <1>2. End(j, new, "cancelled") /\ "cancelled" \in Verdicts /\ jobs[j].cancel
    BY DEF CancelAt, Verdicts
  <1> HIDE DEF new
  <1>3. Saved' = Saved /\ proposal' \subseteq {"saved", "approved", "rejected"}
    BY DEF Saved, IInv, TypeOK
  <1>4. new.state \notin InProgress
    BY <1>1 DEF InProgress
  <1> QED
    BY <1>1, <1>2, <1>3, <1>4, EndFits

\* A job that goes on to its next stage: record is what it saves, copy what it
\* keeps, which are the same but for the round.
LEMMA GoesOn ==
  ASSUME IInv, NEW j \in JobIds, ~Over(j), NEW record, NEW copy,
         NEW next \in Stages, NEW job \in Jobs,
         job.at = next, job.kind = jobs[j].kind, job.local = copy,
         exp' = record, jobs' = [jobs EXCEPT ![j] = job],
         RecordFits(record, j, Saved), RecordFits(copy, j, Saved),
         jobs[j].kind = "experiment", record.state # "cancelled",
         next = "round" => copy.state \in {"failed", "completed"},
         UNCHANGED <<proposal, asked, crashed>>
  PROVE  IInv'
  <1>1. Saved' = Saved /\ proposal' \subseteq {"saved", "approved", "rejected"}
    BY DEF Saved, IInv, TypeOK
  <1>2. JobFits(job, j, record, Saved)
    BY DEF JobFits, Stages
  <1> QED
    BY <1>1, <1>2, Moved

LEMMA AwaitFits ==
  ASSUME IInv, NEW j \in JobIds, ~Over(j), NEW record,
         NEW next \in {"features", "selection", "training"},
         NEW state \in InProgress,
         Await(j, [record EXCEPT !.state = state], next),
         RecordFits(record, j, Saved), jobs[j].kind = "experiment",
         UNCHANGED <<proposal, asked, crashed>>
  PROVE  IInv'
  <1> DEFINE new == [record EXCEPT !.state = state]
  <1>1. RecordFits(new, j, Saved) /\ new.state = state
    BY StateSet DEF States, InProgress
  <1> DEFINE job == [jobs[j] EXCEPT !.at = next, !.status = "running", !.local = new]
  <1>2. jobs' = [jobs EXCEPT ![j] = job] /\ exp' = new
    BY DEF Await
  <1> HIDE DEF new
  <1>3. jobs[j] \in Jobs /\ new \in Records
    BY <1>1, LastJob DEF RecordFits
  <1>4. job \in Jobs /\ job.at = next /\ job.kind = jobs[j].kind /\ job.local = new
    BY <1>3 DEF Jobs, Steps
  <1> HIDE DEF job
  <1>5. new.state # "cancelled" /\ next \in Stages
    BY <1>1 DEF InProgress, Stages
  <1> QED
    BY <1>1, <1>2, <1>3, <1>4, <1>5, GoesOn
-----------------------------------------------------------------------------
(* The steps of a job *)

LEMMA BeginLiveInv ==
  ASSUME IInv, NEW j \in JobIds, BeginLive(j) PROVE IInv'
  <1>1. /\ ~Over(j) /\ RecordFits(exp, j, Saved) /\ jobs[j].kind = "experiment"
        /\ UNCHANGED <<proposal, asked, crashed>>
    BY LastJob DEF Starts, BeginLive, Over
  <1>2. CASE CancelAt(j, exp)
    BY <1>1, <1>2, CancelFits
  <1>3. CASE Fail(j, exp)
    BY <1>1, <1>3, FailFits
  <1>4. CASE Await(j, [exp EXCEPT !.state = "planning"], "features")
    <2>1. "planning" \in InProgress
      BY DEF InProgress
    <2> QED
      BY <1>1, <1>4, <2>1, AwaitFits
  <1> QED
    BY <1>2, <1>3, <1>4 DEF BeginLive

LEMMA InStage ==
  ASSUME IInv, NEW j \in JobIds, jobs[j].at \in Stages
  PROVE  /\ ~Over(j) /\ RecordFits(jobs[j].local, j, Saved)
         /\ jobs[j].kind = "experiment"
  <1>1. ~Over(j)
    BY DEF Over, Stages
  <1> QED
    BY <1>1, LastJob DEF JobFits

LEMMA FeaturesInv ==
  ASSUME IInv, NEW j \in JobIds, Features(j) PROVE IInv'
  <1>1. /\ ~Over(j) /\ RecordFits(jobs[j].local, j, Saved)
        /\ jobs[j].kind = "experiment" /\ UNCHANGED <<proposal, asked, crashed>>
    BY InStage DEF Features, Stages
  <1>2. CASE CancelAt(j, jobs[j].local)
    BY <1>1, <1>2, CancelFits
  <1>3. CASE Fail(j, jobs[j].local)
    BY <1>1, <1>3, FailFits
  <1>4. CASE Await(j, [jobs[j].local EXCEPT !.state = "cleaning"], "selection")
    <2>1. "cleaning" \in InProgress
      BY DEF InProgress
    <2> QED
      BY <1>1, <1>4, <2>1, AwaitFits
  <1> QED
    BY <1>2, <1>3, <1>4 DEF Features

LEMMA SelectionInv ==
  ASSUME IInv, NEW j \in JobIds, Selection(j) PROVE IInv'
  <1>1. /\ ~Over(j) /\ RecordFits(jobs[j].local, j, Saved)
        /\ jobs[j].kind = "experiment" /\ UNCHANGED <<proposal, asked, crashed>>
    BY InStage DEF Selection, Stages
  <1>2. CASE CancelAt(j, jobs[j].local)
    BY <1>1, <1>2, CancelFits
  <1>3. CASE Fail(j, jobs[j].local)
    BY <1>1, <1>3, FailFits
  <1>4. CASE Await(j, [jobs[j].local EXCEPT !.state = "training"], "training")
    <2>1. "training" \in InProgress
      BY DEF InProgress
    <2> QED
      BY <1>1, <1>4, <2>1, AwaitFits
  <1> QED
    BY <1>2, <1>3, <1>4 DEF Selection

LEMMA ReturnConcluded ==
  ASSUME IInv, NEW j \in JobIds, ~Over(j), NEW record, RecordFits(record, j, Saved),
         NEW trained \in Trained, Return(j, Concluded(j, record, trained), "completed"),
         UNCHANGED <<proposal, asked, crashed>>
  PROVE  IInv'
  <1> DEFINE new == Concluded(j, record, trained)
  <1>1. RecordFits(new, j, Saved) /\ new.state \in {"failed", "completed"}
    BY LastJob, ConcludedFits
  <1>2. Return(j, new, "completed")
    OBVIOUS
  <1> HIDE DEF new
  <1>3. Saved' = Saved /\ proposal' \subseteq {"saved", "approved", "rejected"}
    BY DEF Saved, IInv, TypeOK
  <1>4. new.state \notin InProgress /\ new.state # "cancelled"
    BY <1>1 DEF InProgress
  <1> QED
    BY <1>1, <1>2, <1>3, <1>4, ReturnFits

LEMMA RoundOutcomeFits ==
  ASSUME IInv, NEW j \in JobIds, ~Over(j), NEW record, RecordFits(record, j, Saved),
         record.state \in {"failed", "completed"},
         NEW round \in {"over", "awaiting_approval"},
         Return(j, WithRound(record, round), "completed"),
         proposal' = IF round = "over" THEN proposal ELSE proposal \union {"saved"},
         UNCHANGED <<asked, crashed>>
  PROVE  IInv'
  <1> DEFINE new == WithRound(record, round)
  <1>1. /\ proposal' \subseteq {"saved", "approved", "rejected"}
        /\ round = "awaiting_approval" => Saved'
    BY DEF Saved, IInv, TypeOK
  <1>2. RecordFits(new, j, Saved') /\ new.state \notin InProgress \union {"cancelled"}
    BY <1>1, WithRoundFits
  <1>3. Return(j, new, "completed")
    OBVIOUS
  <1> HIDE DEF new
  <1> QED
    BY <1>1, <1>2, <1>3, ReturnFits

LEMMA TrainInv ==
  ASSUME IInv, NEW j \in JobIds, Train(j) PROVE IInv'
  <1> DEFINE copy == jobs[j].local
  <1>1. /\ ~Over(j) /\ RecordFits(copy, j, Saved)
        /\ jobs[j].kind = "experiment" /\ UNCHANGED <<proposal, asked, crashed>>
    BY InStage DEF Train, Stages
  <1>2. CASE CancelAt(j, copy)
    BY <1>1, <1>2, CancelFits
  <1>3. CASE Fail(j, copy)
    BY <1>1, <1>3, FailFits
  <1>4. ASSUME NEW trained \in Trained,
               Return(j, Concluded(j, copy, trained), "completed")
        PROVE  IInv'
    BY <1>1, <1>4, ReturnConcluded
  <1>5. ASSUME NEW trained \in Trained, exp' = [copy EXCEPT !.state = "evaluating"],
               jobs' = [jobs EXCEPT ![j].at = "round",
                          ![j].local = Concluded(j, copy, trained)]
        PROVE  IInv'
    <2> DEFINE saving == [copy EXCEPT !.state = "evaluating"]
               keeping == Concluded(j, copy, trained)
               job == [jobs[j] EXCEPT !.at = "round", !.local = keeping]
    <2>1. RecordFits(saving, j, Saved) /\ saving.state = "evaluating"
      BY <1>1, StateSet DEF States
    <2>2. /\ RecordFits(keeping, j, Saved)
          /\ keeping.state \in {"failed", "completed"}
      BY <1>1, LastJob, ConcludedFits
    <2>3. exp' = saving /\ jobs' = [jobs EXCEPT ![j] = job]
      BY <1>5
    <2> HIDE DEF saving, keeping
    <2>4. jobs[j] \in Jobs /\ keeping \in Records
      BY <1>1, <2>2, LastJob DEF RecordFits
    <2>5. job \in Jobs /\ job.at = "round" /\ job.kind = jobs[j].kind /\ job.local = keeping
      BY <2>4 DEF Jobs, Steps
    <2> HIDE DEF job
    <2>6. saving.state # "cancelled" /\ "round" \in Stages
      BY <2>1 DEF Stages
    <2> QED
      BY <1>1, <2>1, <2>2, <2>3, <2>5, <2>6, GoesOn
  <1> QED
    BY <1>2, <1>3, <1>4, <1>5 DEF Train

LEMMA EndRoundInv ==
  ASSUME IInv, NEW j \in JobIds, EndRound(j) PROVE IInv'
  <1>1. /\ ~Over(j) /\ RecordFits(jobs[j].local, j, Saved)
        /\ UNCHANGED <<asked, crashed>>
    BY InStage DEF EndRound, Stages
  <1>2. jobs[j].local.state \in {"failed", "completed"}
    BY <1>1, LastJob DEF EndRound, JobFits
  <1>3. PICK round \in {"over", "awaiting_approval"} :
          /\ Return(j, WithRound(jobs[j].local, round), "completed")
          /\ proposal' = IF round = "over" THEN proposal ELSE proposal \union {"saved"}
    BY DEF EndRound, RoundOutcome
  <1> QED
    BY <1>1, <1>2, <1>3, RoundOutcomeFits

LEMMA RunMockInv ==
  ASSUME IInv, NEW j \in JobIds, RunMock(j) PROVE IInv'
  <1>1. /\ ~Over(j) /\ RecordFits(exp, j, Saved) /\ j \in Nat
        /\ UNCHANGED <<asked, crashed>>
    BY LastJob DEF Starts, RunMock, Over
  <1>2. CASE CancelAt(j, exp) /\ UNCHANGED proposal
    BY <1>1, <1>2, CancelFits
  <1>3. CASE Fail(j, exp) /\ UNCHANGED proposal
    BY <1>1, <1>3, FailFits
  <1>4. ASSUME NEW trained \in Trained,
               Return(j, Concluded(j, exp, trained), "completed"), UNCHANGED proposal
        PROVE  IInv'
    BY <1>1, <1>4, ReturnConcluded
  <1>5. ASSUME NEW trained \in Trained, RoundOutcome(j, Concluded(j, exp, trained))
        PROVE  IInv'
    <2> DEFINE copy == Concluded(j, exp, trained)
    <2>1. RecordFits(copy, j, Saved) /\ copy.state \in {"failed", "completed"}
      BY <1>1, ConcludedFits
    <2>2. RoundOutcome(j, copy)
      BY <1>5
    <2> HIDE DEF copy
    <2>3. PICK round \in {"over", "awaiting_approval"} :
            /\ Return(j, WithRound(copy, round), "completed")
            /\ proposal' = IF round = "over" THEN proposal ELSE proposal \union {"saved"}
      BY <2>2 DEF RoundOutcome
    <2> QED
      BY <1>1, <2>1, <2>3, RoundOutcomeFits
  <1> QED
    BY <1>2, <1>3, <1>4, <1>5 DEF RunMock, Trained

LEMMA ReturnState ==
  ASSUME IInv, NEW j \in JobIds, ~Over(j), jobs[j].kind # "experiment",
         NEW state \in {"awaiting_approval", "completed", "failed"},
         NEW best \in {"none", "deterministic", "agentic"},
         NEW verdict \in {"completed", "failed"},
         Return(j, [exp EXCEPT !.state = state, !.best = best], verdict),
         state = "awaiting_approval" => exp.round \in WithProposal,
         UNCHANGED <<proposal, asked, crashed>>
  PROVE  IInv'
  <1> DEFINE new == [exp EXCEPT !.state = state, !.best = best]
  <1>1. RecordFits(exp, j, Saved)
    BY LastJob
  <1>2. RecordFits(new, j, Saved) /\ new.state = state
    BY <1>1 DEF RecordFits, Records, States
  <1> HIDE DEF new
  <1>3. Saved' = Saved /\ proposal' \subseteq {"saved", "approved", "rejected"}
    BY DEF Saved, IInv, TypeOK
  <1> QED
    BY <1>2, <1>3, ReturnFits DEF new

LEMMA EndInTraining ==
  ASSUME IInv, NEW j \in JobIds, ~Over(j), jobs[j].kind # "experiment",
         End(j, [exp EXCEPT !.state = "training"], "failed"),
         UNCHANGED <<proposal, asked, crashed>>
  PROVE  IInv'
  <1> DEFINE new == [exp EXCEPT !.state = "training"]
  <1>1. RecordFits(new, j, Saved) /\ new.state = "training"
    BY LastJob, StateSet DEF States
  <1>2. End(j, new, "failed") /\ "failed" \in Verdicts
    BY DEF Verdicts
  <1> HIDE DEF new
  <1>3. Saved' = Saved /\ proposal' \subseteq {"saved", "approved", "rejected"}
    BY DEF Saved, IInv, TypeOK
  <1>4. new.state # "cancelled"
    BY <1>1
  <1> QED
    BY <1>1, <1>2, <1>3, <1>4, EndFits

LEMMA SameBest ==
  ASSUME NEW record \in Records, NEW state
  PROVE  /\ record.best \in {"none", "deterministic", "agentic"}
         /\ [record EXCEPT !.state = state] =
              [record EXCEPT !.state = state, !.best = record.best]
  BY DEF Records

LEMMA RunRoundInv ==
  ASSUME IInv, NEW j \in JobIds, RunRound(j) PROVE IInv'
  <1>1. /\ ~Over(j) /\ jobs[j].kind # "experiment" /\ exp \in Records
        /\ exp.round \in WithProposal /\ UNCHANGED <<proposal, asked, crashed>>
    <2>1. ~Over(j)
      BY DEF Starts, RunRound, Over
    <2> QED
      BY <2>1, LastJob DEF Starts, RunRound, JobFits, RecordFits
  <1>2. CASE Return(j, [exp EXCEPT !.state = "awaiting_approval"], "completed")
    BY <1>1, <1>2, SameBest, ReturnState
  <1>3. CASE End(j, [exp EXCEPT !.state = "training"], "failed")
    BY <1>1, <1>3, EndInTraining
  <1>4. CASE Return(j, [exp EXCEPT !.state = "failed"], "failed")
    BY <1>1, <1>4, SameBest, ReturnState
  <1>5. ASSUME NEW best \in {exp.best, "agentic"},
               Return(j, [exp EXCEPT !.state = "completed", !.best = best], "completed")
        PROVE  IInv'
    <2>1. best \in {"none", "deterministic", "agentic"}
      BY <1>1, SameBest
    <2> QED
      BY <1>1, <1>5, <2>1, ReturnState
  <1> QED
    BY <1>2, <1>3, <1>4, <1>5 DEF RunRound

LEMMA RunProposalInv ==
  ASSUME IInv, NEW j \in JobIds, RunProposal(j) PROVE IInv'
  <1>1. /\ ~Over(j) /\ jobs[j].kind # "experiment" /\ exp \in Records
        /\ RecordFits(exp, j, Saved) /\ exp.state # "cancelled"
        /\ UNCHANGED <<proposal, asked, crashed>>
    <2>1. ~Over(j)
      BY DEF Starts, RunProposal, Over
    <2> QED
      BY <2>1, LastJob DEF Starts, RunProposal, JobFits, RecordFits
  <1>2. CASE End(j, exp, "failed")
    <2>1. Saved' = Saved /\ proposal' \subseteq {"saved", "approved", "rejected"}
      BY <1>1 DEF Saved, IInv, TypeOK
    <2>2. "failed" \in Verdicts
      BY DEF Verdicts
    <2> QED
      BY <1>1, <1>2, <2>1, <2>2, EndFits
  <1>3. CASE End(j, [exp EXCEPT !.state = "training"], "failed")
    BY <1>1, <1>3, EndInTraining
  <1>4. CASE CancelAt(j, exp)
    BY <1>1, <1>4, CancelFits
  <1>5. CASE Return(j, [exp EXCEPT !.state = "failed"], "failed")
    BY <1>1, <1>5, SameBest, ReturnState
  <1>6. CASE Return(j, [exp EXCEPT !.state = "completed", !.best = "deterministic"],
                    "completed")
    BY <1>1, <1>6, ReturnState
  <1> QED
    BY <1>2, <1>3, <1>4, <1>5, <1>6 DEF RunProposal
-----------------------------------------------------------------------------
(* The calls of a client *)

LEMMA SubmitFits ==
  ASSUME IInv, Quiet, NEW kind \in Kinds, NEW live \in BOOLEAN,
         NEW wantsRound \in BOOLEAN, NEW record \in Records,
         Submit(kind, live, wantsRound, record),
         record.round \in WithProposal => Saved',
         record.state \notin {"awaiting_approval", "cancelled"},
         kind = "agentic_round_execute" => record.round \in WithProposal,
         proposal' \subseteq {"saved", "approved", "rejected"},
         asked' \in Nat, UNCHANGED crashed
  PROVE  IInv'
  <1> DEFINE n == Len(jobs) + 1
             new == [record EXCEPT !.job = n]
             job == [kind |-> kind, at |-> "begin", status |-> "pending",
                     cancel |-> FALSE, live |-> live, wantsRound |-> wantsRound,
                     local |-> new]
  <1>1. jobs \in Seq(Jobs) /\ Len(jobs) \in Nat /\ n \in Nat
    BY DEF IInv, TypeOK
  <1>2. exp' = new /\ jobs' = Append(jobs, job)
    BY DEF Submit
  <1>3. /\ new \in Records /\ new.job = n /\ new.round = record.round
        /\ new.state = record.state
    BY <1>1 DEF Records
  <1> HIDE DEF new
  <1>4. job \in Jobs /\ job.at = "begin" /\ job.kind = kind
    BY <1>3 DEF Jobs, Steps
  <1> HIDE DEF job
  <1>5. /\ jobs' \in Seq(Jobs) /\ Len(jobs') = n /\ jobs'[n] = job
        /\ \A i \in JobIds : jobs'[i] = jobs[i] /\ i < n
    BY <1>1, <1>2, <1>4 DEF JobIds
  <1>6. RecordFits(new, n, Saved') /\ new # Absent
    BY <1>3, AbsentIsNone DEF RecordFits
  <1>7. JobFits(job, n, new, Saved')
    BY <1>3, <1>4 DEF JobFits, Stages
  <1>8. TypeOK'
    BY <1>2, <1>3, <1>5 DEF IInv, TypeOK
  <1>9. OneAtATime'
    <2> SUFFICES ASSUME NEW i \in 1 .. n, i # n PROVE Over(i)'
      BY <1>5 DEF OneAtATime, JobIds
    <2>1. i \in JobIds
      BY <1>1 DEF JobIds
    <2> QED
      BY <1>5, <2>1 DEF Quiet, Over
  <1>10. RecordIsLast'
    <2>1. n # 0
      BY <1>1
    <2> HIDE DEF n
    <2> QED
      BY <1>2, <1>5, <1>6, <1>7, <2>1 DEF RecordIsLast
  <1> QED
    BY <1>8, <1>9, <1>10 DEF IInv

LEMMA StartInv ==
  ASSUME IInv,
         \/ \E live, wantsRound \in BOOLEAN : StartExperiment(live, wantsRound)
         \/ StartFromProposal
  PROVE  IInv'
  <1>1. Quiet
    <2>1. exp = Absent
      BY DEF StartExperiment, StartFromProposal
    <2>2. Len(jobs) = 0
      BY <2>1 DEF IInv, RecordIsLast
    <2>3. JobIds = {}
      BY <2>2 DEF JobIds
    <2> QED
      BY <2>3 DEF Quiet
  <1>2. ASSUME NEW live \in BOOLEAN, NEW wantsRound \in BOOLEAN,
               StartExperiment(live, wantsRound)
        PROVE  IInv'
    <2> DEFINE new == [state |-> "pending", job |-> 0,
                       provider |-> IF live THEN "live" ELSE "mock",
                       feedback |-> 0, round |-> "none", best |-> "none"]
    <2>1. /\ Submit("experiment", live, wantsRound, new)
          /\ UNCHANGED <<proposal, asked, crashed>>
      BY <1>2 DEF StartExperiment
    <2>2. new \in Records /\ new.round \notin WithProposal /\ new.state = "pending"
      BY DEF Records, States, WithProposal
    <2> HIDE DEF new
    <2>3. /\ proposal' \subseteq {"saved", "approved", "rejected"} /\ asked' \in Nat
          /\ "experiment" \in Kinds
      BY <2>1 DEF IInv, TypeOK, Kinds
    <2> QED
      BY <1>1, <2>1, <2>2, <2>3, SubmitFits
  <1>3. CASE StartFromProposal
    <2> DEFINE new == [state |-> "pending", job |-> 0, provider |-> "lost",
                       feedback |-> 0, round |-> "none", best |-> "none"]
    <2>1. /\ Submit("proposal_experiment", FALSE, FALSE, new)
          /\ UNCHANGED <<asked, crashed>>
      BY <1>3 DEF StartFromProposal
    <2>2. new \in Records /\ new.round \notin WithProposal /\ new.state = "pending"
      BY DEF Records, States, WithProposal
    <2> HIDE DEF new
    <2>3. /\ proposal' \subseteq {"saved", "approved", "rejected"} /\ asked' \in Nat
          /\ "proposal_experiment" \in Kinds
      BY <1>3, <2>1 DEF IInv, TypeOK, Kinds, StartFromProposal
    <2> QED
      BY <1>1, <2>1, <2>2, <2>3, SubmitFits
  <1> QED
    BY <1>2, <1>3

LEMMA CalledWhenQuiet ==
  ASSUME IInv, ~Overlap, MayCall
  PROVE  /\ Quiet /\ exp \in Records /\ RecordFits(exp, Len(jobs), Saved)
         /\ asked \in Nat /\ proposal \subseteq {"saved", "approved", "rejected"}
  BY DEF MayCall, IInv, TypeOK, RecordIsLast

LEMMA AddFeedbackInv ==
  ASSUME IInv, ~Overlap, AddFeedback PROVE IInv'
  <1> DEFINE new == [exp EXCEPT !.state = "iterating", !.feedback = asked']
  <1>1. /\ Quiet /\ exp \in Records /\ RecordFits(exp, Len(jobs), Saved)
        /\ asked' \in Nat /\ proposal' \subseteq {"saved", "approved", "rejected"}
        /\ UNCHANGED <<proposal, crashed>>
    BY CalledWhenQuiet DEF AddFeedback
  <1>2. Submit("experiment", exp.provider = "live", FALSE, new)
    BY DEF AddFeedback
  <1>3. /\ new \in Records /\ new.round = exp.round /\ new.state = "iterating"
    BY <1>1 DEF Records, States
  <1> HIDE DEF new
  <1>4. (new.round \in WithProposal => Saved') /\ "experiment" \in Kinds
    BY <1>1, <1>3 DEF RecordFits, Saved, Kinds
  <1>5. (exp.provider = "live") \in BOOLEAN /\ FALSE \in BOOLEAN
    OBVIOUS
  <1> QED
    BY <1>1, <1>2, <1>3, <1>4, <1>5, SubmitFits

LEMMA ApproveRoundInv ==
  ASSUME IInv, ~Overlap, ApproveRound PROVE IInv'
  <1> DEFINE new == [exp EXCEPT !.state = "training", !.round = "approved"]
  <1>1. /\ Quiet /\ exp \in Records /\ RecordFits(exp, Len(jobs), Saved)
        /\ asked' \in Nat /\ proposal' \subseteq {"saved", "approved", "rejected"}
        /\ proposal' = proposal \union {"approved"} /\ exp.round \in WithProposal
        /\ UNCHANGED <<asked, crashed>>
    BY CalledWhenQuiet DEF ApproveRound
  <1>2. Submit("agentic_round_execute", FALSE, FALSE, new)
    BY DEF ApproveRound
  <1>3. new \in Records /\ new.round = "approved" /\ new.state = "training"
    BY <1>1 DEF Records, States, WithProposal
  <1> HIDE DEF new
  <1>4. Saved' /\ "agentic_round_execute" \in Kinds /\ "approved" \in WithProposal
    BY <1>1 DEF RecordFits, Saved, Kinds, WithProposal
  <1> QED
    BY <1>1, <1>2, <1>3, <1>4, SubmitFits

LEMMA RejectRoundInv ==
  ASSUME IInv, ~Overlap, RejectRound PROVE IInv'
  <1> DEFINE new == [exp EXCEPT !.state = "completed", !.round = "rejected"]
  <1>1. /\ Quiet /\ exp # Absent /\ exp \in Records /\ RecordFits(exp, Len(jobs), Saved)
        /\ proposal' = proposal \union {"rejected"} /\ exp.round \in WithProposal
        /\ proposal' \subseteq {"saved", "approved", "rejected"}
        /\ UNCHANGED <<jobs, asked, crashed>>
    BY CalledWhenQuiet DEF RejectRound, MayCall
  <1>2. exp' = new
    BY DEF RejectRound
  <1>3. /\ new \in Records /\ new.round = "rejected" /\ new.state = "completed"
        /\ new.job = exp.job
    BY <1>1 DEF Records, States, WithProposal
  <1> HIDE DEF new
  <1>4. RecordFits(new, Len(jobs), Saved') /\ new # Absent
    BY <1>1, <1>3, AbsentIsNone DEF RecordFits, Saved, WithProposal
  <1>5. JobFits(jobs[Len(jobs)], Len(jobs), new, Saved')
    <2>1. Len(jobs) \in JobIds
      BY <1>1 DEF IInv, TypeOK, RecordIsLast, JobIds
    <2>2. jobs[Len(jobs)].at = "over"
      BY <1>1, <2>1 DEF Quiet, Over
    <2> QED
      BY <1>3, <2>2 DEF JobFits, Stages, InProgress
  <1> QED
    BY <1>1, <1>2, <1>3, <1>4, <1>5
    DEF IInv, TypeOK, OneAtATime, RecordIsLast, JobIds, Over

\* Elsewhere decisions are only added.
LEMMA DecideElsewhereInv ==
  ASSUME IInv, DecideElsewhere PROVE IInv'
  <1>1. /\ Saved /\ Saved' /\ proposal' \subseteq {"saved", "approved", "rejected"}
        /\ UNCHANGED <<exp, jobs, asked, crashed>>
    BY DEF DecideElsewhere, Saved, IInv, TypeOK
  <1> QED
    BY <1>1 DEF IInv, TypeOK, OneAtATime, RecordIsLast, JobIds, Over, RecordFits, JobFits

LEMMA CancelInv ==
  ASSUME IInv, NEW j \in JobIds, Cancel(j) PROVE IInv'
  <1> DEFINE job == [jobs[j] EXCEPT !.cancel = TRUE]
  <1>1. /\ jobs \in Seq(Jobs) /\ Len(jobs) \in Nat /\ jobs[j] \in Jobs
        /\ UNCHANGED <<exp, proposal, asked, crashed>>
        /\ jobs' = [jobs EXCEPT ![j] = job]
    BY DEF Cancel, IInv, TypeOK, JobIds
  <1>2. /\ job \in Jobs /\ job.at = jobs[j].at /\ job.kind = jobs[j].kind
        /\ job.status = jobs[j].status /\ job.local = jobs[j].local /\ job.cancel
    BY <1>1 DEF Jobs
  <1> HIDE DEF job
  <1>3. /\ jobs' \in Seq(Jobs) /\ Len(jobs') = Len(jobs)
        /\ \A i \in JobIds : jobs'[i] = IF i = j THEN job ELSE jobs[i]
    BY <1>1, <1>2 DEF JobIds
  <1>4. TypeOK'
    BY <1>1, <1>3 DEF IInv, TypeOK
  <1>5. OneAtATime'
    BY <1>2, <1>3 DEF IInv, OneAtATime, JobIds, Over
  <1>6. RecordIsLast'
    <2>1. Saved' = Saved
      BY <1>1 DEF Saved
    <2>2. ASSUME exp # Absent
          PROVE  JobFits(jobs'[Len(jobs)], Len(jobs), exp, Saved)
      <3>1. Len(jobs) \in JobIds
        BY <1>1 DEF JobIds
      <3>2. JobFits(jobs[Len(jobs)], Len(jobs), exp, Saved)
        BY <2>2 DEF IInv, RecordIsLast
      <3> QED
        BY <1>2, <1>3, <3>1, <3>2 DEF JobFits
    <2> QED
      BY <1>1, <1>3, <2>1, <2>2 DEF IInv, RecordIsLast
  <1> QED
    BY <1>4, <1>5, <1>6 DEF IInv

LEMMA RestartInv ==
  ASSUME IInv, Restart PROVE IInv'
  <1>1. /\ jobs \in Seq(Jobs) /\ Len(jobs) \in Nat
        /\ crashed' = TRUE /\ UNCHANGED <<exp, proposal, asked>>
    <2>1. jobs \in Seq(Jobs) /\ Len(jobs) \in Nat
      BY DEF IInv, TypeOK
    <2>2. crashed' = TRUE /\ UNCHANGED <<exp, proposal, asked>>
      BY DEF Restart
    <2> QED
      BY <2>1, <2>2
  <1>2. ASSUME NEW i \in JobIds
        PROVE  /\ jobs'[i] \in Jobs /\ jobs'[i].at = "over"
               /\ jobs[i].at = "over" => jobs'[i] = jobs[i]
               /\ jobs[i].at # "over" => jobs'[i].status = "lost"
    <2>1. jobs[i] \in Jobs
      BY <1>1 DEF JobIds
    <2>2. jobs'[i] = IF jobs[i].at = "over" THEN jobs[i]
                     ELSE [jobs[i] EXCEPT !.at = "over", !.status = "lost"]
      BY DEF Restart, Over
    <2>3. CASE jobs[i].at = "over"
      BY <2>1, <2>2, <2>3
    <2>4. CASE jobs[i].at # "over"
      <3>1. jobs'[i] = [jobs[i] EXCEPT !.at = "over", !.status = "lost"]
        BY <2>2, <2>4
      <3>2. "over" \in Steps /\ "lost" \in {"pending", "running", "lost"} \union Verdicts
        BY DEF Steps
      <3>3. [jobs[i] EXCEPT !.at = "over", !.status = "lost"] \in Jobs
        BY <2>1, <3>2 DEF Jobs
      <3>4. /\ [jobs[i] EXCEPT !.at = "over", !.status = "lost"].at = "over"
            /\ [jobs[i] EXCEPT !.at = "over", !.status = "lost"].status = "lost"
        BY <2>1 DEF Jobs
      <3> QED
        BY <2>4, <3>1, <3>3, <3>4
    <2> QED
      BY <2>3, <2>4
  <1>3. jobs' \in Seq(Jobs) /\ Len(jobs') = Len(jobs)
    <2> DEFINE new(i) == IF Over(i) THEN jobs[i]
                         ELSE [jobs[i] EXCEPT !.at = "over", !.status = "lost"]
    <2>1. jobs' = [i \in 1 .. Len(jobs) |-> new(i)]
      BY DEF Restart, JobIds
    <2>2. \A i \in 1 .. Len(jobs) : new(i) \in Jobs
      BY <1>2, <2>1 DEF JobIds
    <2> HIDE DEF new
    <2> QED
      BY <1>1, <2>1, <2>2
  <1>4. TypeOK'
    BY <1>1, <1>3 DEF IInv, TypeOK
  <1>5. OneAtATime'
    BY <1>2, <1>3 DEF OneAtATime, JobIds, Over
  <1>6. RecordIsLast'
    <2>1. Saved' = Saved
      BY <1>1 DEF Saved
    <2>2. ASSUME exp # Absent
          PROVE  JobFits(jobs'[Len(jobs)], Len(jobs), exp, Saved)
      <3>1. Len(jobs) \in JobIds
        BY <1>1, <2>2 DEF JobIds, IInv, RecordIsLast
      <3>2. JobFits(jobs[Len(jobs)], Len(jobs), exp, Saved)
        BY <2>2 DEF IInv, RecordIsLast
      <3> QED
        BY <1>2, <3>1, <3>2 DEF JobFits, Stages
    <2> QED
      BY <1>1, <1>3, <2>1, <2>2 DEF IInv, RecordIsLast
  <1> QED
    BY <1>4, <1>5, <1>6 DEF IInv
-----------------------------------------------------------------------------
(* Whoever calls whenever: records stay whole, and a proposal that a record    *)
(* names was saved. A job's copy has to be so too, since the job saves it.     *)

Whole(record, saved) ==
  record \in Records /\ (record.round \in WithProposal => saved)

WholeInv ==
  /\ TypeOK
  /\ exp = Absent <=> Len(jobs) = 0
  /\ exp # Absent => Whole(exp, Saved)
  /\ \A j \in JobIds : Whole(jobs[j].local, Saved)

LEMMA ChangedIsWhole ==
  ASSUME NEW record, NEW saved, Whole(record, saved), NEW state \in States,
         NEW best \in {"none", "deterministic", "agentic"}
  PROVE  /\ Whole([record EXCEPT !.state = state], saved)
         /\ Whole([record EXCEPT !.state = state, !.best = best], saved)
  BY DEF Whole, Records

LEMMA ConcludedIsWhole ==
  ASSUME NEW record, NEW saved, Whole(record, saved), NEW j \in Nat, NEW trained
  PROVE  Whole(Concluded(j, record, trained), saved)
  <1>1. Concluded(j, record, trained) \in Records
    BY DEF Concluded, Whole, Records, States
  <1>2. Concluded(j, record, trained).round = "none"
    BY DEF Concluded, Whole, Records
  <1> QED
    BY <1>1, <1>2 DEF Whole, WithProposal

LEMMA WithRoundIsWhole ==
  ASSUME NEW record, NEW saved, Whole(record, saved),
         NEW round \in {"over", "awaiting_approval"}, NEW saved2,
         round = "awaiting_approval" => saved2
  PROVE  Whole(WithRound(record, round), saved2)
  <1>1. WithRound(record, round) \in Records
    BY DEF WithRound, Whole, Records, States, WithProposal
  <1>2. WithRound(record, round).round = round
    BY DEF WithRound, Whole, Records
  <1> QED
    BY <1>1, <1>2 DEF Whole, WithProposal

LEMMA AnyJob ==
  ASSUME WholeInv, NEW j \in JobIds
  PROVE  /\ j \in Nat /\ jobs[j] \in Jobs /\ exp # Absent
         /\ Whole(exp, Saved) /\ Whole(jobs[j].local, Saved)
  BY DEF WholeInv, TypeOK, JobIds

LEMMA WholeMoved ==
  ASSUME WholeInv, NEW j \in JobIds, NEW job \in Jobs, NEW record,
         exp' = record, jobs' = [jobs EXCEPT ![j] = job],
         Whole(record, Saved'), Whole(job.local, Saved'), Saved => Saved',
         proposal' \subseteq {"saved", "approved", "rejected"},
         UNCHANGED <<asked, crashed>>
  PROVE  WholeInv'
  <1>1. /\ jobs' \in Seq(Jobs) /\ Len(jobs') = Len(jobs) /\ jobs'[j] = job
        /\ \A i \in JobIds : i # j => jobs'[i] = jobs[i]
    BY DEF WholeInv, TypeOK, JobIds
  <1>2. TypeOK'
    BY <1>1 DEF WholeInv, TypeOK, Whole
  <1>3. exp' # Absent /\ Len(jobs) # 0
    BY AbsentIsNone, AnyJob DEF Whole, WholeInv
  <1>4. JobIds' = JobIds
    BY <1>1 DEF JobIds
  <1>5. ASSUME NEW i \in JobIds PROVE Whole(jobs'[i].local, Saved')
    <2>1. CASE i = j
      BY <1>1, <2>1
    <2>2. CASE i # j
      BY <1>1, <2>2, AnyJob DEF Whole
    <2> QED
      BY <2>1, <2>2
  <1> QED
    BY <1>1, <1>2, <1>3, <1>4, <1>5 DEF WholeInv

LEMMA EndIsWhole ==
  ASSUME WholeInv, NEW j \in JobIds, NEW record, NEW verdict \in Verdicts,
         End(j, record, verdict), Whole(record, Saved'), Saved => Saved',
         proposal' \subseteq {"saved", "approved", "rejected"},
         UNCHANGED <<asked, crashed>>
  PROVE  WholeInv'
  <1> DEFINE job == [jobs[j] EXCEPT !.at = "over", !.local = record, !.status = verdict]
  <1>1. jobs' = [jobs EXCEPT ![j] = job] /\ exp' = record
    BY DEF End
  <1>2. jobs[j] \in Jobs /\ record \in Records
    BY AnyJob DEF Whole
  <1>3. job \in Jobs /\ job.local = record
    BY <1>2 DEF Jobs, Steps, Verdicts
  <1> HIDE DEF job
  <1> QED
    BY <1>1, <1>3, WholeMoved

\* How a job can end when it leaves the proposal alone.
LEMMA EndsWhole ==
  ASSUME WholeInv, NEW j \in JobIds, NEW record, Whole(record, Saved),
         NEW verdict \in Verdicts,
         \/ Fail(j, record) \/ CancelAt(j, record)
         \/ End(j, record, verdict) \/ Return(j, record, verdict),
         UNCHANGED <<proposal, asked, crashed>>
  PROVE  WholeInv'
  <1>1. /\ Saved' = Saved /\ proposal' \subseteq {"saved", "approved", "rejected"}
        /\ {"failed", "cancelled"} \subseteq Verdicts /\ {"failed", "cancelled"} \subseteq States
    BY DEF Saved, WholeInv, TypeOK, Verdicts, States
  <1>2. /\ Whole([record EXCEPT !.state = "failed"], Saved)
        /\ Whole([record EXCEPT !.state = "cancelled"], Saved)
    BY <1>1, ChangedIsWhole
  <1>3. CASE Fail(j, record)
    BY <1>1, <1>2, <1>3, EndIsWhole DEF Fail
  <1>4. CASE CancelAt(j, record)
    BY <1>1, <1>2, <1>4, EndIsWhole DEF CancelAt
  <1>5. ASSUME NEW v \in Verdicts, End(j, record, v) PROVE WholeInv'
    BY <1>1, <1>5, EndIsWhole
  <1>6. CASE Return(j, record, verdict)
    BY <1>1, <1>5, <1>6 DEF Return
  <1> QED
    BY <1>3, <1>4, <1>5, <1>6

LEMMA AwaitIsWhole ==
  ASSUME WholeInv, NEW j \in JobIds, NEW record, Whole(record, Saved), NEW state \in States,
         NEW next \in {"features", "selection", "training"},
         Await(j, [record EXCEPT !.state = state], next),
         UNCHANGED <<proposal, asked, crashed>>
  PROVE  WholeInv'
  <1> DEFINE new == [record EXCEPT !.state = state]
  <1>1. Whole(new, Saved)
    BY ChangedIsWhole, AnyJob DEF Whole, Records
  <1> DEFINE job == [jobs[j] EXCEPT !.at = next, !.status = "running", !.local = new]
  <1>2. jobs' = [jobs EXCEPT ![j] = job] /\ exp' = new
    BY DEF Await
  <1> HIDE DEF new
  <1>3. jobs[j] \in Jobs /\ new \in Records
    BY <1>1, AnyJob DEF Whole
  <1>4. job \in Jobs /\ job.local = new
    BY <1>3 DEF Jobs, Steps
  <1> HIDE DEF job
  <1>5. Saved' = Saved /\ proposal' \subseteq {"saved", "approved", "rejected"}
    BY DEF Saved, WholeInv, TypeOK
  <1> QED
    BY <1>1, <1>2, <1>4, <1>5, WholeMoved

LEMMA StagesWhole ==
  ASSUME WholeInv, NEW j \in JobIds, BeginLive(j) \/ Features(j) \/ Selection(j)
  PROVE  WholeInv'
  <1>1. /\ Whole(exp, Saved) /\ Whole(jobs[j].local, Saved) /\ "failed" \in Verdicts
        /\ {"planning", "cleaning", "training"} \subseteq States
    BY AnyJob DEF Verdicts, States
  <1>2. CASE BeginLive(j)
    BY <1>1, <1>2, EndsWhole, AwaitIsWhole DEF BeginLive
  <1>3. CASE Features(j)
    BY <1>1, <1>3, EndsWhole, AwaitIsWhole DEF Features
  <1>4. CASE Selection(j)
    BY <1>1, <1>4, EndsWhole, AwaitIsWhole DEF Selection
  <1> QED
    BY <1>2, <1>3, <1>4

LEMMA RoundOutcomeWhole ==
  ASSUME WholeInv, NEW j \in JobIds, NEW record, Whole(record, Saved),
         NEW round \in {"over", "awaiting_approval"},
         Return(j, WithRound(record, round), "completed"),
         proposal' = IF round = "over" THEN proposal ELSE proposal \union {"saved"},
         UNCHANGED <<asked, crashed>>
  PROVE  WholeInv'
  <1> DEFINE new == WithRound(record, round)
  <1>1. /\ proposal' \subseteq {"saved", "approved", "rejected"} /\ (Saved => Saved')
        /\ round = "awaiting_approval" => Saved'
    BY DEF Saved, WholeInv, TypeOK
  <1>2. Whole(new, Saved')
    BY <1>1, WithRoundIsWhole
  <1>3. PICK v \in Verdicts : End(j, new, v)
    BY DEF Return, Verdicts
  <1> HIDE DEF new
  <1> QED
    BY <1>1, <1>2, <1>3, EndIsWhole

LEMMA TrainWhole == ASSUME WholeInv, NEW j \in JobIds, Train(j) PROVE WholeInv'
  <1> DEFINE copy == jobs[j].local
  <1>1. /\ Whole(copy, Saved) /\ j \in Nat /\ jobs[j] \in Jobs /\ "completed" \in Verdicts
        /\ UNCHANGED <<proposal, asked, crashed>>
    BY AnyJob DEF Train, Verdicts
  <1>2. CASE CancelAt(j, copy) \/ Fail(j, copy)
    BY <1>1, <1>2, EndsWhole
  <1>3. ASSUME NEW trained \in Trained, Return(j, Concluded(j, copy, trained), "completed")
        PROVE  WholeInv'
    BY <1>1, <1>3, ConcludedIsWhole, EndsWhole
  <1>4. ASSUME NEW trained \in Trained, exp' = [copy EXCEPT !.state = "evaluating"],
               jobs' = [jobs EXCEPT ![j].at = "round",
                          ![j].local = Concluded(j, copy, trained)]
        PROVE  WholeInv'
    <2> DEFINE saving == [copy EXCEPT !.state = "evaluating"]
               keeping == Concluded(j, copy, trained)
               job == [jobs[j] EXCEPT !.at = "round", !.local = keeping]
    <2>1. Whole(saving, Saved)
      <3>1. "evaluating" \in States /\ "none" \in {"none", "deterministic", "agentic"}
        BY DEF States
      <3> QED
        BY <1>1, <3>1, ChangedIsWhole
    <2>2. Whole(keeping, Saved)
      BY <1>1, ConcludedIsWhole
    <2>3. exp' = saving /\ jobs' = [jobs EXCEPT ![j] = job]
      BY <1>4
    <2> HIDE DEF saving, keeping
    <2>4. job \in Jobs /\ job.local = keeping
      BY <1>1, <2>2 DEF Jobs, Steps, Whole
    <2> HIDE DEF job
    <2>5. Saved' = Saved /\ proposal' \subseteq {"saved", "approved", "rejected"}
      BY <1>1 DEF Saved, WholeInv, TypeOK
    <2> QED
      BY <1>1, <2>1, <2>2, <2>3, <2>4, <2>5, WholeMoved
  <1> QED
    BY <1>2, <1>3, <1>4 DEF Train

LEMMA MockWhole ==
  ASSUME WholeInv, NEW j \in JobIds, EndRound(j) \/ RunMock(j) PROVE WholeInv'
  <1>1. /\ Whole(exp, Saved) /\ Whole(jobs[j].local, Saved) /\ j \in Nat
        /\ {"completed", "failed"} \subseteq Verdicts /\ UNCHANGED <<asked, crashed>>
    BY AnyJob DEF EndRound, RunMock, Verdicts
  <1>2. ASSUME NEW record, Whole(record, Saved), RoundOutcome(j, record) PROVE WholeInv'
    <2>1. PICK round \in {"over", "awaiting_approval"} :
            /\ Return(j, WithRound(record, round), "completed")
            /\ proposal' = IF round = "over" THEN proposal ELSE proposal \union {"saved"}
      BY <1>2 DEF RoundOutcome
    <2> QED
      BY <1>1, <1>2, <2>1, RoundOutcomeWhole
  <1>3. CASE EndRound(j)
    <2>1. CASE jobs[j].cancel
      BY <1>1, <1>3, <2>1, RoundOutcomeWhole DEF EndRound
    <2>2. CASE ~jobs[j].cancel
      BY <1>1, <1>2, <1>3, <2>2 DEF EndRound
    <2> QED
      BY <2>1, <2>2
  <1>4. CASE RunMock(j)
    <2>1. \A trained \in Trained : Whole(Concluded(j, exp, trained), Saved)
      BY <1>1, ConcludedIsWhole
    <2>2. CASE UNCHANGED proposal /\ (CancelAt(j, exp) \/ Fail(j, exp))
      BY <1>1, <2>2, EndsWhole
    <2>3. ASSUME NEW trained \in Trained, UNCHANGED proposal,
                 Return(j, Concluded(j, exp, trained), "completed")
          PROVE  WholeInv'
      BY <1>1, <2>1, <2>3, EndsWhole
    <2> QED
      BY <1>2, <1>4, <2>1, <2>2, <2>3 DEF RunMock
  <1> QED
    BY <1>3, <1>4

LEMMA ExecutionWhole ==
  ASSUME WholeInv, NEW j \in JobIds, RunRound(j) \/ RunProposal(j) PROVE WholeInv'
  <1>1. /\ Whole(exp, Saved) /\ {"completed", "failed"} \subseteq Verdicts
        /\ {"awaiting_approval", "training", "completed", "failed"} \subseteq States
        /\ exp.best \in {"none", "deterministic", "agentic"}
        /\ UNCHANGED <<proposal, asked, crashed>>
    BY AnyJob DEF RunRound, RunProposal, Verdicts, States, Whole, Records
  <1>2. ASSUME NEW state \in {"awaiting_approval", "training", "completed", "failed"}
        PROVE  Whole([exp EXCEPT !.state = state], Saved)
    BY <1>1, ChangedIsWhole
  <1>3. ASSUME NEW best \in {exp.best, "agentic", "deterministic"}
        PROVE  Whole([exp EXCEPT !.state = "completed", !.best = best], Saved)
    BY <1>1, ChangedIsWhole
  <1>4. CASE RunRound(j)
    BY <1>1, <1>2, <1>3, <1>4, EndsWhole DEF RunRound
  <1>5. CASE RunProposal(j)
    BY <1>1, <1>2, <1>3, <1>5, EndsWhole DEF RunProposal
  <1> QED
    BY <1>4, <1>5

LEMMA SubmitWhole ==
  ASSUME WholeInv, NEW kind \in Kinds, NEW live \in BOOLEAN, NEW wantsRound \in BOOLEAN,
         NEW record, Whole(record, Saved'), Submit(kind, live, wantsRound, record),
         Saved => Saved', proposal' \subseteq {"saved", "approved", "rejected"},
         asked' \in Nat, UNCHANGED crashed
  PROVE  WholeInv'
  <1> DEFINE n == Len(jobs) + 1
             new == [record EXCEPT !.job = n]
             job == [kind |-> kind, at |-> "begin", status |-> "pending",
                     cancel |-> FALSE, live |-> live, wantsRound |-> wantsRound,
                     local |-> new]
  <1>1. jobs \in Seq(Jobs) /\ Len(jobs) \in Nat /\ n \in Nat
    BY DEF WholeInv, TypeOK
  <1>2. exp' = new /\ jobs' = Append(jobs, job)
    BY DEF Submit
  <1>3. new \in Records /\ new.round = record.round
    BY <1>1 DEF Records, Whole
  <1> HIDE DEF new
  <1>4. job \in Jobs /\ job.local = new
    BY <1>3 DEF Jobs, Steps
  <1> HIDE DEF job
  <1>5. /\ jobs' \in Seq(Jobs) /\ Len(jobs') = n /\ jobs'[n] = job
        /\ \A i \in JobIds : jobs'[i] = jobs[i]
        /\ \A i \in 1 .. n : i # n => i \in JobIds
    BY <1>1, <1>2, <1>4 DEF JobIds
  <1>6. Whole(new, Saved') /\ new # Absent /\ n # 0
    BY <1>1, <1>3, AbsentIsNone DEF Whole
  <1>7. TypeOK'
    BY <1>2, <1>3, <1>5 DEF WholeInv, TypeOK
  <1>8. ASSUME NEW i \in 1 .. n PROVE Whole(jobs'[i].local, Saved')
    <2>1. CASE i = n
      BY <1>4, <1>5, <1>6, <2>1
    <2>2. CASE i # n
      <3>1. i \in JobIds /\ jobs'[i] = jobs[i]
        BY <1>5, <2>2
      <3> QED
        BY <3>1, AnyJob DEF Whole
    <2> QED
      BY <2>1, <2>2
  <1> HIDE DEF n
  <1> QED
    BY <1>2, <1>5, <1>6, <1>7, <1>8 DEF WholeInv, JobIds

LEMMA CallsWhole ==
  ASSUME WholeInv,
         \/ \E live, wantsRound \in BOOLEAN : StartExperiment(live, wantsRound)
         \/ StartFromProposal \/ AddFeedback \/ ApproveRound
  PROVE  WholeInv'
  <1>0. /\ asked \in Nat /\ proposal \subseteq {"saved", "approved", "rejected"}
        /\ {"experiment", "proposal_experiment", "agentic_round_execute"} \subseteq Kinds
    BY DEF WholeInv, TypeOK, Kinds
  <1>1. ASSUME NEW provider \in {"live", "mock", "lost"}, NEW saved
        PROVE  Whole([state |-> "pending", job |-> 0, provider |-> provider,
                      feedback |-> 0, round |-> "none", best |-> "none"], saved)
    BY DEF Whole, Records, States, WithProposal
  <1>2. ASSUME NEW live \in BOOLEAN, NEW wantsRound \in BOOLEAN,
               StartExperiment(live, wantsRound)
        PROVE  WholeInv'
    <2> DEFINE provider == IF live THEN "live" ELSE "mock"
               new == [state |-> "pending", job |-> 0, provider |-> provider,
                       feedback |-> 0, round |-> "none", best |-> "none"]
    <2>1. Whole(new, Saved')
      BY <1>1
    <2>2. Submit("experiment", live, wantsRound, new) /\ UNCHANGED <<proposal, asked, crashed>>
      BY <1>2 DEF StartExperiment
    <2> HIDE DEF new
    <2>3. Saved' = Saved
      BY <2>2 DEF Saved
    <2> QED
      BY <1>0, <2>1, <2>2, <2>3, SubmitWhole
  <1>3. CASE StartFromProposal
    <2> DEFINE new == [state |-> "pending", job |-> 0, provider |-> "lost",
                       feedback |-> 0, round |-> "none", best |-> "none"]
    <2>1. Whole(new, Saved')
      BY <1>1
    <2>2. /\ Submit("proposal_experiment", FALSE, FALSE, new) /\ UNCHANGED <<asked, crashed>>
          /\ Saved' /\ proposal' \subseteq {"saved", "approved", "rejected"}
      BY <1>3 DEF StartFromProposal, Saved
    <2> HIDE DEF new
    <2> QED
      BY <1>0, <2>1, <2>2, SubmitWhole
  <1>4. CASE AddFeedback
    <2> DEFINE new == [exp EXCEPT !.state = "iterating", !.feedback = asked']
    <2>1. /\ Whole(exp, Saved) /\ asked' \in Nat /\ UNCHANGED <<proposal, crashed>>
          /\ Submit("experiment", exp.provider = "live", FALSE, new)
      <3>1. exp # Absent /\ asked' = asked + 1 /\ UNCHANGED <<proposal, crashed>>
        BY <1>4 DEF AddFeedback, MayCall
      <3>2. Submit("experiment", exp.provider = "live", FALSE, new)
        BY <1>4 DEF AddFeedback
      <3>3. Whole(exp, Saved)
        BY <3>1 DEF WholeInv
      <3>4. asked' \in Nat
        BY <1>0, <3>1
      <3> HIDE DEF new
      <3> QED
        BY <3>1, <3>2, <3>3, <3>4
    <2>2. Whole(new, Saved)
      BY <2>1 DEF Whole, Records, States
    <2> HIDE DEF new
    <2>3. Saved' = Saved /\ (exp.provider = "live") \in BOOLEAN
      BY <2>1 DEF Saved
    <2> QED
      BY <1>0, <2>1, <2>2, <2>3, SubmitWhole
  <1>5. CASE ApproveRound
    <2> DEFINE new == [exp EXCEPT !.state = "training", !.round = "approved"]
    <2>1. /\ Whole(exp, Saved) /\ exp.round \in WithProposal /\ UNCHANGED <<asked, crashed>>
          /\ proposal' = proposal \union {"approved"}
          /\ Submit("agentic_round_execute", FALSE, FALSE, new)
      BY <1>5 DEF ApproveRound, MayCall, WholeInv
    <2>2. Saved' /\ proposal' \subseteq {"saved", "approved", "rejected"}
      BY <1>0, <2>1 DEF Whole, Saved
    <2>3. Whole(new, Saved')
      BY <2>1, <2>2 DEF Whole, Records, States, WithProposal
    <2> HIDE DEF new
    <2> QED
      BY <1>0, <2>1, <2>2, <2>3, SubmitWhole
  <1> QED
    BY <1>2, <1>3, <1>4, <1>5

LEMMA DecisionsWhole ==
  ASSUME WholeInv, RejectRound \/ DecideElsewhere PROVE WholeInv'
  <1>1. /\ jobs' = jobs /\ (Saved => Saved') /\ UNCHANGED <<asked, crashed>>
        /\ proposal' \subseteq {"saved", "approved", "rejected"}
    BY DEF RejectRound, DecideElsewhere, Saved, WholeInv, TypeOK
  <1>2. exp' = Absent <=> exp = Absent
    <2>1. CASE DecideElsewhere
      BY <2>1 DEF DecideElsewhere
    <2>2. CASE RejectRound
      <3>1. exp \in Records /\ exp' = [exp EXCEPT !.state = "completed", !.round = "rejected"]
        BY <2>2 DEF RejectRound, MayCall, WholeInv, Whole
      <3>2. exp' \in Records
        BY <3>1 DEF Records, States, WithProposal
      <3> QED
        BY <3>1, <3>2, AbsentIsNone
    <2> QED
      BY <2>1, <2>2
  <1>3. exp' # Absent => Whole(exp', Saved')
    <2>1. CASE DecideElsewhere
      BY <1>1, <2>1 DEF DecideElsewhere, WholeInv, Whole
    <2>2. CASE RejectRound
      <3>1. /\ Whole(exp, Saved) /\ exp.round \in WithProposal
            /\ exp' = [exp EXCEPT !.state = "completed", !.round = "rejected"]
        BY <2>2 DEF RejectRound, MayCall, WholeInv
      <3>2. exp' \in Records /\ Saved'
        BY <1>1, <3>1 DEF Whole, Records, States, WithProposal
      <3> QED
        BY <3>2 DEF Whole
    <2> QED
      BY <2>1, <2>2
  <1>4. \A j \in JobIds : Whole(jobs[j].local, Saved')
    BY <1>1 DEF WholeInv, Whole
  <1>5. exp' \in Records \union {Absent}
    BY <1>3 DEF Whole
  <1> QED
    BY <1>1, <1>2, <1>3, <1>4, <1>5 DEF WholeInv, TypeOK, JobIds

LEMMA JobsWhole ==
  ASSUME WholeInv, Restart \/ \E j \in JobIds : Cancel(j) PROVE WholeInv'
  <1> DEFINE changed(i) == jobs'[i] \in Jobs /\ jobs'[i].local = jobs[i].local
  <1>1. jobs \in Seq(Jobs) /\ Len(jobs) \in Nat /\ \A i \in JobIds : jobs[i] \in Jobs
    BY DEF WholeInv, TypeOK, JobIds
  <1>2. /\ crashed' \in BOOLEAN /\ UNCHANGED <<exp, proposal, asked>>
    BY DEF Restart, Cancel, WholeInv, TypeOK
  <1>3. jobs' \in Seq(Jobs) /\ Len(jobs') = Len(jobs) /\ \A i \in JobIds : changed(i)
    <2>1. ASSUME NEW j \in JobIds, Cancel(j)
          PROVE  jobs' \in Seq(Jobs) /\ Len(jobs') = Len(jobs) /\ \A i \in JobIds : changed(i)
      <3> DEFINE job == [jobs[j] EXCEPT !.cancel = TRUE]
      <3>1. jobs' = [jobs EXCEPT ![j] = job]
        BY <2>1 DEF Cancel
      <3>2. job \in Jobs /\ job.local = jobs[j].local
        BY <1>1 DEF Jobs
      <3> HIDE DEF job
      <3>3. /\ jobs' \in Seq(Jobs) /\ Len(jobs') = Len(jobs)
            /\ \A i \in JobIds : jobs'[i] = IF i = j THEN job ELSE jobs[i]
        BY <1>1, <3>1, <3>2 DEF JobIds
      <3> QED
        BY <1>1, <3>2, <3>3
    <2>2. ASSUME Restart
          PROVE  jobs' \in Seq(Jobs) /\ Len(jobs') = Len(jobs) /\ \A i \in JobIds : changed(i)
      <3> DEFINE new(i) == IF Over(i) THEN jobs[i]
                           ELSE [jobs[i] EXCEPT !.at = "over", !.status = "lost"]
      <3>1. jobs' = [i \in 1 .. Len(jobs) |-> new(i)]
        BY <2>2 DEF Restart, JobIds
      <3>2. ASSUME NEW i \in JobIds PROVE new(i) \in Jobs /\ new(i).local = jobs[i].local
        BY <1>1 DEF Jobs, Steps
      <3> HIDE DEF new
      <3> QED
        BY <1>1, <3>1, <3>2 DEF JobIds
    <2> QED
      BY <2>1, <2>2
  <1>4. Saved' = Saved /\ JobIds' = JobIds
    BY <1>2, <1>3 DEF Saved, JobIds
  <1> QED
    BY <1>2, <1>3, <1>4 DEF WholeInv, TypeOK
-----------------------------------------------------------------------------
(* Whoever calls whenever: the copy that is saved last is one of an outcome.   *)

Concludes == {"failed", "completed"}

\* What a job keeps while its round is on is its conclusion.
RoundKept == \A j \in JobIds : jobs[j].at = "round" => jobs[j].local.state \in Concludes

\* A job that has not begun is the latest one.
LatestBegins == \A j \in JobIds : jobs[j].at = "begin" => j = Len(jobs)

SettlesInv == RoundKept /\ LatestBegins /\ SettledWhenQuiet

\* An execution that failed, and awaited nothing before it did.
Excused(j, job) ==
  jobs[j].at = "begin" /\ job.kind # "experiment" /\ job.status = "failed"

\* What job j's own step makes of it.
SettlesAs(j, job) ==
  /\ jobs' = [jobs EXCEPT ![j] = job]
  /\ job.at # "begin"
  /\ job.at = "round" => job.local.state \in Concludes
  /\ job.at = "over" => exp'.state \notin InProgress \/ Excused(j, job)

Settles(j) == \E job : SettlesAs(j, job)

\* A job that ends saves an outcome, or is an execution that failed.
LEMMA EndSettles ==
  ASSUME TypeOK, NEW j \in JobIds, NEW record, NEW verdict, End(j, record, verdict),
         \/ record.state \notin InProgress
         \/ jobs[j].at = "begin" /\ jobs[j].kind # "experiment" /\ verdict = "failed"
  PROVE  Settles(j)
  <1> DEFINE job == [jobs[j] EXCEPT !.at = "over", !.local = record, !.status = verdict]
  <1>1. jobs' = [jobs EXCEPT ![j] = job] /\ exp' = record
    BY DEF End
  <1>2. jobs[j] \in Jobs
    BY DEF TypeOK, JobIds
  <1>3. job.at = "over" /\ job.kind = jobs[j].kind /\ job.status = verdict
    BY <1>2 DEF Jobs
  <1> HIDE DEF job
  <1> QED
    BY <1>1, <1>3 DEF Settles, SettlesAs, Excused

LEMMA OutcomeSettles ==
  ASSUME TypeOK, NEW j \in JobIds, NEW record,
         \/ record \in Records /\ (Fail(j, record) \/ CancelAt(j, record))
         \/ record.state \notin InProgress /\ \E v : Return(j, record, v)
  PROVE  Settles(j)
  <1>1. ASSUME record \in Records
        PROVE  /\ [record EXCEPT !.state = "failed"].state = "failed"
               /\ [record EXCEPT !.state = "cancelled"].state = "cancelled"
    BY <1>1 DEF Records
  <1>2. "failed" \notin InProgress /\ "cancelled" \notin InProgress
    BY DEF InProgress
  <1>3. CASE record \in Records /\ Fail(j, record)
    BY <1>1, <1>2, <1>3, EndSettles DEF Fail
  <1>4. CASE record \in Records /\ CancelAt(j, record)
    BY <1>1, <1>2, <1>4, EndSettles DEF CancelAt
  <1>5. CASE record.state \notin InProgress /\ \E v : Return(j, record, v)
    BY <1>5, EndSettles DEF Return
  <1> QED
    BY <1>3, <1>4, <1>5

LEMMA AwaitSettles ==
  ASSUME TypeOK, NEW j \in JobIds, NEW record,
         NEW next \in {"features", "selection", "training"}, Await(j, record, next)
  PROVE  Settles(j)
  <1> DEFINE job == [jobs[j] EXCEPT !.at = next, !.status = "running", !.local = record]
  <1>1. jobs' = [jobs EXCEPT ![j] = job]
    BY DEF Await
  <1>2. job.at = next
    BY DEF TypeOK, JobIds, Jobs
  <1> HIDE DEF job
  <1> QED
    BY <1>1, <1>2 DEF Settles, SettlesAs

LEMMA ConcludedState ==
  ASSUME NEW record \in Records, NEW j, NEW trained
  PROVE  Concluded(j, record, trained).state \in Concludes
  BY DEF Concluded, Records, Concludes

LEMMA RoundState ==
  ASSUME NEW record \in Records, record.state \in Concludes,
         NEW round \in {"over", "awaiting_approval"}
  PROVE  WithRound(record, round).state \notin InProgress
  BY DEF WithRound, Records, Concludes, InProgress

LEMMA RoundSettles ==
  ASSUME TypeOK, NEW j \in JobIds, NEW record \in Records, record.state \in Concludes,
         \/ RoundOutcome(j, record)
         \/ Return(j, WithRound(record, "over"), "completed")
  PROVE  Settles(j)
  BY RoundState, OutcomeSettles DEF RoundOutcome

LEMMA StagesSettle ==
  ASSUME WholeInv, NEW j \in JobIds, BeginLive(j) \/ Features(j) \/ Selection(j)
  PROVE  Settles(j)
  <1>1. TypeOK /\ exp \in Records /\ jobs[j].local \in Records
    BY AnyJob DEF WholeInv, Whole
  <1>2. CASE BeginLive(j)
    BY <1>1, <1>2, OutcomeSettles, AwaitSettles DEF BeginLive
  <1>3. CASE Features(j)
    BY <1>1, <1>3, OutcomeSettles, AwaitSettles DEF Features
  <1>4. CASE Selection(j)
    BY <1>1, <1>4, OutcomeSettles, AwaitSettles DEF Selection
  <1> QED
    BY <1>2, <1>3, <1>4

LEMMA TrainSettles ==
  ASSUME WholeInv, NEW j \in JobIds, Train(j)
  PROVE  Settles(j)
  <1> DEFINE copy == jobs[j].local
  <1>1. TypeOK /\ copy \in Records /\ jobs[j] \in Jobs
    BY AnyJob DEF WholeInv, Whole
  <1>2. CASE CancelAt(j, copy) \/ Fail(j, copy)
    BY <1>1, <1>2, OutcomeSettles
  <1>3. ASSUME NEW trained, Return(j, Concluded(j, copy, trained), "completed")
        PROVE  Settles(j)
    BY <1>1, <1>3, ConcludedState, OutcomeSettles DEF Concludes, InProgress
  <1>4. ASSUME NEW trained, jobs' = [jobs EXCEPT ![j].at = "round",
                                       ![j].local = Concluded(j, copy, trained)]
        PROVE  Settles(j)
    <2> DEFINE keeping == Concluded(j, copy, trained)
               job == [jobs[j] EXCEPT !.at = "round", !.local = keeping]
    <2>1. keeping.state \in Concludes
      BY <1>1, ConcludedState
    <2>2. jobs' = [jobs EXCEPT ![j] = job]
      BY <1>4
    <2> HIDE DEF keeping
    <2>3. job.at = "round" /\ job.local = keeping
      BY <1>1 DEF Jobs
    <2> HIDE DEF job
    <2> QED
      BY <2>1, <2>2, <2>3 DEF Settles, SettlesAs
  <1> QED
    BY <1>2, <1>3, <1>4 DEF Train

LEMMA RoundsSettle ==
  ASSUME WholeInv, RoundKept, NEW j \in JobIds, EndRound(j) \/ RunMock(j)
  PROVE  Settles(j)
  <1>1. TypeOK /\ exp \in Records /\ jobs[j].local \in Records
    BY AnyJob DEF WholeInv, Whole
  <1>2. CASE EndRound(j)
    BY <1>1, <1>2, RoundSettles DEF EndRound, RoundKept
  <1>3. CASE RunMock(j)
    <2>1. \A trained : /\ Concluded(j, exp, trained).state \in Concludes
                       /\ Concluded(j, exp, trained).state \notin InProgress
      BY <1>1, ConcludedState DEF Concludes, InProgress
    <2>2. \A trained \in Trained : Concluded(j, exp, trained) \in Records
      BY <1>1, ConcludedIsWhole, AnyJob DEF Whole
    <2>3. CASE CancelAt(j, exp) \/ Fail(j, exp)
      BY <1>1, <2>3, OutcomeSettles
    <2>4. ASSUME NEW trained \in Trained, RoundOutcome(j, Concluded(j, exp, trained))
          PROVE  Settles(j)
      BY <1>1, <2>1, <2>2, <2>4, RoundSettles
    <2>5. ASSUME NEW trained, Return(j, Concluded(j, exp, trained), "completed")
          PROVE  Settles(j)
      BY <1>1, <2>1, <2>5, OutcomeSettles
    <2> QED
      BY <1>3, <2>3, <2>4, <2>5 DEF RunMock
  <1> QED
    BY <1>2, <1>3

LEMMA ExecutionsSettle ==
  ASSUME WholeInv, NEW j \in JobIds, RunRound(j) \/ RunProposal(j)
  PROVE  Settles(j)
  <1>1. TypeOK /\ exp \in Records
    BY AnyJob DEF WholeInv, Whole
  <1>2. ASSUME NEW state \in {"awaiting_approval", "failed", "completed"}, NEW best
        PROVE  /\ [exp EXCEPT !.state = state].state \notin InProgress
               /\ [exp EXCEPT !.state = state, !.best = best].state \notin InProgress
    BY <1>1 DEF Records, InProgress
  <1>3. CASE RunRound(j)
    <2>1. jobs[j].kind # "experiment" /\ jobs[j].at = "begin"
      BY <1>3 DEF RunRound, Starts
    <2> QED
      BY <1>1, <1>2, <1>3, <2>1, EndSettles, OutcomeSettles DEF RunRound
  <1>4. CASE RunProposal(j)
    <2>1. jobs[j].kind # "experiment" /\ jobs[j].at = "begin"
      BY <1>4 DEF RunProposal, Starts
    <2> QED
      BY <1>1, <1>2, <1>4, <2>1, EndSettles, OutcomeSettles DEF RunProposal
  <1> QED
    BY <1>3, <1>4

\* A step of a job keeps the invariant: if it is the last one to be over, the
\* copy it saves is an outcome, or it is excused.
LEMMA JobStepSettles ==
  ASSUME WholeInv, SettlesInv, NEW j \in JobIds, JobStep(j)
  PROVE  SettlesInv'
  <1>1. PICK job : SettlesAs(j, job)
    BY StagesSettle, TrainSettles, RoundsSettle, ExecutionsSettle
    DEF JobStep, Settles, SettlesInv
  <1>2. /\ JobIds' = JobIds /\ Len(jobs') = Len(jobs) /\ jobs'[j] = job
        /\ \A i \in JobIds : i # j => jobs'[i] = jobs[i]
    BY <1>1 DEF SettlesAs, WholeInv, TypeOK, JobIds
  <1>3. RoundKept'
    BY <1>1, <1>2 DEF SettlesAs, SettlesInv, RoundKept
  <1>4. LatestBegins'
    BY <1>1, <1>2 DEF SettlesAs, SettlesInv, LatestBegins
  <1>5. Excused(j, job) => ExecutionFailed'
    BY <1>2 DEF Excused, SettlesInv, LatestBegins, ExecutionFailed
  <1>6. SettledWhenQuiet'
    BY <1>1, <1>2, <1>5 DEF SettlesAs, SettledWhenQuiet, Quiet, Over
  <1> QED
    BY <1>3, <1>4, <1>6 DEF SettlesInv

\* A call that submits a job leaves that one to be waited for; those before it
\* have begun.
LEMMA SubmitSettles ==
  ASSUME WholeInv, SettlesInv, NEW kind, NEW live, NEW wantsRound, NEW record,
         Submit(kind, live, wantsRound, record), exp = Absent \/ Begun
  PROVE  SettlesInv'
  <1>1. PICK job : jobs' = Append(jobs, job) /\ job.at = "begin"
    BY DEF Submit
  <1>2. /\ JobIds' = 1 .. Len(jobs) + 1 /\ Len(jobs) \in Nat
        /\ Len(jobs') = Len(jobs) + 1 /\ jobs'[Len(jobs) + 1] = job
        /\ \A i \in JobIds : jobs'[i] = jobs[i]
    BY <1>1 DEF WholeInv, TypeOK, JobIds
  <1>3. \A i \in JobIds' : i = Len(jobs') \/ i \in JobIds
    BY <1>2 DEF JobIds
  <1>4. \A i \in JobIds : jobs[i].at # "begin"
    BY <1>2 DEF WholeInv, Begun, JobIds
  <1>5. RoundKept'
    BY <1>1, <1>2, <1>3 DEF SettlesInv, RoundKept
  <1>6. LatestBegins'
    BY <1>2, <1>3, <1>4 DEF LatestBegins
  <1>7. SettledWhenQuiet'
    BY <1>1, <1>2 DEF SettledWhenQuiet, Quiet, Over
  <1> QED
    BY <1>5, <1>6, <1>7 DEF SettlesInv

LEMMA RestartKeepsAll ==
  ASSUME TypeOK, Restart PROVE Len(jobs') = Len(jobs)
<1>1. jobs \in Seq(Jobs) /\ Len(jobs) \in Nat /\ \A i \in JobIds : jobs[i] \in Jobs
  BY DEF TypeOK, JobIds
<1>. DEFINE new(i) == IF Over(i) THEN jobs[i]
                      ELSE [jobs[i] EXCEPT !.at = "over", !.status = "lost"]
<1>2. jobs' = [i \in 1 .. Len(jobs) |-> new(i)]
  BY DEF Restart, JobIds
<1>3. ASSUME NEW i \in JobIds PROVE new(i) \in Jobs
  BY <1>1 DEF Jobs, Steps
<1>. HIDE DEF new
<1>. QED
  BY <1>1, <1>2, <1>3 DEF JobIds

LEMMA StepSettles ==
  ASSUME WholeInv, SettlesInv, [Next]_vars
  PROVE  SettlesInv'
  <1> USE DEF SettlesInv
  <1>1. CASE \/ \E live, wantsRound \in BOOLEAN : StartExperiment(live, wantsRound)
             \/ StartFromProposal \/ AddFeedback \/ ApproveRound
    BY <1>1, SubmitSettles
    DEF StartExperiment, StartFromProposal, AddFeedback, ApproveRound, MayCall
  <1>2. CASE RejectRound
    <2>1. exp \in Records /\ exp' = [exp EXCEPT !.state = "completed", !.round = "rejected"]
      BY <1>2 DEF RejectRound, MayCall, WholeInv, Whole
    <2>2. exp'.state \notin InProgress /\ jobs' = jobs
      BY <1>2, <2>1 DEF Records, InProgress, RejectRound
    <2> QED
      BY <2>2 DEF RoundKept, LatestBegins, JobIds, SettledWhenQuiet
  <1>3. CASE DecideElsewhere \/ UNCHANGED vars
    BY <1>3 DEF DecideElsewhere, vars, RoundKept, LatestBegins, JobIds,
                SettledWhenQuiet, ExecutionFailed, Quiet, Over
  <1>4. ASSUME NEW j \in JobIds, Cancel(j) PROVE SettlesInv'
    <2> DEFINE job == [jobs[j] EXCEPT !.cancel = TRUE]
    <2>1. jobs' = [jobs EXCEPT ![j] = job] /\ UNCHANGED <<exp, crashed>>
      BY <1>4 DEF Cancel
    <2>2. /\ job.at = jobs[j].at /\ job.local = jobs[j].local
          /\ job.kind = jobs[j].kind /\ job.status = jobs[j].status
      BY AnyJob DEF Jobs
    <2> HIDE DEF job
    <2>3. /\ JobIds' = JobIds /\ Len(jobs') = Len(jobs)
          /\ \A i \in JobIds : /\ jobs'[i].at = jobs[i].at /\ jobs'[i].local = jobs[i].local
                               /\ jobs'[i].kind = jobs[i].kind
                               /\ jobs'[i].status = jobs[i].status
      BY <2>1, <2>2 DEF WholeInv, TypeOK, JobIds
    <2>4. RoundKept' /\ LatestBegins'
      BY <2>3 DEF RoundKept, LatestBegins
    <2>5. Len(jobs) \in JobIds /\ ExecutionFailed' = ExecutionFailed
      <3>1. Len(jobs) \in JobIds
        BY DEF WholeInv, TypeOK, JobIds
      <3> QED
        BY <2>3, <3>1 DEF ExecutionFailed
    <2>6. SettledWhenQuiet'
      BY <2>1, <2>3, <2>5 DEF SettledWhenQuiet, Quiet, Over
    <2> QED
      BY <2>4, <2>6
  <1>5. CASE Restart
    <2>1. crashed' /\ jobs' = [i \in JobIds |-> IF Over(i) THEN jobs[i]
                        ELSE [jobs[i] EXCEPT !.at = "over", !.status = "lost"]]
      BY <1>5 DEF Restart
    <2>2. JobIds' = JobIds
      BY <1>5, RestartKeepsAll DEF WholeInv, JobIds
    <2>3. ASSUME NEW i \in JobIds PROVE jobs'[i].at = "over"
      BY <2>1, AnyJob DEF Over, Jobs
    <2>4. RoundKept' /\ LatestBegins'
      BY <2>2, <2>3 DEF RoundKept, LatestBegins
    <2>5. SettledWhenQuiet'
      BY <2>1 DEF SettledWhenQuiet
    <2> QED
      BY <2>4, <2>5
  <1> QED
    BY <1>1, <1>2, <1>3, <1>4, <1>5, JobStepSettles DEF Next
-----------------------------------------------------------------------------
(* The theorems *)

LEMMA InitIInv == Init => IInv
  <1> SUFFICES ASSUME Init PROVE IInv
    OBVIOUS
  <1>1. TypeOK
    <2>1. <<>> \in Seq(Jobs) /\ {} \subseteq {"saved", "approved", "rejected"} /\ 0 \in Nat
      OBVIOUS
    <2>2. Absent \in Records \union {Absent} /\ FALSE \in BOOLEAN
      OBVIOUS
    <2> QED
      BY <2>1, <2>2 DEF Init, TypeOK
  <1>2. jobs = <<>> /\ Len(jobs) = 0 /\ exp = Absent
    BY DEF Init
  <1>3. OneAtATime /\ RecordIsLast
    BY <1>2 DEF OneAtATime, RecordIsLast, JobIds
  <1> QED
    BY <1>1, <1>3 DEF IInv

LEMMA StepIInv == ASSUME ~Overlap, IInv, [Next]_vars PROVE IInv'
  <1>1. ASSUME NEW j \in JobIds, JobStep(j) PROVE IInv'
    BY <1>1, BeginLiveInv, FeaturesInv, SelectionInv, TrainInv, EndRoundInv, RunMockInv,
       RunRoundInv, RunProposalInv DEF JobStep
  <1>2. CASE UNCHANGED vars
    BY <1>2 DEF vars, IInv, TypeOK, OneAtATime, RecordIsLast, JobIds, Over, Saved
  <1> QED
    BY <1>1, <1>2, StartInv, AddFeedbackInv, ApproveRoundInv, RejectRoundInv,
       DecideElsewhereInv, RestartInv, CancelInv DEF Next

\* Record, jobs and proposal fit together as long as nobody calls while a job
\* is on (jobs.py:421-650, experiment_api.py:96-300).
THEOREM IInvAlways == Spec => [](~Overlap => IInv)
  <1>1. Init => (~Overlap => IInv)
    BY InitIInv
  <1>2. (~Overlap => IInv) /\ [Next]_vars => (~Overlap => IInv)'
    BY StepIInv
  <1> QED
    BY <1>1, <1>2, PTL DEF Spec

LEMMA WholeAlways == Spec => []WholeInv
  <1>1. Init => WholeInv
    <2> SUFFICES ASSUME Init PROVE WholeInv
      OBVIOUS
    <2>1. TypeOK /\ Len(jobs) = 0 /\ exp = Absent
      BY InitIInv DEF IInv, Init
    <2>2. JobIds = {}
      BY <2>1 DEF JobIds
    <2> QED
      BY <2>1, <2>2 DEF WholeInv
  <1>2. WholeInv /\ [Next]_vars => WholeInv'
    <2> SUFFICES ASSUME WholeInv, [Next]_vars PROVE WholeInv'
      OBVIOUS
    <2>1. ASSUME NEW j \in JobIds, JobStep(j) PROVE WholeInv'
      BY <2>1, StagesWhole, TrainWhole, MockWhole, ExecutionWhole DEF JobStep
    <2>2. CASE UNCHANGED vars
      BY <2>2 DEF vars, WholeInv, TypeOK, JobIds, Saved
    <2> QED
      BY <2>1, <2>2, CallsWhole, DecisionsWhole, JobsWhole DEF Next
  <1> QED
    BY <1>1, <1>2, PTL DEF Spec

\* Every variable of an experiment keeps its type, whoever calls whenever: what
\* a job or an endpoint saves is a whole record (experiment.py, jobs.py:421-650).
THEOREM TypeCorrect == Spec => []TypeOK
  <1>1. WholeInv => TypeOK
    BY DEF WholeInv
  <1> QED
    BY <1>1, WholeAlways, PTL

\* Even of copies that overwrite each other: the round that the record names has
\* a proposal, which can be read (jobs.py:646, agentic_round.py:554).
THEOREM NamedProposalExists == Spec => []RoundHasProposal
  <1>1. WholeInv => RoundHasProposal
    BY DEF WholeInv, Whole, Saved, RoundHasProposal
  <1> QED
    BY <1>1, WholeAlways, PTL

\* Whoever calls while jobs are on: once all are over the record shows an outcome,
\* though each job and each endpoint saved a whole copy over those of the others
\* (jobs.py:421-650, experiment_api.py:117-300).
THEOREM SettlesWhoeverCalls == Spec => []SettledWhenQuiet
  <1>1. Init => SettlesInv
    BY DEF Init, SettlesInv, RoundKept, LatestBegins, JobIds, SettledWhenQuiet
  <1>2. WholeInv /\ SettlesInv /\ [Next]_vars => SettlesInv'
    BY StepSettles
  <1>3. SettlesInv => SettledWhenQuiet
    BY DEF SettlesInv
  <1> QED
    BY <1>1, <1>2, <1>3, WholeAlways, PTL DEF Spec

\* A job of the experiment that is over leaves no stage in its record
\* (jobs.py:569-590).
THEOREM NoStageIsLeft == Spec => [](~Overlap => NeverLeftInAStage)
  <1>1. IInv => NeverLeftInAStage
    BY DEF IInv, RecordIsLast, RecordFits, JobFits, NeverLeftInAStage
  <1> QED
    BY <1>1, IInvAlways, PTL

\* What awaits a decision has a proposal to decide on (jobs.py:543-560).
THEOREM DecisionsArePossible == Spec => [](~Overlap => AwaitingIsDecidable)
  <1>1. IInv => AwaitingIsDecidable
    BY DEF IInv, RecordIsLast, RecordFits, AwaitingIsDecidable, Saved, Absent
  <1> QED
    BY <1>1, IInvAlways, PTL

\* An experiment shows as cancelled only by the job that was asked to stop
\* (jobs.py:241-249).
THEOREM CancelledAsAsked == Spec => [](~Overlap => CancelledWasAsked)
  <1>1. IInv => CancelledWasAsked
    BY DEF IInv, RecordIsLast, RecordFits, JobFits, CancelledWasAsked, Absent
  <1> QED
    BY <1>1, IInvAlways, PTL
-----------------------------------------------------------------------------
\* Why a job ends: the steps it has left, at most.
Left(job) ==
  CASE job.at = "begin"     -> 5
    [] job.at = "features"  -> 4
    [] job.at = "selection" -> 3
    [] job.at = "training"  -> 2
    [] job.at = "round"     -> 1
    [] OTHER                -> 0

Decided == \A j \in JobIds : Over(j) => jobs[j].status \in Verdicts \union {"lost"}

\* What a job's own step makes of it.
LEMMA JobMoves ==
  ASSUME TypeOK, NEW j \in JobIds, JobStep(j)
  PROVE  \E job : /\ jobs' = [jobs EXCEPT ![j] = job]
                  /\ Left(job) < Left(jobs[j])
                  /\ job.at = "over" => job.status \in Verdicts
<1>. jobs[j] \in Jobs /\ j \in DOMAIN jobs
  BY DEF TypeOK, JobIds
<1>1. \A record : \A verdict \in Verdicts : End(j, record, verdict) =>
        \E job : /\ jobs' = [jobs EXCEPT ![j] = job]
                 /\ Left(job) = 0 /\ job.status \in Verdicts
  <2>1. SUFFICES ASSUME NEW record, NEW verdict \in Verdicts, End(j, record, verdict)
                 PROVE  \E job : /\ jobs' = [jobs EXCEPT ![j] = job]
                                 /\ Left(job) = 0 /\ job.status \in Verdicts
    OBVIOUS
  <2>. DEFINE job == [jobs[j] EXCEPT !.at = "over", !.local = record, !.status = verdict]
  <2>2. jobs' = [jobs EXCEPT ![j] = job]
    BY <2>1 DEF End
  <2>3. job.at = "over" /\ job.status = verdict
    BY DEF Jobs
  <2>. HIDE DEF job
  <2>4. Left(job) = 0
    BY <2>3 DEF Left
  <2>. QED
    BY <2>1, <2>2, <2>3, <2>4
<1>2. \A record : \A next \in Steps : Await(j, record, next) =>
        \E job : jobs' = [jobs EXCEPT ![j] = job] /\ job.at = next
  <2>1. SUFFICES ASSUME NEW record, NEW next \in Steps, Await(j, record, next)
                 PROVE  \E job : jobs' = [jobs EXCEPT ![j] = job] /\ job.at = next
    OBVIOUS
  <2>. DEFINE job == [jobs[j] EXCEPT !.at = next, !.status = "running", !.local = record]
  <2>2. jobs' = [jobs EXCEPT ![j] = job]
    BY <2>1 DEF Await
  <2>3. job.at = next
    BY DEF Jobs
  <2>. HIDE DEF job
  <2>. QED
    BY <2>2, <2>3
<1>3. {"failed", "cancelled", "completed"} = Verdicts
      /\ {"features", "selection", "training", "round"} \subseteq Steps
  BY DEF Verdicts, Steps
<1>4. ASSUME \E record : \E verdict \in Verdicts :
               \/ Fail(j, record) \/ CancelAt(j, record)
               \/ End(j, record, verdict) \/ Return(j, record, verdict),
             jobs[j].at \in Steps \ {"over"}
      PROVE  \E job : /\ jobs' = [jobs EXCEPT ![j] = job]
                      /\ Left(job) < Left(jobs[j])
                      /\ job.at = "over" => job.status \in Verdicts
  <2>1. \E record : \E verdict \in Verdicts : End(j, record, verdict)
    BY <1>3, <1>4 DEF Fail, CancelAt, Return
  <2>2. Left(jobs[j]) \in 1 .. 5
    BY <1>4 DEF Left, Steps
  <2>. QED
    BY <1>1, <2>1, <2>2
<1>5. ASSUME NEW next \in {"features", "selection", "training", "round"},
             \E job : jobs' = [jobs EXCEPT ![j] = job] /\ job.at = next,
             \/ jobs[j].at = "begin" /\ next = "features"
             \/ jobs[j].at = "features" /\ next = "selection"
             \/ jobs[j].at = "selection" /\ next = "training"
             \/ jobs[j].at = "training" /\ next = "round"
      PROVE  \E job : /\ jobs' = [jobs EXCEPT ![j] = job]
                      /\ Left(job) < Left(jobs[j])
                      /\ job.at = "over" => job.status \in Verdicts
  <2>1. PICK job : jobs' = [jobs EXCEPT ![j] = job] /\ job.at = next
    BY <1>5
  <2>2. Left(job) < Left(jobs[j]) /\ job.at # "over"
    BY <1>5, <2>1 DEF Left
  <2>. QED
    BY <2>1, <2>2
<1>6. CASE BeginLive(j)
  <2>1. jobs[j].at = "begin"
    BY <1>6 DEF Starts, BeginLive
  <2>2. CASE CancelAt(j, exp) \/ Fail(j, exp)
    BY <1>3, <1>4, <2>1, <2>2 DEF Steps
  <2>3. CASE Await(j, [exp EXCEPT !.state = "planning"], "features")
    BY <1>2, <1>3, <1>5, <2>1, <2>3
  <2>. QED
    BY <1>6, <2>2, <2>3 DEF BeginLive
<1>7. CASE Features(j)
  <2>1. jobs[j].at = "features"
    BY <1>7 DEF Features
  <2>2. CASE CancelAt(j, jobs[j].local) \/ Fail(j, jobs[j].local)
    BY <1>3, <1>4, <2>1, <2>2 DEF Steps
  <2>3. CASE Await(j, [jobs[j].local EXCEPT !.state = "cleaning"], "selection")
    BY <1>2, <1>3, <1>5, <2>1, <2>3
  <2>. QED
    BY <1>7, <2>2, <2>3 DEF Features
<1>8. CASE Selection(j)
  <2>1. jobs[j].at = "selection"
    BY <1>8 DEF Selection
  <2>2. CASE CancelAt(j, jobs[j].local) \/ Fail(j, jobs[j].local)
    BY <1>3, <1>4, <2>1, <2>2 DEF Steps
  <2>3. CASE Await(j, [jobs[j].local EXCEPT !.state = "training"], "training")
    BY <1>2, <1>3, <1>5, <2>1, <2>3
  <2>. QED
    BY <1>8, <2>2, <2>3 DEF Selection
<1>9. CASE Train(j)
  <2>1. jobs[j].at = "training"
    BY <1>9 DEF Train
  <2>2. CASE \E record : \E verdict \in Verdicts :
               \/ Fail(j, record) \/ CancelAt(j, record)
               \/ End(j, record, verdict) \/ Return(j, record, verdict)
    BY <1>4, <2>1, <2>2 DEF Steps
  <2>3. ASSUME NEW record, jobs' = [jobs EXCEPT ![j].at = "round", ![j].local = record]
        PROVE  \E job : jobs' = [jobs EXCEPT ![j] = job] /\ job.at = "round"
    <3>. DEFINE job == [jobs[j] EXCEPT !.at = "round", !.local = record]
    <3>1. jobs' = [jobs EXCEPT ![j] = job]
      BY <2>3
    <3>2. job.at = "round"
      BY DEF Jobs
    <3>. HIDE DEF job
    <3>. QED
      BY <3>1, <3>2
  <2>4. CASE \E record : jobs' = [jobs EXCEPT ![j].at = "round", ![j].local = record]
    BY <1>5, <2>1, <2>3, <2>4
  <2>. QED
    BY <1>3, <1>9, <2>2, <2>4 DEF Train
<1>10. CASE EndRound(j) \/ RunMock(j) \/ RunRound(j) \/ RunProposal(j)
  <2>1. jobs[j].at \in Steps \ {"over"}
    BY <1>10 DEF Starts, EndRound, RunMock, RunRound, RunProposal, Steps
  <2>2. \E record : \E verdict \in Verdicts :
          \/ Fail(j, record) \/ CancelAt(j, record)
          \/ End(j, record, verdict) \/ Return(j, record, verdict)
    <3>1. CASE EndRound(j)
      BY <1>3, <3>1 DEF EndRound, RoundOutcome
    <3>2. CASE RunMock(j)
      BY <1>3, <3>2 DEF RunMock, RoundOutcome
    <3>3. CASE RunRound(j)
      BY <1>3, <3>3 DEF RunRound
    <3>4. CASE RunProposal(j)
      BY <1>3, <3>4 DEF RunProposal
    <3>. QED
      BY <1>10, <3>1, <3>2, <3>3, <3>4
  <2>. QED
    BY <1>4, <2>1, <2>2
<1>. QED
  BY <1>6, <1>7, <1>8, <1>9, <1>10 DEF JobStep

\* Of the others, a job is only told to stop, or lost with the server.
LEMMA OthersMove ==
  ASSUME TypeOK, Decided, [Next]_vars, NEW j \in JobIds, ~JobStep(j)
  PROVE  /\ j \in JobIds'
         /\ Left(jobs'[j]) <= Left(jobs[j])
         /\ Over(j) => jobs'[j] = jobs[j]
         /\ jobs'[j].at = "over" => jobs'[j].status \in Verdicts \union {"lost"}
<1>. /\ jobs \in Seq(Jobs) /\ Len(jobs) \in Nat /\ j \in 1 .. Len(jobs)
     /\ JobIds = 1 .. Len(jobs)
  BY DEF TypeOK, JobIds
<1>1. Left(jobs[j]) \in 0 .. 5
  BY DEF Left
<1>2. ASSUME jobs'[j] = jobs[j], j \in JobIds'
      PROVE  /\ j \in JobIds' /\ Left(jobs'[j]) <= Left(jobs[j])
             /\ Over(j) => jobs'[j] = jobs[j]
             /\ jobs'[j].at = "over" => jobs'[j].status \in Verdicts \union {"lost"}
  BY <1>1, <1>2 DEF Decided, Over
<1>3. CASE UNCHANGED jobs
  BY <1>2, <1>3 DEF JobIds
<1>4. ASSUME NEW job, jobs' = Append(jobs, job)
      PROVE  jobs'[j] = jobs[j] /\ j \in JobIds'
  BY <1>4 DEF JobIds
<1>5. CASE \E live, wantsRound \in BOOLEAN : StartExperiment(live, wantsRound)
  BY <1>2, <1>4, <1>5 DEF StartExperiment, Submit
<1>6. CASE StartFromProposal \/ AddFeedback \/ ApproveRound
  BY <1>2, <1>4, <1>6 DEF StartFromProposal, AddFeedback, ApproveRound, Submit
<1>7. CASE RejectRound \/ DecideElsewhere
  BY <1>3, <1>7 DEF RejectRound, DecideElsewhere
<1>8. CASE Restart
  <2>1. jobs' = [i \in JobIds |-> IF Over(i) THEN jobs[i]
                   ELSE [jobs[i] EXCEPT !.at = "over", !.status = "lost"]]
    BY <1>8 DEF Restart
  <2>2. Len(jobs') = Len(jobs)
    BY <1>8, RestartKeepsAll
  <2>3. CASE Over(j)
    BY <1>2, <2>1, <2>2, <2>3 DEF JobIds
  <2>4. CASE ~Over(j)
    <3>1. jobs'[j] = [jobs[j] EXCEPT !.at = "over", !.status = "lost"]
      BY <2>1, <2>4
    <3>2. jobs[j] \in Jobs
      OBVIOUS
    <3>3. jobs'[j].at = "over" /\ jobs'[j].status = "lost"
      BY <3>1, <3>2 DEF Jobs
    <3>4. Left(jobs'[j]) = 0
      BY <3>3 DEF Left
    <3>. QED
      BY <1>1, <2>2, <2>4, <3>3, <3>4 DEF JobIds
  <2>. QED
    BY <2>3, <2>4
<1>9. ASSUME NEW i \in JobIds, Cancel(i) 
      PROVE  /\ j \in JobIds' /\ Left(jobs'[j]) <= Left(jobs[j])
             /\ Over(j) => jobs'[j] = jobs[j]
             /\ jobs'[j].at = "over" => jobs'[j].status \in Verdicts \union {"lost"}
  <2>1. jobs' = [jobs EXCEPT ![i].cancel = TRUE] /\ Len(jobs') = Len(jobs)
    BY <1>9 DEF Cancel
  <2>2. CASE i = j
    <3>1. ~Over(j)
      BY <1>9, <2>2 DEF Cancel, Decided, Verdicts
    <3>2. jobs'[j] = [jobs[j] EXCEPT !.cancel = TRUE] /\ jobs[j] \in Jobs
      BY <2>1, <2>2
    <3>3. jobs'[j].at = jobs[j].at
      BY <3>2 DEF Jobs
    <3>4. Left(jobs'[j]) = Left(jobs[j])
      BY <3>3 DEF Left
    <3>. QED
      BY <1>1, <2>1, <3>1, <3>3, <3>4 DEF Over, JobIds
  <2>3. CASE i # j
    BY <1>2, <2>1, <2>3 DEF JobIds
  <2>. QED
    BY <2>2, <2>3
<1>10. ASSUME NEW i \in JobIds, JobStep(i)
       PROVE  jobs'[j] = jobs[j] /\ j \in JobIds'
  <2>1. PICK job : jobs' = [jobs EXCEPT ![i] = job]
    BY <1>10, JobMoves
  <2>2. i # j
    BY <1>10
  <2>. QED
    BY <2>1, <2>2 DEF JobIds
<1>. QED
  BY <1>2, <1>3, <1>5, <1>6, <1>7, <1>8, <1>9, <1>10 DEF Next, vars

LEMMA NewIsBegun ==
  ASSUME TypeOK, [Next]_vars, NEW j \in JobIds', j \notin JobIds
  PROVE  jobs'[j].at # "over"
<1>. jobs \in Seq(Jobs) /\ Len(jobs) \in Nat
  BY DEF TypeOK
<1>1. ASSUME NEW job, jobs' = Append(jobs, job), job.at = "begin"
      PROVE  jobs'[j].at # "over"
  <2>1. j = Len(jobs) + 1
    BY <1>1 DEF JobIds
  <2>. QED
    BY <1>1, <2>1
<1>2. CASE Len(jobs') = Len(jobs)
  BY <1>2 DEF JobIds
<1>3. CASE \/ \E live, wantsRound \in BOOLEAN : StartExperiment(live, wantsRound)
           \/ StartFromProposal \/ AddFeedback \/ ApproveRound
  BY <1>1, <1>3 DEF StartExperiment, StartFromProposal, AddFeedback, ApproveRound, Submit
<1>4. CASE RejectRound \/ DecideElsewhere \/ UNCHANGED vars
  BY <1>2, <1>4 DEF RejectRound, DecideElsewhere, vars
<1>5. CASE Restart
  BY <1>2, <1>5, RestartKeepsAll
<1>6. ASSUME NEW i \in JobIds, Cancel(i) PROVE Len(jobs') = Len(jobs)
  BY <1>6 DEF Cancel
<1>7. ASSUME NEW i \in JobIds, JobStep(i) PROVE Len(jobs') = Len(jobs)
  <2>1. PICK job : jobs' = [jobs EXCEPT ![i] = job]
    BY <1>7, JobMoves
  <2>. QED
    BY <2>1
<1>. QED
  BY <1>2, <1>3, <1>4, <1>5, <1>6, <1>7 DEF Next

\* A job takes at most five steps, whoever calls meanwhile, and one that is over
\* stays as it ended: its verdict is final, for a late cancellation, too
\* (jobs.py:192-200, 227-275, 421-650).
THEOREM JobsDescend ==
  Spec => [][\A j \in JobIds :
               /\ Left(jobs[j]) \in 0 .. 5
               /\ j \in JobIds' /\ Left(jobs'[j]) <= Left(jobs[j])
               /\ JobStep(j) => Left(jobs'[j]) < Left(jobs[j])
               /\ Over(j) => jobs'[j] = jobs[j]]_vars
<1>1. ASSUME TypeOK, Decided, [Next]_vars, NEW j \in JobIds
      PROVE  /\ Left(jobs[j]) \in 0 .. 5
             /\ j \in JobIds' /\ Left(jobs'[j]) <= Left(jobs[j])
             /\ JobStep(j) => Left(jobs'[j]) < Left(jobs[j])
             /\ Over(j) => jobs'[j] = jobs[j]
             /\ jobs'[j].at = "over" => jobs'[j].status \in Verdicts \union {"lost"}
  <2>1. Left(jobs[j]) \in 0 .. 5
    BY DEF Left
  <2>2. CASE ~JobStep(j)
    BY <1>1, <2>1, <2>2, OthersMove
  <2>3. CASE JobStep(j)
    <3>1. PICK job : /\ jobs' = [jobs EXCEPT ![j] = job]
                     /\ Left(job) < Left(jobs[j])
                     /\ job.at = "over" => job.status \in Verdicts
      BY <1>1, <2>3, JobMoves
    <3>2. jobs'[j] = job /\ j \in JobIds'
      BY <1>1, <3>1 DEF TypeOK, JobIds
    <3>3. Left(job) \in 0 .. 5
      BY DEF Left
    <3>4. ~Over(j)
      <4>1. Left(jobs[j]) # 0
        BY <2>1, <3>1, <3>3
      <4>. QED
        BY <4>1 DEF Over, Left
    <3>. QED
      BY <2>1, <3>1, <3>2, <3>3, <3>4
  <2>. QED
    BY <2>2, <2>3
<1>2. TypeOK /\ Decided /\ [Next]_vars => Decided'
  <2>1. ASSUME TypeOK, Decided, [Next]_vars, NEW j \in JobIds', jobs'[j].at = "over"
        PROVE  jobs'[j].status \in Verdicts \union {"lost"}
    BY <1>1, <2>1, NewIsBegun
  <2>. QED
    BY <2>1 DEF Decided, Over
<1>3. Init => Decided
  BY DEF Init, Decided, JobIds
<1>4. TypeOK /\ Decided /\ [Next]_vars =>
        [\A j \in JobIds :
           /\ Left(jobs[j]) \in 0 .. 5
           /\ j \in JobIds' /\ Left(jobs'[j]) <= Left(jobs[j])
           /\ JobStep(j) => Left(jobs'[j]) < Left(jobs[j])
           /\ Over(j) => jobs'[j] = jobs[j]]_vars
  BY <1>1
<1>. QED
  BY <1>2, <1>3, <1>4, TypeCorrect, PTL DEF Spec
=============================================================================
