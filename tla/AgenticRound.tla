----------------------------- MODULE AgenticRound ----------------------------
(* The agentic rounds of one experiment (ide/agentic_round.py): three stages  *)
(* that ask a model and fall back without it, a transform that is executed in *)
(* the sandbox and validated, a proposal behind the approval gate, the record *)
(* of the round, and the execution of the proposal once it is approved.       *)
(*                                                                            *)
(* A round awaits only in its first stage. From the second on, and in an      *)
(* execution, it blocks the server's event loop: nothing else of this server  *)
(* runs, but people decide, cancel and upload files, which threads write, and  *)
(* the server can die at any point.                                           *)
EXTENDS BatchConfig, Sandbox

CONSTANTS Rounds,       \* rounds of the experiment; also the ids of their proposals
          Answers,      \* round -> selections its model may answer with
          Ranked,       \* the models that completed the dry run, the best first
          LogisticRegression, \* the model that is taken when none did
          Valid,        \* results of code that pass the validation of a transform
          Raising,      \* results on which the validation itself raises
          Named,        \* proposals whose id a worker's provider may name
          Elsewhere,    \* datasets it may name with it
          Torn,         \* a record file that is not whole
          Uploaders,    \* uploads of people, each of one file
          Uploaded,     \* what they upload
          Cleaned,      \* the cleaned dataset of the deterministic stage
          None,
          MaxCrashes    \* bound: how often the server dies

MaxAttempts == 2
Files == 1 .. (MaxAttempts * Cardinality(Rounds) + Cardinality(Uploaders))
Datasets == Files \cup {Cleaned} \cup Elsewhere
Writers == Ended \cup {"upload"}

ASSUME ResultsAssumption == Valid \subseteq Artifacts /\ Raising \subseteq Artifacts \ Valid
ASSUME UploadedAssumption == Uploaded \subseteq Artifacts
ASSUME AnswersAssumption == \A r \in Rounds : \A a \in Answers[r] : IsAnswer(a)
ASSUME RankedAssumption == Ranked \in Seq(Known)
ASSUME NamedAssumption == Named \subseteq Rounds
ASSUME CrashAssumption == MaxCrashes \in Nat
ASSUME NoneAssumption ==
  /\ None \notin Rounds \cup Files
  /\ \A content \in Collected, by \in Writers : [content |-> content, by |-> by] # None

VARIABLES round,      \* the coroutine of each round
          cancel,     \* rounds whose cancellation was requested
          uploads,    \* dataset files: number -> what is in it, and who wrote it
          uploading,  \* the thread of each upload: the free name it has found
          proposals,  \* the saved proposals
          decision,   \* what was decided on each
          record,     \* the record file of the experiment's round
          exec,       \* the execution that is on, with the batch it has written
          crashes,
          approved    \* history: what each proposal said when it was approved

outside == <<crashes, uploading>>
vars == <<round, cancel, uploads, proposals, decision, record, exec,
          outside, approved, child>>
store == <<proposals, decision, approved>>

NewRound == [pc |-> "idle", provider |-> FALSE, brief |-> FALSE, attempt |-> 1,
             file |-> None, transform |-> "none", dataset |-> None,
             selection |-> None, llm |-> FALSE, agentic |-> FALSE, status |-> "none"]
Over(pc) == [NewRound EXCEPT !.pc = pc]
NoExec == [pc |-> "idle", id |-> None, choice |-> None, batch |-> None, base |-> None]
Upload(pc) == [pc |-> pc, file |-> None]
NoRecord == [round |-> None, agentic |-> FALSE, execution |-> None]

Init == /\ round = [r \in Rounds |-> NewRound]
        /\ cancel = {} /\ crashes = 0
        /\ uploads = [n \in Files |-> None]
        /\ uploading = [u \in Uploaders |-> Upload("idle")]
        /\ proposals = [r \in Rounds |-> None]
        /\ decision = [r \in Rounds |-> "none"]
        /\ record = None
        /\ exec = NoExec
        /\ approved = [r \in Rounds |-> None]
        /\ SandboxInit

(* The steps during which a round keeps the event loop.                       *)
Resting == {"idle", "done", "failed", "cancelled", "raised", "dead"}
Blocking == {"transform", "code", "sandbox", "persist", "copy", "validate",
             "select", "propose", "gate", "truncate", "write"}
LoopIsFree(r) == /\ \A q \in Rounds \ {r} : round[q].pc \notin Blocking
                 /\ exec.pc = "idle"

Set(r, state) == round' = [round EXCEPT ![r] = state]
Goto(r, pc) == round' = [round EXCEPT ![r].pc = pc]
Only(r) == UNCHANGED <<cancel, uploads, record, exec, outside, store, child>>

-----------------------------------------------------------------------------
(* Stage 1: the analyst *)

Start(r) ==
  /\ round[r].pc = "idle"
  /\ LoopIsFree(r)
  /\ \E provider \in BOOLEAN :
       Set(r, IF r \in cancel THEN Over("cancelled")
              ELSE [NewRound EXCEPT !.pc = "analyst", !.provider = provider])
  /\ Only(r)

(* Without a provider, or when its session fails or answers without findings, *)
(* the brief is built from the evidence. Then the cancellation is looked at.  *)
Analyst(r) ==
  /\ round[r].pc = "analyst"
  /\ LoopIsFree(r)
  /\ \E brief \in {FALSE, round[r].provider} :
       Set(r, IF r \in cancel THEN Over("cancelled")
              ELSE [round[r] EXCEPT !.brief = brief, !.pc = "transform"])
  /\ Only(r)

-----------------------------------------------------------------------------
(* Stage 2: the feature engineer *)

Skip(r, transform) == [round[r] EXCEPT !.pc = "select", !.transform = transform]

(* The stage ends before it asks when there is no provider, no cleaned dataset *)
(* or none that can be read, or one that is too large.                         *)
Transform(r) ==
  /\ round[r].pc = "transform"
  /\ \E source \in {Cleaned, None} :
       \/ Set(r, [Skip(r, IF round[r].provider /\ source = None THEN "rejected"
                          ELSE "skipped") EXCEPT !.dataset = source])
       \/ /\ round[r].provider /\ source = Cleaned
          /\ Set(r, [round[r] EXCEPT !.pc = "code", !.dataset = source])
       \/ /\ round[r].provider /\ source = Cleaned
          /\ Set(r, [Skip(r, "rejected") EXCEPT !.dataset = source])
  /\ Only(r)

(* An answer without code ends the stage, on a second attempt as a rejection. *)
Code(r) ==
  /\ round[r].pc = "code"
  /\ \/ /\ Set(r, Skip(r, IF round[r].attempt = 1 THEN "skipped" ELSE "rejected"))
        /\ UNCHANGED child
     \/ Goto(r, "sandbox") /\ RunInSandbox
  /\ UNCHANGED <<cancel, uploads, record, exec, outside, store>>

(* Mutant of Retry: one attempt too many.                                     *)
RetryOnceMore(r) ==
  IF round[r].attempt > MaxAttempts
  THEN [Skip(r, "rejected") EXCEPT !.file = None]
  ELSE [round[r] EXCEPT !.pc = "code", !.attempt = @ + 1, !.file = None]

Retry(r) ==
  IF round[r].attempt = MaxAttempts
  THEN [Skip(r, "rejected") EXCEPT !.file = None]
  ELSE [round[r] EXCEPT !.pc = "code", !.attempt = @ + 1, !.file = None]

(* Mutant of AwaitSandbox: a result is taken from whatever left one.          *)
AwaitSpilled(r) ==
  /\ round[r].pc = "sandbox" /\ child.pc \in Ended
  /\ IF child.spilled # Nothing THEN Goto(r, "persist") /\ UNCHANGED child
     ELSE Set(r, Retry(r)) /\ child' = NoChild
  /\ UNCHANGED <<cancel, uploads, record, exec, outside, store>>

(* Only what a child that completed lists in its answer is a result.          *)
AwaitSandbox(r) ==
  /\ round[r].pc = "sandbox" /\ child.pc \in Ended
  /\ IF child.pc = "completed" /\ child.spilled # Nothing
     THEN Goto(r, "persist") /\ UNCHANGED child
     ELSE Set(r, Retry(r)) /\ child' = NoChild
  /\ UNCHANGED <<cancel, uploads, record, exec, outside, store>>

(* The first free name among the uploads.                                     *)
FindName(r) ==
  /\ round[r].pc = "persist"
  /\ \E n \in Files :
       /\ uploads[n] = None /\ \A f \in 1 .. n - 1 : uploads[f] # None
       /\ Set(r, [round[r] EXCEPT !.pc = "copy", !.file = n])
  /\ Only(r)

(* The copy, over what an upload may have put there, is what is validated.    *)
Persist(r) ==
  /\ round[r].pc = "copy"
  /\ uploads' = [uploads EXCEPT ![round[r].file] =
                    [content |-> child.spilled, by |-> child.pc]]
  /\ Goto(r, "validate")
  /\ child' = NoChild
  /\ UNCHANGED <<cancel, record, exec, outside, store>>

(* A result that fails is deleted. When the target is missing and another     *)
(* column has the name of one, the validation raises and ends the round.      *)
Validate(r) ==
  /\ round[r].pc = "validate"
  /\ LET content == uploads[round[r].file].content IN
       CASE content \in Valid ->
              /\ Set(r, [round[r] EXCEPT !.pc = "select", !.transform = "completed",
                                         !.dataset = round[r].file])
              /\ UNCHANGED uploads
         [] content \in Raising -> Set(r, [Over("raised") EXCEPT !.file = round[r].file]) /\ UNCHANGED uploads
         [] OTHER -> /\ Set(r, Retry(r))
                     /\ uploads' = [uploads EXCEPT ![round[r].file] = None]
  /\ UNCHANGED <<cancel, record, exec, outside, store, child>>

-----------------------------------------------------------------------------
(* Stage 3: the selector, the proposal, the gate *)

ForTask(answer) == [answer EXCEPT !.models = @ \cap TaskModels]

(* The fallback of the selector; without a model that completed, there is one *)
(* that always has been.                                                      *)
Recommended ==
  [models |-> IF Ranked = <<>> THEN {LogisticRegression} ELSE Recommend(Ranked),
   seeds |-> 3, grid |-> <<>>]

(* What a round may select: the recommendation, or a model's answer, without  *)
(* the models that do not fit a task that is known, and capped.               *)
Selections(r) ==
  {[llm |-> FALSE, choice |-> Recommended]} \cup
  (IF ~round[r].provider THEN {}
   ELSE UNION {{[llm |-> TRUE, choice |-> choice] : choice \in Cap(answer)} :
                 answer \in {a \in Answers[r] \cup {ForTask(b) : b \in Answers[r]} :
                               a.models # {}}})

(* Mutant of Agentic: the text of the model is enough.                        *)
AgenticByText(r, llm) == round[r].brief \/ llm

(* The mode of the round: some stage had an answer of a model to go by. It is *)
(* noted before the selection is validated.                                   *)
Agentic(r, llm) == round[r].brief \/ llm \/ round[r].transform = "completed"

(* An answer whose seeds are no list, or whose grid is one, raises.           *)
Select(r) ==
  /\ round[r].pc = "select"
  /\ IF r \in cancel THEN Set(r, Over("cancelled"))
     ELSE \/ \E s \in Selections(r) :
               Set(r, [NewRound EXCEPT !.pc = "propose", !.dataset = round[r].dataset,
                         !.selection = s.choice, !.llm = s.llm, !.agentic = Agentic(r, s.llm)])
          \/ round[r].provider /\ Set(r, Over("raised"))
  /\ Only(r)

(* Without any dataset the round has failed, and leaves no record. A selection *)
(* the validators refuse gives way to the recommendation.                      *)
Propose(r) ==
  /\ round[r].pc = "propose"
  /\ IF round[r].dataset = None
     THEN Set(r, Over("failed")) /\ UNCHANGED proposals
     ELSE LET choice == IF Accepts(round[r].selection) THEN round[r].selection
                        ELSE Recommended
          IN /\ proposals' = [proposals EXCEPT ![r] =
                                [choice |-> choice, dataset |-> round[r].dataset]]
             /\ Set(r, [Over("gate") EXCEPT !.agentic = round[r].agentic])
  /\ UNCHANGED <<cancel, uploads, decision, record, exec, outside,
                 approved, child>>

(* Mutant of Gate: the cancellation is noticed after the save.                *)
GateOrCancel(r) ==
  /\ round[r].pc = "gate"
  /\ Set(r, IF r \in cancel THEN Over("cancelled")
            ELSE [round[r] EXCEPT !.pc = "truncate", !.status = "awaiting_approval"])
  /\ Only(r)

(* Nothing looks at a cancellation any more.                                  *)
Gate(r) ==
  /\ round[r].pc = "gate"
  /\ Set(r, [round[r] EXCEPT !.pc = "truncate",
               !.status = CASE decision[r] = "approved" -> "approved_for_execution"
                            [] decision[r] = "rejected" -> "rejected"
                            [] OTHER -> "awaiting_approval"])
  /\ cancel' = cancel \ {r}
  /\ UNCHANGED <<uploads, record, exec, outside, store, child>>

(* The record file is truncated, then written whole.                          *)
Truncate(r) ==
  /\ round[r].pc = "truncate"
  /\ record' = Torn /\ Goto(r, "write")
  /\ UNCHANGED <<cancel, uploads, exec, outside, store, child>>

Write(r) ==
  /\ round[r].pc = "write"
  /\ record' = [round |-> r, agentic |-> round[r].agentic, execution |-> None]
  /\ Set(r, Over("done"))
  /\ UNCHANGED <<cancel, uploads, exec, outside, store, child>>

-----------------------------------------------------------------------------
(* The execution of an approved round: execute_approved_round *)

ExecuteGate(id) ==
  /\ exec.pc = "idle" /\ \A r \in Rounds : round[r].pc \notin Blocking
  /\ proposals[id] # None /\ decision[id] = "approved"
  /\ exec' = [NoExec EXCEPT !.pc = "config", !.id = id]
  /\ UNCHANGED <<round, cancel, uploads, record, outside, store, child>>

(* Mutant of ExecuteConfig: the recommendation is trained.                    *)
ExecuteConfigRecommended ==
  /\ exec.pc = "config"
  /\ exec' = [exec EXCEPT !.pc = "train", !.choice = Recommended, !.batch = Batch(Recommended)]
  /\ UNCHANGED <<round, cancel, uploads, record, outside, store, child>>

(* The batch is made from the proposal file as it is now.                     *)
ExecuteConfig ==
  /\ exec.pc = "config"
  /\ LET choice == proposals[exec.id].choice IN
       exec' = [exec EXCEPT !.pc = "train", !.choice = choice, !.batch = Batch(choice)]
  /\ UNCHANGED <<round, cancel, uploads, record, outside, store, child>>

(* BatchRunner.run trains what the configuration lists.                       *)
ExecuteTrain ==
  /\ exec.pc = "train"
  /\ exec' = [exec EXCEPT !.pc = "load", !.choice = None, !.batch = None]
  /\ UNCHANGED <<round, cancel, uploads, record, outside, store, child>>

(* The record that is there, or none when it cannot be parsed.                *)
ExecuteLoad ==
  /\ exec.pc = "load"
  /\ exec' = [exec EXCEPT !.pc = "store",
                !.base = IF record \in {None, Torn} THEN NoRecord ELSE record]
  /\ record' = Torn
  /\ UNCHANGED <<round, cancel, uploads, outside, store, child>>

ExecuteStore ==
  /\ exec.pc = "store"
  /\ record' = [exec.base EXCEPT !.execution = exec.id]
  /\ exec' = NoExec
  /\ UNCHANGED <<round, cancel, uploads, outside, store, child>>

-----------------------------------------------------------------------------
(* People, other processes, and the end of the server *)

Approve(id) ==
  /\ proposals[id] # None /\ decision[id] = "none"
  /\ decision' = [decision EXCEPT ![id] = "approved"]
  /\ approved' = [approved EXCEPT ![id] = proposals[id]]
  /\ UNCHANGED <<round, cancel, uploads, proposals, record, exec,
                 outside, child>>

Reject(id) ==
  /\ proposals[id] # None /\ decision[id] # "rejected"
  /\ decision' = [decision EXCEPT ![id] = "rejected"]
  /\ UNCHANGED <<round, cancel, uploads, proposals, record, exec, outside,
                 approved, child>>

(* WorkerAgent.propose saves under the id in the provider's answer, if any: a *)
(* whole proposal, of another dataset perhaps.                                *)
WorkerSaves(id) ==
  /\ id \in Named
  /\ proposals[id] # None
  /\ \E choice \in {c \in {Normalize(a) : a \in Answers[id]} : Accepts(c)},
        dataset \in Elsewhere :
       proposals' = [proposals EXCEPT ![id] = [choice |-> choice, dataset |-> dataset]]
  /\ UNCHANGED <<round, cancel, uploads, decision, record, exec,
                 outside, approved, child>>

(* save_upload, in a thread of its own: it takes a name that is free, and     *)
(* writes the file later, whatever has that name by then. An upload that finds *)
(* another name than a round changes no file of a round; of two that find the *)
(* same one, the order does not matter, and the round is said to be the first. *)
FindFree(u) ==
  /\ uploading[u].pc = "idle"
  /\ \E r \in Rounds :
       /\ round[r].pc = "copy" /\ uploads[round[r].file] = None
       /\ uploading' = [uploading EXCEPT ![u] = [pc |-> "write", file |-> round[r].file]]
  /\ UNCHANGED <<round, cancel, uploads, record, exec, crashes, store, child>>

SaveUpload(u) ==
  /\ uploading[u].pc = "write"
  /\ \E content \in Uploaded :
       uploads' = [uploads EXCEPT ![uploading[u].file] =
                     [content |-> content, by |-> "upload"]]
  /\ uploading' = [uploading EXCEPT ![u] = Upload("done")]
  /\ UNCHANGED <<round, cancel, record, exec, crashes, store, child>>

Cancel(r) ==
  /\ round[r].pc \notin {"truncate", "write"} \cup (Resting \ {"idle"})
  /\ r \notin cancel
  /\ cancel' = cancel \cup {r}
  /\ UNCHANGED <<round, uploads, record, exec, outside, store, child>>

Crash ==
  /\ crashes < MaxCrashes
  /\ crashes' = crashes + 1
  /\ round' = [r \in Rounds |->
                 IF round[r].pc \in Blocking \cup {"analyst"}
                 THEN [Over("dead") EXCEPT !.file = round[r].file] ELSE round[r]]
  /\ uploading' = [u \in Uploaders |-> Upload("done")]
  /\ exec' = NoExec /\ child' = NoChild /\ cancel' = {}
  /\ UNCHANGED <<uploads, record, store>>

-----------------------------------------------------------------------------
Step(r) == \/ Analyst(r) \/ Transform(r) \/ Code(r) \/ AwaitSandbox(r) \/ FindName(r)
           \/ Persist(r) \/ Validate(r) \/ Select(r) \/ Propose(r) \/ Gate(r) \/ Truncate(r) \/ Write(r)

Execution == ExecuteConfig \/ ExecuteTrain \/ ExecuteLoad \/ ExecuteStore

RunChild == /\ Child
            /\ UNCHANGED <<round, cancel, uploads, record, exec, outside, store>>

People == \/ \E r \in Rounds : Start(r) \/ Cancel(r) \/ ExecuteGate(r)
          \/ \E r \in Rounds : Approve(r) \/ Reject(r) \/ WorkerSaves(r)
          \/ \E u \in Uploaders : FindFree(u) \/ SaveUpload(u)

Next == (\E r \in Rounds : Step(r)) \/ Execution \/ RunChild \/ People \/ Crash

Deadline == /\ Kill("timeout")
            /\ UNCHANGED <<round, cancel, uploads, record, exec, outside, store>>

(* A coroutine that could run does, although executions take the loop again   *)
(* and again; the deadline of the sandbox comes. Code may run forever.        *)
Fairness == /\ \A r \in Rounds : SF_vars(Step(r))
            /\ WF_vars(Execution)
            /\ WF_vars(Deadline)

Spec == Init /\ [][Next]_vars
FairSpec == Spec /\ Fairness

-----------------------------------------------------------------------------
(* Properties *)

Selectable == {Recommended} \cup UNION {Cap(a) \cup Cap(ForTask(a)) \cup {a, Normalize(a)} : a \in UNION {Answers[r] : r \in Rounds}}

StateType ==
  [pc : Resting \cup Blocking \cup {"analyst"}, provider : BOOLEAN,
   brief : BOOLEAN, attempt : 1 .. MaxAttempts, file : Files \cup {None},
   transform : {"none", "skipped", "rejected", "completed"},
   dataset : Files \cup {Cleaned, None}, selection : Selectable \cup {None},
   llm : BOOLEAN, agentic : BOOLEAN,
   status : {"none", "approved_for_execution", "rejected", "awaiting_approval"}]
ProposalType == [choice : Selectable, dataset : Datasets]
RecordType ==
  [round : Rounds \cup {None}, agentic : BOOLEAN, execution : Rounds \cup {None}]

(* The types of the rounds, of what they make and of what is executed.        *)
RoundsOK ==
  /\ round \in [Rounds -> StateType]
  /\ cancel \subseteq Rounds
  /\ uploads \in [Files -> {None} \cup [content : Artifacts, by : Writers]]
  /\ proposals \in [Rounds -> {None} \cup ProposalType]
  /\ decision \in [Rounds -> {"none", "approved", "rejected"}]
  /\ record \in {None, Torn} \cup RecordType
  /\ exec.pc \in {"idle", "config", "train", "load", "store"}
  /\ child \in ChildType
  /\ \A r \in Rounds :
       round[r].pc = "validate" =>
         round[r].file # None /\ uploads[round[r].file] # None

UploadersOK ==
  uploading \in [Uploaders -> [pc : {"idle", "write", "done"}, file : Files \cup {None}]]

(* The types of the state, and that a file is there while it is validated.    *)
TypeOK == RoundsOK /\ UploadersOK

(* A proposal trains on the cleaned dataset or on a file that passed the      *)
(* validation and is still what was validated, made by code that completed:   *)
(* not by a child that failed, or was killed after it had left a result       *)
(* (agentic_round.py:481-545). Two things in the code break it, and it says   *)
(* what is left without them: a proposal whose id a worker's provider may     *)
(* name (worker.py:484), and a file that an upload wrote over, which found    *)
(* the same name free (datasets.py:165-175, agentic_round.py:507-511).        *)
ValidatedDataOnly ==
  \A id \in Rounds \ Named : proposals[id] # None =>
    \/ proposals[id].dataset = Cleaned
    \/ /\ proposals[id].dataset \in Files
       /\ uploads[proposals[id].dataset] # None
       /\ \/ uploads[proposals[id].dataset].by = "upload"
          \/ /\ uploads[proposals[id].dataset].content \in Valid
             /\ uploads[proposals[id].dataset].by = "completed"

(* A round that ends as cancelled has left neither a proposal that somebody   *)
(* could approve nor a record (agentic_round.py:713-763).                     *)
CancelledProposesNothing ==
  \A r \in Rounds : round[r].pc = "cancelled" =>
    proposals[r] = None /\ (record \notin {None, Torn} => record.round # r)

(* The caps on an answer and the limits of a proposal agree: a capped answer  *)
(* is refused only for a model that is not there or a grid keyed by models,   *)
(* never for its size, and no batch is cut off                                *)
(* (agentic_round.py:606-629, worker.py:58-103 and 246-248).                  *)
CapsAgree ==
  /\ \A r \in Rounds :
       (round[r].pc = "propose" /\ round[r].llm /\ ~Accepts(round[r].selection)) =>
         \/ ~(round[r].selection.models \subseteq Known)
         \/ \E k \in DOMAIN round[r].selection.grid \cap ModelKeyed :
              round[r].selection.grid[k] > 0
  /\ exec.batch # None => ~exec.batch.truncated

(* Every value of the grid that was approved is trained by each of its models *)
(* or named in the notes as dropped. A grid with an empty list is excepted: it *)
(* empties the product, and all its values go unnoted (worker.py:198-260).    *)
EveryValueTrainedOrNoted ==
  exec.pc = "train" =>
    LET p == exec.choice IN
    (\A k \in DOMAIN p.grid : p.grid[k] > 0) =>
    \A m \in p.models : \A k \in DOMAIN p.grid : \A v \in 1 .. p.grid[k] :
      \/ <<m, k>> \in exec.batch.notes
      \/ \E e \in exec.batch.entries :
           e.model = m /\ k \in DOMAIN e.parameters /\ e.parameters[k] = v

(* What is trained is what the proposal said when it was approved, although   *)
(* the batch is made from its file later, when an execution starts            *)
(* (worker.py:198-260, agentic_round.py:889-903). A worker whose provider     *)
(* names the id of such a proposal breaks it (worker.py:484), so it is said   *)
(* of the others.                                                             *)
TrainedIsApproved ==
  (exec.pc = "train" /\ exec.id \notin Named) =>
    /\ approved[exec.id] # None
    /\ exec.batch.entries = Batch(approved[exec.id].choice).entries

(* A round recorded as degraded_deterministic holds nothing of a model: the   *)
(* recommendation on the cleaned dataset (agentic_round.py:772-786).          *)
DegradedIsDeterministic ==
  (record \notin {None, Torn} /\ record.round # None /\ ~record.agentic
     /\ record.round \notin Named) =>
    proposals[record.round] = [choice |-> Recommended, dataset |-> Cleaned]

(* Every round comes to an end, also when its code never stops, its server    *)
(* runs other rounds and executions, and answers are refused                  *)
(* (agentic_round.py:451-549, sandbox/runner.py:71-102).                      *)
RoundsEnd == \A r \in Rounds : round[r].pc = "analyst" ~> round[r].pc \in Resting
=============================================================================
