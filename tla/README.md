# The Lab: a TLA+ model

The Lab is a machine-learning workbench: people and language-model agents
propose experiments on a tabular dataset, a human approves them, the lab trains
them, keeps the evidence, and serves predictions with what it trained. This
directory holds TLA+ specifications of the parts of it where threads, tasks,
processes and clients meet, the configurations that check them with TLC, and
theorems about them that TLAPS checks.

Paths below are relative to `src/`.

## 1. Inventory

### The parts, their state and their operations

| Part | Where | State | Operations |
| --- | --- | --- | --- |
| Approval gate and proposal store | `thelab/agents/approval.py`, `worker.py` (`ProposalStore`), `ide/proposals_api.py`, `ide/worker_api.py` | `proposals/<id>.json`, `.approved.json`, `.rejected.json`, `.batch.json`; the auto-approve opt-in | propose, approve, reject, gate, write the batch configuration, execute |
| Job manager and event streams | `thelab/ide/jobs.py` | `Job.status`, `.events`, `.cancel_requested`, a queue for each subscriber | submit, emit, subscribe, deliver, cancel, time out |
| Experiments | `thelab/ide/experiment.py`, `experiment_api.py`, `iterate_api.py`, `orchestrator.py` | `experiments/<id>.json`: state, plan, job id, best run, feedback | start, iterate on feedback, approve and reject a round, the stages of the job |
| Agentic round | `thelab/ide/agentic_round.py` | the round's record file, a proposal, dataset files | analyse, transform in the sandbox, validate, propose, execute |
| Batch runner and run store | `thelab/run/batch.py`, `runner.py`, `artifacts.py`, `prediction.py` | a directory for each run: events, artifacts, manifest | train an entry, commit, list, compare, predict |
| Batch configuration | `worker.py` (`build_batch_config`) | none | the product of grids, seeds and models, with caps |
| Agent harness, providers, grounding | `thelab/agents/harness.py`, `provider.py`, `providers/`, `grounding.py` | the messages of one conversation | the tool loop, retries, the grounding check |
| Global agents | `thelab/agents/global_agents.py` | none | diagnose a run, propose and run a follow-up |
| Chat agent | `thelab/agents/chat.py`, `web/src/components/ChatDrawer.tsx` | the messages and memoised results of one request; the turns on the screen | answer, start what the other parts offer, stream the answer |
| Sandbox | `thelab/sandbox/` | a child process and its directory | check, run with limits, collect |
| Context store | `thelab/context/`, `mcp/context_write_mcp.py` | an append-only log, `events.jsonl`, and an SQLite database filled from it | append, index, redact, insert, search, status |
| MCP servers | `thelab/mcp/` | none | adapters around the parts above |
| Model service | `thelab/model_service/app.py` | none | the HTTP endpoints around the parts above |
| Training pipeline | `thelab/run/{train,validate,preprocess,...}.py`, `quick.py` | none | infer the task, validate a dataset, split, fit, measure |
| Datasets, cleaning, analysis | `thelab/ide/datasets.py`, `cleaning.py`, `kaggle_api.py`, `eda_api.py` | dataset files | upload, clean, import, profile |
| Web front end | `web/src/` | screens | follows jobs and experiments |
| Ratchet loop | `scripts/ratchet_loop.py` | `generations/<slug>.json`, the ledger of a dataset | baseline, rounds, replay of the winner, absorb or refuse |
| Evaluation scripts | `scripts/evaluate_thesis.py`, `scripts/thesis/`, ... | reports | measure and plot |

### How they interact

- **Shared files, no locks.** Proposals, experiments, runs and datasets are
  files. The web server's loop, its thread pool, worker threads of jobs, command
  line processes and MCP servers read and write them; nothing locks them and no
  write goes by a temporary file and a rename.
- **The event loop.** Jobs are tasks of the web server's loop. Endpoints that
  are coroutines and the jobs interleave at their awaits only; the `train`,
  `batch` and `try_all` jobs work in a thread and emit their events from it.
- **Callbacks.** `should_continue` (cancellation) is asked before each entry of
  a batch and each stage; `on_result` reports each entry.
- **Streams.** A subscriber gets the history of a job, then what is emitted,
  through one bounded queue; `done` or a timeout ends the stream.
- **The chat.** Its loop runs as a task, the provider's stream in a thread; an
  unbounded queue carries what `on_event` is told, and the result, to the drawer.
- **The manifest.** Readers of the runs directory know a run by its
  `manifest.json`, the last file `write_artifacts` writes.

### What is hard, and what makes a part correct

| Part | Hard | Correct when |
| --- | --- | --- |
| Approval gate | two requests over one proposal, each a sequence of file system calls; twenty flows to the training of a proposal | nothing is trained without an approval; a rejection is respected by every request that comes after it; automatic approvals have a mandate |
| Job streams | a thread emits while the loop subscribes; a full queue drops events, the last one too; a cancellation races the end | clients get all events once and in order as long as they fit; `done` is last; a cancelled job never shows as completed; streams end |
| Experiments | jobs keep a copy of the whole record over awaits and save it whole; a dozen ways to end | however calls and jobs overlap, the record is left in no stage; the round it names has a proposal; nothing a user said is lost |
| Run store | a crash between two files; readers open files one by one while runs are written; the dataset changes during the run | a manifest vouches for its files; readers miss nothing; refused runs leave evidence and no model |
| Batch configuration | several caps that must agree | the product is within the cap and holds what was proposed |
| Harness, chat, providers | a provider that may fail, repeat itself and ask for anything; runs committed while an answer is checked; tokens shown before the check | the loop ends within its budget; an answer that is not grounded is not passed on, nor shown as one; each call has one answer; nothing of a disallowed turn is executed |
| Agentic round, sandbox | a deadline that races the child; each part may fail alone; cancellations and decisions while the loop is kept | every round ends; it trains on data that passed the validation, unless an upload took the same file name; a cancelled one leaves nothing; a degraded one holds nothing of a model; what is trained is what was approved |
| Context store | passes over a log that grows, beside other passes and insertions, with a schema that is created on the way; lines that are cut short | an index lags and never lies: what a pass leaves out it reports, no summary is stored unredacted, a search that finds nothing has missed nothing |
| Cleaning, validation, training | a cleaning of many steps, each of which may undo what another one looked at; a split that two modules compute | what is cleaned is complete and numeric; what the validation accepts can be split and fitted |
| Ratchet loop | sessions that read the ledger, work for hours and write it whole; one is killed while it writes | a champion beat its bar and was reproduced; a generation is lost only to a concurrent session |

`PROJECT.json` lists every hazard at its line with the properties that would
show it going wrong.

## 2. The modules

    ApprovalLedger    what the proposal store promises          (abstract)
    ApprovalGate        implements ApprovalLedger
    ApprovalGateProofs

    JobStream         a job that emits from the event loop, and its clients
    JobThread           extends it: a job that emits from a worker thread
    JobStreamProofs

    Experiment        one experiment, its endpoints and its jobs
    ExperimentProofs

    BatchConfig       from an answer to a batch: caps, validators, product
    Sandbox           one run of generated code in a child process
    AgenticRound        composes both: the rounds of an experiment
    AgenticRoundProofs

    Grounding         what a text cites and claims: the check of an answer
    AgentLoop           the tool loop of the harness and the chat, with providers
    ChatDrawer            extends it: the event stream and the drawer
    ChatDrawerProofs

    TrainingData      what is cleaned, accepted and can be trained
    RunCatalog        what the run store promises               (abstract)
    RunStore            extends the one and implements the other
    RunStoreProofs

    ContextLedger     what the context store promises           (abstract)
    ContextStore        implements ContextLedger
    ContextStoreProofs

    Ratchet           sessions of the ratchet loop over one dataset
    RatchetProofs

Each `MC*` module extends the module it checks and says why its bounds are
enough; each `.cfg` beside it is one run.

### ApprovalGate

A proposal is its files. A worker is a thread or process that serves one request
at a time; a request is a *flow*, and every file system call of a flow is a step
of its own. The sets `Creating`, `Human`, `Gated`, `Rejecting`, `Batching` and
`Running` say which steps a flow goes through; `FirstPc` and `After...` give
their order.

| Action | Code |
| --- | --- |
| `Save`, `Request` | `run_agentic_round` saves a proposal under a fresh id; `WorkerAgent.propose` also under one the provider's answer names (`worker.py:484`), over what is there; the endpoint or command that names one checks that it exists |
| `HumanCheckRejected`, `HumanCheckApproved`, `HumanWrite` | `record_human_approval`: `is_rejected`, `is_approved`, `approve` |
| `GateCheckRejected`, `GateCheckApproved`, `GateWrite` | `ensure_executable`, with `allow_auto` read on the way in |
| `DiagnosisApprove` | `DiagnosisAgent.handle` calls `ProposalStore.approve` itself |
| `Reject` | `ProposalStore.reject`; no caller looks at the approval first |
| `WriteBatchConfig`, `RunEntry` | `write_batch_config`, and one entry of `BatchRunner.run` |
| `Finish` | the batch is through, an exception, or the end of the process |
| `ToggleOptIn` | the operator's environment variable or opt-in file |

`savers` keeps, for each id, the flows that have saved a proposal under it: one
that is saved over another leaves that one's records where they are. `stale`,
`executed` and `granted` are history: no action reads them.

### JobStream and JobThread

`JobStream` has the jobs that emit from the loop. Between two awaits nothing
else runs, so that `emit` to all subscribers is one step, and so is `subscribe`
with its replay. `Put` is `put_nowait` with its `QueueFull`. A queue holds
positions in the history, which tells apart everything the properties need.

`JobThread` has the jobs that work in a thread. `emit` is four steps here
(append to the history, read the subscribers, put to each queue, return) and
`subscribe` one step for each replayed event, interleaved with them.

### Experiment

The record has the fields the endpoints and jobs decide on; of the plan it
keeps the provider and the agentic round. Each job has its own copy, `local`,
which `Await` and `End` save whole. An endpoint is one step, a job one step from
await to await: with a live provider that is every interpretation and the
analyst of the round; the mock provider awaits nothing. The loop takes what is
ready in order: a job that was submitted has begun before the next request is read
(`Begun`, `Starts`). Nothing else keeps a request from a job that is on: no endpoint
looks, and the front end leaves the feedback enabled while a job plans, cleans,
trains or evaluates (`web/src/views/ExperimentsView.tsx:253`). `Overlap` = FALSE, of
which some theorems speak, would be a client that waits.

| Action | Code |
| --- | --- |
| `StartExperiment`, `StartFromProposal` | `start_experiment`, `run_proposal_as_experiment` |
| `AddFeedback`, `ApproveRound`, `RejectRound` | the endpoints of `experiment_api.py` |
| `DecideElsewhere` | the same proposal in the proposals tab or on the command line |
| `BeginLive`, `Features`, `Selection`, `Train`, `EndRound` | the stages of `_run_experiment` |
| `RunMock`, `RunRound`, `RunProposal` | the jobs that await nothing |
| `Cancel`, `Restart` | `JobManager.cancel`; the server goes down, and its jobs with it |

### BatchConfig, Sandbox and AgenticRound

`BatchConfig` has no state: it is what the code does with an answer on its way
to a batch, as operators. A selection is a set of models, a number of seeds and
a grid, which maps a parameter to how many values it has; a value is its place
in the list. `Sandbox` is one child process, which the deadline or a limit may
end at any of its steps. `AgenticRound` runs them: the coroutine of a round
awaits in its first stage only, and `LoopIsFree` says what that means for the
others. Answers of a model, the code it writes and what that leaves are
outcomes; a round's proposal has the round's id.

| Definition | Code |
| --- | --- |
| `Cap` | the caps of `_generate_selection` on an answer: 3 models, 3 seeds, 2 parameters, 4 combinations |
| `Accepts`, `Normalize` | the validators of `ExperimentProposal`, and what `_validate_proposal_dict` does before them |
| `Kept`, `Entries`, `Notes`, `Batch` | `ProposalStore.write_batch_config`: the product for each model, what it notes as dropped, the cap of 48 |
| `RunInSandbox`, `CheckCode`, `Execute`, `Spill`, `Answer`, `Kill` | `run_in_sandbox` and its child |
| `Start`, `Analyst`, `Transform`, `Code`, `AwaitSandbox`, `FindName`, `Persist`, `Validate`, `Select`, `Propose`, `Gate`, `Truncate`, `Write` | `run_agentic_round`, in this order, with `_generate_transform` and its second attempt; a free name is found (`:507-511`) before the file is copied to it (`:523`); an answer that the caps cannot read (`:612-616`) raises out of `Select` |
| `ExecuteGate`, `ExecuteConfig`, `ExecuteTrain`, `ExecuteLoad`, `ExecuteStore` | `execute_approved_round` |
| `Approve`, `Reject`, `Cancel` | what people and other processes do, at any time |
| `FindFree`, `SaveUpload` | `save_upload` in a thread: the same two steps (`datasets.py:164-178`) |
| `WorkerSaves` | `WorkerAgent.propose` saves a whole proposal, of its own dataset, under an id that the provider's answer brings (`worker.py:484`) |
| `Crash` | the end of the server, with its coroutines, its child, and the cancellations it had in memory |

`approved` is history: no action reads it. The gate and the file system calls of
a decision are in `ApprovalGate`; here a decision is one step.

### TrainingData and RunStore

`TrainingData` has no state: it is what the cleaning makes of a table and what
the validation and the training ask of one, as operators. A column is its kind,
how many values it has, and whether some are missing or infinite; of a target,
its classes and the smallest of them count too. What these do not determine, such
as the values left after rows were dropped, or whether text reads as dates, is a
set of possible outcomes.

| Definition | Code |
| --- | --- |
| `Kept`, `DatetimeFeatures`, `Encodings`, `Imputed`, `Finished` | the steps of `clean_dataset`, in its order, with every step switched on |
| `CleanDataset` | all cleaned copies there may be of a table |
| `InferTaskType` | `infer_task_type` |
| `TargetUsable`, `FeaturesUsable`, `RegressionTarget`, `SensibleTarget`, `StratifiedSplitFeasible` | the fifteen checks of `validate.py`, by what they are about |
| `CanSplit`, `CanFit` | what `train_test_split` and the estimators raise on, as `train_and_evaluate` calls them |

`RunStore` has the runs directory. What a run reads is one of `Tables`, or a
cleaned copy of one if a cleaning wrote the file to its end. `ReadData` looks at
it as `run_model` does: the task, the model's own and its limit of rows, the
validation. `run_model` is a sequence of steps over its own directory: events are appended,
files are opened (and so truncated) and closed in the order of
`write_artifacts`, the manifest is built and written. `Die` ends it at any of
them. Readers find a run by its manifest and open its files one by one. Uploads
of one dataset name look for a free name and write it. A manifest that is being
written does not parse, and every reader takes it for none: it is in the model
once it is closed.

### Grounding, AgentLoop and ChatDrawer

`Grounding` is `grounding.py` over texts that are sequences of sentences, each
of which may cite a run and may claim a value of the metric. `AgentLoop` is one
request of a user: the harness and the chat run the same loop around the same
adapters and differ in who streams, who has an allowlist, who memoises and in
which order they check, so that `surface` and `provider` are chosen at the
start and one action stands for both where they agree. A tool stands for a call
with its arguments, which is the key of `tool_cache`.

| Action | Code |
| --- | --- |
| `Ask` | the head of the loop of `run` and `chat`; the chat streams from a provider that has `stream`, which is Ollama |
| `StreamDelta`, `StreamEnd`, `StreamBreak` | `OllamaProvider.stream` under `_run_stream`, which asks again with `complete` if there was no text |
| `Answered`, `Retry`, `GiveUp` | one attempt of `_post_with_retries`, and `complete`'s reading of the message (`OpenAITurn`, `OllamaTurn`) |
| `TakeText`, `CheckManifest`, `CheckMetrics` | a text, and `_check_grounding` run by run; the metrics of a run may not be read, and its claims pass (`skipped`; `harness.py:160-162`) |
| `TakeCalls`, `NeedApproval` | the allowlist of the harness; the chat has none |
| `StartCall`, `AnswerUnknown`, `AnswerCached`, `AnswerExecuted`, `CallRaises` | one call of a turn |
| `Commit` | another task or process commits a run (`RunStore.CloseManifest`) |
| `Read` with `ReadToken`, `ReadTool`, `ReadResult` | the drawer's reader loop, at any pace; `runner` and `gen` are the queue `events` |

`requests` is history: no action reads it.

### ContextStore

Processes that write the database open it and create its schema, statement by
statement, and then index the whole log or insert one event of their own. Each
statement is a step, an insertion with its tags is one transaction, and so one
step. The log is the sequence of what each append left in the file: one that was
cut short has no newline, and `IsLine` joins it with the next. A content is a
summary and the rest (tags, ids, privacy level); redaction changes the summary only.

| Action | Code |
| --- | --- |
| `AppendSessionSummary`, `LogAgentActivity`, `AppendOfOthers`, `CutShort` | `append_event` of `context_write_mcp.py` with its callers, which redact and validate; other tools, which do neither; a write that fails half way |
| `OpenToIndex`, `OpenToInsert`, `CreateProbe`, `DropProbe`, `CreateEntries`, `CreateRest` | `ContextRepository._ensure_db`, for `index_source_file` or for one event |
| `ReadLine`, `ReadRaises`, `EndOfLog` | one line of `index_source_file`; one that cannot be decoded or of which no event can be made (`:284`, outside of the `try`), which ends the pass; its return |
| `Select`, `Insert`, `Locked` | `ContextRepository.upsert`: `ContentMismatchError`, the `UNIQUE` constraint, a lock |
| `Construct`, `EntryCount`, `LastIndexedAt`, `Expanded`, `Like`, `Busy`, `Refuse`, `Return` | `ContextReader`: its construction, `status` and `search` |
| `Crash` | the end of a process between two of its steps |

`claims` is history: no action reads it.

### Ratchet

A session is one run of the script's `main` for the dataset. What it calls in
the lab is an outcome: models complete with a score or do not, rounds are
agentic or not, a replay reproduces its winner or does not. A generation in the
ledger is a number, in the order they were written.

| Action | Code |
| --- | --- |
| `Start`, `LoadLedger` | `main`, `load_ledger`, with `--ingest` |
| `PrepareDataset`, `TryAllModels` | `_prepare_dataset`, `pick_baseline` |
| `RunCellRounds` | a round of `run_cell_rounds`, over all cells |
| `Replay` | `_best_agentic`, `_replay_winner`, `absorption_decision` and the entry that is made of it |
| `Raise` | what a round, the cleaning, the factory or the replay raises: the session ends without an entry |
| `Truncate`, `SaveLedger` | `save_ledger`: the file is opened, which empties it, and written from its start; where another session wrote in between, the end of its ledger may be left behind (`Torn`) |
| `Kill` | the end of a session between two of its steps |

`saved` and `unseen` are history: no action reads them, but for the number the
next generation gets.

## 3. The runs

Every run is listed in `PROJECT.json` with its properties; each property of a
passing run has a mutant there: a plausible slip in the code that the run finds.

| Run | Question | Shows |
| --- | --- | --- |
| `approval_gate` | can any interleaving of two requests train what was not approved? | no: nothing is trained, and no batch configuration written, without an approval; a request that comes after a rejection is stopped; automatic approvals have a mandate; the gate implements the ledger |
| `job_stream` | what does a client get that comes, leaves and returns, around a job that is cancelled and whose queue may overflow? | every event once and in order while they fit; `done` last; streams of completed and failed jobs end |
| `job_thread` | the same, with `emit` and `subscribe` interleaved part by part | no event falls between replay and live events; a cancellation stops the job at the next entry |
| `experiment` | where can an experiment end up after three jobs, with calls that come while jobs are on, cancellations, decisions made elsewhere and a restart? | once all jobs are over it shows an outcome, whichever copy was saved last, and it comes to one; the round it names has a saved proposal |
| `agentic_round` | what may two rounds and the executions of their proposals leave, with any answers, code that hangs or spoils its data, an upload that takes the same name, a worker that saves over a proposal, cancellations, decisions and a crash? | proposals train on the cleaned data or on what passed the validation, but for files an upload wrote over and proposals a worker replaced; a cancelled round leaves nothing; what is trained is what was approved; the caps agree with the validators, and every approved value is trained or noted; a degraded round is deterministic; rounds end |
| `chat` | what can an answer, or a screen, be after any answers and failures of a provider, with runs committed at any time? | an answer that is handed on cites runs that were there and contradicts none whose metrics could be read, and so does what the drawer shows as one; the loop ends, within its requests; each call is answered once; nothing of a disallowed turn is executed; a memoised result stands for a success |
| `run_store` | what may a run accept of data that is uploaded or cleaned meanwhile, and what may a reader find of it while it is written, or after it was refused, failed or died? | accepted tables can be trained on; a cleaned copy is complete and numeric; a manifest vouches for all its files; a reader misses nothing; a run that lives leaves its evidence; the store implements the catalog |
| `context_store` | what may the database lack, or hold, after any passes, insertions, cut lines and crashes at once? | what a pass does not store it reports; no summary is stored unredacted; a search that finds nothing has missed nothing; entries never change: the store implements its ledger |
| `ratchet` | what may the ledger say, and lose, after any sessions, concurrent or killed? | absorbed champions beat their bar and were reproduced; a generation is lost only to a session that had read the ledger before; sessions end |

The type invariants are all theorems. `ModelOnlyIfTrained`,
`InOrder`, `DoneIsLast` (which is also a conjunct of `CompleteHistory`),
`CancelNeverCompletes`, `ReportedOnce`, `StatusConsistent` and, for calls that do
not overlap, `NeverLeftInAStage`, `AwaitingIsDecidable` and `CancelledWasAsked` are
theorems that no run repeats.

Three more runs check what a comment, docstring or document of the repository
says of the program, where the program does otherwise. TLC finds each violated:

| Run | Said | Done |
| --- | --- | --- |
| `feedback_lost` | "Record user feedback and queue a new orchestration iteration" (`ide/experiment_api.py:117`) | a running job saves its own copy over it (`ide/jobs.py:539`) |
| `manifest_of_other_data` | "Complete evidence record for a single training run" (`contracts/run_manifest.py:27`) | the dataset is hashed again at the end of the run; it may have been written since it was read (`run/artifacts.py:63`) |
| `store_unavailable` | "Raise FTS5NotAvailableError if FTS5 is not available" (`context/repository.py:75`) | the probe table that another process has just created, or left behind when it died, makes `CREATE` fail, and any failure is taken for a missing FTS5 (`context/repository.py:74-81`) |

More divergences showed while modelling and have no run of their own, most for
the model states them in a single action:

- "A rejected proposal can never be executed" (`thelab/agents/approval.py:16`):
  a rejection after the gate does not stop the batch (`run/batch.py:84`);
  `RejectionStopsGate` is about requests that come after it.
- "Requires the proposal to be approved via the UI or CLI"
  (`thelab/mcp/agent_mcp.py:77`): `continue_journey` records the approval it
  needs itself (`:300`).
- "provider+model persisted per experiment and reused by feedback iterations"
  (`docs/P4_PLAN.md:92`): the finished job's plan has no provider, so that the
  iteration runs on the mock (`ide/jobs.py:605`).
- "a batch where every candidate failed is a failed experiment, never a green
  checkmark" (`ide/jobs.py:629`): rejecting the round afterwards sets COMPLETED
  whatever the batch did (`ide/experiment_api.py:292`).
- `DiagnosisAgent.handle` approves its own proposal by a direct call
  (`agents/global_agents.py:331`), past the functions that `approval.py:3-5`
  presents as the only ones that record approvals (`DiagnosisApprove`).
- Two concurrent approvals both find no record, and the second overwrites the
  first one's principal and time (`approval.py:116` after `:111`).
- A proposal that is rejected after it was approved is still listed as approved
  (`model_service/app.py:129`), while the gate refuses it.
- The timeout that ends a stream does not know `cancelled` (`ide/jobs.py:218`):
  once the `done` event of a cancelled job is lost to a full queue (256 events,
  which takes repeated cancellations), the client that "follow[s] it via SSE
  until it reaches a terminal state" (`web/src/hooks/useJob.ts:21`) waits on.
  `StreamEnds` excepts this case.
- `runner` builds `{"type": "event", **e}` (`model_service/app.py:828`), where
  the type that `e` brings wins; no item has the type `event` that
  `ChatDrawer.tsx:149` waits for, and the "tool progress live" of
  `docs/P4_PLAN.md:86` is never shown (`ReadTool`).
- "every metric claim matches the corresponding metrics.json"
  (`agents/grounding.py:5`): `re.search` finds the first claim of a key only
  (`:42`), it is held against each cited run, whichever run the sentence is
  about, and a text that cites no run is not checked (`FirstClaim`, `TakeText`).
- The chat's stream has no retries, and a text that comes with tool calls loses
  them, where `complete` prefers the calls (`StreamBreak`, `StreamEnd`).
- The text of a refused streamed answer stays in the drawer, above the error
  (`ChatDrawer.tsx:178`), and so in the history of the next request.
- Adapters attempt four times (`max_retries` = 3), `docs/legacy/P1_PLAN.md:231`
  says three; the "memoization per session" of `docs/P4_PLAN.md:86` is per call
  of `chat`.
- A proposal is saved under the id that a provider's answer brings, if any
  (`worker.py:484`, `setdefault`), over another one and its approval; then what
  is trained was never approved. `TrainedIsApproved`, `ValidatedDataOnly` and
  `DegradedIsDeterministic` except the proposals an answer may name (`Named`).
  "**Agent-initiated flows** [...] require explicit human approval"
  (`agents/approval.py:7-8`) does not hold either: an agent's proposal that takes
  the id of one which a user's experiment approved automatically is trained under
  that record. `AutoNeedsMandate` is what is left: the flow a record names has
  saved *some* proposal of that id.
- "Rotate the streamed job so the UI SSE stream follows the execution"
  (`ide/experiment_api.py:252`): an experiment job that is on saves its own copy,
  with its own job id, over it (`ide/jobs.py:539`), and the UI streams another job
  than the one that executes. By the same copy an experiment can show as awaiting a
  decision on a round that it no longer names (`AwaitingIsDecidable` is proved for
  calls that do not overlap).
- "Verify every cited run_id exists and every metric claim matches evidence"
  (`agents/harness.py:149`): of a run whose metrics cannot be read the claims pass
  unchecked (`:160-162`; `agents/chat.py:170` takes them for empty).
- "If a file with the same name exists, append a numeric suffix"
  (`ide/datasets.py:165`): an upload writes in a thread after it has looked
  (`:166`, `:178`), so that a round which finds the same name free
  (`agentic_round.py:507-523`) is written over, also after its data were
  validated, or writes over the upload.
- "Malformed records are skipped and reported" (`context/indexer.py:262-264`): one
  with `"tags": 5`, or one that is not UTF-8, raises outside of the `try` (`:284`)
  and ends the pass: what is behind it is neither read nor reported, in this pass
  or a later one (`ReadRaises`).
- An empty list for a parameter the model knows empties the whole product, and
  the values of the other parameters are dropped without a note
  (`worker.py:198-260`); `EveryValueTrainedOrNoted` excepts such grids.
- A round counts as agentic when the model's selection gave way to the
  recommendation in the validation after it (`agentic_round.py:772-786`): the
  mode says less than it seems, and `DegradedIsDeterministic` is the direction
  that holds.
- `_validate_transform` "Never raises" (`agentic_round.py:305`), but compares
  a column named like a target with the target of the result, which may not be
  there (`:352`): the error ends the round (`Raising`).
- A champion's configuration has the dataset of the registry
  (`ratchet_loop.py:532`), although the winner was trained, and replayed, on the
  cleaned or the engineered one: who runs the champion of `:10-12` and
  `docs/THESIS_EVALUATION.md:209` as it is noted need not get its score.
- Which run of a round is best is decided by `test_accuracy` also in a
  regression, where none has one; `AbsorbedIsVerified` says so of
  classifications only (`BestOfRound`).
- A missing dataset ends the script also when `--ingest` has just fetched it
  (`ratchet_loop.py:590-596`, `Start`).
- A ledger that a killed session left half written stops all later ones
  (`LoadLedger`), and of two sessions at once the first one's generation is lost
  (`unseen`). Two that both opened the file before either wrote may leave it torn
  as well. `LostOnlyToAnotherSession` speaks of whole ledgers: a torn one has lost
  every generation.
- The id of a session of the command line is the second it ended in
  (`agents/cli.py:80`): of two in one second, the second is a content mismatch,
  and only the errors of the pass say so.

- A cleaned copy is "suitable for the deterministic training pipeline"
  (`ide/cleaning.py:3`), which refuses it all the same if it has infinite values,
  of which the median of a column may be none, a class of one row, or too many
  classes for its rows: `CleanedIsTrainable` excepts these.
- The cleaned copy of a Parquet file is CSV under a name that ends in `.parquet`
  (`ide/cleaning.py:218-235`), which `read_tabular` cannot read
  (`datasets.py:101-105`), where `docs/P4_PLAN.md:90` has "clean→CSV".
- An upload that fails its check is refused and stays in the directory, under its
  name and, if it can be counted, in the list (`datasets.py:177-182`,
  `CloseUpload`).

### Bounds

- `MCApprovalGate`: one proposal, two workers. A flow touches the files of its
  own proposal and nothing else, so that a second proposal adds the product of
  the two behaviours. Two workers are enough for each pair of file system calls
  to interleave; further requests are served one after the other by the same
  workers, without a bound.
- `MCJobStream`: two clients; a queue of six instead of 256, which the longest
  history of the job's own events and one cancellation fits exactly; two more
  cancellations (`MaxCancels` = 3) overflow it. `CapAssumption` keeps the case
  the code is in: what a job emits of its own fits a queue.
- `MCJobThread`: two entries, so that there is one after the cancellation and
  one before it; a queue of eight holds all events with the entries' twice, and
  overflows with a cancellation. Liveness is left to `JobStream`: what ends a
  stream is the same code.
- `MCExperiment`: three jobs (`MaxJobs`): the experiment and two more, iterations
  or executions of its round, which may overlap in pairs and all three.
  `Overlap` = TRUE: a client may call while a job is on. Two requests in one turn of
  the loop are excluded (`Begun`). The proofs cover any number of jobs.
- `MCChatDrawer`: two runs, of which one has the metric; texts of up to two
  sentences (`MaxText`), which cite either, both or none, and claim the right
  value, a wrong one or two different ones; a tool both surfaces have and the
  chat memoises, one of the chat only, one nobody knows; two steps, so that a
  call can come again later; turns of up to two calls (`MaxCalls`), so that it
  can come again at once; one retry. The proofs cover any of these numbers.
- `MCAgenticRound`: two rounds, so that one runs beside the other's execution; of
  one the answers lie beyond the caps on seeds and combinations, with parameters two
  models share, a model that does not exist, one of the other task and a grid keyed
  by models, of the other there is one answer, and a worker may replace its proposal;
  a result that is good, one that is not and one on which the validation raises; one
  upload, of a file that would not pass; one crash. `FindFree` leaves out uploads
  that find another name than a round, which change no file of a round. The proofs
  cover any of these numbers.
- `MCContextStore`: two processes that open the store three times between them,
  two appends, one of which may be cut short, to the log of one event, that may
  say something else each time, one event that is inserted, one crash; three
  summaries, of which redaction changes one, and beside them tags that are shared,
  private, unsupported or no list. Processes are symmetric. The proofs cover any of these numbers.
- `MCRatchet`: two processes and three sessions, so that one comes after a loss;
  two rounds and two scores, so that there is a win, a tie and a loss; an exception
  wherever there may be one; one kill;
  a classification. The proofs cover the rest.
- `MCRunStore`: one run, two readers, two uploads, the second of which cleans.
  Runs write to directories of their own, under fresh ids. Tables on both sides of
  each limit of the validation: rows for the test split, the smallest class,
  classes by rows, 20 and 21 values of a number, no rows, no features, no target;
  and, to be cleaned, columns that are empty, constant, constant but for missing
  values, infinite, text of few and of many values. A limit of 25 rows stands for
  the 50 000 of `svc`, `OneHotMax` = 3 for 20. The proofs cover any of these.

`CHECK_DEADLOCK FALSE` is set where the system really stops: after the last job
of the bound (`MCExperiment`), with every run and upload over and no request
(`MCRunStore`), after the result of a chat was read (`MCChatDrawer`), with
every round over and its proposal rejected (`MCAgenticRound`), and after the last
session of the bound (`MCRatchet`).

### Fairness

- `JobStream`: weak fairness of the job's start and end, of delivery and of the
  timeout. The loop runs every task that is ready and every timer that is due;
  a job's coroutine ends, for its batch is finite and interpretations have a
  timeout. Nothing is assumed of clients: they may leave, or never come.
- `Experiment`: weak fairness of each job's next step, for the same reason. No
  fairness of the user's calls, nor of a restart.
- `RunStore`: weak fairness of each run's steps: a run waits for nothing but the
  file system. `Die` may always prevent it, and `RunsLeaveEvidence` says so.
- `ChatDrawer`: weak fairness of the loop's next step: requests have timeouts,
  pauses before a retry are finite, and tools are local functions or servers
  that are taken to answer. Which step it is stays open: a provider may fail or
  ask for tools each time. None of the client, which may stop reading.
- `AgenticRound`: strong fairness of each round's next step, for the loop is free
  again and again: executions and other rounds may come in between without end,
  and a coroutine that is ready gets its turn. Weak fairness of an execution,
  which blocks the loop, and of the sandbox's deadline; none of the code in the
  sandbox, which may run forever, nor of uploads.
- `Ratchet`: weak fairness of each session's next step: rounds have timeouts and
  there are finitely many. None of its start.
- `ApprovalGate`, `JobThread`, `ContextStore`: none; their properties are safety.

## 4. The proofs

TLAPS checks the proofs for every value of the constants. The assumptions are
named in the modules, and TLC evaluates them in every run:

- `ApprovalGate`: none, of any sets of proposals and workers.
- `RunStore` with `TrainingData`: the tables and models are such, and who cleans is
  among the uploads; any sets of them, of runs and of readers.
- `Grounding`, `AgentLoop`: a run is not the marker of none, a tool which is
  memoised exists, the bounds are natural numbers.
- `JobStream`: the bounds are natural numbers, and a queue holds what a job emits
  of its own (`CapAssumption`; 256 in the code). The theorems about order and
  completeness say what holds also when cancellations overflow it.
- `Experiment`: a number of jobs. The types, `SettlesWhoeverCalls`,
  `NamedProposalExists` and `JobsDescend` hold whoever calls; the rest is proved of
  `~Overlap`: TLC finds each of those violated by calls that overlap.
- `AgenticRound` with `BatchConfig` and `Sandbox`: valid results are results,
  `None` is neither a round nor a file, what is uploaded is a result, too, the
  proposals a worker may replace are rounds', the registry names what it has
  parameters of, the ranking is a sequence of models it knows, a list of values
  may have one at least. Of what a model answers: what any parsed JSON is,
  finitely many models, parameters and seeds, and for each parameter a list of at
  most `MaxValues` values, which is any number (`IsAnswer`).
- `ContextStore`: safe contents are contents, supported and with tags that are a
  list; redaction makes summaries of summaries and contents of contents; what
  matches by prefix matches as a substring. Redaction is not assumed to be
  idempotent.
- `Ratchet`: a finite set of scores, which are natural numbers; `None` is neither a
  torn file nor a ledger.

### ApprovalGateProofs

`ExecutedOnlyApproved` is not inductive: that the batch is written and trained
after an approval hides in the place a worker is at. The strengthening says, for
each worker, what its place has established about its proposal: past the
approval there is a record; at `gate_write` the flow was allowed to approve; at
a rejection check nothing yet; and that a request that was stale when it came in
is not past its first check. Records are never withdrawn, so that what one
worker established stays true under the others' steps: the proof has one lemma
for each action, and in it the worker that moves and those that stay. `AutoNeedsMandate`
holds although ids are saved over: `savers` and `granted` only grow, and a worker at
`gate_write` or `approve` has saved its proposal itself.

| Theorem | States |
| --- | --- |
| `TypeCorrect` | `Spec => []TypeOK` |
| `NeverUnapproved` | `Spec => []ExecutedOnlyApproved` |
| `RejectionHolds` | `Spec => []RejectionStopsGate` |
| `AutoMandate` | `Spec => []AutoNeedsMandate` |
| `ImplementsLedger` | `Spec => LedgerSpec`: each step is an `Approve`, `Reject` or `Execute` of the ledger, or does not show |

### RunStoreProofs

`ManifestIsCommit` is not inductive either: nothing in it says that the files a
manifest will reference are whole *before* there is a manifest. `RunInv(r)`
says so of each place of `run_model`: no file up to the final event; then what
is not in `todo` is whole; at the end everything is; the log ends with the final
event from the first file on; a model file needs the outcome `completed`.
`ReaderInv(c)` says what a request relies on: it saw a manifest, and that stays.
The argument is that a step of one run leaves everything `RunInv` says of
another alone (`OtherRuns`), that manifests are written once (`ReadersKept`),
and that a completed run's manifest makes whole each file that is ever read
(`CompletedIsWhole`). `KInv` says of a run what it knows of its table: past the
validation it was accepted, and what comes from a cleaned copy is one. Both
properties then follow from lemmas about `TrainingData` alone: what the validation
accepts can be split and fitted, by arithmetic; and a column that `Finished` does
not drop is numeric and, if finite, complete and not constant, whatever the steps
before it made of it.

| Theorem | States |
| --- | --- |
| `TypeCorrect` | `Spec => []TypeOK` |
| `ManifestVouches` | `Spec => []ManifestIsCommit` |
| `ReadersServed` | `Spec => []ReadersMissNothing` |
| `ModelsAreTrained` | `Spec => []ModelOnlyIfTrained` |
| `AcceptedTrains` | `Spec => []AcceptedCanTrain` |
| `CleanedIsPrepared` | `Spec => []CleanedIsTrainable` |
| `ImplementsCatalog` | `Spec => CatalogSpec`: `Begin` and `CloseManifest` are the catalog's steps, a prediction's reply is its `Serve`, all else does not show |

### ChatDrawerProofs

That an answer passed the check is known at the end of a check during which
runs are committed, but for the claims about runs in `skipped`; the invariant `LoopInv` has to say what each place of the
loop has established. `Shape` says which turn there is where, how far its calls
are answered, and that the turns to come have no answers; `Checked`, of a check
in progress, that what is no longer to be read was readable and what is no
longer to be compared does not contradict, and both stay so, for runs are only
ever added; `Spent` counts what the turn at hand has used of its budget, which
the bound on all requests does not see. `Delivered` is a second invariant on
top of the first: the result is the last event, so that what the drawer made of
it is not touched again. `MemoInv` follows the memo of the tools: an answer is
looked up by its position, a new one is the last, and so a result that is kept
goes on to be that of a success which was executed. `Shown` is what the types of
the drawer need: the tokens a client gets between two other events are of one
stream (`Streamed`), and a stream has no more than `MaxText`, so that the text
which is shown has no more either, however late the client reads. There is one
lemma for each part of the invariant, and in it one step for each action.

That a request ends has a safety half, which is a theorem. `Rank` is a triple: the
turns left, the stage of the turn, and what is left to do there (tokens, retries,
sentences to check, calls to answer). Each step of the loop lowers it in the
lexicographic order, and commits and clients leave it alone; the order is well
founded, by the library's theorem about such products. What remains for TLC is that
a step is possible whenever the loop is not at its end, and that it is taken.

| Theorem | States |
| --- | --- |
| `LoopInvariant`, `DeliveredInvariant` | the two invariants |
| `TypeCorrect`, `DrawerTypeCorrect` | `Spec => []TypeOK`, and `[]DrawerTypeOK` for the drawer around the loop |
| `AnswersChecked` | `Spec => []AnswersPassedCheck` |
| `RequestsBounded` | `Spec => []RequestBudget` |
| `DisallowedTurnsDoNothing` | `Spec => []NothingOfADisallowedTurn` |
| `CallsAnswered` | `Spec => []EveryCallAnswered` |
| `ShownWasChecked` | `Spec => []ShownAnswerWasChecked` |
| `MemoisedWasExecuted` | `Spec => []MemoStandsForSuccess` |
| `LowerIsWellFounded` | nothing goes down for ever in the order of ranks |
| `LoopDescends` | `Spec => [][IF Work THEN <<Rank', Rank>> \in Lower ELSE Rank' = Rank]_vars` |

### JobStreamProofs

What a client holds is its `Seen`: what it was given and what waits in its
queue. That this is the whole history while it fits needs to know which
positions may be in a queue at all (`Positions`: those emitted so far, rising),
that nothing was dropped while everything fits (`Complete`), and that a
generator is closed only when the job is over (`ClosedIsOver`): an event emitted
later would pass it by. `Put` adds its event or nothing, so that `Seen` grows at
its end only.

With a thread (`JobThread`) none of this holds: positions come twice, and not in
their order. What remains is a promise: an event of the history is in `Seen`, or
still to be replayed, or part of an emission that has yet to put it (`Reaches`).
The step that keeps the promise must not find the queue full. `Load` counts, of
one client, what it was given, what its queue holds, what is left to replay and
what emissions under way will put; `ListenerOK` bounds it by `Total`, the events
with the entries' twice. An entry's event that is appended while a replay is under
way adds two to both; the event loop's own are emitted with no replay under way
and add one; a subscription may meet one emission under way, which is of an entry
already counted (`EmissionOK`). For the cancellation `CancelOK` adds to the
property what the entry under way may still do: none has reported since, as long
as one is being trained.

| Theorem | States |
| --- | --- |
| `IInvAlways` | the invariant |
| `TypeCorrect` | `Spec => []TypeOK` |
| `NothingLost` | `Spec => []CompleteHistory` |
| `NeverReordered` | `Spec => []InOrder` |
| `DoneEnds` | `Spec => []DoneIsLast`, a conjunct of `CompleteHistory` |
| `CancelHolds` | `Spec => []CancelNeverCompletes` |
| `TInvAlways` | the invariant of a job with a thread |
| `ThreadTypeCorrect` | `ThreadSpec => []ThreadTypeOK` |
| `NothingFallsBetween` | `ThreadSpec => []NothingMissed` |
| `CancelStops` | `ThreadSpec => []CancelStopsAtNextEntry` |

### ExperimentProofs

A job saves a copy of the record that it took some awaits ago. `RecordFits` says
what such a copy, and the record itself, may say while a job is the last one: it
names that job, a round in it that has a proposal has a saved one, and it awaits
a decision only with one. `JobFits` says it of the copy a job holds at each
place. Only the last job works, for nobody starts another before it is over; that
is why these theorems have the form `Spec => [](~Overlap => P)`.

`WholeInv` is what survives of it when calls do overlap and copies overwrite each
other: each copy, and the record, is a whole record, and a round it names as
having a proposal has one. `SettlesInv` adds what the copy that is saved last says:
what a job keeps while its round is on is a conclusion (`RoundKept`), and only the
latest job can be one that has not begun (`LatestBegins`), so that an execution which
fails, having awaited nothing, is the latest. `Left` counts the steps a job has before
it; `JobStep` lowers it, and nothing changes a job that is over (`Decided` says that it
has its verdict, so that a cancellation which comes late is turned down).

| Theorem | States, whoever calls |
| --- | --- |
| `TypeCorrect` | `Spec => []TypeOK` |
| `SettlesWhoeverCalls` | `Spec => []SettledWhenQuiet` |
| `NamedProposalExists` | `Spec => []RoundHasProposal` |
| `JobsDescend` | a job takes at most five steps, and its verdict is final |

| Theorem | P, with `Spec => [](~Overlap => P)` |
| --- | --- |
| `IInvAlways` | `IInv`, the invariant |
| `NoStageIsLeft` | `NeverLeftInAStage` |
| `DecisionsArePossible` | `AwaitingIsDecidable` |
| `CancelledAsAsked` | `CancelledWasAsked` |

### AgenticRoundProofs

A proposal's data go a long way: the child leaves them, the parent takes them if
the child completed, copies them under a free name and validates the copy. `Fits`
says of each place of a round what is known of its data, and `Good` of a dataset
that it was validated and is still what was validated; files of one round are
not touched by another, because from the second stage on a round is `Alone` on
the event loop. Uploads are: `Good` says only what a file is as long as no upload has
written it, and nothing is said of the proposals in `Named`. `Unknown` says that before its proposal is saved nothing knows of
a round, neither the record nor an execution that is about to save it; that is
why a cancelled one leaves nothing. `ExecInv` carries the approved choice through
an execution, `RecordOK` what the mode of a record promises. `Typed` adds to the types what
keeps them: a selection is made before it is proposed, what is persisted is there,
and an execution knows its proposal and the record it will save.

The sizes are apart from all this. `ChoiceInv` follows what a proposal asks for:
from the cap to the record, the execution and its batch it is `Fit`, and so are the
recommendation and what a worker saves under an id of its own choice. `Fit` is what the cap makes of any
answer (`CapFits`): at most four models, three seeds, and two parameters with two
values each or one with four, hence at most four combinations (`FewCombinations`),
48 entries in all (`FewEntries`), which is the limit. Where a model has none of the constructor
parameters, its entries have fewer, never more (`FewParameters`). That the sets which
are counted are finite takes induction over the parameters; it is done by a smallest
counterexample, which `FS_StrictSubsetOrderingWellFounded` and `WFMin` give without
an operator parameter (`FiniteValues`).

| Theorem | States |
| --- | --- |
| `IInvAlways` | the invariant |
| `TypeCorrect` | `Spec => []TypeOK` |
| `DataValidated` | `Spec => []ValidatedDataOnly` |
| `CancelledIsUnknown` | `Spec => []CancelledProposesNothing` |
| `ExecutesTheApproved` | `Spec => []TrainedIsApproved` |
| `DegradedRecords` | `Spec => []DegradedIsDeterministic` |
| `LimitsAgree` | `Spec => []CapsAgree` |
| `ValuesTrainedOrNoted` | `Spec => []EveryValueTrainedOrNoted` |

### ContextStoreProofs

`NothingMissedSilently` speaks of passes that are through. `ProcInv(p)` says for
each place what a pass has done so far: each line before `pos` is `Dealt` with,
stored or among the errors, but for the one the process carries, whose redacted
content it holds. Logs and stores only grow, so that what one process has done
stays done under the steps of others; a pass that raised is not through. `ReaderInv`
rests on the same for a reader whose two reads are not one. `StoreInv` says that
summaries in the store, and the ones processes carry, are redactions, and that an event without an entry was never counted.

| Theorem | States |
| --- | --- |
| `IInvAlways` | the invariant |
| `TypeCorrect` | `Spec => []TypeOK` |
| `PassesMissNothing` | `Spec => []NothingMissedSilently` |
| `OnlyRedactedStored` | `Spec => []StoredIsRedacted` |
| `IndexedOnce` | `Spec => []ReportedOnce` |
| `SearchComplete` | `Spec => []SearchFindsWhatIsThere` |
| `StatusAgrees` | `Spec => []StatusConsistent` |
| `ImplementsLedger` | `Spec => LedgerSpec`: `Insert` is the ledger's step, all else does not show |

### RatchetProofs

What a session will write is what it has read, so that the ledger alone is not
inductive: `Kept`, the generations no other session can have missed, are in each
ledger a session holds, and in the file whenever it is whole. An emptied or torn file
ends every session that comes to read it, and so is not replaced by a whole one that
lacks them; exceptions write nothing. An entry is
`Verified` from the moment it is made. The best of a round exists because a finite
set of scores has a greatest (`OneIsBest`, again by a smallest counterexample).
`Left` counts the steps a session has before it, the rounds it has yet to play
among them.

| Theorem | States |
| --- | --- |
| `IInvAlways` | the invariant |
| `TypeCorrect` | `Spec => []TypeOK` |
| `ChampionsVerified` | `Spec => []AbsorbedIsVerified` |
| `GenerationsKept` | `Spec => []LostOnlyToAnotherSession` |
| `SessionsDescend` | each step of a session lowers `Left`, from `Rounds + 7` at most, and only a start raises it |

### Only model-checked

Every invariant and action property of the runs is stated by a theorem, and so are
the three refinements. Liveness (`StreamEnds`, `StagesEnd`, `RunsLeaveEvidence`,
`LoopEnds`, `RoundsEnd`, `SessionsEnd`) stays with TLC: the prover has no rules for
ENABLED and fairness. Of `LoopEnds`, `StagesEnd` and `SessionsEnd` the half that is
safety is proved, a variant that each step lowers; what TLC adds is that a step can
be taken until the end, and is.

Induction is out of reach where it needs an operator as a parameter. What was
needed of it here, that finite sets have finitely many functions between them and a
greatest element, has a proof by a smallest counterexample.

## 5. What is left out

- What a provider answers, prompts, wording and layout: a nondeterministic
  outcome where a decision hangs on it.
- The numbers of training, of metrics and of profiles: pure functions of one
  dataset. An estimator may fail for reasons of its own (`Train`).
- Of the cleaning: steps switched off by its caller; names of columns that collide.
  Of a dataset: the values themselves, its format, headers that name a column
  twice, which `read_csv` refuses.
- The content of artifacts; ids are fresh, as `uuid4` makes them, but for the
  ones a provider's answer brings (`Save`, `WorkerSaves`) and the ones of sessions of the
  command line (`AppendSessionSummary`). The content of a proposal is in
  `AgenticRound`, its files are in `ApprovalGate`.
- A second server process over the same workspace: `JobManager` is a singleton
  of one process, and the repository starts one.
- Job summaries: written, and never read back.
- Of the opt-in, which the gate reads once: a withdrawal between that read and the
  approval is not held against it (`granted`).
- Of the chat: the conversation before the request, which is the client's; the
  indexing of the exchange; the discovery of tools, which is a constant; the
  mock provider, whose turns are scripted; what a tool does.
- Of the context store: reading one entry by its id, the time and tag filters of
  a search, events of a run's directory, the ranking of results.
- Of the ratchet: its report, the registry of datasets, the parsing of models for
  each stage; what a score is. That a kill during the write, or a write over another,
  loses the whole history is outside of `LostOnlyToAnotherSession`.
- Of a batch's values: what they are, so that duplicates in one list are not told
  apart.

### Not modelled

Of the training pipeline, the estimators, their metrics, the inference on new
rows, the notebook and the comparison of runs: numerical work and pure functions
without state, whose results are outcomes here. The analysis tools (`eda/`,
`eda_api.py`) and viewers likewise. The evaluation scripts measure and plot what the other parts did, once, from top
to bottom. Most of the web front end is layout. The MCP servers that are not
named above are read-only adapters. See the notes in `PROJECT.json`.

## 6. The plan

Done, in this order: `ApprovalGate` with its ledger; `JobStream`, `JobThread` and
`Experiment`; `RunStore` with its catalog, and `TrainingData`; `AgentLoop` with `Grounding` and
`ChatDrawer`; `BatchConfig`, `Sandbox` and `AgenticRound`; `ContextStore` with its
ledger; `Ratchet`; proofs for each of them.

Left:

1. Variants for `RunStore`, `AgenticRound` and `JobStream`, as there are for the
   other components.
2. The composition of `Experiment` with `AgenticRound`, which shares the record of
   the round, and of a batch's entries with the run store.
3. Regressions and concurrent kills in larger instances of `Ratchet`.
