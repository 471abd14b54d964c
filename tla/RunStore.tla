------------------------------ MODULE RunStore ------------------------------
(***************************************************************************)
(* The runs directory: run_model of thelab/run/runner.py fills a directory *)
(* of its own, file by file, while the model service, the MCP servers and  *)
(* the command line read it.  The only signal between them is the manifest *)
(* that write_artifacts writes last.                                       *)
(*                                                                         *)
(* Every run here reads the same dataset file, which uploads of one name   *)
(* (thelab/ide/datasets.py, cleaning.py, kaggle_api.py) write meanwhile.   *)
(* Writing a file truncates it first: until it is closed it is partial.    *)
(* All of this happens in threads and processes that share no lock.        *)
(***************************************************************************)
EXTENDS TrainingData, Sequences

CONSTANTS Runs,      \* calls of run_model, each under a fresh run id
          Readers,   \* requests that read the runs directory
          Uploads,   \* requests that write a dataset of the same name
          Cleaning,  \* those that clean one, for the target of the runs
          Tables,    \* what a dataset, or a part of one, may contain
          Models     \* of the registry: a task, and a limit of rows or 0

ASSUME CleaningAssumption == Cleaning \subseteq Uploads
ASSUME TablesAssumption   == Tables \subseteq Table
ASSUME ModelsAssumption   == Models \subseteq [task : Tasks, limit : Nat]

Refused   == {"rejected", "failed"}
Outcomes  == {"completed"} \union Refused

\* In the order write_artifacts has them, run_model's task_spec first.
Artifacts == {"task_spec", "inputs", "data_profile", "dataset_contract",
              "training_config", "metrics", "validation_report", "model",
              "model_card"}
Rank == [task_spec |-> 1, inputs |-> 2, data_profile |-> 3,
         dataset_contract |-> 4, training_config |-> 5, metrics |-> 6,
         validation_report |-> 7, model |-> 8, model_card |-> 9]
Evidence == {"task_spec", "inputs", "data_profile", "validation_report"}

\* A dataset's content is the upload it came from.
NoData   == [from |-> "nobody", whole |-> FALSE]
Data     == [from : Uploads \union {"nobody"}, whole : BOOLEAN]
NoRecord == [status |-> "none"]
NoInput  == [task |-> "none"]

VARIABLES
  data,     \* the dataset file
  upload,   \* u -> where the upload is
  run,      \* r -> where run_model is, and what it has learned
  file,     \* r -> artifact -> its state on disk
  log,      \* r -> events.jsonl
  manifest, \* r -> manifest.json, once it is written to the end
  reader,   \* c -> the request it serves
  served    \* history: runs a prediction was made with

vars == <<data, upload, run, file, log, manifest, reader, served>>

Kinds == {"predict", "list"}
Idle  == [pc |-> "idle"]

\* The files a request opens once it found the manifest, in order.
Reads == [predict |-> <<"model", "inputs", "data_profile", "model">>,
          list    |-> <<"inputs", "metrics">>]

RunPCs == {"new", "read", "contract", "train", "close", "write", "writing",
           "commit", "done", "dead"}
Events == {"run_started", "data_validated", "validation_completed",
           "training_completed", "run_completed", "run_rejected", "run_failed"}

\* outcome: final_status; contract: the dataset has a contract; todo: files
\* still to write; trained, hashed: the data read_csv and build_manifest saw;
\* input: what read_csv returned, and the task it is for.
Inputs   == [table : Table, task : Tasks]
Progress == [pc : RunPCs, outcome : Outcomes \union {"running"},
             contract : BOOLEAN, todo : SUBSET Artifacts,
             trained : Data, hashed : Data, input : Inputs \union {NoInput}]
Requests == [pc : {"reading", "error"}, kind : Kinds, run : Runs,
             left : Seq(Artifacts), missed : SUBSET Artifacts]
Manifests == [status : Outcomes, refs : SUBSET Artifacts, events : Seq(Events),
              input : Data]

TypeOK ==
  /\ data     \in Data
  /\ upload   \in [Uploads -> {"new", "free", "open", "done"}]
  /\ run      \in [Runs -> Progress]
  /\ file     \in [Runs -> [Artifacts -> {"absent", "partial", "whole"}]]
  /\ log      \in [Runs -> Seq(Events)]
  /\ manifest \in [Runs -> Manifests \union {NoRecord}]
  /\ reader   \in [Readers -> Requests \union {Idle}]
  /\ served   \in SUBSET Runs

Init ==
  /\ data     = NoData
  /\ upload   = [u \in Uploads |-> "new"]
  /\ run      = [r \in Runs |->
       [pc |-> "new", outcome |-> "running", contract |-> FALSE, todo |-> {},
        trained |-> NoData, hashed |-> NoData, input |-> NoInput]]
  /\ file     = [r \in Runs |-> [a \in Artifacts |-> "absent"]]
  /\ log      = [r \in Runs |-> <<>>]
  /\ manifest = [r \in Runs |-> NoRecord]
  /\ reader   = [c \in Readers |-> Idle]
  /\ served   = {}
-----------------------------------------------------------------------------
Exists(d) == d.from # "nobody"

\* save_upload, clean_dataset, ingest_kaggle_dataset: a name that is taken
\* gets a suffix, and the upload goes to a file no run here reads.
FindName(u) ==
  /\ upload[u] = "new"
  /\ upload' = [upload EXCEPT ![u] = IF Exists(data) THEN "done" ELSE "free"]
  /\ UNCHANGED <<data, run, file, log, manifest, reader, served>>

OpenUpload(u) ==
  /\ upload[u] = "free"
  /\ upload' = [upload EXCEPT ![u] = "open"]
  /\ data'   = [from |-> u, whole |-> FALSE]
  /\ UNCHANGED <<run, file, log, manifest, reader, served>>

\* Two uploads that write at once end up with the content of the last to
\* close; the reply of both names the file.
CloseUpload(u) ==
  /\ upload[u] = "open"
  /\ upload' = [upload EXCEPT ![u] = "done"]
  /\ data'   = [from |-> u, whole |-> TRUE]
  /\ UNCHANGED <<run, file, log, manifest, reader, served>>
-----------------------------------------------------------------------------
At(r, pc) == run[r].pc = pc

\* run_model goes on at pc, after it appended some events.
Goto(r, record, events) ==
  /\ run' = [run EXCEPT ![r] = record]
  /\ log' = [log EXCEPT ![r] = @ \o events]
  /\ UNCHANGED <<data, upload, file, manifest, reader, served>>

Begin(r) ==
  /\ At(r, "new")
  /\ Goto(r, [run[r] EXCEPT !.pc = "read"], <<"run_started">>)

\* Mutant of Refuse: the exception goes through, and nothing is written.
RefuseRaises(r, seen, outcome) ==
  Goto(r, [seen EXCEPT !.pc = "done", !.outcome = outcome], <<>>)

\* RejectedRunError, or any other exception before the final event, when
\* run_model has seen so much.
Refuse(r, seen, outcome) ==
  Goto(r, [seen EXCEPT !.pc = "close", !.outcome = outcome], <<>>)

\* A cleaned copy is known to be one only when it is whole.
IsCleaned(d) == d.whole /\ d.from \in Cleaning

CleanedTables == UNION {CleanDataset(t) : t \in Tables}

Contents(d) == IF IsCleaned(d) THEN CleanedTables ELSE Tables

\* The task as requested, or inferred; the model must be for it, and not be
\* limited to fewer rows.
TaskOf(t, requested) ==
  IF requested = "auto" THEN InferTaskType(t) ELSE requested

Accepts(m, t, task) ==
  /\ m.task = task
  /\ m.limit = 0 \/ t.rows <= m.limit
  /\ ValidDataset(t, task)

\* read_csv, the checks of the model and validate_dataset.
ReadData(r) ==
  /\ At(r, "read")
  /\ \/ \E outcome \in Refused : Refuse(r, run[r], outcome)
     \/ /\ Exists(data)
        /\ \E t \in Contents(data), m \in Models, requested \in Tasks \union {"auto"} :
             LET task == TaskOf(t, requested)
                 seen == [run[r] EXCEPT !.trained = data,
                            !.input = [table |-> t, task |-> task]]
             IN  IF Accepts(m, t, task)
                 THEN Goto(r, [seen EXCEPT !.pc = "contract"], <<"data_validated">>)
                 ELSE Refuse(r, seen, "rejected")

\* hash_file and build_dataset_contract.
Contract(r) ==
  /\ At(r, "contract")
  /\ \/ Refuse(r, run[r], "failed")
     \/ Goto(r, [run[r] EXCEPT !.pc = "train", !.contract = TRUE],
             <<"validation_completed">>)

\* train_and_evaluate raises if the table cannot be split or fitted; it may for
\* reasons of the model's own.
Train(r) ==
  /\ At(r, "train")
  /\ \/ Refuse(r, run[r], "failed")
     \/ /\ CanTrain(run[r].input.table, run[r].input.task)
        /\ Goto(r, [run[r] EXCEPT !.pc = "close", !.outcome = "completed"],
                <<"training_completed">>)

\* What write_artifacts writes.
FilesOf(outcome, contract) ==
  Evidence
    \union (IF contract THEN {"dataset_contract"} ELSE {})
    \union (IF outcome = "completed"
            THEN {"training_config", "metrics", "model", "model_card"} ELSE {})

FinalEvent == [completed |-> "run_completed", rejected |-> "run_rejected",
               failed |-> "run_failed"]

\* The final event comes before the files.
Close(r) ==
  /\ At(r, "close")
  /\ Goto(r, [run[r] EXCEPT !.pc = "write", !.input = NoInput,
                !.todo = FilesOf(run[r].outcome, run[r].contract)],
          <<FinalEvent[run[r].outcome]>>)
-----------------------------------------------------------------------------
NextFile(r, a) ==
  /\ a \in run[r].todo
  /\ \A b \in run[r].todo : Rank[a] <= Rank[b]

OpenFile(r) ==
  /\ At(r, "write")
  /\ \E a \in Artifacts :
       /\ NextFile(r, a)
       /\ file' = [file EXCEPT ![r][a] = "partial"]
  /\ run' = [run EXCEPT ![r].pc = "writing"]
  /\ UNCHANGED <<data, upload, log, manifest, reader, served>>

CloseFile(r) ==
  /\ At(r, "writing")
  /\ \E a \in Artifacts :
       /\ NextFile(r, a)
       /\ file' = [file EXCEPT ![r][a] = "whole"]
       /\ run'  = [run EXCEPT ![r].pc = "write", ![r].todo = @ \ {a}]
  /\ UNCHANGED <<data, upload, log, manifest, reader, served>>

\* Mutant of BuildManifest: the manifest comes before the files.
ManifestFirst(r) ==
  /\ At(r, "write")
  /\ manifest[r] = NoRecord
  /\ manifest' = [manifest EXCEPT ![r] =
       [status |-> run[r].outcome,
        refs   |-> FilesOf(run[r].outcome, run[r].contract),
        events |-> log[r], input |-> data]]
  /\ run' = [run EXCEPT ![r].hashed = data]
  /\ UNCHANGED <<data, upload, file, log, reader, served>>

\* The events and the dataset are hashed before the manifest is written.
BuildManifest(r) ==
  /\ At(r, "write")
  /\ run[r].todo = {}
  /\ run' = [run EXCEPT ![r].pc = "commit", ![r].hashed = data]
  /\ UNCHANGED <<data, upload, file, log, manifest, reader, served>>

\* A manifest that is not there to its end does not parse, and counts for none.
CloseManifest(r) ==
  /\ At(r, "commit")
  /\ manifest' = [manifest EXCEPT ![r] =
       [status |-> run[r].outcome,
        refs   |-> FilesOf(run[r].outcome, run[r].contract),
        events |-> log[r], input |-> run[r].hashed]]
  /\ run' = [run EXCEPT ![r].pc = "done"]
  /\ UNCHANGED <<data, upload, file, log, reader, served>>

\* The process ends, or a file cannot be written and run_model raises.
Die(r) ==
  /\ run[r].pc \notin {"new", "done", "dead"}
  /\ run' = [run EXCEPT ![r].pc = "dead"]
  /\ UNCHANGED <<data, upload, file, log, manifest, reader, served>>
-----------------------------------------------------------------------------
\* Mutant of Open: a request takes any run whose model file it finds.
OpenByModel(c, r, kind) ==
  /\ reader[c] = Idle
  /\ file[r]["model"] # "absent"
  /\ reader' = [reader EXCEPT ![c] =
       [pc |-> "reading", kind |-> kind, run |-> r, left |-> Reads[kind],
        missed |-> {}]]
  /\ UNCHANGED <<data, upload, run, file, log, manifest, served>>

\* A run is listed, summarised, compared and predicted with only if its
\* manifest says that it is completed (and so approved).
Open(c, r, kind) ==
  /\ reader[c] = Idle
  /\ manifest[r].status = "completed"
  /\ reader' = [reader EXCEPT ![c] =
       [pc |-> "reading", kind |-> kind, run |-> r, left |-> Reads[kind],
        missed |-> {}]]
  /\ UNCHANGED <<data, upload, run, file, log, manifest, served>>

\* load_json_artifact, joblib.load: a list goes on without what it misses, a
\* prediction ends in an error.
ReadNext(c) ==
  /\ reader[c].pc = "reading"
  /\ reader[c].left # <<>>
  /\ LET request == reader[c]
         a       == Head(request.left)
         lacks   == IF file[request.run][a] = "whole" THEN {} ELSE {a}
     IN  reader' = [reader EXCEPT ![c] =
           [request EXCEPT
              !.left   = Tail(request.left),
              !.missed = request.missed \union lacks,
              !.pc     = IF lacks # {} /\ request.kind = "predict"
                         THEN "error" ELSE "reading"]]
  /\ UNCHANGED <<data, upload, run, file, log, manifest, served>>

Reply(c) ==
  /\ \/ reader[c].pc = "error"
     \/ reader[c].pc = "reading" /\ reader[c].left = <<>>
  /\ reader' = [reader EXCEPT ![c] = Idle]
  /\ served' = IF reader[c].pc = "reading" /\ reader[c].kind = "predict"
               THEN served \union {reader[c].run} ELSE served
  /\ UNCHANGED <<data, upload, run, file, log, manifest>>

RunStep(r) ==
  \/ Begin(r)    \/ ReadData(r)  \/ Contract(r)      \/ Train(r) \/ Close(r)
  \/ OpenFile(r) \/ CloseFile(r) \/ BuildManifest(r) \/ CloseManifest(r)

Next ==
  \/ \E u \in Uploads : FindName(u) \/ OpenUpload(u) \/ CloseUpload(u)
  \/ \E r \in Runs : RunStep(r) \/ Die(r)
  \/ \E c \in Readers :
       \/ \E r \in Runs, kind \in Kinds : Open(c, r, kind)
       \/ ReadNext(c) \/ Reply(c)

\* run_model goes on: nothing in it waits for another.
Fairness == \A r \in Runs : WF_vars(RunStep(r))

Spec == Init /\ [][Next]_vars /\ Fairness
-----------------------------------------------------------------------------
\* A manifest that can be read vouches for its run: every file it references
\* is on disk as it was hashed, nothing was logged since, and the log ends
\* with the manifest's own verdict (artifacts.py:252-277).
ManifestIsCommit ==
  \A r \in Runs :
    manifest[r] # NoRecord =>
      /\ \A a \in manifest[r].refs : file[r][a] = "whole"
      /\ log[r] = manifest[r].events
      /\ log[r][Len(log[r])] = FinalEvent[manifest[r].status]

\* Whoever found a run completed finds every file it then opens, although it
\* opens them one by one and takes no lock (app.py:363, :437).
ReadersMissNothing ==
  \A c \in Readers :
    reader[c] # Idle => reader[c].pc # "error" /\ reader[c].missed = {}

\* Wherever a run was refused, failed or died: a model file is only ever left
\* by a run that was trained to the end and logged so (artifacts.py:226).
ModelOnlyIfTrained ==
  \A r \in Runs :
    file[r]["model"] # "absent"
      => \E i \in 1 .. Len(log[r]) : log[r][i] = "run_completed"

\* Every run leaves its evidence, rejected and failed ones too, unless it dies
\* on the way (runner.py:236-252).
RunsLeaveEvidence ==
  \A r \in Runs :
    At(r, "read") ~> At(r, "dead") \/ manifest[r] # NoRecord

\* A table that passed the validation is never one the training cannot split
\* or fit: two modules that each compute the split agree, down to the smallest
\* tables and classes (validate.py:151-177, train.py:83-102).
AcceptedCanTrain ==
  \A r \in Runs :
    run[r].pc \in {"contract", "train"}
      => CanTrain(run[r].input.table, run[r].input.task)

\* Whoever reads a cleaned copy that is whole finds what the cleaning promises:
\* rows, a complete target, numeric features, and none of the finite ones
\* incomplete or constant, whatever was dropped, parsed, encoded and imputed
\* before (cleaning.py:3-20, :199-203).
CleanedIsTrainable ==
  \A r \in Runs :
    run[r].input # NoInput /\ IsCleaned(run[r].trained)
      => LET t == run[r].input.table
         IN  /\ t.rows > 0
             /\ t.target.kind # "absent" /\ t.target.missing = 0
             /\ \A c \in t.features :
                  /\ c.kind = "number"
                  /\ c.infinite \/ (~c.missing /\ c.distinct > 1)

\* The store implements the catalog: a run turns up in one step, with a status
\* that stays, and is served only if it completed.
CatalogStatus ==
  [r \in Runs |-> IF manifest[r] # NoRecord THEN manifest[r].status
                  ELSE IF At(r, "new") THEN "none" ELSE "open"]

Catalog == INSTANCE RunCatalog WITH status <- CatalogStatus

CatalogSpec == Catalog!Spec

\* Claimed by run_manifest.py:27-31, "Complete evidence record for a single
\* training run" with its "input-data hash": a completed run's manifest has
\* the hash of the data the model was trained on.
NamesItsData ==
  \A r \in Runs :
    manifest[r].status = "completed" => manifest[r].input = run[r].trained
=============================================================================
