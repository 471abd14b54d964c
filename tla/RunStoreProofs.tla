--------------------------- MODULE RunStoreProofs ---------------------------
(***************************************************************************)
(* The run store, for any number of runs, readers and uploads.             *)
(*                                                                         *)
(* That a readable manifest vouches for its run is not inductive: it needs *)
(* to know, for each place of run_model, which files are written, that the *)
(* log got its final event first, and that a run without a manifest is not *)
(* done.  RunInv(r) says so of one run; a step of another run leaves all   *)
(* it speaks of alone.  ReaderInv(c) says what a request relies on: the    *)
(* manifest it saw, which never changes again.                             *)
(*                                                                         *)
(* What a run knows of its table, KInv, rests on the types only: the       *)
(* lemmas on the cleaning follow a column through it, the rest is one step *)
(* that reads and all others, which keep what was read or forget it.       *)
(***************************************************************************)
EXTENDS RunStore, SequenceTheorems, TLAPS

Early == {"new", "read", "contract", "train", "close"}

Files(r) == FilesOf(run[r].outcome, run[r].contract)

RunInv(r) ==
  /\ run[r].pc \in Early => \A a \in Artifacts : file[r][a] = "absent"
  /\ run[r].pc \in {"close", "write", "writing", "commit", "done"}
       => run[r].outcome \in Outcomes
  /\ run[r].pc \in {"write", "writing", "commit", "done"}
       => /\ Len(log[r]) > 0
          /\ log[r][Len(log[r])] = FinalEvent[run[r].outcome]
  /\ run[r].pc \in {"write", "writing"}
       => /\ run[r].todo \subseteq Files(r)
          /\ \A a \in Files(r) \ run[r].todo : file[r][a] = "whole"
  /\ run[r].pc \in {"commit", "done"}
       => \A a \in Files(r) : file[r][a] = "whole"
  /\ \A a \in Artifacts :
       file[r][a] # "absent"
         => /\ a \in Files(r)
            /\ run[r].outcome \in Outcomes
            /\ \E i \in 1 .. Len(log[r]) :
                 log[r][i] = FinalEvent[run[r].outcome]
  /\ manifest[r] # NoRecord
       => /\ run[r].pc = "done"
          /\ manifest[r].status = run[r].outcome
          /\ manifest[r].refs = Files(r)
          /\ manifest[r].events = log[r]

ReadFiles == {"model", "inputs", "data_profile", "metrics"}

ReaderInv(c) ==
  reader[c] # Idle
    => /\ reader[c].pc = "reading"
       /\ reader[c].missed = {}
       /\ reader[c].left \in Seq(ReadFiles)
       /\ manifest[reader[c].run].status = "completed"

IInv ==
  /\ TypeOK
  /\ \A r \in Runs : RunInv(r)
  /\ \A c \in Readers : ReaderInv(c)
-----------------------------------------------------------------------------
\* What a step of run r may not touch.
OthersKept(r) ==
  \A q \in Runs \ {r} :
    /\ run'[q] = run[q]
    /\ file'[q] = file[q]
    /\ log'[q] = log[q]
    /\ manifest'[q] = manifest[q]

LEMMA OtherRuns ==
  ASSUME NEW r \in Runs, OthersKept(r),
         NEW q \in Runs, q # r, RunInv(q)
  PROVE  RunInv(q)'
  BY DEF OthersKept, RunInv, Files

LEMMA FilesAreArtifacts ==
  ASSUME NEW outcome, NEW contract
  PROVE  /\ FilesOf(outcome, contract) \subseteq Artifacts
         /\ outcome = "completed" => ReadFiles \subseteq FilesOf(outcome, contract)
         /\ "model" \in FilesOf(outcome, contract) => outcome = "completed"
  BY DEF FilesOf, Artifacts, Evidence, ReadFiles

LEMMA FinalEvents ==
  /\ FinalEvent \in [Outcomes -> Events]
  /\ FinalEvent["completed"] = "run_completed"
  BY DEF FinalEvent, Outcomes, Refused, Events

LEMMA InitIInv == Init => IInv
  <1> SUFFICES ASSUME Init PROVE IInv
    OBVIOUS
  <1>1. TypeOK
    BY DEF Init, TypeOK, NoData, Data, Progress, RunPCs, Outcomes, Idle
  <1>2. ASSUME NEW r \in Runs PROVE RunInv(r)
    BY <1>2 DEF Init, RunInv, Early
  <1>3. ASSUME NEW c \in Readers PROVE ReaderInv(c)
    BY <1>3 DEF Init, ReaderInv
  <1> QED
    BY <1>1, <1>2, <1>3 DEF IInv
-----------------------------------------------------------------------------
\* run_model gets on: what its steps change of its progress.
LEMMA Moved ==
  ASSUME TypeOK, NEW r \in Runs, NEW pc \in RunPCs
  PROVE  /\ [run EXCEPT ![r] = [run[r] EXCEPT !.pc = pc]] \in [Runs -> Progress]
         /\ \A todo \in SUBSET Artifacts :
              [run EXCEPT ![r] = [run[r] EXCEPT !.pc = pc, !.todo = todo]]
                \in [Runs -> Progress]
         /\ \A seen \in Data :
              [run EXCEPT ![r] = [run[r] EXCEPT !.pc = pc, !.hashed = seen]]
                \in [Runs -> Progress]
  <1>1. run \in [Runs -> Progress] /\ run[r] \in Progress
    BY DEF TypeOK
  <1>2. [run[r] EXCEPT !.pc = pc] \in Progress
    BY <1>1 DEF Progress
  <1>3. \A todo \in SUBSET Artifacts :
          [run[r] EXCEPT !.pc = pc, !.todo = todo] \in Progress
    BY <1>1 DEF Progress
  <1>4. \A seen \in Data : [run[r] EXCEPT !.pc = pc, !.hashed = seen] \in Progress
    BY <1>1 DEF Progress
  <1> QED
    BY <1>1, <1>2, <1>3, <1>4

LEMMA LastOfConcat ==
  ASSUME NEW S, NEW s \in Seq(S), NEW e \in S
  PROVE  /\ Len(s \o <<e>>) > 0
         /\ (s \o <<e>>)[Len(s \o <<e>>)] = e
  <1>1. s \o <<e>> = Append(s, e)
    BY AppendIsConcat
  <1>2. Len(Append(s, e)) = Len(s) + 1 /\ Append(s, e)[Len(s) + 1] = e
    OBVIOUS
  <1> QED
    BY <1>1, <1>2

\* Readers rely on manifests that stay as they are.
LEMMA ReadersKept ==
  ASSUME NEW c \in Readers, ReaderInv(c), TypeOK, reader'[c] = reader[c],
         \A r \in Runs : manifest[r] # NoRecord => manifest'[r] = manifest[r]
  PROVE  ReaderInv(c)'
  <1> SUFFICES ASSUME reader[c] # Idle PROVE ReaderInv(c)'
    BY DEF ReaderInv
  <1>1. reader[c].run \in Runs
    BY DEF TypeOK, Requests
  <1>2. manifest[reader[c].run] # NoRecord
    BY <1>1 DEF ReaderInv, NoRecord
  <1> QED
    BY <1>1, <1>2 DEF ReaderInv

\* The steps of run_model up to its files append to the log and go on.
LEMMA GotoInv ==
  ASSUME IInv, NEW r \in Runs, NEW next \in Progress, NEW events \in Seq(Events),
         run[r].pc \in Early, Goto(r, next, events),
         next.pc \in Early \union {"write"},
         next.pc \in {"close", "write"} => next.outcome \in Outcomes,
         next.pc = "write" =>
           /\ events = <<FinalEvent[next.outcome]>>
           /\ next.todo = FilesOf(next.outcome, next.contract)
  PROVE  IInv'
  <1>1. TypeOK'
    BY DEF IInv, TypeOK, Goto
  <1>2. OthersKept(r)
    BY DEF IInv, TypeOK, Goto, OthersKept
  <1>3. RunInv(r)'
    <2>1. /\ run'[r] = next
          /\ log'[r] = log[r] \o events
          /\ file' = file /\ manifest' = manifest
      BY DEF IInv, TypeOK, Goto
    <2>2. \A a \in Artifacts : file[r][a] = "absent"
      BY DEF IInv, RunInv
    <2>3. manifest[r] = NoRecord
      BY DEF IInv, RunInv, Early
    <2>4. ASSUME next.pc = "write"
          PROVE  /\ Len(log'[r]) > 0
                 /\ log'[r][Len(log'[r])] = FinalEvent[next.outcome]
      <3>1. log[r] \in Seq(Events) /\ FinalEvent[next.outcome] \in Events
        BY <2>4, FinalEvents DEF IInv, TypeOK
      <3>2. log'[r] = log[r] \o <<FinalEvent[next.outcome]>>
        BY <2>1, <2>4
      <3> QED
        BY <3>1, <3>2, LastOfConcat
    <2> QED
      BY <2>1, <2>2, <2>3, <2>4 DEF RunInv, Files, Early
  <1>4. ASSUME NEW c \in Readers PROVE ReaderInv(c)'
    BY <1>4, ReadersKept DEF IInv, Goto
  <1> QED
    BY <1>1, <1>2, <1>3, <1>4, OtherRuns DEF IInv

\* What becomes of a column is a column, and a prepared one.
Ready(c) == c.kind = "number" /\ (c.infinite \/ (~c.missing /\ c.distinct > 1))

LEMMA FinishedIsReady ==
  ASSUME NEW c \in Column, c.kind = "number", c.distinct # 0, NEW d \in Finished(c)
  PROVE  d = Dropped \/ (d \in Column /\ Ready(d))
  <1>1. PICK e \in Imputed(c) : d = IF Constant(e) THEN Dropped ELSE e
    BY DEF Finished
  <1>2. e \in Column /\ e.kind = "number" /\ e.distinct # 0 /\ (e.missing => e.infinite)
    BY <1>1 DEF Imputed, Column, Several
  <1>3. CASE Constant(e)
    BY <1>1, <1>3
  <1>4. CASE ~Constant(e)
    BY <1>1, <1>2, <1>4 DEF Constant, Ready, Column
  <1> QED
    BY <1>3, <1>4

LEMMA DatetimeIsNumeric ==
  ASSUME NEW e \in DatetimeFeatures
  PROVE  e \in Column /\ e.kind = "number" /\ e.distinct # 0
  <1>1. {1, Several} \subseteq Nat /\ {FALSE} \subseteq BOOLEAN
    BY DEF Several
  <1>2. e \in Column
    BY <1>1 DEF DatetimeFeatures, Column
  <1>3. e.kind = "number" /\ e.distinct # 0
    BY DEF DatetimeFeatures, Several
  <1> QED
    BY <1>2, <1>3

LEMMA NumberIsNumeric ==
  ASSUME NEW n \in Nat
  PROVE  Number(n) \in Column /\ Number(n).kind = "number" /\ Number(n).distinct = n
  <1>1. Number(n) \in Column
    BY DEF Number, Column
  <1> QED
    BY <1>1 DEF Number

LEMMA FatesAreColumns ==
  ASSUME NEW t \in Table, NEW c \in Column, NEW f \in Fates(t, c)
  PROVE  f \in Column \union {Dropped} /\ (f # Dropped => Ready(f))
  <1>1. PICK d \in Kept(t, c) :
          f \in IF d.distinct = 0 THEN {Dropped}
                ELSE UNION {Finished(e) :
                       e \in IF d.kind = "number" THEN {d}
                             ELSE DatetimeFeatures \union Encodings(d)}
    BY DEF Fates
  <1>2. d \in Column
    BY DEF Kept, Column
  <1>3. CASE d.distinct = 0
    BY <1>1, <1>3
  <1>4. ASSUME d.distinct # 0
        PROVE  \E e \in Column : e.kind = "number" /\ e.distinct # 0 /\ f \in Finished(e)
    <2>1. CASE d.kind = "number"
      BY <1>1, <1>2, <1>4, <2>1
    <2>2. CASE d.kind # "number"
      <3>1. PICK e \in DatetimeFeatures \union Encodings(d) : f \in Finished(e)
        BY <1>1, <1>4, <2>2
      <3> SUFFICES e \in Column /\ e.kind = "number" /\ e.distinct # 0
        BY <3>1
      <3>2. CASE e \in DatetimeFeatures
        BY <3>2, DatetimeIsNumeric
      <3>3. CASE e \in Encodings(d)
        <4>1. e \in {Number(1), Number(Several)}
          BY <3>3 DEF Encodings
        <4> QED
          BY <4>1, NumberIsNumeric DEF Several
      <3> QED
        BY <3>1, <3>2, <3>3
    <2> QED
      BY <2>1, <2>2
  <1> QED
    BY <1>3, <1>4, FinishedIsReady

\* What run_model knows after read_csv.
Seen(r, t, task) ==
  [run[r] EXCEPT !.trained = data, !.input = [table |-> t, task |-> task]]

LEMMA CleanedAreTables == CleanedTables \subseteq Table
  <1> SUFFICES ASSUME NEW t \in Tables, NEW u \in CleanDataset(t)
               PROVE  u \in Table
    BY DEF CleanedTables
  <1>1. t \in Table /\ t.target.missing < t.rows
    BY TablesAssumption DEF CleanDataset, Table, Target
  <1> DEFINE fates == [t.features -> UNION {Fates(t, c) : c \in t.features}]
  <1>2. PICK f \in fates :
          /\ \A c \in t.features : f[c] \in Fates(t, c)
          /\ u = [rows     |-> t.rows - t.target.missing,
                  target   |-> [t.target EXCEPT !.missing = 0],
                  features |-> {f[c] : c \in t.features} \ {Dropped}]
    BY <1>1 DEF CleanDataset
  <1>3. ASSUME NEW c \in t.features PROVE f[c] \in Column \union {Dropped}
    BY <1>1, <1>2, FatesAreColumns DEF Table
  <1>4. u.features \subseteq Column
    BY <1>2, <1>3
  <1>5. /\ u \in [rows : Nat, target : Target, features : SUBSET Column]
        /\ u.target.distinct + u.target.missing <= u.rows
    BY <1>1, <1>2, <1>4 DEF Table, Target
  <1> QED
    BY <1>5 DEF Table

LEMMA SeenType ==
  ASSUME TypeOK, NEW r \in Runs, NEW t \in Contents(data), NEW task \in Tasks
  PROVE  Seen(r, t, task) \in Progress
  <1>1. t \in Table
    BY CleanedAreTables, TablesAssumption DEF Contents
  <1>2. [table |-> t, task |-> task] \in Inputs
    BY <1>1 DEF Inputs
  <1>3. run[r] \in Progress /\ data \in Data
    BY DEF TypeOK
  <1> HIDE DEF Inputs
  <1> QED
    BY <1>2, <1>3 DEF Seen, Progress

\* ReadData refuses, or sees a table and accepts it only if it is valid.
LEMMA ReadDataSees ==
  ASSUME NEW r \in Runs, ReadData(r)
  PROVE  \/ \E outcome \in Refused : Refuse(r, run[r], outcome)
         \/ \E t \in Contents(data), task \in Tasks :
              \/ /\ ValidDataset(t, task)
                 /\ Goto(r, [Seen(r, t, task) EXCEPT !.pc = "contract"],
                         <<"data_validated">>)
              \/ Refuse(r, Seen(r, t, task), "rejected")
  <1>1. \A t, requested : requested \in Tasks \union {"auto"} => TaskOf(t, requested) \in Tasks
    BY DEF TaskOf, InferTaskType, Tasks
  <1> QED
    BY <1>1 DEF ReadData, Accepts, Seen

LEMMA ReadDataMoves ==
  ASSUME TypeOK, NEW r \in Runs, ReadData(r)
  PROVE  /\ UNCHANGED <<manifest, served>>
         /\ \E next \in Progress : /\ next.pc \in {"contract", "close"}
                                  /\ run' = [run EXCEPT ![r] = next]
  <1>0. run[r] \in Progress
    BY DEF TypeOK
  <1>1. ASSUME NEW seen \in Progress, NEW outcome \in Refused,
               Refuse(r, seen, outcome)
        PROVE  /\ UNCHANGED <<manifest, served>>
               /\ \E next \in Progress : /\ next.pc \in {"contract", "close"}
                                        /\ run' = [run EXCEPT ![r] = next]
    <2> DEFINE next == [seen EXCEPT !.pc = "close", !.outcome = outcome]
    <2>1. next \in Progress /\ next.pc = "close"
      BY DEF Progress, RunPCs, Outcomes
    <2> QED
      BY <1>1, <2>1 DEF Refuse, Goto
  <1>2. ASSUME NEW t \in Contents(data), NEW task \in Tasks,
               Goto(r, [Seen(r, t, task) EXCEPT !.pc = "contract"],
                    <<"data_validated">>)
        PROVE  /\ UNCHANGED <<manifest, served>>
               /\ \E next \in Progress : /\ next.pc \in {"contract", "close"}
                                        /\ run' = [run EXCEPT ![r] = next]
    <2> DEFINE next == [Seen(r, t, task) EXCEPT !.pc = "contract"]
    <2>1. next \in Progress /\ next.pc = "contract"
      BY SeenType DEF Progress, RunPCs
    <2> QED
      BY <1>2, <2>1 DEF Goto
  <1> QED
    BY <1>0, <1>1, <1>2, ReadDataSees, SeenType DEF Refused

LEMMA EarlySteps ==
  ASSUME IInv, NEW r \in Runs,
         Begin(r) \/ ReadData(r) \/ Contract(r) \/ Train(r) \/ Close(r)
  PROVE  IInv'
  <1> run[r] \in Progress
    BY DEF IInv, TypeOK
  <1>1. CASE Begin(r)
    <2> DEFINE next == [run[r] EXCEPT !.pc = "read"]
    <2>1. next \in Progress /\ next.pc = "read"
      BY DEF Progress, RunPCs
    <2>2. <<"run_started">> \in Seq(Events)
      BY DEF Events
    <2> QED
      BY <1>1, <2>1, <2>2, GotoInv DEF Begin, At, Early
  <1>2. ASSUME NEW outcome \in Refused, NEW seen \in Progress,
               Refuse(r, seen, outcome), run[r].pc \in Early
        PROVE  IInv'
    <2> DEFINE next == [seen EXCEPT !.pc = "close", !.outcome = outcome]
    <2>1. next \in Progress /\ next.pc = "close" /\ next.outcome \in Outcomes
      BY DEF Progress, RunPCs, Outcomes
    <2>2. << >> \in Seq(Events)
      OBVIOUS
    <2> QED
      BY <1>2, <2>1, <2>2, GotoInv DEF Refuse, Early
  <1>3. CASE ReadData(r)
    <2>0. run[r].pc \in Early
      BY <1>3 DEF ReadData, At, Early
    <2>1. CASE \E outcome \in Refused : Refuse(r, run[r], outcome)
      BY <1>2, <2>0, <2>1
    <2>2. ASSUME NEW t \in Contents(data), NEW task \in Tasks,
                 \/ Goto(r, [Seen(r, t, task) EXCEPT !.pc = "contract"],
                         <<"data_validated">>)
                 \/ Refuse(r, Seen(r, t, task), "rejected")
          PROVE  IInv'
      <3>1. Seen(r, t, task) \in Progress
        BY <2>2, SeenType DEF IInv
      <3>2. CASE Goto(r, [Seen(r, t, task) EXCEPT !.pc = "contract"],
                      <<"data_validated">>)
        <4> DEFINE next == [Seen(r, t, task) EXCEPT !.pc = "contract"]
        <4>1. next \in Progress /\ next.pc = "contract"
          BY <3>1 DEF Progress, RunPCs
        <4>2. <<"data_validated">> \in Seq(Events)
          BY DEF Events
        <4> QED
          BY <2>0, <3>2, <4>1, <4>2, GotoInv DEF Early
      <3>3. CASE Refuse(r, Seen(r, t, task), "rejected")
        BY <1>2, <2>0, <3>1, <3>3 DEF Refused
      <3> QED
        BY <2>2, <3>2, <3>3
    <2> QED
      BY <1>3, <2>1, <2>2, ReadDataSees
  <1>4. CASE Contract(r)
    <2>1. CASE Refuse(r, run[r], "failed")
      BY <1>2, <1>4, <2>1 DEF Contract, At, Early, Refused
    <2>2. CASE Goto(r, [run[r] EXCEPT !.pc = "train", !.contract = TRUE],
                    <<"validation_completed">>)
      <3> DEFINE next == [run[r] EXCEPT !.pc = "train", !.contract = TRUE]
      <3>1. next \in Progress /\ next.pc = "train"
        BY DEF Progress, RunPCs
      <3>2. <<"validation_completed">> \in Seq(Events)
        BY DEF Events
      <3> QED
        BY <1>4, <2>2, <3>1, <3>2, GotoInv DEF Contract, At, Early
    <2> QED
      BY <1>4, <2>1, <2>2 DEF Contract
  <1>5. CASE Train(r)
    <2>1. CASE Refuse(r, run[r], "failed")
      BY <1>2, <1>5, <2>1 DEF Train, At, Early, Refused
    <2>2. CASE Goto(r, [run[r] EXCEPT !.pc = "close", !.outcome = "completed"],
                    <<"training_completed">>)
      <3> DEFINE next == [run[r] EXCEPT !.pc = "close", !.outcome = "completed"]
      <3>1. next \in Progress /\ next.pc = "close" /\ next.outcome \in Outcomes
        BY DEF Progress, RunPCs, Outcomes
      <3>2. <<"training_completed">> \in Seq(Events)
        BY DEF Events
      <3> QED
        BY <1>5, <2>2, <3>1, <3>2, GotoInv DEF Train, At, Early
    <2> QED
      BY <1>5, <2>1, <2>2 DEF Train
  <1>6. CASE Close(r)
    <2> DEFINE next == [run[r] EXCEPT !.pc = "write", !.input = NoInput,
                          !.todo = FilesOf(run[r].outcome, run[r].contract)]
    <2>1. run[r].pc = "close" /\ run[r].outcome \in Outcomes
      BY <1>6 DEF Close, At, IInv, RunInv
    <2>2. /\ next \in Progress
          /\ next.pc = "write"
          /\ next.outcome = run[r].outcome
          /\ next.todo = FilesOf(next.outcome, next.contract)
      BY FilesAreArtifacts DEF Progress, RunPCs
    <2>3. <<FinalEvent[run[r].outcome]>> \in Seq(Events)
      BY <2>1, FinalEvents
    <2> QED
      BY <1>6, <2>1, <2>2, <2>3, GotoInv DEF Close, Early
  <1> QED
    BY <1>1, <1>3, <1>4, <1>5, <1>6
-----------------------------------------------------------------------------
LEMMA OpenFileInv ==
  ASSUME IInv, NEW r \in Runs, OpenFile(r)
  PROVE  IInv'
  <1>1. PICK a \in Artifacts :
          NextFile(r, a) /\ file' = [file EXCEPT ![r][a] = "partial"]
    BY DEF OpenFile
  <1>2. run[r].pc = "write" /\ a \in run[r].todo
    BY <1>1 DEF OpenFile, At, NextFile
  <1>3. TypeOK'
    <2>1. "writing" \in RunPCs
      BY DEF RunPCs
    <2>2. run' \in [Runs -> Progress]
      BY <2>1, Moved DEF IInv, OpenFile
    <2>3. file' \in [Runs -> [Artifacts -> {"absent", "partial", "whole"}]]
      BY <1>1 DEF IInv, TypeOK
    <2> QED
      BY <2>2, <2>3 DEF IInv, TypeOK, OpenFile
  <1>4. OthersKept(r)
    BY <1>1 DEF IInv, TypeOK, OpenFile, OthersKept
  <1>5. RunInv(r)'
    <2>1. /\ run'[r] = [run[r] EXCEPT !.pc = "writing"]
          /\ run[r] \in Progress
          /\ \A b \in Artifacts \ {a} : file'[r][b] = file[r][b]
          /\ log' = log /\ manifest' = manifest
      BY <1>1 DEF IInv, TypeOK, OpenFile
    <2>2. /\ run'[r].pc = "writing"
          /\ run'[r].outcome = run[r].outcome
          /\ run'[r].contract = run[r].contract
          /\ run'[r].todo = run[r].todo
          /\ Files(r)' = Files(r)
      BY <2>1 DEF Progress, Files
    <2>3. RunInv(r) /\ log[r] \in Seq(Events)
      BY DEF IInv, TypeOK
    <2>4. Files(r) \subseteq Artifacts
      BY FilesAreArtifacts DEF Files
    <2>5. \E i \in 1 .. Len(log[r]) : log[r][i] = FinalEvent[run[r].outcome]
      BY <1>2, <2>3 DEF RunInv
    <2>6. manifest[r] = NoRecord
      BY <1>2, <2>3 DEF RunInv
    <2> QED
      BY <1>2, <2>1, <2>2, <2>3, <2>4, <2>5, <2>6 DEF RunInv, Early
  <1>6. ASSUME NEW c \in Readers PROVE ReaderInv(c)'
    BY <1>6, ReadersKept DEF IInv, OpenFile
  <1> QED
    BY <1>3, <1>4, <1>5, <1>6, OtherRuns DEF IInv

LEMMA CloseFileInv ==
  ASSUME IInv, NEW r \in Runs, CloseFile(r)
  PROVE  IInv'
  <1>1. PICK a \in Artifacts :
          /\ NextFile(r, a)
          /\ file' = [file EXCEPT ![r][a] = "whole"]
          /\ run'  = [run EXCEPT ![r].pc = "write", ![r].todo = @ \ {a}]
    BY DEF CloseFile
  <1>2. run[r].pc = "writing" /\ a \in run[r].todo
    BY <1>1 DEF CloseFile, At, NextFile
  <1>3. TypeOK'
    <2>1. run' = [run EXCEPT ![r] = [run[r] EXCEPT !.pc = "write",
                                       !.todo = run[r].todo \ {a}]]
      BY <1>1 DEF IInv, TypeOK
    <2>2. "write" \in RunPCs /\ run[r].todo \ {a} \in SUBSET Artifacts
      BY DEF RunPCs, IInv, TypeOK, Progress
    <2>3. file' \in [Runs -> [Artifacts -> {"absent", "partial", "whole"}]]
      BY <1>1 DEF IInv, TypeOK
    <2>4. run' \in [Runs -> Progress]
      BY <2>1, <2>2, Moved DEF IInv
    <2> QED
      BY <2>3, <2>4 DEF IInv, TypeOK, CloseFile
  <1>4. OthersKept(r)
    BY <1>1 DEF IInv, TypeOK, CloseFile, OthersKept
  <1>5. RunInv(r)'
    <2>1. /\ run'[r] = [run[r] EXCEPT !.pc = "write", !.todo = @ \ {a}]
          /\ run[r] \in Progress
      BY <1>1 DEF IInv, TypeOK
    <2>0. /\ file'[r][a] = "whole"
          /\ \A b \in Artifacts \ {a} : file'[r][b] = file[r][b]
          /\ log' = log /\ manifest' = manifest
      BY <1>1 DEF IInv, TypeOK, CloseFile
    <2>2. /\ run'[r].pc = "write"
          /\ run'[r].outcome = run[r].outcome
          /\ run'[r].contract = run[r].contract
          /\ run'[r].todo = run[r].todo \ {a}
          /\ Files(r)' = Files(r)
      BY <2>1 DEF Progress, Files
    <2>3. RunInv(r) /\ log[r] \in Seq(Events)
      BY DEF IInv, TypeOK
    <2>4. Files(r) \subseteq Artifacts
      BY FilesAreArtifacts DEF Files
    <2>5. \E i \in 1 .. Len(log[r]) : log[r][i] = FinalEvent[run[r].outcome]
      BY <1>2, <2>3 DEF RunInv
    <2>6. manifest[r] = NoRecord
      BY <1>2, <2>3 DEF RunInv
    <2> QED
      BY <1>2, <2>0, <2>1, <2>2, <2>3, <2>4, <2>5, <2>6 DEF RunInv, Early
  <1>6. ASSUME NEW c \in Readers PROVE ReaderInv(c)'
    BY <1>6, ReadersKept DEF IInv, CloseFile
  <1> QED
    BY <1>3, <1>4, <1>5, <1>6, OtherRuns DEF IInv

LEMMA BuildManifestInv ==
  ASSUME IInv, NEW r \in Runs, BuildManifest(r)
  PROVE  IInv'
  <1>1. TypeOK'
    <2>1. run' = [run EXCEPT ![r] = [run[r] EXCEPT !.pc = "commit", !.hashed = data]]
      BY DEF BuildManifest, IInv, TypeOK
    <2>2. "commit" \in RunPCs /\ data \in Data
      BY DEF RunPCs, IInv, TypeOK
    <2>3. run' \in [Runs -> Progress]
      BY <2>1, <2>2, Moved DEF IInv
    <2> QED
      BY <2>3 DEF IInv, TypeOK, BuildManifest
  <1>2. OthersKept(r)
    BY DEF IInv, TypeOK, BuildManifest, OthersKept
  <1>3. RunInv(r)'
    <2>1. /\ run[r] \in Progress /\ run[r].pc = "write" /\ run[r].todo = {}
          /\ run'[r] = [run[r] EXCEPT !.pc = "commit", !.hashed = data]
          /\ UNCHANGED <<file, log, manifest>>
      BY DEF IInv, TypeOK, BuildManifest, At
    <2>2. /\ run'[r].pc = "commit"
          /\ run'[r].outcome = run[r].outcome
          /\ Files(r)' = Files(r)
      BY <2>1 DEF Progress, Files
    <2>3. RunInv(r)
      BY DEF IInv
    <2> QED
      BY <2>1, <2>2, <2>3 DEF RunInv, Early
  <1>4. ASSUME NEW c \in Readers PROVE ReaderInv(c)'
    BY <1>4, ReadersKept DEF IInv, BuildManifest
  <1> QED
    BY <1>1, <1>2, <1>3, <1>4, OtherRuns DEF IInv

LEMMA CloseManifestInv ==
  ASSUME IInv, NEW r \in Runs, CloseManifest(r)
  PROVE  IInv'
  <1> DEFINE record == [status |-> run[r].outcome,
                        refs   |-> FilesOf(run[r].outcome, run[r].contract),
                        events |-> log[r], input |-> run[r].hashed]
  <1>1. /\ run[r] \in Progress /\ run[r].pc = "commit"
        /\ run'[r] = [run[r] EXCEPT !.pc = "done"]
        /\ manifest'[r] = record
        /\ UNCHANGED <<file, log>>
    BY DEF IInv, TypeOK, CloseManifest, At
  <1>2. RunInv(r) /\ manifest[r] = NoRecord /\ run[r].outcome \in Outcomes
    BY <1>1 DEF IInv, RunInv
  <1>3. record \in Manifests
    BY <1>1, <1>2, FilesAreArtifacts DEF Manifests, IInv, TypeOK, Progress
  <1>4. TypeOK'
    <2>1. "done" \in RunPCs
      BY DEF RunPCs
    <2>2. run' \in [Runs -> Progress]
      BY <2>1, Moved DEF IInv, CloseManifest
    <2>3. manifest' \in [Runs -> Manifests \union {NoRecord}]
      BY <1>3 DEF IInv, TypeOK, CloseManifest
    <2> QED
      BY <2>2, <2>3 DEF IInv, TypeOK, CloseManifest
  <1>5. OthersKept(r)
    BY DEF IInv, TypeOK, CloseManifest, OthersKept
  <1>6. RunInv(r)'
    <2>1. /\ run'[r].pc = "done"
          /\ run'[r].outcome = run[r].outcome
          /\ Files(r)' = Files(r)
      BY <1>1 DEF Progress, Files
    <2> QED
      BY <1>1, <1>2, <2>1 DEF RunInv, Early, Files
  <1>7. \A q \in Runs : manifest[q] # NoRecord => manifest'[q] = manifest[q]
    BY <1>2, <1>5 DEF OthersKept
  <1>8. ASSUME NEW c \in Readers PROVE ReaderInv(c)'
    BY <1>7, <1>8, ReadersKept DEF IInv, CloseManifest
  <1> QED
    BY <1>4, <1>5, <1>6, <1>8, OtherRuns DEF IInv

LEMMA DieInv ==
  ASSUME IInv, NEW r \in Runs, Die(r)
  PROVE  IInv'
  <1>1. TypeOK'
    <2>1. "dead" \in RunPCs
      BY DEF RunPCs
    <2>2. run' \in [Runs -> Progress]
      BY <2>1, Moved DEF IInv, Die
    <2> QED
      BY <2>2 DEF IInv, TypeOK, Die
  <1>2. OthersKept(r)
    BY DEF IInv, TypeOK, Die, OthersKept
  <1>3. RunInv(r)'
    <2>1. /\ run[r] \in Progress /\ run[r].pc # "done"
          /\ run'[r] = [run[r] EXCEPT !.pc = "dead"]
          /\ UNCHANGED <<file, log, manifest>>
      BY DEF IInv, TypeOK, Die
    <2>2. /\ run'[r].pc = "dead"
          /\ run'[r].outcome = run[r].outcome
          /\ Files(r)' = Files(r)
      BY <2>1 DEF Progress, Files
    <2>3. RunInv(r)
      BY DEF IInv
    <2> QED
      BY <2>1, <2>2, <2>3 DEF RunInv, Early
  <1>4. ASSUME NEW c \in Readers PROVE ReaderInv(c)'
    BY <1>4, ReadersKept DEF IInv, Die
  <1> QED
    BY <1>1, <1>2, <1>3, <1>4, OtherRuns DEF IInv
-----------------------------------------------------------------------------
\* Uploads and readers leave the runs alone.
LEMMA RunsKept ==
  ASSUME NEW r \in Runs, RunInv(r), UNCHANGED <<run, file, log, manifest>>
  PROVE  RunInv(r)'
  BY DEF RunInv, Files

LEMMA UploadInv ==
  ASSUME IInv, NEW u \in Uploads, FindName(u) \/ OpenUpload(u) \/ CloseUpload(u)
  PROVE  IInv'
  <1>1. UNCHANGED <<run, file, log, manifest, reader, served>>
    BY DEF FindName, OpenUpload, CloseUpload
  <1>2. data' \in Data /\ upload' \in [Uploads -> {"new", "free", "open", "done"}]
    <2>1. CASE FindName(u)
      BY <2>1 DEF IInv, TypeOK, FindName
    <2>2. CASE OpenUpload(u)
      BY <2>2 DEF IInv, TypeOK, OpenUpload, Data
    <2>3. CASE CloseUpload(u)
      BY <2>3 DEF IInv, TypeOK, CloseUpload, Data
    <2> QED
      BY <2>1, <2>2, <2>3
  <1>4. TypeOK'
    BY <1>1, <1>2 DEF IInv, TypeOK
  <1>3. ASSUME NEW c \in Readers PROVE ReaderInv(c)'
    BY <1>1, <1>3, ReadersKept DEF IInv
  <1> QED
    BY <1>1, <1>3, <1>4, RunsKept DEF IInv

\* Once its manifest says completed, every file of a run that is read is whole.
LEMMA CompletedIsWhole ==
  ASSUME IInv, NEW r \in Runs, manifest[r].status = "completed",
         NEW a \in ReadFiles
  PROVE  file[r][a] = "whole"
  <1>1. manifest[r] # NoRecord /\ RunInv(r)
    BY DEF NoRecord, IInv
  <1> QED
    BY <1>1, FilesAreArtifacts DEF RunInv, Files

LEMMA ReaderStep ==
  ASSUME IInv, NEW c \in Readers, NEW next \in Requests \union {Idle},
         reader' = [reader EXCEPT ![c] = next],
         UNCHANGED <<data, upload, run, file, log, manifest>>,
         served' \in SUBSET Runs,
         next # Idle => /\ next.pc = "reading" /\ next.missed = {}
                        /\ next.left \in Seq(ReadFiles)
                        /\ manifest[next.run].status = "completed"
  PROVE  IInv'
  <1>1. TypeOK'
    BY DEF IInv, TypeOK
  <1>2. ReaderInv(c)'
    BY DEF IInv, TypeOK, ReaderInv
  <1>3. ASSUME NEW d \in Readers, d # c PROVE ReaderInv(d)'
    BY <1>3, ReadersKept DEF IInv, TypeOK
  <1> QED
    BY <1>1, <1>2, <1>3, RunsKept DEF IInv

LEMMA OpenInv ==
  ASSUME IInv, NEW c \in Readers, NEW r \in Runs, NEW kind \in Kinds,
         Open(c, r, kind)
  PROVE  IInv'
  <1> DEFINE next == [pc |-> "reading", kind |-> kind, run |-> r,
                      left |-> Reads[kind], missed |-> {}]
  <1>1. Reads[kind] \in Seq(ReadFiles) /\ Reads[kind] \in Seq(Artifacts)
    <2>1. CASE kind = "predict"
      BY <2>1 DEF Reads, ReadFiles, Artifacts
    <2>2. CASE kind = "list"
      BY <2>2 DEF Reads, ReadFiles, Artifacts
    <2> QED
      BY <2>1, <2>2 DEF Kinds
  <1>2. next \in Requests
    BY <1>1 DEF Requests
  <1>3. served' \in SUBSET Runs
    BY DEF Open, IInv, TypeOK
  <1> QED
    BY <1>1, <1>2, <1>3, ReaderStep DEF Open

LEMMA ReadNextInv ==
  ASSUME IInv, NEW c \in Readers, ReadNext(c)
  PROVE  IInv'
  <1> DEFINE next == [reader[c] EXCEPT !.left = Tail(reader[c].left)]
  <1>1. reader[c] \in Requests /\ reader[c].left # << >> /\ reader[c] # Idle
    BY DEF ReadNext, IInv, TypeOK, Idle, Requests
  <1>2. /\ reader[c].pc = "reading" /\ reader[c].missed = {}
        /\ reader[c].left \in Seq(ReadFiles)
        /\ reader[c].run \in Runs
        /\ manifest[reader[c].run].status = "completed"
    BY <1>1 DEF IInv, ReaderInv, Requests
  <1>3. Head(reader[c].left) \in ReadFiles /\ Tail(reader[c].left) \in Seq(ReadFiles)
    BY <1>1, <1>2
  <1>4. file[reader[c].run][Head(reader[c].left)] = "whole"
    BY <1>2, <1>3, CompletedIsWhole
  <1>5. reader' = [reader EXCEPT ![c] = next]
    BY <1>1, <1>4 DEF ReadNext, Requests
  <1>6. Tail(reader[c].left) \in Seq(Artifacts)
    BY <1>1 DEF Requests
  <1>7. /\ next \in Requests /\ next.pc = "reading" /\ next.missed = {}
        /\ next.left \in Seq(ReadFiles)
        /\ manifest[next.run].status = "completed"
    BY <1>1, <1>2, <1>3, <1>6 DEF Requests
  <1>8. served' \in SUBSET Runs
    BY DEF ReadNext, IInv, TypeOK
  <1> QED
    BY <1>5, <1>7, <1>8, ReaderStep DEF ReadNext

LEMMA ReplyInv ==
  ASSUME IInv, NEW c \in Readers, Reply(c)
  PROVE  IInv'
  <1>1. reader[c] \in Requests
    BY DEF Reply, IInv, TypeOK, Idle
  <1>2. served' \in SUBSET Runs
    BY <1>1 DEF Reply, IInv, TypeOK, Requests
  <1> QED
    BY <1>2, ReaderStep DEF Reply

LEMMA NextIInv == IInv /\ [Next]_vars => IInv'
  <1> SUFFICES ASSUME IInv, [Next]_vars PROVE IInv'
    OBVIOUS
  <1>1. CASE \E u \in Uploads : FindName(u) \/ OpenUpload(u) \/ CloseUpload(u)
    BY <1>1, UploadInv
  <1>2. CASE \E r \in Runs : RunStep(r) \/ Die(r)
    BY <1>2, EarlySteps, OpenFileInv, CloseFileInv, BuildManifestInv,
       CloseManifestInv, DieInv DEF RunStep
  <1>3. CASE \E c \in Readers, r \in Runs, kind \in Kinds : Open(c, r, kind)
    BY <1>3, OpenInv
  <1>4. CASE \E c \in Readers : ReadNext(c) \/ Reply(c)
    BY <1>4, ReadNextInv, ReplyInv
  <1>5. CASE UNCHANGED vars
    <2>1. TypeOK'
      BY <1>5 DEF vars, IInv, TypeOK
    <2>2. ASSUME NEW r \in Runs PROVE RunInv(r)'
      BY <1>5, <2>2, RunsKept DEF vars, IInv
    <2>3. ASSUME NEW c \in Readers PROVE ReaderInv(c)'
      BY <1>5, <2>3, ReadersKept DEF vars, IInv
    <2> QED
      BY <2>1, <2>2, <2>3 DEF IInv
  <1> QED
    BY <1>1, <1>2, <1>3, <1>4, <1>5 DEF Next

\* The strengthened invariant holds of every behaviour.
THEOREM IInvHolds == Spec => []IInv
  BY InitIInv, NextIInv, PTL DEF Spec
-----------------------------------------------------------------------------
\* Every variable of the run store keeps its type.
THEOREM TypeCorrect == Spec => []TypeOK
  <1>1. IInv => TypeOK
    BY DEF IInv
  <1> QED
    BY <1>1, IInvHolds, PTL

\* A manifest that can be read vouches for every file it references and for
\* the event log, however many runs are written at once and wherever they die.
THEOREM ManifestVouches == Spec => []ManifestIsCommit
  <1>1. IInv => ManifestIsCommit
    BY DEF IInv, RunInv, ManifestIsCommit
  <1> QED
    BY <1>1, IInvHolds, PTL

\* No request that found a run completed misses one of its files, for any
\* number of requests and runs.
THEOREM ReadersServed == Spec => []ReadersMissNothing
  <1>1. IInv => ReadersMissNothing
    BY DEF IInv, ReaderInv, ReadersMissNothing
  <1> QED
    BY <1>1, IInvHolds, PTL

\* A model file is only ever left by a run that logged its completion.
THEOREM ModelsAreTrained == Spec => []ModelOnlyIfTrained
  <1>1. ASSUME IInv, NEW r \in Runs, file[r]["model"] # "absent"
        PROVE  \E i \in 1 .. Len(log[r]) : log[r][i] = "run_completed"
    <2>1. /\ "model" \in Files(r)
          /\ \E i \in 1 .. Len(log[r]) : log[r][i] = FinalEvent[run[r].outcome]
      BY <1>1 DEF IInv, RunInv, Artifacts
    <2>2. run[r].outcome = "completed"
      BY <2>1, FilesAreArtifacts DEF Files
    <2> QED
      BY <2>1, <2>2, FinalEvents
  <1>2. IInv => ModelOnlyIfTrained
    BY <1>1 DEF ModelOnlyIfTrained
  <1> QED
    BY <1>2, IInvHolds, PTL
-----------------------------------------------------------------------------
\* What a run knows of its table: that it is valid once it was accepted, and
\* that it is a cleaned one if it came from a cleaned copy.
Knows(p) ==
  /\ p.pc \in {"contract", "train"}
       => p.input \in Inputs /\ ValidDataset(p.input.table, p.input.task)
  /\ p.input # NoInput /\ IsCleaned(p.trained) => p.input.table \in CleanedTables

KInv == \A r \in Runs : Knows(run[r])

LEMMA KnowsKept ==
  ASSUME NEW p, NEW q, Knows(p), q.trained = p.trained,
         q.input = p.input \/ q.input = NoInput,
         q.pc \in {"contract", "train"}
           => p.pc \in {"contract", "train"} /\ q.input = p.input
  PROVE  Knows(q)
  BY DEF Knows

LEMMA ReadDataKnows ==
  ASSUME TypeOK, NEW r \in Runs, Knows(run[r]), ReadData(r)
  PROVE  Knows(run[r])'
  <1>0. run[r] \in Progress /\ run \in [Runs -> Progress]
    BY DEF TypeOK
  <1>1. CASE \E outcome \in Refused : Refuse(r, run[r], outcome)
    <2>1. PICK outcome \in Refused :
            run'[r] = [run[r] EXCEPT !.pc = "close", !.outcome = outcome]
      BY <1>0, <1>1 DEF Refuse, Goto
    <2>2. /\ run'[r].pc = "close" /\ run'[r].input = run[r].input
          /\ run'[r].trained = run[r].trained
      BY <1>0, <2>1 DEF Progress
    <2> QED
      BY <2>2, KnowsKept
  <1>2. ASSUME NEW t \in Contents(data), NEW task \in Tasks,
               \/ /\ ValidDataset(t, task)
                  /\ Goto(r, [Seen(r, t, task) EXCEPT !.pc = "contract"],
                          <<"data_validated">>)
               \/ Refuse(r, Seen(r, t, task), "rejected")
        PROVE  Knows(run[r])'
    <2>1. Seen(r, t, task) \in Progress
      BY SeenType
    <2>2. /\ Seen(r, t, task).input = [table |-> t, task |-> task]
          /\ Seen(r, t, task).trained = data
      BY <1>0 DEF Seen, Progress
    <2>3. IsCleaned(data) => t \in CleanedTables
      BY DEF Contents
    <2>4. CASE Refuse(r, Seen(r, t, task), "rejected")
      <3>1. run'[r] = [Seen(r, t, task) EXCEPT !.pc = "close", !.outcome = "rejected"]
        BY <1>0, <2>4 DEF Refuse, Goto
      <3>2. /\ run'[r].pc = "close" /\ run'[r].trained = data
            /\ run'[r].input = [table |-> t, task |-> task]
        BY <2>1, <2>2, <3>1 DEF Progress
      <3> QED
        BY <2>3, <3>2 DEF Knows
    <2>5. CASE /\ ValidDataset(t, task)
               /\ Goto(r, [Seen(r, t, task) EXCEPT !.pc = "contract"],
                       <<"data_validated">>)
      <3>1. run'[r] = [Seen(r, t, task) EXCEPT !.pc = "contract"]
        BY <1>0, <2>5 DEF Goto
      <3>2. /\ run'[r].trained = data
            /\ run'[r].input = [table |-> t, task |-> task]
        BY <2>1, <2>2, <3>1 DEF Progress
      <3>3. t \in Table
        BY CleanedAreTables, TablesAssumption DEF Contents
      <3>4. [table |-> t, task |-> task] \in Inputs
        BY <3>3 DEF Inputs
      <3> QED
        BY <2>3, <2>5, <3>2, <3>4 DEF Knows
    <2> QED
      BY <1>2, <2>4, <2>5
  <1> QED
    BY <1>1, <1>2, ReadDataSees

\* Every other step of a run leaves what it knows, or forgets it.
LEMMA RunKnows ==
  ASSUME TypeOK, NEW r \in Runs, Knows(run[r]), RunStep(r) \/ Die(r)
  PROVE  Knows(run[r])'
  <1>0. run[r] \in Progress /\ run \in [Runs -> Progress]
    BY DEF TypeOK
  <1>1. CASE ReadData(r)
    BY <1>1, ReadDataKnows
  <1>2. CASE Contract(r)
    <2>1. CASE run'[r] = [run[r] EXCEPT !.pc = "close", !.outcome = "failed"]
      <3>1. /\ run'[r].pc = "close" /\ run'[r].input = run[r].input
            /\ run'[r].trained = run[r].trained
        BY <1>0, <2>1 DEF Progress
      <3> QED
        BY <3>1, KnowsKept
    <2>2. CASE run'[r] = [run[r] EXCEPT !.pc = "train", !.contract = TRUE]
      <3>1. run'[r].input = run[r].input /\ run'[r].trained = run[r].trained
        BY <1>0, <2>2 DEF Progress
      <3> QED
        BY <1>2, <3>1, KnowsKept DEF Contract, At
    <2> QED
      BY <1>0, <1>2, <2>1, <2>2 DEF Contract, Refuse, Goto
  <1>3. CASE Train(r)
    <2>1. PICK outcome :
            run'[r] = [run[r] EXCEPT !.pc = "close", !.outcome = outcome]
      BY <1>0, <1>3 DEF Train, Refuse, Goto
    <2>2. /\ run'[r].pc = "close" /\ run'[r].input = run[r].input
          /\ run'[r].trained = run[r].trained
      BY <1>0, <2>1 DEF Progress
    <2> QED
      BY <2>2, KnowsKept
  <1>4. CASE Close(r)
    <2>1. /\ run'[r].pc = "write" /\ run'[r].input = NoInput
          /\ run'[r].trained = run[r].trained
      BY <1>0, <1>4 DEF Close, Goto, Progress
    <2> QED
      BY <2>1, KnowsKept
  <1>5. CASE Begin(r) \/ OpenFile(r) \/ CloseFile(r) \/ CloseManifest(r) \/ Die(r)
    <2>1. /\ run'[r].pc \notin {"contract", "train"}
          /\ run'[r].input = run[r].input /\ run'[r].trained = run[r].trained
      <3>1. CASE Begin(r)
        BY <1>0, <3>1 DEF Begin, Goto, Progress
      <3>2. CASE OpenFile(r)
        BY <1>0, <3>2 DEF OpenFile, Progress
      <3>3. CASE CloseFile(r)
        BY <1>0, <3>3 DEF CloseFile, Progress
      <3>4. CASE CloseManifest(r) \/ Die(r)
        BY <1>0, <3>4 DEF CloseManifest, Die, Progress
      <3> QED
        BY <1>5, <3>1, <3>2, <3>3, <3>4
    <2> QED
      BY <2>1, KnowsKept
  <1>6. CASE BuildManifest(r)
    <2>1. run'[r] = [run[r] EXCEPT !.pc = "commit", !.hashed = data]
      BY <1>0, <1>6 DEF BuildManifest
    <2>2. /\ run'[r].pc = "commit" /\ run'[r].input = run[r].input
          /\ run'[r].trained = run[r].trained
      BY <1>0, <2>1 DEF Progress
    <2> QED
      BY <2>2, KnowsKept
  <1> QED
    BY <1>1, <1>2, <1>3, <1>4, <1>5, <1>6 DEF RunStep

LEMMA StepKnows == ASSUME IInv, KInv, [Next]_vars PROVE KInv'
  <1>0. run \in [Runs -> Progress]
    BY DEF IInv, TypeOK
  <1>1. ASSUME NEW r \in Runs, RunStep(r) \/ Die(r) PROVE KInv'
    <2>1. \A q \in Runs \ {r} : run'[q] = run[q]
      BY <1>0, <1>1, ReadDataMoves DEF IInv, RunStep, Begin, Contract, Train, Close,
         OpenFile, CloseFile, BuildManifest, CloseManifest, Die, Refuse, Goto
    <2>2. Knows(run[r])'
      BY <1>1, RunKnows DEF KInv, IInv
    <2> QED
      BY <2>1, <2>2 DEF KInv
  <1>2. CASE run' = run
    BY <1>2 DEF KInv
  <1> QED
    BY <1>1, <1>2 DEF Next, vars, FindName, OpenUpload, CloseUpload, Open, ReadNext, Reply

LEMMA KInvHolds == Spec => []KInv
  <1>1. Init => KInv
    BY DEF Init, KInv, Knows
  <1> QED
    BY <1>1, StepKnows, IInvHolds, PTL DEF Spec

\* A table that passed the validation can be split and fitted, whatever its
\* rows and classes (validate.py:151-177, train.py:83-102).
THEOREM AcceptedTrains == Spec => []AcceptedCanTrain
  <1>1. ASSUME NEW t \in Table, NEW task \in Tasks, ValidDataset(t, task)
        PROVE  CanTrain(t, task)
    BY <1>1 DEF Table, Target, Tasks, ValidDataset, CanTrain, CanSplit, CanFit,
       TargetUsable, FeaturesUsable, RegressionTarget, SensibleTarget,
       StratifiedSplitFeasible, TestRows
  <1>2. KInv => AcceptedCanTrain
    BY <1>1 DEF KInv, Knows, Inputs, AcceptedCanTrain
  <1> QED
    BY <1>2, KInvHolds, PTL

\* What a run reads of a whole cleaned copy is what the cleaning promises, for
\* every table and encoding limit (cleaning.py:112-208).
THEOREM CleanedIsPrepared == Spec => []CleanedIsTrainable
  <1>1. ASSUME NEW u \in CleanedTables
        PROVE  /\ u.rows > 0 /\ u.target.kind # "absent" /\ u.target.missing = 0
               /\ \A c \in u.features : Ready(c)
    <2>1. PICK t \in Tables : u \in CleanDataset(t)
      BY DEF CleanedTables
    <2>2. t \in Table /\ t.target.missing < t.rows /\ t.target.kind # "absent"
      BY <2>1, TablesAssumption DEF CleanDataset, Table, Target
    <2>3. PICK f \in [t.features -> UNION {Fates(t, c) : c \in t.features}] :
            /\ \A c \in t.features : f[c] \in Fates(t, c)
            /\ u = [rows     |-> t.rows - t.target.missing,
                    target   |-> [t.target EXCEPT !.missing = 0],
                    features |-> {f[c] : c \in t.features} \ {Dropped}]
      BY <2>1, <2>2 DEF CleanDataset
    <2>4. \A c \in t.features : f[c] # Dropped => Ready(f[c])
      BY <2>2, <2>3, FatesAreColumns DEF Table
    <2>5. \A c \in u.features : Ready(c)
      BY <2>3, <2>4
    <2> QED
      BY <2>2, <2>3, <2>5 DEF Table, Target
  <1>2. KInv => CleanedIsTrainable
    BY <1>1 DEF KInv, Knows, CleanedIsTrainable, Ready
  <1> QED
    BY <1>2, KInvHolds, PTL
-----------------------------------------------------------------------------
\* Where a run is after it got its outcome.
LEMMA Decided ==
  ASSUME NEW p \in Progress, NEW pc, NEW x
  PROVE  [p EXCEPT !.pc = pc, !.outcome = x].pc = pc
  BY DEF Progress

\* Steps that neither begin a run nor write a manifest do not show.
LEMMA Unseen ==
  ASSUME UNCHANGED <<manifest, served>>,
         \A r \in Runs : (run'[r].pc = "new") <=> (run[r].pc = "new")
  PROVE  UNCHANGED <<CatalogStatus, served>>
  BY DEF CatalogStatus, At

LEMMA StepImplementsCatalog ==
  IInv /\ IInv' /\ [Next]_vars => [Catalog!Next]_(Catalog!catalog)
  <1> SUFFICES ASSUME IInv, IInv', [Next]_vars
               PROVE  Catalog!Next \/ UNCHANGED <<CatalogStatus, served>>
    BY DEF Catalog!catalog
  <1>0. run \in [Runs -> Progress] /\ manifest \in [Runs -> Manifests \union {NoRecord}]
    BY DEF IInv, TypeOK
  <1>1. ASSUME NEW r \in Runs, Begin(r) PROVE Catalog!Begin(r)
    <2>1. /\ run[r].pc = "new" /\ run'[r].pc = "read"
          /\ \A q \in Runs \ {r} : run'[q] = run[q]
          /\ UNCHANGED <<manifest, served>>
      BY <1>0, <1>1 DEF Begin, At, Goto, Progress
    <2>2. manifest[r] = NoRecord
      BY <2>1 DEF IInv, RunInv
    <2> QED
      BY <2>1, <2>2 DEF Catalog!Begin, CatalogStatus, At
  <1>2. ASSUME NEW r \in Runs, CloseManifest(r)
        PROVE  Catalog!Commit(r, run[r].outcome) /\ run[r].outcome \in Catalog!Final
    <2>1. /\ run[r].pc = "commit" /\ run'[r].pc = "done"
          /\ \A q \in Runs \ {r} : run'[q] = run[q] /\ manifest'[q] = manifest[q]
          /\ manifest'[r].status = run[r].outcome
          /\ UNCHANGED served
      BY <1>0, <1>2 DEF CloseManifest, At, Progress
    <2>2. manifest[r] = NoRecord /\ run[r].outcome \in Outcomes
      BY <2>1 DEF IInv, RunInv
    <2>3. manifest'[r] # NoRecord
      BY <2>1, <2>2 DEF NoRecord, Outcomes, Refused
    <2> QED
      BY <2>1, <2>2, <2>3
      DEF Catalog!Commit, Catalog!Final, CatalogStatus, At, Outcomes, Refused
  <1>3. ASSUME NEW r \in Runs,
               \/ ReadData(r) \/ Contract(r) \/ Train(r) \/ Close(r)
               \/ OpenFile(r) \/ CloseFile(r) \/ BuildManifest(r) \/ Die(r)
        PROVE  UNCHANGED <<CatalogStatus, served>>
    <2>1. UNCHANGED <<manifest, served>>
      BY <1>3, ReadDataMoves DEF IInv, Contract, Train, Close, OpenFile, CloseFile,
         BuildManifest, Die, Refuse, Goto
    <2>2. \A q \in Runs \ {r} : run'[q] = run[q]
      BY <1>0, <1>3, ReadDataMoves DEF IInv, Contract, Train, Close, OpenFile,
         CloseFile, BuildManifest, Die, Refuse, Goto
    <2>3. run[r].pc # "new"
      BY <1>3 DEF ReadData, Contract, Train, Close, OpenFile, CloseFile,
         BuildManifest, Die, At
    <2>4. run'[r].pc # "new"
      <3>1. CASE ReadData(r)
        BY <1>0, <3>1, ReadDataMoves DEF IInv
      <3>2. CASE Contract(r)
        <4>1. \/ run'[r] = [run[r] EXCEPT !.pc = "close", !.outcome = "failed"]
              \/ run'[r] = [run[r] EXCEPT !.pc = "train", !.contract = TRUE]
          BY <1>0, <3>2 DEF Contract, Refuse, Goto
        <4>2. run[r] \in Progress
          BY <1>0
        <4>3. CASE run'[r] = [run[r] EXCEPT !.pc = "close", !.outcome = "failed"]
          BY <4>2, <4>3, Decided
        <4>4. CASE run'[r] = [run[r] EXCEPT !.pc = "train", !.contract = TRUE]
          BY <4>2, <4>4 DEF Progress
        <4> QED
          BY <4>1, <4>3, <4>4
      <3>3. CASE Train(r)
        <4>1. \E outcome : run'[r] = [run[r] EXCEPT !.pc = "close", !.outcome = outcome]
          BY <1>0, <3>3 DEF Train, Refuse, Goto
        <4> QED
          BY <1>0, <4>1, Decided
      <3>4. CASE Close(r)
        BY <1>0, <3>4 DEF Close, Goto, Progress
      <3>5. CASE OpenFile(r) \/ CloseFile(r)
        BY <1>0, <3>5 DEF OpenFile, CloseFile, Progress
      <3>6. CASE BuildManifest(r) \/ Die(r)
        BY <1>0, <3>6 DEF BuildManifest, Die, Progress
      <3> QED
        BY <1>3, <3>1, <3>2, <3>3, <3>4, <3>5, <3>6
    <2> QED
      BY <2>1, <2>2, <2>3, <2>4, Unseen
  <1>4. ASSUME NEW c \in Readers, Reply(c)
        PROVE  Catalog!Next \/ UNCHANGED <<CatalogStatus, served>>
    <2>1. UNCHANGED CatalogStatus
      BY <1>4 DEF Reply, CatalogStatus, At
    <2>2. CASE served' = served
      BY <2>1, <2>2
    <2>3. CASE served' # served
      <3>1. /\ reader[c] # Idle
            /\ served' = served \union {reader[c].run}
        BY <1>4, <2>3 DEF Reply, Idle
      <3>2. reader[c].run \in Runs /\ manifest[reader[c].run].status = "completed"
        BY <3>1 DEF IInv, TypeOK, ReaderInv, Requests
      <3>3. CatalogStatus[reader[c].run] = "completed"
        BY <3>2 DEF CatalogStatus, NoRecord
      <3> QED
        BY <2>1, <3>1, <3>2, <3>3 DEF Catalog!Next, Catalog!Serve
    <2> QED
      BY <2>2, <2>3
  <1>5. ASSUME \/ UNCHANGED vars
               \/ \E u \in Uploads : FindName(u) \/ OpenUpload(u) \/ CloseUpload(u)
               \/ \E c \in Readers, r \in Runs, kind \in Kinds : Open(c, r, kind)
               \/ \E c \in Readers : ReadNext(c)
        PROVE  UNCHANGED <<CatalogStatus, served>>
    BY <1>5 DEF vars, FindName, OpenUpload, CloseUpload, Open, ReadNext,
       CatalogStatus, At
  <1> QED
    BY <1>1, <1>2, <1>3, <1>4, <1>5 DEF Next, RunStep, Catalog!Next

\* The run store implements the catalog: runs turn up in one step, keep their
\* status, and are served only if they completed.
THEOREM ImplementsCatalog == Spec => CatalogSpec
  <1>1. Init => Catalog!Init
    BY DEF Init, Catalog!Init, CatalogStatus, At, NoRecord
  <1>2. IInv /\ IInv' /\ [Next]_vars => [Catalog!Next]_(Catalog!catalog)
    BY StepImplementsCatalog
  <1> QED
    BY <1>1, <1>2, IInvHolds, PTL DEF Spec, CatalogSpec, Catalog!Spec
=============================================================================
