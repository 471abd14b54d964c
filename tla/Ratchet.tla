------------------------------- MODULE Ratchet -------------------------------
(* The ratchet loop (scripts/ratchet_loop.py): sessions of a script that beat *)
(* a deterministic baseline with agentic rounds, replay the best of them, and *)
(* note the generation in the ledger of the dataset. Sessions are processes;  *)
(* nothing keeps two of them from running at the same time. The factory       *)
(* (try_all_models, run_model) is what it does for the loop: it completes     *)
(* with a score, or fails, and need not do the same again.                    *)
EXTENDS Naturals, FiniteSetsExt, SequencesExt

CONSTANTS Sessions,   \* processes of the script, all for one dataset
          Scores,     \* values of the primary metric
          Task,       \* "classification" or "regression"
          Rounds,     \* rounds of a generation, over all its cells
          None,
          Empty,      \* a ledger file that was opened to be written
          Torn,       \* one with a part of a ledger in it, or of two
          MaxStarts,  \* bound: how often a session is started
          MaxCrashes  \* bound: how often one is killed

(* Scores are only compared, and there are finitely many of a given precision. *)
ASSUME ScoresAssumption == Scores \subseteq Nat /\ IsFiniteSet(Scores)
ASSUME RoundsAssumption == Rounds \in Nat
ASSUME FilesAssumption  == None \notin {Empty, Torn} /\ None \notin Seq(Nat)
ASSUME BoundsAssumption == MaxStarts \in Nat /\ MaxCrashes \in Nat

VARIABLES present,  \* whether the dataset file of the registry exists
          ledger,   \* the ledger file: None, broken, or its generations
          session,  \* process -> what its run of main holds
          starts, crashes,
          saved,    \* history: generations that were written to the ledger
          unseen    \* history: those written while another session held an older ledger

vars == <<present, ledger, session, starts, crashes, saved, unseen>>

(* The registry names the file; what is analysed is that file or a cleaned    *)
(* one, and the transform of a round may engineer a third.                    *)
Data == {"named", "cleaned", "engineered"}

Idle == [pc |-> "idle", ledger |-> <<>>, data |-> None, base |-> None,
         played |-> 0, rounds |-> {}, entry |-> None]
Over(pc) == [Idle EXCEPT !.pc = pc]

Init == /\ present \in BOOLEAN
        /\ ledger = None
        /\ session = [p \in Sessions |-> Idle]
        /\ starts = 0 /\ crashes = 0
        /\ saved = {} /\ unseen = {}

Set(p, state) == session' = [session EXCEPT ![p] = state]
Only(p) == UNCHANGED <<present, ledger, starts, crashes, saved, unseen>>

(* Another session that will write a ledger without what is written now.      *)
Holding == {"prepare", "baseline", "round", "replay", "truncate", "write"}

-----------------------------------------------------------------------------
(* main: a missing file ends the run, even when it has just been ingested.    *)
Start(p) ==
  /\ session[p].pc \in {"idle", "done", "failed", "killed"}
  /\ starts < MaxStarts /\ starts' = starts + 1
  /\ \E ingested \in {FALSE, ~present} :
       /\ present' = (present \/ ingested)
       /\ Set(p, Over(IF present THEN "load" ELSE "failed"))
  /\ UNCHANGED <<ledger, crashes, saved, unseen>>

Broken == {Empty, Torn}

(* Mutant of LoadLedger: a broken ledger is replaced by a new one.            *)
LoadOrNew(p) ==
  /\ session[p].pc = "load"
  /\ Set(p, [Over("prepare") EXCEPT !.ledger = IF ledger \in {None} \cup Broken
                                              THEN <<>> ELSE ledger])
  /\ Only(p)

(* Mutant of LoadLedger: the session waits for a whole ledger.                *)
LoadWhenWhole(p) ==
  /\ session[p].pc = "load" /\ ledger \notin Broken
  /\ Set(p, [Over("prepare") EXCEPT !.ledger = IF ledger = None THEN <<>> ELSE ledger])
  /\ Only(p)

(* load_ledger: no file is a ledger without generations, a broken one raises. *)
LoadLedger(p) ==
  /\ session[p].pc = "load"
  /\ Set(p, IF ledger \in Broken THEN Over("failed")
            ELSE [Over("prepare") EXCEPT !.ledger = IF ledger = None THEN <<>> ELSE ledger])
  /\ Only(p)

Error == [kind |-> "error", base |-> None, won |-> None, replay |-> None, champion |-> None]
Close(state, entry) == [Over("truncate") EXCEPT !.ledger = state.ledger, !.entry = entry]

(* _prepare_dataset: the cleaned file, the named one when cleaning refuses,   *)
(* or none when cleaning returns no id.                                       *)
PrepareDataset(p) ==
  /\ session[p].pc = "prepare"
  /\ \E data \in {"named", "cleaned", None} :
       Set(p, IF data = None THEN Close(session[p], Error)
              ELSE [session[p] EXCEPT !.pc = "baseline", !.data = data])
  /\ Only(p)

(* pick_baseline: the bar is the best of the models that completed, if any.   *)
Bar(completed) == IF completed = {} THEN None ELSE Max(completed)

TryAllModels(p) ==
  /\ session[p].pc = "baseline"
  /\ \E completed \in SUBSET Scores :
       Set(p, IF Bar(completed) = None THEN Close(session[p], Error)
              ELSE [session[p] EXCEPT !.pc = "round", !.base = Bar(completed)])
  /\ Only(p)

-----------------------------------------------------------------------------
(* One round of run_cell_rounds: proposed, approved in the name of the loop,  *)
(* and executed. What execute_approved_round calls its best is the best by    *)
(* accuracy: the first of those that completed, where none has an accuracy.   *)
BestOfRound(completed) ==
  IF Task = "classification" THEN {Max(completed)} ELSE completed

(* A round without a proposal or in which nothing completed, or one with a    *)
(* best run. Also noted: whether it is the best of those that completed. A    *)
(* dataset of its own makes a round agentic (agentic_round.py:772-783).       *)
NoRound == [agentic |-> FALSE, best |-> None, data |-> None, top |-> TRUE]
Played(data) ==
  {NoRound} \cup
  UNION {{[agentic |-> a, best |-> best, data |-> d, top |-> best = Max(completed)] :
            best \in BestOfRound(completed),
            a \in BOOLEAN, d \in {data, "engineered"}} : completed \in (SUBSET Scores) \ {{}}}
Possible(data) == {r \in Played(data) : r.data = "engineered" => r.agentic}

(* run_cell_rounds, for all cells: a round without a proposal counts as well. *)
RunCellRounds(p) ==
  /\ session[p].pc = "round"
  /\ IF session[p].played = Rounds THEN Set(p, [session[p] EXCEPT !.pc = "replay"])
     ELSE \E r \in Possible(session[p].data) :
            Set(p, [session[p] EXCEPT !.played = @ + 1, !.rounds = @ \cup {r}])
  /\ Only(p)

(* What a round, the cleaning, the factory or the replay raises is caught by  *)
(* nobody: the session ends, and its generation has no entry in the ledger.   *)
Raise(p) ==
  /\ session[p].pc \in {"prepare", "baseline", "round", "replay"}
  /\ Set(p, Over("failed"))
  /\ Only(p)

(* _best_agentic: the best round among those that were agentic.               *)
BestAgentic(rounds) ==
  LET agentic == {r \in rounds : r.agentic /\ r.best # None} IN
  {r \in agentic : \A s \in agentic : s.best <= r.best}

-----------------------------------------------------------------------------
(* The absorption gate *)

(* Mutant of Absorbed: a tie is absorbed.                                     *)
AbsorbedUnlessWorse(base, best, replay) == best >= base /\ replay # None /\ replay = best

(* absorption_decision: a win on the bar that the replay reproduces.          *)
Absorbed(base, best, replay) == best > base /\ replay # None /\ replay = best

(* _replay_winner runs the factory on what the artifacts of the winner say:   *)
(* the dataset it was trained on. It may fail, or score otherwise.            *)
Replays == Scores \cup {None}

(* The champion that is noted has the dataset of the registry.                *)
Replay(p) ==
  /\ session[p].pc = "replay"
  /\ LET best == BestAgentic(session[p].rounds)  base == session[p].base IN
       IF best = {}
       THEN Set(p, Close(session[p], [Error EXCEPT !.kind = "refused", !.base = base]))
       ELSE \E r \in best, replay \in Replays :
              LET absorbed == Absorbed(base, r.best, replay) IN
              Set(p, Close(session[p],
                [kind |-> IF absorbed THEN "absorbed" ELSE "refused", base |-> base,
                 won |-> r, replay |-> replay,
                 champion |-> IF absorbed THEN [data |-> "named", score |-> r.best] ELSE None]))
  /\ Only(p)

-----------------------------------------------------------------------------
(* save_ledger opens the file, which empties it, and writes from its start    *)
(* what the session has loaded, with its generation. In the ledger a          *)
(* generation is a number, in the order they were written; what it says is in *)
(* the session until then.                                                    *)
Truncate(p) ==
  /\ session[p].pc = "truncate"
  /\ ledger' = Empty
  /\ Set(p, [session[p] EXCEPT !.pc = "write"])
  /\ UNCHANGED <<present, starts, crashes, saved, unseen>>

Generation == Cardinality(saved) + 1

(* main goes on to its end, or stops at an entry with an error.               *)
Outcome(entry) == IF entry.kind = "error" THEN "failed" ELSE "done"

(* Where another session wrote since the file was emptied, a shorter ledger   *)
(* leaves the end of that one behind it.                                      *)
Written(p, generations) ==
  /\ session[p].pc = "write"
  /\ ledger' = generations \/ (ledger # Empty /\ ledger' = Torn)
  /\ saved' = saved \cup {Generation}
  /\ unseen' = IF \E q \in Sessions \ {p} : session[q].pc \in Holding
               THEN unseen \cup {Generation} ELSE unseen
  /\ Set(p, Over(Outcome(session[p].entry)))
  /\ UNCHANGED <<present, starts, crashes>>

SaveAlone(p) == Written(p, <<Generation>>)

SaveLedger(p) == Written(p, Append(session[p].ledger, Generation))

Kill(p) ==
  /\ session[p].pc \in Holding \cup {"load"}
  /\ crashes < MaxCrashes /\ crashes' = crashes + 1
  /\ Set(p, Over("killed"))
  /\ ledger' = ledger \/ (session[p].pc = "write" /\ ledger' = Torn)
  /\ UNCHANGED <<present, starts, saved, unseen>>

Step(p) == \/ LoadLedger(p) \/ PrepareDataset(p) \/ TryAllModels(p)
           \/ RunCellRounds(p) \/ Raise(p) \/ Replay(p)
           \/ Truncate(p) \/ SaveLedger(p)

Next == \E p \in Sessions : Start(p) \/ Step(p) \/ Kill(p)

Spec == Init /\ [][Next]_vars
FairSpec == Spec /\ \A p \in Sessions : WF_vars(Step(p))

-----------------------------------------------------------------------------
(* Properties *)

RoundType == {NoRound} \cup
  [agentic : BOOLEAN, best : Scores, data : Data, top : BOOLEAN]
EntryType ==
  [kind : {"error", "refused", "absorbed"}, base : Scores \cup {None},
   won : RoundType \cup {None}, replay : Scores \cup {None},
   champion : {None} \cup [data : Data, score : Scores]]
IsLedger(l) == l \in Seq(saved)

SessionOK(s) ==
  /\ s.pc \in Holding \cup {"idle", "load", "done", "failed", "killed"}
  /\ IsLedger(s.ledger)
  /\ s.data \in Data \cup {None} /\ s.base \in Scores \cup {None}
  /\ s.played \in 0 .. Rounds /\ s.rounds \subseteq RoundType
  /\ s.entry \in EntryType \cup {None}

(* The types of the state. A session that plays has data, one that saves has  *)
(* what it will save.                                                         *)
TypeOK ==
  /\ present \in BOOLEAN
  /\ ledger \in {None} \cup Broken \/ IsLedger(ledger)
  /\ \A p \in Sessions :
       LET s == session[p] IN
       /\ SessionOK(s)
       /\ s.pc \in {"baseline", "round"} => s.data \in Data
       /\ s.pc \in {"truncate", "write"} => s.entry \in EntryType
  /\ starts \in 0 .. MaxStarts /\ crashes \in 0 .. MaxCrashes
  /\ saved \subseteq Nat /\ unseen \subseteq saved

Entries == {session[p].entry : p \in {q \in Sessions : session[q].entry # None}}

(* A champion that is saved came from a round that was agentic, strictly beat *)
(* the bar of its own generation (which Bar takes to be its best completed    *)
(* deterministic model) and was reproduced by the factory; for a              *)
(* classification it is the best run of its round (ratchet_loop.py:97-147,    *)
(* 297-312, 505-536).                                                         *)
AbsorbedIsVerified ==
  \A e \in Entries : e.kind = "absorbed" =>
    /\ e.won.agentic /\ e.won.best > e.base /\ e.replay = e.won.best
    /\ e.champion.score = e.won.best
    /\ Task = "classification" => e.won.top

(* A generation once written is in every ledger that is whole, unless another *)
(* session had read the ledger before; a session that was killed while it     *)
(* wrote, or one that wrote over another, takes none with it that a later one *)
(* would then replace (ratchet_loop.py:150-162, 441-551).                     *)
LostOnlyToAnotherSession ==
  ledger \notin {None} \cup Broken =>
    saved \ unseen \subseteq Range(ledger)

(* A session that has started comes to its end, whatever its rounds do        *)
(* (ratchet_loop.py:240-294, 427-611).                                        *)
SessionsEnd ==
  \A p \in Sessions : session[p].pc = "load" ~> session[p].pc \in {"done", "failed", "killed"}
=============================================================================
