----------------------------- MODULE BatchConfig -----------------------------
(* From what a model answers to the entries that are trained: the caps on an  *)
(* answer (ide/agentic_round.py), the validators of a proposal and its        *)
(* translation into a batch (agents/worker.py, run/model_registry.py).        *)
(*                                                                            *)
(* A selection has a set of models, a number of seeds and a grid: a function  *)
(* from parameter names to how many values each has. Entries carry a value,   *)
(* by its place in the list, for each parameter their estimator knows.        *)
EXTENDS Naturals, FiniteSets, Sequences

CONSTANTS Known,       \* the models of the registry
          TaskModels,  \* those that fit the task of the round
          Params,      \* model -> the parameters of its constructor
          ModelKeyed,  \* parameter names that are model names, with dicts as values
          MaxValues    \* bound: values one parameter can have in an answer

ASSUME RegistryAssumption == TaskModels \subseteq Known /\ DOMAIN Params = Known
ASSUME ValuesAssumption == MaxValues \in Nat \ {0}

(* What the JSON of an answer can be once its fields were read: finitely many  *)
(* of everything.                                                              *)
IsAnswer(a) ==
  /\ DOMAIN a = {"models", "seeds", "grid"}
  /\ IsFiniteSet(a.models) /\ a.seeds \in Nat
  /\ IsFiniteSet(DOMAIN a.grid) /\ a.grid \in [DOMAIN a.grid -> 0 .. MaxValues]

AtMost(n, most) == IF n < most THEN n ELSE most
AtLeastOne(n) == IF n = 0 THEN 1 ELSE n

(* The first n members, in whatever order the answer had them.                *)
First(S, n) == {T \in SUBSET S : Cardinality(T) = AtMost(Cardinality(S), n)}

(* Mutant of Cap: each list is capped, their product is not.                  *)
CapEachList(answer) ==
  {[models |-> models, seeds |-> AtMost(AtLeastOne(answer.seeds), 3),
    grid |-> [k \in keys |-> AtMost(answer.grid[k], 4)]] :
     models \in First(answer.models, 3), keys \in First(DOMAIN answer.grid, 2)}

(* The caps on a model's answer: 3 models, 3 seeds, 2 parameters whose lists  *)
(* share 4 combinations. No seed is read as one seed.                         *)
Cap(answer) ==
  {[models |-> models, seeds |-> AtMost(AtLeastOne(answer.seeds), 3),
    grid |-> [k \in keys |->
                AtMost(answer.grid[k], 4 \div AtLeastOne(Cardinality(keys)))]] :
     models \in First(answer.models, 3), keys \in First(DOMAIN answer.grid, 2)}

Combinations(grid) ==
  {values \in [DOMAIN grid -> 1 .. MaxValues] : \A k \in DOMAIN grid : values[k] <= grid[k]}

(* The validators of ExperimentProposal.                                      *)
Accepts(p) ==
  /\ p.models \subseteq Known /\ Cardinality(p.models) <= 4
  /\ p.seeds <= 3
  /\ \A k \in DOMAIN p.grid \cap ModelKeyed : p.grid[k] = 0
  /\ Cardinality(Combinations([k \in DOMAIN p.grid |-> AtLeastOne(p.grid[k])])) <= 4

(* What a worker makes of an answer before the validators see it: there is no *)
(* cap, and no seed stands for the default one.                               *)
Normalize(answer) ==
  [answer EXCEPT !.models = @ \cap Known, !.seeds = AtLeastOne(@)]

(* The deterministic recommendation: the three best of the models that        *)
(* completed the dry run, ranked by the metric of the task.                   *)
Recommend(ranked) == {ranked[i] : i \in 1 .. AtMost(Len(ranked), 3)}

(* The part of the shared grid that the constructor of a model knows.         *)
Kept(p, m) == [k \in DOMAIN p.grid \cap Params[m] |-> p.grid[k]]

(* An empty list empties the product, which then stands for no parameters.    *)
Parameters(p, m) ==
  LET all == Combinations(Kept(p, m)) IN IF all = {} THEN {<<>>} ELSE all

Entries(p) ==
  UNION {{[model |-> m, seed |-> s, parameters |-> values] :
            s \in 1 .. p.seeds, values \in Parameters(p, m)} : m \in p.models}

(* Mutant of Notes: only what no model knows is noted.                        *)
NotesOfUnknown(p) ==
  {x \in p.models \X DOMAIN p.grid : \A n \in p.models : x[2] \notin Params[n]}

(* What was dropped for want of a constructor parameter, beside the batch.    *)
Notes(p) == UNION {{<<m, k>> : k \in DOMAIN p.grid \ Params[m]} : m \in p.models}

MaxEntries == 48

(* ProposalStore.write_batch_config                                           *)
Batch(p) ==
  [entries |-> IF Cardinality(Entries(p)) <= MaxEntries THEN Entries(p)
               ELSE CHOOSE some \in First(Entries(p), MaxEntries) : TRUE,
   notes |-> Notes(p), truncated |-> Cardinality(Entries(p)) > MaxEntries]
=============================================================================
