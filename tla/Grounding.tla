------------------------------ MODULE Grounding ------------------------------
(***************************************************************************)
(* thelab/agents/grounding.py: what an answer cites and what it claims.    *)
(* A text is a sequence of sentences; a sentence may cite a run and may    *)
(* claim a value of a metric.  The keys of METRIC_KEYS are looked for one  *)
(* by one and never meet, so that one of them stands for all; two values   *)
(* are equal when they are within METRIC_TOLERANCE.                        *)
(***************************************************************************)
EXTENDS Naturals, Sequences

CONSTANTS Runs,      \* run ids that may be cited
          Values,    \* values of the metric
          NoRun,     \* a sentence that cites no run
          NoClaim,   \* a sentence without a value; a run without the metric
          Metric,    \* run -> what its metrics.json says
          Sentences, \* the sentences a provider writes
          MaxText    \* bound: sentences of a text

ASSUME GroundingAssumption ==
  /\ NoRun \notin Runs /\ NoClaim \notin Values
  /\ Metric \in [Runs -> Values \union {NoClaim}]
  /\ Sentences \subseteq [run   : Runs \union {NoRun},
                          claim : Values \union {NoClaim}]
  /\ MaxText \in Nat \ {0}

Texts == UNION {[1 .. n -> Sentences] : n \in 1 .. MaxText}

\* extract_run_ids
Cited(text) == {text[i].run : i \in DOMAIN text} \ {NoRun}

\* extract_metric_claims: re.search takes the first match of the key.
FirstClaim(text) ==
  LET claims(i) == text[i].claim # NoClaim
  IN  IF \E i \in DOMAIN text : claims(i)
      THEN text[CHOOSE i \in DOMAIN text :
                  claims(i) /\ \A j \in DOMAIN text : claims(j) => i <= j].claim
      ELSE NoClaim

\* metric_mismatches: the claim is held against any one run's metrics.
Contradicts(text, run) ==
  NoClaim \notin {FirstClaim(text), Metric[run]} /\ FirstClaim(text) # Metric[run]

\* What both surfaces let pass, given the runs that have a manifest and those
\* whose metrics could not be read: these are passed over.
PassesCheck(text, readable, passedOver) ==
  /\ Cited(text) \subseteq readable
  /\ \A run \in Cited(text) \ passedOver : ~Contradicts(text, run)
=============================================================================
