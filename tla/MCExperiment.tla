---------------------------- MODULE MCExperiment ----------------------------
(***************************************************************************)
(* The experiment and two more jobs, iterations or executions of its       *)
(* round, each called for while the one before may be on.                  *)
(***************************************************************************)
EXTENDS Experiment
=============================================================================
