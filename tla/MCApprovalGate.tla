--------------------------- MODULE MCApprovalGate ---------------------------
(***************************************************************************)
(* Two requests at a time over one proposal.  A flow reads and writes the  *)
(* files of its own proposal only, so that a second one adds no behaviour  *)
(* but the product of the two.  The workers are interchangeable, and every *)
(* property is one of states or of steps.                                  *)
(***************************************************************************)
EXTENDS ApprovalGate, TLC

Symmetry == Permutations(Workers)
=============================================================================
