------------------------------ MODULE MCRatchet ------------------------------
(* Two sessions and three runs of the script between them, one of which may   *)
(* be killed.                                                                 *)
EXTENDS Ratchet

CONSTANTS s1, s2
=============================================================================
