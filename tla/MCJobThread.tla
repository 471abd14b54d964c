----------------------------- MODULE MCJobThread -----------------------------
(***************************************************************************)
(* Two clients, two entries and one cancellation.  The queues hold the     *)
(* events of the job with its entries' twice, and overflow when it is      *)
(* cancelled as well.                                                      *)
(***************************************************************************)
EXTENDS JobThread
=============================================================================
