----------------------------- MODULE MCJobStream -----------------------------
(***************************************************************************)
(* Two clients; a queue holds the longest run of the job's own events and  *)
(* one acknowledged cancellation, and two more cancellations overflow it.  *)
(***************************************************************************)
EXTENDS JobStream
=============================================================================
