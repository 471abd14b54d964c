----------------------------- MODULE RunCatalog -----------------------------
(***************************************************************************)
(* What the run store promises to those who list runs and predict with     *)
(* them: a run turns up at once, with its final status, which it keeps;    *)
(* only a completed one is served.  RunStore implements this.              *)
(***************************************************************************)
CONSTANT Runs

VARIABLES status,  \* r -> "none", "open", or the final status of the run
          served   \* runs a prediction was made with

catalog == <<status, served>>

Final == {"completed", "rejected", "failed"}

Init ==
  /\ status = [r \in Runs |-> "none"]
  /\ served = {}

Begin(r) ==
  /\ status[r] = "none"
  /\ status' = [status EXCEPT ![r] = "open"]
  /\ UNCHANGED served

Commit(r, s) ==
  /\ status[r] = "open"
  /\ status' = [status EXCEPT ![r] = s]
  /\ UNCHANGED served

Serve(r) ==
  /\ status[r] = "completed"
  /\ served' = served \union {r}
  /\ UNCHANGED status

Next == \E r \in Runs : Begin(r) \/ Serve(r) \/ \E s \in Final : Commit(r, s)

Spec == Init /\ [][Next]_catalog
=============================================================================
