--------------------------- MODULE ApprovalLedger ---------------------------
(***************************************************************************)
(* What the proposal store promises to the rest of the lab, whichever      *)
(* endpoint, command or agent is at work: decisions about a proposal are   *)
(* only ever added, and nothing is trained for a proposal that nobody      *)
(* approved.  ApprovalGate implements this specification.                  *)
(***************************************************************************)
CONSTANT Proposals

VARIABLES approved,   \* proposals with an approval record
          rejected,   \* proposals with a rejection record
          executed    \* proposals some batch entry was trained for

ledger == <<approved, rejected, executed>>

Init ==
  /\ approved = {}
  /\ rejected = {}
  /\ executed = {}

Approve(p) ==
  /\ approved' = approved \union {p}
  /\ UNCHANGED <<rejected, executed>>

Reject(p) ==
  /\ rejected' = rejected \union {p}
  /\ UNCHANGED <<approved, executed>>

Execute(p) ==
  /\ p \in approved
  /\ executed' = executed \union {p}
  /\ UNCHANGED <<approved, rejected>>

Next == \E p \in Proposals : Approve(p) \/ Reject(p) \/ Execute(p)

Spec == Init /\ [][Next]_ledger
=============================================================================
