------------------------------- MODULE Sandbox -------------------------------
(* One run of generated code in a child process (thelab/sandbox): the child   *)
(* checks the syntax tree, executes the code in a workspace of its own, and   *)
(* copies what the code left there to a directory of the parent before it     *)
(* answers. The parent waits up to a deadline and then kills it, whatever it  *)
(* is doing; limits may end it at any point as well.                          *)
EXTENDS Naturals

CONSTANTS Artifacts,  \* what the code may leave as its result
          Nothing

VARIABLE child

Ended == {"completed", "failed", "rejected", "timeout", "error"}
NoChild == [pc |-> "none", left |-> Nothing, spilled |-> Nothing, status |-> "none"]

SandboxInit == child = NoChild

(* run_in_sandbox: the request is sent, the inputs are copied.                *)
RunInSandbox == child' = [NoChild EXCEPT !.pc = "check"]

(* A node, name or import the policy blocks, or code that does not parse.     *)
CheckCode ==
  /\ child.pc = "check"
  /\ \/ child' = [child EXCEPT !.pc = "execute"]
     \/ child' = [child EXCEPT !.pc = "answer", !.status = "rejected"]

(* The code may leave anything, before it fails even; what has an extension   *)
(* of the policy is collected.                                                *)
Collected == Artifacts \cup {Nothing}

(* It runs with the builtins and imports that are allowed.                    *)
Execute ==
  /\ child.pc = "execute"
  /\ \E left \in Collected, status \in {"completed", "failed"} :
       child' = [child EXCEPT !.pc = "spill", !.left = left, !.status = status]

(* What code that failed has left is copied as well.                          *)
Spill ==
  /\ child.pc = "spill"
  /\ child' = [child EXCEPT !.pc = "answer", !.spilled = child.left]

Answer ==
  /\ child.pc = "answer"
  /\ child' = [child EXCEPT !.pc = child.status]

(* Mutant of Kill: only code that failed is killed.                           *)
KillOnError(status) ==
  /\ child.pc \in {"check", "execute", "spill", "answer"}
  /\ status = "error"
  /\ child' = [child EXCEPT !.pc = status]

(* The deadline, or an exit code other than 0. What was copied stays there.   *)
Kill(status) ==
  /\ child.pc \in {"check", "execute", "spill", "answer"}
  /\ child' = [child EXCEPT !.pc = status]

Child == CheckCode \/ Execute \/ Spill \/ Answer \/ Kill("timeout") \/ Kill("error")

ChildType == [pc : Ended \cup {"none", "check", "execute", "spill", "answer"},
              left : Collected, spilled : Collected,
              status : {"none", "completed", "failed", "rejected"}]
=============================================================================
