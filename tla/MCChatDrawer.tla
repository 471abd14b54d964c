---------------------------- MODULE MCChatDrawer -----------------------------
(***************************************************************************)
(* Two runs, of which one has the metric; answers of two sentences, which  *)
(* claim the right value, a wrong one, none, or one without a run; a tool  *)
(* both surfaces have, one of the chat, and one that neither knows; two    *)
(* turns of two calls, so that a call can come again in the same turn and  *)
(* in the next; one retry.                                                 *)
(***************************************************************************)
EXTENDS ChatDrawer
CONSTANTS r1, r2, v1, v2, analyse, propose, other
MCMetric == [r \in Runs |-> IF r = r1 THEN v1 ELSE NoClaim]
MCSentences == {[run |-> r1, claim |-> v1], [run |-> r1, claim |-> v2],
                [run |-> r2, claim |-> NoClaim], [run |-> NoRun, claim |-> v2]}
MCRegistry == [s \in {"harness", "chat"} |->
                 IF s = "chat" THEN {analyse, propose} ELSE {analyse}]
=============================================================================
