---------------------------- MODULE MCAgenticRound ----------------------------
(* Two rounds of an experiment in one server that dies once, and an upload.   *)
(* The answers lie at the caps, beyond them and below; a1 and a2 share one of *)
(* their parameters. A worker's provider may name the proposal of r2.         *)
EXTENDS AgenticRound, TLC

CONSTANTS r1, r2, a1, a2, b1, unknown

MCKnown == {a1, a2, b1}
MCTask == {a1, a2}
MCParams == a1 :> {"x", "y"} @@ a2 :> {"x", "z"} @@ b1 :> {}
MCModelKeyed == {"w"}

Rich    == [models |-> {a1, a2, unknown}, seeds |-> 4, grid |-> [k \in {"x", "y"} |-> 3]]
Foreign == [models |-> {b1}, seeds |-> 1, grid |-> [k \in {"w"} |-> 2]]
Plain   == [models |-> {a1, a2}, seeds |-> 3, grid |-> <<>>]

MCAnswers == r1 :> {Rich, Foreign} @@ r2 :> {Plain}
MCRanked == <<a1, a2>>
=============================================================================
