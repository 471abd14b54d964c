---------------------------- MODULE MCContextStore ----------------------------
(* Two processes that write the database, two appends to the log of one event *)
(* that may say different things each time, one reader. A query matches the   *)
(* summary s1 by prefix and s2 as a substring only; redaction makes s2 of raw. *)
EXTENDS ContextStore, TLC

CONSTANTS s1, s2, raw, shared, private, unsupported, odd

MCSafe == [summary : {s1, s2, raw}, rest : {shared}]
MCContents == MCSafe \cup [summary : {s1}, rest : {private, unsupported, odd}]
MCPrefix == [summary : {s1}, rest : {shared, private}]
MCSubstring == {c \in MCContents : c.summary # raw /\ c.rest \in {shared, private}}
MCRedacted == [s \in {s1, s2} |-> s] @@ raw :> s2
Alike == Permutations(Procs)
=============================================================================
