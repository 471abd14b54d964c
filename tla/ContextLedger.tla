---------------------------- MODULE ContextLedger ----------------------------
(* What the context store promises (thelab/context): every event has at most  *)
(* one entry, an entry appears in one step with its tags and its place in the *)
(* index, and neither changes nor disappears.                                 *)
EXTENDS Naturals

CONSTANTS Events, Contents, None

VARIABLE entries

Init == entries = [e \in Events |-> None]

(* The first content of an event is the one that stays.                       *)
Record(e, c) == /\ entries[e] = None
                /\ entries' = [entries EXCEPT ![e] = c]

Next == \E e \in Events, c \in Contents : Record(e, c)

Spec == Init /\ [][Next]_entries
=============================================================================
