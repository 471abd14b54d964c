----------------------------- MODULE MCRunStore -----------------------------
(***************************************************************************)
(* One run against two readers and two uploads of one name, the second of  *)
(* which cleans.  Runs write to directories of their own: a second one     *)
(* adds the product of the two.                                            *)
(***************************************************************************)
EXTENDS RunStore

Num(n, missing, infinite) ==
  [kind |-> "number", distinct |-> n, missing |-> missing, infinite |-> infinite]
Text(n, missing) ==
  [kind |-> "text", distinct |-> n, missing |-> missing, infinite |-> FALSE]

Good  == Num(2, FALSE, FALSE)
Words == {Good, Text(2, TRUE)}
Mixed == {Text(1, TRUE), Text(4, FALSE), Num(1, TRUE, FALSE), Num(2, TRUE, TRUE),
          Num(0, TRUE, FALSE)}

\* Classes of a target, its rows, those without one, and the smallest class.
Labels(classes, missing, smallest) ==
  [kind |-> "text", distinct |-> classes, missing |-> missing,
   infinite |-> FALSE, smallest |-> smallest]
Values(n, infinite) ==
  [kind |-> "number", distinct |-> n, missing |-> 0, infinite |-> infinite,
   smallest |-> 1]
Tab(rows, target, features) ==
  [rows |-> rows, target |-> target, features |-> features]

\* A header alone; 2 classes of 2, 5 and 6 rows; 3 and 4 classes whose test
\* split has room for 2 and for 4; a rare class; many classes; numbers.
MCTables == {
  Tab(0,  Labels(0, 0, 0),   {Good}),
  Tab(9,  Labels(2, 0, 4),   {Good}),
  Tab(10, Labels(2, 0, 5),   {}),
  Tab(9,  Labels(2, 3, 2),   Words),
  Tab(10, Labels(3, 0, 3),   {Good}),
  Tab(11, Labels(3, 0, 3),   {Good}),
  Tab(20, Labels(4, 0, 5),   {Good}),
  Tab(20, Labels(2, 1, 1),   {Good}),
  Tab(30, Labels(11, 0, 2),  {Good}),
  Tab(20, Labels(11, 0, 1),  {Good}),
  Tab(12, Labels(2, 0, 4),   Mixed),
  Tab(12, Labels(2, 2, 4),   {Num(2, TRUE, TRUE), Text(4, TRUE)}),
  Tab(4,  Labels(1, 0, 4),   {Good}),
  Tab(3,  Labels(0, 3, 0),   {Good}),
  Tab(30, Values(21, FALSE), {Good}),
  Tab(30, Values(21, TRUE),  {Good}),
  Tab(30, Values(20, FALSE), {Good}),
  Tab(3,  Values(2, FALSE),  {Good}),
  Tab(9, [Labels(2, 0, 4) EXCEPT !.kind = "absent"], {Good})}

MCModels == {[task |-> "classification", limit |-> 25],
             [task |-> "regression", limit |-> 0]}
=============================================================================
