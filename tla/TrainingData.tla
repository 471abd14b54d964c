---------------------------- MODULE TrainingData ----------------------------
(***************************************************************************)
(* What the cleaning (thelab/ide/cleaning.py) makes of a table, what the   *)
(* validation of the factory (thelab/run/validate.py) accepts, and what    *)
(* the training (thelab/run/train.py) needs of it.                         *)
(*                                                                         *)
(* A column is what these three tell apart: whether pandas takes it for    *)
(* numeric, how many distinct values it has, and whether some are missing  *)
(* or infinite.  Of numbers, two distinct values stand for two or more.    *)
(* Boolean features are text (select_dtypes does not count them among the  *)
(* numbers), a boolean target is a number (is_numeric_dtype does).         *)
(***************************************************************************)
EXTENDS Naturals, FiniteSets

CONSTANT OneHotMax   \* text of more distinct values is frequency-encoded

Several == 2

Column == [kind : {"number", "text"}, distinct : Nat,
           missing : BOOLEAN, infinite : BOOLEAN]

\* smallest: rows of the smallest class; missing: rows without a target.
Target == [kind : {"number", "text", "absent"}, distinct : Nat, missing : Nat,
           infinite : BOOLEAN, smallest : Nat]

Table == {t \in [rows : Nat, target : Target, features : SUBSET Column] :
            t.target.distinct + t.target.missing <= t.rows}

Tasks == {"classification", "regression"}
-----------------------------------------------------------------------------
(* clean_dataset, with every step switched on. *)

Number(n) == [kind |-> "number", distinct |-> n, missing |-> FALSE,
              infinite |-> FALSE]
Dropped   == [kind |-> "none"]

\* Rows without a target are dropped, and their values with them.
Kept(t, c) ==
  IF t.target.missing = 0 THEN {c}
  ELSE {d \in [kind : {c.kind}, distinct : 0 .. c.distinct,
               missing : BOOLEAN, infinite : BOOLEAN] :
          /\ d.missing => c.missing
          /\ d.infinite => c.infinite
          /\ d.distinct = 0 => d.missing /\ ~d.infinite}

\* _datetime_features: the calendar components, each of which may be constant;
\* what does not parse is missing.
DatetimeFeatures ==
  [kind : {"number"}, distinct : {1, Several}, missing : BOOLEAN,
   infinite : {FALSE}]

\* Missing text is filled with the mode or a word of its own, then encoded: one
\* column per value, or the frequencies, which may all be the same.
Encodings(c) ==
  UNION {IF n > OneHotMax THEN {Number(1), Number(Several)}
         ELSE IF n > 1    THEN {Number(Several)}
         ELSE {Number(1)} :
           n \in c.distinct .. c.distinct + (IF c.missing THEN 1 ELSE 0)}

\* Median, mean or 0; of opposite infinities there is no median or mean.
Imputed(c) ==
  IF ~c.missing THEN {c}
  ELSE {d \in [kind : {"number"}, distinct : {c.distinct, Several},
               missing : BOOLEAN, infinite : BOOLEAN] :
          /\ d.infinite <=> c.infinite
          /\ d.missing => c.infinite /\ c.distinct > 1}

\* nunique counts a missing value as one here.
Constant(c) == c.distinct + (IF c.missing THEN 1 ELSE 0) <= 1

\* Mutant of Finished: constant columns are dropped before the imputation.
FinishedEarly(c) == IF Constant(c) THEN {Dropped} ELSE Imputed(c)

Finished(c) == {IF Constant(d) THEN Dropped ELSE d : d \in Imputed(c)}

\* What may become of a column; empty ones are dropped first. Whether text
\* reads as dates depends on its first values.
Fates(t, c) ==
  UNION {IF d.distinct = 0 THEN {Dropped}
         ELSE UNION {Finished(e) :
           e \in IF d.kind = "number" THEN {d}
                 ELSE DatetimeFeatures \union Encodings(d)} :
           d \in Kept(t, c)}

\* The cleaned copies there may be of a table; none without a target.
CleanDataset(t) ==
  IF t.target.kind = "absent" \/ t.rows <= t.target.missing THEN {}
  ELSE {[rows     |-> t.rows - t.target.missing,
         target   |-> [t.target EXCEPT !.missing = 0],
         features |-> {fate[c] : c \in t.features} \ {Dropped}] :
          fate \in {f \in [t.features -> UNION {Fates(t, c) : c \in t.features}] :
                      \A c \in t.features : f[c] \in Fates(t, c)}}
-----------------------------------------------------------------------------
(* infer_task_type and validate_dataset, one operator per group of checks. *)

InferTaskType(t) ==
  IF t.target.kind = "number" /\ t.target.distinct > 20
  THEN "regression" ELSE "classification"

TargetUsable(t) ==
  /\ t.target.kind # "absent"
  /\ t.rows > 0
  /\ t.target.missing = 0
  /\ ~t.target.infinite

\* Duplicate columns never get this far (profile.py:13-25).
FeaturesUsable(t) ==
  /\ t.features # {}
  /\ \A c \in t.features :
       c.kind = "number" /\ ~c.missing /\ ~c.infinite /\ c.distinct > 1

RegressionTarget(t, task) ==
  task = "regression" => t.target.kind = "number" /\ t.target.distinct > 1

SensibleTarget(t, task) ==
  /\ t.target.distinct >= 2
  /\ task = "classification" =>
       t.target.distinct <= 10 \/ t.target.distinct <= t.rows \div 2

\* math.ceil(0.2 * n)
TestRows(n) == (n + 4) \div 5

\* Mutant of StratifiedSplitFeasible: only the classes are looked at.
SplitByClasses(t, task) ==
  task = "classification" => t.target.distinct >= 2 /\ t.target.smallest >= 2

StratifiedSplitFeasible(t, task) ==
  task = "classification" =>
    /\ t.target.distinct >= 2
    /\ t.target.smallest >= 2
    /\ t.target.distinct <= TestRows(t.rows)
    /\ t.target.distinct <= t.rows - TestRows(t.rows)

ValidDataset(t, task) ==
  /\ TargetUsable(t)
  /\ FeaturesUsable(t)
  /\ RegressionTarget(t, task)
  /\ SensibleTarget(t, task)
  /\ StratifiedSplitFeasible(t, task)
-----------------------------------------------------------------------------
(* What train_and_evaluate needs so that no step of it raises. *)

\* train_test_split: both parts have rows, and of every class when it
\* stratifies.
CanSplit(t, task) ==
  LET test == TestRows(t.rows)
  IN  /\ test > 0 /\ t.rows - test > 0
      /\ task = "classification" =>
           /\ t.target.smallest >= 2
           /\ t.target.distinct <= test
           /\ t.target.distinct <= t.rows - test

\* StandardScaler and the estimators: finite numbers; a regressor, a target of
\* that kind.
CanFit(t, task) ==
  /\ t.features # {}
  /\ \A c \in t.features : c.kind = "number" /\ ~c.missing /\ ~c.infinite
  /\ t.target.missing = 0 /\ ~t.target.infinite
  /\ task = "regression" => t.target.kind = "number"

CanTrain(t, task) == CanSplit(t, task) /\ CanFit(t, task)
=============================================================================
