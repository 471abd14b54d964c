--------------------------- MODULE AgenticRoundProofs --------------------------
(* What a proposal trains on, what a cancelled round leaves, that what is     *)
(* trained was approved, and that a round recorded as degraded is one: for    *)
(* any number of rounds, answers, artifacts and crashes.                      *)
(*                                                                            *)
(* The invariant follows a round's data from the sandbox to the record. It    *)
(* rests on the event loop: from its second stage on a round is alone.        *)
(*                                                                            *)
(* The last part counts: the caps on an answer, the validators of a proposal  *)
(* and the size of a batch agree, and each value asked for is trained or      *)
(* noted. Induction on a finite set is done by a smallest counterexample.     *)
EXTENDS AgenticRound, FiniteSetTheorems, FunctionTheorems, TLAPS

Good(dataset) ==
  \/ dataset = Cleaned
  \/ /\ dataset \in Files
     /\ uploads[dataset] # None
     /\ \/ uploads[dataset].by = "upload"
        \/ uploads[dataset].content \in Valid /\ uploads[dataset].by = "completed"

Degraded == [choice |-> Recommended, dataset |-> Cleaned]

(* Before its proposal is saved, nothing knows of a round.                    *)
Early == {"idle", "analyst", "transform", "code", "sandbox", "persist", "copy",
          "validate", "select", "propose", "cancelled"}
Unknown(r) ==
  /\ proposals[r] = None
  /\ record \notin {None, Torn} => record.round # r
  /\ exec.pc = "store" => exec.base.round # r

(* No proposal trains on it, but for those that may name any dataset.         *)
NoDataset(file) ==
  \A id \in Rounds \ Named : proposals[id] # None =>
    proposals[id].dataset = Cleaned \/ proposals[id].dataset # file

Fits(r, s) ==
  /\ DOMAIN s = DOMAIN NewRound
  /\ s.pc \in Resting \cup Blocking \cup {"analyst"}
  /\ s.pc \in Early => Unknown(r)
  /\ s.pc \in {"code", "sandbox", "persist", "copy", "validate"} => s.dataset = Cleaned
  /\ s.pc \in {"persist", "copy"} => child.pc = "completed"
  /\ s.pc \in {"copy", "validate"} => s.file \in Files /\ NoDataset(s.file)
  /\ s.pc = "validate" =>
       uploads[s.file] # None /\ uploads[s.file].by \in {"completed", "upload"}
  /\ s.pc \in {"select", "propose"} => s.dataset = None \/ Good(s.dataset)
  /\ s.pc = "select" => s.transform = "completed" \/ s.dataset \in {Cleaned, None}
  /\ s.pc = "propose" /\ ~s.agentic => s.selection = Recommended /\ s.dataset \in {Cleaned, None}
  /\ s.pc \in {"gate", "truncate", "write"} /\ ~s.agentic /\ r \notin Named
       => proposals[r] = Degraded

Alone ==
  \A r \in Rounds : round[r].pc \in Blocking =>
    /\ exec.pc = "idle"
    /\ \A q \in Rounds : round[q].pc \in Blocking => q = r

ProposalsInv ==
  \A id \in Rounds : proposals[id] # None =>
    /\ DOMAIN proposals[id] = {"choice", "dataset"}
    /\ id \notin Named => Good(proposals[id].dataset)

ApprovedInv ==
  \A id \in Rounds :
    /\ decision[id] = "none" => approved[id] = None
    /\ decision[id] = "approved" => approved[id] # None
    /\ approved[id] # None /\ id \notin Named => approved[id] = proposals[id]

RecordOK(x) ==
  /\ DOMAIN x = {"round", "agentic", "execution"}
  /\ x.round \in Rounds \cup {None}
  /\ x.round # None /\ ~x.agentic /\ x.round \notin Named => proposals[x.round] = Degraded

ExecInv ==
  /\ DOMAIN exec = DOMAIN NoExec
  /\ exec.pc \in {"config", "train"} => exec.id \in Rounds /\ approved[exec.id] # None
  /\ exec.pc = "train" /\ exec.id \notin Named
       => exec.batch = Batch(approved[exec.id].choice)
  /\ exec.pc = "store" => RecordOK(exec.base)

Shape ==
  /\ DOMAIN round = Rounds /\ DOMAIN uploads = Files /\ DOMAIN proposals = Rounds
  /\ DOMAIN decision = Rounds /\ DOMAIN approved = Rounds
  /\ child \in ChildType

IInv ==
  /\ Shape
  /\ \A r \in Rounds : Fits(r, round[r])
  /\ Alone
  /\ ProposalsInv
  /\ ApprovedInv
  /\ record \notin {None, Torn} => RecordOK(record)
  /\ ExecInv

-----------------------------------------------------------------------------
(* Round records *)

LEMMA OverShape ==
  ASSUME NEW pc
  PROVE  DOMAIN Over(pc) = DOMAIN NewRound /\ Over(pc).pc = pc
  BY DEF Over, NewRound

(* A round that moves while nothing else does.                                *)
LEMMA Moved ==
  ASSUME IInv, NEW r \in Rounds, NEW state, Set(r, state), Fits(r, state),
         state.pc \in Blocking => round[r].pc \in Blocking \/ LoopIsFree(r),
         UNCHANGED <<uploads, record, exec, store, child>>
  PROVE  IInv'
  <1>1. /\ DOMAIN round' = Rounds
        /\ \A q \in Rounds : round'[q] = IF q = r THEN state ELSE round[q]
    BY DEF Set, IInv, Shape
  <1>2. UNCHANGED <<uploads, record, exec, proposals, decision, approved, child>>
    BY DEF store
  <1>3. Shape'
    BY <1>1, <1>2 DEF IInv, Shape
  <1>4. \A q \in Rounds : Fits(q, round[q])'
    BY <1>1, <1>2 DEF IInv, Fits, Unknown, Good, NoDataset
  <1>5. Alone'
    BY <1>1, <1>2 DEF IInv, Alone, LoopIsFree
  <1>6. ProposalsInv' /\ ApprovedInv'
    BY <1>2 DEF IInv, ProposalsInv, ApprovedInv, Good
  <1>7. (record \notin {None, Torn} => RecordOK(record))' /\ ExecInv'
    BY <1>2 DEF IInv, RecordOK, ExecInv
  <1> QED
    BY <1>3, <1>4, <1>5, <1>6, <1>7 DEF IInv

(* A round that is alone: what the others need of the rest.                   *)
LEMMA Others ==
  ASSUME IInv, NEW r \in Rounds, round[r].pc \in Blocking,
         NEW q \in Rounds, q # r, round'[q] = round[q],
         round[q].pc \in Early /\ Unknown(q) => Unknown(q)'
  PROVE  Fits(q, round[q])' /\ round[q].pc \notin Blocking
  <1>1. Fits(q, round[q]) /\ round[q].pc \notin Blocking
    BY DEF IInv, Alone
  <1> QED
    BY <1>1 DEF Fits, Blocking

LEMMA AloneKept ==
  ASSUME IInv, NEW r \in Rounds, round[r].pc \in Blocking, exec' = exec,
         \A q \in Rounds \ {r} : round'[q] = round[q]
  PROVE  Alone'
  BY DEF IInv, Alone

LEMMA GatedOK ==
  ASSUME NEW r \in Rounds, NEW s, NEW state, Fits(r, s), Unknown(r),
         DOMAIN state = DOMAIN NewRound, state.pc \in {"idle", "analyst", "transform", "cancelled"}
  PROVE  Fits(r, state)
  BY DEF Fits, Resting, Blocking, Early

LEMMA EarlyOver ==
  ASSUME NEW r \in Rounds, NEW pc \in {"done", "failed", "raised", "dead"},
         NEW state, DOMAIN state = DOMAIN NewRound, state.pc = pc
  PROVE  Fits(r, state)
  BY DEF Fits, Resting, Early

LEMMA SelectOK ==
  ASSUME NEW r \in Rounds, NEW state, DOMAIN state = DOMAIN NewRound, state.pc = "select",
         Unknown(r), state.dataset \in {Cleaned, None}
  PROVE  Fits(r, state)
  BY DEF Fits, Blocking, Good

LEMMA CodeOK ==
  ASSUME NEW r \in Rounds, NEW state, DOMAIN state = DOMAIN NewRound,
         state.pc \in {"code", "sandbox"}, Unknown(r), state.dataset = Cleaned
  PROVE  Fits(r, state)
  BY DEF Fits, Blocking

LEMMA SkipShape ==
  ASSUME NEW r \in Rounds, DOMAIN round[r] = DOMAIN NewRound, NEW transform
  PROVE  /\ DOMAIN Skip(r, transform) = DOMAIN NewRound /\ Skip(r, transform).pc = "select"
         /\ Skip(r, transform).dataset = round[r].dataset
  BY DEF Skip, NewRound

LEMMA RetryOK ==
  ASSUME IInv, NEW r \in Rounds, round[r].pc \in {"code", "sandbox", "persist", "validate"}
  PROVE  /\ Fits(r, Retry(r)) /\ Retry(r).pc \in {"code", "select"}
  <1>1. /\ DOMAIN round[r] = DOMAIN NewRound /\ Unknown(r) /\ round[r].dataset = Cleaned
    BY DEF IInv, Fits, Early
  <1>2. CASE round[r].attempt = MaxAttempts
    <2> DEFINE state == [Skip(r, "rejected") EXCEPT !.file = None]
    <2>1. /\ DOMAIN state = DOMAIN NewRound /\ state.pc = "select"
          /\ state.dataset = Cleaned /\ Retry(r) = state
      BY <1>1, <1>2, SkipShape DEF NewRound, Retry
    <2> HIDE DEF state
    <2> QED
      BY <1>1, <2>1, SelectOK
  <1>3. CASE round[r].attempt # MaxAttempts
    <2> DEFINE state == [round[r] EXCEPT !.pc = "code", !.attempt = @ + 1, !.file = None]
    <2>1. /\ DOMAIN state = DOMAIN NewRound /\ state.pc = "code"
          /\ state.dataset = Cleaned /\ Retry(r) = state
      BY <1>1, <1>3 DEF NewRound, Retry
    <2> HIDE DEF state
    <2> QED
      BY <1>1, <2>1, CodeOK
  <1> QED
    BY <1>2, <1>3

-----------------------------------------------------------------------------
(* The steps of a round *)

LEMMA StartInv == ASSUME IInv, NEW r \in Rounds, Start(r) PROVE IInv'
  <1>1. /\ UNCHANGED <<uploads, record, exec, store, child>> /\ LoopIsFree(r) /\ Unknown(r)
    BY DEF Start, Only, IInv, Fits, Early
  <1>2. PICK state : /\ Set(r, state) /\ DOMAIN state = DOMAIN NewRound
                     /\ state.pc \in {"cancelled", "analyst"}
    <2>1. CASE Set(r, Over("cancelled"))
      BY <2>1, OverShape
    <2>2. ASSUME NEW provider,
                 Set(r, [NewRound EXCEPT !.pc = "analyst", !.provider = provider])
          PROVE  \E state : /\ Set(r, state) /\ DOMAIN state = DOMAIN NewRound
                            /\ state.pc \in {"cancelled", "analyst"}
      <3>1. /\ DOMAIN [NewRound EXCEPT !.pc = "analyst", !.provider = provider] = DOMAIN NewRound
            /\ [NewRound EXCEPT !.pc = "analyst", !.provider = provider].pc = "analyst"
        BY DEF NewRound
      <3> QED
        BY <2>2, <3>1
    <2> QED
      BY <2>1, <2>2 DEF Start
  <1>3. Fits(r, state)
    BY <1>1, <1>2 DEF Fits, Resting, Blocking, Early
  <1> QED
    BY <1>1, <1>2, <1>3, Moved

LEMMA AnalystInv == ASSUME IInv, NEW r \in Rounds, Analyst(r) PROVE IInv'
  <1>1. /\ UNCHANGED <<uploads, record, exec, store, child>> /\ LoopIsFree(r) /\ Unknown(r)
        /\ DOMAIN round[r] = DOMAIN NewRound
    BY DEF Analyst, Only, IInv, Fits, Early
  <1>2. PICK state : /\ Set(r, state) /\ DOMAIN state = DOMAIN NewRound
                     /\ state.pc \in {"cancelled", "transform"}
    <2>1. CASE Set(r, Over("cancelled"))
      BY <2>1, OverShape
    <2>2. ASSUME NEW brief,
                 Set(r, [round[r] EXCEPT !.brief = brief, !.pc = "transform"])
          PROVE  \E state : /\ Set(r, state) /\ DOMAIN state = DOMAIN NewRound
                            /\ state.pc \in {"cancelled", "transform"}
      <3>1. /\ DOMAIN [round[r] EXCEPT !.brief = brief, !.pc = "transform"] = DOMAIN NewRound
            /\ [round[r] EXCEPT !.brief = brief, !.pc = "transform"].pc = "transform"
        BY <1>1 DEF NewRound
      <3> QED
        BY <2>2, <3>1
    <2> QED
      BY <2>1, <2>2 DEF Analyst
  <1>3. Fits(r, state)
    BY <1>1, <1>2 DEF Fits, Resting, Blocking, Early
  <1> QED
    BY <1>1, <1>2, <1>3, Moved

LEMMA TransformInv == ASSUME IInv, NEW r \in Rounds, Transform(r) PROVE IInv'
  <1>1. /\ UNCHANGED <<uploads, record, exec, store, child>> /\ Unknown(r)
        /\ DOMAIN round[r] = DOMAIN NewRound /\ round[r].pc \in Blocking
    BY DEF Transform, Only, IInv, Fits, Early, Blocking
  <1>2. ASSUME NEW source \in {Cleaned, None}, NEW transform,
               Set(r, [Skip(r, transform) EXCEPT !.dataset = source])
        PROVE  IInv'
    <2> DEFINE state == [Skip(r, transform) EXCEPT !.dataset = source]
    <2>1. /\ DOMAIN state = DOMAIN NewRound /\ state.pc = "select" /\ state.dataset = source
      BY <1>1, SkipShape DEF NewRound
    <2>2. Set(r, state)
      BY <1>2
    <2> HIDE DEF state
    <2>3. Fits(r, state)
      BY <1>1, <2>1, SelectOK
    <2> QED
      BY <1>1, <2>2, <2>3, Moved
  <1>3. CASE Set(r, [round[r] EXCEPT !.pc = "code", !.dataset = Cleaned])
    <2> DEFINE state == [round[r] EXCEPT !.pc = "code", !.dataset = Cleaned]
    <2>1. /\ DOMAIN state = DOMAIN NewRound /\ state.pc = "code" /\ state.dataset = Cleaned
      BY <1>1 DEF NewRound
    <2>2. Set(r, state)
      BY <1>3
    <2> HIDE DEF state
    <2>3. Fits(r, state)
      BY <1>1, <2>1, CodeOK
    <2> QED
      BY <1>1, <2>2, <2>3, Moved
  <1> QED
    BY <1>2, <1>3 DEF Transform

(* A round that keeps the loop, while only the child changes besides it.      *)
LEMMA MovedWithChild ==
  ASSUME IInv, NEW r \in Rounds, NEW state, round[r].pc \in Blocking, Set(r, state),
         Fits(r, state), state.pc \notin {"persist", "copy"}, child' \in ChildType,
         UNCHANGED <<uploads, record, exec, store>>
  PROVE  IInv'
  <1>1. /\ DOMAIN round' = Rounds
        /\ \A q \in Rounds : round'[q] = IF q = r THEN state ELSE round[q]
    BY DEF Set, IInv, Shape
  <1>2. UNCHANGED <<uploads, record, exec, proposals, decision, approved>>
    BY DEF store
  <1>3. Shape'
    BY <1>1, <1>2 DEF IInv, Shape
  <1>4. \A q \in Rounds : Fits(q, round[q])'
    <2>1. Fits(r, round[r])'
      BY <1>1, <1>2 DEF Fits, Unknown, Good, NoDataset
    <2>2. ASSUME NEW q \in Rounds, q # r PROVE Fits(q, round[q])'
      <3>1. round'[q] = round[q] /\ (Unknown(q) => Unknown(q)')
        BY <1>1, <1>2, <2>2 DEF Unknown
      <3> QED
        BY <2>2, <3>1, Others
    <2> QED
      BY <2>1, <2>2
  <1>5. Alone'
    BY <1>1, <1>2, AloneKept
  <1>6. ProposalsInv' /\ ApprovedInv'
    BY <1>2 DEF IInv, ProposalsInv, ApprovedInv, Good
  <1>7. (record \notin {None, Torn} => RecordOK(record))' /\ ExecInv'
    BY <1>2 DEF IInv, RecordOK, ExecInv
  <1> QED
    BY <1>3, <1>4, <1>5, <1>6, <1>7 DEF IInv

LEMMA NoChildOK == NoChild \in ChildType /\ [NoChild EXCEPT !.pc = "check"] \in ChildType
  BY DEF NoChild, ChildType, Ended, Collected

LEMMA CodeInv == ASSUME IInv, NEW r \in Rounds, Code(r) PROVE IInv'
  <1>1. /\ UNCHANGED <<uploads, record, exec, store>> /\ Unknown(r)
        /\ DOMAIN round[r] = DOMAIN NewRound /\ round[r].pc \in Blocking
        /\ round[r].dataset = Cleaned
    BY DEF Code, IInv, Fits, Early, Blocking
  <1>2. ASSUME NEW transform, Set(r, Skip(r, transform)), UNCHANGED child PROVE IInv'
    <2>1. Fits(r, Skip(r, transform))
      BY <1>1, SkipShape, SelectOK
    <2> QED
      BY <1>1, <1>2, <2>1, Moved
  <1>3. CASE Goto(r, "sandbox") /\ RunInSandbox
    <2> DEFINE state == [round[r] EXCEPT !.pc = "sandbox"]
    <2>1. /\ DOMAIN state = DOMAIN NewRound /\ state.pc = "sandbox" /\ state.dataset = Cleaned
      BY <1>1 DEF NewRound
    <2>2. Set(r, state) /\ child' \in ChildType
      BY <1>3, NoChildOK DEF Goto, Set, RunInSandbox
    <2> HIDE DEF state
    <2>3. Fits(r, state) /\ state.pc \notin {"persist", "copy"}
      BY <1>1, <2>1, CodeOK
    <2> QED
      BY <1>1, <2>2, <2>3, MovedWithChild
  <1> QED
    BY <1>2, <1>3 DEF Code

LEMMA AwaitSandboxInv == ASSUME IInv, NEW r \in Rounds, AwaitSandbox(r) PROVE IInv'
  <1>1. /\ UNCHANGED <<uploads, record, exec, store>> /\ Unknown(r)
        /\ DOMAIN round[r] = DOMAIN NewRound /\ round[r].pc = "sandbox"
        /\ round[r].dataset = Cleaned /\ round[r].pc \in Blocking
    BY DEF AwaitSandbox, IInv, Fits, Early, Blocking
  <1>2. CASE child.pc = "completed" /\ Goto(r, "persist") /\ UNCHANGED child
    <2> DEFINE state == [round[r] EXCEPT !.pc = "persist"]
    <2>1. /\ DOMAIN state = DOMAIN NewRound /\ state.pc = "persist" /\ state.dataset = Cleaned
      BY <1>1 DEF NewRound
    <2>2. Set(r, state)
      BY <1>2 DEF Goto, Set
    <2> HIDE DEF state
    <2>3. Fits(r, state)
      BY <1>1, <1>2, <2>1 DEF Fits, Blocking
    <2> QED
      BY <1>1, <1>2, <2>2, <2>3, Moved
  <1>3. CASE Set(r, Retry(r)) /\ child' = NoChild
    <2>1. Fits(r, Retry(r)) /\ Retry(r).pc \notin {"persist", "copy"}
      BY <1>1, RetryOK
    <2> QED
      BY <1>1, <1>3, <2>1, NoChildOK, MovedWithChild
  <1> QED
    BY <1>2, <1>3 DEF AwaitSandbox

(* A name that is free is the dataset of no proposal.                         *)
LEMMA FindNameInv == ASSUME IInv, NEW r \in Rounds, FindName(r) PROVE IInv'
  <1>1. PICK n \in Files :
          uploads[n] = None /\ Set(r, [round[r] EXCEPT !.pc = "copy", !.file = n])
    BY DEF FindName
  <1>2. /\ UNCHANGED <<uploads, record, exec, store, child>>
        /\ round[r].pc = "persist" /\ round[r].pc \in Blocking
    BY DEF FindName, Only, Blocking
  <1>3. /\ DOMAIN round[r] = DOMAIN NewRound /\ Unknown(r) /\ child.pc = "completed"
        /\ round[r].dataset = Cleaned
    BY <1>2 DEF IInv, Fits, Early
  <1> DEFINE state == [round[r] EXCEPT !.pc = "copy", !.file = n]
  <1>4. /\ DOMAIN state = DOMAIN NewRound /\ state.pc = "copy" /\ state.file = n
        /\ state.dataset = Cleaned
    BY <1>3 DEF NewRound
  <1>5. Set(r, state)
    BY <1>1
  <1> HIDE DEF state
  <1>6. NoDataset(n)
    BY <1>1 DEF NoDataset, IInv, ProposalsInv, Good
  <1>7. Fits(r, state)
    BY <1>3, <1>4, <1>6 DEF Fits, Blocking
  <1> QED
    BY <1>2, <1>5, <1>7, Moved

(* What is written is no proposal's dataset, as the name was free.            *)
LEMMA PersistInv == ASSUME IInv, NEW r \in Rounds, Persist(r) PROVE IInv'
  <1>1. PICK n : n = round[r].file
    OBVIOUS
  <1>2. /\ UNCHANGED <<record, exec, proposals, decision, approved>> /\ child' = NoChild
        /\ round[r].pc = "copy" /\ round[r].pc \in Blocking
    BY DEF Persist, store, Blocking
  <1>3. /\ DOMAIN round[r] = DOMAIN NewRound /\ Unknown(r) /\ child.pc = "completed"
        /\ round[r].dataset = Cleaned /\ n \in Files /\ NoDataset(n)
    BY <1>1, <1>2 DEF IInv, Fits, Early
  <1> DEFINE state == [round[r] EXCEPT !.pc = "validate"]
             made == [content |-> child.spilled, by |-> child.pc]
  <1>4. /\ DOMAIN state = DOMAIN NewRound /\ state.pc = "validate" /\ state.file = n
        /\ state.dataset = Cleaned
    BY <1>1, <1>3 DEF NewRound
  <1>5. made # None /\ made.by = "completed"
    <2>1. child.spilled \in Collected /\ "completed" \in Writers
      BY DEF IInv, Shape, ChildType, Ended, Writers
    <2> QED
      BY <1>3, <2>1, NoneAssumption
  <1>6. Set(r, state) /\ uploads' = [uploads EXCEPT ![n] = made]
    BY <1>1 DEF Persist, Goto, Set
  <1> HIDE DEF state, made
  <1>7. /\ DOMAIN round' = Rounds
        /\ \A q \in Rounds : round'[q] = IF q = r THEN state ELSE round[q]
    BY <1>6 DEF Set, IInv, Shape
  <1>8. /\ DOMAIN uploads' = Files
        /\ \A f \in Files : uploads'[f] = IF f = n THEN made ELSE uploads[f]
    BY <1>6 DEF IInv, Shape
  <1>9. Shape'
    BY <1>2, <1>7, <1>8, NoChildOK DEF IInv, Shape
  <1>10. \A dataset : dataset = Cleaned \/ dataset # n => (Good(dataset) => Good(dataset)')
    BY <1>8 DEF Good
  <1>11. ProposalsInv'
    BY <1>2, <1>3, <1>10 DEF IInv, ProposalsInv, NoDataset
  <1>12. Fits(r, round[r])'
    <2>1. uploads'[n] # None /\ uploads'[n].by = "completed"
      BY <1>3, <1>5, <1>8
    <2>2. Unknown(r)' /\ NoDataset(n)'
      BY <1>2, <1>3 DEF Unknown, NoDataset
    <2> QED
      BY <1>3, <1>4, <1>7, <2>1, <2>2 DEF Fits, Blocking
  <1>13. ASSUME NEW q \in Rounds, q # r PROVE Fits(q, round[q])'
    <2>1. round'[q] = round[q] /\ (Unknown(q) => Unknown(q)')
      BY <1>2, <1>7, <1>13 DEF Unknown
    <2> QED
      BY <1>2, <1>13, <2>1, Others
  <1>14. Alone'
    BY <1>2, <1>7, AloneKept
  <1>15. ApprovedInv' /\ (record \notin {None, Torn} => RecordOK(record))' /\ ExecInv'
    BY <1>2 DEF IInv, ApprovedInv, RecordOK, ExecInv
  <1> QED
    BY <1>9, <1>11, <1>12, <1>13, <1>14, <1>15 DEF IInv

LEMMA ValidateInv == ASSUME IInv, NEW r \in Rounds, Validate(r) PROVE IInv'
  <1> DEFINE file == round[r].file
  <1>1. /\ UNCHANGED <<record, exec, store, child>> /\ round[r].pc = "validate"
        /\ round[r].pc \in Blocking
    BY DEF Validate, Blocking
  <1>2. /\ DOMAIN round[r] = DOMAIN NewRound /\ Unknown(r) /\ file \in Files
        /\ uploads[file] # None /\ uploads[file].by \in {"completed", "upload"}
        /\ NoDataset(file)
    BY <1>1 DEF IInv, Fits, Early
  <1>3. CASE /\ uploads[file].content \in Valid /\ UNCHANGED uploads
             /\ Set(r, [round[r] EXCEPT !.pc = "select", !.transform = "completed",
                                        !.dataset = file])
    <2> DEFINE state == [round[r] EXCEPT !.pc = "select", !.transform = "completed",
                                        !.dataset = file]
    <2>1. /\ DOMAIN state = DOMAIN NewRound /\ state.pc = "select"
          /\ state.transform = "completed" /\ state.dataset = file
      BY <1>2 DEF NewRound
    <2>2. Set(r, state)
      BY <1>3
    <2>3. Good(file)
      BY <1>2, <1>3 DEF Good
    <2> HIDE DEF state, file
    <2>4. Fits(r, state)
      BY <1>2, <2>1, <2>3 DEF Fits, Blocking
    <2> QED
      BY <1>1, <1>3, <2>2, <2>4, Moved
  <1>4. CASE Set(r, [Over("raised") EXCEPT !.file = file]) /\ UNCHANGED uploads
    <2> DEFINE state == [Over("raised") EXCEPT !.file = file]
    <2>1. DOMAIN state = DOMAIN NewRound /\ state.pc = "raised"
      BY DEF Over, NewRound
    <2>2. Set(r, state)
      BY <1>4
    <2> HIDE DEF state
    <2>3. Fits(r, state) /\ state.pc \notin Blocking
      BY <2>1, EarlyOver DEF Blocking
    <2> QED
      BY <1>1, <1>4, <2>2, <2>3, Moved
  <1>5. CASE Set(r, Retry(r)) /\ uploads' = [uploads EXCEPT ![file] = None]
    <2>1. PICK state : state = Retry(r) /\ Fits(r, state) /\ state.pc \in {"code", "select"} /\ state.dataset = Cleaned
      <3>1. round[r].dataset = Cleaned
        BY <1>1 DEF IInv, Fits
      <3>2. Retry(r).dataset = Cleaned
        BY <1>2, <3>1, SkipShape DEF Retry, NewRound
      <3> QED
        BY <1>1, <3>2, RetryOK
    <2>2. Set(r, state)
      BY <1>5, <2>1
    <2> HIDE DEF file
    <2>3. /\ DOMAIN round' = Rounds
          /\ \A q \in Rounds : round'[q] = IF q = r THEN state ELSE round[q]
      BY <2>2 DEF Set, IInv, Shape
    <2>4. /\ DOMAIN uploads' = Files
          /\ \A f \in Files : f # file => uploads'[f] = uploads[f]
      BY <1>5 DEF IInv, Shape
    <2>5. UNCHANGED <<record, exec, proposals, decision, approved, child>>
      BY <1>1 DEF store
    <2>6. Shape'
      BY <2>3, <2>4, <2>5 DEF IInv, Shape
    <2>7. ProposalsInv'
      BY <1>2, <2>4, <2>5 DEF IInv, ProposalsInv, Good, NoDataset
    <2>8. Fits(r, round[r])'
      <3>1. state.dataset = Cleaned /\ Good(state.dataset)'
        BY <2>1 DEF Good
      <3>2. Unknown(r)'
        BY <1>2, <2>5 DEF Unknown
      <3> QED
        BY <2>1, <2>3, <3>1, <3>2 DEF Fits
    <2>9. ASSUME NEW q \in Rounds, q # r PROVE Fits(q, round[q])'
      <3>1. round'[q] = round[q] /\ (Unknown(q) => Unknown(q)')
        BY <2>3, <2>5, <2>9 DEF Unknown
      <3> QED
        BY <1>1, <2>9, <3>1, Others
    <2>10. Alone'
      BY <1>1, <2>3, <2>5, AloneKept
    <2>11. ApprovedInv' /\ (record \notin {None, Torn} => RecordOK(record))' /\ ExecInv'
      BY <2>5 DEF IInv, ApprovedInv, RecordOK, ExecInv
    <2> QED
      BY <2>6, <2>7, <2>8, <2>9, <2>10, <2>11 DEF IInv
  <1> QED
    BY <1>3, <1>4, <1>5 DEF Validate

(* Without an answer of a model, the choice is the recommendation; without a  *)
(* transform that completed, the data are the cleaned ones.                   *)
LEMMA SelectInv == ASSUME IInv, NEW r \in Rounds, Select(r) PROVE IInv'
  <1>1. /\ UNCHANGED <<uploads, record, exec, store, child>> /\ round[r].pc = "select"
        /\ round[r].pc \in Blocking
    BY DEF Select, Only, Blocking
  <1>2. /\ Unknown(r) /\ (round[r].dataset = None \/ Good(round[r].dataset))
        /\ round[r].transform = "completed" \/ round[r].dataset \in {Cleaned, None}
    BY <1>1 DEF IInv, Fits, Early
  <1>3. CASE Set(r, Over("cancelled"))
    <2>1. Fits(r, Over("cancelled")) /\ Over("cancelled").pc \notin Blocking
      BY <1>2, OverShape DEF Fits, Resting, Blocking
    <2> QED
      BY <1>1, <1>3, <2>1, Moved
  <1>4. ASSUME NEW s \in Selections(r),
               Set(r, [NewRound EXCEPT !.pc = "propose", !.dataset = round[r].dataset,
                         !.selection = s.choice, !.llm = s.llm, !.agentic = Agentic(r, s.llm)])
        PROVE  IInv'
    <2> DEFINE state == [NewRound EXCEPT !.pc = "propose", !.dataset = round[r].dataset,
                         !.selection = s.choice, !.llm = s.llm, !.agentic = Agentic(r, s.llm)]
    <2>1. /\ DOMAIN state = DOMAIN NewRound /\ state.pc = "propose"
          /\ state.dataset = round[r].dataset /\ state.selection = s.choice
          /\ state.agentic = Agentic(r, s.llm)
      BY DEF NewRound
    <2>2. s.llm \/ s.choice = Recommended
      BY DEF Selections
    <2>3. Set(r, state)
      BY <1>4
    <2> HIDE DEF state
    <2>4. ~state.agentic => state.selection = Recommended /\ state.dataset \in {Cleaned, None}
      BY <1>2, <2>1, <2>2 DEF Agentic
    <2>5. Fits(r, state)
      BY <1>2, <2>1, <2>4 DEF Fits, Blocking
    <2> QED
      BY <1>1, <2>3, <2>5, Moved
  <1>5. CASE Set(r, Over("raised"))
    <2>1. Fits(r, Over("raised")) /\ Over("raised").pc \notin Blocking
      BY OverShape, EarlyOver DEF Blocking
    <2> QED
      BY <1>1, <1>5, <2>1, Moved
  <1> QED
    BY <1>3, <1>4, <1>5 DEF Select

LEMMA ProposeInv == ASSUME IInv, NEW r \in Rounds, Propose(r) PROVE IInv'
  <1>1. /\ UNCHANGED <<uploads, decision, record, exec, approved, child>>
        /\ round[r].pc = "propose" /\ round[r].pc \in Blocking
    BY DEF Propose, Blocking
  <1>2. /\ Unknown(r) /\ (round[r].dataset = None \/ Good(round[r].dataset))
        /\ ~round[r].agentic => /\ round[r].selection = Recommended
                               /\ round[r].dataset \in {Cleaned, None}
    BY <1>1 DEF IInv, Fits, Early
  <1>3. CASE Set(r, Over("failed")) /\ UNCHANGED proposals
    <2>1. Fits(r, Over("failed")) /\ Over("failed").pc \notin Blocking
      BY OverShape, EarlyOver DEF Blocking
    <2> QED
      BY <1>1, <1>3, <2>1, Moved DEF store
  <1>4. ASSUME round[r].dataset # None, NEW choice,
               choice = IF Accepts(round[r].selection) THEN round[r].selection ELSE Recommended,
               proposals' = [proposals EXCEPT ![r] =
                               [choice |-> choice, dataset |-> round[r].dataset]],
               Set(r, [Over("gate") EXCEPT !.agentic = round[r].agentic])
        PROVE  IInv'
    <2> DEFINE state == [Over("gate") EXCEPT !.agentic = round[r].agentic]
               new == [choice |-> choice, dataset |-> round[r].dataset]
    <2>1. /\ DOMAIN state = DOMAIN NewRound /\ state.pc = "gate"
          /\ state.agentic = round[r].agentic
      BY DEF Over, NewRound
    <2>2. /\ DOMAIN new = {"choice", "dataset"} /\ new.dataset = round[r].dataset
          /\ ~round[r].agentic => new = Degraded
      BY <1>2, <1>4 DEF Degraded
    <2>3. Set(r, state) /\ proposals' = [proposals EXCEPT ![r] = new]
      BY <1>4
    <2> HIDE DEF state, new
    <2>4. /\ DOMAIN round' = Rounds /\ DOMAIN proposals' = Rounds
          /\ \A q \in Rounds : round'[q] = IF q = r THEN state ELSE round[q]
          /\ \A q \in Rounds : proposals'[q] = IF q = r THEN new ELSE proposals[q]
      BY <2>3 DEF Set, IInv, Shape
    <2>5. Shape'
      BY <1>1, <2>4 DEF IInv, Shape
    <2>6. ProposalsInv'
      BY <1>1, <1>2, <1>4, <2>2, <2>4 DEF IInv, ProposalsInv, Good
    <2>7. Fits(r, round[r])'
      BY <2>1, <2>2, <2>4 DEF Fits, Blocking, Early
    <2>8. ASSUME NEW q \in Rounds, q # r PROVE Fits(q, round[q])'
      <3>1. round'[q] = round[q] /\ (Unknown(q) => Unknown(q)')
        BY <1>1, <2>4, <2>8 DEF Unknown
      <3> QED
        BY <1>1, <2>8, <3>1, Others
    <2>9. Alone'
      BY <1>1, <2>4, AloneKept
    <2>10. ApprovedInv'
      BY <1>1, <1>2, <2>4 DEF IInv, ApprovedInv, Unknown
    <2>11. (record \notin {None, Torn} => RecordOK(record))'
      BY <1>1, <1>2, <2>4 DEF IInv, RecordOK, Unknown
    <2>12. ExecInv'
      BY <1>1, <1>2, <2>4 DEF IInv, ExecInv, RecordOK, Unknown
    <2> QED
      BY <2>5, <2>6, <2>7, <2>8, <2>9, <2>10, <2>11, <2>12 DEF IInv
  <1> QED
    BY <1>3, <1>4 DEF Propose

LEMMA GateInv == ASSUME IInv, NEW r \in Rounds, Gate(r) PROVE IInv'
  <1>1. /\ UNCHANGED <<uploads, record, exec, store, child>> /\ round[r].pc = "gate"
        /\ round[r].pc \in Blocking /\ Fits(r, round[r])
    BY DEF Gate, Blocking, IInv
  <1>2. PICK status : Set(r, [round[r] EXCEPT !.pc = "truncate", !.status = status])
    BY DEF Gate
  <1> DEFINE state == [round[r] EXCEPT !.pc = "truncate", !.status = status]
  <1>3. /\ DOMAIN state = DOMAIN NewRound /\ state.pc = "truncate"
        /\ state.agentic = round[r].agentic
    BY <1>1 DEF Fits, NewRound
  <1>4. Set(r, state)
    BY <1>2
  <1> HIDE DEF state
  <1>5. Fits(r, state)
    BY <1>1, <1>3 DEF Fits, Blocking, Early
  <1> QED
    BY <1>1, <1>4, <1>5, Moved

LEMMA TruncateInv == ASSUME IInv, NEW r \in Rounds, Truncate(r) PROVE IInv'
  <1>1. /\ UNCHANGED <<uploads, exec, proposals, decision, approved, child>>
        /\ record' = Torn /\ round[r].pc = "truncate" /\ round[r].pc \in Blocking
        /\ Fits(r, round[r])
    BY DEF Truncate, store, Blocking, IInv
  <1> DEFINE state == [round[r] EXCEPT !.pc = "write"]
  <1>2. /\ DOMAIN state = DOMAIN NewRound /\ state.pc = "write"
        /\ state.agentic = round[r].agentic
    BY <1>1 DEF Fits, NewRound
  <1>3. Set(r, state)
    BY DEF Truncate, Goto, Set
  <1> HIDE DEF state
  <1>4. /\ DOMAIN round' = Rounds
        /\ \A q \in Rounds : round'[q] = IF q = r THEN state ELSE round[q]
    BY <1>3 DEF Set, IInv, Shape
  <1>5. Shape'
    BY <1>1, <1>4 DEF IInv, Shape
  <1>6. Fits(r, round[r])'
    BY <1>1, <1>2, <1>4 DEF Fits, Blocking, Early
  <1>7. ASSUME NEW q \in Rounds, q # r PROVE Fits(q, round[q])'
    <2>1. round'[q] = round[q] /\ (Unknown(q) => Unknown(q)')
      BY <1>1, <1>4, <1>7 DEF Unknown
    <2> QED
      BY <1>1, <1>7, <2>1, Others
  <1>8. Alone'
    BY <1>1, <1>4, AloneKept
  <1>9. ProposalsInv' /\ ApprovedInv' /\ ExecInv'
    BY <1>1 DEF IInv, ProposalsInv, ApprovedInv, Good, ExecInv, RecordOK
  <1> QED
    BY <1>1, <1>5, <1>6, <1>7, <1>8, <1>9 DEF IInv

LEMMA WriteInv == ASSUME IInv, NEW r \in Rounds, Write(r) PROVE IInv'
  <1>1. /\ UNCHANGED <<uploads, exec, proposals, decision, approved, child>>
        /\ record' = [round |-> r, agentic |-> round[r].agentic, execution |-> None]
        /\ round[r].pc = "write" /\ round[r].pc \in Blocking /\ Set(r, Over("done"))
        /\ Fits(r, round[r])
    BY DEF Write, store, Blocking, IInv
  <1>2. PICK state : state = Over("done") /\ Fits(r, state)'
    BY OverShape, EarlyOver DEF Fits, Resting, Early
  <1>3. /\ DOMAIN round' = Rounds
        /\ \A q \in Rounds : round'[q] = IF q = r THEN state ELSE round[q]
    BY <1>1, <1>2 DEF Set, IInv, Shape
  <1>4. RecordOK(record)'
    BY <1>1 DEF RecordOK, Fits
  <1>5. Shape'
    BY <1>1, <1>3 DEF IInv, Shape
  <1>6. Fits(r, round[r])'
    BY <1>2, <1>3
  <1>7. ASSUME NEW q \in Rounds, q # r PROVE Fits(q, round[q])'
    <2>1. round'[q] = round[q] /\ (Unknown(q) => Unknown(q)')
      BY <1>1, <1>3, <1>7 DEF Unknown
    <2> QED
      BY <1>1, <1>7, <2>1, Others
  <1>8. Alone'
    BY <1>1, <1>3, AloneKept
  <1>9. ProposalsInv' /\ ApprovedInv' /\ ExecInv'
    BY <1>1 DEF IInv, ProposalsInv, ApprovedInv, Good, ExecInv, RecordOK
  <1> QED
    BY <1>4, <1>5, <1>6, <1>7, <1>8, <1>9 DEF IInv

-----------------------------------------------------------------------------
(* The steps of an execution *)

LEMMA ExecStep ==
  ASSUME IInv, \A q \in Rounds : round[q].pc \notin Blocking,
         UNCHANGED <<round, uploads, store, child>>,
         \A q \in Rounds : Unknown(q) => Unknown(q)',
         (record \notin {None, Torn} => RecordOK(record))', ExecInv'
  PROVE  IInv'
  <1>1. UNCHANGED <<round, uploads, proposals, decision, approved, child>>
    BY DEF store
  <1>2. \A q \in Rounds : Fits(q, round[q])'
    BY <1>1 DEF IInv, Fits, Blocking
  <1>3. Shape' /\ Alone' /\ ProposalsInv' /\ ApprovedInv'
    BY <1>1 DEF IInv, Shape, Alone, ProposalsInv, ApprovedInv, Good
  <1> QED
    BY <1>2, <1>3 DEF IInv

LEMMA ExecuteGateInv == ASSUME IInv, NEW id \in Rounds, ExecuteGate(id) PROVE IInv'
  <1>1. /\ UNCHANGED <<round, uploads, record, store, child>>
        /\ UNCHANGED <<proposals, decision, approved>>
        /\ \A q \in Rounds : round[q].pc \notin Blocking /\ decision[id] = "approved"
    BY DEF ExecuteGate, store
  <1>2. DOMAIN exec' = DOMAIN NoExec /\ exec'.pc = "config" /\ exec'.id = id
    BY DEF ExecuteGate, NoExec
  <1>3. ExecInv'
    BY <1>1, <1>2 DEF IInv, ApprovedInv, ExecInv
  <1>4. \A q \in Rounds : Unknown(q) => Unknown(q)'
    BY <1>1, <1>2 DEF Unknown
  <1>5. (record \notin {None, Torn} => RecordOK(record))'
    BY <1>1 DEF IInv, RecordOK
  <1> QED
    BY <1>1, <1>3, <1>4, <1>5, ExecStep

LEMMA ExecuteConfigInv == ASSUME IInv, ExecuteConfig PROVE IInv'
  <1>1. /\ UNCHANGED <<round, uploads, record, store, child>>
        /\ UNCHANGED <<proposals, decision, approved>>
        /\ exec.pc = "config" /\ \A q \in Rounds : round[q].pc \notin Blocking
    BY DEF ExecuteConfig, store, IInv, Alone
  <1>2. /\ DOMAIN exec' = DOMAIN NoExec /\ exec'.pc = "train" /\ exec'.id = exec.id
        /\ exec'.batch = Batch(proposals[exec.id].choice)
    BY DEF ExecuteConfig, IInv, ExecInv, NoExec
  <1>3. ExecInv'
    BY <1>1, <1>2 DEF IInv, ApprovedInv, ExecInv
  <1>4. \A q \in Rounds : Unknown(q) => Unknown(q)'
    BY <1>1, <1>2 DEF Unknown
  <1>5. (record \notin {None, Torn} => RecordOK(record))'
    BY <1>1 DEF IInv, RecordOK
  <1> QED
    BY <1>1, <1>3, <1>4, <1>5, ExecStep

LEMMA ExecuteTrainInv == ASSUME IInv, ExecuteTrain PROVE IInv'
  <1>1. /\ UNCHANGED <<round, uploads, record, store, child>>
        /\ UNCHANGED <<proposals, decision, approved>>
        /\ exec.pc = "train" /\ \A q \in Rounds : round[q].pc \notin Blocking
    BY DEF ExecuteTrain, store, IInv, Alone
  <1>2. DOMAIN exec' = DOMAIN NoExec /\ exec'.pc = "load"
    BY DEF ExecuteTrain, IInv, ExecInv, NoExec
  <1>3. ExecInv'
    BY <1>2 DEF ExecInv
  <1>4. \A q \in Rounds : Unknown(q) => Unknown(q)'
    BY <1>1, <1>2 DEF Unknown
  <1>5. (record \notin {None, Torn} => RecordOK(record))'
    BY <1>1 DEF IInv, RecordOK
  <1> QED
    BY <1>1, <1>3, <1>4, <1>5, ExecStep

LEMMA ExecuteLoadInv == ASSUME IInv, ExecuteLoad PROVE IInv'
  <1> DEFINE base == IF record \in {None, Torn} THEN NoRecord ELSE record
  <1>1. /\ UNCHANGED <<round, uploads, store, child>> /\ record' = Torn
        /\ UNCHANGED <<proposals, decision, approved>>
        /\ exec.pc = "load" /\ \A q \in Rounds : round[q].pc \notin Blocking
    BY DEF ExecuteLoad, store, IInv, Alone
  <1>2. DOMAIN exec' = DOMAIN NoExec /\ exec'.pc = "store" /\ exec'.base = base
    BY DEF ExecuteLoad, IInv, ExecInv, NoExec
  <1>3. /\ DOMAIN NoRecord = {"round", "agentic", "execution"} /\ NoRecord.round = None
    BY DEF NoRecord
  <1>4. RecordOK(base)
    BY <1>3 DEF IInv, RecordOK
  <1>5. \A q \in Rounds : Unknown(q) => base.round # q
    BY <1>3, NoneAssumption DEF Unknown
  <1> HIDE DEF base
  <1>6. ExecInv'
    BY <1>1, <1>2, <1>4 DEF ExecInv, RecordOK
  <1>7. \A q \in Rounds : Unknown(q) => Unknown(q)'
    BY <1>1, <1>2, <1>5 DEF Unknown
  <1> QED
    BY <1>1, <1>6, <1>7, ExecStep

LEMMA ExecuteStoreInv == ASSUME IInv, ExecuteStore PROVE IInv'
  <1>1. /\ UNCHANGED <<round, uploads, store, child>> /\ exec' = NoExec
        /\ UNCHANGED <<proposals, decision, approved>>
        /\ exec.pc = "store" /\ \A q \in Rounds : round[q].pc \notin Blocking
        /\ RecordOK(exec.base)
    BY DEF ExecuteStore, store, IInv, Alone, ExecInv
  <1>2. NoExec.pc = "idle"
    BY DEF NoExec
  <1>3. /\ DOMAIN record' = {"round", "agentic", "execution"}
        /\ record'.round = exec.base.round /\ record'.agentic = exec.base.agentic
    BY <1>1 DEF ExecuteStore, RecordOK
  <1>4. RecordOK(record)'
    BY <1>1, <1>3 DEF RecordOK
  <1>5. ExecInv'
    BY <1>1, <1>2 DEF ExecInv
  <1>6. \A q \in Rounds : Unknown(q) => Unknown(q)'
    BY <1>1, <1>2, <1>3 DEF Unknown
  <1> QED
    BY <1>1, <1>4, <1>5, <1>6, ExecStep

-----------------------------------------------------------------------------
(* People, workers, the sandbox, and a crash *)

LEMMA ApproveInv == ASSUME IInv, NEW id \in Rounds, Approve(id) PROVE IInv'
  <1>1. /\ UNCHANGED <<round, uploads, proposals, record, exec, child>>
        /\ proposals[id] # None /\ decision[id] = "none" /\ approved[id] = None
        /\ DOMAIN decision' = Rounds /\ DOMAIN approved' = Rounds
        /\ \A q \in Rounds : decision'[q] = IF q = id THEN "approved" ELSE decision[q]
        /\ \A q \in Rounds : approved'[q] = IF q = id THEN proposals[id] ELSE approved[q]
    BY DEF Approve, IInv, Shape, ApprovedInv
  <1>2. Shape' /\ Alone' /\ ProposalsInv'
    BY <1>1 DEF IInv, Shape, Alone, ProposalsInv, Good
  <1>3. \A q \in Rounds : Fits(q, round[q])'
    BY <1>1 DEF IInv, Fits, Unknown, Good, NoDataset
  <1>4. ApprovedInv'
    BY <1>1 DEF IInv, ApprovedInv
  <1>5. (record \notin {None, Torn} => RecordOK(record))' /\ ExecInv'
    BY <1>1 DEF IInv, RecordOK, ExecInv
  <1> QED
    BY <1>2, <1>3, <1>4, <1>5 DEF IInv

LEMMA RejectInv == ASSUME IInv, NEW id \in Rounds, Reject(id) PROVE IInv'
  <1>1. /\ UNCHANGED <<round, uploads, proposals, record, exec, approved, child>>
        /\ DOMAIN decision' = Rounds
        /\ \A q \in Rounds : decision'[q] = IF q = id THEN "rejected" ELSE decision[q]
    BY DEF Reject, IInv, Shape
  <1>2. Shape' /\ Alone' /\ ProposalsInv'
    BY <1>1 DEF IInv, Shape, Alone, ProposalsInv, Good
  <1>3. \A q \in Rounds : Fits(q, round[q])'
    BY <1>1 DEF IInv, Fits, Unknown, Good, NoDataset
  <1>4. ApprovedInv'
    BY <1>1 DEF IInv, ApprovedInv
  <1>5. (record \notin {None, Torn} => RecordOK(record))' /\ ExecInv'
    BY <1>1 DEF IInv, RecordOK, ExecInv
  <1> QED
    BY <1>2, <1>3, <1>4, <1>5 DEF IInv

LEMMA WorkerSavesInv == ASSUME IInv, NEW id \in Rounds, WorkerSaves(id) PROVE IInv'
  <1>1. PICK choice, dataset :
          proposals' = [proposals EXCEPT ![id] = [choice |-> choice, dataset |-> dataset]]
    BY DEF WorkerSaves
  <1>2. /\ UNCHANGED <<round, uploads, decision, record, exec, approved, child>>
        /\ id \in Named /\ proposals[id] # None
    BY DEF WorkerSaves
  <1>3. /\ DOMAIN proposals' = Rounds
        /\ \A q \in Rounds : q # id => proposals'[q] = proposals[q]
        /\ DOMAIN proposals'[id] = {"choice", "dataset"}
    BY <1>1 DEF IInv, Shape
  <1>4. Shape' /\ Alone'
    BY <1>2, <1>3 DEF IInv, Shape, Alone
  <1>5. ProposalsInv'
    BY <1>2, <1>3 DEF IInv, ProposalsInv, Good
  <1>6. \A q \in Rounds : Unknown(q) => Unknown(q)'
    BY <1>2, <1>3 DEF Unknown
  <1>7. \A q \in Rounds : Fits(q, round[q])'
    BY <1>2, <1>3, <1>6 DEF IInv, Fits, Good, NoDataset
  <1>8. ApprovedInv'
    BY <1>2, <1>3 DEF IInv, ApprovedInv
  <1>9. (record \notin {None, Torn} => RecordOK(record))' /\ ExecInv'
    BY <1>2, <1>3 DEF IInv, RecordOK, ExecInv
  <1> QED
    BY <1>4, <1>5, <1>7, <1>8, <1>9 DEF IInv

(* An upload writes over a file, which is then no longer a round's.           *)
LEMMA SaveUploadInv == ASSUME IInv, NEW u \in Uploaders, SaveUpload(u) PROVE IInv'
  <1>1. /\ UNCHANGED <<round, proposals, decision, record, exec, approved, child>>
        /\ \E content \in Uploaded :
             uploads' = [uploads EXCEPT ![uploading[u].file] =
                           [content |-> content, by |-> "upload"]]
    BY DEF SaveUpload, store
  <1>2. PICK made : /\ uploads' = [uploads EXCEPT ![uploading[u].file] = made]
                    /\ made # None /\ made.by = "upload"
    <2>1. PICK content \in Uploaded :
             uploads' = [uploads EXCEPT ![uploading[u].file] =
                           [content |-> content, by |-> "upload"]]
      BY <1>1
    <2> DEFINE file == [content |-> content, by |-> "upload"]
    <2>2. file # None /\ file.by = "upload"
      BY UploadedAssumption, NoneAssumption DEF Collected, Writers
    <2>3. uploads' = [uploads EXCEPT ![uploading[u].file] = file]
      BY <2>1
    <2> HIDE DEF file
    <2> QED
      BY <2>2, <2>3
  <1>3. /\ DOMAIN uploads' = Files
        /\ \A f \in Files : uploads'[f] = uploads[f] \/ uploads'[f] = made
    BY <1>2 DEF IInv, Shape
  <1>4. \A dataset : Good(dataset) => Good(dataset)'
    BY <1>2, <1>3 DEF Good
  <1>5. Shape' /\ Alone'
    BY <1>1, <1>3 DEF IInv, Shape, Alone
  <1>6. ProposalsInv'
    BY <1>1, <1>4 DEF IInv, ProposalsInv
  <1>7. \A q \in Rounds : Fits(q, round[q])'
    BY <1>1, <1>2, <1>3, <1>4 DEF IInv, Fits, Unknown, NoDataset
  <1>8. ApprovedInv' /\ (record \notin {None, Torn} => RecordOK(record))' /\ ExecInv'
    BY <1>1 DEF IInv, ApprovedInv, RecordOK, ExecInv
  <1> QED
    BY <1>5, <1>6, <1>7, <1>8 DEF IInv

LEMMA CrashInv == ASSUME IInv, Crash PROVE IInv'
  <1>1. /\ UNCHANGED <<uploads, record, proposals, decision, approved>>
        /\ exec' = NoExec /\ child' = NoChild
    BY DEF Crash, store
  <1>2. NoExec.pc = "idle"
    BY DEF NoExec
  <1>3. DOMAIN round' = Rounds
    BY DEF Crash
  <1>4. ASSUME NEW r \in Rounds
        PROVE  Fits(r, round[r])' /\ round'[r].pc \notin Blocking
    <2>1. CASE round[r].pc \in Blocking \cup {"analyst"}
      <3>1. round'[r] = [Over("dead") EXCEPT !.file = round[r].file]
        BY <2>1 DEF Crash
      <3>2. DOMAIN round'[r] = DOMAIN NewRound /\ round'[r].pc = "dead"
        BY <3>1 DEF Over, NewRound
      <3> QED
        BY <3>2 DEF Fits, Resting, Blocking, Early
    <2>2. CASE round[r].pc \notin Blocking \cup {"analyst"}
      <3>1. round'[r] = round[r] /\ Fits(r, round[r])
        BY <2>2 DEF Crash, IInv
      <3>2. Unknown(r) => Unknown(r)'
        BY <1>1, <1>2 DEF Unknown
      <3> QED
        BY <2>2, <3>1, <3>2 DEF Fits, Blocking
    <2> QED
      BY <2>1, <2>2
  <1>5. Shape'
    BY <1>1, <1>3, NoChildOK DEF IInv, Shape
  <1>6. Alone' /\ ProposalsInv' /\ ApprovedInv'
    BY <1>1, <1>4 DEF IInv, Alone, ProposalsInv, ApprovedInv, Good
  <1>7. (record \notin {None, Torn} => RecordOK(record))'
    BY <1>1 DEF IInv, RecordOK
  <1>8. ExecInv'
    BY <1>1, <1>2 DEF ExecInv
  <1> QED
    BY <1>4, <1>5, <1>6, <1>7, <1>8 DEF IInv

LEMMA ChildTyped == ASSUME child \in ChildType, Child PROVE child' \in ChildType
  BY DEF Child, CheckCode, Execute, Spill, Answer, Kill, ChildType, Collected, Ended

(* A child that has completed does not change any more.                       *)
LEMMA RunChildInv == ASSUME IInv, RunChild PROVE IInv'
  <1>1. /\ UNCHANGED <<round, uploads, record, exec, proposals, decision, approved>>
        /\ child.pc # "completed"
    BY DEF RunChild, store, Child, CheckCode, Execute, Spill, Answer, Kill
  <1>2. child' \in ChildType
    BY ChildTyped DEF RunChild, IInv, Shape
  <1>3. Shape' /\ Alone' /\ ProposalsInv' /\ ApprovedInv'
    BY <1>1, <1>2 DEF IInv, Shape, Alone, ProposalsInv, ApprovedInv, Good
  <1>4. \A q \in Rounds : Fits(q, round[q])'
    BY <1>1 DEF IInv, Fits, Unknown, Good, NoDataset
  <1>5. (record \notin {None, Torn} => RecordOK(record))' /\ ExecInv'
    BY <1>1 DEF IInv, RecordOK, ExecInv
  <1> QED
    BY <1>3, <1>4, <1>5 DEF IInv
-----------------------------------------------------------------------------
(* The theorems *)

LEMMA InitIInv == Init => IInv
  <1> SUFFICES ASSUME Init PROVE IInv
    OBVIOUS
  <1>1. /\ \A r \in Rounds : round[r] = NewRound /\ proposals[r] = None
        /\ \A r \in Rounds : decision[r] = "none" /\ approved[r] = None
        /\ record = None /\ exec = NoExec /\ child = NoChild
        /\ DOMAIN round = Rounds /\ DOMAIN uploads = Files /\ DOMAIN proposals = Rounds
        /\ DOMAIN decision = Rounds /\ DOMAIN approved = Rounds
    BY DEF Init, SandboxInit
  <1>2. NoExec.pc = "idle" /\ NewRound.pc = "idle"
    BY DEF NoExec, NewRound
  <1>3. Shape
    BY <1>1, NoChildOK DEF Shape
  <1>4. \A r \in Rounds : Fits(r, round[r])
    BY <1>1, <1>2 DEF Fits, Unknown, Resting
  <1>5. Alone /\ ProposalsInv /\ ApprovedInv
    BY <1>1, <1>2 DEF Alone, ProposalsInv, ApprovedInv, Blocking
  <1>6. ExecInv
    BY <1>1, <1>2 DEF ExecInv
  <1> QED
    BY <1>1, <1>3, <1>4, <1>5, <1>6 DEF IInv

LEMMA Idle == ASSUME IInv, UNCHANGED <<round, uploads, proposals, decision, record, exec, approved, child>>
              PROVE  IInv'
  BY DEF IInv, Shape, Fits, Unknown, Good, NoDataset, Alone, ProposalsInv, ApprovedInv, RecordOK, ExecInv

LEMMA StepIInv == ASSUME IInv, [Next]_vars PROVE IInv'
  <1>1. ASSUME NEW r \in Rounds, Step(r) PROVE IInv'
    BY <1>1, AnalystInv, TransformInv, CodeInv, AwaitSandboxInv, FindNameInv, PersistInv,
       ValidateInv, SelectInv, ProposeInv, GateInv, TruncateInv, WriteInv DEF Step
  <1>2. CASE Execution
    BY <1>2, ExecuteConfigInv, ExecuteTrainInv, ExecuteLoadInv, ExecuteStoreInv DEF Execution
  <1>3. ASSUME NEW r \in Rounds, Cancel(r) PROVE IInv'
    BY <1>3, Idle DEF Cancel, store
  <1>4. ASSUME NEW u \in Uploaders, FindFree(u) PROVE IInv'
    BY <1>4, Idle DEF FindFree, store
  <1>5. CASE People
    BY <1>3, <1>4, <1>5, StartInv, ExecuteGateInv, ApproveInv, RejectInv, WorkerSavesInv,
       SaveUploadInv DEF People
  <1>6. CASE UNCHANGED vars
    BY <1>6, Idle DEF vars
  <1> QED
    BY <1>1, <1>2, <1>5, <1>6, RunChildInv, CrashInv DEF Next

(* The invariant of the rounds of an experiment (agentic_round.py:451-910).   *)
THEOREM IInvAlways == Spec => []IInv
  BY InitIInv, StepIInv, PTL DEF Spec

(* A proposal of a round trains on the cleaned dataset or on what a child that *)
(* completed left and the validation passed (agentic_round.py:481-545), as     *)
(* long as no upload has written over that file and no worker over the         *)
(* proposal: whatever the uploads are, and wherever a crash comes.             *)
THEOREM DataValidated == Spec => []ValidatedDataOnly
  <1>1. IInv => ValidatedDataOnly
    BY DEF IInv, ProposalsInv, Good, ValidatedDataOnly
  <1> QED
    BY <1>1, IInvAlways, PTL

(* A cancelled round leaves neither a proposal nor a record                   *)
(* (agentic_round.py:713-763).                                                *)
THEOREM CancelledIsUnknown == Spec => []CancelledProposesNothing
  <1>1. IInv => CancelledProposesNothing
    BY DEF IInv, Fits, Early, Unknown, CancelledProposesNothing
  <1> QED
    BY <1>1, IInvAlways, PTL

(* What an execution trains is what was approved, of every proposal no model's *)
(* answer can name (worker.py:198-260, agentic_round.py:889-903).             *)
THEOREM ExecutesTheApproved == Spec => []TrainedIsApproved
  <1>1. IInv => TrainedIsApproved
    BY DEF IInv, ExecInv, TrainedIsApproved
  <1> QED
    BY <1>1, IInvAlways, PTL

(* A round that is recorded as degraded holds nothing of a model              *)
(* (agentic_round.py:772-786).                                                *)
THEOREM DegradedRecords == Spec => []DegradedIsDeterministic
  <1>1. IInv => DegradedIsDeterministic
    BY DEF IInv, RecordOK, Degraded, DegradedIsDeterministic
  <1> QED
    BY <1>1, IInvAlways, PTL

-----------------------------------------------------------------------------
(* Types *)

RoundType == {s \in StateType : s.pc = "propose" => s.selection \in Selectable}

(* What is persisted is there, a selection is made before it is proposed, an  *)
(* execution knows its proposal.                                              *)
Typed ==
  /\ RoundsOK
  /\ \A r \in Rounds : round[r] \in RoundType
  /\ \A r \in Rounds : round[r].pc \in {"persist", "copy"} => child.spilled # Nothing
  /\ exec.pc # "idle" => exec.id \in Rounds
  /\ exec.pc = "store" => exec.base \in RecordType

LEMMA IdleTyped == NewRound \in RoundType
  <1>1. "idle" \in Resting \cup Blocking \cup {"analyst"} /\ 1 \in 1 .. MaxAttempts
    BY DEF Resting, MaxAttempts
  <1> QED
    BY <1>1 DEF NewRound, RoundType, StateType

LEMMA FreshTypes ==
  ASSUME NEW pc \in (Resting \cup Blocking) \ {"propose"}
  PROVE  Over(pc) \in RoundType /\ Over(pc).pc = pc
  BY IdleTyped DEF Over, RoundType, StateType

LEMMA RoundsTyped ==
  ASSUME Typed, round' \in [Rounds -> RoundType], cancel' \subseteq Rounds,
         uploads' \in [Files -> {None} \cup [content : Artifacts, by : Writers]],
         proposals' \in [Rounds -> {None} \cup ProposalType],
         UNCHANGED <<record, exec, decision>>, child' \in ChildType,
         \A r \in Rounds :
           /\ round'[r].pc \in {"persist", "copy"} => child'.spilled # Nothing
           /\ round'[r].pc = "validate" =>
                round'[r].file # None /\ uploads'[round'[r].file] # None
  PROVE  Typed'
  BY DEF Typed, RoundsOK, RoundType, StateType, ProposalType

(* A round moves, and at most the sandbox's child with it.                    *)
LEMMA RoundTyped ==
  ASSUME Typed, NEW r \in Rounds, NEW state \in RoundType, Set(r, state),
         state.pc \in {"persist", "copy"} => child'.spilled # Nothing,
         state.pc = "validate" => state.file # None /\ uploads[state.file] # None,
         \A q \in Rounds \ {r} : round[q].pc \in {"persist", "copy"} => child'.spilled # Nothing,
         UNCHANGED <<uploads, record, exec, proposals, decision>>,
         child' \in ChildType, cancel' \subseteq cancel
  PROVE  Typed'
  <1>1. \A q \in Rounds : round'[q] = IF q = r THEN state ELSE round[q]
    BY DEF Set, Typed, RoundsOK
  <1>2. round' \in [Rounds -> RoundType]
    BY DEF Set, Typed, RoundsOK, RoundType, StateType
  <1> QED
    BY <1>1, <1>2 DEF Typed, RoundsOK, RoundType, StateType

(* A round that moves while nothing else does.                                *)
LEMMA OnlyTyped ==
  ASSUME Typed, NEW r \in Rounds, NEW state \in RoundType, Set(r, state), Only(r),
         state.pc \notin {"persist", "copy", "validate"}
  PROVE  Typed'
  BY RoundTyped DEF Only, store, Typed, RoundsOK

(* A round moves as it writes the record.                                     *)
LEMMA RecordTyped ==
  ASSUME Typed, NEW r \in Rounds, NEW state \in RoundType, Set(r, state),
         state.pc \notin {"persist", "copy", "validate"}, record' \in {Torn} \cup RecordType,
         UNCHANGED <<cancel, uploads, exec, proposals, decision, child>>
  PROVE  Typed'
  <1>1. \A q \in Rounds : round'[q] = IF q = r THEN state ELSE round[q]
    BY DEF Set, Typed, RoundsOK
  <1>2. round' \in [Rounds -> RoundType]
    BY DEF Set, Typed, RoundsOK, RoundType, StateType
  <1> QED
    BY <1>1, <1>2 DEF Typed, RoundsOK, RoundType, StateType, RecordType

LEMMA SelectionTyped ==
  ASSUME NEW r \in Rounds, NEW s \in Selections(r)
  PROVE  s.choice \in Selectable /\ s.llm \in BOOLEAN
  <1>1. CASE s = [llm |-> FALSE, choice |-> Recommended]
    BY <1>1 DEF Selectable
  <1>2. CASE s # [llm |-> FALSE, choice |-> Recommended]
    <2>1. PICK answer \in Answers[r] \cup {ForTask(b) : b \in Answers[r]} :
            \E choice \in Cap(answer) : s = [llm |-> TRUE, choice |-> choice]
      BY <1>2 DEF Selections
    <2>2. PICK a \in Answers[r] : answer = a \/ answer = ForTask(a)
      BY <2>1
    <2>3. a \in UNION {Answers[q] : q \in Rounds}
      BY <2>2
    <2>4. Cap(answer) \subseteq Selectable
      BY <2>2, <2>3 DEF Selectable
    <2> QED
      BY <2>1, <2>4
  <1> QED
    BY <1>1, <1>2

LEMMA IsRound == ASSUME Typed, NEW r \in Rounds PROVE round[r] \in RoundType
  BY DEF Typed, RoundsOK, RoundType, StateType

LEMMA RoundOf ==
  ASSUME Typed, NEW r \in Rounds
  PROVE  /\ round[r] \in RoundType /\ DOMAIN round = Rounds
         /\ round[r].pc # "persist" => Retry(r) \in RoundType
         /\ \A how \in {"skipped", "rejected"} :
              Skip(r, how) \in RoundType /\ Skip(r, how).pc = "select"
  <1>1. round[r] \in RoundType /\ DOMAIN round = Rounds
    BY IsRound DEF Typed, RoundsOK
  <1>2. \A how \in {"skipped", "rejected"} :
          Skip(r, how) \in RoundType /\ Skip(r, how).pc = "select"
    BY <1>1 DEF Skip, RoundType, StateType, Blocking
  <1>3. Retry(r) \in RoundType
    <2>1. CASE round[r].attempt = MaxAttempts
      BY <1>2, <2>1 DEF Retry, RoundType, StateType
    <2>2. CASE round[r].attempt # MaxAttempts
      <3>1. round[r].attempt + 1 \in 1 .. MaxAttempts
        BY <1>1, <2>2 DEF RoundType, StateType, MaxAttempts
      <3> QED
        BY <1>1, <2>2, <3>1 DEF Retry, RoundType, StateType, Blocking
    <2> QED
      BY <2>1, <2>2
  <1> QED
    BY <1>1, <1>2, <1>3

LEMMA RetryPc == ASSUME Typed, NEW r \in Rounds PROVE Retry(r).pc \in {"select", "code"}
  <1>1. round[r] \in RoundType
    BY IsRound
  <1>2. "pc" \in DOMAIN round[r] /\ "pc" \in DOMAIN Skip(r, "rejected")
    BY <1>1 DEF RoundType, StateType, Skip
  <1> QED
    BY <1>1, <1>2, RoundOf DEF Retry, RoundType, StateType, Skip

LEMMA StartTyped == ASSUME Typed, NEW r \in Rounds, Start(r) PROVE Typed'
  <1>1. PICK provider \in BOOLEAN :
          Set(r, IF r \in cancel THEN Over("cancelled")
                 ELSE [NewRound EXCEPT !.pc = "analyst", !.provider = provider])
    BY DEF Start
  <1>2. /\ [NewRound EXCEPT !.pc = "analyst", !.provider = provider] \in RoundType
        /\ [NewRound EXCEPT !.pc = "analyst", !.provider = provider].pc = "analyst"
    BY IdleTyped DEF RoundType, StateType
  <1>3. Over("cancelled") \in RoundType /\ Over("cancelled").pc = "cancelled"
    BY FreshTypes DEF Resting
  <1> QED
    BY <1>1, <1>2, <1>3, OnlyTyped DEF Start

LEMMA AnalystTyped == ASSUME Typed, NEW r \in Rounds, Analyst(r) PROVE Typed'
  <1>1. PICK brief \in {FALSE, round[r].provider} :
          Set(r, IF r \in cancel THEN Over("cancelled")
                 ELSE [round[r] EXCEPT !.brief = brief, !.pc = "transform"])
    BY DEF Analyst
  <1>2. /\ [round[r] EXCEPT !.brief = brief, !.pc = "transform"] \in RoundType
        /\ [round[r] EXCEPT !.brief = brief, !.pc = "transform"].pc = "transform"
    <2>1. round[r] \in RoundType
      BY IsRound
    <2> QED
      BY <2>1 DEF RoundType, StateType, Blocking
  <1>3. Over("cancelled") \in RoundType /\ Over("cancelled").pc = "cancelled"
    BY FreshTypes DEF Resting
  <1> QED
    BY <1>1, <1>2, <1>3, OnlyTyped DEF Analyst

LEMMA TransformTyped == ASSUME Typed, NEW r \in Rounds, Transform(r) PROVE Typed'
  <1>1. PICK source \in {Cleaned, None} :
          \/ \E how \in {"skipped", "rejected"} : Set(r, [Skip(r, how) EXCEPT !.dataset = source])
          \/ Set(r, [round[r] EXCEPT !.pc = "code", !.dataset = source])
    BY DEF Transform
  <1>2. ASSUME NEW how \in {"skipped", "rejected"}
        PROVE  /\ [Skip(r, how) EXCEPT !.dataset = source] \in RoundType
               /\ [Skip(r, how) EXCEPT !.dataset = source].pc = "select"
    <2>1. Skip(r, how) \in RoundType /\ Skip(r, how).pc = "select"
      BY RoundOf
    <2> QED
      BY <2>1 DEF RoundType, StateType
  <1>3. /\ [round[r] EXCEPT !.pc = "code", !.dataset = source] \in RoundType
        /\ [round[r] EXCEPT !.pc = "code", !.dataset = source].pc = "code"
    <2>1. round[r] \in RoundType
      BY IsRound
    <2> QED
      BY <2>1 DEF RoundType, StateType, Blocking
  <1> QED
    BY <1>1, <1>2, <1>3, OnlyTyped DEF Transform

LEMMA SelectTyped == ASSUME Typed, NEW r \in Rounds, Select(r) PROVE Typed'
  <1>1. Over("cancelled") \in RoundType /\ Over("cancelled").pc = "cancelled"
    BY FreshTypes DEF Resting
  <1>2. CASE r \in cancel
    BY <1>1, <1>2, OnlyTyped DEF Select
  <1>3. CASE Set(r, Over("raised"))
    <2>1. Over("raised") \in RoundType /\ Over("raised").pc = "raised"
      BY FreshTypes DEF Resting
    <2> QED
      BY <1>3, <2>1, OnlyTyped DEF Select
  <1>4. CASE r \notin cancel /\ ~Set(r, Over("raised"))
    <2>1. PICK s \in Selections(r) :
            Set(r, [NewRound EXCEPT !.pc = "propose", !.dataset = round[r].dataset,
                      !.selection = s.choice, !.llm = s.llm, !.agentic = Agentic(r, s.llm)])
      BY <1>4 DEF Select
    <2>2. s.choice \in Selectable /\ s.llm \in BOOLEAN
      BY SelectionTyped
    <2>3. round[r].dataset \in Files \cup {Cleaned, None} /\ round[r].brief \in BOOLEAN
      BY IsRound DEF RoundType, StateType
    <2>4. Agentic(r, s.llm) \in BOOLEAN
      BY DEF Agentic
    <2> DEFINE state == [NewRound EXCEPT !.pc = "propose", !.dataset = round[r].dataset,
                           !.selection = s.choice, !.llm = s.llm, !.agentic = Agentic(r, s.llm)]
    <2>5. state \in RoundType /\ state.pc = "propose"
      <3>1. "propose" \in Blocking
        BY DEF Blocking
      <3> QED
        BY <2>2, <2>3, <2>4, <3>1, IdleTyped DEF RoundType, StateType
    <2> QED
      BY <2>1, <2>5, OnlyTyped DEF Select
  <1> QED
    BY <1>2, <1>3, <1>4

LEMMA CodeTyped == ASSUME IInv, Typed, NEW r \in Rounds, Code(r) PROVE Typed'
  <1>1. \A q \in Rounds \ {r} : round[q].pc \notin {"persist", "copy"}
    BY DEF IInv, Alone, Code, Blocking
  <1>2. CASE child' = child
    <2>1. PICK how \in {"skipped", "rejected"} :
            Set(r, Skip(r, how)) \/ (Goto(r, "sandbox") /\ RunInSandbox)
      BY DEF Code
    <2>2. CASE Set(r, Skip(r, how))
      BY <1>1, <1>2, <2>2, RoundOf, RoundTyped DEF Code, store, Typed, RoundsOK
    <2>3. CASE Goto(r, "sandbox") /\ RunInSandbox
      <3>1. /\ [round[r] EXCEPT !.pc = "sandbox"] \in RoundType
            /\ [round[r] EXCEPT !.pc = "sandbox"].pc = "sandbox"
        BY IsRound DEF RoundType, StateType, Blocking
      <3>2. Set(r, [round[r] EXCEPT !.pc = "sandbox"])
        BY <2>3 DEF Goto, Set
      <3> QED
        BY <1>1, <1>2, <3>1, <3>2, RoundTyped DEF Code, store, Typed, RoundsOK
    <2> QED
      BY <2>1, <2>2, <2>3
  <1>3. CASE child' # child
    <2>1. Goto(r, "sandbox") /\ RunInSandbox
      BY <1>3 DEF Code
    <2>2. /\ [round[r] EXCEPT !.pc = "sandbox"] \in RoundType
          /\ [round[r] EXCEPT !.pc = "sandbox"].pc = "sandbox"
      BY IsRound DEF RoundType, StateType, Blocking
    <2>3. Set(r, [round[r] EXCEPT !.pc = "sandbox"]) /\ child' \in ChildType
      BY <2>1, NoChildOK DEF Goto, Set, RunInSandbox
    <2> QED
      BY <1>1, <2>2, <2>3, RoundTyped DEF Code, store
  <1> QED
    BY <1>2, <1>3

LEMMA AwaitSandboxTyped == ASSUME IInv, Typed, NEW r \in Rounds, AwaitSandbox(r) PROVE Typed'
  <1>1. \A q \in Rounds \ {r} : round[q].pc \notin {"persist", "copy"}
    BY DEF IInv, Alone, AwaitSandbox, Blocking
  <1>2. CASE child.pc = "completed" /\ child.spilled # Nothing
    <2>1. /\ [round[r] EXCEPT !.pc = "persist"] \in RoundType
          /\ [round[r] EXCEPT !.pc = "persist"].pc = "persist"
      BY IsRound DEF RoundType, StateType, Blocking
    <2>2. Set(r, [round[r] EXCEPT !.pc = "persist"]) /\ child' = child
      BY <1>2 DEF AwaitSandbox, Goto, Set
    <2> QED
      BY <1>1, <1>2, <2>1, <2>2, RoundTyped DEF AwaitSandbox, store, Typed, RoundsOK
  <1>3. CASE ~(child.pc = "completed" /\ child.spilled # Nothing)
    <2>1. Set(r, Retry(r)) /\ child' \in ChildType
      BY <1>3, NoChildOK DEF AwaitSandbox
    <2>2. Retry(r) \in RoundType /\ Retry(r).pc \in {"select", "code"}
      BY RoundOf, RetryPc DEF AwaitSandbox
    <2> QED
      BY <1>1, <2>1, <2>2, RoundTyped DEF AwaitSandbox, store
  <1> QED
    BY <1>2, <1>3

LEMMA FindNameTyped == ASSUME IInv, Typed, NEW r \in Rounds, FindName(r) PROVE Typed'
  <1>1. PICK n \in Files : Set(r, [round[r] EXCEPT !.pc = "copy", !.file = n])
    BY DEF FindName
  <1> DEFINE state == [round[r] EXCEPT !.pc = "copy", !.file = n]
  <1>2. state \in RoundType /\ state.pc = "copy"
    <2>1. round[r] \in RoundType
      BY IsRound
    <2> QED
      BY <2>1 DEF RoundType, StateType, Blocking
  <1>3. child.spilled # Nothing
    BY DEF FindName, Typed
  <1> QED
    BY <1>1, <1>2, <1>3, RoundTyped DEF FindName, Only, store, Typed, RoundsOK

LEMMA PersistTyped == ASSUME IInv, Typed, NEW r \in Rounds, Persist(r) PROVE Typed'
  <1>1. PICK n \in Files :
          /\ n = round[r].file
          /\ uploads' = [uploads EXCEPT ![n] = [content |-> child.spilled, by |-> child.pc]]
          /\ Set(r, [round[r] EXCEPT !.pc = "validate"])
    BY DEF Persist, IInv, Fits, Goto, Set
  <1>2. child.spilled \in Artifacts /\ child.pc \in Writers
    BY DEF Persist, Typed, RoundsOK, ChildType, Collected, IInv, Fits, Ended, Writers
  <1>3. /\ [content |-> child.spilled, by |-> child.pc] # None /\ n # None
        /\ [content |-> child.spilled, by |-> child.pc] \in [content : Artifacts, by : Writers]
    BY <1>2, NoneAssumption DEF Collected
  <1>4. uploads' \in [Files -> {None} \cup [content : Artifacts, by : Writers]] /\ uploads'[n] # None
    BY <1>1, <1>3 DEF Typed, RoundsOK
  <1>5. \A q \in Rounds \ {r} : round[q].pc \notin {"persist", "copy", "validate"}
    BY DEF IInv, Alone, Persist, Blocking
  <1> DEFINE state == [round[r] EXCEPT !.pc = "validate"]
  <1>6. state \in RoundType /\ state.pc = "validate" /\ state.file = n
    <2>1. round[r] \in RoundType
      BY IsRound
    <2> QED
      BY <1>1, <2>1 DEF RoundType, StateType, Blocking
  <1>7. \A q \in Rounds : round'[q] = IF q = r THEN state ELSE round[q]
    BY <1>1, RoundOf DEF Set
  <1>8. round' \in [Rounds -> RoundType]
    BY <1>1, <1>6 DEF Set, Typed, RoundsOK, RoundType, StateType
  <1>9. child' \in ChildType
    BY NoChildOK DEF Persist
  <1> HIDE DEF state
  <1>10. \A q \in Rounds :
           /\ round'[q].pc \notin {"persist", "copy"}
           /\ round'[q].pc = "validate" =>
                round'[q].file # None /\ uploads'[round'[q].file] # None
    BY <1>3, <1>4, <1>5, <1>6, <1>7
  <1>11. cancel' \subseteq Rounds /\ UNCHANGED <<record, exec, decision>>
         /\ proposals' \in [Rounds -> {None} \cup ProposalType]
    BY DEF Persist, store, Typed, RoundsOK, ProposalType
  <1> QED
    BY <1>4, <1>8, <1>9, <1>10, <1>11, RoundsTyped

LEMMA ValidateTyped == ASSUME IInv, Typed, NEW r \in Rounds, Validate(r) PROVE Typed'
  <1>1. PICK state :
          /\ Set(r, state) /\ state \in RoundType /\ state.pc \in {"select", "code", "raised"}
          /\ uploads' = uploads \/ uploads' = [uploads EXCEPT ![round[r].file] = None]
    <2>1. round[r] \in RoundType /\ round[r].file \in Files
      BY IsRound DEF Validate, Typed, RoundsOK, RoundType, StateType
    <2>2. /\ Retry(r) \in RoundType /\ Retry(r).pc \in {"select", "code"}
      BY RoundOf, RetryPc DEF Validate
    <2> DEFINE passed == [round[r] EXCEPT !.pc = "select", !.transform = "completed",
                                          !.dataset = round[r].file]
               raised == [Over("raised") EXCEPT !.file = round[r].file]
    <2>3. passed \in RoundType /\ passed.pc = "select"
      BY <2>1 DEF RoundType, StateType, Blocking
    <2>4. raised \in RoundType /\ raised.pc = "raised"
      <3>1. Over("raised") \in RoundType /\ Over("raised").pc = "raised"
        BY FreshTypes DEF Resting
      <3> QED
        BY <2>1, <3>1 DEF RoundType, StateType
    <2> HIDE DEF passed, raised
    <2>5. \/ Set(r, passed) /\ uploads' = uploads
          \/ Set(r, raised) /\ uploads' = uploads
          \/ Set(r, Retry(r)) /\ uploads' = [uploads EXCEPT ![round[r].file] = None]
      BY DEF Validate, passed, raised
    <2> QED
      BY <2>2, <2>3, <2>4, <2>5
  <1>2. uploads' \in [Files -> {None} \cup [content : Artifacts, by : Writers]]
    BY <1>1 DEF Typed, RoundsOK
  <1>3. \A q \in Rounds \ {r} : round[q].pc \notin {"persist", "copy", "validate"}
    BY DEF IInv, Alone, Validate, Blocking
  <1>4. \A q \in Rounds : round'[q] = IF q = r THEN state ELSE round[q]
    BY <1>1, RoundOf DEF Set
  <1>5. round' \in [Rounds -> RoundType]
    BY <1>1 DEF Set, Typed, RoundsOK, RoundType, StateType
  <1>6. \A q \in Rounds : round'[q].pc \notin {"persist", "copy", "validate"}
    BY <1>1, <1>3, <1>4
  <1>7. /\ cancel' \subseteq Rounds /\ UNCHANGED <<record, exec, decision>>
        /\ child' \in ChildType /\ proposals' \in [Rounds -> {None} \cup ProposalType]
    BY DEF Validate, store, Typed, RoundsOK, ProposalType
  <1> QED
    BY <1>2, <1>5, <1>6, <1>7, RoundsTyped

LEMMA ProposeTyped == ASSUME Typed, NEW r \in Rounds, Propose(r) PROVE Typed'
  <1>1. round[r] \in RoundType
    BY IsRound
  <1>2. CASE round[r].dataset = None
    <2>1. Over("failed") \in RoundType /\ Over("failed").pc = "failed"
      BY FreshTypes DEF Resting
    <2> QED
      BY <1>2, <2>1, RoundTyped DEF Propose, Typed, RoundsOK
  <1>3. CASE round[r].dataset # None
    <2> DEFINE choice == IF Accepts(round[r].selection) THEN round[r].selection ELSE Recommended
               state  == [Over("gate") EXCEPT !.agentic = round[r].agentic]
    <2>1. /\ proposals' = [proposals EXCEPT ![r] =
                              [choice |-> choice, dataset |-> round[r].dataset]]
          /\ Set(r, state)
      BY <1>3 DEF Propose
    <2>2. state \in RoundType /\ state.pc = "gate"
      <3>1. Over("gate") \in RoundType /\ Over("gate").pc = "gate"
        BY FreshTypes DEF Blocking
      <3> QED
        BY <1>1, <3>1 DEF RoundType, StateType
    <2> HIDE DEF state
    <2>3. choice \in Selectable
      BY <1>1 DEF Propose, RoundType, StateType, Selectable
    <2> HIDE DEF choice
    <2>4. proposals' \in [Rounds -> {None} \cup ProposalType]
      BY <1>1, <1>3, <2>1, <2>3 DEF Typed, RoundsOK, RoundType, StateType, ProposalType, Datasets
    <2>5. \A q \in Rounds : round'[q] = IF q = r THEN state ELSE round[q]
      BY <2>1, RoundOf DEF Set
    <2>6. round' \in [Rounds -> RoundType]
      BY <2>1, <2>2 DEF Set, Typed, RoundsOK, RoundType, StateType
    <2>7. /\ UNCHANGED <<uploads, record, exec, decision, child, cancel>>
          /\ cancel \subseteq Rounds /\ child \in ChildType
          /\ uploads \in [Files -> {None} \cup [content : Artifacts, by : Writers]]
          /\ \A q \in Rounds :
               /\ round[q].pc \in {"persist", "copy"} => child.spilled # Nothing
               /\ round[q].pc = "validate" =>
                    round[q].file # None /\ uploads[round[q].file] # None
      BY DEF Propose, Typed, RoundsOK
    <2> QED
      BY <2>2, <2>4, <2>5, <2>6, <2>7, RoundsTyped
  <1> QED
    BY <1>2, <1>3

LEMMA GateTyped == ASSUME Typed, NEW r \in Rounds, Gate(r) PROVE Typed'
  <1>1. PICK status \in {"approved_for_execution", "rejected", "awaiting_approval"} :
          Set(r, [round[r] EXCEPT !.pc = "truncate", !.status = status])
    BY DEF Gate
  <1>2. /\ [round[r] EXCEPT !.pc = "truncate", !.status = status] \in RoundType
        /\ [round[r] EXCEPT !.pc = "truncate", !.status = status].pc = "truncate"
    <2>1. round[r] \in RoundType
      BY IsRound
    <2> QED
      BY <2>1 DEF RoundType, StateType, Blocking
  <1> QED
    BY <1>1, <1>2, RoundTyped DEF Gate, store, Typed, RoundsOK

LEMMA TruncateTyped == ASSUME Typed, NEW r \in Rounds, Truncate(r) PROVE Typed'
  <1>1. /\ [round[r] EXCEPT !.pc = "write"] \in RoundType
        /\ [round[r] EXCEPT !.pc = "write"].pc = "write"
    BY IsRound DEF RoundType, StateType, Blocking
  <1> QED
    BY <1>1, RecordTyped DEF Truncate, Goto, Set, store

LEMMA WriteTyped == ASSUME Typed, NEW r \in Rounds, Write(r) PROVE Typed'
  <1>1. Over("done") \in RoundType /\ Over("done").pc = "done"
    BY FreshTypes DEF Resting
  <1>2. record' \in RecordType
    BY IsRound DEF Write, RecordType, RoundType, StateType
  <1> QED
    BY <1>1, <1>2, RecordTyped DEF Write, store

(* An execution, or people, move: the rounds do not.                          *)
LEMMA OthersTyped ==
  ASSUME Typed, UNCHANGED <<round, uploads, child>>, cancel' \subseteq Rounds,
         proposals' \in [Rounds -> {None} \cup ProposalType],
         decision' \in [Rounds -> {"none", "approved", "rejected"}],
         record' \in {None, Torn} \cup RecordType,
         exec'.pc \in {"idle", "config", "train", "load", "store"},
         exec'.pc # "idle" => exec'.id \in Rounds,
         exec'.pc = "store" => exec'.base \in RecordType
  PROVE  Typed'
  BY DEF Typed, RoundsOK, RoundType, StateType, ProposalType, RecordType

LEMMA ExecutionTyped == ASSUME IInv, Typed, Execution PROVE Typed'
  <1>1. /\ UNCHANGED <<round, uploads, child, proposals, decision>> /\ cancel' \subseteq Rounds
        /\ proposals \in [Rounds -> {None} \cup ProposalType]
        /\ decision \in [Rounds -> {"none", "approved", "rejected"}]
        /\ record \in {None, Torn} \cup RecordType
        /\ exec.pc # "idle" /\ exec.id \in Rounds
        /\ DOMAIN exec = {"pc", "id", "choice", "batch", "base"}
    BY DEF Execution, ExecuteConfig, ExecuteTrain, ExecuteLoad, ExecuteStore, store,
           Typed, RoundsOK, ProposalType, RecordType, IInv, ExecInv, NoExec
  <1>2. CASE ExecuteConfig \/ ExecuteTrain
    <2>1. exec'.pc \in {"train", "load"} /\ exec'.id = exec.id /\ record' = record
      BY <1>1, <1>2 DEF ExecuteConfig, ExecuteTrain
    <2> QED
      BY <1>1, <2>1, OthersTyped
  <1>3. CASE ExecuteLoad
    <2>1. /\ exec'.pc = "store" /\ exec'.id = exec.id /\ record' = Torn
          /\ exec'.base = IF record \in {None, Torn} THEN NoRecord ELSE record
      BY <1>1, <1>3 DEF ExecuteLoad
    <2>2. NoRecord \in RecordType
      BY DEF NoRecord, RecordType
    <2> QED
      BY <1>1, <2>1, <2>2, OthersTyped
  <1>4. CASE ExecuteStore
    <2>1. exec'.pc = "idle" /\ record' = [exec.base EXCEPT !.execution = exec.id]
      BY <1>4 DEF ExecuteStore, NoExec
    <2>2. exec.base \in RecordType
      BY <1>4 DEF ExecuteStore, Typed
    <2>3. record' \in RecordType
      BY <1>1, <2>1, <2>2 DEF RecordType
    <2> QED
      BY <1>1, <2>1, <2>3, OthersTyped
  <1> QED
    BY <1>2, <1>3, <1>4 DEF Execution

LEMMA SaveUploadTyped == ASSUME Typed, NEW u \in Uploaders, SaveUpload(u) PROVE Typed'
  <1>1. PICK content \in Artifacts :
          uploads' = [uploads EXCEPT ![uploading[u].file] =
                        [content |-> content, by |-> "upload"]]
    BY UploadedAssumption DEF SaveUpload
  <1> DEFINE made == [content |-> content, by |-> "upload"]
  <1>2. made \in [content : Artifacts, by : Writers] /\ made # None
    BY NoneAssumption DEF Collected, Writers
  <1> HIDE DEF made
  <1>3. /\ uploads' \in [Files -> {None} \cup [content : Artifacts, by : Writers]]
        /\ \A f \in Files : uploads[f] # None => uploads'[f] # None
    BY <1>1, <1>2 DEF Typed, RoundsOK, made
  <1>4. \A r \in Rounds : round[r].pc = "validate" =>
          round[r].file \in Files /\ uploads[round[r].file] # None
    BY IsRound DEF Typed, RoundsOK, RoundType, StateType
  <1>5. /\ UNCHANGED <<round, record, exec, proposals, decision, child, cancel>>
        /\ round \in [Rounds -> RoundType] /\ cancel \subseteq Rounds /\ child \in ChildType
        /\ proposals \in [Rounds -> {None} \cup ProposalType]
        /\ \A r \in Rounds : round[r].pc \in {"persist", "copy"} => child.spilled # Nothing
    BY IsRound DEF SaveUpload, store, Typed, RoundsOK, ProposalType
  <1>6. \A r \in Rounds : round[r].pc = "validate" => round[r].file # None
    BY DEF Typed, RoundsOK
  <1> QED
    BY <1>3, <1>4, <1>5, <1>6, RoundsTyped

LEMMA PeopleTyped == ASSUME Typed, People PROVE Typed'
  <1>1. /\ cancel \subseteq Rounds
        /\ proposals \in [Rounds -> {None} \cup ProposalType]
        /\ decision \in [Rounds -> {"none", "approved", "rejected"}]
        /\ record \in {None, Torn} \cup RecordType
        /\ exec.pc \in {"idle", "config", "train", "load", "store"}
        /\ exec.pc # "idle" => exec.id \in Rounds
        /\ exec.pc = "store" => exec.base \in RecordType
    BY DEF Typed, RoundsOK, ProposalType, RecordType
  <1>2. ASSUME NEW r \in Rounds, Cancel(r) PROVE Typed'
    <2>1. cancel' \subseteq Rounds /\ UNCHANGED <<round, uploads, record, exec, proposals, decision, child>>
      BY <1>1, <1>2 DEF Cancel, store
    <2> QED
      BY <1>1, <2>1, OthersTyped
  <1>3. ASSUME NEW r \in Rounds, ExecuteGate(r) PROVE Typed'
    <2>1. /\ exec'.pc = "config" /\ exec'.id = r
          /\ UNCHANGED <<round, uploads, record, cancel, proposals, decision, child>>
      BY <1>3 DEF ExecuteGate, NoExec, store
    <2> QED
      BY <1>1, <2>1, OthersTyped
  <1>4. ASSUME NEW r \in Rounds, Approve(r) \/ Reject(r) PROVE Typed'
    <2>1. /\ decision' \in [Rounds -> {"none", "approved", "rejected"}]
          /\ UNCHANGED <<round, uploads, record, cancel, proposals, exec, child>>
      BY <1>1, <1>4 DEF Approve, Reject
    <2> QED
      BY <1>1, <2>1, OthersTyped
  <1>5. ASSUME NEW r \in Rounds, WorkerSaves(r) PROVE Typed'
    <2>1. PICK a \in Answers[r], dataset \in Elsewhere :
            proposals' = [proposals EXCEPT ![r] =
                            [choice |-> Normalize(a), dataset |-> dataset]]
      BY <1>5 DEF WorkerSaves
    <2>2. a \in UNION {Answers[q] : q \in Rounds}
      BY <2>1
    <2>3. Normalize(a) \in Selectable
      BY <2>2 DEF Selectable
    <2>4. [choice |-> Normalize(a), dataset |-> dataset] \in ProposalType
      BY <2>3 DEF ProposalType, Datasets
    <2>5. proposals' \in [Rounds -> {None} \cup ProposalType]
      BY <1>1, <2>1, <2>4
    <2> QED
      BY <1>1, <1>5, <2>5, OthersTyped DEF WorkerSaves
  <1>6. ASSUME NEW u \in Uploaders, FindFree(u) PROVE Typed'
    <2>1. /\ cancel' \subseteq Rounds
          /\ UNCHANGED <<round, uploads, record, exec, proposals, decision, child>>
      BY <1>1, <1>6 DEF FindFree, store
    <2> QED
      BY <1>1, <2>1, OthersTyped
  <1>7. ASSUME NEW u \in Uploaders, SaveUpload(u) PROVE Typed'
    BY <1>7, SaveUploadTyped
  <1> QED
    BY <1>2, <1>3, <1>4, <1>5, <1>6, <1>7, StartTyped DEF People

LEMMA RunChildTyped == ASSUME IInv, Typed, RunChild PROVE Typed'
  <1>1. child' \in ChildType /\ child.pc # "completed"
    BY ChildTyped DEF RunChild, Child, CheckCode, Execute, Spill, Answer, Kill, Typed, RoundsOK
  <1>2. \A r \in Rounds : round[r].pc \notin {"persist", "copy"}
    BY <1>1 DEF IInv, Fits
  <1> QED
    BY <1>1, <1>2 DEF RunChild, store, Typed, RoundsOK, RoundType, StateType

LEMMA CrashTyped == ASSUME Typed, Crash PROVE Typed'
  <1>1. \A r \in Rounds : round'[r] \in RoundType /\ round'[r].pc \notin {"persist", "copy", "validate"}
    <2>1. ASSUME NEW r \in Rounds
          PROVE  round'[r] \in RoundType /\ round'[r].pc \notin {"persist", "copy", "validate"}
      <3>1. /\ [Over("dead") EXCEPT !.file = round[r].file] \in RoundType
            /\ [Over("dead") EXCEPT !.file = round[r].file].pc = "dead"
        <4>1. Over("dead") \in RoundType /\ Over("dead").pc = "dead"
          BY FreshTypes DEF Resting
        <4>2. round[r].file \in Files \cup {None}
          BY IsRound DEF RoundType, StateType
        <4> QED
          BY <4>1, <4>2 DEF RoundType, StateType
      <3>2. round[r] \in RoundType
        BY IsRound
      <3> QED
        BY <3>1, <3>2 DEF Crash, Blocking
    <2> QED
      BY <2>1
  <1>2. round' = [r \in Rounds |-> round'[r]]
    BY DEF Crash
  <1>3. round' \in [Rounds -> RoundType]
    BY <1>1, <1>2
  <1>4. /\ exec' = NoExec /\ exec'.pc = "idle" /\ child' \in ChildType /\ cancel' = {}
        /\ UNCHANGED <<uploads, record, proposals, decision>>
    BY NoChildOK DEF Crash, NoExec, store
  <1> QED
    BY <1>1, <1>3, <1>4 DEF Typed, RoundsOK, RoundType, StateType

LEMMA InitTyped == Init => Typed
  BY IdleTyped, NoChildOK DEF Init, SandboxInit, Typed, RoundsOK, RoundType, StateType, NewRound, NoExec

LEMMA TypedAlways == Spec => []Typed
  <1>1. IInv /\ Typed /\ [Next]_vars => Typed'
    <2> SUFFICES ASSUME IInv, Typed, [Next]_vars PROVE Typed'
      OBVIOUS
    <2>1. ASSUME NEW r \in Rounds, Step(r) PROVE Typed'
      BY <2>1, AnalystTyped, TransformTyped, CodeTyped, AwaitSandboxTyped, FindNameTyped,
         PersistTyped, ValidateTyped, SelectTyped, ProposeTyped, GateTyped, TruncateTyped, WriteTyped
      DEF Step
    <2>2. CASE UNCHANGED vars
      BY <2>2 DEF vars, Typed, RoundsOK, RoundType, StateType, RecordType
    <2> QED
      BY <2>1, <2>2, ExecutionTyped, RunChildTyped, PeopleTyped, CrashTyped DEF Next
  <1> QED
    BY <1>1, InitTyped, IInvAlways, PTL DEF Spec

LEMMA UploadersTyped == Spec => []UploadersOK
  <1>1. \A pc \in {"idle", "write", "done"} :
          Upload(pc) \in [pc : {"idle", "write", "done"}, file : Files \cup {None}]
    BY DEF Upload
  <1>2. Init => UploadersOK
    BY <1>1 DEF Init, UploadersOK
  <1>3. Typed /\ UploadersOK /\ [Next]_vars => UploadersOK'
    <2> SUFFICES ASSUME Typed, UploadersOK, [Next]_vars PROVE UploadersOK'
      OBVIOUS
    <2>1. ASSUME NEW u \in Uploaders, FindFree(u) PROVE UploadersOK'
      <3>1. \A r \in Rounds : round[r].file \in Files \cup {None}
        BY IsRound DEF RoundType, StateType
      <3> QED
        BY <2>1, <3>1 DEF FindFree, UploadersOK
    <2>2. ASSUME NEW u \in Uploaders, SaveUpload(u) PROVE UploadersOK'
      BY <1>1, <2>2 DEF SaveUpload, UploadersOK
    <2>3. CASE Crash
      BY <1>1, <2>3 DEF Crash, UploadersOK
    <2>4. ASSUME NEW r \in Rounds, Step(r) PROVE uploading' = uploading
      BY <2>4 DEF Step, Analyst, Transform, Code, AwaitSandbox, FindName, Persist, Validate,
         Select, Propose, Gate, Truncate, Write, Only, outside
    <2>5. CASE Execution \/ RunChild
      BY <2>5 DEF Execution, ExecuteConfig, ExecuteTrain, ExecuteLoad, ExecuteStore, RunChild,
         outside, UploadersOK
    <2>6. ASSUME NEW r \in Rounds,
                 \/ Start(r) \/ Cancel(r) \/ ExecuteGate(r)
                 \/ Approve(r) \/ Reject(r) \/ WorkerSaves(r)
          PROVE  uploading' = uploading
      BY <2>6 DEF Start, Cancel, ExecuteGate, Approve, Reject, WorkerSaves, Only, outside
    <2>7. CASE UNCHANGED vars
      BY <2>7 DEF vars, outside, UploadersOK
    <2> QED
      BY <2>1, <2>2, <2>3, <2>4, <2>5, <2>6, <2>7 DEF Next, People, UploadersOK
  <1> QED
    BY <1>2, <1>3, TypedAlways, PTL DEF Spec

(* Whatever rounds, people and executions do, and wherever a crash cuts them,  *)
(* the state agentic_round.py keeps of a round, the files it uploads, its      *)
(* proposal and the record it writes have the types the next step reads: what  *)
(* is to be validated is a file that is there.                                 *)
THEOREM TypeCorrect == Spec => []TypeOK
  <1>1. Typed /\ UploadersOK => TypeOK
    BY DEF Typed, TypeOK
  <1> QED
    BY <1>1, TypedAlways, UploadersTyped, PTL

-----------------------------------------------------------------------------
(* What an answer becomes *)

LEMMA AtMostIs ==
  ASSUME NEW n \in Nat, NEW k \in Nat
  PROVE  AtMost(n, k) \in Nat /\ AtMost(n, k) <= n /\ AtMost(n, k) <= k
  BY DEF AtMost

LEMMA AtLeastOneIs ==
  ASSUME NEW n \in Nat
  PROVE  AtLeastOne(n) \in Nat \ {0} /\ n <= AtLeastOne(n) /\ AtLeastOne(n) <= n + 1
  BY DEF AtLeastOne

LEMMA FirstIs ==
  ASSUME NEW S, IsFiniteSet(S), NEW n \in Nat, NEW T \in First(S, n)
  PROVE  T \subseteq S /\ IsFiniteSet(T) /\ Cardinality(T) \in Nat /\ Cardinality(T) <= n
  <1>1. T \subseteq S /\ Cardinality(T) = AtMost(Cardinality(S), n)
    BY DEF First
  <1>2. Cardinality(S) \in Nat /\ IsFiniteSet(T)
    BY <1>1, FS_CardinalityType, FS_Subset
  <1> QED
    BY <1>1, <1>2, AtMostIs

(* A set that goes one to one into one with a bound has that bound.           *)
LEMMA Smaller ==
  ASSUME NEW S, NEW T, IsFiniteSet(T), NEW f \in [S -> T],
         \A a, b \in S : f[a] = f[b] => a = b
  PROVE  IsFiniteSet(S) /\ Cardinality(S) \in Nat /\ Cardinality(S) <= Cardinality(T)
  <1>1. f \in Injection(S, T)
    BY Fun_IsInj
  <1>2. IsFiniteSet(S) /\ Cardinality(S) <= Cardinality(T)
    BY <1>1, FS_Injection
  <1> QED
    BY <1>2, FS_CardinalityType

LEMMA Product ==
  ASSUME NEW S, NEW T, IsFiniteSet(S), IsFiniteSet(T)
  PROVE  /\ IsFiniteSet(S \X T) /\ Cardinality(S) \in Nat /\ Cardinality(T) \in Nat
         /\ Cardinality(S \X T) = Cardinality(S) * Cardinality(T)
  BY FS_Product, FS_CardinalityType

LEMMA UpTo == ASSUME NEW n \in Nat PROVE IsFiniteSet(1 .. n) /\ Cardinality(1 .. n) = n
  <1>1. n \in Int /\ 1 \in Int /\ (1 > n => n = 0) /\ n - 1 + 1 = n
    OBVIOUS
  <1> QED
    BY <1>1, FS_Interval

(* There are finitely many ways to give values to finitely many parameters:   *)
(* a smallest set of parameters without this would have a parameter less.     *)
LEMMA FiniteValues ==
  ASSUME NEW D, IsFiniteSet(D), NEW n \in Nat
  PROVE  IsFiniteSet([D -> 1 .. n])
  <1> DEFINE Bad == {E \in SUBSET D : ~IsFiniteSet([E -> 1 .. n])}
  <1> SUFFICES ASSUME Bad # {} PROVE FALSE
    OBVIOUS
  <1>1. Bad \subseteq FiniteSubsetsOf(D)
    BY FS_FiniteSubsetsOfFinite
  <1>2. PICK E \in Bad : \A F \in Bad : ~(<<F, E>> \in StrictSubsetOrdering(D))
    <2> HIDE DEF Bad
    <2> QED
      BY <1>1, FS_StrictSubsetOrderingWellFounded, WFMin
  <1>3. CASE E = {}
    <2>1. \A v, w \in [E -> 1 .. n] : v = w
      BY <1>3
    <2> DEFINE f == [v \in [E -> 1 .. n] |-> 1]
    <2>2. f \in [[E -> 1 .. n] -> 1 .. 1]
      OBVIOUS
    <2>3. IsFiniteSet(1 .. 1)
      BY UpTo
    <2> HIDE DEF f
    <2>4. IsFiniteSet([E -> 1 .. n])
      BY <2>1, <2>2, <2>3, Smaller
    <2> QED
      BY <1>2, <2>4
  <1>4. CASE E # {}
    <2>1. PICK x \in E : TRUE
      BY <1>4
    <2> DEFINE F == E \ {x}
    <2>2. <<F, E>> \in StrictSubsetOrdering(D)
      BY <2>1 DEF StrictSubsetOrdering
    <2>3. IsFiniteSet([F -> 1 .. n])
      BY <1>2, <2>2
    <2>4. IsFiniteSet([F -> 1 .. n] \X (1 .. n))
      BY <2>3, UpTo, Product
    <2> DEFINE f == [v \in [E -> 1 .. n] |-> <<[k \in F |-> v[k]], v[x]>>]
    <2>5. f \in [[E -> 1 .. n] -> [F -> 1 .. n] \X (1 .. n)]
      BY <2>1
    <2>6. ASSUME NEW v \in [E -> 1 .. n], NEW w \in [E -> 1 .. n], f[v] = f[w] PROVE v = w
      <3>1. [k \in F |-> v[k]] = [k \in F |-> w[k]] /\ v[x] = w[x]
        BY <2>6
      <3>2. \A k \in F : v[k] = w[k]
        BY <3>1
      <3>3. \A k \in E : v[k] = w[k]
        BY <3>1, <3>2
      <3> QED
        BY <3>3
    <2> HIDE DEF f, F
    <2>7. IsFiniteSet([E -> 1 .. n])
      BY <2>4, <2>5, <2>6, Smaller
    <2> QED
      BY <1>2, <2>7
  <1> QED
    BY <1>3, <1>4

Grid(g) == IsFiniteSet(DOMAIN g) /\ g \in [DOMAIN g -> Nat]

LEMMA CombinationsFinite ==
  ASSUME NEW g, IsFiniteSet(DOMAIN g)
  PROVE  IsFiniteSet(Combinations(g)) /\ Cardinality(Combinations(g)) \in Nat
  <1>1. IsFiniteSet([DOMAIN g -> 1 .. MaxValues])
    BY FiniteValues, ValuesAssumption
  <1>2. Combinations(g) \in SUBSET [DOMAIN g -> 1 .. MaxValues]
    BY DEF Combinations
  <1> QED
    BY <1>1, <1>2, FS_Subset, FS_CardinalityType

LEMMA InCombinations ==
  ASSUME NEW g, Grid(g), NEW v \in Combinations(g), NEW k \in DOMAIN g
  PROVE  v \in [DOMAIN g -> 1 .. MaxValues] /\ v[k] \in 1 .. g[k]
  BY ValuesAssumption DEF Combinations, Grid

(* No parameter, one with four values, or two with two each: four at most.    *)
LEMMA FewCombinations ==
  ASSUME NEW g, Grid(g), Cardinality(DOMAIN g) <= 2,
         \A k \in DOMAIN g : g[k] <= IF Cardinality(DOMAIN g) = 2 THEN 2 ELSE 4
  PROVE  Cardinality(Combinations(g)) <= 4
  <1> DEFINE D == DOMAIN g
             C == Combinations(g)
  <1>1. IsFiniteSet(D) /\ Cardinality(D) \in {0, 1, 2}
    <2>1. Cardinality(D) \in Nat
      BY FS_CardinalityType DEF Grid
    <2> QED
      BY <2>1 DEF Grid
  <1>2. \A v \in C : v \in [D -> 1 .. MaxValues] /\ \A k \in D : v[k] \in 1 .. g[k]
    <2> SUFFICES ASSUME NEW v \in C
                 PROVE  v \in [D -> 1 .. MaxValues] /\ \A k \in D : v[k] \in 1 .. g[k]
      OBVIOUS
    <2>1. v \in [D -> 1 .. MaxValues]
      BY DEF Combinations
    <2> QED
      BY <2>1, InCombinations
  <1>3. CASE Cardinality(D) = 0
    <2>1. D = {}
      BY <1>1, <1>3, FS_EmptySet
    <2> DEFINE f == [v \in C |-> 1]
    <2>2. f \in [C -> 1 .. 1] /\ \A v, w \in C : v = w
      BY <1>2, <2>1
    <2> HIDE DEF f, C, D
    <2>3. IsFiniteSet(1 .. 1) /\ Cardinality(1 .. 1) = 1
      BY UpTo
    <2>4. Cardinality(C) \in Nat /\ Cardinality(C) <= 1
      BY <2>2, <2>3, Smaller
    <2> QED
      BY <2>4 DEF C
  <1>4. CASE Cardinality(D) = 1
    <2>1. PICK k : D = {k}
      BY <1>1, <1>4, FS_Singleton
    <2>2. g[k] \in Nat /\ g[k] <= 4
      BY <1>4, <2>1 DEF Grid
    <2> DEFINE f == [v \in C |-> v[k]]
    <2>3. f \in [C -> 1 .. 4]
      BY <1>2, <2>1, <2>2
    <2>4. ASSUME NEW v \in C, NEW w \in C, f[v] = f[w] PROVE v = w
      <3>1. v[k] = w[k] /\ v \in [{k} -> 1 .. MaxValues] /\ w \in [{k} -> 1 .. MaxValues]
        BY <1>2, <2>1, <2>4
      <3> QED
        BY <3>1
    <2> HIDE DEF f, C, D
    <2>5. IsFiniteSet(1 .. 4) /\ Cardinality(1 .. 4) = 4
      BY UpTo
    <2>6. Cardinality(C) \in Nat /\ Cardinality(C) <= 4
      BY <2>3, <2>4, <2>5, Smaller
    <2> QED
      BY <2>6 DEF C
  <1>5. CASE Cardinality(D) = 2
    <2>1. PICK k, j : D = {k, j}
      <3>1. PICK k \in D : TRUE
        BY <1>1, <1>5, FS_EmptySet
      <3>2. IsFiniteSet(D \ {k}) /\ Cardinality(D \ {k}) = 1
        BY <1>1, <1>5, <3>1, FS_RemoveElement
      <3>3. PICK j : D \ {k} = {j}
        BY <3>2, FS_Singleton
      <3>4. D = {k, j}
        BY <3>1, <3>3
      <3> QED
        BY <3>4
    <2>2. g[k] \in Nat /\ g[k] <= 2 /\ g[j] \in Nat /\ g[j] <= 2
      BY <1>5, <2>1 DEF Grid
    <2> DEFINE f == [v \in C |-> <<v[k], v[j]>>]
    <2>3. f \in [C -> (1 .. 2) \X (1 .. 2)]
      <3>1. \A v \in C : v[k] \in 1 .. 2 /\ v[j] \in 1 .. 2
        BY <1>2, <2>1, <2>2
      <3> QED
        BY <3>1
    <2>4. ASSUME NEW v \in C, NEW w \in C, f[v] = f[w] PROVE v = w
      <3>1. /\ v[k] = w[k] /\ v[j] = w[j]
            /\ v \in [{k, j} -> 1 .. MaxValues] /\ w \in [{k, j} -> 1 .. MaxValues]
        BY <1>2, <2>1, <2>4
      <3> QED
        BY <3>1
    <2> HIDE DEF f, C, D
    <2>5. IsFiniteSet((1 .. 2) \X (1 .. 2)) /\ Cardinality((1 .. 2) \X (1 .. 2)) = 2 * 2
      <3>1. IsFiniteSet(1 .. 2) /\ Cardinality(1 .. 2) = 2
        BY UpTo
      <3> QED
        BY <3>1, FS_Product
    <2>6. Cardinality(C) \in Nat /\ Cardinality(C) <= 2 * 2
      BY <2>3, <2>4, <2>5, Smaller
    <2> QED
      BY <2>6 DEF C
  <1> QED
    BY <1>1, <1>3, <1>4, <1>5

(* What is saved, and executed: no more than fits into a batch.               *)
Padded(g) == [k \in DOMAIN g |-> AtLeastOne(g[k])]
Fit(p) ==
  /\ IsFiniteSet(p.models) /\ Cardinality(p.models) <= 4
  /\ p.seeds \in 1 .. 3
  /\ IsFiniteSet(DOMAIN p.grid) /\ p.grid \in [DOMAIN p.grid -> 0 .. MaxValues]
  /\ Cardinality(Combinations(Padded(p.grid))) <= 4

LEMMA PaddedGrid ==
  ASSUME NEW g, Grid(g)
  PROVE  /\ DOMAIN Padded(g) = DOMAIN g /\ Grid(Padded(g))
         /\ \A k \in DOMAIN g : Padded(g)[k] = AtLeastOne(g[k])
  BY AtLeastOneIs DEF Padded, Grid

(* A capped answer is one that fits.                                          *)
LEMMA CapFits ==
  ASSUME NEW a, IsAnswer(a), NEW c \in Cap(a)
  PROVE  Fit(c)
  <1>1. PICK models \in First(a.models, 3), keys \in First(DOMAIN a.grid, 2) :
          c = [models |-> models, seeds |-> AtMost(AtLeastOne(a.seeds), 3),
               grid |-> [k \in keys |->
                           AtMost(a.grid[k], 4 \div AtLeastOne(Cardinality(keys)))]]
    BY DEF Cap
  <1>2. /\ IsFiniteSet(models) /\ Cardinality(models) \in Nat /\ Cardinality(models) <= 3
        /\ IsFiniteSet(keys) /\ Cardinality(keys) \in Nat /\ Cardinality(keys) <= 2
        /\ keys \subseteq DOMAIN a.grid
    BY FirstIs DEF IsAnswer
  <1>3. AtMost(AtLeastOne(a.seeds), 3) \in 1 .. 3
    BY DEF IsAnswer, AtMost, AtLeastOne
  <1> DEFINE most == 4 \div AtLeastOne(Cardinality(keys))
             g == [k \in keys |-> AtMost(a.grid[k], most)]
  <1>4. most \in Nat /\ most >= 1 /\ most <= IF Cardinality(keys) = 2 THEN 2 ELSE 4
    <2>1. Cardinality(keys) \in {0, 1, 2}
      BY <1>2
    <2> QED
      BY <2>1 DEF AtLeastOne
  <1> HIDE DEF most
  <1>5. ASSUME NEW k \in keys PROVE g[k] \in 0 .. MaxValues /\ g[k] <= most
    <2>1. a.grid[k] \in 0 .. MaxValues
      BY <1>2 DEF IsAnswer
    <2>2. AtMost(a.grid[k], most) \in Nat /\ AtMost(a.grid[k], most) <= a.grid[k]
          /\ AtMost(a.grid[k], most) <= most
      <3>1. a.grid[k] \in Nat /\ most \in Nat
        BY <1>4, <2>1, ValuesAssumption
      <3> QED
        BY <3>1, AtMostIs
    <2>3. g[k] = AtMost(a.grid[k], most)
      OBVIOUS
    <2> HIDE DEF g
    <2> QED
      BY <2>1, <2>2, <2>3, ValuesAssumption
  <1>6. DOMAIN g = keys /\ g \in [keys -> 0 .. MaxValues] /\ Grid(g)
    BY <1>2, <1>5, ValuesAssumption DEF Grid
  <1> HIDE DEF g
  <1>7. Cardinality(Combinations(Padded(g))) <= 4
    <2>1. /\ DOMAIN Padded(g) = keys /\ Grid(Padded(g))
          /\ \A k \in keys : Padded(g)[k] = AtLeastOne(g[k])
      BY <1>6, PaddedGrid
    <2>2. ASSUME NEW k \in keys PROVE Padded(g)[k] <= most
      <3>1. g[k] \in Nat /\ g[k] <= most
        BY <1>5, ValuesAssumption
      <3> QED
        BY <1>4, <2>1, <3>1 DEF AtLeastOne
    <2>3. \A k \in keys : Padded(g)[k] <= IF Cardinality(keys) = 2 THEN 2 ELSE 4
      <3>1. \A k \in keys : Padded(g)[k] \in Nat
        BY <2>1 DEF Grid
      <3> QED
        BY <1>4, <2>2, <3>1
    <2> QED
      BY <1>2, <2>1, <2>3, FewCombinations
  <1>8. c.models = models /\ c.seeds = AtMost(AtLeastOne(a.seeds), 3) /\ c.grid = g
    BY <1>1 DEF g, most
  <1> QED
    BY <1>2, <1>3, <1>6, <1>7, <1>8 DEF Fit

LEMMA RecommendedFits == Fit(Recommended)
  <1> DEFINE n == AtMost(Len(Ranked), 3)
  <1>1. Len(Ranked) \in Nat
    BY RankedAssumption
  <1>2. n \in Nat /\ n <= 3
    BY <1>1, AtMostIs
  <1>3. IsFiniteSet(Recommended.models) /\ Cardinality(Recommended.models) <= 4
    <2>1. CASE Ranked = <<>>
      <3>1. Recommended.models = {LogisticRegression}
        BY <2>1 DEF Recommended
      <3> QED
        <4>1. IsFiniteSet({LogisticRegression}) /\ Cardinality({LogisticRegression}) = 1
          BY FS_Singleton
        <4> QED
          BY <3>1, <4>1
    <2>2. CASE Ranked # <<>>
      <3>1. Recommended.models = {Ranked[i] : i \in 1 .. n}
        BY <2>2 DEF Recommended, Recommend
      <3> HIDE DEF n
      <3> DEFINE S == {Ranked[i] : i \in 1 .. n}
                 f == [i \in 1 .. n |-> Ranked[i]]
      <3>2. f \in Surjection(1 .. n, S)
        <4>1. f \in [1 .. n -> S] /\ \A x \in S : \E i \in 1 .. n : f[i] = x
          OBVIOUS
        <4> HIDE DEF f, S
        <4> QED
          BY <4>1, Fun_IsSurj
      <3>3. IsFiniteSet(1 .. n) /\ Cardinality(1 .. n) = n
        BY <1>2, UpTo
      <3> HIDE DEF f, S
      <3>4. IsFiniteSet(S) /\ Cardinality(S) <= n /\ Cardinality(S) \in Nat
        BY <3>2, <3>3, FS_Surjection, FS_CardinalityType
      <3> QED
        <4>1. S = Recommended.models
          BY <3>1 DEF S
        <4> QED
          BY <1>2, <3>4, <4>1
    <2> QED
      BY <2>1, <2>2
  <1>4. Recommended.grid = <<>> /\ Recommended.seeds = 3
    BY DEF Recommended
  <1>5. DOMAIN Recommended.grid = {} /\ Grid(Recommended.grid)
    BY <1>4, FS_EmptySet DEF Grid
  <1>6. Cardinality(Combinations(Padded(Recommended.grid))) <= 4
    <2>1. DOMAIN Padded(Recommended.grid) = {} /\ Grid(Padded(Recommended.grid))
      BY <1>5, PaddedGrid
    <2> QED
      BY <2>1, FS_EmptySet, FewCombinations
  <1>7. Recommended.grid \in [DOMAIN Recommended.grid -> 0 .. MaxValues]
    BY <1>5 DEF Grid
  <1> QED
    BY <1>3, <1>4, <1>5, <1>6, <1>7 DEF Fit, Grid

(* What a worker saves under another's id was accepted, and so fits.           *)
LEMMA AcceptedFits ==
  ASSUME NEW a, IsAnswer(a), Accepts(Normalize(a))
  PROVE  Fit(Normalize(a))
  <1>1. /\ Normalize(a).models = a.models \cap Known
        /\ Normalize(a).seeds = AtLeastOne(a.seeds) /\ Normalize(a).grid = a.grid
    BY DEF Normalize, IsAnswer
  <1>2. IsFiniteSet(Normalize(a).models)
    BY <1>1, FS_Intersection DEF IsAnswer
  <1>3. Normalize(a).seeds \in 1 .. 3
    <2>1. Normalize(a).seeds \in Nat \ {0}
      BY <1>1, AtLeastOneIs DEF IsAnswer
    <2> QED
      BY <2>1 DEF Accepts
  <1>4. /\ Cardinality(Normalize(a).models) <= 4
        /\ Cardinality(Combinations(Padded(Normalize(a).grid))) <= 4
    BY DEF Accepts, Padded
  <1> QED
    BY <1>1, <1>2, <1>3, <1>4 DEF Fit, IsAnswer

(* The grid of one model takes no more combinations than the whole one: give  *)
(* what it does not know the first value.                                     *)
LEMMA FewParameters ==
  ASSUME NEW p, Fit(p), NEW m
  PROVE  IsFiniteSet(Parameters(p, m)) /\ Cardinality(Parameters(p, m)) <= 4
  <1> DEFINE K == DOMAIN p.grid \cap Params[m]
             kept == Kept(p, m)
             C == Combinations(kept)
             W == Combinations(Padded(p.grid))
  <1>1. /\ Grid(p.grid) /\ DOMAIN Padded(p.grid) = DOMAIN p.grid
        /\ \A k \in DOMAIN p.grid :
             /\ p.grid[k] \in 0 .. MaxValues
             /\ Padded(p.grid)[k] = AtLeastOne(p.grid[k])
    <2>1. Grid(p.grid)
      BY ValuesAssumption DEF Fit, Grid
    <2> QED
      BY <2>1, PaddedGrid DEF Fit
  <1>2. /\ IsFiniteSet(W) /\ Cardinality(W) \in Nat /\ Cardinality(W) <= 4
    BY <1>1, CombinationsFinite DEF Fit
  <1>3. DOMAIN kept = K /\ K \subseteq DOMAIN p.grid /\ \A k \in K : kept[k] = p.grid[k]
    BY DEF Kept
  <1> DEFINE e(v) == [k \in DOMAIN p.grid |-> IF k \in K THEN v[k] ELSE 1]
  <1>4. ASSUME NEW v \in C PROVE v \in [K -> 1 .. MaxValues] /\ e(v) \in W
    <2>1. v \in [K -> 1 .. MaxValues] /\ \A k \in K : v[k] <= p.grid[k]
      BY <1>3 DEF Combinations
    <2>2. ASSUME NEW k \in DOMAIN p.grid
          PROVE  e(v)[k] \in 1 .. MaxValues /\ e(v)[k] <= Padded(p.grid)[k]
      <3>1. CASE k \in K
        <4>1. v[k] \in 1 .. MaxValues /\ v[k] <= p.grid[k] /\ e(v)[k] = v[k]
          BY <2>1, <3>1
        <4>2. p.grid[k] \in Nat /\ Padded(p.grid)[k] = AtLeastOne(p.grid[k])
          BY <1>1, ValuesAssumption
        <4> HIDE DEF e, K
        <4> QED
          BY <4>1, <4>2, AtLeastOneIs, ValuesAssumption
      <3>2. CASE k \notin K
        <4>1. e(v)[k] = 1
          BY <3>2
        <4>2. p.grid[k] \in Nat /\ Padded(p.grid)[k] = AtLeastOne(p.grid[k])
          BY <1>1, ValuesAssumption
        <4> HIDE DEF e, K
        <4> QED
          BY <4>1, <4>2, AtLeastOneIs, ValuesAssumption
      <3> QED
        BY <3>1, <3>2
    <2>3. e(v) \in [DOMAIN p.grid -> 1 .. MaxValues]
      BY <2>2
    <2> HIDE DEF e, K
    <2> QED
      BY <1>1, <2>1, <2>2, <2>3 DEF Combinations
  <1> DEFINE f == [v \in C |-> e(v)]
  <1>5. f \in [C -> W]
    <2> HIDE DEF e, W, C
    <2> QED
      BY <1>4
  <1>6. ASSUME NEW v \in C, NEW w \in C, f[v] = f[w] PROVE v = w
    <2>1. v \in [K -> 1 .. MaxValues] /\ w \in [K -> 1 .. MaxValues]
      BY <1>4
    <2>2. e(v) = e(w)
      BY <1>6
    <2>3. \A k \in K : e(v)[k] = v[k] /\ e(w)[k] = w[k]
      BY <1>3
    <2> HIDE DEF e, K
    <2> QED
      BY <2>1, <2>2, <2>3
  <1> HIDE DEF f, C, W, e, K, kept
  <1>7. IsFiniteSet(C) /\ Cardinality(C) \in Nat /\ Cardinality(C) <= 4
    BY <1>2, <1>5, <1>6, Smaller
  <1>8. Parameters(p, m) = IF C = {} THEN {<<>>} ELSE C
    BY DEF Parameters, C, kept
  <1>9. IsFiniteSet({<<>>}) /\ Cardinality({<<>>}) = 1
    BY FS_Singleton
  <1> QED
    BY <1>7, <1>8, <1>9

(* Four models with three seeds and four combinations are all a batch takes.  *)
LEMMA FewEntries ==
  ASSUME NEW p, Fit(p)
  PROVE  Cardinality(Entries(p)) \in Nat /\ Cardinality(Entries(p)) <= MaxEntries
  <1> DEFINE E == Entries(p)
             G(m) == Injection(Parameters(p, m), 1 .. 4)
             g == [m \in p.models |-> CHOOSE f \in G(m) : TRUE]
             f == [e \in E |-> <<e.model, <<e.seed, g[e.model][e.parameters]>>>>]
             T == p.models \X ((1 .. 3) \X (1 .. 4))
  <1>1. ASSUME NEW m \in p.models PROVE g[m] \in G(m)
    <2>1. \E h : h \in G(m)
      <3>1. IsFiniteSet(Parameters(p, m)) /\ Cardinality(Parameters(p, m)) <= 4
        BY FewParameters
      <3> DEFINE n == Cardinality(Parameters(p, m))
      <3>2. n \in Nat /\ n <= 4 /\ ExistsBijection(1 .. n, Parameters(p, m))
        BY <3>1, FS_CardinalityType
      <3> HIDE DEF n
      <3>3. ExistsBijection(Parameters(p, m), 1 .. n)
        BY <3>2, Fun_ExistsBijSymmetric
      <3>4. PICK h : h \in Bijection(Parameters(p, m), 1 .. n)
        BY <3>3 DEF ExistsBijection
      <3>5. /\ h \in [Parameters(p, m) -> 1 .. n]
            /\ \A a, b \in Parameters(p, m) : h[a] = h[b] => a = b
        <4>1. h \in Injection(Parameters(p, m), 1 .. n)
          BY <3>4, Fun_BijectionProperties
        <4> QED
          BY <4>1, Fun_InjectionProperties
      <3>6. h \in [Parameters(p, m) -> 1 .. 4]
        BY <3>2, <3>5
      <3> QED
        BY <3>5, <3>6, Fun_IsInj
    <2> HIDE DEF G
    <2> QED
      BY <2>1
  <1>2. ASSUME NEW m \in p.models
        PROVE  /\ g[m] \in [Parameters(p, m) -> 1 .. 4]
               /\ \A a, b \in Parameters(p, m) : g[m][a] = g[m][b] => a = b
    <2> HIDE DEF g
    <2> QED
      BY <1>1, Fun_InjectionProperties
  <1>3. ASSUME NEW e \in E
        PROVE  /\ e.model \in p.models /\ e.seed \in 1 .. 3
               /\ e.parameters \in Parameters(p, e.model)
               /\ e = [model |-> e.model, seed |-> e.seed, parameters |-> e.parameters]
    <2>1. PICK m \in p.models :
            \E s \in 1 .. p.seeds, v \in Parameters(p, m) :
              e = [model |-> m, seed |-> s, parameters |-> v]
      BY DEF Entries
    <2> QED
      BY <2>1 DEF Fit
  <1> HIDE DEF g, E
  <1>4. f \in [E -> T]
    <2> SUFFICES ASSUME NEW e \in E
                 PROVE  <<e.model, <<e.seed, g[e.model][e.parameters]>>>> \in T
      OBVIOUS
    <2>1. g[e.model][e.parameters] \in 1 .. 4
      BY <1>2, <1>3
    <2> QED
      BY <1>3, <2>1
  <1>5. ASSUME NEW d \in E, NEW e \in E, f[d] = f[e] PROVE d = e
    <2>1. /\ d.model = e.model /\ d.seed = e.seed
          /\ g[d.model][d.parameters] = g[e.model][e.parameters]
      BY <1>5
    <2>2. d.parameters = e.parameters
      BY <1>2, <1>3, <2>1
    <2> QED
      BY <1>3, <2>1, <2>2
  <1>6. IsFiniteSet(T) /\ Cardinality(T) <= 48
    <2> DEFINE U == (1 .. 3) \X (1 .. 4)
    <2>1. /\ IsFiniteSet(1 .. 3) /\ Cardinality(1 .. 3) = 3
          /\ IsFiniteSet(1 .. 4) /\ Cardinality(1 .. 4) = 4
      BY UpTo
    <2>2. IsFiniteSet(U) /\ Cardinality(U) = 3 * 4
      BY <2>1, FS_Product
    <2> HIDE DEF U
    <2>3. /\ IsFiniteSet(p.models \X U) /\ Cardinality(p.models) \in Nat
          /\ Cardinality(p.models \X U) = Cardinality(p.models) * Cardinality(U)
      BY <2>2, Product DEF Fit
    <2>4. Cardinality(p.models) <= 4 /\ T = p.models \X U
      BY DEF Fit, U
    <2> HIDE DEF T
    <2> QED
      BY <2>2, <2>3, <2>4
  <1> HIDE DEF f, T
  <1>7. Cardinality(E) \in Nat /\ Cardinality(E) <= Cardinality(T) /\ Cardinality(T) \in Nat
    BY <1>4, <1>5, <1>6, Smaller, FS_CardinalityType
  <1> QED
    BY <1>6, <1>7 DEF E, MaxEntries

LEMMA BatchIsWhole ==
  ASSUME NEW p, Fit(p)
  PROVE  Batch(p).entries = Entries(p) /\ Batch(p).notes = Notes(p) /\ ~Batch(p).truncated
  <1> DEFINE n == Cardinality(Entries(p))
  <1>1. n \in Nat /\ n <= MaxEntries
    BY FewEntries
  <1>2. ~(n > MaxEntries)
    BY <1>1 DEF MaxEntries
  <1> QED
    BY <1>1, <1>2 DEF Batch

(* Each value of each parameter a model knows is in one of its entries.       *)
LEMMA ValueTrained ==
  ASSUME NEW p, Fit(p), \A k \in DOMAIN p.grid : p.grid[k] > 0,
         NEW m \in p.models, NEW k \in DOMAIN p.grid, NEW v \in 1 .. p.grid[k]
  PROVE  \/ <<m, k>> \in Notes(p)
         \/ \E e \in Entries(p) :
              e.model = m /\ k \in DOMAIN e.parameters /\ e.parameters[k] = v
  <1>1. CASE k \notin Params[m]
    BY <1>1 DEF Notes
  <1>2. CASE k \in Params[m]
    <2> DEFINE K == DOMAIN p.grid \cap Params[m]
               values == [j \in K |-> IF j = k THEN v ELSE 1]
    <2>1. \A j \in DOMAIN p.grid : p.grid[j] \in 1 .. MaxValues
      BY ValuesAssumption DEF Fit
    <2>2. \A j \in K : values[j] \in 1 .. MaxValues /\ values[j] <= p.grid[j]
      BY <2>1, ValuesAssumption
    <2>3. values \in [K -> 1 .. MaxValues]
      BY <2>2
    <2>4. DOMAIN Kept(p, m) = K /\ \A j \in K : Kept(p, m)[j] = p.grid[j]
      BY DEF Kept
    <2>5. k \in DOMAIN values /\ values[k] = v
      BY <1>2
    <2> HIDE DEF values, K
    <2>6. values \in Combinations(Kept(p, m))
      BY <2>2, <2>3, <2>4 DEF Combinations
    <2>7. values \in Parameters(p, m)
      BY <2>6 DEF Parameters
    <2>8. 1 \in 1 .. p.seeds
      BY DEF Fit
    <2>9. [model |-> m, seed |-> 1, parameters |-> values] \in Entries(p)
      BY <2>7, <2>8 DEF Entries
    <2> QED
      BY <2>5, <2>9
  <1> QED
    BY <1>1, <1>2

-----------------------------------------------------------------------------
(* What is proposed and executed fits *)

ChoiceInv ==
  /\ \A r \in Rounds : round[r].pc = "propose" => Fit(round[r].selection)
  /\ \A r \in Rounds : proposals[r] # None => Fit(proposals[r].choice)
  /\ exec.pc = "config" => exec.id \in Rounds /\ Fit(proposals[exec.id].choice)
  /\ IF exec.pc = "train" THEN Fit(exec.choice) /\ exec.batch = Batch(exec.choice)
     ELSE exec.batch = None

LEMMA ChoiceMoved ==
  ASSUME IInv, ChoiceInv, NEW r \in Rounds, NEW state, Set(r, state),
         state.pc = "propose" => Fit(state.selection), UNCHANGED <<proposals, exec>>
  PROVE  ChoiceInv'
  <1>1. \A q \in Rounds : round'[q] = IF q = r THEN state ELSE round[q]
    BY DEF Set, IInv, Shape
  <1> QED
    BY <1>1 DEF ChoiceInv

LEMMA ChoiceStays ==
  ASSUME ChoiceInv, UNCHANGED <<round, proposals, exec>> PROVE ChoiceInv'
  BY DEF ChoiceInv

(* Only the selection leads to a proposal.                                    *)
LEMMA RoundPc ==
  ASSUME IInv, NEW r \in Rounds
  PROVE  /\ \A pc \in Resting \cup Blocking \cup {"analyst"} : [round[r] EXCEPT !.pc = pc].pc = pc
         /\ \A how : Skip(r, how).pc = "select" /\ DOMAIN Skip(r, how) = DOMAIN NewRound
         /\ Retry(r).pc \in {"select", "code"}
  <1>1. DOMAIN round[r] = DOMAIN NewRound
    BY DEF IInv, Fits
  <1>2. "pc" \in DOMAIN round[r]
    BY <1>1 DEF NewRound
  <1>3. \A how : Skip(r, how).pc = "select" /\ DOMAIN Skip(r, how) = DOMAIN NewRound
    BY <1>1, <1>2 DEF Skip
  <1>4. Retry(r).pc \in {"select", "code"}
    BY <1>1, <1>2, <1>3 DEF Retry, NewRound
  <1> QED
    BY <1>2, <1>3, <1>4

LEMMA StageChoice ==
  ASSUME IInv, ChoiceInv, NEW r \in Rounds,
         Start(r) \/ Analyst(r) \/ Transform(r) \/ Code(r) \/ AwaitSandbox(r)
           \/ FindName(r) \/ Persist(r) \/ Validate(r) \/ Gate(r) \/ Truncate(r) \/ Write(r)
  PROVE  ChoiceInv'
  <1>1. DOMAIN round[r] = DOMAIN NewRound /\ "pc" \in DOMAIN NewRound
    BY DEF IInv, Fits, NewRound
  <1>2. PICK state : Set(r, state) /\ state.pc # "propose"
    <2> Over("cancelled").pc = "cancelled"
      BY OverShape
    <2>1. CASE Start(r)
      <3>1. PICK provider \in BOOLEAN :
              Set(r, IF r \in cancel THEN Over("cancelled")
                     ELSE [NewRound EXCEPT !.pc = "analyst", !.provider = provider])
        BY <2>1 DEF Start
      <3>2. [NewRound EXCEPT !.pc = "analyst", !.provider = provider].pc = "analyst"
        BY DEF NewRound
      <3> QED
        BY <3>1, <3>2
    <2>2. CASE Analyst(r)
      <3>1. PICK brief \in {FALSE, round[r].provider} :
              Set(r, IF r \in cancel THEN Over("cancelled")
                     ELSE [round[r] EXCEPT !.brief = brief, !.pc = "transform"])
        BY <2>2 DEF Analyst
      <3>2. [round[r] EXCEPT !.brief = brief, !.pc = "transform"].pc = "transform"
        BY <1>1
      <3> QED
        BY <3>1, <3>2
    <2>3. CASE Transform(r)
      <3>1. PICK source, how :
              \/ Set(r, [Skip(r, how) EXCEPT !.dataset = source])
              \/ Set(r, [round[r] EXCEPT !.pc = "code", !.dataset = source])
        BY <2>3 DEF Transform
      <3>2. [Skip(r, how) EXCEPT !.dataset = source].pc = "select"
        BY RoundPc DEF NewRound
      <3>3. [round[r] EXCEPT !.pc = "code", !.dataset = source].pc = "code"
        BY <1>1
      <3> QED
        BY <3>1, <3>2, <3>3
    <2>4. CASE Code(r)
      <3>1. PICK how : Set(r, Skip(r, how)) \/ Goto(r, "sandbox")
        BY <2>4 DEF Code
      <3>2. Skip(r, how).pc = "select" /\ [round[r] EXCEPT !.pc = "sandbox"].pc = "sandbox"
        BY <1>1, RoundPc
      <3>3. Goto(r, "sandbox") => Set(r, [round[r] EXCEPT !.pc = "sandbox"])
        BY DEF Goto, Set
      <3> QED
        BY <3>1, <3>2, <3>3
    <2>5. CASE AwaitSandbox(r)
      <3>1. Set(r, Retry(r)) \/ Goto(r, "persist")
        BY <2>5 DEF AwaitSandbox
      <3>2. Retry(r).pc # "propose" /\ [round[r] EXCEPT !.pc = "persist"].pc = "persist"
        BY <1>1, RoundPc
      <3>3. Goto(r, "persist") => Set(r, [round[r] EXCEPT !.pc = "persist"])
        BY DEF Goto, Set
      <3> QED
        BY <3>1, <3>2, <3>3
    <2>6. CASE Persist(r)
      <3>1. Set(r, [round[r] EXCEPT !.pc = "validate"])
        BY <2>6 DEF Persist, Goto, Set
      <3>2. [round[r] EXCEPT !.pc = "validate"].pc = "validate"
        BY <1>1
      <3> QED
        BY <3>1, <3>2
    <2>11. CASE FindName(r)
      <3>1. PICK n : Set(r, [round[r] EXCEPT !.pc = "copy", !.file = n])
        BY <2>11 DEF FindName
      <3>2. [round[r] EXCEPT !.pc = "copy", !.file = n].pc = "copy"
        BY <1>1
      <3> QED
        BY <3>1, <3>2
    <2>7. CASE Validate(r)
      <3> DEFINE passed == [round[r] EXCEPT !.pc = "select", !.transform = "completed",
                                            !.dataset = round[r].file]
                 raised == [Over("raised") EXCEPT !.file = round[r].file]
      <3>1. passed.pc = "select" /\ raised.pc = "raised" /\ Retry(r).pc # "propose"
        BY <1>1, RoundPc DEF Over, NewRound
      <3>2. Set(r, passed) \/ Set(r, raised) \/ Set(r, Retry(r))
        BY <2>7 DEF Validate
      <3> HIDE DEF passed, raised
      <3> QED
        BY <3>1, <3>2
    <2>8. CASE Gate(r)
      <3>1. PICK status : Set(r, [round[r] EXCEPT !.pc = "truncate", !.status = status])
        BY <2>8 DEF Gate
      <3>2. [round[r] EXCEPT !.pc = "truncate", !.status = status].pc = "truncate"
        BY <1>1
      <3> QED
        BY <3>1, <3>2
    <2>9. CASE Truncate(r)
      <3>1. Set(r, [round[r] EXCEPT !.pc = "write"])
        BY <2>9 DEF Truncate, Goto, Set
      <3>2. [round[r] EXCEPT !.pc = "write"].pc = "write"
        BY <1>1
      <3> QED
        BY <3>1, <3>2
    <2>10. CASE Write(r)
      BY <2>10 DEF Write, Over, NewRound
    <2> QED
      BY <2>1, <2>2, <2>3, <2>4, <2>5, <2>6, <2>7, <2>8, <2>9, <2>10, <2>11
  <1>3. UNCHANGED <<proposals, exec>>
    BY DEF Start, Analyst, Transform, Code, AwaitSandbox, FindName, Persist, Validate, Gate, Truncate,
           Write, Only, store
  <1> QED
    BY <1>2, <1>3, ChoiceMoved

LEMMA SelectChoice == ASSUME IInv, ChoiceInv, NEW r \in Rounds, Select(r) PROVE ChoiceInv'
  <1>1. UNCHANGED <<proposals, exec>>
    BY DEF Select, Only, store
  <1>2. CASE r \in cancel
    <2>1. Set(r, Over("cancelled")) /\ Over("cancelled").pc = "cancelled"
      BY <1>2 DEF Select, Over, NewRound
    <2> QED
      BY <1>1, <2>1, ChoiceMoved
  <1>3. CASE Set(r, Over("raised"))
    <2>1. Over("raised").pc = "raised"
      BY DEF Over, NewRound
    <2> QED
      BY <1>1, <1>3, <2>1, ChoiceMoved
  <1>4. CASE r \notin cancel /\ ~Set(r, Over("raised"))
    <2>1. PICK s \in Selections(r) :
            Set(r, [NewRound EXCEPT !.pc = "propose", !.dataset = round[r].dataset,
                      !.selection = s.choice, !.llm = s.llm, !.agentic = Agentic(r, s.llm)])
      BY <1>4 DEF Select
    <2>2. Fit(s.choice)
      <3>1. CASE s = [llm |-> FALSE, choice |-> Recommended]
        BY <3>1, RecommendedFits
      <3>2. CASE s # [llm |-> FALSE, choice |-> Recommended]
        <4>1. PICK answer \in Answers[r] \cup {ForTask(b) : b \in Answers[r]} :
                \E choice \in Cap(answer) : s = [llm |-> TRUE, choice |-> choice]
          BY <3>2 DEF Selections
        <4>2. IsAnswer(answer)
          <5>1. \A a \in Answers[r] : IsAnswer(a)
            BY AnswersAssumption
          <5>2. \A a \in Answers[r] : IsAnswer(ForTask(a))
            <6>1. ASSUME NEW a \in Answers[r] PROVE IsAnswer(ForTask(a))
              <7>1. /\ DOMAIN ForTask(a) = {"models", "seeds", "grid"}
                    /\ ForTask(a).models = a.models \cap TaskModels
                    /\ ForTask(a).seeds = a.seeds /\ ForTask(a).grid = a.grid
                BY <5>1 DEF IsAnswer, ForTask
              <7>2. IsFiniteSet(a.models \cap TaskModels)
                BY <5>1, FS_Intersection DEF IsAnswer
              <7> QED
                BY <5>1, <7>1, <7>2 DEF IsAnswer
            <6> QED
              BY <6>1
          <5> QED
            BY <5>1, <5>2
        <4>3. PICK choice \in Cap(answer) : s = [llm |-> TRUE, choice |-> choice]
          BY <4>1
        <4> QED
          BY <4>2, <4>3, CapFits
      <3> QED
        BY <3>1, <3>2
    <2> DEFINE state == [NewRound EXCEPT !.pc = "propose", !.dataset = round[r].dataset,
                           !.selection = s.choice, !.llm = s.llm, !.agentic = Agentic(r, s.llm)]
    <2>3. state.selection = s.choice
      BY DEF NewRound
    <2> HIDE DEF state
    <2>4. Set(r, state)
      BY <2>1 DEF state
    <2> QED
      BY <1>1, <2>2, <2>3, <2>4, ChoiceMoved
  <1> QED
    BY <1>2, <1>3, <1>4

LEMMA ProposeChoice == ASSUME IInv, ChoiceInv, NEW r \in Rounds, Propose(r) PROVE ChoiceInv'
  <1>1. exec' = exec /\ exec.pc = "idle"
    BY DEF Propose, IInv, Alone, Blocking
  <1>2. CASE round[r].dataset = None
    <2>1. Set(r, Over("failed")) /\ proposals' = proposals /\ Over("failed").pc = "failed"
      BY <1>2 DEF Propose, Over, NewRound
    <2> QED
      BY <1>1, <2>1, ChoiceMoved
  <1>3. CASE round[r].dataset # None
    <2> DEFINE choice == IF Accepts(round[r].selection) THEN round[r].selection ELSE Recommended
    <2>1. /\ proposals' = [proposals EXCEPT ![r] =
                              [choice |-> choice, dataset |-> round[r].dataset]]
          /\ Set(r, [Over("gate") EXCEPT !.agentic = round[r].agentic])
      BY <1>3 DEF Propose
    <2>2. Fit(choice)
      BY RecommendedFits DEF Propose, ChoiceInv
    <2>3. [Over("gate") EXCEPT !.agentic = round[r].agentic].pc = "gate"
      BY DEF Over, NewRound
    <2> HIDE DEF choice
    <2>4. \A q \in Rounds : proposals'[q] # None => Fit(proposals'[q].choice)
      BY <2>1, <2>2 DEF ChoiceInv, IInv, Shape
    <2>5. \A q \in Rounds : round'[q].pc = "propose" => Fit(round'[q].selection)
      BY <2>1, <2>3 DEF Set, ChoiceInv, IInv, Shape
    <2> QED
      BY <1>1, <2>4, <2>5 DEF ChoiceInv
  <1> QED
    BY <1>2, <1>3

LEMMA ExecutionChoice == ASSUME IInv, ChoiceInv, Execution PROVE ChoiceInv'
  <1>1. UNCHANGED <<round, proposals>> /\ DOMAIN exec = DOMAIN NoExec
    BY DEF Execution, ExecuteConfig, ExecuteTrain, ExecuteLoad, ExecuteStore, store, IInv, ExecInv
  <1>2. CASE ExecuteConfig
    <2>1. /\ exec'.pc = "train" /\ exec'.choice = proposals[exec.id].choice
          /\ exec'.batch = Batch(proposals[exec.id].choice) /\ exec.pc = "config"
      BY <1>1, <1>2 DEF ExecuteConfig, NoExec
    <2> QED
      BY <1>1, <2>1 DEF ChoiceInv
  <1>3. CASE ExecuteTrain
    <2>1. exec'.pc = "load" /\ exec'.batch = None
      BY <1>1, <1>3 DEF ExecuteTrain, NoExec
    <2> QED
      BY <1>1, <2>1 DEF ChoiceInv
  <1>4. CASE ExecuteLoad
    <2>1. exec'.pc = "store" /\ exec'.batch = exec.batch /\ exec.pc = "load"
      BY <1>1, <1>4 DEF ExecuteLoad, NoExec
    <2> QED
      BY <1>1, <2>1 DEF ChoiceInv
  <1>5. CASE ExecuteStore
    BY <1>1, <1>5 DEF ExecuteStore, NoExec, ChoiceInv
  <1> QED
    BY <1>2, <1>3, <1>4, <1>5 DEF Execution

LEMMA PeopleChoice == ASSUME IInv, ChoiceInv, People PROVE ChoiceInv'
  <1>1. ASSUME NEW r \in Rounds, Start(r) PROVE ChoiceInv'
    BY <1>1, StageChoice
  <1>2. ASSUME NEW r \in Rounds, Cancel(r) \/ Approve(r) \/ Reject(r) PROVE ChoiceInv'
    BY <1>2, ChoiceStays DEF Cancel, Approve, Reject, store
  <1>3. ASSUME NEW r \in Rounds, ExecuteGate(r) PROVE ChoiceInv'
    <2>1. /\ exec'.pc = "config" /\ exec'.id = r /\ exec'.batch = None
          /\ UNCHANGED <<round, proposals>> /\ proposals[r] # None
      BY <1>3 DEF ExecuteGate, NoExec, store
    <2> QED
      BY <2>1 DEF ChoiceInv
  <1>4. ASSUME NEW r \in Rounds, WorkerSaves(r) PROVE ChoiceInv'
    <2>1. PICK a \in Answers[r], dataset \in Elsewhere :
            /\ Accepts(Normalize(a))
            /\ proposals' = [proposals EXCEPT ![r] =
                               [choice |-> Normalize(a), dataset |-> dataset]]
      BY <1>4 DEF WorkerSaves
    <2>2. Fit(Normalize(a))
      BY <2>1, AcceptedFits, AnswersAssumption
    <2>3. DOMAIN proposals = Rounds
      BY DEF IInv, Shape
    <2>4. /\ proposals'[r].choice = Normalize(a)
          /\ \A q \in Rounds \ {r} : proposals'[q] = proposals[q]
      BY <2>1, <2>3
    <2>5. UNCHANGED <<round, exec>>
      BY <1>4 DEF WorkerSaves
    <2> QED
      BY <2>2, <2>4, <2>5 DEF ChoiceInv
  <1>5. ASSUME NEW u \in Uploaders, FindFree(u) \/ SaveUpload(u) PROVE ChoiceInv'
    BY <1>5, ChoiceStays DEF FindFree, SaveUpload, store
  <1> QED
    BY <1>1, <1>2, <1>3, <1>4, <1>5 DEF People

LEMMA CrashChoice == ASSUME IInv, ChoiceInv, Crash PROVE ChoiceInv'
  <1>1. exec'.pc = "idle" /\ exec'.batch = None /\ proposals' = proposals
    BY DEF Crash, NoExec, store
  <1>2. \A r \in Rounds : round'[r].pc = "propose" => round'[r] = round[r]
    <2>1. ASSUME NEW r \in Rounds
          PROVE  [Over("dead") EXCEPT !.file = round[r].file].pc = "dead"
      BY DEF Over, NewRound
    <2> QED
      BY <2>1 DEF Crash
  <1> QED
    BY <1>1, <1>2 DEF ChoiceInv

LEMMA InitChoice == Init => ChoiceInv
  BY DEF Init, ChoiceInv, NewRound, NoExec

LEMMA ChoiceAlways == Spec => []ChoiceInv
  <1>1. IInv /\ ChoiceInv /\ [Next]_vars => ChoiceInv'
    <2> SUFFICES ASSUME IInv, ChoiceInv, [Next]_vars PROVE ChoiceInv'
      OBVIOUS
    <2>1. ASSUME NEW r \in Rounds, Step(r) PROVE ChoiceInv'
      BY <2>1, StageChoice, SelectChoice, ProposeChoice DEF Step
    <2>2. CASE RunChild
      BY <2>2, ChoiceStays DEF RunChild, store
    <2>3. CASE UNCHANGED vars
      BY <2>3, ChoiceStays DEF vars
    <2> QED
      BY <2>1, <2>2, <2>3, ExecutionChoice, PeopleChoice, CrashChoice DEF Next
  <1> QED
    BY <1>1, InitChoice, IInvAlways, PTL DEF Spec

(* What the caps of a round let through (agentic_round.py:606-629) passes the  *)
(* count limits of the validators (worker.py:58-103), so a proposal is only    *)
(* replaced by the recommendation for what it names, and no batch is cut at 48 *)
(* entries (worker.py:198-260): for every answer, registry and set of rounds.  *)
THEOREM LimitsAgree == Spec => []CapsAgree
  <1>1. ChoiceInv => CapsAgree
    <2> SUFFICES ASSUME ChoiceInv PROVE CapsAgree
      OBVIOUS
    <2>1. ASSUME NEW p, Fit(p), ~Accepts(p)
          PROVE  \/ ~(p.models \subseteq Known)
                 \/ \E k \in DOMAIN p.grid \cap ModelKeyed : p.grid[k] > 0
      <3>1. p.seeds <= 3 /\ Cardinality(p.models) <= 4
            /\ Cardinality(Combinations([k \in DOMAIN p.grid |-> AtLeastOne(p.grid[k])])) <= 4
        BY <2>1 DEF Fit, Padded
      <3>2. \A k \in DOMAIN p.grid : p.grid[k] # 0 => p.grid[k] > 0
        BY <2>1, ValuesAssumption DEF Fit
      <3> QED
        BY <2>1, <3>1, <3>2 DEF Accepts
    <2>2. exec.batch # None => ~exec.batch.truncated
      BY BatchIsWhole DEF ChoiceInv
    <2> QED
      BY <2>1, <2>2 DEF CapsAgree, ChoiceInv
  <1> QED
    BY <1>1, ChoiceAlways, PTL

(* Each value of each parameter of an approved proposal is in some entry of    *)
(* its model, or noted as dropped for want of a constructor parameter          *)
(* (write_batch_config, worker.py:198-260), unless a list is empty.            *)
THEOREM ValuesTrainedOrNoted == Spec => []EveryValueTrainedOrNoted
  <1>1. ChoiceInv => EveryValueTrainedOrNoted
    <2> SUFFICES ASSUME ChoiceInv, exec.pc = "train",
                        \A k \in DOMAIN exec.choice.grid : exec.choice.grid[k] > 0,
                        NEW m \in exec.choice.models, NEW k \in DOMAIN exec.choice.grid,
                        NEW v \in 1 .. exec.choice.grid[k]
                 PROVE  \/ <<m, k>> \in exec.batch.notes
                        \/ \E e \in exec.batch.entries :
                             e.model = m /\ k \in DOMAIN e.parameters /\ e.parameters[k] = v
      BY DEF EveryValueTrainedOrNoted
    <2>1. Fit(exec.choice) /\ exec.batch = Batch(exec.choice)
      BY DEF ChoiceInv
    <2>2. exec.batch.entries = Entries(exec.choice) /\ exec.batch.notes = Notes(exec.choice)
      BY <2>1, BatchIsWhole
    <2> QED
      BY <2>1, <2>2, ValueTrained
  <1> QED
    BY <1>1, ChoiceAlways, PTL
=============================================================================
