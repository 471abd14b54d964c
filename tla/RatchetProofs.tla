----------------------------- MODULE RatchetProofs -----------------------------
(* That a champion was verified, and that a generation is lost only to a      *)
(* session that ran at the same time, for any number of sessions, scores,     *)
(* rounds, starts and crashes.                                                *)
(*                                                                            *)
(* The ledger alone is not inductive: what a session will write is what it    *)
(* has read, so the invariant is about the ledgers the sessions hold. The     *)
(* types rest on it, and on this: of finitely many scores one is the best.    *)
EXTENDS Ratchet, FiniteSetTheorems, TLAPS

(* Written by nobody that another session could have missed.                  *)
Kept == saved \ unseen

Verified(e) ==
  e.kind = "absorbed" =>
    /\ e.won.agentic /\ e.won.best > e.base /\ e.replay = e.won.best
    /\ e.champion.score = e.won.best
    /\ Task = "classification" => e.won.top

SessionInv(s) ==
  /\ DOMAIN s = DOMAIN Idle
  /\ s.ledger \in Seq(Nat)
  /\ s.pc \in Holding => Kept \subseteq Range(s.ledger)
  /\ s.entry # None => Verified(s.entry)
  /\ \A r \in s.rounds : Task = "classification" => r.top

LedgerInv ==
  /\ ledger = None => saved = {}
  /\ ledger \notin {None} \cup Broken =>
       ledger \in Seq(Nat) /\ Kept \subseteq Range(ledger)

IInv == /\ DOMAIN session = Sessions /\ \A p \in Sessions : SessionInv(session[p])
        /\ LedgerInv
        /\ IsFiniteSet(saved)

-----------------------------------------------------------------------------
LEMMA RangeAppend ==
  ASSUME NEW s \in Seq(Nat), NEW n \in Nat
  PROVE  Append(s, n) \in Seq(Nat) /\ Range(Append(s, n)) = Range(s) \cup {n}
  <1>1. /\ Append(s, n) \in Seq(Nat) /\ Len(s) \in Nat
        /\ DOMAIN s = 1 .. Len(s) /\ DOMAIN Append(s, n) = 1 .. Len(s) + 1
        /\ \A i \in 1 .. Len(s) : Append(s, n)[i] = s[i]
        /\ Append(s, n)[Len(s) + 1] = n
    OBVIOUS
  <1>2. 1 .. Len(s) + 1 = (1 .. Len(s)) \cup {Len(s) + 1}
    BY <1>1
  <1> QED
    BY <1>1, <1>2 DEF Range

LEMMA OverShape ==
  ASSUME NEW pc
  PROVE  /\ DOMAIN Over(pc) = DOMAIN Idle /\ Over(pc).pc = pc /\ Over(pc).ledger = <<>>
         /\ Over(pc).entry = None /\ Over(pc).rounds = {}
  BY DEF Over, Idle

LEMMA OverFits ==
  ASSUME NEW pc, pc \notin Holding PROVE SessionInv(Over(pc))
  <1>1. <<>> \in Seq(Nat)
    OBVIOUS
  <1> QED
    BY <1>1, OverShape DEF SessionInv

(* A session that moves, with what is on disk unchanged.                      *)
LEMMA Moved ==
  ASSUME IInv, NEW p \in Sessions, NEW state, Set(p, state), SessionInv(state),
         UNCHANGED <<ledger, saved, unseen>>
  PROVE  IInv'
  <1>1. /\ DOMAIN session' = Sessions
        /\ \A q \in Sessions : session'[q] = IF q = p THEN state ELSE session[q]
    BY DEF Set, IInv
  <1>2. Kept' = Kept
    BY DEF Kept
  <1>3. \A q \in Sessions : SessionInv(session[q])'
    BY <1>1, <1>2 DEF IInv, SessionInv
  <1>4. LedgerInv' /\ IsFiniteSet(saved)'
    BY <1>2 DEF IInv, LedgerInv
  <1> QED
    BY <1>1, <1>3, <1>4 DEF IInv

LEMMA FieldSet ==
  ASSUME NEW s, DOMAIN s = DOMAIN Idle
  PROVE  /\ \A x : [s EXCEPT !.pc = x].pc = x /\ DOMAIN [s EXCEPT !.pc = x] = DOMAIN Idle
         /\ \A x : /\ [s EXCEPT !.pc = x].ledger = s.ledger
                   /\ [s EXCEPT !.pc = x].entry = s.entry
                   /\ [s EXCEPT !.pc = x].rounds = s.rounds
  BY DEF Idle

LEMMA CloseFits ==
  ASSUME NEW s, SessionInv(s), s.pc \in Holding, NEW entry, Verified(entry)
  PROVE  SessionInv(Close(s, entry))
  <1>1. /\ DOMAIN Close(s, entry) = DOMAIN Idle /\ Close(s, entry).pc = "truncate"
        /\ Close(s, entry).ledger = s.ledger /\ Close(s, entry).entry = entry
        /\ Close(s, entry).rounds = {}
    BY DEF Close, Over, Idle
  <1> QED
    BY <1>1 DEF SessionInv

LEMMA ErrorFits == Verified(Error) /\ \A base : Verified([Error EXCEPT !.kind = "refused", !.base = base])
  BY DEF Verified, Error

-----------------------------------------------------------------------------
LEMMA StartInv == ASSUME IInv, NEW p \in Sessions, Start(p) PROVE IInv'
  <1>1. PICK pc \in {"load", "failed"} : Set(p, Over(pc)) /\ UNCHANGED <<ledger, saved, unseen>>
    BY DEF Start
  <1>2. pc \notin Holding
    BY DEF Holding
  <1> QED
    BY <1>1, <1>2, OverFits, Moved

LEMMA LoadInv == ASSUME IInv, NEW p \in Sessions, LoadLedger(p) PROVE IInv'
  <1>1. UNCHANGED <<ledger, saved, unseen>>
    BY DEF LoadLedger, Only
  <1>2. CASE ledger \in Broken
    <2>1. Set(p, Over("failed")) /\ "failed" \notin Holding
      BY <1>2 DEF LoadLedger, Holding
    <2> QED
      BY <1>1, <2>1, OverFits, Moved
  <1>3. CASE ledger \notin Broken
    <2> DEFINE read == IF ledger = None THEN <<>> ELSE ledger
               state == [Over("prepare") EXCEPT !.ledger = read]
    <2>1. Set(p, state)
      BY <1>3 DEF LoadLedger
    <2>2. read \in Seq(Nat) /\ Kept \subseteq Range(read)
      <3>1. <<>> \in Seq(Nat)
        OBVIOUS
      <3> QED
        BY <1>3, <3>1 DEF IInv, LedgerInv, Kept
    <2> HIDE DEF read
    <2>3. /\ DOMAIN state = DOMAIN Idle /\ state.ledger = read
          /\ state.entry = None /\ state.rounds = {}
      BY DEF Over, Idle
    <2>4. SessionInv(state)
      BY <2>2, <2>3 DEF SessionInv
    <2> HIDE DEF state
    <2> QED
      BY <1>1, <2>1, <2>4, Moved
  <1> QED
    BY <1>2, <1>3

LEMMA PrepareInv == ASSUME IInv, NEW p \in Sessions, PrepareDataset(p) PROVE IInv'
  <1>1. /\ UNCHANGED <<ledger, saved, unseen>> /\ SessionInv(session[p])
        /\ session[p].pc \in Holding
    BY DEF PrepareDataset, Only, IInv, Holding
  <1>2. CASE Set(p, Close(session[p], Error))
    BY <1>1, <1>2, CloseFits, ErrorFits, Moved
  <1>3. ASSUME NEW data, Set(p, [session[p] EXCEPT !.pc = "baseline", !.data = data])
        PROVE  IInv'
    <2> DEFINE state == [session[p] EXCEPT !.pc = "baseline", !.data = data]
    <2>1. /\ DOMAIN state = DOMAIN Idle /\ state.ledger = session[p].ledger
          /\ state.entry = session[p].entry /\ state.rounds = session[p].rounds
      BY <1>1 DEF SessionInv, Idle
    <2>2. SessionInv(state)
      BY <1>1, <2>1 DEF SessionInv
    <2> HIDE DEF state
    <2> QED
      BY <1>1, <1>3, <2>2, Moved DEF state
  <1> QED
    BY <1>2, <1>3 DEF PrepareDataset

LEMMA TryAllInv == ASSUME IInv, NEW p \in Sessions, TryAllModels(p) PROVE IInv'
  <1>1. /\ UNCHANGED <<ledger, saved, unseen>> /\ SessionInv(session[p])
        /\ session[p].pc \in Holding
    BY DEF TryAllModels, Only, IInv, Holding
  <1>2. CASE Set(p, Close(session[p], Error))
    BY <1>1, <1>2, CloseFits, ErrorFits, Moved
  <1>3. ASSUME NEW base, Set(p, [session[p] EXCEPT !.pc = "round", !.base = base])
        PROVE  IInv'
    <2> DEFINE state == [session[p] EXCEPT !.pc = "round", !.base = base]
    <2>1. /\ DOMAIN state = DOMAIN Idle /\ state.ledger = session[p].ledger
          /\ state.entry = session[p].entry /\ state.rounds = session[p].rounds
      BY <1>1 DEF SessionInv, Idle
    <2>2. SessionInv(state)
      BY <1>1, <2>1 DEF SessionInv
    <2> HIDE DEF state
    <2> QED
      BY <1>1, <1>3, <2>2, Moved DEF state
  <1> QED
    BY <1>2, <1>3 DEF TryAllModels

(* Where a round's best is its best by accuracy, and accuracy is the metric.  *)
LEMMA PossibleIsTop ==
  ASSUME NEW data, NEW r \in Possible(data), Task = "classification" PROVE r.top
  <1>1. r \in Played(data)
    BY DEF Possible
  <1>2. CASE r = NoRound
    BY <1>2 DEF NoRound
  <1>3. ASSUME NEW completed, NEW best \in BestOfRound(completed), NEW a, NEW d,
               r = [agentic |-> a, best |-> best, data |-> d, top |-> best = Max(completed)]
        PROVE  r.top
    <2>1. best = Max(completed)
      BY DEF BestOfRound
    <2> QED
      BY <1>3, <2>1
  <1> QED
    BY <1>1, <1>2, <1>3 DEF Played

LEMMA RoundsInv == ASSUME IInv, NEW p \in Sessions, RunCellRounds(p) PROVE IInv'
  <1>1. /\ UNCHANGED <<ledger, saved, unseen>> /\ SessionInv(session[p])
        /\ session[p].pc \in Holding
    BY DEF RunCellRounds, Only, IInv, Holding
  <1>2. CASE Set(p, [session[p] EXCEPT !.pc = "replay"])
    <2> DEFINE state == [session[p] EXCEPT !.pc = "replay"]
    <2>1. SessionInv(state)
      BY <1>1, FieldSet DEF SessionInv
    <2> HIDE DEF state
    <2> QED
      BY <1>1, <1>2, <2>1, Moved DEF state
  <1>3. ASSUME NEW r \in Possible(session[p].data), NEW n,
               Set(p, [session[p] EXCEPT !.played = n, !.rounds = session[p].rounds \cup {r}])
        PROVE  IInv'
    <2> DEFINE state == [session[p] EXCEPT !.played = n, !.rounds = session[p].rounds \cup {r}]
    <2>1. /\ DOMAIN state = DOMAIN Idle /\ state.ledger = session[p].ledger
          /\ state.entry = session[p].entry /\ state.rounds = session[p].rounds \cup {r}
      BY <1>1 DEF SessionInv, Idle
    <2>2. SessionInv(state)
      BY <1>1, <2>1, PossibleIsTop DEF SessionInv
    <2> HIDE DEF state
    <2> QED
      BY <1>1, <1>3, <2>2, Moved DEF state
  <1> QED
    BY <1>2, <1>3 DEF RunCellRounds

LEMMA RaiseInv == ASSUME IInv, NEW p \in Sessions, Raise(p) PROVE IInv'
  <1>1. Set(p, Over("failed")) /\ UNCHANGED <<ledger, saved, unseen>> /\ "failed" \notin Holding
    BY DEF Raise, Only, Holding
  <1> QED
    BY <1>1, OverFits, Moved

LEMMA ReplayInv == ASSUME IInv, NEW p \in Sessions, Replay(p) PROVE IInv'
  <1>1. /\ UNCHANGED <<ledger, saved, unseen>> /\ SessionInv(session[p])
        /\ session[p].pc \in Holding
    BY DEF Replay, Only, IInv, Holding
  <1>2. ASSUME NEW base, Set(p, Close(session[p], [Error EXCEPT !.kind = "refused", !.base = base]))
        PROVE  IInv'
    BY <1>1, <1>2, CloseFits, ErrorFits, Moved
  <1>3. ASSUME NEW r \in BestAgentic(session[p].rounds), NEW base, NEW replay, NEW entry,
               base = session[p].base,
               entry = [kind |-> IF Absorbed(base, r.best, replay) THEN "absorbed" ELSE "refused",
                        base |-> base, won |-> r, replay |-> replay,
                        champion |-> IF Absorbed(base, r.best, replay)
                                     THEN [data |-> "named", score |-> r.best] ELSE None],
               Set(p, Close(session[p], entry))
        PROVE  IInv'
    <2>1. r.agentic /\ (Task = "classification" => r.top)
      BY <1>1 DEF BestAgentic, SessionInv
    <2>2. Verified(entry)
      BY <1>3, <2>1 DEF Verified, Absorbed
    <2> QED
      BY <1>1, <1>3, <2>2, CloseFits, Moved
  <1> QED
    BY <1>2, <1>3 DEF Replay

LEMMA TruncateInv == ASSUME IInv, NEW p \in Sessions, Truncate(p) PROVE IInv'
  <1> DEFINE state == [session[p] EXCEPT !.pc = "write"]
  <1>1. /\ SessionInv(session[p]) /\ session[p].pc \in Holding
        /\ Set(p, state) /\ ledger' = Empty /\ UNCHANGED <<saved, unseen>>
    BY DEF Truncate, IInv, Holding
  <1>2. SessionInv(state)
    BY <1>1, FieldSet DEF SessionInv
  <1> HIDE DEF state
  <1>3. /\ DOMAIN session' = Sessions /\ Kept' = Kept
        /\ \A q \in Sessions : session'[q] = IF q = p THEN state ELSE session[q]
    BY <1>1 DEF Set, IInv, Kept
  <1>4. \A q \in Sessions : SessionInv(session[q])'
    BY <1>2, <1>3 DEF IInv, SessionInv
  <1>5. LedgerInv' /\ IsFiniteSet(saved)'
    BY <1>1, FilesAssumption DEF IInv, LedgerInv, Broken
  <1> QED
    BY <1>3, <1>4, <1>5 DEF IInv

LEMMA SaveInv == ASSUME IInv, NEW p \in Sessions, SaveLedger(p) PROVE IInv'
  <1> DEFINE gens == Append(session[p].ledger, Generation)
             state == Over(Outcome(session[p].entry))
  <1>1. /\ SessionInv(session[p]) /\ session[p].pc \in Holding
        /\ session[p].ledger \in Seq(Nat) /\ Kept \subseteq Range(session[p].ledger)
    BY DEF SaveLedger, Written, IInv, Holding, SessionInv
  <1>2. /\ Set(p, state) /\ ledger' \in {gens, Torn} /\ saved' = saved \cup {Generation}
        /\ unseen' = IF \E q \in Sessions \ {p} : session[q].pc \in Holding
                     THEN unseen \cup {Generation} ELSE unseen
    BY DEF SaveLedger, Written
  <1>3. Generation \in Nat
    BY FS_CardinalityType DEF Generation, IInv
  <1>4. SessionInv(state)
    BY OverFits DEF Outcome, Holding
  <1>5. state.pc \notin Holding
    BY OverShape DEF Outcome, Holding
  <1>6. gens \in Seq(Nat) /\ Range(gens) = Range(session[p].ledger) \cup {Generation}
    BY <1>1, <1>3, RangeAppend
  <1> HIDE DEF gens, state
  <1>7. /\ DOMAIN session' = Sessions
        /\ \A q \in Sessions : session'[q] = IF q = p THEN state ELSE session[q]
    BY <1>2 DEF Set, IInv
  <1>8. Kept' \subseteq Kept \cup {Generation}
    BY <1>2 DEF Kept
  <1>9. ASSUME NEW q \in Sessions, q # p PROVE SessionInv(session[q])'
    <2>1. session'[q] = session[q] /\ SessionInv(session[q])
      BY <1>7, <1>9 DEF IInv
    <2>2. CASE session[q].pc \in Holding
      <3>1. Kept' \subseteq Kept
        BY <1>2, <1>9, <2>2 DEF Kept
      <3> QED
        BY <2>1, <3>1 DEF SessionInv
    <2> QED
      BY <2>1, <2>2 DEF SessionInv
  <1>10. SessionInv(session[p])'
    BY <1>4, <1>5, <1>7 DEF SessionInv
  <1>11. LedgerInv'
    BY <1>1, <1>2, <1>6, <1>8, FilesAssumption DEF LedgerInv, Broken
  <1>12. IsFiniteSet(saved)'
    BY <1>2, FS_AddElement DEF IInv
  <1> QED
    BY <1>7, <1>9, <1>10, <1>11, <1>12 DEF IInv

LEMMA KillInv == ASSUME IInv, NEW p \in Sessions, Kill(p) PROVE IInv'
  <1>1. /\ Set(p, Over("killed")) /\ "killed" \notin Holding
        /\ UNCHANGED <<saved, unseen>> /\ ledger' \in {ledger, Torn}
    BY DEF Kill, Holding
  <1>2. CASE ledger' = ledger
    BY <1>1, <1>2, OverFits, Moved
  <1>3. CASE ledger' = Torn
    <2>1. /\ DOMAIN session' = Sessions /\ Kept' = Kept
          /\ \A q \in Sessions : session'[q] = IF q = p THEN Over("killed") ELSE session[q]
      BY <1>1 DEF Set, IInv, Kept
    <2>2. \A q \in Sessions : SessionInv(session[q])'
      BY <1>1, <2>1, OverFits DEF IInv, SessionInv
    <2>3. LedgerInv' /\ IsFiniteSet(saved)'
      BY <1>1, <1>3, FilesAssumption DEF IInv, LedgerInv, Broken
    <2> QED
      BY <2>1, <2>2, <2>3 DEF IInv
  <1> QED
    BY <1>1, <1>2, <1>3

LEMMA InitIInv == Init => IInv
  <1> SUFFICES ASSUME Init PROVE IInv
    OBVIOUS
  <1>1. SessionInv(Idle)
    <2>1. <<>> \in Seq(Nat) /\ Idle.ledger = <<>> /\ Idle.pc = "idle" /\ Idle.entry = None
          /\ Idle.rounds = {}
      BY DEF Idle
    <2> QED
      BY <2>1 DEF SessionInv, Holding
  <1>2. /\ DOMAIN session = Sessions /\ \A p \in Sessions : session[p] = Idle
        /\ ledger = None /\ saved = {}
    BY DEF Init
  <1> HIDE DEF Idle
  <1> QED
    BY <1>1, <1>2, FS_EmptySet DEF IInv, LedgerInv

LEMMA StepIInv == ASSUME IInv, [Next]_vars PROVE IInv'
  <1>1. CASE UNCHANGED vars
    BY <1>1 DEF vars, IInv, SessionInv, LedgerInv, Kept
  <1>2. CASE Next
    BY <1>2, StartInv, LoadInv, PrepareInv, TryAllInv, RoundsInv, RaiseInv, ReplayInv,
       TruncateInv, SaveInv, KillInv DEF Next, Step
  <1> QED
    BY <1>1, <1>2

-----------------------------------------------------------------------------
(* The invariant of the sessions and the ledger (ratchet_loop.py:150-162,     *)
(* 240-551).                                                                  *)
THEOREM IInvAlways == Spec => []IInv
  BY InitIInv, StepIInv, PTL DEF Spec

(* What is absorbed beat its bar strictly, was agentic, and was reproduced    *)
(* (ratchet_loop.py:97-147, 505-536).                                         *)
THEOREM ChampionsVerified == Spec => []AbsorbedIsVerified
  <1>1. IInv => AbsorbedIsVerified
    <2> SUFFICES ASSUME IInv, NEW e \in Entries, e.kind = "absorbed"
                 PROVE  /\ e.won.agentic /\ e.won.best > e.base /\ e.replay = e.won.best
                        /\ e.champion.score = e.won.best
                        /\ Task = "classification" => e.won.top
      BY DEF AbsorbedIsVerified
    <2>1. Verified(e)
      BY DEF Entries, IInv, SessionInv
    <2> QED
      BY <2>1 DEF Verified
  <1> QED
    BY <1>1, IInvAlways, PTL

(* A generation is missing from a whole ledger only if another session had    *)
(* read the ledger before it was written (ratchet_loop.py:441-551).           *)
THEOREM GenerationsKept == Spec => []LostOnlyToAnotherSession
  <1>1. IInv => LostOnlyToAnotherSession
    BY DEF IInv, LedgerInv, Kept, LostOnlyToAnotherSession
  <1> QED
    BY <1>1, IInvAlways, PTL
-----------------------------------------------------------------------------
(* Types *)

(* What SessionOK says, with what a place of main adds to it.                 *)
Typed(s) == /\ SessionOK(s)
            /\ s.pc \in {"baseline", "round"} => s.data \in Data
            /\ s.pc \in {"truncate", "write"} => s.entry \in EntryType

(* A smallest set of scores without a best one would have one score less.     *)
LEMMA OneIsBest ==
  ASSUME NEW S \in (SUBSET Scores) \ {{}}
  PROVE  \E x \in S : \A y \in S : x >= y
  <1> DEFINE Best(E) == \E x \in E : \A y \in E : x >= y
             Bad == {E \in (SUBSET Scores) \ {{}} : ~Best(E)}
  <1> SUFFICES ASSUME Bad # {} PROVE FALSE
    OBVIOUS
  <1>1. Bad \subseteq FiniteSubsetsOf(Scores)
    BY ScoresAssumption, FS_FiniteSubsetsOfFinite
  <1>2. PICK E \in Bad : \A F \in Bad : ~(<<F, E>> \in StrictSubsetOrdering(Scores))
    <2> HIDE DEF Bad
    <2> QED
      BY <1>1, ScoresAssumption, FS_StrictSubsetOrderingWellFounded, WFMin
  <1>3. PICK x \in E : TRUE
    OBVIOUS
  <1> DEFINE F == E \ {x}
  <1>4. E \subseteq Nat /\ \A y \in E : y = x \/ y \in F
    BY ScoresAssumption
  <1>5. Best(E)
    <2>1. CASE F = {}
      <3>1. \A y \in E : y = x
        BY <1>4, <2>1
      <3> QED
        BY <1>3, <1>4, <3>1
    <2>2. CASE F # {}
      <3>1. <<F, E>> \in StrictSubsetOrdering(Scores)
        BY <1>3 DEF StrictSubsetOrdering
      <3>2. PICK z \in F : \A y \in F : z >= y
        BY <1>2, <2>2, <3>1
      <3> DEFINE best == IF z >= x THEN z ELSE x
      <3>3. best \in E /\ best >= x /\ best >= z
        BY <1>3, <1>4, <3>2
      <3>4. \A y \in E : best >= y
        <4> SUFFICES ASSUME NEW y \in E PROVE best >= y
          OBVIOUS
        <4>1. y = x \/ z >= y
          BY <1>4, <3>2
        <4> HIDE DEF best
        <4> QED
          BY <1>4, <3>2, <3>3, <4>1
      <3> QED
        BY <3>3, <3>4
    <2> QED
      BY <2>1, <2>2
  <1> QED
    BY <1>2, <1>5

LEMMA MaxIsMember ==
  ASSUME NEW S \in (SUBSET Scores) \ {{}}
  PROVE  Max(S) \in S /\ \A y \in S : Max(S) >= y
  BY OneIsBest DEF Max

LEMMA PossibleIsRound ==
  ASSUME NEW data \in Data, NEW r \in Possible(data) PROVE r \in RoundType
  <1>1. r \in Played(data)
    BY DEF Possible
  <1>2. CASE r = NoRound
    BY <1>2 DEF RoundType
  <1>3. ASSUME NEW completed \in (SUBSET Scores) \ {{}}, NEW best \in BestOfRound(completed),
               NEW a \in BOOLEAN, NEW d \in {data, "engineered"},
               r = [agentic |-> a, best |-> best, data |-> d, top |-> best = Max(completed)]
        PROVE  r \in RoundType
    <2>1. best \in Scores /\ d \in Data
      BY MaxIsMember DEF BestOfRound, Data
    <2>2. (best = Max(completed)) \in BOOLEAN
      OBVIOUS
    <2> QED
      BY <1>3, <2>1, <2>2 DEF RoundType
  <1> QED
    BY <1>1, <1>2, <1>3 DEF Played

LEMMA EmptyLedger == IsLedger(<<>>)
  BY DEF IsLedger

LEMMA OverTyped ==
  ASSUME NEW pc \in {"idle", "load", "prepare", "done", "failed", "killed"},
         NEW l, IsLedger(l)
  PROVE  Typed([Over(pc) EXCEPT !.ledger = l]) /\ Typed(Over(pc))
  <1>1. /\ [Over(pc) EXCEPT !.ledger = l].pc = pc /\ Over(pc).pc = pc
        /\ [Over(pc) EXCEPT !.ledger = l].ledger = l /\ Over(pc).ledger = <<>>
        /\ [Over(pc) EXCEPT !.ledger = l].data = None /\ Over(pc).data = None
        /\ [Over(pc) EXCEPT !.ledger = l].base = None /\ Over(pc).base = None
        /\ [Over(pc) EXCEPT !.ledger = l].played = 0 /\ Over(pc).played = 0
        /\ [Over(pc) EXCEPT !.ledger = l].rounds = {} /\ Over(pc).rounds = {}
        /\ [Over(pc) EXCEPT !.ledger = l].entry = None /\ Over(pc).entry = None
    BY DEF Over, Idle
  <1>2. 0 \in 0 .. Rounds
    BY RoundsAssumption
  <1> QED
    BY <1>1, <1>2, EmptyLedger DEF Typed, SessionOK, Holding

LEMMA CloseTyped ==
  ASSUME NEW s, Typed(s), NEW entry \in EntryType
  PROVE  Typed(Close(s, entry))
  <1>1. /\ Close(s, entry).pc = "truncate" /\ Close(s, entry).ledger = s.ledger
        /\ Close(s, entry).data = None /\ Close(s, entry).base = None
        /\ Close(s, entry).played = 0 /\ Close(s, entry).rounds = {}
        /\ Close(s, entry).entry = entry
    BY DEF Close, Over, Idle
  <1>2. 0 \in 0 .. Rounds
    BY RoundsAssumption
  <1> QED
    BY <1>1, <1>2 DEF Typed, SessionOK, Holding

LEMMA ErrorTyped ==
  ASSUME NEW base \in Scores \cup {None}
  PROVE  Error \in EntryType /\ [Error EXCEPT !.kind = "refused", !.base = base] \in EntryType
  BY DEF Error, EntryType

(* A session that moves, with what is on disk unchanged.                      *)
LEMMA TypeMoved ==
  ASSUME TypeOK, IInv, NEW p \in Sessions, NEW state, Set(p, state), Typed(state),
         ledger' \in {ledger, Torn}, UNCHANGED <<saved, unseen>>, present' \in BOOLEAN,
         starts' \in 0 .. MaxStarts, crashes' \in 0 .. MaxCrashes
  PROVE  TypeOK'
  <1>1. \A q \in Sessions : session'[q] = IF q = p THEN state ELSE session[q]
    BY DEF Set, IInv
  <1>2. \A q \in Sessions : Typed(session[q])'
    BY <1>1 DEF TypeOK, Typed, SessionOK, IsLedger
  <1>3. (ledger \in {None} \cup Broken \/ IsLedger(ledger))'
    BY DEF TypeOK, IsLedger, Broken
  <1> QED
    BY <1>2, <1>3 DEF TypeOK, Typed

LEMMA SessionType ==
  ASSUME TypeOK, IInv, NEW p \in Sessions
  PROVE  Typed(session[p]) /\ DOMAIN session[p] = DOMAIN Idle
  BY DEF TypeOK, Typed, IInv, SessionInv

LEMMA StartType == ASSUME TypeOK, IInv, NEW p \in Sessions, Start(p) PROVE TypeOK'
  <1>1. PICK pc \in {"load", "failed"} : Set(p, Over(pc))
    BY DEF Start
  <1>2. present' \in BOOLEAN /\ starts' \in 0 .. MaxStarts /\ crashes' \in 0 .. MaxCrashes
    BY BoundsAssumption DEF Start, TypeOK
  <1> QED
    BY <1>1, <1>2, OverTyped, EmptyLedger, TypeMoved DEF Start

LEMMA LoadType == ASSUME TypeOK, IInv, NEW p \in Sessions, LoadLedger(p) PROVE TypeOK'
  <1>1. /\ UNCHANGED <<ledger, saved, unseen>> /\ present' \in BOOLEAN
        /\ starts' \in 0 .. MaxStarts /\ crashes' \in 0 .. MaxCrashes
    BY DEF LoadLedger, Only, TypeOK
  <1>2. CASE ledger \in Broken
    BY <1>1, <1>2, OverTyped, EmptyLedger, TypeMoved DEF LoadLedger
  <1>3. CASE ledger \notin Broken
    <2> DEFINE read == IF ledger = None THEN <<>> ELSE ledger
    <2>1. Set(p, [Over("prepare") EXCEPT !.ledger = read])
      BY <1>3 DEF LoadLedger
    <2>2. IsLedger(read)
      BY <1>3, EmptyLedger DEF TypeOK
    <2> HIDE DEF read
    <2> QED
      BY <1>1, <2>1, <2>2, OverTyped, TypeMoved
  <1> QED
    BY <1>2, <1>3

LEMMA PlayType ==
  ASSUME TypeOK, IInv, NEW p \in Sessions,
         PrepareDataset(p) \/ TryAllModels(p) \/ RunCellRounds(p) \/ Raise(p)
  PROVE  TypeOK'
  <1>1. /\ UNCHANGED <<ledger, saved, unseen>> /\ present' \in BOOLEAN
        /\ starts' \in 0 .. MaxStarts /\ crashes' \in 0 .. MaxCrashes
    BY DEF PrepareDataset, TryAllModels, RunCellRounds, Raise, Only, TypeOK
  <1>2. Typed(session[p]) /\ DOMAIN session[p] = DOMAIN Idle
    BY SessionType
  <1>3. CASE Set(p, Close(session[p], Error))
    BY <1>1, <1>2, <1>3, ErrorTyped, CloseTyped, TypeMoved
  <1>4. ASSUME NEW data \in Data,
               Set(p, [session[p] EXCEPT !.pc = "baseline", !.data = data])
        PROVE  TypeOK'
    <2> DEFINE state == [session[p] EXCEPT !.pc = "baseline", !.data = data]
    <2>1. /\ state.pc = "baseline" /\ state.data = data
          /\ state.ledger = session[p].ledger /\ state.base = session[p].base
          /\ state.played = session[p].played /\ state.rounds = session[p].rounds
          /\ state.entry = session[p].entry
      BY <1>2 DEF Idle
    <2>2. Typed(state)
      BY <1>2, <2>1 DEF Typed, SessionOK, Holding
    <2> HIDE DEF state
    <2> QED
      BY <1>1, <1>4, <2>2, TypeMoved DEF state
  <1>5. ASSUME NEW base \in Scores, session[p].data \in Data,
               Set(p, [session[p] EXCEPT !.pc = "round", !.base = base])
        PROVE  TypeOK'
    <2> DEFINE state == [session[p] EXCEPT !.pc = "round", !.base = base]
    <2>1. /\ state.pc = "round" /\ state.base = base
          /\ state.ledger = session[p].ledger /\ state.data = session[p].data
          /\ state.played = session[p].played /\ state.rounds = session[p].rounds
          /\ state.entry = session[p].entry
      BY <1>2 DEF Idle
    <2>2. Typed(state)
      BY <1>2, <1>5, <2>1 DEF Typed, SessionOK, Holding
    <2> HIDE DEF state
    <2> QED
      BY <1>1, <1>5, <2>2, TypeMoved DEF state
  <1>6. CASE Set(p, [session[p] EXCEPT !.pc = "replay"])
    <2> DEFINE state == [session[p] EXCEPT !.pc = "replay"]
    <2>1. /\ state.pc = "replay" /\ state.data = session[p].data
          /\ state.ledger = session[p].ledger /\ state.base = session[p].base
          /\ state.played = session[p].played /\ state.rounds = session[p].rounds
          /\ state.entry = session[p].entry
      BY <1>2 DEF Idle
    <2>2. Typed(state)
      BY <1>2, <2>1 DEF Typed, SessionOK, Holding
    <2> HIDE DEF state
    <2> QED
      BY <1>1, <1>6, <2>2, TypeMoved DEF state
  <1>7. ASSUME session[p].pc = "round", session[p].played # Rounds,
               NEW r \in Possible(session[p].data),
               Set(p, [session[p] EXCEPT !.played = session[p].played + 1,
                                         !.rounds = session[p].rounds \cup {r}])
        PROVE  TypeOK'
    <2> DEFINE state == [session[p] EXCEPT !.played = session[p].played + 1,
                                           !.rounds = session[p].rounds \cup {r}]
    <2>1. /\ state.pc = session[p].pc /\ state.data = session[p].data
          /\ state.ledger = session[p].ledger /\ state.base = session[p].base
          /\ state.played = session[p].played + 1
          /\ state.rounds = session[p].rounds \cup {r}
          /\ state.entry = session[p].entry
      BY <1>2 DEF Idle
    <2>2. session[p].data \in Data
      BY <1>2, <1>7 DEF Typed
    <2>3. r \in RoundType
      BY <1>7, <2>2, PossibleIsRound
    <2>4. session[p].played + 1 \in 0 .. Rounds
      BY <1>2, <1>7, RoundsAssumption DEF Typed, SessionOK
    <2>5. Typed(state)
      BY <1>2, <1>7, <2>1, <2>3, <2>4 DEF Typed, SessionOK
    <2> HIDE DEF state
    <2> QED
      BY <1>1, <1>7, <2>5, TypeMoved DEF state
  <1>8. CASE PrepareDataset(p)
    BY <1>3, <1>4, <1>8 DEF PrepareDataset, Data
  <1>9. CASE TryAllModels(p)
    <2>1. session[p].data \in Data
      BY <1>2, <1>9 DEF TryAllModels, Typed
    <2>2. PICK completed \in SUBSET Scores :
            Set(p, IF Bar(completed) = None THEN Close(session[p], Error)
                   ELSE [session[p] EXCEPT !.pc = "round", !.base = Bar(completed)])
      BY <1>9 DEF TryAllModels
    <2>3. Bar(completed) # None => Bar(completed) \in Scores
      BY MaxIsMember DEF Bar
    <2> QED
      BY <1>3, <1>5, <2>1, <2>2, <2>3
  <1>10. CASE RunCellRounds(p)
    BY <1>6, <1>7, <1>10 DEF RunCellRounds
  <1>11. CASE Raise(p)
    BY <1>1, <1>11, OverTyped, EmptyLedger, TypeMoved DEF Raise
  <1> QED
    BY <1>8, <1>9, <1>10, <1>11

LEMMA ReplayType == ASSUME TypeOK, IInv, NEW p \in Sessions, Replay(p) PROVE TypeOK'
  <1>1. /\ UNCHANGED <<ledger, saved, unseen>> /\ present' \in BOOLEAN
        /\ starts' \in 0 .. MaxStarts /\ crashes' \in 0 .. MaxCrashes
    BY DEF Replay, Only, TypeOK
  <1>2. Typed(session[p])
    BY SessionType
  <1>3. PICK entry \in EntryType : Set(p, Close(session[p], entry))
    <2>1. CASE BestAgentic(session[p].rounds) = {}
      BY <1>2, <2>1, ErrorTyped DEF Replay, Typed, SessionOK
    <2>2. ASSUME NEW r \in BestAgentic(session[p].rounds), NEW replay \in Replays,
                 NEW absorbed \in BOOLEAN
          PROVE  [kind |-> IF absorbed THEN "absorbed" ELSE "refused",
                  base |-> session[p].base, won |-> r, replay |-> replay,
                  champion |-> IF absorbed THEN [data |-> "named", score |-> r.best]
                               ELSE None] \in EntryType
      <3>1. r \in RoundType /\ r.best # None /\ session[p].base \in Scores \cup {None}
        BY <1>2 DEF BestAgentic, Typed, SessionOK
      <3>2. r.best \in Scores
        BY <3>1 DEF RoundType, NoRound
      <3>3. [data |-> "named", score |-> r.best] \in [data : Data, score : Scores]
        BY <3>2 DEF Data
      <3> QED
        BY <3>1, <3>3 DEF EntryType, Replays
    <2> QED
      BY <2>1, <2>2 DEF Replay, Absorbed
  <1> QED
    BY <1>1, <1>2, <1>3, CloseTyped, TypeMoved

LEMMA SaveType ==
  ASSUME TypeOK, IInv, NEW p \in Sessions, Truncate(p) \/ SaveLedger(p)
  PROVE  TypeOK'
  <1>1. Typed(session[p]) /\ DOMAIN session[p] = DOMAIN Idle
    BY SessionType
  <1>2. CASE Truncate(p)
    <2> DEFINE state == [session[p] EXCEPT !.pc = "write"]
    <2>1. /\ state.pc = "write" /\ state.data = session[p].data
          /\ state.ledger = session[p].ledger /\ state.base = session[p].base
          /\ state.played = session[p].played /\ state.rounds = session[p].rounds
          /\ state.entry = session[p].entry
      BY <1>1 DEF Idle
    <2>2. Typed(state)
      BY <1>1, <1>2, <2>1 DEF Typed, SessionOK, Holding, Truncate
    <2>3. /\ ledger' = Empty /\ UNCHANGED <<present, starts, crashes, saved, unseen>>
          /\ \A q \in Sessions : session'[q] = IF q = p THEN state ELSE session[q]
      BY <1>2 DEF Truncate, Set, IInv
    <2> HIDE DEF state
    <2>4. \A q \in Sessions : Typed(session[q])'
      BY <2>2, <2>3 DEF TypeOK, Typed, SessionOK, IsLedger
    <2> QED
      BY <2>3, <2>4 DEF TypeOK, Typed, Broken
  <1>3. CASE SaveLedger(p)
    <2> DEFINE state == Over(Outcome(session[p].entry))
    <2>1. /\ ledger' \in {Append(session[p].ledger, Generation), Torn}
          /\ saved' = saved \cup {Generation}
          /\ unseen' \subseteq unseen \cup {Generation}
          /\ UNCHANGED <<present, starts, crashes>>
          /\ \A q \in Sessions : session'[q] = IF q = p THEN state ELSE session[q]
      BY <1>3 DEF SaveLedger, Written, Set, IInv
    <2>2. Generation \in Nat
      BY FS_CardinalityType DEF Generation, IInv
    <2>3. \A l : IsLedger(l) => IsLedger(l)'
      BY <2>1 DEF IsLedger
    <2>4. Typed(state)
      <3>1. Outcome(session[p].entry) \in {"done", "failed"}
        BY DEF Outcome
      <3> QED
        BY <3>1, OverTyped, EmptyLedger
    <2>5. \A q \in Sessions : Typed(session[q])'
      <3>1. \A q \in Sessions : Typed(session[q])
        BY SessionType
      <3> HIDE DEF state
      <3>2. ASSUME NEW q \in Sessions, NEW s, session'[q] = s, Typed(s)
            PROVE  Typed(session[q])'
        BY <2>3, <3>2 DEF Typed, SessionOK
      <3>3. ASSUME NEW q \in Sessions PROVE Typed(session[q])'
        <4>1. CASE q = p
          BY <2>1, <2>4, <3>2, <4>1
        <4>2. CASE q # p
          BY <2>1, <3>1, <3>2, <4>2
        <4> QED
          BY <4>1, <4>2
      <3> QED
        BY <3>3
    <2>6. ledger' = Torn \/ IsLedger(ledger)'
      BY <1>1, <2>1 DEF Typed, SessionOK, IsLedger
    <2>7. saved' \subseteq Nat /\ unseen' \subseteq saved'
      BY <2>1, <2>2 DEF TypeOK
    <2> QED
      BY <2>1, <2>5, <2>6, <2>7 DEF TypeOK, Typed, Broken
  <1> QED
    BY <1>2, <1>3

LEMMA KillType == ASSUME TypeOK, IInv, NEW p \in Sessions, Kill(p) PROVE TypeOK'
  <1>1. /\ Set(p, Over("killed")) /\ UNCHANGED <<saved, unseen>> /\ ledger' \in {ledger, Torn}
        /\ present' \in BOOLEAN /\ starts' \in 0 .. MaxStarts /\ crashes' \in 0 .. MaxCrashes
    BY BoundsAssumption DEF Kill, TypeOK
  <1> QED
    BY <1>1, OverTyped, EmptyLedger, TypeMoved

LEMMA InitType == Init => TypeOK
  <1> SUFFICES ASSUME Init PROVE TypeOK
    OBVIOUS
  <1>1. Typed(Over("idle"))
    BY OverTyped, EmptyLedger
  <1>2. Over("idle") = Idle
    BY DEF Over, Idle
  <1>3. 0 \in 0 .. MaxStarts /\ 0 \in 0 .. MaxCrashes
    BY BoundsAssumption
  <1>4. \A p \in Sessions : session[p] = Over("idle")
    BY <1>2 DEF Init
  <1> HIDE DEF Over
  <1> QED
    BY <1>1, <1>3, <1>4 DEF Init, TypeOK, Typed

(* Every variable keeps its type, and a session has data while it plays and an *)
(* entry while it saves (ratchet_loop.py:427-551).                            *)
THEOREM TypeCorrect == Spec => []TypeOK
  <1>1. ASSUME TypeOK, IInv, [Next]_vars PROVE TypeOK'
    <2>1. CASE UNCHANGED vars
      BY <1>1, <2>1 DEF vars, TypeOK, SessionOK, IsLedger
    <2>2. CASE Next
      BY <1>1, <2>2, StartType, LoadType, PlayType, ReplayType, SaveType, KillType
      DEF Next, Step
    <2> QED
      BY <1>1, <2>1, <2>2
  <1> QED
    BY <1>1, InitType, IInvAlways, PTL DEF Spec
-----------------------------------------------------------------------------
(* Why a session ends: the steps it has left, at most.                        *)
Left(s) ==
  CASE s.pc = "load"     -> Rounds + 7
    [] s.pc = "prepare"  -> Rounds + 6
    [] s.pc = "baseline" -> Rounds + 5
    [] s.pc = "round"    -> (Rounds - s.played) + 4
    [] s.pc = "replay"   -> 3
    [] s.pc = "truncate" -> 2
    [] s.pc = "write"    -> 1
    [] OTHER             -> 0

LEMMA LeftIs ==
  ASSUME NEW s, s.played \in 0 .. Rounds
  PROVE  /\ Left(s) \in 0 .. (Rounds + 7)
         /\ s.pc = "round" => Left(s) = Rounds - s.played + 4
         /\ s.pc \in {"idle", "done", "failed", "killed"} => Left(s) = 0
  <1>1. Rounds \in Nat /\ Rounds - s.played \in 0 .. Rounds
    BY RoundsAssumption
  <1> QED
    BY <1>1 DEF Left

LEMMA LeftOfOver == \A pc : Over(pc).pc = pc /\ Over(pc).played = 0
  BY DEF Over, Idle

LEMMA LeftOfClose ==
  \A s, entry : Close(s, entry).pc = "truncate" /\ Left(Close(s, entry)) = 2
  BY DEF Close, Over, Idle, Left

LEMMA StepDescends ==
  ASSUME TypeOK, IInv, NEW p \in Sessions, Step(p)
  PROVE  Left(session[p])' < Left(session[p])
  <1>1. \A state : Set(p, state) => session'[p] = state
    BY DEF Set, IInv
  <1>2. /\ Rounds \in Nat /\ session[p].played \in 0 .. Rounds
        /\ DOMAIN session[p] = DOMAIN Idle
    BY RoundsAssumption DEF TypeOK, SessionOK, IInv, SessionInv
  <1>3. \A entry : Set(p, Close(session[p], entry)) => Left(session[p])' = 2
    BY <1>1, LeftOfClose
  <1>4. CASE LoadLedger(p)
    <2>1. session'[p].pc \in {"failed", "prepare"}
      <3>1. \A l : [Over("prepare") EXCEPT !.ledger = l].pc = "prepare"
        BY DEF Over, Idle
      <3> HIDE DEF Over
      <3>2. PICK l : session'[p] = IF ledger \in Broken THEN Over("failed")
                                   ELSE [Over("prepare") EXCEPT !.ledger = l]
        BY <1>1, <1>4 DEF LoadLedger
      <3> QED
        BY <3>1, <3>2, LeftOfOver
    <2> QED
      BY <1>2, <1>4, <2>1 DEF LoadLedger, Left
  <1>5. CASE PrepareDataset(p)
    <2>1. \/ Set(p, Close(session[p], Error))
          \/ \E data : Set(p, [session[p] EXCEPT !.pc = "baseline", !.data = data])
      BY <1>5 DEF PrepareDataset
    <2>2. Left(session[p])' = 2 \/ session'[p].pc = "baseline"
      BY <1>1, <1>2, <1>3, <2>1 DEF Idle
    <2> QED
      BY <1>2, <1>5, <2>2 DEF PrepareDataset, Left
  <1>6. CASE TryAllModels(p)
    <2>1. \/ Set(p, Close(session[p], Error))
          \/ \E base : Set(p, [session[p] EXCEPT !.pc = "round", !.base = base])
      BY <1>6 DEF TryAllModels
    <2>2. \/ Left(session[p])' = 2
          \/ session'[p].pc = "round" /\ session'[p].played = session[p].played
      BY <1>1, <1>2, <1>3, <2>1 DEF Idle
    <2> QED
      BY <1>2, <1>6, <2>2 DEF TryAllModels, Left
  <1>7. CASE RunCellRounds(p)
    <2>1. CASE session[p].played = Rounds
      <3>1. session'[p].pc = "replay"
        BY <1>1, <1>2, <1>7, <2>1 DEF RunCellRounds, Idle
      <3> QED
        BY <1>2, <1>7, <2>1, <3>1 DEF RunCellRounds, Left
    <2>2. CASE session[p].played # Rounds
      <3>1. session'[p].pc = "round" /\ session'[p].played = session[p].played + 1
        <4>1. PICK r : Set(p, [session[p] EXCEPT !.played = @ + 1, !.rounds = @ \cup {r}])
          BY <1>7, <2>2 DEF RunCellRounds
        <4> QED
          BY <1>1, <1>2, <1>7, <4>1 DEF RunCellRounds, Idle
      <3>2. /\ Left(session[p]) = (Rounds - session[p].played) + 4
            /\ Left(session[p])' = (Rounds - session'[p].played) + 4
        BY <1>7, <3>1 DEF RunCellRounds, Left
      <3> QED
        BY <1>2, <3>1, <3>2
    <2> QED
      BY <2>1, <2>2
  <1>8. CASE Replay(p)
    <2>1. \E entry : Set(p, Close(session[p], entry))
      BY <1>8 DEF Replay
    <2> QED
      BY <1>3, <1>8, <2>1 DEF Replay, Left
  <1>9. CASE Truncate(p)
    <2>1. session'[p].pc = "write"
      BY <1>1, <1>2, <1>9 DEF Truncate, Idle
    <2> QED
      BY <1>9, <2>1 DEF Truncate, Left
  <1>10. CASE SaveLedger(p)
    <2>1. session'[p].pc \in {"done", "failed"}
      BY <1>1, <1>10, LeftOfOver DEF SaveLedger, Written, Outcome
    <2> QED
      BY <1>10, <2>1 DEF SaveLedger, Written, Left
  <1>11. CASE Raise(p)
    <2>1. Left(session[p])' = 0
      BY <1>1, <1>11, LeftOfOver DEF Raise, Left
    <2> QED
      BY <1>2, <1>11, <2>1 DEF Raise, Left
  <1> QED
    BY <1>4, <1>5, <1>6, <1>7, <1>8, <1>9, <1>10, <1>11 DEF Step

(* A session takes at most Rounds + 7 steps from its start, whatever its rounds *)
(* and the other sessions do: each of its steps leaves one less, a kill leaves  *)
(* none, and nothing but another start adds any (ratchet_loop.py:240-294,       *)
(* 427-611).                                                                    *)
THEOREM SessionsDescend ==
  Spec => [][\A p \in Sessions :
               /\ Left(session[p]) \in 0 .. (Rounds + 7)
               /\ Step(p) => Left(session[p])' < Left(session[p])
               /\ ~Start(p) => Left(session[p])' <= Left(session[p])]_vars
  <1>1. ASSUME TypeOK, TypeOK', IInv, Next, NEW p \in Sessions
        PROVE  /\ Left(session[p]) \in 0 .. (Rounds + 7)
               /\ Step(p) => Left(session[p])' < Left(session[p])
               /\ ~Start(p) => Left(session[p])' <= Left(session[p])
    <2>1. /\ Left(session[p]) \in 0 .. (Rounds + 7) /\ Left(session[p])' \in 0 .. (Rounds + 7)
          /\ Rounds \in Nat
      BY <1>1, LeftIs, RoundsAssumption DEF TypeOK, SessionOK
    <2>2. Step(p) => Left(session[p])' < Left(session[p])
      BY <1>1, StepDescends
    <2>3. PICK q \in Sessions : Start(q) \/ Step(q) \/ Kill(q)
      BY <1>1 DEF Next
    <2>4. CASE q # p
      <3>1. session'[p] = session[p]
        <4>1. \A state : Set(q, state) => session'[p] = session[p]
          BY <1>1, <2>4 DEF Set, IInv
        <4> QED
          BY <2>3, <4>1
          DEF Start, Step, Kill, LoadLedger, PrepareDataset, TryAllModels, RunCellRounds,
              Raise, Replay, Truncate, SaveLedger, Written
      <3>2. Left(session[p])' = Left(session[p])
        BY <3>1
      <3> QED
        BY <2>1, <2>2, <3>2
    <2>5. CASE Kill(p)
      <3>1. session'[p] = Over("killed")
        BY <1>1, <2>5 DEF Kill, Set, IInv
      <3>2. Left(session[p])' = 0
        BY <3>1, LeftOfOver DEF Left
      <3> QED
        BY <2>1, <2>2, <3>2
    <2>6. CASE Step(p)
      BY <2>1, <2>2, <2>6
    <2> QED
      BY <2>1, <2>2, <2>3, <2>4, <2>5, <2>6
  <1>2. TypeOK /\ TypeOK' /\ IInv /\ [Next]_vars =>
          [\A p \in Sessions :
             /\ Left(session[p]) \in 0 .. (Rounds + 7)
             /\ Step(p) => Left(session[p])' < Left(session[p])
             /\ ~Start(p) => Left(session[p])' <= Left(session[p])]_vars
    BY <1>1
  <1> QED
    BY <1>2, TypeCorrect, IInvAlways, PTL DEF Spec
==============================================================================
