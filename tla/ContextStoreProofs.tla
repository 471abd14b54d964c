------------------------- MODULE ContextStoreProofs -------------------------
(***************************************************************************)
(* The context store, for any number of processes, events and contents.    *)
(*                                                                         *)
(* That a pass misses nothing silently is not inductive: it needs to know  *)
(* where a pass is in the log and that what it carries to the database is  *)
(* the redacted line it has just read.  ProcInv(p) says so of one process. *)
(* ReaderInv says what a call of a reader knows of the store.  Both rest   *)
(* on the same fact: the log and the store only grow.                      *)
(***************************************************************************)
EXTENDS ContextStore, SequenceTheorems, TLAPS

Opening == {"probe", "drop", "schema", "rest"}
Carrying == {"select", "insert"}
Passing == {"read", "select", "insert", "done"}

Redactions == {Redact(c) : c \in {d \in Contents : Supported(d)}}

\* Line i of the log is dealt with.
Dealt(p, i) ==
  (log[i].whole /\ i \notin proc[p].errors)
    => entries[log[i].event] = Redact(log[i].content)

ProcInv(p) ==
  /\ proc[p].pc \in Opening
       => \/ proc[p].event = None
          \/ proc[p].event \in Fresh /\ proc[p].content \in Redactions
  /\ proc[p].pc \in Opening \cup {"idle", "unavailable"}
       => proc[p].goal = 0 /\ proc[p].pos = 1
  /\ proc[p].pc \in Carrying
       => /\ tables = "ready" /\ proc[p].content \in Redactions
          /\ proc[p].event \in Fresh => proc[p].goal = 0
          /\ proc[p].event \notin Fresh
               => /\ proc[p].pos - 1 \in 1 .. Len(log)
                  /\ log[proc[p].pos - 1].event = proc[p].event
                  /\ Redact(log[proc[p].pos - 1].content) = proc[p].content
  /\ proc[p].goal <= Len(log)
  /\ proc[p].pc = "rest" => tables # "absent"
  /\ proc[p].pc = "read" => tables = "ready"
  /\ proc[p].pc \in Passing
       => \A i \in 1 .. proc[p].goal :
            i < proc[p].pos - (IF proc[p].pc \in Carrying THEN 1 ELSE 0)
              => Dealt(p, i)
  /\ proc[p].pc = "done" => proc[p].goal < proc[p].pos

ReaderInv ==
  /\ reader.pc \in {"status", "last"} => reader.op = "status"
  /\ reader.pc \in {"search", "like"} => reader.op = "search"
  /\ reader.seen => Finds(Substring)
  /\ reader.pc = "status" => ~reader.count
  /\ reader.pc = "last" /\ reader.count => Visible # {}
  /\ reader.pc = "search" => ~reader.count
  /\ StatusConsistent
  /\ SearchFindsWhatIsThere

StoreInv ==
  /\ \A e \in Events : entries[e] # None => entries[e] \in Redactions
  /\ \A e \in Events : entries[e] = None => claims[e] = 0
  /\ ReportedOnce

IInv ==
  /\ TypeOK
  /\ \A p \in Procs : ProcInv(p)
  /\ ReaderInv
  /\ StoreInv
-----------------------------------------------------------------------------
\* Redaction is of the summary and leaves the rest.
LEMMA RedactedPart ==
  ASSUME NEW c \in Contents
  PROVE  /\ Redact(c).rest = c.rest
         /\ \E s \in Summaries : Redact(c).summary = Redacted[s]
         /\ Redact(c) \in Contents /\ Redact(c) # None
  <1>1. c \in [summary : Summaries, rest : Rests]
    BY SetsAssumption
  <1>2. Redact(c).rest = c.rest /\ Redact(c).summary = Redacted[c.summary]
    BY <1>1 DEF Redact
  <1>3. Redact(c) \in Contents /\ None \notin Contents
    BY SetsAssumption, RedactionAssumption
  <1>4. c.summary \in Summaries
    BY <1>1
  <1> QED
    BY <1>2, <1>3, <1>4

LEMMA RedactionsAreContents ==
  /\ \A c \in Redactions :
       /\ c \in Contents /\ Supported(c) /\ c # None
       /\ \E s \in Summaries : c.summary = Redacted[s]
  /\ \A c \in Contents : Redact(c) \in Contents /\ Redact(c) # None
  /\ \A c \in Contents : Supported(c) => Redact(c) \in Redactions
  /\ \A c \in Contents : Redact(c) \in Safe => Redact(c) \in Redactions
  <1>1. ASSUME NEW c \in Contents PROVE Supported(Redact(c)) <=> Supported(c)
    BY RedactedPart DEF Supported
  <1>2. ASSUME NEW c \in Contents, Redact(c) \in Safe PROVE Supported(c)
    BY <1>1, <1>2, SetsAssumption DEF Supported
  <1>3. ASSUME NEW c \in Redactions
        PROVE  /\ c \in Contents /\ Supported(c) /\ c # None
               /\ \E s \in Summaries : c.summary = Redacted[s]
    <2>1. PICK d \in Contents : Supported(d) /\ c = Redact(d)
      BY DEF Redactions
    <2> QED
      BY <1>1, <2>1, RedactedPart
  <1>4. \A c \in Contents : Supported(c) => Redact(c) \in Redactions
    BY DEF Redactions
  <1> QED
    BY <1>2, <1>3, <1>4, RedactedPart

LEMMA InitIInv == Init => IInv
  <1> SUFFICES ASSUME Init PROVE IInv
    OBVIOUS
  <1> USE DEF Init, NoProc, NoReader
  <1>1. TypeOK
    <2>1. NoProc \in ProcType /\ NoReader \in ReaderType
      BY DEF ProcType, ReaderType, Resting
    <2>2. <<>> \in Seq(Record)
      OBVIOUS
    <2>3. \A p \in Procs : proc[p].pc \notin {"select", "insert"}
      OBVIOUS
    <2> QED
      BY <2>1, <2>2, <2>3 DEF TypeOK
  <1>2. ASSUME NEW p \in Procs PROVE ProcInv(p)
    BY <1>2, SetsAssumption DEF ProcInv, Opening, Carrying, Passing
  <1>3. ReaderInv
    BY DEF ReaderInv, StatusConsistent, SearchFindsWhatIsThere
  <1>4. StoreInv
    BY DEF StoreInv, ReportedOnce
  <1> QED
    BY <1>1, <1>2, <1>3, <1>4 DEF IInv
-----------------------------------------------------------------------------
\* The actions that extend the log, those of process p, those of the reader,
\* and what each kind leaves alone.
LogStep ==
  \/ \E e \in Logged, c \in Contents :
       AppendSessionSummary(e, c) \/ LogAgentActivity(e, c) \/ AppendOfOthers(e, c)
  \/ \E e \in Logged : CutShort(e)
ProcStep(p) == Writer(p) \/ OpenToIndex(p) \/ OpenToInsert(p) \/ Crash(p)
ReaderStep == Read \/ \E op \in {"status", "search"} : Construct(op)

LEMMA StepKinds ==
  ASSUME Next
  PROVE  LogStep \/ (\E p \in Procs : ProcStep(p)) \/ ReaderStep
  BY DEF Next, Environment, LogStep, ProcStep, ReaderStep

LEMMA LogGrows ==
  ASSUME TypeOK, LogStep
  PROVE  /\ \E r \in Record : log' = Append(log, r)
         /\ crashes' \in Nat
         /\ UNCHANGED <<probe, tables, entries, proc, reader, opens, claims>>
  <1>1. CASE \E e \in Logged, c \in Contents :
               AppendSessionSummary(e, c) \/ LogAgentActivity(e, c) \/ AppendOfOthers(e, c)
    <2>1. PICK e \in Logged, c \in Contents : Line(e, c)
      BY <1>1, RedactedPart
      DEF AppendSessionSummary, LogAgentActivity, AppendOfOthers
    <2> DEFINE r == [event |-> e, content |-> c, whole |-> TRUE]
    <2>2. r \in Record
      BY DEF Record
    <2> QED
      BY <2>1, <2>2 DEF Line, TypeOK
  <1>2. CASE \E e \in Logged : CutShort(e)
    <2>1. PICK e \in Logged : CutShort(e)
      BY <1>2
    <2> DEFINE r == [event |-> e, content |-> None, whole |-> FALSE]
    <2>2. r \in Record
      BY DEF Record
    <2> QED
      BY <2>1, <2>2 DEF CutShort, TypeOK
  <1> QED
    BY <1>1, <1>2 DEF LogStep

\* A longer log keeps its lines.
LEMMA AppendKeeps ==
  ASSUME NEW S, NEW s \in Seq(S), NEW x \in S
  PROVE  /\ Append(s, x) \in Seq(S)
         /\ Len(Append(s, x)) = Len(s) + 1
         /\ \A i \in 1 .. Len(s) : Append(s, x)[i] = s[i]
  BY AppendProperties
-----------------------------------------------------------------------------
(* What a step of p does not touch, and the types it leaves. *)

Frame(p) ==
  /\ proc' = [proc EXCEPT ![p] = proc'[p]]
  /\ \A q \in Procs \ {p} : proc'[q] = proc[q]
  /\ UNCHANGED <<log, reader>>
  /\ tables' = "ready" \/ (tables' = "partial" /\ tables # "ready") \/ tables' = tables
  /\ \A e \in Events : entries[e] # None => entries'[e] = entries[e]

LEMMA ProcFrame ==
  ASSUME TypeOK, NEW p \in Procs, ProcStep(p)
  PROVE  Frame(p)
  <1> USE DEF Frame, TypeOK
  <1>1. CASE CreateProbe(p) \/ DropProbe(p) \/ ReadRaises(p) \/ EndOfLog(p)
    BY <1>1 DEF CreateProbe, DropProbe, ReadRaises, EndOfLog, Goto
  <1>2. CASE CreateEntries(p)
    BY <1>2 DEF CreateEntries, Goto
  <1>3. CASE CreateRest(p)
    BY <1>3 DEF CreateRest
  <1>4. CASE ReadLine(p)
    <2>1. PICK last \in 1 .. Len(log) :
            proc' = IF Parses(proc[p].pos, last)
                    THEN [proc EXCEPT ![p].pc = "select", ![p].pos = last + 1,
                            ![p].event = log[last].event,
                            ![p].content = Redact(log[last].content)]
                    ELSE [proc EXCEPT ![p].pos = last + 1,
                            ![p].errors = @ \cup (proc[p].pos .. last)]
      BY <1>4 DEF ReadLine
    <2>2. proc' = [proc EXCEPT ![p] = proc'[p]] /\ \A q \in Procs \ {p} : proc'[q] = proc[q]
      BY <2>1
    <2>3. UNCHANGED <<log, reader, tables, entries>>
      BY <1>4 DEF ReadLine
    <2> QED
      BY <2>2, <2>3
  <1>5. CASE Select(p)
    BY <1>5 DEF Select, Goto, Succeeds, Fails
  <1>6. CASE Insert(p)
    BY <1>6 DEF Insert, Succeeds, Fails
  <1>7. CASE Locked(p) \/ Crash(p)
    BY <1>7 DEF Locked, Fails, Crash
  <1>8. CASE OpenToIndex(p) \/ OpenToInsert(p)
    BY <1>8 DEF OpenToIndex, OpenToInsert, OpensWith
  <1> QED
    BY <1>1, <1>2, <1>3, <1>4, <1>5, <1>6, <1>7, <1>8 DEF ProcStep, Writer
-----------------------------------------------------------------------------
(* What a step of p leaves of p: its type and its invariant. *)

Carries(state) ==
  state.pc \in Carrying =>
    /\ state.event \in Events
    /\ state.content \in Contents /\ Supported(state.content)

LEMMA OpenSteps ==
  ASSUME IInv, NEW p \in Procs, OpenToIndex(p) \/ OpenToInsert(p)
  PROVE  proc'[p] \in ProcType /\ Carries(proc'[p]) /\ ProcInv(p)'
  <1>1. PICK e \in Fresh \cup {None}, c \in Contents \cup {None} :
          /\ proc' = [proc EXCEPT ![p] = [NoProc EXCEPT
                        !.pc = "probe", !.event = e, !.content = c]]
          /\ e = None \/ (e \in Fresh /\ c \in Redactions)
    <2>1. CASE OpenToIndex(p)
      BY <2>1 DEF OpenToIndex, OpensWith
    <2>2. CASE OpenToInsert(p)
      <3>1. PICK e \in Fresh, c \in Contents :
              Redact(c) \in Safe /\ OpensWith(p, e, Redact(c))
        BY <2>2 DEF OpenToInsert
      <3>2. Redact(c) \in Redactions /\ Redact(c) \in Contents
        BY <3>1, RedactionsAreContents
      <3> QED
        BY <3>1, <3>2 DEF OpensWith
    <2> QED
      BY <2>1, <2>2
  <1>2. proc'[p] = [pc |-> "probe", pos |-> 1, goal |-> 0, event |-> e,
                    content |-> c, errors |-> {}]
    BY <1>1 DEF IInv, TypeOK, NoProc
  <1>3. proc'[p] \in ProcType
    BY <1>2, SetsAssumption DEF ProcType, Resting, Events
  <1>4. log' = log /\ Len(log) \in Nat
    <2>1. log' = log
      BY DEF OpenToIndex, OpenToInsert, OpensWith
    <2>2. log \in Seq(Record)
      BY DEF IInv, TypeOK
    <2> QED
      BY <2>1, <2>2
  <1>5. Carries(proc'[p])
    BY <1>2 DEF Carries, Carrying
  <1>6. ProcInv(p)'
    <2>1. /\ proc'[p].pc = "probe" /\ proc'[p].goal = 0 /\ proc'[p].pos = 1
          /\ proc'[p].event = e /\ proc'[p].content = c
      BY <1>2
    <2> QED
      BY <1>1, <1>4, <2>1 DEF ProcInv, Opening, Carrying, Passing
  <1> QED
    BY <1>3, <1>5, <1>6

LEMMA SchemaSteps ==
  ASSUME IInv, NEW p \in Procs,
         CreateProbe(p) \/ DropProbe(p) \/ CreateEntries(p) \/ CreateRest(p)
  PROVE  proc'[p] \in ProcType /\ Carries(proc'[p]) /\ ProcInv(p)'
  <1> USE DEF IInv, TypeOK
  <1>1. /\ proc[p] \in ProcType /\ ProcInv(p) /\ log' = log /\ Len(log) \in Nat
        /\ proc[p].pc \in Opening
    BY DEF CreateProbe, DropProbe, CreateEntries, CreateRest, Opening
  <1>2. CASE CreateProbe(p) \/ DropProbe(p) \/ CreateEntries(p)
    <2>1. PICK pc \in {"unavailable", "drop", "schema", "rest"} :
            proc' = [proc EXCEPT ![p].pc = pc] /\ (pc = "rest" => tables' # "absent")
      BY <1>2 DEF CreateProbe, DropProbe, CreateEntries, Goto
    <2>2. proc'[p] = [proc[p] EXCEPT !.pc = pc]
      BY <2>1
    <2>3. proc'[p] \in ProcType
      BY <1>1, <2>2 DEF ProcType, Resting
    <2> QED
      BY <1>1, <2>1, <2>2, <2>3
      DEF Carries, Carrying, ProcInv, Opening, Passing, ProcType
  <1>3. CASE CreateRest(p)
    <2>1. CASE proc[p].event \in Fresh
      <3>1. proc'[p] = [proc[p] EXCEPT !.pc = "select"] /\ tables' = "ready"
        BY <1>3, <2>1 DEF CreateRest
      <3>2. proc'[p] \in ProcType
        BY <1>1, <3>1 DEF ProcType
      <3>3. proc[p].content \in Redactions /\ proc[p].goal = 0
        BY <1>1, <2>1, SetsAssumption DEF ProcInv, Opening
      <3>4. /\ proc'[p].pc = "select" /\ proc'[p].event = proc[p].event
            /\ proc'[p].content = proc[p].content /\ proc'[p].goal = 0
        BY <1>1, <3>1, <3>3 DEF ProcType
      <3>5. Redactions' = Redactions
        BY DEF Redactions
      <3>6. Carries(proc'[p])
        BY <2>1, <3>3, <3>4, RedactionsAreContents DEF Carries, Events
      <3>7. ProcInv(p)'
        BY <2>1, <3>1, <3>3, <3>4, <3>5 DEF ProcInv, Opening, Carrying, Passing
      <3> QED
        BY <3>2, <3>6, <3>7
    <2>2. CASE proc[p].event \notin Fresh
      <3>1. proc'[p] = [proc[p] EXCEPT !.pc = "read", !.goal = Len(log)]
        BY <1>3, <2>2 DEF CreateRest
      <3>2. proc'[p] \in ProcType
        BY <1>1, <3>1 DEF ProcType
      <3>3. proc[p].pos = 1 /\ tables' = "ready"
        BY <1>1, <1>3 DEF ProcInv, CreateRest
      <3> QED
        BY <1>1, <3>1, <3>2, <3>3
        DEF Carries, Carrying, ProcInv, Opening, Passing, ProcType
    <2> QED
      BY <2>1, <2>2
  <1> QED
    BY <1>2, <1>3

LEMMA ReadSteps ==
  ASSUME IInv, NEW p \in Procs, ReadLine(p)
  PROVE  proc'[p] \in ProcType /\ Carries(proc'[p]) /\ ProcInv(p)'
  <1>1. PICK last \in 1 .. Len(log) :
          /\ IsLine(proc[p].pos, last)
          /\ proc' = IF Parses(proc[p].pos, last)
                     THEN [proc EXCEPT ![p].pc = "select", ![p].pos = last + 1,
                             ![p].event = log[last].event,
                             ![p].content = Redact(log[last].content)]
                     ELSE [proc EXCEPT ![p].pos = last + 1,
                             ![p].errors = @ \cup (proc[p].pos .. last)]
    BY DEF ReadLine
  <1>2. /\ proc[p] \in ProcType /\ proc[p].pc = "read" /\ ProcInv(p)
        /\ log' = log /\ tables' = tables /\ entries' = entries /\ Len(log) \in Nat
        /\ tables = "ready" /\ proc[p].pos \in 1 .. last /\ log[last] \in Record
    BY <1>1 DEF ReadLine, IInv, TypeOK, ProcInv, IsLine, ProcType
  <1>3. CASE Parses(proc[p].pos, last)
    <2>1. proc'[p] = [proc[p] EXCEPT !.pc = "select", !.pos = last + 1,
                        !.event = log[last].event,
                        !.content = Redact(log[last].content)]
      BY <1>1, <1>3 DEF IInv, TypeOK
    <2>2. /\ last = proc[p].pos /\ log[last].event \in Logged
          /\ log[last].content \in Contents /\ Supported(log[last].content)
      BY <1>2, <1>3 DEF Parses, Record
    <2>3. Redact(log[last].content) \in Redactions
      BY <2>2, RedactionsAreContents
    <2>4. proc'[p] \in ProcType
      <3>1. last + 1 \in Nat \ {0} /\ log[last].event \in Events
        BY <1>2, <2>2 DEF Events
      <3>2. Redact(log[last].content) \in Contents /\ proc[p] \in ProcType
        BY <1>2, <2>2, RedactionsAreContents
      <3> QED
        BY <2>1, <3>1, <3>2 DEF ProcType
    <2>5. Carries(proc'[p])
      BY <1>2, <2>1, <2>2, <2>3, RedactionsAreContents DEF Carries, Events, ProcType
    <2>6. /\ proc'[p].pc = "select" /\ proc'[p].pos = last + 1
          /\ proc'[p].event = log[last].event /\ proc'[p].goal = proc[p].goal
          /\ proc'[p].content = Redact(log[last].content)
          /\ proc'[p].errors = proc[p].errors
      BY <1>2, <2>1 DEF ProcType
    <2>7. \A i \in 1 .. proc[p].goal : i < proc[p].pos => Dealt(p, i)
      BY <1>2 DEF ProcInv, Passing, Carrying, ProcType
    <2>8. \A i \in 1 .. proc'[p].goal : i < proc'[p].pos - 1 => Dealt(p, i)'
      BY <1>2, <2>2, <2>6, <2>7 DEF Dealt, ProcType
    <2>9. proc'[p].event \notin Fresh
      BY <2>2, <2>6, SetsAssumption
    <2>10. ProcInv(p)'
      <3>1. proc[p].goal <= Len(log) /\ last + 1 - 1 = last
        BY <1>2 DEF ProcInv
      <3>2. last \in 1 .. Len(log)
        BY <1>1
      <3> HIDE <1>1
      <3> QED
        BY <1>2, <2>3, <2>6, <2>8, <2>9, <3>1, <3>2
        DEF ProcInv, Opening, Carrying, Passing
    <2> QED
      BY <2>4, <2>5, <2>10
  <1>4. CASE ~Parses(proc[p].pos, last)
    <2>1. proc'[p] = [proc[p] EXCEPT !.pos = last + 1,
                        !.errors = @ \cup (proc[p].pos .. last)]
      BY <1>1, <1>4 DEF IInv, TypeOK
    <2>2. /\ proc'[p].pc = "read" /\ proc'[p].pos = last + 1
          /\ proc'[p].goal = proc[p].goal
          /\ proc'[p].errors = proc[p].errors \cup (proc[p].pos .. last)
      BY <1>2, <2>1 DEF ProcType
    <2>3. proc[p].pos .. last \subseteq Nat \ {0}
      BY <1>2
    <2>4. proc'[p] \in ProcType
      <3>1. last + 1 \in Nat \ {0} /\ proc[p] \in ProcType
        BY <1>2
      <3>2. proc[p].errors \cup (proc[p].pos .. last) \in SUBSET (Nat \ {0})
        BY <2>3, <3>1 DEF ProcType
      <3> QED
        BY <2>1, <3>1, <3>2 DEF ProcType
    <2>5. \A i \in 1 .. proc[p].goal : i < proc[p].pos => Dealt(p, i)
      BY <1>2 DEF ProcInv, Passing, Carrying, ProcType
    <2>6. \A i \in 1 .. proc'[p].goal : i < proc'[p].pos => Dealt(p, i)'
      BY <1>2, <2>2, <2>5 DEF Dealt, ProcType
    <2>7. ProcInv(p)'
      <3>1. proc[p].goal <= Len(log)
        BY <1>2 DEF ProcInv
      <3> QED
        BY <1>2, <2>2, <2>6, <3>1 DEF ProcInv, Opening, Carrying, Passing
    <2> QED
      BY <2>2, <2>4, <2>7 DEF Carries, Carrying
  <1> QED
    BY <1>3, <1>4

\* Line pos - 1 is dealt with now, and the pass goes on or is over.
LEMMA Returned ==
  ASSUME IInv, NEW p \in Procs, proc[p].pc \in Carrying, Frame(p),
         tables' = "ready",
         \/ /\ Succeeds(p)
            /\ entries'[proc[p].event] = proc[p].content
         \/ Fails(p)
  PROVE  proc'[p] \in ProcType /\ Carries(proc'[p]) /\ ProcInv(p)'
  <1>1. /\ proc[p] \in ProcType /\ ProcInv(p) /\ log' = log /\ Len(log) \in Nat
        /\ \A i \in 1 .. Len(log) : log[i] \in Record
        /\ proc[p].event \in Events
    BY DEF IInv, TypeOK, Frame, Carrying
  <1>2. PICK errors \in SUBSET (Nat \ {0}) :
          /\ proc'[p] = [proc[p] EXCEPT !.pc = After(p), !.event = None,
                           !.content = None, !.errors = errors]
          /\ proc[p].errors \subseteq errors
          /\ Fails(p) /\ proc[p].event \notin Fresh => proc[p].pos - 1 \in errors
    <2>1. CASE Succeeds(p) /\ ~Fails(p)
      <3>1. p \in DOMAIN proc /\ proc[p].errors \in SUBSET (Nat \ {0})
        BY <1>1 DEF ProcType, IInv, TypeOK
      <3>2. proc'[p] = [proc[p] EXCEPT !.pc = After(p), !.event = None, !.content = None]
        BY <2>1, <3>1 DEF Succeeds
      <3>3. @ = [proc[p] EXCEPT !.pc = After(p), !.event = None,
                   !.content = None, !.errors = proc[p].errors]
        BY <1>1 DEF ProcType
      <3> QED
        BY <2>1, <3>1, <3>2, <3>3
    <2>2. CASE Fails(p)
      <3>1. proc[p].event \notin Fresh => proc[p].pos - 1 \in Nat \ {0}
        BY <1>1 DEF ProcInv
      <3>2. CASE proc[p].event \in Fresh
        BY <1>1, <2>2, <3>2 DEF Fails, ProcType, IInv, TypeOK
      <3>3. CASE proc[p].event \notin Fresh
        <4> DEFINE errors == proc[p].errors \cup {proc[p].pos - 1}
        <4>1. errors \in SUBSET (Nat \ {0})
          BY <1>1, <3>1, <3>3 DEF ProcType
        <4>2. proc' = [proc EXCEPT ![p].pc = After(p), ![p].event = None,
                         ![p].content = None, ![p].errors = errors]
          BY <2>2, <3>3 DEF Fails
        <4>3. p \in DOMAIN proc
          BY DEF IInv, TypeOK
        <4>4. proc'[p] = [proc[p] EXCEPT !.pc = After(p), !.event = None,
                            !.content = None, !.errors = errors]
          BY <4>2, <4>3
        <4> QED
          BY <4>1, <4>4
      <3> QED
        BY <3>2, <3>3
    <2> QED
      BY <2>1, <2>2
  <1>3. /\ proc'[p].pc = After(p) /\ proc'[p].pos = proc[p].pos
        /\ proc'[p].goal = proc[p].goal /\ proc'[p].errors = errors
        /\ proc'[p].event = None
    BY <1>1, <1>2 DEF ProcType
  <1>4. After(p) \in {"read", "done"} /\ (After(p) = "done" <=> proc[p].event \in Fresh)
    BY DEF After
  <1>5. proc'[p] \in ProcType
    BY <1>1, <1>2, <1>4 DEF ProcType, Resting
  <1>6. \A i \in 1 .. proc[p].goal : i < proc[p].pos => Dealt(p, i)'
    <2> SUFFICES ASSUME NEW i \in 1 .. proc[p].goal, i < proc[p].pos,
                        log[i].whole, i \notin errors
                 PROVE  entries'[log[i].event] = Redact(log[i].content)
      BY <1>1, <1>3 DEF Dealt
    <2>1. log[i] \in Record /\ i \in 1 .. Len(log) /\ proc[p].goal \in Nat /\ proc[p].pos \in Nat
      BY <1>1 DEF ProcInv, ProcType
    <2>2. CASE i < proc[p].pos - 1
      <3>1. Dealt(p, i)
        BY <1>1, <2>2 DEF ProcInv, Passing, Carrying
      <3>2. entries[log[i].event] = Redact(log[i].content)
        BY <1>2, <3>1 DEF Dealt
      <3>3. log[i].event \in Events /\ Redact(log[i].content) # None
        BY <2>1, RedactionsAreContents DEF Record, Events
      <3> QED
        BY <3>2, <3>3 DEF Frame
    <2>3. CASE i = proc[p].pos - 1
      <3>1. proc[p].event \notin Fresh
        BY <1>1, <2>1 DEF ProcInv
      <3>2. log[i].event = proc[p].event /\ Redact(log[i].content) = proc[p].content
        BY <1>1, <2>3, <3>1 DEF ProcInv
      <3>3. ~Fails(p)
        BY <1>2, <2>3, <3>1
      <3> QED
        BY <3>2, <3>3
    <2> QED
      BY <2>1, <2>2, <2>3
  <1> QED
    BY <1>1, <1>3, <1>4, <1>5, <1>6
    DEF Carries, ProcInv, Opening, Carrying, Passing, ProcType

LEMMA DatabaseSteps ==
  ASSUME IInv, NEW p \in Procs, Select(p) \/ Insert(p) \/ Locked(p)
  PROVE  proc'[p] \in ProcType /\ Carries(proc'[p]) /\ ProcInv(p)'
  <1>1. Frame(p)
    BY ProcFrame DEF IInv, ProcStep, Writer
  <1>2. /\ proc[p] \in ProcType /\ ProcInv(p) /\ proc[p].pc \in Carrying
        /\ proc[p].event \in Events /\ p \in DOMAIN proc
        /\ entries \in [Events -> Contents \cup {None}]
    BY DEF IInv, TypeOK, Select, Insert, Locked, Carrying
  <1>3. tables = "ready" /\ tables' = "ready"
    BY <1>2 DEF ProcInv, Select, Insert, Locked
  <1>4. CASE Locked(p)
    BY <1>1, <1>2, <1>3, <1>4, Returned DEF Locked
  <1>5. CASE Select(p)
    <2>1. CASE entries[proc[p].event] = None
      <3>1. proc' = [proc EXCEPT ![p].pc = "insert"] /\ entries' = entries /\ log' = log
        <4>1. proc[p].content # None
          BY <1>2, RedactionsAreContents DEF ProcInv
        <4> QED
          BY <1>5, <2>1, <4>1 DEF Select, Goto
      <3>2. proc'[p] = [proc[p] EXCEPT !.pc = "insert"]
        BY <1>2, <3>1
      <3>3. /\ proc'[p].pc = "insert" /\ proc'[p].pos = proc[p].pos
            /\ proc'[p].goal = proc[p].goal /\ proc'[p].errors = proc[p].errors
            /\ proc'[p].event = proc[p].event /\ proc'[p].content = proc[p].content
        BY <1>2, <3>2 DEF ProcType
      <3>4. proc'[p] \in ProcType
        BY <1>2, <3>2 DEF ProcType
      <3>5. Carries(proc'[p])
        BY <1>2, <3>3, RedactionsAreContents DEF Carries, ProcInv
      <3>6. \A i : Dealt(p, i)' <=> Dealt(p, i)
        BY <3>1, <3>3 DEF Dealt
      <3>7. ProcInv(p)'
        BY <1>2, <1>3, <3>1, <3>3, <3>6 DEF ProcInv, Opening, Carrying, Passing
      <3> QED
        BY <3>4, <3>5, <3>7
    <2>2. CASE entries[proc[p].event] = proc[p].content /\ entries[proc[p].event] # None
      <3>1. Succeeds(p) /\ entries' = entries
        BY <1>5, <2>2 DEF Select
      <3> QED
        BY <1>1, <1>2, <1>3, <2>2, <3>1, Returned
    <2>3. CASE entries[proc[p].event] \notin {None, proc[p].content}
      <3>1. Fails(p)
        BY <1>5, <2>3 DEF Select
      <3> QED
        BY <1>1, <1>2, <1>3, <3>1, Returned
    <2> QED
      BY <2>1, <2>2, <2>3
  <1>6. CASE Insert(p)
    <2>1. CASE entries[proc[p].event] = None
      <3>1. Succeeds(p) /\ entries' = [entries EXCEPT ![proc[p].event] = proc[p].content]
        BY <1>6, <2>1 DEF Insert
      <3>2. entries'[proc[p].event] = proc[p].content
        BY <1>2, <3>1
      <3> QED
        BY <1>1, <1>2, <1>3, <3>1, <3>2, Returned
    <2>2. CASE entries[proc[p].event] # None
      <3>1. Fails(p)
        BY <1>6, <2>2 DEF Insert
      <3> QED
        BY <1>1, <1>2, <1>3, <3>1, Returned
    <2> QED
      BY <2>1, <2>2
  <1> QED
    BY <1>4, <1>5, <1>6

LEMMA LastSteps ==
  ASSUME IInv, NEW p \in Procs, EndOfLog(p) \/ ReadRaises(p) \/ Crash(p)
  PROVE  proc'[p] \in ProcType /\ Carries(proc'[p]) /\ ProcInv(p)'
  <1>1. /\ proc[p] \in ProcType /\ ProcInv(p) /\ p \in DOMAIN proc
        /\ log' = log /\ entries' = entries /\ tables' = tables
    BY DEF IInv, TypeOK, EndOfLog, ReadRaises, Crash
  <1>2. Len(log) \in Nat
    BY DEF IInv, TypeOK
  <1>3. CASE EndOfLog(p)
    <2>1. proc'[p] = [proc[p] EXCEPT !.pc = "done"]
      BY <1>1, <1>3 DEF EndOfLog, Goto
    <2>2. /\ proc'[p].pc = "done" /\ proc'[p].pos = proc[p].pos
          /\ proc'[p].goal = proc[p].goal /\ proc'[p].errors = proc[p].errors
      BY <1>1, <2>1 DEF ProcType
    <2>3. proc'[p] \in ProcType
      BY <1>1, <2>1 DEF ProcType, Resting
    <2>4. \A i : Dealt(p, i)' <=> Dealt(p, i)
      BY <1>1, <2>2 DEF Dealt
    <2>5. /\ proc[p].pc = "read" /\ proc[p].pos > Len(log)
          /\ proc[p].pos \in Nat /\ proc[p].goal \in Nat
      BY <1>1, <1>3 DEF EndOfLog, ProcType
    <2>6. ProcInv(p)'
      BY <1>1, <1>2, <2>2, <2>4, <2>5 DEF ProcInv, Opening, Carrying, Passing
    <2> QED
      BY <2>2, <2>3, <2>6 DEF Carries, Carrying
  <1>4. CASE Crash(p)
    <2>1. proc'[p] = NoProc
      BY <1>1, <1>4 DEF Crash
    <2>2. proc'[p] \in ProcType /\ Carries(proc'[p])
      BY <2>1 DEF NoProc, ProcType, Resting, Carries, Carrying
    <2>3. ProcInv(p)'
      BY <1>1, <1>2, <2>1 DEF NoProc, ProcInv, Opening, Carrying, Passing
    <2> QED
      BY <2>2, <2>3
  <1>5. CASE ReadRaises(p)
    <2>1. proc'[p] = [proc[p] EXCEPT !.pc = "raised"]
      BY <1>1, <1>5 DEF ReadRaises, Goto
    <2>2. proc'[p].pc = "raised" /\ proc'[p].goal = proc[p].goal
      BY <1>1, <2>1 DEF ProcType
    <2>3. proc'[p] \in ProcType
      BY <1>1, <2>1 DEF ProcType, Resting
    <2>4. ProcInv(p)'
      BY <1>1, <1>2, <2>2 DEF ProcInv, Opening, Carrying, Passing
    <2> QED
      BY <2>2, <2>3, <2>4 DEF Carries, Carrying
  <1> QED
    BY <1>3, <1>4, <1>5

LEMMA ProcSteps ==
  ASSUME IInv, NEW p \in Procs, ProcStep(p)
  PROVE  proc'[p] \in ProcType /\ Carries(proc'[p]) /\ ProcInv(p)'
  BY OpenSteps, SchemaSteps, ReadSteps, DatabaseSteps, LastSteps DEF ProcStep, Writer

\* A process that does nothing loses nothing to the others.
LEMMA OthersKept ==
  ASSUME IInv, NEW q \in Procs, proc'[q] = proc[q],
         Len(log) <= Len(log)', Len(log)' \in Nat,
         \A i \in 1 .. Len(log) : log'[i] = log[i],
         \A e \in Events : entries[e] # None => entries'[e] = entries[e],
         tables = "ready" => tables' = "ready",
         tables # "absent" => tables' # "absent"
  PROVE  ProcInv(q)'
  <1>1. /\ proc[q] \in ProcType /\ ProcInv(q) /\ Len(log) \in Nat
        /\ \A i \in 1 .. Len(log) : log[i] \in Record
    BY DEF IInv, TypeOK
  <1>2. ASSUME NEW i \in 1 .. proc[q].goal, Dealt(q, i) PROVE Dealt(q, i)'
    <2>1. i \in 1 .. Len(log) /\ log[i] \in Record
      BY <1>1 DEF ProcInv, ProcType
    <2>2. /\ log[i].event \in Events
          /\ log[i].whole => Redact(log[i].content) # None
      BY <2>1, RedactionsAreContents DEF Record, Events
    <2> QED
      BY <1>2, <2>1, <2>2 DEF Dealt
  <1>3. proc[q].goal \in Nat /\ proc[q].pos \in Nat
    BY <1>1 DEF ProcType
  <1>4. proc[q].pc \in Passing
          => \A i \in 1 .. proc[q].goal :
               i < proc[q].pos - (IF proc[q].pc \in Carrying THEN 1 ELSE 0)
                 => Dealt(q, i)'
    BY <1>1, <1>2 DEF ProcInv
  <1>5. proc[q].pc \in Carrying /\ proc[q].event \notin Fresh
          => /\ proc[q].pos - 1 \in 1 .. Len(log)'
             /\ log'[proc[q].pos - 1] = log[proc[q].pos - 1]
    BY <1>1, <1>3 DEF ProcInv
  <1> QED
    BY <1>1, <1>3, <1>4, <1>5 DEF ProcInv
-----------------------------------------------------------------------------
(* The store: only an insertion changes it, and only where nothing is. *)

StoreKept == UNCHANGED <<entries, claims>>
Recorded(p) ==
  /\ entries[proc[p].event] = None
  /\ entries' = [entries EXCEPT ![proc[p].event] = proc[p].content]
  /\ claims' = [claims EXCEPT ![proc[p].event] = @ + 1]
  /\ proc[p].event \in Events
  /\ proc[p].content \in Redactions

LEMMA StoreChanges ==
  ASSUME IInv, NEW p \in Procs, ProcStep(p)
  PROVE  StoreKept \/ Recorded(p)
  <1>1. CASE Insert(p)
    <2>1. proc[p].event \in Events /\ proc[p].content \in Redactions
      BY <1>1 DEF Insert, IInv, TypeOK, ProcInv, Carrying
    <2> QED
      BY <1>1, <2>1 DEF Insert, StoreKept, Recorded
  <1>2. CASE ~Insert(p)
    BY <1>2
    DEF StoreKept, ProcStep, Writer, CreateProbe, DropProbe, CreateEntries, CreateRest,
        ReadLine, ReadRaises, EndOfLog, Select, Locked, OpenToIndex, OpenToInsert, OpensWith, Crash
  <1> QED
    BY <1>1, <1>2

LEMMA RecordedKeeps ==
  ASSUME IInv, NEW p \in Procs, Recorded(p)
  PROVE  /\ entries' \in [Events -> Contents \cup {None}]
         /\ claims' \in [Events -> Nat]
         /\ StoreInv'
  <1> USE DEF Recorded
  <1>1. /\ entries \in [Events -> Contents \cup {None}] /\ claims \in [Events -> Nat]
        /\ StoreInv
    BY DEF IInv, TypeOK
  <1>2. proc[p].content \in Contents /\ proc[p].content # None
    BY RedactionsAreContents
  <1>3. entries' \in [Events -> Contents \cup {None}] /\ claims' \in [Events -> Nat]
    BY <1>1, <1>2
  <1>4. \A e \in Events : /\ entries'[e] = (IF e = proc[p].event THEN proc[p].content ELSE entries[e])
                          /\ claims'[e] = (IF e = proc[p].event THEN claims[e] + 1 ELSE claims[e])
    BY <1>1
  <1>5. claims[proc[p].event] = 0
    BY <1>1 DEF StoreInv
  <1>6. Redactions' = Redactions
    BY DEF Redactions
  <1> QED
    BY <1>1, <1>2, <1>3, <1>4, <1>5, <1>6 DEF StoreInv, ReportedOnce
-----------------------------------------------------------------------------
(* The reader *)

LEMMA ReaderTyped ==
  ASSUME IInv, ReaderStep
  PROVE  /\ reader' \in ReaderType
         /\ UNCHANGED <<log, probe, tables, entries, proc, opens, crashes, claims>>
  <1>1. reader \in ReaderType
    BY DEF IInv, TypeOK
  <1>2. \A P : Finds(P) \in BOOLEAN
    BY DEF Finds
  <1>3. CASE \E op \in {"status", "search"} : Construct(op)
    <2>1. PICK op \in {"status", "search"} : Construct(op)
      BY <1>3
    <2>2. (op = "search" /\ Finds(Substring)) \in BOOLEAN
      OBVIOUS
    <2>3. NoReader \in ReaderType
      BY DEF NoReader, ReaderType
    <2>4. CASE tables = "ready"
      <3>1. reader' = [NoReader EXCEPT !.op = op, !.pc = op,
                         !.seen = (op = "search" /\ Finds(Substring))]
        BY <2>1, <2>4 DEF Construct
      <3>2. reader' \in ReaderType
        BY <2>2, <2>3, <3>1 DEF ReaderType
      <3> QED
        BY <2>1, <3>2 DEF Construct
    <2>5. CASE tables # "ready"
      BY <2>1, <2>3, <2>5 DEF Construct, ReaderType
    <2> QED
      BY <2>4, <2>5
  <1>4. CASE Refuse \/ Return
    <2>1. NoReader \in ReaderType
      BY DEF NoReader, ReaderType
    <2>2. [NoReader EXCEPT !.pc = "refused"] \in ReaderType
      BY <2>1 DEF ReaderType
    <2> QED
      BY <1>4, <2>1, <2>2 DEF Refuse, Return
  <1>5. CASE EntryCount \/ LastIndexedAt
    <2>1. (Visible # {}) \in BOOLEAN
      OBVIOUS
    <2>2. \/ reader' = [reader EXCEPT !.pc = "last", !.count = (Visible # {})]
          \/ reader' = [reader EXCEPT !.pc = "answered", !.last = (Visible # {})]
      BY <1>5 DEF EntryCount, LastIndexedAt
    <2>3. reader' \in ReaderType
      BY <1>1, <2>1, <2>2 DEF ReaderType
    <2> QED
      BY <1>5, <2>3 DEF EntryCount, LastIndexedAt
  <1>6. CASE Expanded \/ Like
    <2>1. Finds(Prefix) \in BOOLEAN /\ Finds(Substring) \in BOOLEAN
      BY <1>2
    <2>2. \E found \in BOOLEAN, pc \in {"answered", "like"} :
             reader' = [reader EXCEPT !.rows = found, !.pc = pc]
      BY <1>6, <2>1 DEF Expanded, Like
    <2>3. reader' \in ReaderType
      BY <1>1, <2>1, <2>2 DEF ReaderType
    <2> QED
      BY <1>6, <2>3 DEF Expanded, Like
  <1>7. CASE Busy
    BY <1>1, <1>7 DEF Busy, NoReader, ReaderType
  <1> QED
    BY <1>3, <1>4, <1>5, <1>6, <1>7 DEF ReaderStep, Read

LEMMA ReaderSteps ==
  ASSUME IInv, ReaderStep
  PROVE  ReaderInv'
  <1>1. reader \in ReaderType /\ ReaderInv /\ entries' = entries
    BY ReaderTyped DEF IInv, TypeOK
  <1>2. \A P : Finds(P)' <=> Finds(P)
    BY <1>1 DEF Finds, Visible
  <1>3. Visible' = Visible
    BY <1>1 DEF Visible
  <1> USE DEF ReaderInv, StatusConsistent, SearchFindsWhatIsThere
  <1>4. CASE \E op \in {"status", "search"} : Construct(op)
    BY <1>2, <1>4 DEF Construct, NoReader
  <1>5. CASE Refuse \/ Return
    BY <1>5 DEF Refuse, Return, NoReader
  <1>6. CASE EntryCount
    BY <1>1, <1>2, <1>3, <1>6 DEF EntryCount, ReaderType
  <1>7. CASE LastIndexedAt
    BY <1>1, <1>2, <1>3, <1>7 DEF LastIndexedAt, ReaderType
  <1>8. CASE Expanded
    BY <1>1, <1>2, <1>3, <1>8 DEF Expanded, ReaderType
  <1>9. CASE Like
    BY <1>1, <1>2, <1>3, <1>9 DEF Like, ReaderType
  <1>10. CASE Busy
    BY <1>1, <1>2, <1>3, <1>10 DEF Busy, ReaderType
  <1> QED
    BY <1>4, <1>5, <1>6, <1>7, <1>8, <1>9, <1>10 DEF ReaderStep, Read

\* What a call knows of the store stays true while the store grows.
LEMMA ReaderKept ==
  ASSUME IInv, reader' = reader,
         \A e \in Events : entries[e] # None => entries'[e] = entries[e]
  PROVE  ReaderInv'
  <1>1. ReaderInv
    BY DEF IInv
  <1>2. Visible \subseteq Visible'
    BY SetsAssumption DEF Visible
  <1>3. \A P : Finds(P) => Finds(P)'
    <2> TAKE P
    <2> SUFFICES ASSUME Finds(P) PROVE Finds(P)'
      OBVIOUS
    <2>1. PICK e \in Visible : entries[e] \in P
      BY DEF Finds
    <2>2. entries'[e] = entries[e] /\ e \in Visible'
      BY <1>2, <2>1, SetsAssumption DEF Visible
    <2> QED
      BY <2>1, <2>2 DEF Finds
  <1> QED
    BY <1>1, <1>2, <1>3 DEF ReaderInv, StatusConsistent, SearchFindsWhatIsThere
-----------------------------------------------------------------------------
(* The invariant *)

LEMMA TypeProc ==
  ASSUME IInv, NEW p \in Procs, ProcStep(p)
  PROVE  TypeOK'
  <1>1. /\ Frame(p) /\ proc'[p] \in ProcType /\ Carries(proc'[p]) /\ ProcInv(p)'
        /\ TypeOK
    BY ProcFrame, ProcSteps DEF IInv
  <1>2. proc' \in [Procs -> ProcType]
    BY <1>1 DEF Frame, TypeOK
  <1>3. entries' \in [Events -> Contents \cup {None}] /\ claims' \in [Events -> Nat]
    BY <1>1, StoreChanges, RecordedKeeps DEF StoreKept, TypeOK
  <1>4. log' \in Seq(Record) /\ reader' \in ReaderType
    BY <1>1 DEF Frame, TypeOK
  <1>5. tables' \in {"absent", "partial", "ready"}
    BY <1>1 DEF Frame, TypeOK
  <1>6. probe' \in BOOLEAN /\ opens' \in Nat /\ crashes' \in Nat
    <2>1. probe \in BOOLEAN /\ opens \in Nat /\ crashes \in Nat
      BY <1>1 DEF TypeOK
    <2>2. CASE CreateProbe(p) \/ DropProbe(p) \/ CreateEntries(p) \/ CreateRest(p)
      BY <2>1, <2>2 DEF CreateProbe, DropProbe, CreateEntries, CreateRest
    <2>3. CASE \/ ReadLine(p) \/ ReadRaises(p) \/ EndOfLog(p)
               \/ Select(p) \/ Insert(p) \/ Locked(p)
      <3>1. UNCHANGED <<probe, opens, crashes>>
        BY <2>3 DEF ReadLine, ReadRaises, EndOfLog, Select, Insert, Locked
      <3> QED
        BY <2>1, <3>1
    <2>4. CASE OpenToIndex(p) \/ OpenToInsert(p)
      <3>1. opens' = opens + 1 /\ UNCHANGED <<probe, crashes>>
        BY <2>4 DEF OpenToIndex, OpenToInsert, OpensWith
      <3> QED
        BY <2>1, <3>1
    <2>5. CASE Crash(p)
      BY <2>1, <2>5 DEF Crash
    <2> QED
      BY <2>2, <2>3, <2>4, <2>5 DEF ProcStep, Writer
  <1>7. \A q \in Procs :
          proc'[q].pc \in {"select", "insert"} =>
            /\ tables' = "ready"
            /\ proc'[q].event \in Events
            /\ proc'[q].content \in Contents /\ Supported(proc'[q].content)
    <2> TAKE q \in Procs
    <2>1. CASE q = p
      BY <1>1, <2>1 DEF Carries, Carrying, ProcInv
    <2>2. CASE q # p
      BY <1>1, <2>2 DEF Frame, TypeOK
    <2> QED
      BY <2>1, <2>2
  <1> QED
    BY <1>2, <1>3, <1>4, <1>5, <1>6, <1>7 DEF TypeOK

LEMMA StepProc ==
  ASSUME IInv, NEW p \in Procs, ProcStep(p)
  PROVE  IInv'
  <1>1. Frame(p)
    BY ProcFrame DEF IInv
  <1>2. TypeOK'
    BY TypeProc
  <1>3. ASSUME NEW q \in Procs PROVE ProcInv(q)'
    <2>1. CASE q = p
      BY <2>1, ProcSteps
    <2>2. CASE q # p
      <3>1. Len(log) \in Nat /\ log' = log
        BY <1>1 DEF IInv, TypeOK, Frame
      <3> QED
        BY <1>1, <2>2, <3>1, OthersKept DEF Frame
    <2> QED
      BY <2>1, <2>2
  <1>4. ReaderInv'
    BY <1>1, ReaderKept DEF Frame
  <1>5. StoreInv'
    <2>1. CASE StoreKept
      BY <2>1 DEF StoreKept, IInv, StoreInv, ReportedOnce, Redactions
    <2> QED
      BY <2>1, StoreChanges, RecordedKeeps
  <1> QED
    BY <1>2, <1>3, <1>4, <1>5 DEF IInv

LEMMA StepLog == ASSUME IInv, LogStep PROVE IInv'
  <1>1. PICK r \in Record : log' = Append(log, r)
    BY LogGrows DEF IInv
  <1>2. /\ crashes' \in Nat
        /\ UNCHANGED <<probe, tables, entries, proc, reader, opens, claims>>
    BY LogGrows DEF IInv
  <1>3. log \in Seq(Record)
    BY DEF IInv, TypeOK
  <1>4. /\ log' \in Seq(Record) /\ Len(log') = Len(log) + 1 /\ Len(log) \in Nat
        /\ \A i \in 1 .. Len(log) : log'[i] = log[i]
    BY <1>1, <1>3, AppendKeeps
  <1>5. TypeOK'
    BY <1>2, <1>4 DEF IInv, TypeOK
  <1>6. ASSUME NEW q \in Procs PROVE ProcInv(q)'
    BY <1>2, <1>4, OthersKept
  <1>7. ReaderInv'
    BY <1>2, ReaderKept
  <1>8. StoreInv'
    BY <1>2 DEF IInv, StoreInv, ReportedOnce, Redactions
  <1> QED
    BY <1>5, <1>6, <1>7, <1>8 DEF IInv

LEMMA StepReader == ASSUME IInv, ReaderStep PROVE IInv'
  <1>1. /\ reader' \in ReaderType
        /\ UNCHANGED <<log, probe, tables, entries, proc, opens, crashes, claims>>
    BY ReaderTyped
  <1>2. TypeOK'
    BY <1>1 DEF IInv, TypeOK
  <1>3. \A q \in Procs : ProcInv(q)'
    BY <1>1 DEF IInv, ProcInv, Dealt, Redactions
  <1>4. StoreInv'
    BY <1>1 DEF IInv, StoreInv, ReportedOnce, Redactions
  <1> QED
    BY <1>2, <1>3, <1>4, ReaderSteps DEF IInv

LEMMA StepIInv == ASSUME IInv, [Next]_vars PROVE IInv'
  <1>1. CASE Next
    BY <1>1, StepKinds, StepLog, StepProc, StepReader
  <1>2. CASE UNCHANGED vars
    BY <1>2
    DEF vars, IInv, TypeOK, ProcInv, Dealt, Redactions, ReaderInv, StatusConsistent,
        SearchFindsWhatIsThere, Finds, Visible, StoreInv, ReportedOnce
  <1> QED
    BY <1>1, <1>2

\* The invariant of the store, the processes that open it and the reader
\* (context/repository.py, indexer.py, reader.py), from which the rest follows.
THEOREM IInvAlways == Spec => []IInv
  <1>1. Init => IInv
    BY InitIInv
  <1>2. IInv /\ [Next]_vars => IInv'
    BY StepIInv
  <1> QED
    BY <1>1, <1>2, PTL DEF Spec
-----------------------------------------------------------------------------
(* The types, whatever processes there are (context/repository.py:28-117).    *)
THEOREM TypeCorrect == Spec => []TypeOK
  BY IInvAlways, PTL DEF IInv

(* A pass over the log ends with every event it found there in the store, or  *)
(* with the line of the event among its errors (context/indexer.py:259-303).  *)
THEOREM PassesMissNothing == Spec => []NothingMissedSilently
  <1>1. ASSUME IInv PROVE NothingMissedSilently
    <2> SUFFICES ASSUME NEW p \in Procs, proc[p].pc = "done",
                        NEW i \in 1 .. proc[p].goal,
                        log[i].whole /\ i \notin proc[p].errors
                 PROVE  entries[log[i].event] = Redact(log[i].content)
      BY DEF NothingMissedSilently
    <2>1. proc[p] \in ProcType /\ ProcInv(p)
      BY <1>1 DEF IInv, TypeOK
    <2>2. i < proc[p].pos /\ proc[p].pc \in Passing /\ proc[p].pc \notin Carrying
      BY <2>1 DEF ProcInv, ProcType, Passing, Carrying
    <2>3. Dealt(p, i)
      BY <2>1, <2>2 DEF ProcInv, ProcType
    <2> QED
      BY <2>3 DEF Dealt
  <1> QED
    BY <1>1, IInvAlways, PTL

(* Every summary in the store is one that redaction made, though the log may  *)
(* hold others and the tags are as given (context/redaction.py:85-93).        *)
THEOREM OnlyRedactedStored == Spec => []StoredIsRedacted
  <1>1. ASSUME IInv PROVE StoredIsRedacted
    BY <1>1, RedactionsAreContents DEF IInv, StoreInv, StoredIsRedacted
  <1> QED
    BY <1>1, IInvAlways, PTL

(* An event is counted as indexed once (context/repository.py:125-177).       *)
THEOREM IndexedOnce == Spec => []ReportedOnce
  BY IInvAlways, PTL DEF IInv, StoreInv

(* A search that finds nothing has missed nothing that was there when it      *)
(* began (context/reader.py:216-285).                                         *)
THEOREM SearchComplete == Spec => []SearchFindsWhatIsThere
  BY IInvAlways, PTL DEF IInv, ReaderInv

(* A status with entries has their time, though read apart                    *)
(* (context/reader.py:123-161).                                               *)
THEOREM StatusAgrees == Spec => []StatusConsistent
  BY IInvAlways, PTL DEF IInv, ReaderInv

(* The database implements the ledger: only an insertion changes the store,   *)
(* and it adds one entry where there was none.                                *)
THEOREM ImplementsLedger == Spec => LedgerSpec
  <1>1. Init => Ledger!Init
    BY DEF Init, Ledger!Init
  <1>2. ASSUME IInv, [Next]_vars PROVE [Ledger!Next]_entries
    <2>1. ASSUME NEW p \in Procs, ProcStep(p), ~StoreKept
          PROVE  Ledger!Next
      <3>1. Recorded(p)
        BY <1>2, <2>1, StoreChanges
      <3>2. proc[p].content \in Contents
        BY <3>1, RedactionsAreContents DEF Recorded
      <3> QED
        BY <3>1, <3>2 DEF Recorded, Ledger!Next, Ledger!Record
    <2>2. CASE UNCHANGED vars
      BY <2>2 DEF vars
    <2>3. CASE Next
      <3>1. CASE LogStep
        BY <1>2, <3>1, LogGrows DEF IInv
      <3>2. CASE ReaderStep
        BY <1>2, <3>2, ReaderTyped
      <3> QED
        BY <2>1, <2>3, <3>1, <3>2, StepKinds DEF StoreKept
    <2> QED
      BY <1>2, <2>2, <2>3
  <1> QED
    BY <1>1, <1>2, IInvAlways, PTL DEF Spec, LedgerSpec, Ledger!Spec
=============================================================================
