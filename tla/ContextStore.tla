---------------------------- MODULE ContextStore ----------------------------
(* The local context store (thelab/context): an append-only log of events, an *)
(* SQLite database that is filled from the log, and readers.                  *)
(*                                                                            *)
(* Processes that write the database open it (probe for FTS5, schema), then   *)
(* either index the whole log line by line or insert one event of their own   *)
(* (the chat, a Kaggle import). Nothing locks the log, nothing locks a pass   *)
(* over it; SQLite makes each statement, and each insertion with its tags,    *)
(* atomic. A process may die between any two steps.                           *)
(*                                                                            *)
(* The log is a sequence of what each append left in the file. An append that *)
(* was cut short left no newline, so the next one continues its line.         *)
EXTENDS Naturals, Sequences

CONSTANTS Procs,       \* processes that write the database
          Logged,      \* ids of events that are written to the log
          Fresh,       \* ids that are drawn for events inserted directly
          Summaries,   \* summaries of events
          Rests,       \* what else an event says: tags, ids, privacy level
          Contents,    \* the contents that occur, [summary, rest]
          Unsupported, \* a rest no schema supports
          Raising,     \* rests no event can be made of: tags that are no list
          Redacted,    \* summary -> what redaction makes of it
          Safe,        \* the contents agents may see
          Prefix,      \* the contents a query matches by prefix
          Substring,   \* the contents it matches as a substring
          None,
          MaxAppends,  \* bound: appends to the log
          MaxOpens,    \* bound: how often a process opens the database
          MaxCrashes   \* bound: processes that die, appends that are cut short

(* Redaction, the same on the way into the log, out of it and into the store: *)
(* of the summary, and of nothing else an event says.                         *)
Redact(c) == [c EXCEPT !.summary = Redacted[c.summary]]

ASSUME SetsAssumption == /\ Contents \subseteq [summary : Summaries, rest : Rests]
                         /\ Safe \subseteq Contents /\ Substring \subseteq Contents
                         /\ \A c \in Safe : c.rest \notin {Unsupported} \cup Raising
                         /\ None \notin Contents \cup Logged \cup Fresh
                         /\ Logged \cap Fresh = {}
ASSUME RedactionAssumption == /\ Redacted \in [Summaries -> Summaries]
                              /\ \A c \in Contents : Redact(c) \in Contents
ASSUME MatchAssumption == Prefix \subseteq Substring
ASSUME BoundsAssumption == MaxAppends \in Nat /\ MaxOpens \in Nat /\ MaxCrashes \in Nat

Events == Logged \cup Fresh

VARIABLES log,      \* the appended records, [event, content, whole]
          probe,    \* the table _fts5_probe is in the database
          tables,   \* how far the schema is created
          entries,  \* event -> content of its entry
          proc,     \* the state of each writing process
          reader,   \* one call of ContextReader
          opens,
          crashes,
          claims    \* history: how often a pass counted an event as indexed

vars == <<log, probe, tables, entries, proc, reader, opens, crashes, claims>>

Record == [event : Logged, content : Contents, whole : {TRUE}]
          \cup [event : Logged, content : {None}, whole : {FALSE}]
NoProc == [pc |-> "idle", pos |-> 1, goal |-> 0, event |-> None,
           content |-> None, errors |-> {}]
NoReader == [pc |-> "idle", op |-> "status", seen |-> FALSE, rows |-> FALSE,
             count |-> FALSE, last |-> FALSE, busy |-> FALSE]

Init == /\ log = <<>> /\ probe = FALSE /\ tables = "absent"
        /\ entries = [e \in Events |-> None]
        /\ proc = [p \in Procs |-> NoProc]
        /\ reader = NoReader
        /\ opens = 0 /\ crashes = 0
        /\ claims = [e \in Events |-> 0]

-----------------------------------------------------------------------------
(* The log *)

(* append_event writes the line with one write.                               *)
Line(e, c) ==
  /\ Len(log) < MaxAppends
  /\ log' = Append(log, [event |-> e, content |-> c, whole |-> TRUE])
  /\ UNCHANGED <<probe, tables, entries, proc, reader, opens, crashes, claims>>

(* validate_event refuses what the schema does not support; it does not look  *)
(* at the tags.                                                               *)
Supported(c) == c.rest # Unsupported

(* append_session_summary takes the id of its caller, and the one of a session*)
(* of the command line is the second it ended in: an id may come back.        *)
AppendSessionSummary(e, c) == Supported(c) /\ Line(e, Redact(c))

(* An agent that logs what it does has its id drawn, and lists its tags.      *)
LogAgentActivity(e, c) ==
  /\ Supported(c) /\ c.rest \notin Raising
  /\ \A i \in DOMAIN log : log[i].event # e
  /\ Line(e, Redact(c))

(* Other tools write to the same log, as they please.                         *)
AppendOfOthers(e, c) == Line(e, c)

(* The write is cut short (disk full, power lost): part of a line, no newline. *)
CutShort(e) ==
  /\ Len(log) < MaxAppends /\ crashes < MaxCrashes
  /\ log' = Append(log, [event |-> e, content |-> None, whole |-> FALSE])
  /\ crashes' = crashes + 1
  /\ UNCHANGED <<probe, tables, entries, proc, reader, opens, claims>>

-----------------------------------------------------------------------------
(* Opening the database: ContextRepository._ensure_db *)

Goto(p, pc) == proc' = [proc EXCEPT ![p].pc = pc]

Resting == {"idle", "done", "raised", "unavailable"}

OpensWith(p, event, content) ==
  /\ proc[p].pc \in Resting /\ opens < MaxOpens
  /\ opens' = opens + 1
  /\ proc' = [proc EXCEPT ![p] = [NoProc EXCEPT
                !.pc = "probe", !.event = event, !.content = content]]
  /\ UNCHANGED <<log, probe, tables, entries, reader, crashes, claims>>

(* A command indexes the log.                                                 *)
OpenToIndex(p) == OpensWith(p, None, None)

(* A chat or an import inserts an event of its own, under an id it just drew, *)
(* with tags it sets itself.                                                  *)
OpenToInsert(p) ==
  \E e \in Fresh, c \in Contents :
    /\ entries[e] = None /\ \A q \in Procs : proc[q].event # e
    /\ Redact(c) \in Safe
    /\ OpensWith(p, e, Redact(c))

(* CREATE VIRTUAL TABLE _fts5_probe: any error is taken for a missing FTS5,   *)
(* also that the table is there already.                                      *)
CreateProbe(p) ==
  /\ proc[p].pc = "probe"
  /\ probe' = TRUE
  /\ Goto(p, IF probe THEN "unavailable" ELSE "drop")
  /\ UNCHANGED <<log, tables, entries, reader, opens, crashes, claims>>

DropProbe(p) ==
  /\ proc[p].pc = "drop"
  /\ probe' = FALSE
  /\ Goto(p, "schema")
  /\ UNCHANGED <<log, tables, entries, reader, opens, crashes, claims>>

(* The script runs statement by statement, each committed on its own, and     *)
(* each does nothing when its object exists. Then the log is opened.          *)
CreateEntries(p) ==
  /\ proc[p].pc = "schema"
  /\ tables' = IF tables = "absent" THEN "partial" ELSE tables
  /\ Goto(p, "rest")
  /\ UNCHANGED <<log, probe, entries, reader, opens, crashes, claims>>

CreateRest(p) ==
  /\ proc[p].pc = "rest"
  /\ tables' = "ready"
  /\ proc' = IF proc[p].event \in Fresh
             THEN [proc EXCEPT ![p].pc = "select"]
             ELSE [proc EXCEPT ![p].pc = "read", ![p].goal = Len(log)]
  /\ UNCHANGED <<log, probe, entries, reader, opens, crashes, claims>>

-----------------------------------------------------------------------------
(* One pass over the log: index_source_file *)

(* What the file holds up to the next line break, or to its end.              *)
IsLine(first, last) ==
  /\ last \in first .. Len(log)
  /\ \A i \in first .. last - 1 : ~log[i].whole
  /\ log[last].whole \/ last = Len(log)

(* A line is an event only if it is all of one append.                        *)
Parses(first, last) ==
  first = last /\ log[first].whole /\ Supported(log[first].content)

(* The record is made outside of the try: tags that are no list raise.        *)
Raises(i) == Parses(i, i) /\ log[i].content.rest \in Raising

(* Mutant of ReadLine: a line that cannot be used is not reported.            *)
ReadLineQuietly(p) ==
  /\ proc[p].pc = "read"
  /\ \E last \in 1 .. Len(log) :
       /\ IsLine(proc[p].pos, last) /\ ~Raises(proc[p].pos)
       /\ proc' = IF Parses(proc[p].pos, last)
                  THEN [proc EXCEPT ![p].pc = "select", ![p].pos = last + 1,
                          ![p].event = log[last].event,
                          ![p].content = Redact(log[last].content)]
                  ELSE [proc EXCEPT ![p].pos = last + 1]
  /\ UNCHANGED <<log, probe, tables, entries, reader, opens, crashes, claims>>

(* Mutant of ReadLine: what the log says is not redacted again.               *)
ReadLineAsLogged(p) ==
  /\ proc[p].pc = "read"
  /\ \E last \in 1 .. Len(log) :
       /\ IsLine(proc[p].pos, last) /\ ~Raises(proc[p].pos)
       /\ proc' = IF Parses(proc[p].pos, last)
                  THEN [proc EXCEPT ![p].pc = "select", ![p].pos = last + 1,
                          ![p].event = log[last].event,
                          ![p].content = log[last].content]
                  ELSE [proc EXCEPT ![p].pos = last + 1,
                          ![p].errors = @ \cup (proc[p].pos .. last)]
  /\ UNCHANGED <<log, probe, tables, entries, reader, opens, crashes, claims>>

(* A record that is malformed or unsupported is reported and passed over; the *)
(* others are redacted, whoever wrote them.                                   *)
ReadLine(p) ==
  /\ proc[p].pc = "read"
  /\ \E last \in 1 .. Len(log) :
       /\ IsLine(proc[p].pos, last) /\ ~Raises(proc[p].pos)
       /\ proc' = IF Parses(proc[p].pos, last)
                  THEN [proc EXCEPT ![p].pc = "select", ![p].pos = last + 1,
                          ![p].event = log[last].event,
                          ![p].content = Redact(log[last].content)]
                  ELSE [proc EXCEPT ![p].pos = last + 1,
                          ![p].errors = @ \cup (proc[p].pos .. last)]
  /\ UNCHANGED <<log, probe, tables, entries, reader, opens, crashes, claims>>

(* A record that raises ends the pass, and so may an append cut short within a *)
(* character: the file is decoded in chunks, so the lines before it may be    *)
(* lost to the pass as well.                                                  *)
ReadRaises(p) ==
  /\ proc[p].pc = "read"
  /\ \E i \in proc[p].pos .. Len(log) :
       ~log[i].whole \/ (i = proc[p].pos /\ Raises(i))
  /\ Goto(p, "raised")
  /\ UNCHANGED <<log, probe, tables, entries, reader, opens, crashes, claims>>

EndOfLog(p) ==
  /\ proc[p].pc = "read" /\ proc[p].pos > Len(log)
  /\ Goto(p, "done")
  /\ UNCHANGED <<log, probe, tables, entries, reader, opens, crashes, claims>>

-----------------------------------------------------------------------------
(* ContextRepository.upsert *)

After(p) == IF proc[p].event \in Fresh THEN "done" ELSE "read"
Fails(p) ==
  proc' = [proc EXCEPT ![p].pc = After(p), ![p].event = None, ![p].content = None,
             ![p].errors = IF proc[p].event \in Fresh THEN @
                           ELSE @ \cup {proc[p].pos - 1}]
Succeeds(p) ==
  proc' = [proc EXCEPT ![p].pc = After(p), ![p].event = None, ![p].content = None]

(* The entry of the event, read outside of any transaction: it may be the     *)
(* same one, it may differ (ContentMismatchError), or there is none yet.      *)
Select(p) ==
  /\ proc[p].pc = "select"
  /\ LET found == entries[proc[p].event] IN
       CASE found = None             -> Goto(p, "insert")
         [] found = proc[p].content  -> Succeeds(p)
         [] OTHER                    -> Fails(p)
  /\ UNCHANGED <<log, probe, tables, entries, reader, opens, crashes, claims>>

(* Mutant of Insert: an entry that came meanwhile is replaced.                *)
InsertOrReplace(p) ==
  /\ proc[p].pc = "insert"
  /\ entries' = [entries EXCEPT ![proc[p].event] = proc[p].content]
  /\ claims' = [claims EXCEPT ![proc[p].event] = @ + 1]
  /\ Succeeds(p)
  /\ UNCHANGED <<log, probe, tables, reader, opens, crashes>>

(* The entry, its tags and its place in the index, in one transaction. Another *)
(* process may have inserted the event since the SELECT: the UNIQUE constraint *)
(* then refuses this one, whatever its content.                                *)
Insert(p) ==
  /\ proc[p].pc = "insert"
  /\ IF entries[proc[p].event] = None
     THEN /\ entries' = [entries EXCEPT ![proc[p].event] = proc[p].content]
          /\ claims' = [claims EXCEPT ![proc[p].event] = @ + 1]
          /\ Succeeds(p)
     ELSE Fails(p) /\ UNCHANGED <<entries, claims>>
  /\ UNCHANGED <<log, probe, tables, reader, opens, crashes>>

(* Another process holds its lock for longer than SQLite waits.               *)
Locked(p) ==
  /\ proc[p].pc \in {"select", "insert"}
  /\ Fails(p)
  /\ UNCHANGED <<log, probe, tables, entries, reader, opens, crashes, claims>>

Crash(p) ==
  /\ proc[p].pc \notin Resting /\ crashes < MaxCrashes
  /\ proc' = [proc EXCEPT ![p] = NoProc]
  /\ crashes' = crashes + 1
  /\ UNCHANGED <<log, probe, tables, entries, reader, opens, claims>>

-----------------------------------------------------------------------------
(* ContextReader: constructed for a call, each statement a read of its own *)

Visible == {e \in Events : entries[e] \in Safe}
Finds(patterns) == \E e \in Visible : entries[e] \in patterns

(* The schema is checked once; without it the call answers with nothing.      *)
Construct(op) ==
  /\ reader.pc = "idle"
  /\ reader' = IF tables = "ready"
               THEN [NoReader EXCEPT !.op = op, !.pc = op,
                       !.seen = (op = "search" /\ Finds(Substring))]
               ELSE [NoReader EXCEPT !.pc = "uninitialized"]
  /\ UNCHANGED <<log, probe, tables, entries, proc, opens, crashes, claims>>

(* A query that is too long, or another argument out of bounds.               *)
Refuse ==
  /\ reader.pc = "search"
  /\ reader' = [NoReader EXCEPT !.pc = "refused"]
  /\ UNCHANGED <<log, probe, tables, entries, proc, opens, crashes, claims>>

(* status: the count of the entries (here, whether it is zero), then the time *)
(* of the latest one (here, whether there is one).                            *)
EntryCount ==
  /\ reader.pc = "status"
  /\ reader' = [reader EXCEPT !.pc = "last", !.count = (Visible # {})]
  /\ UNCHANGED <<log, probe, tables, entries, proc, opens, crashes, claims>>

LastIndexedAt ==
  /\ reader.pc = "last"
  /\ reader' = [reader EXCEPT !.pc = "answered", !.last = (Visible # {})]
  /\ UNCHANGED <<log, probe, tables, entries, proc, opens, crashes, claims>>

(* The keywords as prefixes. Only when that finds nothing, the same keywords  *)
(* as substrings. (A query in FTS5 syntax, and get, are the first read alone.) *)
Expanded ==
  /\ reader.pc = "search"
  /\ reader' = [reader EXCEPT !.rows = Finds(Prefix),
                  !.pc = IF Finds(Prefix) THEN "answered" ELSE "like"]
  /\ UNCHANGED <<log, probe, tables, entries, proc, opens, crashes, claims>>

(* Mutant of Like: the words are looked for by prefix, too.                   *)
LikeWithExpression ==
  /\ reader.pc = "like"
  /\ reader' = [reader EXCEPT !.rows = Finds(Prefix \cap Substring), !.pc = "answered"]
  /\ UNCHANGED <<log, probe, tables, entries, proc, opens, crashes, claims>>

Like ==
  /\ reader.pc = "like"
  /\ reader' = [reader EXCEPT !.rows = Finds(Substring), !.pc = "answered"]
  /\ UNCHANGED <<log, probe, tables, entries, proc, opens, crashes, claims>>

(* Any OperationalError, a lock among them, counts as no rows.                *)
Busy ==
  /\ reader.pc \in {"search", "like"}
  /\ reader' = [reader EXCEPT !.busy = TRUE,
                  !.pc = IF reader.pc = "search" THEN "like" ELSE "answered"]
  /\ UNCHANGED <<log, probe, tables, entries, proc, opens, crashes, claims>>

Return ==
  /\ reader.pc \in {"answered", "uninitialized", "refused"}
  /\ reader' = NoReader
  /\ UNCHANGED <<log, probe, tables, entries, proc, opens, crashes, claims>>

-----------------------------------------------------------------------------
Writer(p) == \/ CreateProbe(p) \/ DropProbe(p) \/ CreateEntries(p) \/ CreateRest(p)
             \/ ReadLine(p) \/ ReadRaises(p) \/ EndOfLog(p)
             \/ Select(p) \/ Insert(p) \/ Locked(p)

(* A call of a reader; several may follow each other, one is on at a time.    *)
Read == EntryCount \/ LastIndexedAt \/ Refuse \/ Expanded \/ Like \/ Busy \/ Return

Environment == \/ \E e \in Logged, c \in Contents :
                    AppendSessionSummary(e, c) \/ LogAgentActivity(e, c) \/ AppendOfOthers(e, c)
               \/ \E e \in Logged : CutShort(e)
               \/ \E p \in Procs : OpenToIndex(p) \/ OpenToInsert(p) \/ Crash(p)
               \/ \E op \in {"status", "search"} : Construct(op)

Next == (\E p \in Procs : Writer(p)) \/ Read \/ Environment

Spec == Init /\ [][Next]_vars

-----------------------------------------------------------------------------
(* Properties *)

ProcType == [pc : Resting \cup {"probe", "drop", "schema", "rest", "read",
                                "select", "insert"},
             pos : Nat \ {0}, goal : Nat, event : Events \cup {None},
             content : Contents \cup {None}, errors : SUBSET (Nat \ {0})]
ReaderType == [pc : {"idle", "uninitialized", "refused", "status", "last", "search", "like",
                     "answered"},
               op : {"status", "search"}, seen : BOOLEAN, rows : BOOLEAN,
               count : BOOLEAN, last : BOOLEAN, busy : BOOLEAN]

(* The types of the state; a process that is past the schema finds it there,  *)
(* and one that inserts has an event with a content of some schema.           *)
TypeOK ==
  /\ log \in Seq(Record)
  /\ probe \in BOOLEAN
  /\ tables \in {"absent", "partial", "ready"}
  /\ entries \in [Events -> Contents \cup {None}]
  /\ proc \in [Procs -> ProcType]
  /\ reader \in ReaderType
  /\ opens \in Nat /\ crashes \in Nat
  /\ claims \in [Events -> Nat]
  /\ \A p \in Procs :
       proc[p].pc \in {"select", "insert"} =>
         /\ tables = "ready"
         /\ proc[p].event \in Events
         /\ proc[p].content \in Contents /\ Supported(proc[p].content)

(* An event that was completely in the log before a pass began is in the      *)
(* store when the pass ends, with this content, or its line is among the      *)
(* errors the pass reports: the line of another append that was cut short, a  *)
(* conflict, a lock, the race between the SELECT and the INSERT of two passes *)
(* (indexer.py:259-303, repository.py:125-177).                               *)
NothingMissedSilently ==
  \A p \in Procs : proc[p].pc = "done" =>
    \A i \in 1 .. proc[p].goal :
      (log[i].whole /\ i \notin proc[p].errors) =>
        entries[log[i].event] = Redact(log[i].content)

(* Every summary in the store, and so every one a search finds, came out of   *)
(* redaction: not only those of the log, where other tools write as they      *)
(* please, but also those of a chat or an import. The tags and the ids of an  *)
(* event are stored as they were given (indexer.py:204-216, chat.py:540-550). *)
StoredIsRedacted ==
  \A e \in Events : entries[e] # None =>
    \E s \in Summaries : entries[e].summary = Redacted[s]

(* However many passes run, one after the other or at once, an event is       *)
(* reported as indexed at most once (repository.py:125-177, "Idempotent").    *)
ReportedOnce == \A e \in Events : claims[e] <= 1

(* A search that finds nothing, and was not locked out, leaves out no entry   *)
(* that was there when it began and holds one of its keywords                 *)
(* (reader.py:216-285, filters.py:34-71).                                     *)
SearchFindsWhatIsThere ==
  (reader.pc = "answered" /\ reader.op = "search" /\ ~reader.busy /\ ~reader.rows)
    => ~reader.seen

(* A status that counts entries names the time of the latest one, though the  *)
(* two are read apart while entries are inserted (reader.py:123-161).         *)
StatusConsistent ==
  (reader.pc = "answered" /\ reader.op = "status" /\ reader.count) => reader.last

(* Opening the store fails only for want of FTS5, which this SQLite has       *)
(* (repository.py:74-81).                                                     *)
StoreOpens == \A p \in Procs : proc[p].pc # "unavailable"

(* The store is a map that only grows, one whole entry at a time: no pass, no *)
(* conflict and no crash changes or loses an entry.                           *)
Ledger == INSTANCE ContextLedger
LedgerSpec == Ledger!Spec
=============================================================================
