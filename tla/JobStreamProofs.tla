--------------------------- MODULE JobStreamProofs ---------------------------
(***************************************************************************)
(* That a client misses nothing as long as its queue holds it, that what a *)
(* full queue loses is never repeated or reordered, that "done" is last,   *)
(* and that an acknowledged cancellation does not end as completed: for    *)
(* any number of clients, any capacity and any number of events.           *)
(*                                                                         *)
(* What is missing for an induction is which positions a client may hold   *)
(* at all, and that a generator is closed only once the job is over: an    *)
(* event that is emitted later would pass it by.                           *)
(*                                                                         *)
(* The second half is about the jobs that emit from a thread (JobThread).  *)
(***************************************************************************)
EXTENDS JobThread, FiniteSetTheorems, TLAPS

Seen(c) == received[c] \o queue[c]

\* What client c holds are events of the job, in their order.
Positions(c) ==
  phase[c] # "off" =>
    /\ \A i \in 1 .. Len(Seen(c)) : Seen(c)[i] \in 1 .. Len(events)
    /\ \A i \in 2 .. Len(Seen(c)) : Seen(c)[i - 1] < Seen(c)[i]

Complete(c) ==
  phase[c] # "off" /\ Len(events) <= Cap => Seen(c) = Span(0, Len(events))

ClosedIsOver(c) == phase[c] = "closed" => status \in Verdicts

ClientInv(c) == Positions(c) /\ Complete(c) /\ ClosedIsOver(c)

IInv == TypeOK /\ DoneIsLast /\ CancelNeverCompletes /\ \A c \in Clients : ClientInv(c)
-----------------------------------------------------------------------------
(* Sequences *)

LEMMA SameSequence ==
  ASSUME NEW s \in Seq(Nat), NEW t \in Seq(Nat), Len(s) = Len(t),
         \A i \in 1 .. Len(t) : s[i] = t[i]
  PROVE  s = t
  OBVIOUS

LEMMA SpanIs ==
  ASSUME NEW m \in Nat, NEW k \in Nat
  PROVE  /\ Span(m, m + k) \in Seq(Nat) /\ Len(Span(m, m + k)) = k
         /\ \A i \in 1 .. k : Span(m, m + k)[i] = m + i
  <1>1. (m + k) - m = k
    OBVIOUS
  <1>2. Span(m, m + k) = [i \in 1 .. k |-> m + i]
    BY <1>1 DEF Span
  <1> QED
    BY <1>2

LEMMA SpanFromStart ==
  ASSUME NEW n \in Nat
  PROVE  /\ Span(0, n) \in Seq(Nat) /\ Len(Span(0, n)) = n
         /\ \A i \in 1 .. n : Span(0, n)[i] = i
  <1>1. 0 + n = n /\ 0 \in Nat
    OBVIOUS
  <1>2. /\ Span(0, 0 + n) \in Seq(Nat) /\ Len(Span(0, 0 + n)) = n
        /\ \A i \in 1 .. n : Span(0, 0 + n)[i] = 0 + i
    BY <1>1, SpanIs
  <1> QED
    BY <1>1, <1>2

LEMMA PutIsPrefix ==
  ASSUME NEW q \in Seq(Nat), NEW new \in Seq(Nat)
  PROVE  /\ Put(q, new) \in Seq(Nat)
         /\ Len(Put(q, new)) <= Len(q) + Len(new)
         /\ Len(q) + Len(new) <= Cap => Put(q, new) = q \o new
         /\ \A i \in 1 .. Len(Put(q, new)) : Put(q, new)[i] = (q \o new)[i]
  <1>1. q \o new \in Seq(Nat) /\ Len(q \o new) = Len(q) + Len(new)
    OBVIOUS
  <1>2. CASE Len(q) + Len(new) <= Cap
    BY <1>1, <1>2 DEF Put
  <1>3. CASE ~(Len(q) + Len(new) <= Cap)
    <2> DEFINE all == q \o new
    <2>1. all \in Seq(Nat) /\ Cap \in 0 .. Len(all)
      BY <1>1, <1>3, CapAssumption
    <2> HIDE DEF all
    <2>2. /\ SubSeq(all, 1, Cap) \in Seq(Nat) /\ Len(SubSeq(all, 1, Cap)) = Cap
          /\ \A i \in 1 .. Cap : SubSeq(all, 1, Cap)[i] = all[i]
      BY <2>1, CapAssumption
    <2>3. Put(q, new) = SubSeq(all, 1, Cap)
      BY <1>3 DEF Put, all
    <2> QED
      BY <1>1, <1>3, <2>2, <2>3, CapAssumption DEF all
  <1> QED
    BY <1>2, <1>3
-----------------------------------------------------------------------------
(* What a client that held what it should holds once k events are put *)

PrefixOf(put, q, new) ==
  /\ Len(put) <= Len(q) + Len(new)
  /\ \A i \in 1 .. Len(put) : put[i] = (q \o new)[i]

Continues(more, old, new) ==
  /\ Len(more) <= Len(old) + Len(new)
  /\ \A i \in 1 .. Len(more) :
       more[i] = IF i <= Len(old) THEN old[i] ELSE new[i - Len(old)]

LEMMA Appended ==
  ASSUME NEW r \in Seq(Nat), NEW q \in Seq(Nat), NEW new \in Seq(Nat), NEW put \in Seq(Nat),
         PrefixOf(put, q, new)
  PROVE  Continues(r \o put, r \o q, new)
  <1>1. /\ r \o put \in Seq(Nat) /\ Len(r \o put) = Len(r) + Len(put)
        /\ r \o q \in Seq(Nat) /\ Len(r \o q) = Len(r) + Len(q)
        /\ q \o new \in Seq(Nat) /\ Len(q \o new) = Len(q) + Len(new)
        /\ Len(r) \in Nat /\ Len(q) \in Nat /\ Len(put) \in Nat /\ Len(new) \in Nat
    OBVIOUS
  <1>2. ASSUME NEW i \in 1 .. Len(r \o put)
        PROVE  (r \o put)[i] = IF i <= Len(r \o q) THEN (r \o q)[i] ELSE new[i - Len(r \o q)]
    <2>1. CASE i <= Len(r)
      BY <1>1, <2>1
    <2>2. CASE i > Len(r)
      <3> DEFINE j == i - Len(r)
      <3>1. j \in 1 .. Len(put) /\ j \in 1 .. Len(q) + Len(new)
        BY <1>1, <2>2 DEF PrefixOf
      <3>2. (r \o put)[i] = put[j]
        BY <1>1, <2>2
      <3>3. put[j] = (q \o new)[j]
        BY <3>1 DEF PrefixOf
      <3>4. CASE j <= Len(q)
        <4>1. (q \o new)[j] = q[j] /\ (r \o q)[i] = q[j] /\ i <= Len(r \o q)
          BY <1>1, <2>2, <3>1, <3>4
        <4> QED
          BY <3>2, <3>3, <4>1
      <3>5. CASE j > Len(q)
        <4>1. /\ (q \o new)[j] = new[j - Len(q)] /\ ~(i <= Len(r \o q))
              /\ j - Len(q) = i - Len(r \o q)
          BY <1>1, <2>2, <3>1, <3>5
        <4> QED
          BY <3>2, <3>3, <4>1
      <3> QED
        BY <1>1, <3>1, <3>4, <3>5
    <2> QED
      BY <1>1, <2>1, <2>2
  <1>3. Len(r \o put) <= Len(r \o q) + Len(new)
    BY <1>1 DEF PrefixOf
  <1> QED
    BY <1>2, <1>3 DEF Continues

Holds(r, q, n) ==
  /\ \A i \in 1 .. Len(r \o q) : (r \o q)[i] \in 1 .. n
  /\ \A i \in 2 .. Len(r \o q) : (r \o q)[i - 1] < (r \o q)[i]
  /\ n <= Cap => r \o q = Span(0, n)

LEMMA HoldsMore ==
  ASSUME NEW r \in Seq(Nat), NEW q \in Seq(Nat), NEW n \in Nat, NEW k \in Nat,
         Holds(r, q, n)
  PROVE  /\ Put(q, Span(n, n + k)) \in Seq(Nat)
         /\ Holds(r, Put(q, Span(n, n + k)), n + k)
  <1>1. PICK new \in Seq(Nat) :
          /\ new = Span(n, n + k) /\ Len(new) = k
          /\ \A i \in 1 .. k : new[i] = n + i
    BY SpanIs
  <1>2. PICK put \in Seq(Nat) :
          /\ put = Put(q, new) /\ Len(put) <= Len(q) + k
          /\ Len(q) + k <= Cap => put = q \o new
          /\ \A i \in 1 .. Len(put) : put[i] = (q \o new)[i]
    <2>1. /\ Put(q, new) \in Seq(Nat) /\ Len(Put(q, new)) <= Len(q) + Len(new)
          /\ Len(q) + Len(new) <= Cap => Put(q, new) = q \o new
          /\ \A i \in 1 .. Len(Put(q, new)) : Put(q, new)[i] = (q \o new)[i]
      BY PutIsPrefix
    <2> Put(q, new) \in Seq(Nat)
      BY <2>1
    <2> WITNESS Put(q, new) \in Seq(Nat)
    <2> QED
      BY <1>1, <2>1
  <1>3. PICK old \in Seq(Nat) :
          /\ old = r \o q /\ Len(old) = Len(r) + Len(q)
          /\ \A i \in 1 .. Len(old) : old[i] \in 1 .. n
          /\ \A i \in 2 .. Len(old) : old[i - 1] < old[i]
          /\ n <= Cap => old = Span(0, n)
    <2>1. r \o q \in Seq(Nat) /\ Len(r \o q) = Len(r) + Len(q)
      OBVIOUS
    <2> QED
      BY <2>1 DEF Holds
  <1>4. PICK more \in Seq(Nat) :
          /\ more = r \o put /\ Len(more) = Len(r) + Len(put)
          /\ Len(more) <= Len(old) + k
          /\ \A i \in 1 .. Len(more) :
               more[i] = IF i <= Len(old) THEN old[i] ELSE new[i - Len(old)]
    <2>1. PrefixOf(put, q, new)
      BY <1>1, <1>2 DEF PrefixOf
    <2>2. Continues(r \o put, old, new)
      BY <1>3, <2>1, Appended
    <2>3. r \o put \in Seq(Nat) /\ Len(r \o put) = Len(r) + Len(put)
      OBVIOUS
    <2> WITNESS r \o put \in Seq(Nat)
    <2> QED
      BY <1>1, <2>2, <2>3 DEF Continues
  <1>5. Len(more) \in Nat /\ Len(old) \in Nat /\ Len(q) \in Nat /\ Len(r) \in Nat
    OBVIOUS
  <1>6. \A i \in 1 .. Len(more) :
          more[i] = IF i <= Len(old) THEN old[i] ELSE n + (i - Len(old))
    <2> SUFFICES ASSUME NEW i \in 1 .. Len(more), ~(i <= Len(old))
                 PROVE  more[i] = n + (i - Len(old))
      BY <1>4
    <2>1. i - Len(old) \in 1 .. k
      BY <1>4, <1>5
    <2> QED
      BY <1>1, <1>4, <2>1
  <1>7. \A i \in 1 .. Len(more) : more[i] \in 1 .. n + k
    <2> SUFFICES ASSUME NEW i \in 1 .. Len(more) PROVE more[i] \in 1 .. n + k
      OBVIOUS
    <2>1. CASE i <= Len(old)
      <3>1. i \in 1 .. Len(old) /\ more[i] = old[i]
        BY <1>5, <1>6, <2>1
      <3>2. old[i] \in 1 .. n
        BY <1>3, <3>1
      <3> QED
        BY <3>1, <3>2
    <2>2. CASE ~(i <= Len(old))
      <3>1. more[i] = n + (i - Len(old)) /\ i - Len(old) \in 1 .. k
        BY <1>4, <1>5, <1>6, <2>2
      <3> QED
        BY <3>1
    <2> QED
      BY <2>1, <2>2
  <1>8. \A i \in 2 .. Len(more) : more[i - 1] < more[i]
    <2> SUFFICES ASSUME NEW i \in 2 .. Len(more) PROVE more[i - 1] < more[i]
      OBVIOUS
    <2>1. /\ more[i] = IF i <= Len(old) THEN old[i] ELSE n + (i - Len(old))
          /\ more[i - 1] = IF i - 1 <= Len(old) THEN old[i - 1] ELSE n + ((i - 1) - Len(old))
      <3>1. i \in 1 .. Len(more) /\ i - 1 \in 1 .. Len(more)
        BY <1>5
      <3> QED
        BY <1>6, <3>1
    <2>2. CASE i <= Len(old)
      BY <1>3, <1>5, <2>1, <2>2
    <2>3. CASE i - 1 = Len(old)
      <3>1. old[i - 1] \in 1 .. n
        BY <1>3, <1>5, <2>3
      <3> QED
        BY <1>5, <2>1, <2>3, <3>1
    <2>4. CASE i - 1 > Len(old)
      BY <1>5, <2>1, <2>4
    <2> QED
      BY <1>5, <2>2, <2>3, <2>4
  <1>9. ASSUME n + k <= Cap PROVE more = Span(0, n + k)
    <2>1. old = Span(0, n)
      BY <1>3, <1>9, CapAssumption
    <2>2. Len(old) = n /\ \A i \in 1 .. n : old[i] = i
      BY <2>1, SpanFromStart
    <2>3. Len(q) + k <= Cap
      <3>1. Len(r) + Len(q) = n /\ Cap \in Nat
        BY <1>3, <2>2, CapAssumption
      <3> QED
        BY <1>5, <1>9, <3>1
    <2>4. put = q \o new /\ Len(put) = Len(q) + k
      <3>1. Len(q \o new) = Len(q) + Len(new)
        OBVIOUS
      <3> QED
        BY <1>1, <1>2, <2>3, <3>1
    <2>5. Len(more) = n + k
      BY <1>3, <1>4, <1>5, <2>2, <2>4
    <2>6. \A i \in 1 .. n + k : more[i] = i
      BY <1>6, <2>2, <2>5
    <2>7. PICK span \in Seq(Nat) : /\ span = Span(0, n + k) /\ Len(span) = n + k
                                   /\ \A i \in 1 .. n + k : span[i] = i
      <3>1. n + k \in Nat
        OBVIOUS
      <3> QED
        BY <3>1, SpanFromStart
    <2>8. more = span
      BY <2>5, <2>6, <2>7
    <2> QED
      BY <2>7, <2>8
  <1> QED
    BY <1>1, <1>2, <1>4, <1>7, <1>8, <1>9 DEF Holds
-----------------------------------------------------------------------------
(* A job that emits *)

LEMMA ClientEmit ==
  ASSUME IInv, NEW kinds \in Seq(Kinds), Emit(kinds), NEW c \in Clients,
         status \notin Verdicts
  PROVE  /\ queue'[c] \in Seq(Nat)
         /\ Positions(c)' /\ Complete(c)' /\ phase'[c] # "closed"
  <1>1. /\ Len(events) \in Nat /\ Len(kinds) \in Nat
        /\ Len(events') = Len(events) + Len(kinds)
    BY DEF Emit, IInv, TypeOK
  <1>2. /\ received[c] \in Seq(Nat) /\ queue[c] \in Seq(Nat)
        /\ phase' = phase /\ received' = received
        /\ phase[c] \in {"off", "open"}
    BY DEF Emit, IInv, TypeOK, ClientInv, ClosedIsOver
  <1>3. queue'[c] = IF phase[c] = "open"
                    THEN Put(queue[c], Span(Len(events), Len(events) + Len(kinds)))
                    ELSE queue[c]
    BY DEF Emit
  <1>4. CASE phase[c] = "off"
    BY <1>2, <1>3, <1>4 DEF Positions, Complete
  <1>5. CASE phase[c] = "open"
    <2>1. Holds(received[c], queue[c], Len(events))
      BY <1>5 DEF Holds, IInv, ClientInv, Positions, Complete, Seen
    <2>2. queue'[c] \in Seq(Nat) /\ Holds(received[c], queue'[c], Len(events'))
      BY <1>1, <1>2, <1>3, <1>5, <2>1, HoldsMore
    <2> QED
      BY <1>2, <1>5, <2>2 DEF Holds, Positions, Complete, Seen
  <1> QED
    BY <1>2, <1>4, <1>5

LEMMA EmitClients ==
  ASSUME IInv, NEW kinds \in Seq(Kinds), Emit(kinds), status \notin Verdicts
  PROVE  /\ events' \in Seq(Kinds)
         /\ phase' = phase /\ received' = received
         /\ queue' \in [Clients -> Seq(Nat)]
         /\ \A c \in Clients : Positions(c)' /\ Complete(c)' /\ phase'[c] # "closed"
  <1>1. events' \in Seq(Kinds) /\ phase' = phase /\ received' = received
    BY DEF Emit, IInv, TypeOK
  <1>2. \A c \in Clients : /\ queue'[c] \in Seq(Nat)
                           /\ Positions(c)' /\ Complete(c)' /\ phase'[c] # "closed"
    BY ClientEmit
  <1>3. queue' = [c \in Clients |-> queue'[c]]
    BY DEF Emit
  <1> QED
    BY <1>1, <1>2, <1>3

\* Before the end nothing is "done", and an event that is not "done" keeps it so.
LEMMA EmitBefore ==
  ASSUME IInv, NEW kind \in Kinds \ {"done"}, Emit(<<kind>>),
         status \notin Verdicts, status' \in {"pending", "running"},
         cancelRequested' \in BOOLEAN
  PROVE  IInv'
  <1>1. <<kind>> \in Seq(Kinds)
    OBVIOUS
  <1>2. /\ events' \in Seq(Kinds) /\ phase' = phase /\ received' = received
        /\ queue' \in [Clients -> Seq(Nat)]
        /\ \A c \in Clients : Positions(c)' /\ Complete(c)' /\ phase'[c] # "closed"
    BY <1>1, EmitClients
  <1>3. TypeOK'
    BY <1>2 DEF IInv, TypeOK
  <1>4. DoneIsLast'
    <2>1. /\ events \in Seq(Kinds) /\ events' = events \o <<kind>>
          /\ \A i \in 1 .. Len(events) : events[i] # "done"
      BY DEF IInv, TypeOK, DoneIsLast, Emit
    <2>2. \A i \in 1 .. Len(events') : events'[i] # "done"
      BY <2>1
    <2> QED
      BY <2>2 DEF DoneIsLast, Verdicts
  <1>5. CancelNeverCompletes' /\ \A c \in Clients : ClosedIsOver(c)'
    BY <1>2 DEF CancelNeverCompletes, ClosedIsOver
  <1> QED
    BY <1>2, <1>3, <1>4, <1>5 DEF IInv, ClientInv

LEMMA FinishInv == ASSUME IInv, Finish PROVE IInv'
  <1>1. /\ <<"verdict", "done">> \in Seq(Kinds) /\ Emit(<<"verdict", "done">>)
        /\ status \notin Verdicts /\ status' \in Verdicts
        /\ cancelRequested' = cancelRequested
        /\ cancelRequested => status' # "completed"
    BY DEF Finish, VerdictsFor, Verdicts, Kinds
  <1>2. /\ events' \in Seq(Kinds) /\ phase' = phase /\ received' = received
        /\ queue' \in [Clients -> Seq(Nat)]
        /\ \A c \in Clients : Positions(c)' /\ Complete(c)' /\ phase'[c] # "closed"
    BY <1>1, EmitClients
  <1>3. TypeOK'
    BY <1>1, <1>2 DEF IInv, TypeOK
  <1>4. DoneIsLast'
    <2>1. /\ events \in Seq(Kinds) /\ events' = events \o <<"verdict", "done">>
          /\ \A i \in 1 .. Len(events) : events[i] # "done"
      BY <1>1 DEF IInv, TypeOK, DoneIsLast, Emit
    <2>2. \A i \in 1 .. Len(events') : events'[i] = "done" <=> i = Len(events')
      BY <2>1
    <2> QED
      BY <1>1, <2>2 DEF DoneIsLast
  <1>5. CancelNeverCompletes' /\ \A c \in Clients : ClosedIsOver(c)'
    BY <1>1, <1>2 DEF CancelNeverCompletes, ClosedIsOver
  <1> QED
    BY <1>2, <1>3, <1>4, <1>5 DEF IInv, ClientInv
-----------------------------------------------------------------------------
(* A client *)

\* A client's step is its own.
LEMMA OtherClients ==
  ASSUME IInv, NEW c \in Clients, NEW p, NEW q \in Seq(Nat), NEW r \in Seq(Nat),
         p \in {"off", "open", "closed"},
         phase' = [phase EXCEPT ![c] = p],
         queue' = [queue EXCEPT ![c] = q],
         received' = [received EXCEPT ![c] = r],
         UNCHANGED <<status, cancelRequested, events>>,
         ClientInv(c)'
  PROVE  IInv'
  <1>1. TypeOK' /\ DoneIsLast' /\ CancelNeverCompletes'
    BY DEF IInv, TypeOK, DoneIsLast, CancelNeverCompletes
  <1>2. ASSUME NEW d \in Clients, d # c PROVE ClientInv(d)'
    BY <1>2 DEF IInv, TypeOK, ClientInv, Positions, Complete, ClosedIsOver, Seen
  <1> QED
    BY <1>1, <1>2 DEF IInv

LEMMA SubscribeInv == ASSUME IInv, NEW c \in Clients, Subscribe(c) PROVE IInv'
  <1>1. /\ Len(events) \in Nat /\ UNCHANGED <<status, cancelRequested, events>>
        /\ phase' = [phase EXCEPT ![c] = "open"]
        /\ queue' = [queue EXCEPT ![c] = Put(<<>>, Span(0, Len(events)))]
        /\ received' = [received EXCEPT ![c] = <<>>]
        /\ <<>> \in Seq(Nat)
    BY DEF Subscribe, IInv, TypeOK
  <1>2. Holds(<<>>, <<>>, 0)
    <2>1. <<>> \o <<>> = <<>> /\ Len(<<>>) = 0
      OBVIOUS
    <2>2. Span(0, 0) = <<>>
      BY DEF Span
    <2> QED
      BY <2>1, <2>2 DEF Holds
  <1>3. /\ Put(<<>>, Span(0, 0 + Len(events))) \in Seq(Nat)
        /\ Holds(<<>>, Put(<<>>, Span(0, 0 + Len(events))), 0 + Len(events))
    BY <1>1, <1>2, HoldsMore
  <1>4. 0 + Len(events) = Len(events)
    BY <1>1
  <1>5. received'[c] = <<>> /\ queue'[c] = Put(<<>>, Span(0, Len(events))) /\ phase'[c] = "open"
    BY <1>1 DEF IInv, TypeOK
  <1>6. Holds(received'[c], queue'[c], Len(events'))
    BY <1>1, <1>3, <1>4, <1>5
  <1>7. ClientInv(c)'
    BY <1>5, <1>6 DEF Holds, ClientInv, Positions, Complete, ClosedIsOver, Seen
  <1> QED
    BY <1>1, <1>3, <1>4, <1>7, OtherClients

LEMMA HeadTail ==
  ASSUME NEW r \in Seq(Nat), NEW q \in Seq(Nat), q # <<>>
  PROVE  /\ Append(r, Head(q)) \in Seq(Nat) /\ Tail(q) \in Seq(Nat)
         /\ Append(r, Head(q)) \o Tail(q) = r \o q
         /\ (r \o q)[Len(r) + 1] = Head(q) /\ Len(r) + 1 \in 1 .. Len(r \o q)
  <1>1. /\ Len(q) \in Nat /\ Len(q) > 0 /\ Head(q) = q[1] /\ q[1] \in Nat
        /\ Tail(q) \in Seq(Nat) /\ Len(Tail(q)) = Len(q) - 1
        /\ \A i \in 1 .. Len(q) - 1 : Tail(q)[i] = q[i + 1]
    OBVIOUS
  <1>2. /\ Append(r, Head(q)) \in Seq(Nat) /\ Len(Append(r, Head(q))) = Len(r) + 1
        /\ \A i \in 1 .. Len(r) + 1 :
             Append(r, Head(q))[i] = IF i <= Len(r) THEN r[i] ELSE q[1]
    BY <1>1
  <1>3. PICK a \in Seq(Nat), t \in Seq(Nat) :
          /\ a = Append(r, Head(q)) /\ t = Tail(q)
          /\ Len(a) = Len(r) + 1 /\ Len(t) = Len(q) - 1
          /\ \A i \in 1 .. Len(r) + 1 : a[i] = IF i <= Len(r) THEN r[i] ELSE q[1]
          /\ \A i \in 1 .. Len(q) - 1 : t[i] = q[i + 1]
    BY <1>1, <1>2
  <1>4. a \o t = r \o q
    <2>1. Len(a \o t) = Len(r \o q) /\ a \o t \in Seq(Nat) /\ r \o q \in Seq(Nat)
      BY <1>1, <1>3
    <2>2. ASSUME NEW i \in 1 .. Len(r \o q) PROVE (a \o t)[i] = (r \o q)[i]
      <3>1. i \in 1 .. Len(r) + Len(q) /\ Len(r) \in Nat /\ i \in Nat
        BY <1>1
      <3>2. CASE i <= Len(r) + 1
        BY <1>1, <1>3, <3>1, <3>2
      <3>3. CASE i > Len(r) + 1
        <4>1. (a \o t)[i] = t[i - (Len(r) + 1)] /\ (r \o q)[i] = q[i - Len(r)]
          BY <1>1, <1>3, <3>1, <3>3
        <4>2. i - (Len(r) + 1) \in 1 .. Len(q) - 1 /\ (i - (Len(r) + 1)) + 1 = i - Len(r)
          BY <1>1, <3>1, <3>3
        <4> QED
          BY <1>3, <4>1, <4>2
      <3>4. i <= Len(r) + 1 \/ i > Len(r) + 1
        BY <3>1
      <3> QED
        BY <3>2, <3>3, <3>4
    <2> QED
      BY <2>1, <2>2, SameSequence
  <1> QED
    BY <1>1, <1>3, <1>4

LEMMA DeliverInv == ASSUME IInv, NEW c \in Clients, Deliver(c) PROVE IInv'
  <1>1. /\ queue[c] \in Seq(Nat) /\ queue[c] # <<>> /\ received[c] \in Seq(Nat)
        /\ phase[c] = "open" /\ UNCHANGED <<status, cancelRequested, events>>
        /\ phase' = [phase EXCEPT ![c] =
                       IF events[Head(queue[c])] = "done" THEN "closed" ELSE "open"]
        /\ queue' = [queue EXCEPT ![c] = Tail(queue[c])]
        /\ received' = [received EXCEPT ![c] = Append(received[c], Head(queue[c]))]
    BY DEF Deliver, IInv, TypeOK
  <1>2. /\ Append(received[c], Head(queue[c])) \in Seq(Nat) /\ Tail(queue[c]) \in Seq(Nat)
        /\ Append(received[c], Head(queue[c])) \o Tail(queue[c]) = Seen(c)
        /\ Seen(c)[Len(received[c]) + 1] = Head(queue[c])
        /\ Len(received[c]) + 1 \in 1 .. Len(Seen(c))
    BY <1>1, HeadTail DEF Seen
  <1>3. Seen(c)' = Seen(c)
    <2>1. queue'[c] = Tail(queue[c]) /\ received'[c] = Append(received[c], Head(queue[c]))
      BY <1>1 DEF IInv, TypeOK
    <2> QED
      BY <1>2, <2>1 DEF Seen
  <1>4. Head(queue[c]) \in 1 .. Len(events)
    BY <1>1, <1>2 DEF IInv, ClientInv, Positions
  <1>5. PICK p \in {"open", "closed"} :
          phase' = [phase EXCEPT ![c] = p] /\ (p = "closed" => status \in Verdicts)
    BY <1>1, <1>4 DEF IInv, DoneIsLast
  <1>6. phase'[c] = p
    BY <1>5 DEF IInv, TypeOK
  <1>7. ClientInv(c)'
    BY <1>1, <1>3, <1>5, <1>6 DEF IInv, ClientInv, Positions, Complete, ClosedIsOver
  <1> QED
    BY <1>1, <1>2, <1>5, <1>7, OtherClients

LEMMA LeaveInv ==
  ASSUME IInv, NEW c \in Clients, Timeout(c) \/ Disconnect(c)
  PROVE  IInv'
  <1>1. CASE Timeout(c)
    <2>1. /\ phase' = [phase EXCEPT ![c] = "closed"]
          /\ queue' = [queue EXCEPT ![c] = queue[c]]
          /\ received' = [received EXCEPT ![c] = received[c]]
          /\ UNCHANGED <<status, cancelRequested, events>> /\ phase[c] = "open"
          /\ status \in Verdicts /\ queue[c] \in Seq(Nat) /\ received[c] \in Seq(Nat)
      BY <1>1 DEF Timeout, IInv, TypeOK, Verdicts
    <2>2. Seen(c)' = Seen(c) /\ events' = events /\ status' = status
      BY <2>1 DEF Seen, IInv, TypeOK
    <2>3. ClientInv(c)'
      BY <2>1, <2>2 DEF IInv, ClientInv, Positions, Complete, ClosedIsOver
    <2> QED
      BY <2>1, <2>3, OtherClients
  <1>2. CASE Disconnect(c)
    <2>1. /\ phase' = [phase EXCEPT ![c] = "off"]
          /\ queue' = [queue EXCEPT ![c] = <<>>]
          /\ received' = [received EXCEPT ![c] = received[c]]
          /\ UNCHANGED <<status, cancelRequested, events>>
          /\ <<>> \in Seq(Nat) /\ received[c] \in Seq(Nat)
      BY <1>2 DEF Disconnect, IInv, TypeOK
    <2>2. phase'[c] = "off"
      BY <2>1 DEF IInv, TypeOK
    <2>3. ClientInv(c)'
      BY <2>2 DEF ClientInv, Positions, Complete, ClosedIsOver
    <2> QED
      BY <2>1, <2>3, OtherClients
  <1> QED
    BY <1>1, <1>2
-----------------------------------------------------------------------------
(* The theorems *)

LEMMA InitIInv == Init => IInv
  <1> SUFFICES ASSUME Init PROVE IInv
    OBVIOUS
  <1>1. TypeOK
    <2>1. <<"queued">> \in Seq(Kinds)
      BY DEF Kinds
    <2>2. <<>> \in Seq(Nat)
      OBVIOUS
    <2> QED
      BY <2>1, <2>2 DEF Init, TypeOK
  <1>2. DoneIsLast /\ CancelNeverCompletes
    BY DEF Init, DoneIsLast, CancelNeverCompletes, Verdicts
  <1>3. \A c \in Clients : ClientInv(c)
    BY DEF Init, ClientInv, Positions, Complete, ClosedIsOver
  <1> QED
    BY <1>1, <1>2, <1>3 DEF IInv

LEMMA StepIInv == ASSUME IInv, [Next]_vars PROVE IInv'
  <1>1. CASE Start
    <2>1. "started" \in Kinds \ {"done"} /\ status \notin Verdicts
      BY <1>1 DEF Start, Kinds, Verdicts
    <2> QED
      BY <1>1, <2>1, EmitBefore DEF Start, IInv, TypeOK
  <1>2. CASE Progress
    <2>1. "progress" \in Kinds \ {"done"} /\ status \notin Verdicts
      BY <1>2 DEF Progress, Kinds, Verdicts
    <2> QED
      BY <1>2, <2>1, EmitBefore DEF Progress, IInv, TypeOK
  <1>3. CASE Cancel
    <2>1. "cancel" \in Kinds \ {"done"} /\ status \notin Verdicts
      BY <1>3 DEF Cancel, Kinds, Verdicts
    <2> QED
      BY <1>3, <2>1, EmitBefore DEF Cancel
  <1>4. CASE Finish
    BY <1>4, FinishInv
  <1>5. CASE \E c \in Clients : Client(c)
    BY <1>5, SubscribeInv, DeliverInv, LeaveInv DEF Client
  <1>6. CASE UNCHANGED vars
    BY <1>6 DEF vars, IInv, TypeOK, DoneIsLast, CancelNeverCompletes, ClientInv,
                Positions, Complete, ClosedIsOver, Seen
  <1> QED
    BY <1>1, <1>2, <1>3, <1>4, <1>5, <1>6 DEF Next

\* The invariant of a job and its clients (jobs.py:104-221).
THEOREM IInvAlways == Spec => []IInv
  BY InitIInv, StepIInv, PTL DEF Spec

\* Every variable of a job keeps its type.
THEOREM TypeCorrect == Spec => []TypeOK
  BY IInvAlways, PTL DEF IInv

\* A client gets every event once and in order while they fit its queue, and
\* wherever it comes in (jobs.py:117-128).
THEOREM NothingLost == Spec => []CompleteHistory
  <1>1. IInv => CompleteHistory
    BY DEF IInv, ClientInv, Complete, CompleteHistory, Seen, DoneIsLast
  <1> QED
    BY <1>1, IInvAlways, PTL

\* A full queue loses events, and never repeats or reorders them.
THEOREM NeverReordered == Spec => []InOrder
  <1>1. IInv => InOrder
    BY DEF IInv, ClientInv, Positions, InOrder, Seen
  <1> QED
    BY <1>1, IInvAlways, PTL

\* "done" is emitted once, with the verdict, and nothing after it (jobs.py:267).
THEOREM DoneEnds == Spec => []DoneIsLast
  BY IInvAlways, PTL DEF IInv

\* An acknowledged cancellation is not reported as completed (jobs.py:248).
THEOREM CancelHolds == Spec => []CancelNeverCompletes
  BY IInvAlways, PTL DEF IInv
-----------------------------------------------------------------------------
(* A job that emits from a thread (JobThread): nothing falls between replay   *)
(* and live events, and a cancellation stops it at the next entry.            *)
(*                                                                            *)
(* Emissions and replays under way are promises: an event that has not come   *)
(* to a client is still to be put to it.  That the promise is kept hangs on   *)
(* the room in its queue, which what is put twice uses up: Load counts what a *)
(* client was given, holds and is to be put, and Total bounds it.             *)

\* Emission e has yet to reach the queue of client c.
Pending(e, c) == emit[e].pc = "snapshot" \/ c \in emit[e].todo

One(p)    == IF p THEN 1 ELSE 0
Due(e, c) == IF Pending(e, c) THEN 1 ELSE 0
Rest(c)   == IF replay[c] = 0 THEN 0 ELSE (Len(events) + 1) - replay[c]

\* What client c was given and holds, and with what is still to be put to it.
Held(c) == Len(received[c]) + Len(queue[c])
Load(c) == Held(c) + Rest(c) + Due("loop", c) + Due("thread", c)

Total == Len(events) + Count("progress")

EmissionOK ==
  /\ \A e \in Emitters :
       /\ emit[e].pc # "put" => emit[e].todo = {}
       /\ \A c \in emit[e].todo : phase[c] # "off"
  /\ emit["thread"].pc # "idle" => Count("progress") >= 1

Has(c, n) == \E i \in 1 .. Len(Seen(c)) : Seen(c)[i] = n

Reaches(c, n) ==
  \/ Has(c, n)
  \/ replay[c] # 0 /\ replay[c] <= n
  \/ \E e \in Emitters : emit[e].pos = n /\ Pending(e, c)

ListenerOK(c) ==
  /\ phase[c] = "off" => queue[c] = <<>> /\ replay[c] = 0
  /\ replay[c] <= Len(events) + 1
  /\ phase[c] # "off" => Load(c) <= Total
  /\ phase[c] = "open" /\ Total <= Cap
       => \A n \in 1 .. Len(events) : Reaches(c, n)

\* After a cancellation at most one entry has reported, and none as long as
\* the entry under way has not.
CancelOK ==
  LET Cancelled(k) == events[k] = "cancel"
      Reported(i)  == events[i] = "progress"
  IN  /\ \A k \in 1 .. Len(events) : Cancelled(k) => cancelRequested
      /\ \A k, i, j \in 1 .. Len(events) :
           k < i /\ i < j /\ Cancelled(k) /\ Reported(i) => ~Reported(j)
      /\ work = "train" /\ emit["thread"].pc = "idle"
           => \A k, i \in 1 .. Len(events) : k < i /\ Cancelled(k) => ~Reported(i)

TInv == ThreadTypeOK /\ EmissionOK /\ CancelOK /\ \A c \in Clients : ListenerOK(c)
-----------------------------------------------------------------------------
(* Counting events *)

LEMMA CountMany ==
  ASSUME events \in Seq(Kinds), NEW kinds \in Seq(Kinds), events' = events \o kinds,
         \A i \in 1 .. Len(kinds) : kinds[i] # "progress"
  PROVE  Count("progress")' = Count("progress") /\ Len(events') = Len(events) + Len(kinds)
  <1>1. /\ Len(events) \in Nat /\ Len(kinds) \in Nat
        /\ Len(events') = Len(events) + Len(kinds)
        /\ \A i \in 1 .. Len(events) : events'[i] = events[i]
        /\ \A i \in 1 .. Len(events') :
             i > Len(events) => events'[i] = kinds[i - Len(events)]
    OBVIOUS
  <1>2. \A i \in 1 .. Len(events') : i > Len(events) => events'[i] # "progress"
    BY <1>1
  <1>3. {i \in 1 .. Len(events') : events'[i] = "progress"}
          = {i \in 1 .. Len(events) : events[i] = "progress"}
    BY <1>1, <1>2
  <1> QED
    BY <1>1, <1>3 DEF Count

LEMMA CountFinite ==
  ASSUME events \in Seq(Kinds)
  PROVE  LET S == {i \in 1 .. Len(events) : events[i] = "progress"}
         IN  IsFiniteSet(S) /\ Count("progress") = Cardinality(S) /\ Count("progress") \in Nat
  <1> DEFINE S == {i \in 1 .. Len(events) : events[i] = "progress"}
  <1>1. Len(events) \in Int /\ 1 \in Int
    OBVIOUS
  <1>2. IsFiniteSet(1 .. Len(events)) /\ S \in SUBSET (1 .. Len(events))
    BY <1>1, FS_Interval
  <1>3. IsFiniteSet(S)
    BY <1>2, FS_Subset
  <1>4. Cardinality(S) \in Nat
    BY <1>3, FS_CardinalityType
  <1> QED
    BY <1>3, <1>4 DEF Count

LEMMA CountOne ==
  ASSUME events \in Seq(Kinds), NEW kind \in Kinds, events' = Append(events, kind)
  PROVE  /\ Count("progress") \in Nat
         /\ Count("progress")' = Count("progress") + One(kind = "progress")
         /\ Len(events') = Len(events) + 1
  <1> DEFINE S == {i \in 1 .. Len(events) : events[i] = "progress"}
             T == {i \in 1 .. Len(events') : events'[i] = "progress"}
  <1>1. /\ Len(events) \in Nat /\ Len(events') = Len(events) + 1
        /\ \A i \in 1 .. Len(events) : events'[i] = events[i]
        /\ events'[Len(events) + 1] = kind
    OBVIOUS
  <1>2. IsFiniteSet(S) /\ Count("progress") = Cardinality(S) /\ Count("progress") \in Nat
    BY CountFinite
  <1>3. CASE kind = "progress"
    <2>1. T = S \cup {Len(events) + 1} /\ Len(events) + 1 \notin S
      BY <1>1, <1>3
    <2>2. Cardinality(T) = Cardinality(S) + 1
      BY <1>2, <2>1, FS_AddElement
    <2> QED
      BY <1>1, <1>2, <1>3, <2>2 DEF Count, One
  <1>4. CASE kind # "progress"
    <2>1. T = S
      BY <1>1, <1>4
    <2>2. Count("progress")' = Cardinality(T) /\ Count("progress") = Cardinality(S)
      BY DEF Count
    <2>3. Count("progress")' = Count("progress")
      BY <2>1, <2>2
    <2>4. One(kind = "progress") = 0
      BY <1>4 DEF One
    <2> QED
      BY <1>1, <1>2, <2>3, <2>4
  <1> QED
    BY <1>3, <1>4
-----------------------------------------------------------------------------
(* What a client holds once its queue grew *)

LEMMA Grown ==
  ASSUME NEW r \in Seq(Nat), NEW q \in Seq(Nat), NEW new \in Seq(Nat)
  PROVE  /\ Len(q \o new) = Len(q) + Len(new)
         /\ Len(r \o (q \o new)) = Len(r) + Len(q) + Len(new)
         /\ Len(r \o q) = Len(r) + Len(q)
         /\ \A i \in 1 .. Len(r \o q) : (r \o (q \o new))[i] = (r \o q)[i]
         /\ \A i \in 1 .. Len(new) : (r \o (q \o new))[Len(r) + Len(q) + i] = new[i]
  <1>1. /\ Len(r) \in Nat /\ Len(q) \in Nat /\ Len(new) \in Nat
        /\ q \o new \in Seq(Nat) /\ Len(q \o new) = Len(q) + Len(new)
        /\ Len(r \o q) = Len(r) + Len(q)
        /\ Len(r \o (q \o new)) = Len(r) + Len(q) + Len(new)
    OBVIOUS
  <1>2. ASSUME NEW i \in 1 .. Len(r \o q) PROVE (r \o (q \o new))[i] = (r \o q)[i]
    <2>1. CASE i <= Len(r)
      BY <1>1, <2>1
    <2>2. CASE i > Len(r)
      <3>1. i - Len(r) \in 1 .. Len(q)
        BY <1>1, <2>2
      <3>2. (r \o (q \o new))[i] = (q \o new)[i - Len(r)] /\ (r \o q)[i] = q[i - Len(r)]
        BY <1>1, <2>2
      <3> QED
        BY <1>1, <3>1, <3>2
    <2> QED
      BY <1>1, <2>1, <2>2
  <1>3. ASSUME NEW i \in 1 .. Len(new)
        PROVE  (r \o (q \o new))[Len(r) + Len(q) + i] = new[i]
    <2>1. (r \o (q \o new))[Len(r) + (Len(q) + i)] = (q \o new)[Len(q) + i]
      BY <1>1
    <2>2. (q \o new)[Len(q) + i] = new[i] /\ Len(r) + (Len(q) + i) = Len(r) + Len(q) + i
      BY <1>1
    <2> QED
      BY <2>1, <2>2
  <1> QED
    BY <1>1, <1>2, <1>3
-----------------------------------------------------------------------------
(* Types *)

LEMMA EmitTypes ==
  ASSUME ThreadTypeOK, NEW kinds \in Seq(Kinds), Emit(kinds),
         UNCHANGED <<emit, replay>>, work' \in {"none", "check", "train", "returned"},
         status' \in {"pending", "running"} \union Verdicts, cancelRequested' \in BOOLEAN
  PROVE  ThreadTypeOK'
  <1>1. /\ Len(events) \in Nat /\ Len(kinds) \in Nat /\ events' \in Seq(Kinds)
        /\ phase' = phase /\ received' = received
    BY DEF Emit, ThreadTypeOK, TypeOK
  <1>2. ASSUME NEW c \in Clients PROVE queue'[c] \in Seq(Nat)
    <2>1. Span(Len(events), Len(events) + Len(kinds)) \in Seq(Nat) /\ queue[c] \in Seq(Nat)
      BY <1>1, SpanIs DEF ThreadTypeOK, TypeOK
    <2> QED
      BY <2>1, PutIsPrefix DEF Emit
  <1>3. queue' = [c \in Clients |-> queue'[c]]
    BY DEF Emit
  <1>4. queue' \in [Clients -> Seq(Nat)]
    BY <1>2, <1>3
  <1> QED
    BY <1>1, <1>4 DEF ThreadTypeOK, TypeOK

LEMMA ThreadTypes == ASSUME ThreadTypeOK, [ThreadNext]_allVars PROVE ThreadTypeOK'
  <1>1. CASE ThreadStart
    <2>1. <<"started">> \in Seq(Kinds)
      BY DEF Kinds
    <2> QED
      BY <1>1, <2>1, EmitTypes DEF ThreadStart, Start, ThreadTypeOK, TypeOK
  <1>2. CASE ThreadFinish
    <2>1. <<"verdict", "done">> \in Seq(Kinds)
      BY DEF Kinds
    <2>2. status' \in Verdicts
      BY <1>2 DEF ThreadFinish, Finish, VerdictsFor, Verdicts
    <2> QED
      BY <1>2, <2>1, <2>2, EmitTypes
      DEF ThreadFinish, Finish, threadVars, ThreadTypeOK, TypeOK
  <1>3. CASE CancelThread \/ EntryDone
    <2>1. PICK e \in Emitters, kind \in Kinds : EmitAppend(e, kind)
      BY <1>3 DEF CancelThread, EntryDone, Emitters, Kinds
    <2>2. events' \in Seq(Kinds) /\ Len(events) + 1 \in Nat
      BY <2>1 DEF EmitAppend, ThreadTypeOK, TypeOK
    <2>3. emit' \in [Emitters -> [pc: {"idle", "snapshot", "put"}, pos: Nat,
                                  todo: SUBSET Clients]]
      BY <2>1, <2>2 DEF EmitAppend, ThreadTypeOK
    <2> QED
      BY <1>3, <2>2, <2>3 DEF CancelThread, EntryDone, ThreadTypeOK, TypeOK
  <1>4. CASE CheckContinue \/ ThreadEnds
    BY <1>4 DEF CheckContinue, ThreadEnds, ThreadTypeOK, TypeOK, vars
  <1>5. ASSUME NEW e \in Emitters, EmitSnapshot(e) PROVE ThreadTypeOK'
    BY <1>5 DEF EmitSnapshot, ThreadTypeOK, TypeOK, vars
  <1>6. ASSUME NEW e \in Emitters, EmitPut(e) PROVE ThreadTypeOK'
    <2>1. PICK c \in emit[e].todo :
            /\ queue' = [queue EXCEPT ![c] = Put(@, <<emit[e].pos>>)]
            /\ emit'  = [emit EXCEPT ![e].todo = @ \ {c}]
      BY <1>6 DEF EmitPut
    <2>2. c \in Clients /\ queue[c] \in Seq(Nat) /\ <<emit[e].pos>> \in Seq(Nat)
      BY DEF ThreadTypeOK, TypeOK
    <2>3. Put(queue[c], <<emit[e].pos>>) \in Seq(Nat)
      BY <2>2, PutIsPrefix
    <2>4. queue' \in [Clients -> Seq(Nat)]
      BY <2>1, <2>2, <2>3 DEF ThreadTypeOK, TypeOK
    <2>5. emit' \in [Emitters -> [pc: {"idle", "snapshot", "put"}, pos: Nat,
                                  todo: SUBSET Clients]]
      BY <2>1 DEF ThreadTypeOK
    <2> QED
      BY <1>6, <2>4, <2>5 DEF EmitPut, ThreadTypeOK, TypeOK
  <1>7. ASSUME NEW e \in Emitters, EmitEnd(e) PROVE ThreadTypeOK'
    BY <1>7 DEF EmitEnd, NoEmit, ThreadTypeOK, TypeOK, vars
  <1>8. ASSUME NEW c \in Clients, SubscribeThread(c) PROVE ThreadTypeOK'
    <2>1. <<>> \in Seq(Nat)
      OBVIOUS
    <2> QED
      BY <1>8, <2>1 DEF SubscribeThread, ThreadTypeOK, TypeOK
  <1>9. ASSUME NEW c \in Clients, Replay(c) PROVE ThreadTypeOK'
    <2>1. /\ replay[c] \in Nat /\ replay[c] + 1 \in Nat
          /\ queue[c] \in Seq(Nat) /\ Append(queue[c], replay[c]) \in Seq(Nat)
      BY DEF ThreadTypeOK, TypeOK
    <2>2. PICK q \in Seq(Nat), m \in Nat :
            queue' = [queue EXCEPT ![c] = q] /\ replay' = [replay EXCEPT ![c] = m]
      <3>1. queue = [queue EXCEPT ![c] = queue[c]]
        BY DEF ThreadTypeOK, TypeOK
      <3>2. CASE replay[c] <= Len(events) /\ Len(queue[c]) < Cap
        BY <1>9, <2>1, <3>2 DEF Replay
      <3>3. CASE ~(replay[c] <= Len(events) /\ Len(queue[c]) < Cap)
        BY <1>9, <2>1, <3>1, <3>3 DEF Replay
      <3> QED
        BY <3>2, <3>3
    <2>3. queue' \in [Clients -> Seq(Nat)] /\ replay' \in [Clients -> Nat]
      BY <2>2 DEF ThreadTypeOK, TypeOK
    <2> QED
      BY <1>9, <2>3 DEF Replay, ThreadTypeOK, TypeOK
  <1>10. ASSUME NEW c \in Clients, FromLoop(Deliver(c)) PROVE ThreadTypeOK'
    <2>1. /\ Deliver(c) /\ UNCHANGED threadVars
          /\ queue[c] \in Seq(Nat) /\ received[c] \in Seq(Nat) /\ queue[c] # <<>>
      BY <1>10 DEF FromLoop, Deliver, ThreadTypeOK, TypeOK
    <2>2. Append(received[c], Head(queue[c])) \in Seq(Nat) /\ Tail(queue[c]) \in Seq(Nat)
      BY <2>1, HeadTail
    <2> QED
      BY <2>1, <2>2 DEF Deliver, ThreadTypeOK, TypeOK, threadVars
  <1>11. ASSUME NEW c \in Clients, FromLoop(Timeout(c)) PROVE ThreadTypeOK'
    BY <1>11 DEF FromLoop, Timeout, ThreadTypeOK, TypeOK, threadVars
  <1>12. ASSUME NEW c \in Clients, DisconnectThread(c) PROVE ThreadTypeOK'
    <2>1. <<>> \in Seq(Nat)
      OBVIOUS
    <2> QED
      BY <1>12, <2>1 DEF DisconnectThread, Disconnect, ThreadTypeOK, TypeOK
  <1>13. CASE UNCHANGED allVars
    BY <1>13 DEF allVars, vars, threadVars, ThreadTypeOK, TypeOK
  <1> QED
    BY <1>1, <1>2, <1>3, <1>4, <1>5, <1>6, <1>7, <1>8, <1>9, <1>10, <1>11, <1>12, <1>13
    DEF ThreadNext
-----------------------------------------------------------------------------
(* A cancellation stops the job at the next entry *)

LEMMA QuietCancel ==
  ASSUME CancelOK, ThreadTypeOK, events' = events, cancelRequested' = cancelRequested,
         work' = "train" /\ emit'["thread"].pc = "idle"
           => \/ work = "train" /\ emit["thread"].pc = "idle"
              \/ ~cancelRequested
  PROVE  CancelOK'
  <1>1. Len(events) \in Nat
    BY DEF ThreadTypeOK, TypeOK
  <1> QED
    BY <1>1 DEF CancelOK

\* What is emitted is neither a cancellation nor the report of an entry.
LEMMA EmitCancelOK ==
  ASSUME CancelOK, ThreadTypeOK, NEW kinds \in Seq(Kinds), Emit(kinds),
         \A i \in 1 .. Len(kinds) : kinds[i] \notin {"cancel", "progress"},
         cancelRequested' = cancelRequested, work' # "train"
  PROVE  CancelOK'
  <1>1. /\ Len(events) \in Nat /\ Len(kinds) \in Nat
        /\ Len(events') = Len(events) + Len(kinds)
        /\ \A i \in 1 .. Len(events) : events'[i] = events[i]
        /\ \A i \in 1 .. Len(events') :
             i > Len(events) => events'[i] = kinds[i - Len(events)]
    BY DEF Emit, ThreadTypeOK, TypeOK
  <1>2. \A i \in 1 .. Len(events') :
          i > Len(events) => events'[i] \notin {"cancel", "progress"}
    BY <1>1
  <1> QED
    BY <1>1, <1>2 DEF CancelOK

LEMMA CancelStep == ASSUME ThreadTypeOK, EmissionOK, CancelOK, [ThreadNext]_allVars PROVE CancelOK'
  <1> USE DEF Emitters
  <1>1. CASE ThreadStart
    <2>1. <<"started">> \in Seq(Kinds) /\ Emit(<<"started">>)
      BY <1>1 DEF ThreadStart, Start, Kinds
    <2>2. \A i \in 1 .. Len(<<"started">>) : <<"started">>[i] \notin {"cancel", "progress"}
      OBVIOUS
    <2>3. cancelRequested' = cancelRequested /\ work' # "train"
      BY <1>1 DEF ThreadStart, Start
    <2> QED
      BY <2>1, <2>2, <2>3, EmitCancelOK
  <1>2. CASE ThreadFinish
    <2>1. <<"verdict", "done">> \in Seq(Kinds) /\ Emit(<<"verdict", "done">>)
      BY <1>2 DEF ThreadFinish, Finish, Kinds
    <2>2. \A i \in 1 .. Len(<<"verdict", "done">>) :
            <<"verdict", "done">>[i] \notin {"cancel", "progress"}
      OBVIOUS
    <2>3. cancelRequested' = cancelRequested /\ work' # "train"
      BY <1>2 DEF ThreadFinish, Finish, threadVars
    <2> QED
      BY <2>1, <2>2, <2>3, EmitCancelOK
  <1>3. CASE CancelThread
    <2>1. /\ Len(events) \in Nat /\ Len(events') = Len(events) + 1
          /\ \A i \in 1 .. Len(events) : events'[i] = events[i]
          /\ events'[Len(events) + 1] = "cancel" /\ cancelRequested' = TRUE
          /\ work' = work /\ emit'["thread"] = emit["thread"]
      BY <1>3 DEF CancelThread, EmitAppend, ThreadTypeOK, TypeOK, Kinds
    <2> QED
      BY <2>1 DEF CancelOK
  <1>4. CASE EntryDone
    <2>1. /\ Len(events) \in Nat /\ Len(events') = Len(events) + 1
          /\ \A i \in 1 .. Len(events) : events'[i] = events[i]
          /\ events'[Len(events) + 1] = "progress" /\ cancelRequested' = cancelRequested
          /\ work = "train" /\ emit["thread"].pc = "idle"
          /\ emit'["thread"].pc = "snapshot"
      BY <1>4 DEF EntryDone, EmitAppend, NoEmit, ThreadTypeOK, TypeOK, Kinds
    <2>2. \A k \in 1 .. Len(events') : events'[k] = "cancel" => k \in 1 .. Len(events)
      BY <2>1
    <2> QED
      BY <2>1, <2>2 DEF CancelOK
  <1>5. CASE CheckContinue \/ ThreadEnds
    BY <1>5, QuietCancel DEF CheckContinue, ThreadEnds, vars
  <1>6. ASSUME NEW e \in Emitters, EmitSnapshot(e) \/ EmitPut(e) PROVE CancelOK'
    <2>1. /\ UNCHANGED <<events, cancelRequested, work>>
          /\ emit'["thread"].pc = "idle" => emit["thread"].pc = "idle"
      BY <1>6 DEF EmitSnapshot, EmitPut, vars, ThreadTypeOK
    <2> QED
      BY <2>1, QuietCancel
  <1>7. ASSUME NEW e \in Emitters, EmitEnd(e) PROVE CancelOK'
    <2>1. UNCHANGED <<events, cancelRequested>>
      BY <1>7 DEF EmitEnd, vars
    <2>2. CASE e = "thread"
      BY <1>7, <2>1, <2>2, QuietCancel DEF EmitEnd
    <2>3. CASE e = "loop"
      <3>1. work' = work /\ emit'["thread"] = emit["thread"]
        BY <1>7, <2>3 DEF EmitEnd, ThreadTypeOK
      <3> QED
        BY <2>1, <3>1, QuietCancel
    <2> QED
      BY <2>2, <2>3
  <1>8. ASSUME NEW c \in Clients,
               \/ SubscribeThread(c) \/ Replay(c)
               \/ FromLoop(Deliver(c)) \/ FromLoop(Timeout(c)) \/ DisconnectThread(c)
        PROVE  CancelOK'
    <2>1. /\ UNCHANGED <<events, cancelRequested, work>>
          /\ emit'["thread"].pc = emit["thread"].pc
      BY <1>8 DEF SubscribeThread, Replay, FromLoop, Deliver, Timeout, DisconnectThread,
                  Disconnect, threadVars, ThreadTypeOK
    <2> QED
      BY <2>1, QuietCancel
  <1>9. CASE UNCHANGED allVars
    BY <1>9, QuietCancel DEF allVars, vars, threadVars
  <1> QED
    BY <1>1, <1>2, <1>3, <1>4, <1>5, <1>6, <1>7, <1>8, <1>9 DEF ThreadNext
-----------------------------------------------------------------------------
(* Emissions under way *)

LEMMA EmissionStep ==
  ASSUME ThreadTypeOK, EmissionOK, [ThreadNext]_allVars
  PROVE  EmissionOK'
  <1> USE DEF Emitters
  <1>0. Count("progress") \in Nat
    BY CountFinite DEF ThreadTypeOK, TypeOK
  <1>1. ASSUME Emit(<<"started">>) \/ Emit(<<"verdict", "done">>), UNCHANGED emit
        PROVE  EmissionOK'
    <2>1. PICK kinds \in Seq(Kinds) :
            events' = events \o kinds /\ \A i \in 1 .. Len(kinds) : kinds[i] # "progress"
      <3>1. <<"started">> \in Seq(Kinds) /\ <<"verdict", "done">> \in Seq(Kinds)
        BY DEF Kinds
      <3>2. /\ \A i \in 1 .. Len(<<"started">>) : <<"started">>[i] # "progress"
            /\ \A i \in 1 .. Len(<<"verdict", "done">>) :
                 <<"verdict", "done">>[i] # "progress"
        OBVIOUS
      <3>3. CASE Emit(<<"started">>)
        BY <3>1, <3>2, <3>3 DEF Emit
      <3>4. CASE Emit(<<"verdict", "done">>)
        BY <3>1, <3>2, <3>4 DEF Emit
      <3> QED
        BY <1>1, <3>3, <3>4
    <2>2. Count("progress")' = Count("progress") /\ phase' = phase
      BY <1>1, <2>1, CountMany DEF Emit, ThreadTypeOK, TypeOK
    <2> QED
      BY <1>1, <2>2 DEF EmissionOK
  <1>2. ASSUME NEW e \in Emitters, NEW kind \in Kinds, EmitAppend(e, kind), UNCHANGED phase,
               e = "thread" => kind = "progress"
        PROVE  EmissionOK'
    <2>1. Count("progress")' = Count("progress") + One(kind = "progress")
      BY <1>2, CountOne DEF EmitAppend, ThreadTypeOK, TypeOK
    <2>2. e = "thread" => Count("progress")' >= 1
      BY <1>0, <1>2, <2>1 DEF One
    <2>3. e # "thread" => Count("progress")' >= Count("progress")
      BY <1>0, <2>1 DEF One
    <2>4. Count("progress")' \in Nat
      BY <1>0, <2>1 DEF One
    <2>5. emit' = [emit EXCEPT ![e] =
                     [pc |-> "snapshot", pos |-> Len(events) + 1, todo |-> {}]]
      BY <1>2 DEF EmitAppend
    <2>6. \A f \in Emitters : emit'[f].pc # "put" => emit'[f].todo = {}
      BY <2>5 DEF EmissionOK, ThreadTypeOK
    <2>7. \A f \in Emitters : \A c \in emit'[f].todo : phase'[c] # "off"
      BY <1>2, <2>5 DEF EmissionOK, ThreadTypeOK
    <2>8. emit'["thread"].pc # "idle" => Count("progress")' >= 1
      <3>1. CASE e = "thread"
        BY <2>2, <3>1
      <3>2. CASE e # "thread"
        <4>1. emit'["thread"] = emit["thread"]
          BY <2>5, <3>2 DEF ThreadTypeOK
        <4> QED
          BY <1>0, <2>3, <2>4, <3>2, <4>1 DEF EmissionOK
      <3> QED
        BY <3>1, <3>2
    <2> QED
      BY <2>6, <2>7, <2>8 DEF EmissionOK
  <1>3. CASE ThreadStart \/ ThreadFinish
    BY <1>1, <1>3 DEF ThreadStart, ThreadFinish, Start, Finish, threadVars
  <1>4. CASE CancelThread \/ EntryDone
    BY <1>2, <1>4 DEF CancelThread, EntryDone, Kinds
  \* From here on nothing is appended.
  <1>5. ASSUME events' = events, phase' = phase,
               \A e \in Emitters :
                 /\ emit'[e].pc # "put" => emit'[e].todo = {}
                 /\ \A c \in emit'[e].todo : phase[c] # "off"
                 /\ emit'[e].pc = "idle" \/ emit[e].pc # "idle"
        PROVE  EmissionOK'
    BY <1>5 DEF EmissionOK, Count
  <1>6. CASE CheckContinue \/ ThreadEnds
    BY <1>6 DEF CheckContinue, ThreadEnds, vars, EmissionOK, Count
  <1>7. ASSUME NEW e \in Emitters, EmitSnapshot(e) PROVE EmissionOK'
    BY <1>5, <1>7 DEF EmitSnapshot, EmissionOK, ThreadTypeOK, vars
  <1>8. ASSUME NEW e \in Emitters, EmitPut(e) PROVE EmissionOK'
    BY <1>5, <1>8 DEF EmitPut, EmissionOK, ThreadTypeOK
  <1>9. ASSUME NEW e \in Emitters, EmitEnd(e) PROVE EmissionOK'
    BY <1>5, <1>9 DEF EmitEnd, NoEmit, EmissionOK, ThreadTypeOK, vars
  <1>10. ASSUME NEW c \in Clients, SubscribeThread(c) \/ Replay(c) PROVE EmissionOK'
    BY <1>10 DEF SubscribeThread, Replay, EmissionOK, ThreadTypeOK, TypeOK, Count
  <1>11. ASSUME NEW c \in Clients, FromLoop(Deliver(c)) \/ FromLoop(Timeout(c))
         PROVE  EmissionOK'
    <2>1. /\ events' = events /\ emit' = emit
          /\ \A d \in Clients : phase'[d] \in {phase[d], "closed"}
      <3>1. CASE FromLoop(Deliver(c))
        BY <3>1 DEF FromLoop, Deliver, threadVars, ThreadTypeOK, TypeOK
      <3>2. CASE FromLoop(Timeout(c))
        BY <3>2 DEF FromLoop, Timeout, threadVars, ThreadTypeOK, TypeOK
      <3> QED
        BY <1>11, <3>1, <3>2
    <2> QED
      BY <2>1 DEF EmissionOK, ThreadTypeOK, TypeOK, Count
  <1>12. ASSUME NEW c \in Clients, DisconnectThread(c) PROVE EmissionOK'
    <2>1. /\ phase' = [phase EXCEPT ![c] = "off"] /\ events' = events
          /\ emit' = [emit EXCEPT !["thread"].todo = @ \ {c}]
          /\ emit["loop"].todo = {}
      BY <1>12 DEF DisconnectThread, Disconnect, LoopFree, NoEmit
    <2> QED
      BY <2>1 DEF EmissionOK, ThreadTypeOK, TypeOK, Count
  <1>13. CASE UNCHANGED allVars
    BY <1>13 DEF allVars, vars, threadVars, EmissionOK, Count
  <1> QED
    BY <1>3, <1>4, <1>6, <1>7, <1>8, <1>9, <1>10, <1>11, <1>12, <1>13 DEF ThreadNext
-----------------------------------------------------------------------------
(* What a client is promised *)

LEMMA LoadType ==
  ASSUME ThreadTypeOK, NEW c \in Clients
  PROVE  /\ Len(events) \in Nat /\ Count("progress") \in Nat /\ Total \in Nat
         /\ received[c] \in Seq(Nat) /\ queue[c] \in Seq(Nat)
         /\ Held(c) \in Nat /\ replay[c] \in Nat
         /\ Rest(c) \in Int
         /\ \A e \in Emitters : /\ Pending(e, c) \in BOOLEAN
                                /\ Due(e, c) \in {0, 1}
                                /\ Pending(e, c) => Due(e, c) = 1
                                /\ ~Pending(e, c) => Due(e, c) = 0
  <1>1. /\ Len(events) \in Nat /\ received[c] \in Seq(Nat) /\ queue[c] \in Seq(Nat)
        /\ replay[c] \in Nat
    BY DEF ThreadTypeOK, TypeOK
  <1>2. Count("progress") \in Nat
    BY CountFinite DEF ThreadTypeOK, TypeOK
  <1>3. Rest(c) \in Int
    BY <1>1 DEF Rest
  <1>4. Total \in Nat
    BY <1>1, <1>2 DEF Total
  <1>5. Held(c) \in Nat
    <2>1. Len(received[c]) \in Nat /\ Len(queue[c]) \in Nat
      BY <1>1
    <2>2. \A m, n \in Nat : m + n \in Nat
      OBVIOUS
    <2> QED
      BY <2>1, <2>2 DEF Held
  <1>6. \A e \in Emitters : Pending(e, c) \in BOOLEAN
    BY DEF Pending
  <1>7. \A e \in Emitters : /\ Due(e, c) \in {0, 1}
                            /\ Pending(e, c) => Due(e, c) = 1
                            /\ ~Pending(e, c) => Due(e, c) = 0
    BY DEF Due
  <1> QED
    BY <1>1, <1>2, <1>3, <1>4, <1>5, <1>6, <1>7

LEMMA NoRest ==
  ASSUME NEW h \in Nat, NEW p \in {0, 1}, NEW q \in {0, 1}
  PROVE  h + 0 + p + q = h + p + q
  OBVIOUS

LEMMA Smaller ==
  ASSUME NEW a \in Int, NEW p \in {0, 1}, NEW q \in {0, 1},
         NEW v \in {0, 1}, NEW w \in {0, 1}, v <= p, w <= q
  PROVE  a + v + w <= a + p + q /\ a + p + q \in Int /\ a + v + w \in Int
  OBVIOUS

\* A step that appends nothing, and does nothing to client c but forget what
\* was pending for it while it is not open.
LEMMA Unchanged ==
  ASSUME ThreadTypeOK, NEW c \in Clients, ListenerOK(c), events' = events,
         phase'[c] = phase[c], queue'[c] = queue[c], received'[c] = received[c],
         replay'[c] = replay[c],
         \A e \in Emitters :
           /\ Pending(e, c)' => Pending(e, c)
           /\ phase[c] = "open" /\ Pending(e, c) => Pending(e, c)' /\ emit'[e].pos = emit[e].pos
  PROVE  ListenerOK(c)'
  <1>1. Total' = Total /\ Rest(c)' = Rest(c) /\ Seen(c)' = Seen(c) /\ Len(events') = Len(events)
    BY DEF Total, Count, Rest, Seen
  <1>2. \A e \in Emitters : Due(e, c)' <= Due(e, c)
    BY LoadType DEF Due
  <1>3. Load(c)' <= Load(c) /\ Load(c) \in Int /\ Load(c)' \in Int
    <2>1. /\ Held(c) \in Nat /\ Rest(c) \in Int
          /\ \A e \in Emitters : Due(e, c) \in {0, 1} /\ Due(e, c)' \in {0, 1}
      BY LoadType DEF Due
    <2>2. "loop" \in Emitters /\ "thread" \in Emitters
      BY DEF Emitters
    <2>3. /\ received'[c] = received[c] /\ queue'[c] = queue[c]
          /\ Held(c)' = Held(c) /\ Rest(c)' = Rest(c)
      BY <1>1 DEF Held
    <2>4. /\ Load(c) = Held(c) + Rest(c)
                         + Due("loop", c) + Due("thread", c)
          /\ Load(c)' = Held(c) + Rest(c)
                          + Due("loop", c)' + Due("thread", c)'
      BY <2>3 DEF Load
    <2>5. /\ Due("loop", c) \in {0, 1} /\ Due("loop", c)' \in {0, 1}
          /\ Due("thread", c) \in {0, 1} /\ Due("thread", c)' \in {0, 1}
          /\ Due("loop", c)' <= Due("loop", c)
          /\ Due("thread", c)' <= Due("thread", c)
      BY <1>2, <2>1, <2>2
    <2>6. Held(c) + Rest(c) \in Int
      BY <2>1
    <2> QED
      BY <2>4, <2>5, <2>6, Smaller
  <1>4. ASSUME phase[c] = "open", NEW n \in 1 .. Len(events), Reaches(c, n)
        PROVE  Reaches(c, n)'
    BY <1>1, <1>4 DEF Reaches, Has
  <1>5. Total \in Nat
    BY LoadType
  <1> QED
    BY <1>1, <1>3, <1>4, <1>5 DEF ListenerOK

LEMMA OneMore ==
  ASSUME NEW a \in Int, NEW r \in Int, NEW s \in Int, NEW p \in {0, 1}, NEW q \in {0, 1},
         NEW v \in {0, 1}, NEW w \in {0, 1}, v + w = p + q + 1
  PROVE  /\ s = r     => a + s + v + w = a + r + p + q + 1
         /\ s = r + 1 => a + s + v + w = a + r + p + q + 2
         /\ a + r + p + q \in Int
  OBVIOUS

\* An emission begins: it is pending for everyone.
LEMMA AppendOK ==
  ASSUME ThreadTypeOK, EmissionOK, NEW c \in Clients, ListenerOK(c),
         NEW e \in Emitters, NEW kind \in Kinds, EmitAppend(e, kind), emit[e] = NoEmit,
         UNCHANGED <<phase, queue, received, replay>>,
         kind = "progress" \/ replay[c] = 0
  PROVE  ListenerOK(c)'
  <1>1. /\ Len(events') = Len(events) + 1 /\ Count("progress") \in Nat
        /\ Count("progress")' = Count("progress") + One(kind = "progress")
    BY CountOne DEF EmitAppend, ThreadTypeOK, TypeOK
  <1>2. /\ Len(events) \in Nat /\ Total \in Nat
        /\ Held(c) \in Nat /\ replay[c] \in Nat
        /\ \A f \in Emitters : Due(f, c) \in {0, 1}
    BY LoadType
  <1>3. One(kind = "progress") \in {0, 1} /\ (kind = "progress" => One(kind = "progress") = 1)
    BY DEF One
  <1>4. /\ ~Pending(e, c) /\ Pending(e, c)' /\ emit'[e].pos = Len(events) + 1
        /\ \A f \in Emitters \ {e} : emit'[f] = emit[f]
    BY DEF EmitAppend, NoEmit, Pending, ThreadTypeOK
  <1>5. /\ Due(e, c) = 0 /\ Due(e, c)' = 1
        /\ \A f \in Emitters \ {e} : Due(f, c)' = Due(f, c)
    BY <1>4 DEF Due, Pending
  <1>6. Rest(c)' = IF replay[c] = 0 THEN Rest(c) ELSE Rest(c) + 1
    BY <1>1, <1>2 DEF Rest
  <1>7. Total' = Total + 1 + One(kind = "progress") /\ Total' \in Nat
    BY <1>1, <1>2, <1>3 DEF Total
  <1>8. phase[c] # "off" => Load(c)' <= Total'
    <2>1. Rest(c) \in Int
      BY LoadType
    <2>2. /\ Load(c) = Held(c) + Rest(c)
                         + Due("loop", c) + Due("thread", c)
          /\ Load(c)' = Held(c) + Rest(c)'
                          + Due("loop", c)' + Due("thread", c)'
      BY DEF Load, Held
    <2>3. /\ Due("loop", c) \in {0, 1} /\ Due("thread", c) \in {0, 1}
          /\ Due("loop", c)' + Due("thread", c)'
               = Due("loop", c) + Due("thread", c) + 1
      BY <1>2, <1>5 DEF Emitters
    <2>4. Due("loop", c)' \in {0, 1} /\ Due("thread", c)' \in {0, 1}
      BY DEF Due
    <2>6. Held(c) \in Int
      BY <1>2
    <2>5. /\ Load(c)' = IF replay[c] = 0 THEN Load(c) + 1 ELSE Load(c) + 2
          /\ Load(c) \in Int
      BY <1>6, <2>1, <2>2, <2>3, <2>4, <2>6, OneMore
    <2> QED
      BY <1>2, <1>3, <1>7, <2>5 DEF ListenerOK
  <1>9. ASSUME phase[c] = "open", Total' <= Cap, NEW n \in 1 .. Len(events')
        PROVE  Reaches(c, n)'
    <2>1. CASE n = Len(events) + 1
      BY <1>4, <2>1 DEF Reaches, Has
    <2>2. CASE n # Len(events) + 1
      <3>1. n \in 1 .. Len(events) /\ Total <= Cap
        BY <1>1, <1>2, <1>3, <1>7, <1>9, <2>2, CapAssumption
      <3>2. Reaches(c, n)
        BY <1>9, <3>1 DEF ListenerOK
      <3>3. Seen(c)' = Seen(c)
        BY DEF Seen
      <3>4. \A f \in Emitters :
              Pending(f, c) => f # e /\ Pending(f, c)' /\ emit'[f].pos = emit[f].pos
        BY <1>4 DEF Pending
      <3> QED
        BY <3>2, <3>3, <3>4 DEF Reaches, Has
    <2> QED
      BY <2>1, <2>2
  <1> QED
    BY <1>1, <1>2, <1>8, <1>9 DEF ListenerOK
-----------------------------------------------------------------------------
(* A put that has room *)

LEMMA OneEvent ==
  ASSUME NEW n \in Nat
  PROVE  \E new \in Seq(Nat) : new = <<n>> /\ Len(new) = 1 /\ new[1] = n
  <1>1. <<n>> \in Seq(Nat) /\ Len(<<n>>) = 1 /\ <<n>>[1] = n
    OBVIOUS
  <1> QED
    BY <1>1

LEMMA Sums == \A m, n \in Nat : m + n \in Nat /\ n <= m + n /\ (m + 1) + (n - 1) = m + n
  OBVIOUS

LEMMA PutRoom ==
  ASSUME NEW r \in Seq(Nat), NEW q \in Seq(Nat), NEW new \in Seq(Nat)
  PROVE  /\ Put(q, new) \in Seq(Nat)
         /\ Len(Put(q, new)) <= Len(q) + Len(new)
         /\ Len(r) + Len(q) + Len(new) <= Cap
              => /\ \A i \in 1 .. Len(r \o q) :
                      i \in 1 .. Len(r \o Put(q, new)) /\ (r \o Put(q, new))[i] = (r \o q)[i]
                 /\ \A j \in 1 .. Len(new) :
                      \E i \in 1 .. Len(r \o Put(q, new)) : (r \o Put(q, new))[i] = new[j]
  <1>1. /\ Put(q, new) \in Seq(Nat) /\ Len(Put(q, new)) <= Len(q) + Len(new)
        /\ Len(q) + Len(new) <= Cap => Put(q, new) = q \o new
    BY PutIsPrefix
  <1>2. /\ Len(r) \in Nat /\ Len(q) \in Nat /\ Len(new) \in Nat
    OBVIOUS
  <1>3. ASSUME Len(r) + Len(q) + Len(new) <= Cap
        PROVE  /\ \A i \in 1 .. Len(r \o q) :
                    i \in 1 .. Len(r \o Put(q, new)) /\ (r \o Put(q, new))[i] = (r \o q)[i]
               /\ \A j \in 1 .. Len(new) :
                    \E i \in 1 .. Len(r \o Put(q, new)) : (r \o Put(q, new))[i] = new[j]
    <2>1. Put(q, new) = q \o new
      BY <1>1, <1>2, <1>3, CapAssumption
    <2>2. /\ Len(r \o q) = Len(r) + Len(q)
          /\ Len(r \o (q \o new)) = Len(r) + Len(q) + Len(new)
          /\ \A i \in 1 .. Len(r \o q) : (r \o (q \o new))[i] = (r \o q)[i]
          /\ \A j \in 1 .. Len(new) : (r \o (q \o new))[Len(r) + Len(q) + j] = new[j]
      BY Grown
    <2>3. /\ \A i \in 1 .. Len(r) + Len(q) : i \in 1 .. Len(r) + Len(q) + Len(new)
          /\ \A j \in 1 .. Len(new) : Len(r) + Len(q) + j \in 1 .. Len(r) + Len(q) + Len(new)
      BY <1>2
    <2> QED
      BY <2>1, <2>2, <2>3
  <1> QED
    BY <1>1, <1>3

LEMMA PutToClient ==
  ASSUME ThreadTypeOK, NEW c \in Clients, NEW new \in Seq(Nat),
         queue'[c] = Put(queue[c], new), received'[c] = received[c]
  PROVE  /\ Held(c)' \in Nat /\ Held(c)' <= Held(c) + Len(new)
         /\ Held(c) + Len(new) <= Cap
              => /\ \A n \in Nat : Has(c, n) => Has(c, n)'
                 /\ \A j \in 1 .. Len(new) :
                      \E i \in 1 .. Len(Seen(c)') : Seen(c)'[i] = new[j]
  <1>1. received[c] \in Seq(Nat) /\ queue[c] \in Seq(Nat)
    BY DEF ThreadTypeOK, TypeOK
  <1>2. PICK r \in Seq(Nat), q \in Seq(Nat), put \in Seq(Nat) :
          r = received[c] /\ q = queue[c] /\ put = Put(q, new)
    BY <1>1, PutRoom
  <1>3. /\ Seen(c) = r \o q /\ Seen(c)' = r \o put
        /\ Held(c) = Len(r) + Len(q) /\ Held(c)' = Len(r) + Len(put)
    BY <1>2 DEF Seen, Held
  <1>4. Len(r) \in Nat /\ Len(q) \in Nat /\ Len(put) \in Nat /\ Len(new) \in Nat
    OBVIOUS
  <1>5. Len(put) <= Len(q) + Len(new)
    BY <1>2, PutRoom
  <1>6. Held(c)' \in Nat /\ Held(c)' <= Held(c) + Len(new)
    BY <1>3, <1>4, <1>5
  <1>7. ASSUME Held(c) + Len(new) <= Cap
        PROVE  /\ \A i \in 1 .. Len(r \o q) :
                    i \in 1 .. Len(r \o put) /\ (r \o put)[i] = (r \o q)[i]
               /\ \A j \in 1 .. Len(new) :
                    \E i \in 1 .. Len(r \o put) : (r \o put)[i] = new[j]
    <2>1. Len(r) + Len(q) + Len(new) <= Cap
      BY <1>3, <1>7
    <2>2. /\ \A i \in 1 .. Len(r \o q) :
               i \in 1 .. Len(r \o Put(q, new)) /\ (r \o Put(q, new))[i] = (r \o q)[i]
          /\ \A j \in 1 .. Len(new) :
               \E i \in 1 .. Len(r \o Put(q, new)) : (r \o Put(q, new))[i] = new[j]
      BY <2>1, PutRoom
    <2>3. put = Put(q, new)
      BY <1>2
    <2> QED
      BY <2>2, <2>3
  <1>8. ASSUME Held(c) + Len(new) <= Cap, NEW n \in Nat, Has(c, n) PROVE Has(c, n)'
    BY <1>3, <1>7, <1>8 DEF Has
  <1> QED
    BY <1>3, <1>6, <1>7, <1>8
-----------------------------------------------------------------------------
(* The steps, as client c sees them *)

LEMMA RestIsNat ==
  ASSUME ThreadTypeOK, NEW c \in Clients, replay[c] <= Len(events) + 1
  PROVE  /\ Rest(c) \in Nat
         /\ replay[c] = 0 => Rest(c) = 0
         /\ replay[c] # 0 => Rest(c) = (Len(events) + 1) - replay[c]
  <1>1. Len(events) \in Nat /\ replay[c] \in Nat
    BY DEF ThreadTypeOK, TypeOK
  <1> QED
    BY <1>1 DEF Rest

\* _run emits, from the event loop: at once, and with no replay under way.
LEMMA EmitListener ==
  ASSUME ThreadTypeOK, NEW c \in Clients, ListenerOK(c), NEW kinds \in Seq(Kinds),
         \A i \in 1 .. Len(kinds) : kinds[i] # "progress",
         Emit(kinds), replay[c] = 0, UNCHANGED <<emit, replay>>
  PROVE  ListenerOK(c)'
  <1>1. /\ Count("progress")' = Count("progress")
        /\ Len(events') = Len(events) + Len(kinds) /\ Len(kinds) \in Nat
    <2>1. events \in Seq(Kinds) /\ events' = events \o kinds /\ Len(kinds) \in Nat
      BY DEF Emit, ThreadTypeOK, TypeOK
    <2> QED
      BY <2>1, CountMany
  <1>2. /\ Len(events) \in Nat /\ Count("progress") \in Nat /\ Total \in Nat
        /\ Held(c) \in Nat /\ received[c] \in Seq(Nat) /\ queue[c] \in Seq(Nat)
        /\ Due("loop", c) \in {0, 1} /\ Due("thread", c) \in {0, 1}
    BY LoadType DEF Emitters
  <1>3. Total' = Total + Len(kinds) /\ Total' \in Nat
    BY <1>1, <1>2 DEF Total
  <1>4. /\ Rest(c) = 0 /\ Rest(c)' = 0 /\ replay'[c] = 0
        /\ Due("loop", c)' = Due("loop", c) /\ Due("thread", c)' = Due("thread", c)
        /\ phase'[c] = phase[c] /\ received'[c] = received[c]
    BY DEF Rest, Due, Pending, Emit
  <1>5. ASSUME Held(c)' \in Nat
        PROVE  /\ Load(c)  = Held(c) + Due("loop", c) + Due("thread", c)
               /\ Load(c)' = Held(c)' + Due("loop", c) + Due("thread", c)
    BY <1>2, <1>4, <1>5, NoRest DEF Load
  <1>6. CASE phase[c] = "open"
    <2>1. PICK new \in Seq(Nat) :
            /\ new = Span(Len(events), Len(events) + Len(kinds)) /\ Len(new) = Len(kinds)
            /\ \A i \in 1 .. Len(kinds) : new[i] = Len(events) + i
      <3> DEFINE span == Span(Len(events), Len(events) + Len(kinds))
      <3>1. Len(events) \in Nat /\ Len(kinds) \in Nat
        BY <1>1, <1>2
      <3>2. span \in Seq(Nat) /\ Len(span) = Len(kinds)
            /\ \A i \in 1 .. Len(kinds) : span[i] = Len(events) + i
        BY <3>1, SpanIs
      <3> QED
        BY <3>2
    <2>2. queue'[c] = Put(queue[c], new)
      BY <1>6, <2>1 DEF Emit
    <2>3. /\ Held(c)' \in Nat /\ Held(c)' <= Held(c) + Len(kinds)
          /\ Held(c) + Len(kinds) <= Cap
               => /\ \A n \in Nat : Has(c, n) => Has(c, n)'
                  /\ \A j \in 1 .. Len(new) :
                       \E i \in 1 .. Len(Seen(c)') : Seen(c)'[i] = new[j]
      BY <1>4, <2>1, <2>2, PutToClient
    <2>4. Load(c) <= Total
      BY <1>6 DEF ListenerOK
    <2>5. Load(c)' <= Total' /\ Held(c) <= Total
      BY <1>1, <1>2, <1>3, <1>5, <2>3, <2>4
    <2>6. ASSUME Total' <= Cap, NEW n \in 1 .. Len(events') PROVE Reaches(c, n)'
      <3>1. Held(c) + Len(kinds) <= Cap /\ Total <= Cap
        BY <1>1, <1>2, <1>3, <2>5, <2>6, CapAssumption
      <3>2. CASE n \in 1 .. Len(events)
        <4>1. Reaches(c, n) /\ n \in Nat
          BY <1>6, <3>1, <3>2 DEF ListenerOK
        <4>2. \A e \in Emitters : Pending(e, c)' = Pending(e, c) /\ emit'[e] = emit[e]
          BY DEF Pending
        <4> QED
          BY <2>3, <3>1, <4>1, <4>2 DEF Reaches
      <3>3. CASE n \notin 1 .. Len(events)
        <4>1. n - Len(events) \in 1 .. Len(kinds) /\ Len(events) + (n - Len(events)) = n
          BY <1>1, <1>2, <3>3
        <4>2. n - Len(events) \in 1 .. Len(new) /\ new[n - Len(events)] = n
          BY <2>1, <4>1
        <4> QED
          BY <2>3, <3>1, <4>2 DEF Reaches, Has
      <3> QED
        BY <3>2, <3>3
    <2> QED
      BY <1>1, <1>2, <1>4, <1>6, <2>5, <2>6 DEF ListenerOK
  <1>7. CASE phase[c] # "open"
    <2>1. queue'[c] = queue[c] /\ Held(c)' = Held(c)
      BY <1>7 DEF Emit, Held
    <2>2. phase[c] # "off" => Load(c) <= Total
      BY DEF ListenerOK
    <2>3. phase[c] # "off" => Load(c)' <= Total'
      BY <1>1, <1>2, <1>3, <1>5, <2>1, <2>2
    <2> QED
      BY <1>1, <1>2, <1>4, <1>7, <2>1, <2>3 DEF ListenerOK
  <1> QED
    BY <1>6, <1>7

\* An emission under way reaches the queue of client c.
LEMMA PutListener ==
  ASSUME ThreadTypeOK, EmissionOK, NEW c \in Clients, ListenerOK(c), NEW e \in Emitters,
         emit[e].pc = "put", c \in emit[e].todo,
         queue' = [queue EXCEPT ![c] = Put(@, <<emit[e].pos>>)],
         emit' = [emit EXCEPT ![e].todo = @ \ {c}],
         UNCHANGED <<events, phase, received, replay>>
  PROVE  ListenerOK(c)'
  <1>1. /\ Len(events) \in Nat /\ Total \in Nat /\ Held(c) \in Nat /\ Rest(c) \in Nat
        /\ Due("loop", c) \in {0, 1} /\ Due("thread", c) \in {0, 1}
        /\ Total' = Total /\ Rest(c)' = Rest(c) /\ replay'[c] = replay[c]
    <2>1. Rest(c) \in Nat
      BY RestIsNat DEF ListenerOK
    <2> QED
      BY <2>1, LoadType DEF Emitters, Total, Count, Rest
  <1>2. phase[c] # "off" /\ Load(c) <= Total
    BY DEF EmissionOK, ListenerOK
  <1>3. /\ Pending(e, c) /\ ~Pending(e, c)' /\ emit'[e].pos = emit[e].pos
        /\ \A f \in Emitters \ {e} : emit'[f] = emit[f]
    BY DEF Pending, ThreadTypeOK
  <1>4. /\ Due(e, c) = 1 /\ Due(e, c)' = 0
        /\ \A f \in Emitters \ {e} : Due(f, c)' = Due(f, c)
    BY <1>3 DEF Due, Pending
  <1>5. /\ Due("loop", c)' \in {0, 1} /\ Due("thread", c)' \in {0, 1}
        /\ Due("loop", c) + Due("thread", c) = Due("loop", c)' + Due("thread", c)' + 1
    BY <1>1, <1>4 DEF Emitters
  <1>6. PICK new \in Seq(Nat) : new = <<emit[e].pos>> /\ Len(new) = 1 /\ new[1] = emit[e].pos
    <2>1. emit[e].pos \in Nat
      BY DEF ThreadTypeOK
    <2> QED
      BY <2>1, OneEvent
  <1>7. queue'[c] = Put(queue[c], new) /\ received'[c] = received[c]
    BY <1>6 DEF ThreadTypeOK, TypeOK
  <1>8. /\ Held(c)' \in Nat /\ Held(c)' <= Held(c) + Len(new)
        /\ Held(c) + Len(new) <= Cap
             => /\ \A n \in Nat : Has(c, n) => Has(c, n)'
                /\ \A j \in 1 .. Len(new) :
                     \E i \in 1 .. Len(Seen(c)') : Seen(c)'[i] = new[j]
    BY <1>7, PutToClient
  <1>9. /\ Load(c)  = Held(c) + Rest(c) + Due("loop", c) + Due("thread", c)
        /\ Load(c)' = Held(c)' + Rest(c) + Due("loop", c)' + Due("thread", c)'
    BY <1>1 DEF Load
  <1>10. Load(c)' <= Total' /\ Held(c) + 1 <= Total
    BY <1>1, <1>2, <1>5, <1>6, <1>8, <1>9
  <1>11. ASSUME Total <= Cap, phase[c] = "open", NEW n \in 1 .. Len(events)
         PROVE  Reaches(c, n)'
    <2>1. Held(c) + Len(new) <= Cap
      BY <1>1, <1>6, <1>10, <1>11, CapAssumption
    <2>2. Reaches(c, n) /\ n \in Nat
      BY <1>11 DEF ListenerOK
    <2>3. CASE emit[e].pos = n
      <3>1. \E i \in 1 .. Len(Seen(c)') : Seen(c)'[i] = n
        BY <1>6, <1>8, <2>1, <2>3
      <3> QED
        BY <3>1 DEF Reaches, Has
    <2>4. CASE emit[e].pos # n
      <3>1. \A f \in Emitters : Pending(f, c) /\ emit[f].pos = n
                                  => Pending(f, c)' /\ emit'[f].pos = n
        BY <1>3, <2>4 DEF Pending
      <3> QED
        BY <1>1, <1>8, <2>1, <2>2, <3>1 DEF Reaches
    <2> QED
      BY <2>3, <2>4
  <1> QED
    BY <1>1, <1>2, <1>10, <1>11 DEF ListenerOK

\* A client subscribes: everything is yet to be replayed.
LEMMA SubscribeListener ==
  ASSUME ThreadTypeOK, EmissionOK, NEW c \in Clients, ListenerOK(c), SubscribeThread(c)
  PROVE  ListenerOK(c)'
  <1>1. /\ Len(events) \in Nat /\ Count("progress") \in Nat
    BY LoadType
  <1>2. /\ phase'[c] = "open" /\ received'[c] = <<>> /\ queue'[c] = <<>> /\ replay'[c] = 1
        /\ events' = events /\ emit' = emit /\ emit["loop"] = NoEmit
    BY DEF SubscribeThread, LoopFree, ListenerOK, ThreadTypeOK, TypeOK
  <1>3. /\ Held(c)' = 0 /\ Rest(c)' = Len(events) /\ Due("loop", c)' = 0
        /\ Total' = Len(events) + Count("progress")
    BY <1>1, <1>2 DEF Held, Rest, Due, Pending, NoEmit, Total, Count
  <1>4. Due("thread", c)' \in {0, 1} /\ Due("thread", c)' <= Count("progress")
    <2>1. CASE emit["thread"].pc = "idle"
      BY <1>1, <1>2, <2>1 DEF Due, Pending, EmissionOK, Emitters
    <2>2. CASE emit["thread"].pc # "idle"
      BY <1>1, <2>2 DEF Due, EmissionOK
    <2> QED
      BY <2>1, <2>2
  <1>5. Load(c)' <= Total'
    BY <1>1, <1>3, <1>4 DEF Load
  <1>6. \A n \in 1 .. Len(events) : Reaches(c, n)'
    BY <1>1, <1>2 DEF Reaches
  <1> QED
    BY <1>1, <1>2, <1>5, <1>6 DEF ListenerOK

\* One event is replayed to client c, or its replay ends.
LEMMA ReplayListener ==
  ASSUME ThreadTypeOK, NEW c \in Clients, ListenerOK(c), Replay(c)
  PROVE  ListenerOK(c)'
  <1>1. /\ Len(events) \in Nat /\ Total \in Nat /\ Held(c) \in Nat /\ replay[c] \in Nat
        /\ received[c] \in Seq(Nat) /\ queue[c] \in Seq(Nat) /\ replay[c] <= Len(events) + 1
        /\ Due("loop", c) \in {0, 1} /\ Due("thread", c) \in {0, 1}
        /\ phase[c] # "off" /\ Load(c) <= Total
    BY LoadType DEF Emitters, ListenerOK, Replay
  <1>2. /\ Total' = Total /\ Len(events') = Len(events) /\ phase'[c] = phase[c]
        /\ received'[c] = received[c] /\ emit' = emit
        /\ Due("loop", c)' = Due("loop", c) /\ Due("thread", c)' = Due("thread", c)
    BY DEF Replay, Total, Count, Due, Pending
  <1>3. /\ Rest(c) \in Nat /\ Rest(c) = (Len(events) + 1) - replay[c]
        /\ Load(c) = Held(c) + Rest(c) + Due("loop", c) + Due("thread", c)
    BY <1>1, RestIsNat DEF Replay, Load
  <1>4. CASE replay[c] <= Len(events) /\ Len(queue[c]) < Cap
    <2>1. PICK new \in Seq(Nat) : new = <<replay[c]>> /\ Len(new) = 1 /\ new[1] = replay[c]
      <3>1. replay[c] \in Nat
        BY <1>1
      <3> QED
        BY <3>1, OneEvent
    <2>2. queue'[c] = Append(queue[c], replay[c]) /\ replay'[c] = replay[c] + 1
      BY <1>4 DEF Replay, ThreadTypeOK, TypeOK
    <2>3. queue'[c] = Put(queue[c], new)
      <3>1. Len(queue[c]) + Len(new) <= Cap
        <4>1. Len(queue[c]) \in Nat
          BY <1>1
        <4> QED
          BY <1>4, <2>1, <4>1, CapAssumption
      <3>2. Append(queue[c], replay[c]) = queue[c] \o <<replay[c]>>
        BY <1>1
      <3> QED
        BY <2>1, <2>2, <3>1, <3>2 DEF Put
    <2>4. /\ Held(c)' \in Nat /\ Held(c)' <= Held(c) + Len(new)
          /\ Held(c) + Len(new) <= Cap
               => /\ \A n \in Nat : Has(c, n) => Has(c, n)'
                  /\ \A j \in 1 .. Len(new) :
                       \E i \in 1 .. Len(Seen(c)') : Seen(c)'[i] = new[j]
      BY <1>2, <2>3, PutToClient
    <2>5. Rest(c)' \in Nat /\ Rest(c) = Rest(c)' + 1
      <3>1. Rest(c)' = (Len(events) + 1) - (replay[c] + 1)
        BY <1>1, <1>2, <2>2 DEF Rest
      <3> QED
        BY <1>1, <1>3, <1>4, <3>1
    <2>6. Load(c)' = Held(c)' + Rest(c)' + Due("loop", c) + Due("thread", c)
      BY <1>2 DEF Load
    <2>7. Load(c)' <= Total' /\ Held(c) + 1 <= Total
      <3>1. Held(c)' \in Nat /\ Held(c)' <= Held(c) + 1 /\ Rest(c) = Rest(c)' + 1
        BY <2>1, <2>4, <2>5
      <3>2. Load(c) = Held(c) + Rest(c) + Due("loop", c) + Due("thread", c)
        BY <1>3
      <3> QED
        BY <1>1, <1>2, <2>5, <2>6, <3>1, <3>2
    <2>8. ASSUME Total <= Cap, phase[c] = "open", NEW n \in 1 .. Len(events)
          PROVE  Reaches(c, n)'
      <3>1. Held(c) + Len(new) <= Cap
        BY <1>1, <2>1, <2>7, <2>8, CapAssumption
      <3>2. Reaches(c, n) /\ n \in Nat
        BY <2>8 DEF ListenerOK
      <3>3. CASE replay[c] = n
        <4>1. \E i \in 1 .. Len(Seen(c)') : Seen(c)'[i] = n
          BY <2>1, <2>4, <3>1, <3>3
        <4> QED
          BY <4>1 DEF Reaches, Has
      <3>4. CASE replay[c] # n
        <4>1. replay[c] <= n => replay'[c] # 0 /\ replay'[c] <= n
          BY <1>1, <2>2, <3>2, <3>4
        <4>2. \A e \in Emitters : Pending(e, c)' = Pending(e, c) /\ emit'[e] = emit[e]
          BY <1>2 DEF Pending
        <4> QED
          BY <2>4, <3>1, <3>2, <4>1, <4>2 DEF Reaches
      <3> QED
        BY <3>3, <3>4
    <2> QED
      BY <1>1, <1>2, <1>4, <2>2, <2>7, <2>8 DEF ListenerOK
  <1>5. CASE ~(replay[c] <= Len(events) /\ Len(queue[c]) < Cap)
    <2>1. queue' = queue /\ replay'[c] = 0
      BY <1>5 DEF Replay, ThreadTypeOK
    <2>2. /\ Held(c)' = Held(c) /\ Rest(c)' = 0 /\ Seen(c)' = Seen(c)
      BY <1>2, <2>1 DEF Held, Rest, Seen
    <2>3. Load(c)' = Held(c) + 0 + Due("loop", c) + Due("thread", c)
      BY <1>2, <2>2 DEF Load
    <2>4. Load(c)' <= Total'
      BY <1>1, <1>2, <1>3, <2>3
    <2>5. ASSUME Total <= Cap, phase[c] = "open", NEW n \in 1 .. Len(events)
          PROVE  Reaches(c, n)'
      <3>1. ~(replay[c] <= n)
        <4>1. Len(queue[c]) \in Nat /\ Len(received[c]) \in Nat
          BY <1>1
        <4>2. Held(c) = Len(received[c]) + Len(queue[c])
          BY DEF Held
        <4>3. Len(queue[c]) <= Held(c)
          BY <4>1, <4>2, Sums
        <4>4. Held(c) + Rest(c) <= Cap
          BY <1>1, <1>3, <2>5, CapAssumption
        <4>5. ~(replay[c] <= Len(events))
          BY <1>1, <1>3, <1>5, <4>1, <4>3, <4>4, CapAssumption
        <4> QED
          BY <1>1, <4>5
      <3>2. Reaches(c, n)
        BY <2>5 DEF ListenerOK
      <3>3. \A e \in Emitters : Pending(e, c)' = Pending(e, c) /\ emit'[e] = emit[e]
        BY <1>2 DEF Pending
      <3> QED
        BY <2>2, <3>1, <3>2, <3>3 DEF Reaches, Has
    <2> QED
      BY <1>1, <1>2, <2>1, <2>4, <2>5 DEF ListenerOK
  <1> QED
    BY <1>4, <1>5

\* Client c gets the next event.
LEMMA DeliverListener ==
  ASSUME ThreadTypeOK, NEW c \in Clients, ListenerOK(c), FromLoop(Deliver(c))
  PROVE  ListenerOK(c)'
  <1>1. /\ received[c] \in Seq(Nat) /\ queue[c] \in Seq(Nat) /\ queue[c] # <<>>
        /\ received'[c] = Append(received[c], Head(queue[c])) /\ queue'[c] = Tail(queue[c])
        /\ phase[c] = "open" /\ phase'[c] \in {"open", "closed"}
        /\ events' = events /\ emit' = emit /\ replay' = replay
    BY DEF FromLoop, Deliver, threadVars, ThreadTypeOK, TypeOK
  <1>2. Seen(c)' = Seen(c) /\ Held(c)' = Held(c)
    <2>1. PICK r \in Seq(Nat), q \in Seq(Nat) : r = received[c] /\ q = queue[c] /\ q # <<>>
      BY <1>1
    <2>2. Append(r, Head(q)) \o Tail(q) = r \o q
      BY <2>1, HeadTail
    <2>3. Len(Append(r, Head(q))) + Len(Tail(q)) = Len(r) + Len(q)
      <3>1. /\ Len(r) \in Nat /\ Len(q) \in Nat
            /\ Len(Append(r, Head(q))) = Len(r) + 1 /\ Len(Tail(q)) = Len(q) - 1
        BY <2>1
      <3> QED
        BY <3>1, Sums
    <2> QED
      BY <1>1, <2>1, <2>2, <2>3 DEF Seen, Held
  <1>3. /\ Load(c)' = Load(c) /\ Total' = Total
        /\ \A e \in Emitters : Pending(e, c)' = Pending(e, c)
    BY <1>1, <1>2 DEF Load, Rest, Due, Pending, Total, Count
  <1>4. \A n \in 1 .. Len(events) : Reaches(c, n)' = Reaches(c, n)
    BY <1>1, <1>2, <1>3 DEF Reaches, Has
  <1> QED
    BY <1>1, <1>3, <1>4 DEF ListenerOK

LEMMA ListenerStep ==
  ASSUME ThreadTypeOK, EmissionOK, [ThreadNext]_allVars, NEW c \in Clients, ListenerOK(c)
  PROVE  ListenerOK(c)'
  <1> USE DEF Emitters
  <1>1. CASE ThreadStart
    <2>1. <<"started">> \in Seq(Kinds) /\ Emit(<<"started">>) /\ replay[c] = 0
      BY <1>1 DEF ThreadStart, Start, LoopFree, Kinds
    <2>2. \A i \in 1 .. Len(<<"started">>) : <<"started">>[i] # "progress"
      OBVIOUS
    <2>3. UNCHANGED <<emit, replay>>
      BY <1>1 DEF ThreadStart
    <2> QED
      BY <2>1, <2>2, <2>3, EmitListener
  <1>2. CASE ThreadFinish
    <2>1. <<"verdict", "done">> \in Seq(Kinds) /\ Emit(<<"verdict", "done">>) /\ replay[c] = 0
      BY <1>2 DEF ThreadFinish, Finish, LoopFree, Kinds
    <2>2. \A i \in 1 .. Len(<<"verdict", "done">>) : <<"verdict", "done">>[i] # "progress"
      OBVIOUS
    <2>3. UNCHANGED <<emit, replay>>
      BY <1>2 DEF ThreadFinish, threadVars
    <2> QED
      BY <2>1, <2>2, <2>3, EmitListener
  <1>3. CASE CancelThread
    BY <1>3, AppendOK DEF CancelThread, LoopFree, Kinds
  <1>4. CASE EntryDone
    BY <1>4, AppendOK DEF EntryDone, Kinds
  <1>5. CASE CheckContinue \/ ThreadEnds
    BY <1>5, Unchanged DEF CheckContinue, ThreadEnds, vars, Pending
  <1>6. ASSUME NEW e \in Emitters, EmitSnapshot(e) PROVE ListenerOK(c)'
    <2>1. /\ Pending(e, c) /\ emit'[e].pos = emit[e].pos
          /\ phase[c] = "open" => Pending(e, c)'
          /\ \A f \in Emitters \ {e} : emit'[f] = emit[f]
      BY <1>6 DEF EmitSnapshot, Pending, ThreadTypeOK
    <2>2. \A f \in Emitters \ {e} : Pending(f, c)' = Pending(f, c)
      BY <2>1 DEF Pending
    <2> QED
      BY <1>6, <2>1, <2>2, Unchanged DEF EmitSnapshot, vars
  <1>7. ASSUME NEW e \in Emitters, EmitPut(e) PROVE ListenerOK(c)'
    <2>1. PICK d \in emit[e].todo :
            /\ queue' = [queue EXCEPT ![d] = Put(@, <<emit[e].pos>>)]
            /\ emit'  = [emit EXCEPT ![e].todo = @ \ {d}]
      BY <1>7 DEF EmitPut
    <2>2. emit[e].pc = "put" /\ UNCHANGED <<events, phase, received, replay>>
      BY <1>7 DEF EmitPut
    <2>3. CASE d = c
      BY <2>1, <2>2, <2>3, PutListener
    <2>4. CASE d # c
      <3>1. \A f \in Emitters : Pending(f, c)' = Pending(f, c) /\ emit'[f].pos = emit[f].pos
        BY <2>1, <2>4 DEF Pending, ThreadTypeOK
      <3>2. queue'[c] = queue[c]
        BY <2>1, <2>4 DEF ThreadTypeOK, TypeOK
      <3> QED
        BY <2>2, <3>1, <3>2, Unchanged
    <2> QED
      BY <2>3, <2>4
  <1>8. ASSUME NEW e \in Emitters, EmitEnd(e) PROVE ListenerOK(c)'
    <2>1. /\ ~Pending(e, c) /\ ~Pending(e, c)'
          /\ \A f \in Emitters \ {e} : emit'[f] = emit[f]
      BY <1>8 DEF EmitEnd, NoEmit, Pending, ThreadTypeOK
    <2>2. \A f \in Emitters \ {e} : Pending(f, c)' = Pending(f, c)
      BY <2>1 DEF Pending
    <2> QED
      BY <1>8, <2>1, <2>2, Unchanged DEF EmitEnd, vars
  <1>9. ASSUME NEW d \in Clients, d # c,
               \/ SubscribeThread(d) \/ Replay(d)
               \/ FromLoop(Deliver(d)) \/ FromLoop(Timeout(d)) \/ DisconnectThread(d)
        PROVE  ListenerOK(c)'
    <2>1. /\ events' = events /\ phase'[c] = phase[c] /\ queue'[c] = queue[c]
          /\ received'[c] = received[c] /\ replay'[c] = replay[c]
      <3>1. CASE SubscribeThread(d) \/ Replay(d)
        BY <1>9, <3>1 DEF SubscribeThread, Replay, ThreadTypeOK, TypeOK
      <3>2. CASE FromLoop(Deliver(d)) \/ FromLoop(Timeout(d))
        BY <1>9, <3>2 DEF FromLoop, Deliver, Timeout, threadVars, ThreadTypeOK, TypeOK
      <3>3. CASE DisconnectThread(d)
        BY <1>9, <3>3 DEF DisconnectThread, Disconnect, ThreadTypeOK, TypeOK
      <3> QED
        BY <1>9, <3>1, <3>2, <3>3
    <2>2. \A e \in Emitters : Pending(e, c)' = Pending(e, c) /\ emit'[e].pos = emit[e].pos
      <3>1. CASE DisconnectThread(d)
        BY <1>9, <3>1 DEF DisconnectThread, Pending, ThreadTypeOK
      <3>2. CASE ~DisconnectThread(d)
        BY <1>9, <3>2 DEF SubscribeThread, Replay, FromLoop, threadVars, Pending
      <3> QED
        BY <3>1, <3>2
    <2> QED
      BY <2>1, <2>2, Unchanged
  <1>10. CASE SubscribeThread(c)
    BY <1>10, SubscribeListener
  <1>11. CASE Replay(c)
    BY <1>11, ReplayListener
  <1>12. CASE FromLoop(Deliver(c))
    BY <1>12, DeliverListener
  <1>13. CASE FromLoop(Timeout(c))
    <2>1. /\ phase[c] = "open" /\ phase'[c] = "closed" /\ Load(c)' = Load(c) /\ Total' = Total
          /\ UNCHANGED <<events, replay, queue>>
      BY <1>13 DEF FromLoop, Timeout, threadVars, ThreadTypeOK, TypeOK,
                   Load, Held, Rest, Due, Pending, Total, Count
    <2> QED
      BY <2>1 DEF ListenerOK
  <1>14. CASE DisconnectThread(c)
    BY <1>14 DEF DisconnectThread, Disconnect, LoopFree, ThreadTypeOK, TypeOK, ListenerOK
  <1>15. CASE UNCHANGED allVars
    BY <1>15, Unchanged DEF allVars, vars, threadVars, Pending
  <1> QED
    BY <1>1, <1>2, <1>3, <1>4, <1>5, <1>6, <1>7, <1>8, <1>9, <1>10, <1>11, <1>12, <1>13,
       <1>14, <1>15 DEF ThreadNext
-----------------------------------------------------------------------------
LEMMA InitTInv == ThreadInit => TInv
  <1> SUFFICES ASSUME ThreadInit PROVE TInv
    OBVIOUS
  <1>1. ThreadTypeOK
    <2>1. <<"queued">> \in Seq(Kinds) /\ <<>> \in Seq(Nat)
      BY DEF Kinds
    <2> QED
      BY <2>1 DEF ThreadInit, Init, NoEmit, Emitters, ThreadTypeOK, TypeOK
  <1>2. EmissionOK /\ CancelOK
    BY DEF ThreadInit, Init, NoEmit, Emitters, EmissionOK, CancelOK
  <1>3. \A c \in Clients : ListenerOK(c)
    BY DEF ThreadInit, Init, ListenerOK
  <1> QED
    BY <1>1, <1>2, <1>3 DEF TInv

LEMMA StepTInv == ASSUME TInv, [ThreadNext]_allVars PROVE TInv'
  <1>1. ThreadTypeOK' /\ EmissionOK' /\ CancelOK'
    BY ThreadTypes, EmissionStep, CancelStep DEF TInv
  <1>2. \A c \in Clients : ListenerOK(c)'
    BY ListenerStep DEF TInv
  <1> QED
    BY <1>1, <1>2 DEF TInv

\* The invariant of a job that emits from a thread (jobs.py:104-128, :199).
THEOREM TInvAlways == ThreadSpec => []TInv
  BY InitTInv, StepTInv, PTL DEF ThreadSpec

\* Every variable of such a job keeps its type.
THEOREM ThreadTypeCorrect == ThreadSpec => []ThreadTypeOK
  BY TInvAlways, PTL DEF TInv

\* However emit and subscribe interleave, no event falls between the replay and
\* the live events while there is room for both (jobs.py:117-128).
THEOREM NothingFallsBetween == ThreadSpec => []NothingMissed
  <1>1. TInv => NothingMissed
    <2> SUFFICES ASSUME TInv, NEW c \in Clients, phase[c] = "open", Settled(c),
                        Len(events) + Count("progress") <= Cap, NEW n \in 1 .. Len(events)
                 PROVE  Has(c, n)
      BY DEF NothingMissed, Has, Seen
    <2>1. Reaches(c, n)
      BY DEF TInv, ListenerOK, Total
    <2>2. replay[c] = 0 /\ \A e \in Emitters : ~Pending(e, c)
      BY DEF Settled, Pending
    <2> QED
      BY <2>1, <2>2 DEF Reaches
  <1> QED
    BY <1>1, TInvAlways, PTL

\* Once a cancellation is acknowledged, at most the entry under way reports
\* (jobs.py:199).
THEOREM CancelStops == ThreadSpec => []CancelStopsAtNextEntry
  <1>1. TInv => CancelStopsAtNextEntry
    <2> SUFFICES ASSUME TInv, NEW k \in 1 .. Len(events), events[k] = "cancel"
                 PROVE  Cardinality({i \in k .. Len(events) : events[i] = "progress"}) <= 1
      BY DEF CancelStopsAtNextEntry
    <2> DEFINE S == {i \in k .. Len(events) : events[i] = "progress"}
    <2>1. Len(events) \in Nat
      BY DEF TInv, ThreadTypeOK, TypeOK
    <2>2. \A i \in S : i \in 1 .. Len(events) /\ k < i /\ events[i] = "progress"
      BY <2>1
    <2>3. \A i, j \in S : ~(i < j)
      BY <2>2 DEF TInv, CancelOK
    <2>4. \A i, j \in S : i = j
      BY <2>1, <2>2, <2>3
    <2>5. CASE S = {}
      <3>1. Cardinality(S) = 0
        BY <2>5, FS_EmptySet
      <3> QED
        BY <3>1
    <2>6. CASE S # {}
      <3>1. PICK i \in S : S = {i}
        BY <2>4, <2>6
      <3>2. Cardinality(S) = 1
        BY <3>1, FS_Singleton
      <3> QED
        BY <3>2
    <2> QED
      BY <2>5, <2>6
  <1> QED
    BY <1>1, TInvAlways, PTL
=============================================================================
