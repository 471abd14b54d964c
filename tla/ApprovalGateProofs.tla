------------------------- MODULE ApprovalGateProofs -------------------------
(***************************************************************************)
(* For any set of proposals and any number of workers: the gate never      *)
(* trains what nobody approved, never lets a request past a rejection that *)
(* was there when it came in, and never records an approval that no person *)
(* gave without a mandate.                                                 *)
(***************************************************************************)
EXTENDS ApprovalGate, TLAPS

\* A worker past the gate carries a proposal with an approval record.
WorkersAuthorised ==
  \A w \in Workers :
    task[w].pc \in {"batch", "run"} => task[w].prop \in Approved

\* The flows that record an approval no person gave.
Unasked == {"experiment", "agent_mcp", "diagnosis_approve"}

\* A worker that is about to record an approval nobody was asked for serves a
\* flow that saved the proposal, and that flow has its mandate.
AutoMandated ==
  \A w \in Workers :
    /\ task[w].pc \in {"gate_rejected", "gate_approved", "gate_write"}
         => task[w].flow \in Gated
    /\ task[w].pc \in {"gate_approved", "gate_write"} /\ task[w].auto
         => \/ task[w].flow = "experiment"
            \/ task[w].flow = "agent_mcp" /\ task[w].prop \in granted
    /\ task[w].pc = "gate_write" => task[w].auto
    /\ task[w].pc # "idle" /\ task[w].flow \in Unasked
         => task[w].flow \in savers[task[w].prop]
    /\ task[w].pc # "idle" /\ task[w].flow = "agent_mcp" /\ optIn
         => task[w].prop \in granted
    /\ task[w].pc \in {"human_rejected", "human_approved", "human_write"}
         => task[w].flow \in Human
    /\ task[w].pc = "approve" => task[w].flow = "diagnosis_approve"

\* A request that came in after the rejection has not got past a check.
StaleStopped ==
  \A w \in Workers :
    /\ task[w].pc # "idle" /\ task[w].stale => task[w].prop \in rejected
    /\ task[w].pc \in {"human_approved", "human_write", "gate_approved",
                       "gate_write", "batch", "run"}
       /\ task[w].flow \in Gated \union Human
         => ~task[w].stale

IInv ==
  /\ TypeOK
  /\ ExecutedOnlyApproved
  /\ AutoNeedsMandate
  /\ WorkersAuthorised
  /\ AutoMandated
  /\ StaleStopped
-----------------------------------------------------------------------------
\* The next step of a flow is a step or the end of it.
LEMMA NextPc ==
  ASSUME NEW f \in Flows
  PROVE  /\ AfterBatch(f) \in {"run", "idle"}
         /\ AfterGate(f) \in {"batch", "idle"}
         /\ AfterHuman(f) \in {"gate_rejected", "batch", "idle"}
         /\ AfterHuman(f) = "gate_rejected" => f \in Gated
  BY DEF AfterBatch, AfterGate, AfterHuman

\* A worker that is not idle serves a request.
LEMMA Busy ==
  ASSUME TypeOK, NEW w \in Workers, task[w].pc # "idle"
  PROVE  /\ task[w] \in Requests
         /\ task[w].flow \in Flows
         /\ task[w].prop \in Proposals
  BY DEF TypeOK, Idle, Requests

\* Goto changes the step of one worker and nothing else of its request.
LEMMA GotoStep ==
  ASSUME TypeOK, NEW w \in Workers, task[w].pc # "idle",
         NEW pc \in PCs \union {"idle"}, Goto(w, pc)
  PROVE  /\ task' \in [Workers -> Requests \union {Idle}]
         /\ \A v \in Workers \ {w} : task'[v] = task[v]
         /\ task'[w].pc = pc
         /\ pc # "idle" => /\ task'[w].flow  = task[w].flow
                           /\ task'[w].prop  = task[w].prop
                           /\ task'[w].auto  = task[w].auto
                           /\ task'[w].stale = task[w].stale
<1>1. task[w] \in Requests
  BY Busy
<1>2. task \in [Workers -> Requests \union {Idle}]
  BY DEF TypeOK
<1>3. CASE pc = "idle"
  BY <1>1, <1>2, <1>3 DEF Goto, Idle
<1>4. CASE pc # "idle"
  <2>1. task' = [task EXCEPT ![w] = [@ EXCEPT !.pc = pc]]
    BY <1>4 DEF Goto
  <2>2. [task[w] EXCEPT !.pc = pc] \in Requests
    BY <1>1, <1>4 DEF Requests
  <2>. QED
    BY <1>1, <1>2, <1>4, <2>1, <2>2 DEF Requests
<1>. QED
  BY <1>3, <1>4

LEMMA InitIInv == Init => IInv
<1>. SUFFICES ASSUME Init PROVE IInv
  OBVIOUS
<1>1. \A w \in Workers : task[w].pc = "idle"
  BY DEF Init, Idle
<1>2. TypeOK
  BY DEF Init, TypeOK, Idle
<1>3. ExecutedOnlyApproved /\ AutoNeedsMandate
  BY DEF Init, ExecutedOnlyApproved, AutoNeedsMandate
<1>4. WorkersAuthorised /\ AutoMandated /\ StaleStopped
  BY <1>1 DEF Init, WorkersAuthorised, AutoMandated, StaleStopped
<1>. QED
  BY <1>2, <1>3, <1>4 DEF IInv
-----------------------------------------------------------------------------
\* The step from idle to the first step of a flow.
LEMMA ServeStep ==
  ASSUME TypeOK, NEW w \in Workers, NEW f \in Flows, NEW p \in Proposals,
         Serve(w, f, p)
  PROVE  /\ task' \in [Workers -> Requests \union {Idle}]
         /\ \A v \in Workers \ {w} : task'[v] = task[v]
         /\ task'[w].pc = FirstPc(f)
         /\ FirstPc(f) # "idle" => /\ task'[w].flow = f
                                   /\ task'[w].prop = p
                                   /\ task'[w].auto = FALSE
                                   /\ task'[w].stale = (p \in rejected)
<1>1. FirstPc(f) \in PCs \union {"idle"}
  BY DEF FirstPc, PCs
<1>2. task \in [Workers -> Requests \union {Idle}]
  BY DEF TypeOK
<1>3. CASE FirstPc(f) = "idle"
  BY <1>2, <1>3 DEF Serve, Idle
<1>4. CASE FirstPc(f) # "idle"
  <2>. DEFINE r == [pc |-> FirstPc(f), flow |-> f, prop |-> p,
                    auto |-> FALSE, stale |-> p \in rejected]
  <2>1. r \in Requests
    BY <1>1, <1>4 DEF Requests
  <2>2. task' = [task EXCEPT ![w] = r]
    BY <1>4 DEF Serve
  <2>3. task'[w] = r
    BY <1>2, <2>2
  <2>4. /\ r.pc = FirstPc(f) /\ r.flow = f /\ r.prop = p
        /\ r.auto = FALSE /\ r.stale = (p \in rejected)
    OBVIOUS
  <2>. QED
    BY <1>2, <1>4, <2>1, <2>2, <2>3, <2>4
<1>. QED
  BY <1>3, <1>4

\* Where each flow begins, as far as the invariant tells flows apart.
LEMMA FirstSteps ==
  ASSUME NEW f \in Flows
  PROVE  /\ FirstPc(f) \in {"human_rejected", "gate_rejected", "reject",
                             "approve", "run", "idle"}
         /\ FirstPc(f) = "human_rejected" => f \in Human
         /\ FirstPc(f) = "gate_rejected" => f \in Gated
         /\ FirstPc(f) = "approve" => f = "diagnosis_approve"
         /\ FirstPc(f) = "run" => f = "run_batch"
  BY DEF FirstPc

LEMMA SaveInv ==
  ASSUME IInv, NEW w \in Workers, NEW f \in Flows, NEW p \in Proposals,
         Save(w, f, p)
  PROVE  IInv'
<1>. USE DEF IInv
<1>1. Serve(w, f, p)
  BY DEF Save
<1>2. /\ task' \in [Workers -> Requests \union {Idle}]
      /\ \A v \in Workers \ {w} : task'[v] = task[v]
      /\ task'[w].pc = FirstPc(f)
      /\ FirstPc(f) # "idle" => /\ task'[w].flow = f
                                /\ task'[w].prop = p
                                /\ task'[w].auto = FALSE
                                /\ task'[w].stale = (p \in rejected)
  BY <1>1, ServeStep
<1>3. /\ f \in Creating
      /\ f # "run_batch"
      /\ savers' = [savers EXCEPT ![p] = @ \union {f}]
      /\ \A q \in Proposals : savers[q] \subseteq savers'[q]
      /\ f \in savers'[p]
      /\ UNCHANGED <<approval, rejected, batch, optIn, executed>>
  BY DEF Save, Creating, TypeOK
<1>3a. /\ granted \subseteq granted'
       /\ granted' \subseteq Proposals
       /\ f = "agent_mcp" /\ optIn => p \in granted'
  BY DEF Save, TypeOK
<1>4. TypeOK'
  BY <1>2, <1>3, <1>3a DEF TypeOK
<1>5. ExecutedOnlyApproved' /\ Approved' = Approved
  BY <1>3 DEF ExecutedOnlyApproved, Approved
<1>6. AutoNeedsMandate'
  BY <1>3, <1>3a DEF AutoNeedsMandate
<1>7. WorkersAuthorised'
  BY <1>2, <1>3, <1>5, FirstSteps DEF WorkersAuthorised
<1>8. AutoMandated'
  <2>1. ASSUME NEW v \in Workers \ {w}, task[v].pc # "idle"
        PROVE  /\ task[v].flow \in Unasked
                    => task[v].flow \in savers'[task[v].prop]
               /\ task[v].flow = "agent_mcp" /\ optIn
                    => task[v].prop \in granted'
               /\ task[v].prop \in granted => task[v].prop \in granted'
    BY <1>3, <1>3a, <2>1, Busy DEF AutoMandated
  <2>2. ASSUME NEW v \in Workers \ {w}
        PROVE  task'[v] = task[v]
    BY <1>2
  <2>. QED
    BY <1>2, <1>3, <1>3a, <2>1, <2>2, FirstSteps DEF AutoMandated
<1>9. StaleStopped'
  BY <1>2, <1>3, FirstSteps DEF StaleStopped
<1>. QED
  BY <1>4, <1>5, <1>6, <1>7, <1>8, <1>9

LEMMA RequestInv ==
  ASSUME IInv, NEW w \in Workers, NEW f \in Flows, NEW p \in Proposals,
         Request(w, f, p)
  PROVE  IInv'
<1>. USE DEF IInv
<1>1. Serve(w, f, p)
  BY DEF Request
<1>2. /\ task' \in [Workers -> Requests \union {Idle}]
      /\ \A v \in Workers \ {w} : task'[v] = task[v]
      /\ task'[w].pc = FirstPc(f)
      /\ FirstPc(f) # "idle" => /\ task'[w].flow = f
                                /\ task'[w].prop = p
                                /\ task'[w].auto = FALSE
                                /\ task'[w].stale = (p \in rejected)
  BY <1>1, ServeStep
<1>3. /\ f \notin Unasked
      /\ f = "run_batch" => p \in batch
      /\ UNCHANGED <<savers, approval, rejected, batch, optIn, executed, granted>>
  BY DEF Request, Creating, Unasked, store
<1>4. TypeOK'
  BY <1>2, <1>3 DEF TypeOK
<1>5. ExecutedOnlyApproved' /\ Approved' = Approved
  BY <1>3 DEF ExecutedOnlyApproved, Approved
<1>6. AutoNeedsMandate'
  BY <1>3 DEF AutoNeedsMandate
<1>7. WorkersAuthorised'
  BY <1>2, <1>3, <1>5, FirstSteps DEF WorkersAuthorised, ExecutedOnlyApproved
<1>8. AutoMandated'
  BY <1>2, <1>3, FirstSteps DEF AutoMandated, Unasked
<1>9. StaleStopped'
  <2>1. ASSUME NEW v \in Workers \ {w}
        PROVE  /\ task'[v].pc # "idle" /\ task'[v].stale => task'[v].prop \in rejected'
               /\ task'[v].pc \in {"human_approved", "human_write", "gate_approved",
                                   "gate_write", "batch", "run"}
                    /\ task'[v].flow \in Gated \union Human
                    => ~task'[v].stale
    BY <1>2, <1>3, <2>1 DEF StaleStopped
  <2>2. task'[w].pc # "idle" /\ task'[w].stale => task'[w].prop \in rejected'
    BY <1>2, <1>3
  <2>3. task'[w].pc \in {"human_approved", "human_write", "gate_approved",
                         "gate_write", "batch", "run"}
          => f = "run_batch"
    BY <1>2, FirstSteps
  <2>4. "run_batch" \notin Gated \union Human
    BY DEF Gated, Human
  <2>. QED
    BY <1>2, <2>1, <2>2, <2>3, <2>4 DEF StaleStopped
<1>. QED
  BY <1>4, <1>5, <1>6, <1>7, <1>8, <1>9
-----------------------------------------------------------------------------
\* A step that only moves a worker along its flow keeps the invariant if the
\* step it moves to is one the worker is entitled to.
LEMMA MoveInv ==
  ASSUME IInv, NEW w \in Workers, task[w].pc # "idle",
         NEW pc \in PCs \union {"idle"}, Goto(w, pc),
         UNCHANGED <<store, optIn, executed, granted>>,
         pc \in {"batch", "run"} => task[w].prop \in Approved,
         pc = "gate_rejected" => task[w].flow \in Gated,
         pc \notin {"gate_approved", "approve", "reject", "human_rejected"},
         pc = "gate_write" => /\ task[w].pc = "gate_approved"
                              /\ task[w].auto,
         pc \in {"human_approved", "human_write"} => task[w].flow \in Human,
         pc \in {"human_approved", "human_write", "gate_write", "batch", "run"}
           /\ task[w].flow \in Gated \union Human => ~task[w].stale
  PROVE  IInv'
<1>. USE DEF IInv
<1>1. /\ task' \in [Workers -> Requests \union {Idle}]
      /\ \A v \in Workers \ {w} : task'[v] = task[v]
      /\ task'[w].pc = pc
      /\ pc # "idle" => /\ task'[w].flow  = task[w].flow
                        /\ task'[w].prop  = task[w].prop
                        /\ task'[w].auto  = task[w].auto
                        /\ task'[w].stale = task[w].stale
  BY GotoStep
<1>2. UNCHANGED <<savers, approval, rejected, batch, optIn, executed, granted>>
  BY DEF store
<1>3. TypeOK'
  BY <1>1, <1>2 DEF TypeOK
<1>4. ExecutedOnlyApproved' /\ Approved' = Approved
  BY <1>2 DEF ExecutedOnlyApproved, Approved
<1>5. AutoNeedsMandate'
  BY <1>2 DEF AutoNeedsMandate
<1>6. WorkersAuthorised'
  BY <1>1, <1>4 DEF WorkersAuthorised
<1>7. AutoMandated'
  BY <1>1, <1>2 DEF AutoMandated
<1>8. StaleStopped'
  BY <1>1, <1>2 DEF StaleStopped
<1>. QED
  BY <1>3, <1>4, <1>5, <1>6, <1>7, <1>8

LEMMA HumanCheckRejectedInv ==
  ASSUME IInv, NEW w \in Workers, HumanCheckRejected(w)
  PROVE  IInv'
<1>1. task[w].pc = "human_rejected" /\ task[w].flow \in Human
  BY DEF HumanCheckRejected, At, IInv, AutoMandated
<1>2. CASE task[w].prop \in rejected
  BY <1>1, <1>2, MoveInv DEF HumanCheckRejected
<1>3. CASE task[w].prop \notin rejected
  <2>1. ~task[w].stale
    BY <1>1, <1>3 DEF IInv, StaleStopped
  <2>2. Goto(w, "human_approved") /\ UNCHANGED <<store, optIn, executed, granted>>
    BY <1>3 DEF HumanCheckRejected
  <2>. QED
    BY <1>1, <2>1, <2>2, MoveInv DEF PCs
<1>. QED
  BY <1>2, <1>3

LEMMA HumanCheckApprovedInv ==
  ASSUME IInv, NEW w \in Workers, HumanCheckApproved(w)
  PROVE  IInv'
<1>1. /\ task[w].pc = "human_approved"
      /\ task[w].flow \in Human
      /\ task[w].flow \in Gated \union Human => ~task[w].stale
      /\ task[w].flow \in Flows /\ task[w].prop \in Proposals
      /\ UNCHANGED <<store, optIn, executed, granted>>
  BY Busy DEF HumanCheckApproved, At, IInv, AutoMandated, StaleStopped
<1>2. CASE approval[task[w].prop] # "none"
  <2>. DEFINE pc == AfterHuman(task[w].flow)
  <2>1. Goto(w, pc)
    BY <1>2 DEF HumanCheckApproved
  <2>2. task[w].prop \in Approved
    BY <1>1, <1>2 DEF Approved
  <2>3. /\ pc \in {"gate_rejected", "batch", "idle"}
        /\ pc = "gate_rejected" => task[w].flow \in Gated
    BY <1>1, NextPc
  <2>. HIDE DEF pc
  <2>. QED
    BY <1>1, <2>1, <2>2, <2>3, MoveInv DEF PCs
<1>3. CASE approval[task[w].prop] = "none"
  <2>1. Goto(w, "human_write")
    BY <1>3 DEF HumanCheckApproved
  <2>. QED
    BY <1>1, <2>1, MoveInv DEF PCs
<1>. QED
  BY <1>2, <1>3

LEMMA GateCheckApprovedInv ==
  ASSUME IInv, NEW w \in Workers, GateCheckApproved(w)
  PROVE  IInv'
<1>1. /\ task[w].pc = "gate_approved"
      /\ task[w].flow \in Gated \union Human => ~task[w].stale
      /\ task[w].flow \in Flows /\ task[w].prop \in Proposals
      /\ UNCHANGED <<store, optIn, executed, granted>>
  BY Busy DEF GateCheckApproved, At, IInv, StaleStopped
<1>2. CASE approval[task[w].prop] # "none"
  <2>. DEFINE pc == AfterGate(task[w].flow)
  <2>1. Goto(w, pc)
    BY <1>2 DEF GateCheckApproved
  <2>2. task[w].prop \in Approved
    BY <1>1, <1>2 DEF Approved
  <2>3. pc \in {"batch", "idle"}
    BY <1>1, NextPc
  <2>. HIDE DEF pc
  <2>. QED
    BY <1>1, <2>1, <2>2, <2>3, MoveInv DEF PCs
<1>3. CASE approval[task[w].prop] = "none" /\ task[w].auto
  <2>1. Goto(w, "gate_write")
    BY <1>3 DEF GateCheckApproved
  <2>. QED
    BY <1>1, <1>3, <2>1, MoveInv DEF PCs
<1>4. CASE approval[task[w].prop] = "none" /\ ~task[w].auto
  <2>1. Goto(w, "idle")
    BY <1>4 DEF GateCheckApproved
  <2>. QED
    BY <1>1, <2>1, MoveInv
<1>. QED
  BY <1>2, <1>3, <1>4

LEMMA FinishInv ==
  ASSUME IInv, NEW w \in Workers, Finish(w)
  PROVE  IInv'
  BY MoveInv DEF Finish, At

LEMMA GateCheckRejectedInv ==
  ASSUME IInv, NEW w \in Workers, GateCheckRejected(w)
  PROVE  IInv'
<1>. USE DEF IInv
<1>1. /\ task[w].pc = "gate_rejected"
      /\ task[w].flow \in Gated
      /\ task[w] \in Requests
      /\ UNCHANGED <<store, optIn, executed, granted>>
  BY Busy DEF GateCheckRejected, At, AutoMandated
<1>2. CASE task[w].prop \in rejected
  <2>1. Goto(w, "idle")
    BY <1>2 DEF GateCheckRejected, Goto
  <2>. QED
    BY <1>1, <2>1, MoveInv
<1>3. CASE task[w].prop \notin rejected
  <2>. DEFINE r == [task[w] EXCEPT !.pc = "gate_approved",
                                   !.auto = AllowAuto(task[w].flow)]
  <2>1. task' = [task EXCEPT ![w] = r]
    BY <1>3 DEF GateCheckRejected
  <2>2. /\ r.pc = "gate_approved"
        /\ r.flow = task[w].flow /\ r.prop = task[w].prop
        /\ r.auto = AllowAuto(task[w].flow)
        /\ r.stale = task[w].stale
    BY <1>1 DEF Requests
  <2>3. r \in Requests
    BY <1>1 DEF Requests, AllowAuto, PCs, TypeOK
  <2>. HIDE DEF r
  <2>4. /\ task' \in [Workers -> Requests \union {Idle}]
        /\ \A v \in Workers \ {w} : task'[v] = task[v]
        /\ task'[w] = r
    BY <2>1, <2>3 DEF TypeOK
  <2>5. ~task[w].stale
    BY <1>1, <1>3 DEF StaleStopped
  <2>6. UNCHANGED <<savers, approval, rejected, batch, optIn, executed, granted>>
    BY <1>1 DEF store
  <2>7. TypeOK'
    BY <2>4, <2>6 DEF TypeOK
  <2>8. ExecutedOnlyApproved' /\ Approved' = Approved
    BY <2>6 DEF ExecutedOnlyApproved, Approved
  <2>9. AutoNeedsMandate'
    BY <2>6 DEF AutoNeedsMandate
  <2>10. WorkersAuthorised'
    BY <2>2, <2>4, <2>8 DEF WorkersAuthorised
  <2>11. AutoMandated'
    <3>1. r.auto => \/ r.flow = "experiment"
                    \/ r.flow = "agent_mcp" /\ r.prop \in granted
      BY <1>1, <2>2 DEF AllowAuto, AutoMandated
    <3>. QED
      BY <1>1, <2>2, <2>4, <2>6, <3>1 DEF AutoMandated
  <2>12. StaleStopped'
    BY <2>2, <2>4, <2>5, <2>6 DEF StaleStopped
  <2>. QED
    BY <2>7, <2>8, <2>9, <2>10, <2>11, <2>12
<1>. QED
  BY <1>2, <1>3

\* Recording an approval keeps the invariant when the principal has a mandate.
LEMMA WriteInv ==
  ASSUME IInv, NEW w \in Workers,
         task[w].pc \in {"human_write", "gate_write", "approve"},
         NEW pc \in {"gate_rejected", "batch", "idle"},
         WriteApproval(w), Goto(w, pc),
         UNCHANGED <<savers, rejected, batch, optIn, executed, granted>>,
         pc = "gate_rejected" => task[w].flow \in Gated
  PROVE  IInv'
<1>. USE DEF IInv
<1>1. /\ task[w].pc # "idle"
      /\ task[w] \in Requests
      /\ task[w].flow \in Flows /\ task[w].prop \in Proposals
  BY Busy
<1>2. /\ task' \in [Workers -> Requests \union {Idle}]
      /\ \A v \in Workers \ {w} : task'[v] = task[v]
      /\ task'[w].pc = pc
      /\ pc # "idle" => /\ task'[w].flow  = task[w].flow
                        /\ task'[w].prop  = task[w].prop
                        /\ task'[w].auto  = task[w].auto
                        /\ task'[w].stale = task[w].stale
  BY <1>1, GotoStep DEF PCs
<1>3. /\ PrincipalOf(task[w].flow) \in Principals
      /\ PrincipalOf(task[w].flow) = "auto:experiment" => task[w].flow = "experiment"
      /\ PrincipalOf(task[w].flow) = "auto:agent_mcp"  => task[w].flow = "agent_mcp"
      /\ PrincipalOf(task[w].flow) = "diagnosis_agent"
           => task[w].flow = "diagnosis_approve"
  BY DEF PrincipalOf, Principals
<1>4. approval' = [approval EXCEPT ![task[w].prop] = PrincipalOf(task[w].flow)]
  BY DEF WriteApproval
<1>5. TypeOK'
  BY <1>2, <1>3, <1>4 DEF TypeOK
<1>6. /\ Approved \subseteq Approved'
      /\ task[w].prop \in Approved'
  BY <1>1, <1>3, <1>4 DEF Approved, Principals, TypeOK
<1>7. ExecutedOnlyApproved'
  BY <1>6 DEF ExecutedOnlyApproved
<1>8. AutoNeedsMandate'
  <2>1. task[w].flow = "agent_mcp" => task[w].prop \in granted
    BY DEF AutoMandated, Human
  <2>2. task[w].flow \in Unasked => task[w].flow \in savers[task[w].prop]
    BY <1>1 DEF AutoMandated
  <2>. QED
    BY <1>1, <1>3, <1>4, <2>1, <2>2 DEF AutoNeedsMandate, TypeOK, Unasked
<1>9. WorkersAuthorised'
  BY <1>2, <1>6 DEF WorkersAuthorised
<1>10. AutoMandated'
  BY <1>2 DEF AutoMandated
<1>11. StaleStopped'
  <2>1. task[w].pc = "approve" => task[w].flow \notin Gated \union Human
    BY DEF AutoMandated, Gated, Human
  <2>2. task[w].flow \in Gated \union Human => ~task[w].stale
    BY <2>1 DEF StaleStopped
  <2>. QED
    BY <1>1, <1>2, <2>2 DEF StaleStopped
<1>. QED
  BY <1>5, <1>7, <1>8, <1>9, <1>10, <1>11

LEMMA WritesInv ==
  ASSUME IInv, NEW w \in Workers,
         HumanWrite(w) \/ GateWrite(w) \/ DiagnosisApprove(w)
  PROVE  IInv'
<1>1. /\ task[w].pc \in {"human_write", "gate_write", "approve"}
      /\ task[w].flow \in Flows
  BY Busy DEF HumanWrite, GateWrite, DiagnosisApprove, At, IInv
<1>2. /\ AfterGate(task[w].flow) \in {"batch", "idle"}
      /\ AfterHuman(task[w].flow) \in {"gate_rejected", "batch", "idle"}
      /\ AfterHuman(task[w].flow) = "gate_rejected" => task[w].flow \in Gated
  BY <1>1, NextPc
<1>3. CASE HumanWrite(w)
  BY <1>1, <1>2, <1>3, WriteInv DEF HumanWrite
<1>4. CASE GateWrite(w)
  BY <1>1, <1>2, <1>4, WriteInv DEF GateWrite
<1>5. CASE DiagnosisApprove(w)
  BY <1>1, <1>5, WriteInv DEF DiagnosisApprove
<1>. QED
  BY <1>3, <1>4, <1>5

LEMMA RejectInv ==
  ASSUME IInv, NEW w \in Workers, Reject(w)
  PROVE  IInv'
<1>. USE DEF IInv
<1>1. /\ task[w].pc # "idle"
      /\ task[w].prop \in Proposals
      /\ rejected' = rejected \union {task[w].prop}
      /\ UNCHANGED <<savers, approval, batch, optIn, executed, granted>>
  BY Busy DEF Reject, At
<1>2. /\ task' \in [Workers -> Requests \union {Idle}]
      /\ \A v \in Workers \ {w} : task'[v] = task[v]
      /\ task'[w].pc = "idle"
  BY <1>1, GotoStep DEF Reject
<1>3. TypeOK'
  BY <1>1, <1>2 DEF TypeOK
<1>4. ExecutedOnlyApproved' /\ Approved' = Approved
  BY <1>1 DEF ExecutedOnlyApproved, Approved
<1>5. AutoNeedsMandate'
  BY <1>1 DEF AutoNeedsMandate
<1>6. WorkersAuthorised'
  BY <1>2, <1>4 DEF WorkersAuthorised
<1>7. AutoMandated'
  BY <1>1, <1>2 DEF AutoMandated
<1>8. StaleStopped'
  BY <1>1, <1>2 DEF StaleStopped
<1>. QED
  BY <1>3, <1>4, <1>5, <1>6, <1>7, <1>8

LEMMA WriteBatchConfigInv ==
  ASSUME IInv, NEW w \in Workers, WriteBatchConfig(w)
  PROVE  IInv'
<1>. USE DEF IInv
<1>. DEFINE pc == AfterBatch(task[w].flow)
<1>1. /\ task[w].pc = "batch"
      /\ task[w].prop \in Proposals
      /\ task[w].prop \in Approved
      /\ task[w].flow \in Flows
      /\ batch' = batch \union {task[w].prop}
      /\ Goto(w, pc)
      /\ UNCHANGED <<savers, approval, rejected, optIn, executed, granted>>
  BY Busy DEF WriteBatchConfig, At, WorkersAuthorised
<1>2. pc \in {"run", "idle"}
  BY <1>1, NextPc
<1>. HIDE DEF pc
<1>3. /\ task' \in [Workers -> Requests \union {Idle}]
      /\ \A v \in Workers \ {w} : task'[v] = task[v]
      /\ task'[w].pc = pc
      /\ pc # "idle" => /\ task'[w].flow  = task[w].flow
                        /\ task'[w].prop  = task[w].prop
                        /\ task'[w].auto  = task[w].auto
                        /\ task'[w].stale = task[w].stale
  BY <1>1, <1>2, GotoStep DEF PCs
<1>4. TypeOK'
  BY <1>1, <1>3 DEF TypeOK
<1>5. ExecutedOnlyApproved' /\ Approved' = Approved
  BY <1>1 DEF ExecutedOnlyApproved, Approved
<1>6. AutoNeedsMandate'
  BY <1>1 DEF AutoNeedsMandate
<1>7. WorkersAuthorised'
  BY <1>1, <1>3, <1>5 DEF WorkersAuthorised
<1>8. AutoMandated'
  BY <1>1, <1>2, <1>3 DEF AutoMandated
<1>9. StaleStopped'
  BY <1>1, <1>2, <1>3 DEF StaleStopped
<1>. QED
  BY <1>4, <1>5, <1>6, <1>7, <1>8, <1>9

LEMMA RunEntryInv ==
  ASSUME IInv, NEW w \in Workers, RunEntry(w)
  PROVE  IInv'
<1>. USE DEF IInv
<1>1. /\ task[w].prop \in Proposals
      /\ task[w].prop \in Approved
      /\ executed' = executed \union {task[w].prop}
      /\ UNCHANGED <<savers, approval, rejected, batch, optIn, task, granted>>
  BY Busy DEF RunEntry, At, WorkersAuthorised, store
<1>2. TypeOK' /\ ExecutedOnlyApproved'
  BY <1>1 DEF TypeOK, ExecutedOnlyApproved, Approved
<1>3. AutoNeedsMandate' /\ WorkersAuthorised'
  BY <1>1 DEF AutoNeedsMandate, WorkersAuthorised, Approved
<1>4. AutoMandated' /\ StaleStopped'
  BY <1>1 DEF AutoMandated, StaleStopped
<1>. QED
  BY <1>2, <1>3, <1>4

LEMMA ToggleOptInInv ==
  ASSUME IInv, ToggleOptIn
  PROVE  IInv'
<1>. USE DEF IInv
<1>1. /\ optIn' \in BOOLEAN
      /\ granted \subseteq granted' /\ granted' \subseteq Proposals
  BY DEF ToggleOptIn, ServedTo, TypeOK
<1>2. UNCHANGED <<savers, approval, rejected, batch, task, executed>>
  BY DEF ToggleOptIn, store
<1>3. ASSUME NEW w \in Workers, task[w].pc # "idle",
             task[w].flow = "agent_mcp", optIn'
      PROVE  task[w].prop \in granted'
  BY <1>3, Busy DEF ToggleOptIn, ServedTo, At, TypeOK
<1>4. TypeOK' /\ ExecutedOnlyApproved'
  BY <1>1, <1>2 DEF TypeOK, ExecutedOnlyApproved, Approved
<1>5. AutoNeedsMandate' /\ WorkersAuthorised'
  BY <1>1, <1>2 DEF AutoNeedsMandate, WorkersAuthorised, Approved
<1>6. AutoMandated' /\ StaleStopped'
  BY <1>1, <1>2, <1>3 DEF AutoMandated, StaleStopped
<1>. QED
  BY <1>4, <1>5, <1>6
-----------------------------------------------------------------------------
LEMMA NextIInv == IInv /\ [Next]_vars => IInv'
<1>. SUFFICES ASSUME IInv, [Next]_vars PROVE IInv'
  OBVIOUS
<1>1. ASSUME NEW w \in Workers, NEW f \in Flows, NEW p \in Proposals,
             Save(w, f, p) \/ Request(w, f, p)
      PROVE  IInv'
  BY <1>1, SaveInv, RequestInv
<1>2. ASSUME NEW w \in Workers,
             \/ HumanCheckRejected(w) \/ HumanCheckApproved(w)
             \/ GateCheckRejected(w)  \/ GateCheckApproved(w)
      PROVE  IInv'
  BY <1>2, HumanCheckRejectedInv, HumanCheckApprovedInv,
     GateCheckRejectedInv, GateCheckApprovedInv
<1>3. ASSUME NEW w \in Workers,
             HumanWrite(w) \/ GateWrite(w) \/ DiagnosisApprove(w)
      PROVE  IInv'
  BY <1>3, WritesInv
<1>4. ASSUME NEW w \in Workers,
             Reject(w) \/ WriteBatchConfig(w) \/ RunEntry(w) \/ Finish(w)
      PROVE  IInv'
  BY <1>4, RejectInv, WriteBatchConfigInv, RunEntryInv, FinishInv
<1>5. CASE ToggleOptIn
  BY <1>5, ToggleOptInInv
<1>6. CASE UNCHANGED vars
  BY <1>6 DEF vars, store, IInv, TypeOK, ExecutedOnlyApproved,
     AutoNeedsMandate, WorkersAuthorised, AutoMandated, StaleStopped, Approved, At
<1>. QED
  BY <1>1, <1>2, <1>3, <1>4, <1>5, <1>6 DEF Next, Step

\* The strengthened invariant holds in every reachable state.
THEOREM IInvHolds == Spec => []IInv
<1>1. Init => IInv
  BY InitIInv
<1>2. IInv /\ [Next]_vars => IInv'
  BY NextIInv
<1>. QED
  BY <1>1, <1>2, PTL DEF Spec

\* Every variable keeps its type: the files of a proposal are written by the
\* principals, and each worker serves a request it can step through.
THEOREM TypeCorrect == Spec => []TypeOK
<1>1. IInv => TypeOK
  BY DEF IInv
<1>. QED
  BY <1>1, IInvHolds, PTL

\* Nothing is trained and no batch configuration is written without an
\* approval record, for any number of proposals and of concurrent requests.
THEOREM NeverUnapproved == Spec => []ExecutedOnlyApproved
<1>1. IInv => ExecutedOnlyApproved
  BY DEF IInv
<1>. QED
  BY <1>1, IInvHolds, PTL

\* A request that comes in after the rejection of its proposal does not get
\* past the gate.
THEOREM RejectionHolds == Spec => []RejectionStopsGate
<1>1. IInv => RejectionStopsGate
  BY DEF IInv, StaleStopped, RejectionStopsGate, At
<1>. QED
  BY <1>1, IInvHolds, PTL

\* An approval that no person gave is recorded under a mandate only: by a flow
\* that saved under that id, an agent's with the opt-in on during its request.
THEOREM AutoMandate == Spec => []AutoNeedsMandate
<1>1. IInv => AutoNeedsMandate
  BY DEF IInv
<1>. QED
  BY <1>1, IInvHolds, PTL
-----------------------------------------------------------------------------
\* A step of the gate is a step of the ledger of decisions, or none.
LEMMA StepImplementsLedger ==
  IInv /\ [Next]_vars => [Ledger!Next]_(Ledger!ledger)
<1>. SUFFICES ASSUME IInv, [Next]_vars
              PROVE  [Ledger!Next]_(Ledger!ledger)
  OBVIOUS
<1>. USE DEF Ledger!ledger, Ledger!Next, Approved
<1>1. ASSUME NEW w \in Workers,
             HumanWrite(w) \/ GateWrite(w) \/ DiagnosisApprove(w)
      PROVE  Ledger!Next
  <2>1. task[w].prop \in Proposals
    BY <1>1, Busy DEF HumanWrite, GateWrite, DiagnosisApprove, At, IInv
  <2>2. PrincipalOf(task[w].flow) # "none"
    BY DEF PrincipalOf
  <2>3. Approved' = Approved \union {task[w].prop}
    BY <1>1, <2>1, <2>2
    DEF HumanWrite, GateWrite, DiagnosisApprove, WriteApproval, IInv, TypeOK
  <2>4. UNCHANGED <<rejected, executed>>
    BY <1>1 DEF HumanWrite, GateWrite, DiagnosisApprove
  <2>. QED
    BY <2>1, <2>3, <2>4 DEF Ledger!Approve
<1>2. ASSUME NEW w \in Workers, Reject(w)
      PROVE  Ledger!Next
  <2>1. task[w].prop \in Proposals
    BY <1>2, Busy DEF Reject, At, IInv
  <2>2. Ledger!Reject(task[w].prop)
    BY <1>2 DEF Ledger!Reject, Reject
  <2>. QED
    BY <2>1, <2>2
<1>3. ASSUME NEW w \in Workers, RunEntry(w)
      PROVE  Ledger!Next
  <2>1. task[w].prop \in Approved /\ task[w].prop \in Proposals
    BY <1>3, Busy DEF RunEntry, At, IInv, WorkersAuthorised
  <2>2. Ledger!Execute(task[w].prop)
    BY <1>3, <2>1 DEF Ledger!Execute, RunEntry, store
  <2>. QED
    BY <2>1, <2>2
<1>4. ASSUME NEW w \in Workers, NEW f \in Flows, NEW p \in Proposals,
             Save(w, f, p) \/ Request(w, f, p)
      PROVE  UNCHANGED Ledger!ledger
  BY <1>4 DEF Save, Request, store
<1>5. ASSUME NEW w \in Workers,
             \/ HumanCheckRejected(w) \/ HumanCheckApproved(w)
             \/ GateCheckRejected(w)  \/ GateCheckApproved(w)
             \/ WriteBatchConfig(w)   \/ Finish(w)
      PROVE  UNCHANGED Ledger!ledger
  BY <1>5 DEF HumanCheckRejected, HumanCheckApproved, GateCheckRejected,
     GateCheckApproved, WriteBatchConfig, Finish, store
<1>6. CASE ToggleOptIn \/ UNCHANGED vars
  BY <1>6 DEF ToggleOptIn, vars, store
<1>. QED
  BY <1>1, <1>2, <1>3, <1>4, <1>5, <1>6 DEF Next, Step

\* The gate, with every flow that decides on a proposal or trains one,
\* implements the ledger: no decision is withdrawn, no execution precedes the
\* approval of its proposal.
THEOREM ImplementsLedger == Spec => LedgerSpec
<1>1. Init => Ledger!Init
  BY DEF Init, Ledger!Init, Approved
<1>. QED
  BY <1>1, StepImplementsLedger, IInvHolds, PTL
  DEF Spec, LedgerSpec, Ledger!Spec
=============================================================================
