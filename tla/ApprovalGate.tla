---------------------------- MODULE ApprovalGate ----------------------------
(***************************************************************************)
(* The approval gate of thelab/agents/approval.py over the proposal store  *)
(* of thelab/agents/worker.py, with every endpoint, command, job and agent *)
(* of the repository that decides on a proposal or trains one.             *)
(*                                                                         *)
(* A proposal is a set of files: proposals/<id>.json, <id>.approved.json,  *)
(* <id>.rejected.json and <id>.batch.json.  Nothing locks them: a request  *)
(* is served by a thread of the web server's pool, by a job, by a command  *)
(* line process or by an MCP server process, and each of its file system   *)
(* calls is a step of its own here.  A worker is one such thread or        *)
(* process, serving one request at a time.                                 *)
(***************************************************************************)
EXTENDS Naturals

CONSTANTS Proposals,   \* proposal ids
          Workers      \* threads and processes serving requests

(***************************************************************************)
(* A flow is a kind of request, and the steps it takes in order:           *)
(*   human   record_human_approval       gate  ensure_executable           *)
(*   approve ProposalStore.approve called directly, without the gate       *)
(*   batch   write_batch_config          run   BatchRunner.run             *)
(***************************************************************************)
Creating  == {"propose", "experiment", "agent_mcp", "round",
              "diagnosis_approve", "diagnosis_reject"}
Human     == {"ui_approve", "ui_approve_run", "cli_approve", "cli_approve_run",
              "ui_execute", "round_approve", "continue_journey"}
Gated     == {"experiment", "agent_mcp", "round", "execute", "ui_execute",
              "round_approve", "continue_journey"}
Rejecting == {"ui_reject", "cli_reject", "round_reject", "diagnosis_reject"}
Batching  == {"ui_approve_run", "cli_approve", "cli_approve_run", "ui_execute",
              "round_approve", "continue_journey", "execute", "experiment",
              "agent_mcp", "diagnosis_approve"}
Running   == {"ui_approve_run", "cli_approve_run", "ui_execute",
              "round_approve", "continue_journey", "execute", "experiment",
              "agent_mcp", "run_batch"}
Flows     == Creating \union Human \union Gated \union Rejecting
               \union Batching \union Running

\* Flows that act on the proposal of an agentic round, found in the plan of
\* its experiment.
OfRound == {"round_approve", "round_reject", "continue_journey"}

Principals == {"ui", "cli", "agent_mcp", "diagnosis_agent",
               "auto:experiment", "auto:agent_mcp"}

\* Who an approval recorded by flow f is attributed to.
PrincipalOf(f) ==
  CASE f \in {"cli_approve", "cli_approve_run"} -> "cli"
    [] f = "continue_journey"                   -> "agent_mcp"
    [] f = "diagnosis_approve"                  -> "diagnosis_agent"
    [] f = "experiment"                         -> "auto:experiment"
    [] f = "agent_mcp"                          -> "auto:agent_mcp"
    [] OTHER                                    -> "ui"

PCs == {"human_rejected", "human_approved", "human_write",
        "gate_rejected", "gate_approved", "gate_write",
        "approve", "reject", "batch", "run"}

VARIABLES
  savers,    \* p -> the flows that have saved proposals/p.json
  approval,  \* p -> the principal in p.approved.json, or "none"
  rejected,  \* proposals with a p.rejected.json
  batch,     \* proposals with a p.batch.json
  optIn,     \* the operator's auto-approve opt-in is on
  task,      \* w -> the request the worker serves
  executed,  \* history: proposals some entry was trained for
  granted    \* history: proposals an agent_mcp request was at work on while
             \* the opt-in was on

store == <<savers, approval, rejected, batch>>
vars  == <<store, optIn, task, executed, granted>>

\* pc: next step; auto: allow_auto, read when the gate is entered; stale
\* (history): the proposal was already rejected when the request came in.
Requests == [pc: PCs, flow: Flows, prop: Proposals,
             auto: BOOLEAN, stale: BOOLEAN]

Idle == [pc |-> "idle"]

TypeOK ==
  /\ savers   \in [Proposals -> SUBSET Creating]
  /\ approval \in [Proposals -> Principals \union {"none"}]
  /\ rejected \in SUBSET Proposals
  /\ batch    \in SUBSET Proposals
  /\ optIn    \in BOOLEAN
  /\ granted  \in SUBSET Proposals
  /\ task     \in [Workers -> Requests \union {Idle}]
  /\ executed \in SUBSET Proposals

Init ==
  /\ savers   = [p \in Proposals |-> {}]
  /\ approval = [p \in Proposals |-> "none"]
  /\ rejected = {}
  /\ batch    = {}
  /\ optIn    = FALSE
  /\ granted  = {}
  /\ task     = [w \in Workers |-> Idle]
  /\ executed = {}
-----------------------------------------------------------------------------
At(w, pc) == task[w].pc = pc

Goto(w, pc) ==
  task' = [task EXCEPT ![w] = IF pc = "idle" THEN Idle ELSE [@ EXCEPT !.pc = pc]]

\* The step that follows the approval, the gate and the batch configuration.
AfterBatch(f) == IF f \in Running THEN "run" ELSE "idle"
AfterGate(f)  == IF f \in Batching THEN "batch" ELSE "idle"
AfterHuman(f) == IF f \in Gated THEN "gate_rejected" ELSE AfterGate(f)

FirstPc(f) ==
  CASE f \in Human             -> "human_rejected"
    [] f \in Gated             -> "gate_rejected"
    [] f \in Rejecting         -> "reject"
    [] f = "diagnosis_approve" -> "approve"
    [] f = "run_batch"         -> "run"
    [] OTHER                   -> "idle"

Serve(w, f, p) ==
  /\ At(w, "idle")
  /\ task' = [task EXCEPT ![w] =
       IF FirstPc(f) = "idle" THEN Idle
       ELSE [pc |-> FirstPc(f), flow |-> f, prop |-> p,
             auto |-> FALSE, stale |-> p \in rejected]]

\* run_agentic_round saves its proposal under a fresh id, which no file of
\* the store carries yet.  WorkerAgent.propose, which every other flow calls,
\* keeps the id that the provider's answer names: it may replace a proposal
\* that is there, and the records about that one stay.
Save(w, f, p) ==
  /\ f \in Creating
  /\ f = "round" => savers[p] = {} /\ p \notin rejected
  /\ savers' = [savers EXCEPT ![p] = @ \union {f}]
  /\ granted' = granted \union {q \in {p} : f = "agent_mcp" /\ optIn}
  /\ Serve(w, f, p)
  /\ UNCHANGED <<approval, rejected, batch, optIn, executed>>

\* Every other request names a proposal.  All of them check that its file
\* exists, except the reject command; `run batch` reads the batch file.
Request(w, f, p) ==
  /\ f \in Flows \ Creating
  /\ f \notin {"cli_reject", "run_batch"} => savers[p] # {}
  /\ f \in OfRound => "round" \in savers[p]
  /\ f = "run_batch" => p \in batch
  /\ Serve(w, f, p)
  /\ UNCHANGED <<store, optIn, executed, granted>>
-----------------------------------------------------------------------------
\* Mutant of HumanCheckRejected: an approved proposal passes before the
\* rejection is looked at.
HumanApprovedFirst(w) ==
  /\ At(w, "human_rejected")
  /\ Goto(w, IF task[w].prop \in rejected /\ approval[task[w].prop] = "none"
             THEN "idle" ELSE "human_approved")
  /\ UNCHANGED <<store, optIn, executed, granted>>

\* record_human_approval: is_rejected, is_approved, approve.
HumanCheckRejected(w) ==
  /\ At(w, "human_rejected")
  /\ Goto(w, IF task[w].prop \in rejected THEN "idle" ELSE "human_approved")
  /\ UNCHANGED <<store, optIn, executed, granted>>

HumanCheckApproved(w) ==
  /\ At(w, "human_approved")
  /\ Goto(w, IF approval[task[w].prop] # "none" THEN AfterHuman(task[w].flow)
             ELSE "human_write")
  /\ UNCHANGED <<store, optIn, executed, granted>>

\* ProposalStore.approve overwrites whatever record is there.
WriteApproval(w) ==
  approval' = [approval EXCEPT ![task[w].prop] = PrincipalOf(task[w].flow)]

HumanWrite(w) ==
  /\ At(w, "human_write")
  /\ WriteApproval(w)
  /\ Goto(w, AfterHuman(task[w].flow))
  /\ UNCHANGED <<savers, rejected, batch, optIn, executed, granted>>

\* Mutant of AllowAuto: the agent's opt-in is not asked for.
AllowAutoAgents(f) == f \in {"experiment", "agent_mcp"}

\* ensure_executable: the caller's allow_auto is read, then is_rejected,
\* is_approved, and approve or HumanApprovalRequired.
AllowAuto(f) ==
  \/ f = "experiment"
  \/ f = "agent_mcp" /\ optIn

GateCheckRejected(w) ==
  /\ At(w, "gate_rejected")
  /\ task' = [task EXCEPT ![w] =
       IF @.prop \in rejected THEN Idle
       ELSE [@ EXCEPT !.pc = "gate_approved", !.auto = AllowAuto(task[w].flow)]]
  /\ UNCHANGED <<store, optIn, executed, granted>>

\* Mutant of GateCheckApproved: HumanApprovalRequired is not raised.
GateNeverRefuses(w) ==
  /\ At(w, "gate_approved")
  /\ Goto(w, IF approval[task[w].prop] = "none" /\ task[w].auto
             THEN "gate_write" ELSE AfterGate(task[w].flow))
  /\ UNCHANGED <<store, optIn, executed, granted>>

GateCheckApproved(w) ==
  /\ At(w, "gate_approved")
  /\ Goto(w, IF approval[task[w].prop] # "none" THEN AfterGate(task[w].flow)
             ELSE IF task[w].auto THEN "gate_write"
             ELSE "idle")
  /\ UNCHANGED <<store, optIn, executed, granted>>

GateWrite(w) ==
  /\ At(w, "gate_write")
  /\ WriteApproval(w)
  /\ Goto(w, AfterGate(task[w].flow))
  /\ UNCHANGED <<savers, rejected, batch, optIn, executed, granted>>
-----------------------------------------------------------------------------
\* DiagnosisAgent.handle approves its own proposal, past the gate.
DiagnosisApprove(w) ==
  /\ At(w, "approve")
  /\ WriteApproval(w)
  /\ Goto(w, "batch")
  /\ UNCHANGED <<savers, rejected, batch, optIn, executed, granted>>

\* Mutant of Reject: the approval record is withdrawn.
RejectWithdraws(w) ==
  /\ At(w, "reject")
  /\ rejected' = rejected \union {task[w].prop}
  /\ approval' = [approval EXCEPT ![task[w].prop] = "none"]
  /\ Goto(w, "idle")
  /\ UNCHANGED <<savers, batch, optIn, executed, granted>>

\* ProposalStore.reject: no caller looks at the approval record first.
Reject(w) ==
  /\ At(w, "reject")
  /\ rejected' = rejected \union {task[w].prop}
  /\ Goto(w, "idle")
  /\ UNCHANGED <<savers, approval, batch, optIn, executed, granted>>

WriteBatchConfig(w) ==
  /\ At(w, "batch")
  /\ batch' = batch \union {task[w].prop}
  /\ Goto(w, AfterBatch(task[w].flow))
  /\ UNCHANGED <<savers, approval, rejected, optIn, executed, granted>>

\* BatchRunner.run trains the entries one after the other, and never looks at
\* the records of the proposal they came from.
RunEntry(w) ==
  /\ At(w, "run")
  /\ executed' = executed \union {task[w].prop}
  /\ UNCHANGED <<store, optIn, task, granted>>

\* The batch is through, was cancelled between two entries, or the request
\* ends early: an exception, or the end of the process that serves it.
Finish(w) ==
  /\ ~At(w, "idle")
  /\ Goto(w, "idle")
  /\ UNCHANGED <<store, optIn, executed, granted>>

\* The proposals that some request of flow f is at work on.
ServedTo(f) ==
  {p \in Proposals : \E w \in Workers :
     ~At(w, "idle") /\ task[w].flow = f /\ task[w].prop = p}

\* The operator sets THELAB_AUTO_APPROVE or edits .thelab/auto-approve.json.
ToggleOptIn ==
  /\ optIn'   = ~optIn
  /\ granted' = IF optIn THEN granted ELSE granted \union ServedTo("agent_mcp")
  /\ UNCHANGED <<store, task, executed>>

Step(w) ==
  \/ \E f \in Flows, p \in Proposals : Save(w, f, p) \/ Request(w, f, p)
  \/ HumanCheckRejected(w) \/ HumanCheckApproved(w) \/ HumanWrite(w)
  \/ GateCheckRejected(w)  \/ GateCheckApproved(w)  \/ GateWrite(w)
  \/ DiagnosisApprove(w)   \/ Reject(w)
  \/ WriteBatchConfig(w)   \/ RunEntry(w)           \/ Finish(w)

Next == (\E w \in Workers : Step(w)) \/ ToggleOptIn

Spec == Init /\ [][Next]_vars
-----------------------------------------------------------------------------
Approved == {p \in Proposals : approval[p] # "none"}

\* Nothing is trained, and no batch configuration is written, for a proposal
\* without an approval record, whichever of the flows is at work and however
\* they interleave (approval.py: every path to training goes by the gate).
ExecutedOnlyApproved ==
  /\ batch \subseteq Approved
  /\ executed \subseteq Approved

\* A request that comes in once a proposal is rejected never trains it through
\* the gate, even when the proposal was approved before it was rejected
\* (approval.py:94 and :114, is_rejected comes first).
RejectionStopsGate ==
  \A w \in Workers :
    At(w, "run") /\ task[w].flow \in Gated \union Human => ~task[w].stale

\* A record that no person gave is there only if the flow it names has itself
\* saved a proposal under that id, and an agent's automatic one only if the
\* operator's opt-in was on at some time while a request of agent_mcp was at
\* work on it, however long ago the request read it; so a round's proposal
\* that nobody replaced is never approved but by a person (approval.py:7-15).
AutoNeedsMandate ==
  \A p \in Proposals :
    /\ approval[p] = "auto:experiment" => "experiment" \in savers[p]
    /\ approval[p] = "diagnosis_agent" => "diagnosis_approve" \in savers[p]
    /\ approval[p] = "auto:agent_mcp"  => /\ "agent_mcp" \in savers[p]
                                          /\ p \in granted

\* The gate and the flows around it implement the ledger of decisions: no
\* record is ever withdrawn and every execution follows an approval.
Ledger == INSTANCE ApprovalLedger WITH approved <- Approved

LedgerSpec == Ledger!Spec

=============================================================================
