---------------------------- MODULE PlanLifecycle ----------------------------
(***************************************************************************)
(* The plan lifecycle of agent_core/plan_executor.py: operating-system     *)
(* processes, each running one command (plan.approve or plan.execute), on  *)
(* the shared plan store, the shared workspace and the shared token file.  *)
(*                                                                         *)
(* Processes interleave at every file operation that another process can   *)
(* see.  pc[t] is the place where process t is in its command; "idle" is a *)
(* process slot with no command.  The pc values of a command are, in the   *)
(* order in which it goes through them:                                    *)
(*                                                                         *)
(*   approve   gate, mark, copy, rename, unlink, print, meta               *)
(*   execute   drift, lock, fill, begin,                                   *)
(*             then for each step: step, token, snap, validate, effect,    *)
(*             then: undo, summary, terminal, tail, envelope, report       *)
(***************************************************************************)
EXTENDS PlanStore

CONSTANTS
    Disk0,        \* the workspace at the start
    OutsideEdits, \* what somebody else may write: pairs of a path and contents
    MaxSubmits,   \* bound: submissions of one plan
    MaxEdits,     \* bound: edits of the workspace from outside the agent
    MaxCrashes,   \* bound: processes killed while they run a command
    MaxFaults     \* bound: I/O operations that raise

ASSUME BoundsAreNaturals ==
    /\ Disk0 \in Tree
    /\ OutsideEdits \subseteq Path \X Contents
    /\ {MaxSubmits, MaxEdits, MaxCrashes, MaxFaults} \subseteq Nat

VARIABLES
    ws,         \* the workspace
    tokens,     \* the processes whose newest token is in the token file
    view,       \* what issue_token has read from the token file
    pc, job,    \* where each process is, and the plan of its command
    mem,        \* the local variables of each command
    edits, crashes, faults,     \* how much of each bound is used
    submits, approvals, starts, \* history: of each plan, how often it was
                                \* submitted, approved and set IN_FLIGHT
    base        \* history: the workspace when the plan became IN_FLIGHT

tokenFile == <<tokens, view>>
command == <<pc, job, mem>>
budget == <<edits, crashes, faults>>
history == <<submits, approvals, starts, base>>
vars == <<store, ws, tokenFile, command, budget, history>>

ApprovePoints == {"gate", "mark", "copy", "rename", "unlink", "print", "meta"}
PreflightPoints == {"drift", "lock", "fill", "begin"}
StepPoints == {"step", "token", "snap", "validate", "effect"}
FinishPoints == {"undo", "summary", "terminal", "tail", "envelope", "report"}

\* The part of execute_plan inside its try and except blocks.
TryPoints == StepPoints \cup FinishPoints

Points == {"idle"} \cup ApprovePoints \cup PreflightPoints \cup TryPoints

\* The locals of a command: the step results and snapshots so far, the
\* snapshots still to be restored, the status, whether the except block runs,
\* the fingerprint that an approval is to record, and the paths whose rollback raised.
Memory == [results: Seq(Outcomes), snaps: Seq(Snapshot), undo: SUBSET Nat,
           status: Statuses, handling: BOOLEAN,
           print: Prints \cup {None}, errors: SUBSET Path]

Fresh == [results |-> <<>>, snaps |-> <<>>, undo |-> {}, status |-> "SUCCESS",
          handling |-> FALSE, print |-> None, errors |-> {}]

EnvironmentTypeOK ==
    /\ ws \in Tree
    /\ tokens \in SUBSET Proc
    /\ view \in [Proc -> SUBSET Proc]
    /\ edits \in Nat /\ crashes \in Nat /\ faults \in Nat

CommandTypeOK ==
    /\ pc \in [Proc -> Points]
    /\ job \in [Proc -> Plan \cup {None}]
    /\ mem \in [Proc -> Memory]

HistoryTypeOK ==
    /\ submits \in [Plan -> Nat]
    /\ approvals \in [Plan -> Nat]
    /\ starts \in [Plan -> Nat]
    /\ base \in [Plan -> Tree]

\* Types of the plan store's files, the workspace, the token file and the
\* commands' locals, with the points a command can be at.
TypeOK == StoreTypeOK /\ EnvironmentTypeOK /\ CommandTypeOK /\ HistoryTypeOK

Init ==
    /\ StoreInit
    /\ ws = Disk0
    /\ tokens = {}
    /\ view = [t \in Proc |-> {}]
    /\ pc = [t \in Proc |-> "idle"]
    /\ job = [t \in Proc |-> None]
    /\ mem = [t \in Proc |-> Fresh]
    /\ edits = 0 /\ crashes = 0 /\ faults = 0
    /\ submits = [p \in Plan |-> 0]
    /\ approvals = [p \in Plan |-> 0]
    /\ starts = [p \in Plan |-> 0]
    /\ base = [p \in Plan |-> Disk0]
-----------------------------------------------------------------------------
(* Control of a command.                                                   *)

At(t, point) == pc[t] = point

Goto(t, point) == pc' = [pc EXCEPT ![t] = point] /\ UNCHANGED <<job, mem>>

\* Go to point with the locals changed to m.
GotoWith(t, point, m) ==
    /\ pc' = [pc EXCEPT ![t] = point]
    /\ mem' = [mem EXCEPT ![t] = m]
    /\ UNCHANGED job

\* A command of process t begins at point.
Start(t, p, point) ==
    /\ At(t, "idle")
    /\ pc' = [pc EXCEPT ![t] = point]
    /\ job' = [job EXCEPT ![t] = p]
    /\ mem' = [mem EXCEPT ![t] = Fresh]

\* The command ends: it returns, or its exception reaches the main program.
Stop(t) ==
    /\ pc' = [pc EXCEPT ![t] = "idle"]
    /\ job' = [job EXCEPT ![t] = None]
    /\ mem' = [mem EXCEPT ![t] = Fresh]

\* execute_plan rolls back and then finalizes with the given status.
Rollback(t, status, handling, results) ==
    GotoWith(t, "undo", [mem[t] EXCEPT !.status = status, !.handling = handling,
                                       !.results = results, !.errors = {},
                                       !.undo = Restored(mem[t].snaps)])

\* Mutant: an exception in the except block starts the except block again.
RaiseAgain(t, class, results) == Rollback(t, class, TRUE, results)

\* An exception inside the try block starts the except block, which rolls
\* back and finalizes (again); inside the except block it ends the command.
Raise(t, class, results) ==
    IF mem[t].handling THEN Stop(t) ELSE Rollback(t, class, TRUE, results)
-----------------------------------------------------------------------------
(* plan.submit and plan.approve.                                           *)

Submit(p) ==
    /\ submits[p] < MaxSubmits
    /\ StorePending(p)
    /\ submits' = [submits EXCEPT ![p] = @ + 1]
    /\ UNCHANGED <<ws, tokenFile, command, budget, approvals, starts, base>>

\* load_pending_plan
StartApprove(t, p) ==
    /\ pending[p]
    /\ Start(t, p, "gate")
    /\ UNCHANGED <<store, ws, tokenFile, budget, history>>

\* validate_plan_approval_gate
Gate(t) ==
    /\ At(t, "gate")
    /\ IF GateOpen(job[t], ws) THEN Goto(t, "mark") ELSE Stop(t)
    /\ UNCHANGED <<store, ws, tokenFile, budget, history>>

\* mark_plan_approved: the pending plan is read and a copy is opened
Mark(t) ==
    /\ At(t, "mark")
    /\ IF pending[job[t]]
       THEN OpenTemp(job[t], t) /\ Goto(t, "copy")
       ELSE UNCHANGED store /\ Stop(t)
    /\ UNCHANGED <<ws, tokenFile, budget, history>>

\* Mutant: the copy is renamed before its text is flushed.
CopyUnflushed(t) ==
    /\ At(t, "copy")
    /\ Goto(t, "rename")
    /\ UNCHANGED <<store, ws, tokenFile, budget, history>>

\* _atomic_write_text: the copy is written and closed
Copy(t) ==
    /\ At(t, "copy")
    /\ FillTemp(job[t], t) /\ Goto(t, "rename")
    /\ UNCHANGED <<ws, tokenFile, budget, history>>

\* ... and renamed, unless another approver has renamed it already
Rename(t) ==
    /\ At(t, "rename")
    /\ IF temp[job[t]].text # "none"
       THEN RenameTemp(job[t]) /\ Goto(t, "unlink")
       ELSE UNCHANGED store /\ Stop(t)
    /\ UNCHANGED <<ws, tokenFile, budget, history>>

\* src.unlink(): a second approver that got this far finds nothing to unlink
Unlink(t) ==
    /\ At(t, "unlink")
    /\ IF CanUnlink(job[t])
       THEN RemovePending(job[t]) /\ Goto(t, "print")
       ELSE UNCHANGED store /\ Stop(t)
    /\ UNCHANGED <<ws, tokenFile, budget, history>>

\* compute_workspace_fingerprint
RecordWorkspace(t) ==
    /\ At(t, "print")
    /\ GotoWith(t, "meta", [mem[t] EXCEPT !.print = Fingerprint(ws)])
    /\ UNCHANGED <<store, ws, tokenFile, budget, history>>

\* write_approved_plan_meta
WriteMeta(t) ==
    /\ At(t, "meta")
    /\ PutMeta(job[t], mem[t].print)
    /\ approvals' = [approvals EXCEPT ![job[t]] = @ + 1]
    /\ Stop(t)
    /\ UNCHANGED <<ws, tokenFile, budget, submits, starts, base>>
-----------------------------------------------------------------------------
(* plan.execute: preflight and the execution lock.                         *)

\* Mutant: a plan without metadata has no fingerprint to check.
StartWithoutMeta(t, p) ==
    /\ approved[p].text = "whole"
    /\ Start(t, p, IF meta[p] = None THEN "lock" ELSE "drift")
    /\ UNCHANGED <<store, ws, tokenFile, budget, history>>

\* load_approved_plan, which raises unless the text is whole, and
\* load_approved_plan_meta; neither file ever goes
StartExecute(t, p) ==
    /\ Approved(p)
    /\ Start(t, p, "drift")
    /\ UNCHANGED <<store, ws, tokenFile, budget, history>>

\* _verify_workspace_drift, which reads the metadata once more
CheckDrift(t) ==
    /\ At(t, "drift")
    /\ IF Fingerprint(ws) = meta[job[t]] THEN Goto(t, "lock") ELSE Stop(t)
    /\ UNCHANGED <<store, ws, tokenFile, budget, history>>

\* acquire_execution_lock: O_EXCL creation, or the replay denial
Lock(t) ==
    /\ At(t, "lock")
    /\ IF MarkerFree(job[t])
       THEN PutMarker(job[t], "created") /\ Goto(t, "fill")
       ELSE UNCHANGED store /\ Stop(t)
    /\ UNCHANGED <<ws, tokenFile, budget, history>>

\* the IN_FLIGHT record is written and synced
Fill(t) ==
    /\ At(t, "fill")
    /\ PutMarker(job[t], "IN_FLIGHT")
    /\ Goto(t, "begin")
    /\ starts' = [starts EXCEPT ![job[t]] = @ + 1]
    /\ base' = [base EXCEPT ![job[t]] = ws]
    /\ UNCHANGED <<ws, tokenFile, budget, submits, approvals>>

\* the write raises: the marker is unlinked (if that works) and the command
\* ends
FillFails(t) ==
    /\ At(t, "fill")
    /\ faults < MaxFaults /\ faults' = faults + 1
    /\ \E state \in {"none", "created"} : PutMarker(job[t], state)
    /\ Stop(t)
    /\ UNCHANGED <<ws, tokenFile, edits, crashes, history>>

\* log_event("PLAN_EXECUTION_STARTED"), still outside the try block
Begin(t) ==
    /\ At(t, "begin")
    /\ Goto(t, "step")
    /\ UNCHANGED <<store, ws, tokenFile, budget, history>>
-----------------------------------------------------------------------------
(* The step loop of execute_plan.                                          *)

StepIndex(t) == Len(mem[t].results) + 1
CurrentStep(t) == Steps[job[t]][StepIndex(t)]
MoreSteps(t) == StepIndex(t) <= Len(Steps[job[t]])

\* More than MAX_EXECUTION_SECONDS have passed, checked around every step.
Overrun(t) ==
    /\ At(t, "step")
    /\ Raise(t, "TIME_BUDGET_EXCEEDED", mem[t].results)
    /\ UNCHANGED <<store, ws, tokenFile, budget, history>>

\* issue_token reads the token file.  The previous token of t is dead from
\* here on, wherever it is still stored.
BeginStep(t) ==
    /\ At(t, "step") /\ MoreSteps(t)
    /\ Goto(t, "token")
    /\ tokens' = tokens \ {t}
    /\ view' = [u \in Proc |-> (IF u = t THEN tokens ELSE view[u]) \ {t}]
    /\ UNCHANGED <<store, ws, budget, history>>

\* Mutant: the token is filed under the plan it was issued for.
IssuedForPlan(t) == view[t] \cup {job[t]}

\* What issue_token writes back: all that it has read, and the new token.
IssuedFrom(t) == view[t] \cup {t}

IssueToken(t) ==
    /\ At(t, "token")
    /\ tokens' = IssuedFrom(t)
    /\ view' = [view EXCEPT ![t] = {}]
    /\ Goto(t, IF CurrentStep(t).tool \in MutatingTools THEN "snap" ELSE "validate")
    /\ UNCHANGED <<store, ws, budget, history>>

\* _capture_mutation_snapshot
TakeSnapshot(t) ==
    LET f == CurrentStep(t).path IN
    /\ At(t, "snap")
    /\ GotoWith(t, "validate", [mem[t] EXCEPT !.snaps = Append(@, [path |-> f, content |-> ws[f]])])
    /\ UNCHANGED <<store, ws, tokenFile, budget, history>>

\* A step gave result out.
StepReturns(t, out) ==
    LET results == Append(mem[t].results, out) IN
    CASE out = "raised"  -> Raise(t, "FAILED", mem[t].results)
      [] out = "timeout" -> Raise(t, "TIME_BUDGET_EXCEEDED", results)
      [] OTHER           -> GotoWith(t, "step", [mem[t] EXCEPT !.results = results])

\* validate_token (not asked for a read-only git command) and PolicyEngine
\* (not asked for a test run)
Permitted(t, s) ==
    /\ s.tool # "GIT_READ" => t \in tokens
    /\ s.tool # "TEST_RUN" => s.allowed

Validate(t) ==
    LET s == CurrentStep(t) IN
    /\ At(t, "validate")
    /\ IF Permitted(t, s) THEN Goto(t, "effect") ELSE StepReturns(t, Refusal(s))
    /\ UNCHANGED <<store, ws, tokenFile, budget, history>>

\* the tool itself
RunTool(t) ==
    LET s == CurrentStep(t) IN
    /\ At(t, "effect")
    /\ \E out \in Outcomes, after \in {ws, Written(s, ws)} :
          /\ ToolCall(s, ws, out, after)
          /\ ws' = after
          /\ StepReturns(t, out)
    /\ UNCHANGED <<store, tokenFile, budget, history>>

\* PATCH_APPLY and PATCH_EDIT turn an I/O error on the file into a result; a
\* write that failed half-way has left some other text.
ToolFails(t) ==
    LET s == CurrentStep(t) IN
    /\ At(t, "effect") /\ s.tool \in {"PATCH_APPLY", "PATCH_EDIT"}
    /\ faults < MaxFaults /\ faults' = faults + 1
    /\ StepReturns(t, IF s.tool = "PATCH_APPLY" THEN "rejected" ELSE "denied")
    /\ \/ UNCHANGED ws
       \/ /\ ToolCall(s, ws, "ok", Written(s, ws))
          /\ \E c \in Text : ws' = [ws EXCEPT ![s.path] = c]
    /\ UNCHANGED <<store, tokenFile, edits, crashes, history>>
-----------------------------------------------------------------------------
(* Classification, rollback and _finalize_execution.                       *)

\* Mutant: a run whose results are not a success is finalized as it is.
FinishWithoutRollback(t) ==
    /\ At(t, "step") /\ ~MoreSteps(t)
    /\ GotoWith(t, "summary", [mem[t] EXCEPT !.status = Classify(job[t], mem[t].results)])
    /\ UNCHANGED <<store, ws, tokenFile, budget, history>>

\* Mutant: a successful run goes straight to its terminal state.
FinishWithoutSummary(t) ==
    LET status == Classify(job[t], mem[t].results) IN
    /\ At(t, "step") /\ ~MoreSteps(t)
    /\ IF status = "SUCCESS"
       THEN GotoWith(t, "terminal", [mem[t] EXCEPT !.status = status])
       ELSE Rollback(t, status, FALSE, mem[t].results)
    /\ UNCHANGED <<store, ws, tokenFile, budget, history>>

Finish(t) ==
    LET status == Classify(job[t], mem[t].results) IN
    /\ At(t, "step") /\ ~MoreSteps(t)
    /\ IF status = "SUCCESS"
       THEN GotoWith(t, "summary", [mem[t] EXCEPT !.status = status])
       ELSE Rollback(t, status, FALSE, mem[t].results)
    /\ UNCHANGED <<store, ws, tokenFile, budget, history>>

\* Snapshots are restored in the reverse of the order they were taken in.
NextUndo(t, i) == i \in mem[t].undo /\ \A j \in mem[t].undo : j <= i

UndoPath(t) ==
    /\ At(t, "undo")
    /\ \E i \in DOMAIN mem[t].snaps :
          /\ NextUndo(t, i)
          /\ ws' = [ws EXCEPT ![mem[t].snaps[i].path] = mem[t].snaps[i].content]
          /\ GotoWith(t, "undo", [mem[t] EXCEPT !.undo = @ \ {i}])
    /\ UNCHANGED <<store, tokenFile, budget, history>>

\* restoring one path raises: it is reported and the rollback goes on.  Where
\* text was to be written back, the write may have left some other text.
UndoFails(t) ==
    /\ At(t, "undo")
    /\ faults < MaxFaults /\ faults' = faults + 1
    /\ \E i \in DOMAIN mem[t].snaps :
          LET snap == mem[t].snaps[i] IN
          /\ NextUndo(t, i)
          /\ GotoWith(t, "undo", [mem[t] EXCEPT !.undo = @ \ {i},
                                                !.errors = @ \cup {snap.path}])
          /\ \/ UNCHANGED ws
             \/ /\ snap.content # Absent
                /\ \E c \in Text : ws' = [ws EXCEPT ![snap.path] = c]
    /\ UNCHANGED <<store, tokenFile, edits, crashes, history>>

UndoDone(t) ==
    /\ At(t, "undo") /\ mem[t].undo = {}
    /\ Goto(t, "summary")
    /\ UNCHANGED <<store, ws, tokenFile, budget, history>>

\* write_summary
WriteSummary(t) ==
    /\ At(t, "summary")
    /\ PutSummary(job[t], [status |-> mem[t].status, errors |-> mem[t].errors,
                           failed |-> FailedTests(job[t], mem[t].results)])
    /\ Goto(t, "terminal")
    /\ UNCHANGED <<ws, tokenFile, budget, history>>

TerminalState(status) == IF status = "SUCCESS" THEN "EXECUTED" ELSE "FAILED"

\* Mutant: only a success is recorded in the marker.
WriteOnlySuccess(t) ==
    /\ At(t, "terminal")
    /\ IF mem[t].status = "SUCCESS" /\ CanMove(job[t], "EXECUTED")
       THEN PutMarker(job[t], "EXECUTED") ELSE UNCHANGED store
    /\ Goto(t, "tail")
    /\ UNCHANGED <<ws, tokenFile, budget, history>>

\* transition_to_executed, transition_to_failed: read the marker, check the
\* transition, replace the marker.  Nobody else writes a marker that exists.
WriteTerminal(t) ==
    LET state == TerminalState(mem[t].status) IN
    /\ At(t, "terminal")
    /\ IF CanMove(job[t], state)
       THEN PutMarker(job[t], state) /\ Goto(t, "tail")
       ELSE UNCHANGED store /\ Raise(t, "FAILED", mem[t].results)
    /\ UNCHANGED <<ws, tokenFile, budget, history>>

\* log_event after the transition; a success returns here
AfterTerminal(t) ==
    /\ At(t, "tail")
    /\ IF mem[t].status = "SUCCESS" THEN Stop(t) ELSE Goto(t, "envelope")
    /\ UNCHANGED <<store, ws, tokenFile, budget, history>>

WriteEnvelope(t) ==
    /\ At(t, "envelope")
    /\ PutEnvelope(job[t], mem[t].status)
    /\ Goto(t, "report")
    /\ UNCHANGED <<ws, tokenFile, budget, history>>

\* the last log events and the strategy proposal; the payload is returned
Report(t) ==
    /\ At(t, "report")
    /\ Stop(t)
    /\ UNCHANGED <<store, ws, tokenFile, budget, history>>
-----------------------------------------------------------------------------
(* The environment.                                                        *)

\* An I/O operation raises: a file that cannot be read or written, or the
\* audit log.  At "effect" the tool may already have changed the workspace
\* (its audit record comes after).  FillFails, ToolFails and UndoFails are the
\* faults that the code handles on the spot.
Fault(t) ==
    /\ pc[t] \notin {"idle", "fill"}
    /\ faults < MaxFaults /\ faults' = faults + 1
    /\ IF pc[t] \in TryPoints THEN Raise(t, "FAILED", mem[t].results) ELSE Stop(t)
    /\ \/ UNCHANGED ws
       \/ /\ At(t, "effect")
          /\ \E out \in Outcomes : ToolCall(CurrentStep(t), ws, out, ws')
    /\ UNCHANGED <<store, tokenFile, edits, crashes, history>>

\* The process is killed (or interrupted: "except Exception" does not catch
\* KeyboardInterrupt).  Files stay as they are.
Crash(t) ==
    /\ ~At(t, "idle")
    /\ crashes < MaxCrashes /\ crashes' = crashes + 1
    /\ Stop(t)
    /\ UNCHANGED <<store, ws, tokenFile, edits, faults, history>>

\* Somebody else changes the workspace.
Edit(f, c) ==
    /\ edits < MaxEdits /\ edits' = edits + 1
    /\ ws[f] # c
    /\ ws' = [ws EXCEPT ![f] = c]
    /\ UNCHANGED <<store, tokenFile, command, crashes, faults, history>>
-----------------------------------------------------------------------------
\* The steps that a process takes by itself once it runs a command.
Continue(t) ==
    \/ Gate(t) \/ Mark(t) \/ Copy(t) \/ Rename(t) \/ Unlink(t) \/ RecordWorkspace(t) \/ WriteMeta(t)
    \/ CheckDrift(t) \/ Lock(t) \/ Fill(t) \/ Begin(t)
    \/ BeginStep(t) \/ IssueToken(t) \/ TakeSnapshot(t) \/ Validate(t) \/ RunTool(t)
    \/ Finish(t) \/ UndoPath(t) \/ UndoDone(t) \/ WriteSummary(t)
    \/ WriteTerminal(t) \/ AfterTerminal(t) \/ WriteEnvelope(t) \/ Report(t)

Next ==
    \/ \E p \in Plan : Submit(p)
    \/ \E t \in Proc, p \in Plan : StartApprove(t, p) \/ StartExecute(t, p)
    \/ \E t \in Proc : Continue(t)
    \/ \E t \in Proc : Overrun(t) \/ FillFails(t) \/ ToolFails(t) \/ UndoFails(t) \/ Fault(t) \/ Crash(t)
    \/ \E e \in OutsideEdits : Edit(e[1], e[2])

Spec == Init /\ [][Next]_vars

\* A process whose command can go on does go on: the operating system runs it.
FairSpec == Spec /\ \A t \in Proc : WF_vars(Continue(t))
-----------------------------------------------------------------------------
(* Safety.                                                                 *)

\* Process t holds the execution lock of its plan: it has created the marker,
\* or it has also written the IN_FLIGHT record.
Locking(t) == pc[t] = "fill"
Executing(t) == pc[t] \in {"begin"} \cup TryPoints
Running(t) == Locking(t) \/ Executing(t)

\* Two processes never execute the same plan at the same time, whatever
\* happens between preflight and lock (execute_plan, acquire_execution_lock).
SingleRunner ==
    \A t, u \in Proc : Running(t) /\ Running(u) /\ job[t] = job[u] => t = u

\* A plan is set IN_FLIGHT at most once in its life: not again after a crash,
\* a failed write of the marker, a re-submission or a re-approval.  This is
\* stricter than docs/execution_state_semantics.md, where a new approval lets a
\* decided plan run again (see DenialsAreReplays).
StartedOnce == \A p \in Plan : starts[p] <= 1

\* The marker tells how far the holder of the lock has come: the inductive
\* invariant behind SingleRunner and StartedOnce.
LockInv ==
    /\ SingleRunner
    /\ StartedOnce
    /\ \A p \in Plan : marker[p] \in {"none", "created"} => starts[p] = 0
    /\ \A t \in Proc : Locking(t) => marker[job[t]] = "created"
    /\ \A t \in Proc : Executing(t) => marker[job[t]] \in {"IN_FLIGHT", "EXECUTED", "FAILED"}

\* What the documentation says of a decided plan: a command that gets as far as
\* the lock is a replay, all approvals of the plan having been used by starts.
\* A rerun after a new approval would not be denied (acquire_execution_lock).
DenialsAreReplays ==
    \A t \in Proc : At(t, "lock") /\ marker[job[t]] \in {"EXECUTED", "FAILED"} =>
        approvals[job[t]] <= starts[job[t]]

\* Every start was paid for by a completed approval: an approver that died
\* before it wrote the metadata has approved nothing.
StartsNeedApproval == \A p \in Plan : starts[p] <= approvals[p]

\* Concurrent approvers of one plan cannot both spend the same submission,
\* and a submission that is still pending is not spent.
ApprovalsSpendSubmissions ==
    \A p \in Plan : approvals[p] + (IF pending[p] THEN 1 ELSE 0) <= submits[p]

\* As long as nobody has died, the file of an approved plan is whole, but for
\* the moment in which another approver, who opened the same temporary file,
\* has still to write it (_atomic_write_text).
ApprovedIsReadable ==
    \A p \in Plan : meta[p] # None /\ crashes = 0 /\ faults = 0 =>
        \/ approved[p].text = "whole"
        \/ \E t \in approved[p].writers : At(t, "copy") /\ job[t] = p

\* A decided plan has a summary, and it tells the same story as the marker,
\* at every moment at which a crash could make them all that is left.  It takes
\* an I/O fault after the decision, handled as a failure of the run, to have a
\* second summary written.
SummaryMatchesMarker ==
    \A p \in Plan : marker[p] \in {"EXECUTED", "FAILED"} /\ faults = 0 =>
        /\ summary[p] # None
        /\ TerminalState(summary[p].status) = marker[p]

\* When a plan fails, the files it names are as they were when it started,
\* except those that its summary reports as not restored (_rollback_mutations).
FailedLeavesNoTrace ==
    [][\A p \in Plan : marker[p] # "FAILED" /\ marker'[p] = "FAILED" =>
          \A f \in Typed(p) \ summary[p].errors : ws[f] = base[p][f]]_vars

\* An executed plan has taken effect as a whole on the files it names.
ExecutedTookEffect ==
    \A p \in Plan : marker[p] = "EXECUTED" =>
        \A f \in Typed(p) : ws[f] = Applied(p, base[p], f)

\* A plan that counts as executed has no failed test in its summary.
ExecutedPassedItsTests ==
    \A p \in Plan : marker[p] = "EXECUTED" => summary[p].failed = 0

\* A plan starts on the workspace whose fingerprint its approval recorded.
StartsOnApprovedWorkspace ==
    [][\A p \in Plan : starts'[p] # starts[p] => Fingerprint(ws) = meta[p]]_vars
-----------------------------------------------------------------------------
(* Refinement.                                                             *)

\* The state flow that a marker stands for: an empty one consumes nothing yet.
markerRecord ==
    [p \in Plan |-> IF marker[p] \in {"none", "created"} THEN "APPROVED" ELSE marker[p]]

Record == INSTANCE ExecutionRecord WITH record <- markerRecord

\* The markers follow the state flow APPROVED, IN_FLIGHT, EXECUTED or FAILED.
ImplementsExecutionRecord == Record!Spec

\* The files of a plan in flight count as they were when it started.
settledTree ==
    LET inFlight(p, f) == marker[p] = "IN_FLIGHT" /\ f \in Typed(p) IN
    [f \in UNION {Typed(p) : p \in Plan} |->
        IF \E p \in Plan : inFlight(p, f) THEN base[CHOOSE p \in Plan : inFlight(p, f)][f] ELSE ws[f]]

\* What has become of a plan.
outcomes ==
    [p \in Plan |-> CASE marker[p] = "EXECUTED" -> "committed"
                      [] marker[p] = "FAILED" -> "aborted"
                      [] OTHER -> "open"]

Transaction == INSTANCE PlanTransaction WITH tree <- settledTree, outcome <- outcomes

\* Executions are all-or-nothing transactions on the files they name.
ImplementsPlanTransaction == Transaction!Spec
-----------------------------------------------------------------------------
(* Liveness.                                                               *)

\* Every command ends, also when I/O raises inside the except block.
CommandsEnd == \A t \in Proc : ~At(t, "idle") ~> At(t, "idle")

\* A plan in flight is decided, unless a crash or an I/O fault strikes.
InFlightIsDecided ==
    \A p \in Plan :
        marker[p] = "IN_FLIGHT" /\ faults = 0 /\ crashes = 0
            ~> marker[p] \in {"EXECUTED", "FAILED"} \/ faults > 0 \/ crashes > 0
=============================================================================
