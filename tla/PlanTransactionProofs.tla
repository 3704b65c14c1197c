------------------------ MODULE PlanTransactionProofs ------------------------
(***************************************************************************)
(* What a run does to the files that its plan names, for every value of    *)
(* the constants: its summary tells the same story as its marker, an       *)
(* executed plan has taken effect, a failed one is undone, and both        *)
(* together make runs transactions.                                        *)
(***************************************************************************)
EXTENDS PlanApprovalProofs, WellFoundedInduction

(***************************************************************************)
(* The kinds of steps, seen from the runs.                                 *)
(***************************************************************************)

\* No command runs on; some may stop, or get as far as the execution lock.
Bystands ==
    /\ UNCHANGED <<ws, base, summary, edits>> /\ faults <= faults'
    /\ \A p \in Plan : marker'[p] = marker[p] \/ {marker[p], marker'[p]} \subseteq {"none", "created"}
    /\ \A u \in Proc : Executing(u)' =>
          Executing(u) /\ pc'[u] = pc[u] /\ job'[u] = job[u] /\ mem'[u] = mem[u]

\* The run of t goes on; what it leaves alone.
GoesOn(t) == Executing(t) /\ UNCHANGED <<base, edits, starts>> /\ faults <= faults'

\* The file of the current step of t is all that changes in the workspace, and
\* not before the tool is called.
Writes(t) ==
    \/ UNCHANGED ws
    \/ At(t, "effect") /\ \E c : ws' = [ws EXCEPT ![CurrentStep(t).path] = c]

\* From one point to the next one, with nothing done.
Passes(t) ==
    /\ GoesOn(t) /\ UNCHANGED <<ws, marker, summary>>
    /\ \/ At(t, "begin") /\ Goto(t, "step")
       \/ At(t, "step") /\ MoreSteps(t) /\ Goto(t, "token")
       \/ At(t, "token") /\ CurrentStep(t).tool \in MutatingTools /\ Goto(t, "snap")
       \/ At(t, "token") /\ CurrentStep(t).tool \notin MutatingTools /\ Goto(t, "validate")
       \/ At(t, "validate") /\ Goto(t, "effect")
       \/ At(t, "tail") /\ Goto(t, "envelope")
       \/ At(t, "envelope") /\ Goto(t, "report")

\* A step returns, refused or performed, and the plan goes on.
Returns(t) ==
    /\ GoesOn(t) /\ UNCHANGED <<marker, summary>> /\ Writes(t)
    /\ \E out \in Outcomes \ {"raised"} :
          /\ GotoWith(t, "step", [mem[t] EXCEPT !.results = Append(@, out)])
          /\ faults' = faults =>
                \/ At(t, "validate") /\ out = Refusal(CurrentStep(t)) /\ UNCHANGED ws
                \/ At(t, "effect") /\ ToolCall(CurrentStep(t), ws, out, ws')
    /\ At(t, "validate") \/ At(t, "effect")

\* The run turns to its rollback.
TurnsBack(t) ==
    /\ GoesOn(t) /\ UNCHANGED <<marker, summary>> /\ Writes(t)
    /\ \E status \in Statuses \ {"SUCCESS"}, handling \in BOOLEAN, results \in Seq(Outcomes) :
          Rollback(t, status, handling, results)
    /\ faults' = faults => pc[t] \in StepPoints \/ (At(t, "terminal") /\ marker[job[t]] # "IN_FLIGHT")

\* The run ends before its time.
BreaksOff(t) == GoesOn(t) /\ UNCHANGED <<marker, summary>> /\ Writes(t) /\ Stop(t)

\* The results are a success.
Succeeds(t) ==
    /\ GoesOn(t) /\ UNCHANGED <<ws, marker, summary>>
    /\ At(t, "step") /\ ~MoreSteps(t) /\ Classify(job[t], mem[t].results) = "SUCCESS"
    /\ GotoWith(t, "summary", [mem[t] EXCEPT !.status = "SUCCESS"])

\* The marker gets its terminal state.
Decides(t) ==
    LET state == TerminalState(mem[t].status) IN
    /\ GoesOn(t) /\ UNCHANGED <<ws, summary>>
    /\ At(t, "terminal") /\ CanMove(job[t], state)
    /\ marker' = [marker EXCEPT ![job[t]] = state]
    /\ Goto(t, "tail")

\* A tool writes no file but that of its step.
LEMMA ToolWrites ==
  ASSUME NEW s, NEW tree, NEW out, NEW after, ToolCall(s, tree, out, after)
  PROVE  after = tree \/ \E c : after = [tree EXCEPT ![s.path] = c]
  BY DEF ToolCall, ApplyPatch, CreateFile, PatchEdit, RunCmd, Written

\* What an exception does to a run.
LEMMA RaiseKinds ==
  ASSUME NEW t \in Proc, NEW class \in Statuses \ {"SUCCESS"}, NEW results \in Seq(Outcomes),
         Raise(t, class, results), GoesOn(t), UNCHANGED <<marker, summary>>, Writes(t),
         faults' = faults => pc[t] \in StepPoints \/ (At(t, "terminal") /\ marker[job[t]] # "IN_FLIGHT")
  PROVE  TurnsBack(t) \/ BreaksOff(t)
<1>1. CASE mem[t].handling
  BY <1>1 DEF Raise, BreaksOff
<1>2. CASE ~mem[t].handling
  <2>1. Rollback(t, class, TRUE, results)
    BY <1>2 DEF Raise
  <2>2. \E status \in Statuses \ {"SUCCESS"}, handling \in BOOLEAN, res \in Seq(Outcomes) :
           Rollback(t, status, handling, res)
    BY <2>1
  <2> QED
    BY <2>2 DEF TurnsBack
<1> QED
  BY <1>1, <1>2

\* What a step of the plan returns: the plan goes on, turns back or breaks off.
LEMMA ReturnKinds ==
  ASSUME TypeInv, NEW t \in Proc, NEW out \in Outcomes, StepReturns(t, out),
         GoesOn(t), UNCHANGED <<marker, summary>>, Writes(t), At(t, "validate") \/ At(t, "effect"),
         faults' = faults =>
            \/ At(t, "validate") /\ out = Refusal(CurrentStep(t)) /\ UNCHANGED ws
            \/ At(t, "effect") /\ ToolCall(CurrentStep(t), ws, out, ws')
  PROVE  Returns(t) \/ TurnsBack(t) \/ BreaksOff(t)
<1>1. pc[t] \in StepPoints
  BY DEF At, StepPoints
<1>2. mem[t].results \in Seq(Outcomes) /\ Append(mem[t].results, out) \in Seq(Outcomes)
  BY DEF TypeInv, TypeOK, CommandTypeOK, Memory
<1>3. ASSUME NEW class \in Statuses \ {"SUCCESS"}, NEW results \in Seq(Outcomes),
             Raise(t, class, results)
      PROVE  TurnsBack(t) \/ BreaksOff(t)
  BY <1>1, <1>3, RaiseKinds
<1>4. CASE out = "raised" \/ out = "timeout"
  BY <1>2, <1>3, <1>4 DEF StepReturns, Statuses
<1>5. CASE out # "raised" /\ out # "timeout"
  <2>1. GotoWith(t, "step", [mem[t] EXCEPT !.results = Append(@, out)]) /\ out \in Outcomes \ {"raised"}
    BY <1>5 DEF StepReturns
  <2>2. \E o \in Outcomes \ {"raised"} :
           /\ GotoWith(t, "step", [mem[t] EXCEPT !.results = Append(@, o)])
           /\ faults' = faults =>
                 \/ At(t, "validate") /\ o = Refusal(CurrentStep(t)) /\ UNCHANGED ws
                 \/ At(t, "effect") /\ ToolCall(CurrentStep(t), ws, o, ws')
    BY <2>1
  <2> QED
    BY <2>2 DEF Returns
<1> QED
  BY <1>4, <1>5

\* The steps that are of one of these kinds, or an action of their own.
RunKinds ==
    \/ Bystands
    \/ \E e \in OutsideEdits : Edit(e[1], e[2])
    \/ \E t \in Proc : \/ Fill(t) \/ Passes(t) \/ TakeSnapshot(t) \/ Returns(t) \/ TurnsBack(t)
                       \/ BreaksOff(t) \/ Succeeds(t) \/ UndoPath(t) \/ UndoFails(t) \/ UndoDone(t)
                       \/ WriteSummary(t) \/ Decides(t)

\* Outside the runs, nothing but the lock happens to markers.
LEMMA OutsideKinds ==
  ASSUME TypeInv, LockInv, NEW t \in Proc,
         \/ \E p \in Plan : StartApprove(t, p) \/ StartExecute(t, p)
         \/ Gate(t) \/ Mark(t) \/ Copy(t) \/ Rename(t) \/ Unlink(t) \/ RecordWorkspace(t)
         \/ WriteMeta(t) \/ CheckDrift(t) \/ Lock(t) \/ FillFails(t) \/ Crash(t)
         \/ (AfterTerminal(t) /\ mem[t].status = "SUCCESS") \/ Report(t)
         \/ (Fault(t) /\ pc[t] \notin TryPoints)
  PROVE  Bystands
<1>c. CommandTypeOK /\ faults \in Nat
  BY DEF TypeInv, TypeOK, EnvironmentTypeOK
<1> USE DEF At, Executing, RunPoints, TryPoints, StepPoints, FinishPoints
<1>1. CASE \E p \in Plan : StartApprove(t, p) \/ StartExecute(t, p)
  BY <1>1, <1>c
     DEF StartApprove, StartExecute, Start, store, budget, history, Bystands, CommandTypeOK
<1>2. CASE Gate(t) \/ Mark(t) \/ Copy(t) \/ Rename(t) \/ Unlink(t) \/ RecordWorkspace(t) \/ WriteMeta(t)
           \/ CheckDrift(t)
  <2>1. UNCHANGED <<ws, base, summary, marker, edits, faults>>
    BY <1>2 DEF Gate, Mark, Copy, Rename, Unlink, RecordWorkspace, WriteMeta, CheckDrift, OpenTemp,
       FillTemp, RenameTemp, RemovePending, PutMeta, store, budget, history
  <2>2. \A u \in Proc : Executing(u)' =>
           Executing(u) /\ pc'[u] = pc[u] /\ job'[u] = job[u] /\ mem'[u] = mem[u]
    BY <1>2, <1>c DEF Gate, Mark, Copy, Rename, Unlink, RecordWorkspace, WriteMeta, CheckDrift,
       Goto, GotoWith, Stop, CommandTypeOK
  <2> QED
    BY <2>1, <2>2, <1>c DEF Bystands
<1>3. CASE Lock(t) \/ FillFails(t)
  <2>1. UNCHANGED <<ws, base, summary, edits>> /\ faults <= faults'
    BY <1>3, <1>c DEF Lock, FillFails, PutMarker, store, budget, history
  <2>2. \A u \in Proc : Executing(u)' =>
           Executing(u) /\ pc'[u] = pc[u] /\ job'[u] = job[u] /\ mem'[u] = mem[u]
    BY <1>3, <1>c DEF Lock, FillFails, Goto, Stop, CommandTypeOK
  <2>3. \A p \in Plan : marker'[p] = marker[p] \/ {marker[p], marker'[p]} \subseteq {"none", "created"}
    <3>1. marker[job[t]] \in {"none", "created"} \/ UNCHANGED marker
      BY <1>3 DEF Lock, MarkerFree, FillFails, LockInv, Locking, store
    <3>2. UNCHANGED marker \/ \E state \in {"none", "created"} : marker' = [marker EXCEPT ![job[t]] = state]
      BY <1>3 DEF Lock, FillFails, PutMarker, store
    <3> QED
      BY <3>1, <3>2 DEF TypeInv, TypeOK, StoreTypeOK
  <2> QED
    BY <2>1, <2>2, <2>3 DEF Bystands
<1>4. CASE Crash(t) \/ (AfterTerminal(t) /\ mem[t].status = "SUCCESS") \/ Report(t)
           \/ (Fault(t) /\ pc[t] \notin TryPoints)
  <2>1. Stop(t) /\ UNCHANGED <<ws, base, summary, marker, edits>> /\ faults <= faults'
    BY <1>4, <1>c DEF Crash, AfterTerminal, Report, Fault, store, budget, history
  <2>2. \A u \in Proc : Executing(u)' =>
           Executing(u) /\ pc'[u] = pc[u] /\ job'[u] = job[u] /\ mem'[u] = mem[u]
    BY <2>1, <1>c DEF Stop, CommandTypeOK
  <2> QED
    BY <2>1, <2>2 DEF Bystands
<1> QED
  BY <1>1, <1>2, <1>3, <1>4

\* Every step is of one of the kinds.
LEMMA RunSteps ==
  ASSUME TypeInv, LockInv, [Next]_vars
  PROVE  RunKinds
<1>c. CommandTypeOK /\ faults \in Nat /\ mem \in [Proc -> Memory]
  BY DEF TypeInv, TypeOK, EnvironmentTypeOK, CommandTypeOK
<1>r. \A t \in Proc : mem[t].results \in Seq(Outcomes)
  BY <1>c DEF Memory
<1>1. ASSUME NEW p \in Plan, Submit(p) PROVE Bystands
  BY <1>1, <1>c DEF Submit, StorePending, command, budget, Bystands, Executing
<1>2. ASSUME UNCHANGED vars PROVE Bystands
  BY <1>2, <1>c DEF vars, store, command, budget, history, Bystands, Executing
<1>3. ASSUME NEW t \in Proc, Begin(t) \/ BeginStep(t) \/ IssueToken(t) \/ WriteEnvelope(t)
                             \/ (AfterTerminal(t) /\ mem[t].status # "SUCCESS")
      PROVE  Passes(t)
  <2>1. GoesOn(t)
    BY <1>3, <1>c DEF Begin, BeginStep, IssueToken, WriteEnvelope, AfterTerminal, budget, history,
       GoesOn, Executing, At, TryPoints, StepPoints, FinishPoints
  <2>2. UNCHANGED <<ws, marker, summary>>
    BY <1>3 DEF Begin, BeginStep, IssueToken, WriteEnvelope, PutEnvelope, AfterTerminal, store
  <2> QED
    BY <1>3, <2>1, <2>2 DEF Begin, BeginStep, IssueToken, WriteEnvelope, AfterTerminal, Passes
<1>4. ASSUME NEW t \in Proc, Validate(t) \/ RunTool(t) \/ ToolFails(t)
      PROVE  Passes(t) \/ Returns(t) \/ TurnsBack(t) \/ BreaksOff(t)
  <2>1. GoesOn(t) /\ UNCHANGED <<marker, summary>>
    BY <1>4, <1>c DEF Validate, RunTool, ToolFails, store, budget, history, GoesOn, Executing, At,
       TryPoints, StepPoints
  <2>2. CASE Validate(t)
    <3>1. At(t, "validate") /\ UNCHANGED ws /\ Refusal(CurrentStep(t)) \in Outcomes
      BY <2>2, RefusalType DEF Validate
    <3>2. Goto(t, "effect") \/ StepReturns(t, Refusal(CurrentStep(t)))
      BY <2>2 DEF Validate
    <3> QED
      BY <2>1, <3>1, <3>2, ReturnKinds DEF Passes, Writes
  <2>3. CASE RunTool(t)
    <3>1. PICK out \in Outcomes : At(t, "effect") /\ ToolCall(CurrentStep(t), ws, out, ws') /\ StepReturns(t, out)
      BY <2>3 DEF RunTool
    <3>2. Writes(t)
      BY <3>1, ToolWrites DEF Writes
    <3> QED
      BY <2>1, <3>1, <3>2, ReturnKinds
  <2>4. CASE ToolFails(t)
    <3>1. PICK out \in Outcomes : StepReturns(t, out)
      BY <2>4 DEF ToolFails, Outcomes
    <3>2. At(t, "effect") /\ Writes(t) /\ faults' = faults + 1
      BY <2>4 DEF ToolFails, Writes
    <3> QED
      BY <2>1, <3>1, <3>2, <1>c, ReturnKinds
  <2> QED
    BY <1>4, <2>2, <2>3, <2>4
<1>5. ASSUME NEW t \in Proc, Overrun(t) PROVE TurnsBack(t) \/ BreaksOff(t)
  <2>1. GoesOn(t) /\ UNCHANGED <<marker, summary, ws>> /\ pc[t] \in StepPoints
    BY <1>5, <1>c DEF Overrun, store, budget, history, GoesOn, Executing, At, TryPoints, StepPoints
  <2> QED
    BY <1>5, <1>r, <2>1, RaiseKinds DEF Overrun, Writes, Statuses
<1>6. ASSUME NEW t \in Proc, Finish(t) PROVE Succeeds(t) \/ TurnsBack(t)
  <2>1. GoesOn(t) /\ UNCHANGED <<marker, summary, ws>> /\ pc[t] \in StepPoints
    BY <1>6, <1>c DEF Finish, store, budget, history, GoesOn, Executing, At, TryPoints, StepPoints
  <2>2. CASE Classify(job[t], mem[t].results) = "SUCCESS"
    BY <1>6, <2>1, <2>2 DEF Finish, Succeeds
  <2>3. CASE Classify(job[t], mem[t].results) # "SUCCESS"
    <3>1. Classify(job[t], mem[t].results) \in Statuses \ {"SUCCESS"}
      BY <2>3, ClassifyType
    <3>2. Rollback(t, Classify(job[t], mem[t].results), FALSE, mem[t].results)
      BY <1>6, <2>3 DEF Finish
    <3>3. \E status \in Statuses \ {"SUCCESS"}, handling \in BOOLEAN, res \in Seq(Outcomes) :
             Rollback(t, status, handling, res)
      BY <1>r, <3>1, <3>2
    <3> QED
      BY <2>1, <3>3 DEF TurnsBack, Writes
  <2> QED
    BY <2>2, <2>3
<1>7. ASSUME NEW t \in Proc, WriteTerminal(t) PROVE Decides(t) \/ TurnsBack(t) \/ BreaksOff(t)
  <2>1. GoesOn(t) /\ UNCHANGED <<summary, ws>>
    BY <1>7, <1>c
       DEF WriteTerminal, PutMarker, store, budget, history, GoesOn, Executing, At, TryPoints,
           FinishPoints
  <2>2. CASE CanMove(job[t], TerminalState(mem[t].status))
    BY <1>7, <2>1, <2>2 DEF WriteTerminal, PutMarker, Decides
  <2>3. CASE ~CanMove(job[t], TerminalState(mem[t].status))
    <3>1. marker[job[t]] # "IN_FLIGHT"
      BY <2>3 DEF CanMove, TerminalState
    <3>2. UNCHANGED marker /\ Raise(t, "FAILED", mem[t].results) /\ At(t, "terminal")
      BY <1>7, <2>3 DEF WriteTerminal, store
    <3> QED
      BY <1>r, <2>1, <3>1, <3>2, RaiseKinds DEF Writes, Statuses
  <2> QED
    BY <2>2, <2>3
<1>8. ASSUME NEW t \in Proc, Fault(t), pc[t] \in TryPoints PROVE TurnsBack(t) \/ BreaksOff(t)
  <2>1. GoesOn(t) /\ UNCHANGED <<marker, summary>> /\ faults' = faults + 1
    BY <1>8, <1>c DEF Fault, store, history, GoesOn, Executing
  <2>2. Writes(t)
    BY <1>8, ToolWrites DEF Fault, Writes
  <2> QED
    BY <1>8, <1>c, <1>r, <2>1, <2>2, RaiseKinds DEF Fault, Statuses
<1>9. ASSUME NEW t \in Proc, Fault(t), pc[t] \notin TryPoints PROVE Bystands
  BY <1>9, OutsideKinds
<1> QED
  BY <1>1, <1>2, <1>3, <1>4, <1>5, <1>6, <1>7, <1>8, <1>9, OutsideKinds DEF Next, Continue, RunKinds
-----------------------------------------------------------------------------
(***************************************************************************)
(* The summary and the marker tell the same story.  As long as no I/O      *)
(* fails, a plan is in flight until its run writes the terminal state, and *)
(* the run has written its summary by then.                                *)
(***************************************************************************)
Undecided == {"begin"} \cup StepPoints \cup {"undo", "summary", "terminal"}

\* The inductive invariant behind SummaryMatchesMarker.
DecisionInv ==
    faults = 0 =>
        /\ \A t \in Proc : pc[t] \in Undecided => marker[job[t]] = "IN_FLIGHT"
        /\ \A t \in Proc : At(t, "terminal") =>
              summary[job[t]] # None /\ summary[job[t]].status = mem[t].status
        /\ SummaryMatchesMarker

\* Two runs are runs of different plans.
LEMMA RunsDiffer ==
  ASSUME LockInv, NEW t \in Proc, NEW u \in Proc \ {t}, Executing(t), Executing(u)
  PROVE  job[t] # job[u]
  BY DEF LockInv, SingleRunner, Running

\* A step that goes on in one run, and writes no marker or summary, keeps it.
LEMMA DecisionGoesOn ==
  ASSUME TypeInv, DecisionInv, NEW t \in Proc, faults = 0, UNCHANGED <<marker, summary>>, NEW point, NEW m,
         GotoWith(t, point, m) \/ Stop(t),
         GotoWith(t, point, m) /\ point \in Undecided => pc[t] \in Undecided,
         GotoWith(t, point, m) => point # "terminal"
  PROVE  DecisionInv'
<1>c. CommandTypeOK
  BY DEF TypeInv, TypeOK
<1>1. \A u \in Proc : pc'[u] \in Undecided => pc[u] \in Undecided /\ job'[u] = job[u]
  BY <1>c DEF GotoWith, Stop, CommandTypeOK, Undecided, StepPoints
<1>2. \A u \in Proc : pc'[u] = "terminal" => pc[u] = "terminal" /\ job'[u] = job[u] /\ mem'[u] = mem[u]
  BY <1>c DEF GotoWith, Stop, CommandTypeOK
<1>3. SummaryMatchesMarker'
  BY DEF DecisionInv, SummaryMatchesMarker
<1> QED
  BY <1>1, <1>2, <1>3 DEF DecisionInv, At

\* Every step keeps the invariant.
LEMMA DecisionStep ==
  ASSUME TypeInv, LockInv, DecisionInv, [Next]_vars
  PROVE  DecisionInv'
<1> USE DEF At
<1>c. CommandTypeOK /\ faults \in Nat /\ faults' \in Nat
      /\ marker \in [Plan -> MarkerStates] /\ summary \in [Plan -> Summary \cup {None}]
  BY TypeStep DEF TypeInv, TypeOK, EnvironmentTypeOK, StoreTypeOK
<1>m. CommandTypeOK => mem \in [Proc -> Memory] /\ pc \in [Proc -> Points]
  BY DEF CommandTypeOK
<1>j. \A t \in Proc : Executing(t) \/ pc[t] = "fill" => job[t] \in Plan
  BY DEF Executing, TryPoints, StepPoints, FinishPoints, TypeInv, Focused
<1>k. RunKinds
  BY RunSteps
<1>u. \A t \in Proc : pc[t] \in Undecided => Executing(t)
  BY DEF Undecided, Executing, TryPoints, FinishPoints
<1> SUFFICES ASSUME faults' = 0 PROVE DecisionInv'
  BY DEF DecisionInv
<1>1. CASE Bystands
  <2>1. faults = 0
    BY <1>1, <1>c DEF Bystands
  <2>2. \A u \in Proc : pc'[u] \in Undecided =>
           /\ pc[u] \in Undecided /\ job'[u] = job[u] /\ mem'[u] = mem[u] /\ pc'[u] = pc[u]
           /\ job[u] \in Plan
    BY <1>1, <1>j DEF Bystands, Executing, Undecided, TryPoints, FinishPoints
  <2>3. \A p \in Plan : marker[p] = "IN_FLIGHT" => marker'[p] = "IN_FLIGHT"
    BY <1>1 DEF Bystands
  <2>4. SummaryMatchesMarker'
    BY <1>1, <2>1 DEF Bystands, DecisionInv, SummaryMatchesMarker
  <2>5. "terminal" \in Undecided /\ UNCHANGED summary
    BY <1>1 DEF Undecided, Bystands
  <2> QED
    BY <2>1, <2>2, <2>3, <2>4, <2>5 DEF DecisionInv
<1>2. ASSUME NEW e \in OutsideEdits, Edit(e[1], e[2]) PROVE DecisionInv'
  BY <1>2 DEF Edit, command, store, DecisionInv, SummaryMatchesMarker
<1>3. ASSUME NEW t \in Proc, Fill(t) PROVE DecisionInv'
  <2>1. /\ faults = 0 /\ marker' = [marker EXCEPT ![job[t]] = "IN_FLIGHT"] /\ UNCHANGED <<summary, job, mem>>
        /\ pc' = [pc EXCEPT ![t] = "begin"] /\ job[t] \in Plan /\ pc[t] = "fill"
    BY <1>3, <1>j DEF Fill, PutMarker, Goto, budget
  <2>2. \A u \in Proc : pc'[u] \in Undecided => u = t \/ pc[u] \in Undecided
    BY <2>1, <1>c DEF CommandTypeOK
  <2>3. \A u \in Proc : pc'[u] \in Undecided => marker'[job[u]] = "IN_FLIGHT"
    BY <2>1, <2>2, <1>c, <1>j, <1>u DEF DecisionInv
  <2>4. SummaryMatchesMarker'
    BY <2>1, <1>c DEF DecisionInv, SummaryMatchesMarker
  <2>5. \A u \in Proc : pc'[u] = "terminal" => pc[u] = "terminal"
    BY <2>1, <1>c DEF CommandTypeOK
  <2> QED
    BY <2>1, <2>3, <2>4, <2>5 DEF DecisionInv
<1>4. ASSUME NEW t \in Proc, Passes(t) PROVE DecisionInv'
  <2>1. faults = 0 /\ UNCHANGED <<marker, summary>>
    BY <1>4, <1>c DEF Passes, GoesOn
  <2>2. PICK point : /\ Goto(t, point) /\ point # "terminal"
                     /\ point \in Undecided => pc[t] \in Undecided
    BY <1>4 DEF Passes, Undecided, StepPoints
  <2>3. GotoWith(t, point, mem[t])
    BY <2>2, <1>c DEF Goto, GotoWith, CommandTypeOK
  <2> QED
    BY <2>1, <2>2, <2>3, DecisionGoesOn
<1>f. ASSUME NEW t \in Proc, UndoFails(t) PROVE FALSE
  BY <1>f, <1>c DEF UndoFails
<1>5. ASSUME NEW t \in Proc, TakeSnapshot(t) \/ UndoPath(t) \/ UndoDone(t)
      PROVE  DecisionInv'
  <2>1. faults = 0 /\ UNCHANGED <<marker, summary>> /\ pc[t] \in Undecided
    BY <1>5, <1>c DEF TakeSnapshot, UndoPath, UndoDone, budget, store, Undecided, StepPoints
  <2>2. \E point, m : GotoWith(t, point, m) /\ point # "terminal"
    <3>1. CASE UndoDone(t)
      <4>1. GotoWith(t, "summary", mem[t])
        BY <3>1, <1>c DEF UndoDone, Goto, GotoWith, CommandTypeOK
      <4> QED
        BY <4>1
    <3>2. CASE TakeSnapshot(t)
      BY <3>2 DEF TakeSnapshot
    <3>3. CASE UndoPath(t)
      BY <3>3 DEF UndoPath
    <3> QED
      BY <1>5, <3>1, <3>2, <3>3
  <2> QED
    BY <2>1, <2>2, DecisionGoesOn
<1>6. ASSUME NEW t \in Proc, Returns(t) PROVE DecisionInv'
  <2>1. faults = 0 /\ UNCHANGED <<marker, summary>> /\ pc[t] \in Undecided
    BY <1>6, <1>c DEF Returns, GoesOn, Undecided, StepPoints
  <2>2. \E m : GotoWith(t, "step", m)
    BY <1>6 DEF Returns
  <2> QED
    BY <2>1, <2>2, DecisionGoesOn
<1>7. ASSUME NEW t \in Proc, TurnsBack(t) PROVE DecisionInv'
  <2>1. faults = 0 /\ faults' = faults /\ UNCHANGED <<marker, summary>>
    BY <1>7, <1>c DEF TurnsBack, GoesOn
  <2>2. pc[t] \in Undecided
    BY <1>7, <2>1 DEF TurnsBack, Undecided
  <2>3. \E m : GotoWith(t, "undo", m)
    BY <1>7 DEF TurnsBack, Rollback
  <2> QED
    BY <2>1, <2>2, <2>3, DecisionGoesOn
<1>8. ASSUME NEW t \in Proc, BreaksOff(t) PROVE DecisionInv'
  <2>1. faults = 0 /\ UNCHANGED <<marker, summary>> /\ Stop(t)
    BY <1>8, <1>c DEF BreaksOff, GoesOn
  <2>2. ~GotoWith(t, "none", mem[t])
    BY <2>1, <1>c DEF Stop, GotoWith, CommandTypeOK
  <2> QED
    BY <2>1, <2>2, DecisionGoesOn
<1>9. ASSUME NEW t \in Proc, Succeeds(t) PROVE DecisionInv'
  <2>1. faults = 0 /\ UNCHANGED <<marker, summary>> /\ pc[t] \in Undecided
    BY <1>9, <1>c DEF Succeeds, GoesOn, Undecided, StepPoints
  <2>2. \E m : GotoWith(t, "summary", m)
    BY <1>9 DEF Succeeds
  <2> QED
    BY <2>1, <2>2, DecisionGoesOn
<1>10. ASSUME NEW t \in Proc, WriteSummary(t) PROVE DecisionInv'
  <2> DEFINE record == [status |-> mem[t].status, errors |-> mem[t].errors,
                        failed |-> FailedTests(job[t], mem[t].results)]
  <2>1. /\ faults = 0 /\ UNCHANGED <<marker, job, mem>> /\ pc[t] = "summary"
        /\ summary' = [summary EXCEPT ![job[t]] = record]
        /\ pc' = [pc EXCEPT ![t] = "terminal"]
    BY <1>10 DEF WriteSummary, PutSummary, Goto, budget
  <2>2. Executing(t) /\ job[t] \in Plan /\ marker[job[t]] = "IN_FLIGHT" /\ pc[t] \in Undecided
    BY <2>1, <1>j DEF Executing, TryPoints, FinishPoints, Undecided, DecisionInv
  <2>3. record \in Summary /\ record # None
    <3>1. record \in Summary
      BY <2>2, <1>c, FailedTestsType DEF Summary, CommandTypeOK, Memory
    <3> QED
      BY <3>1, NoneIsNoSummary
  <2>4. summary'[job[t]] = record /\ record.status = mem[t].status
    BY <2>1, <2>2, <1>c
  <2>5. \A p \in Plan \ {job[t]} : summary'[p] = summary[p]
    BY <2>1, <1>c
  <2> HIDE DEF record
  <2>6. \A u \in Proc : pc'[u] \in Undecided => pc[u] \in Undecided
    BY <2>1, <2>2, <1>c DEF CommandTypeOK
  <2>7. \A u \in Proc : pc'[u] = "terminal" => u = t \/ (pc[u] = "terminal" /\ job[u] # job[t] /\ job[u] \in Plan)
    BY <2>1, <2>2, <1>c, <1>j, RunsDiffer DEF CommandTypeOK, Executing, TryPoints, FinishPoints
  <2>8. SummaryMatchesMarker'
    BY <2>1, <2>2, <2>5 DEF DecisionInv, SummaryMatchesMarker
  <2> QED
    BY <2>1, <2>3, <2>4, <2>5, <2>6, <2>7, <2>8 DEF DecisionInv
<1>11. ASSUME NEW t \in Proc, Decides(t) PROVE DecisionInv'
  <2> DEFINE state == TerminalState(mem[t].status)
  <2>1. /\ faults = 0 /\ UNCHANGED <<summary, job, mem>> /\ pc[t] = "terminal" /\ Executing(t)
        /\ marker' = [marker EXCEPT ![job[t]] = state]
        /\ pc' = [pc EXCEPT ![t] = "tail"] /\ job[t] \in Plan
    BY <1>11, <1>c, <1>j DEF Decides, GoesOn, Goto
  <2>2. \A u \in Proc : pc'[u] \in Undecided => u # t /\ pc[u] \in Undecided /\ job[u] # job[t]
    BY <2>1, <1>c, <1>u, RunsDiffer DEF CommandTypeOK, Undecided, StepPoints
  <2>3. \A u \in Proc : pc'[u] \in Undecided => marker'[job[u]] = "IN_FLIGHT"
    BY <2>1, <2>2, <1>c, <1>j, <1>u DEF DecisionInv
  <2>4. \A u \in Proc : pc'[u] = "terminal" => pc[u] = "terminal"
    BY <2>1, <1>c DEF CommandTypeOK
  <2>5. summary[job[t]] # None /\ TerminalState(summary[job[t]].status) = state
    BY <2>1 DEF DecisionInv
  <2> HIDE DEF state
  <2>6. SummaryMatchesMarker'
    BY <2>1, <2>5, <1>c DEF DecisionInv, SummaryMatchesMarker
  <2> QED
    BY <2>1, <2>3, <2>4, <2>6 DEF DecisionInv
<1> QED
  BY <1>k, <1>f, <1>1, <1>2, <1>3, <1>4, <1>5, <1>6, <1>7, <1>8, <1>9, <1>10, <1>11 DEF RunKinds

LEMMA DecisionCorrect == Spec => []DecisionInv
<1>1. Init => DecisionInv
  BY DEF Init, StoreInit, DecisionInv, SummaryMatchesMarker, Undecided, StepPoints, At
<1>2. TypeInv /\ LockInv /\ DecisionInv /\ [Next]_vars => DecisionInv'
  BY DecisionStep
<1> QED
  BY <1>1, <1>2, LockCorrect, PTL DEF Spec

\* As long as no I/O fails, a decided plan has a summary that says what its
\* marker says, at every moment at which a crash could make these files all
\* that is left of the run (_finalize_execution).
THEOREM SummariesMatch == Spec => []SummaryMatchesMarker
<1>1. DecisionInv => SummaryMatchesMarker
  BY DEF DecisionInv, SummaryMatchesMarker
<1> QED
  BY <1>1, DecisionCorrect, PTL
-----------------------------------------------------------------------------
(***************************************************************************)
(* Lemmas about the data: the snapshots that a rollback restores, what the *)
(* first steps of a plan amount to, and what a successful run consists of. *)
(***************************************************************************)

\* A set of numbers that is not empty has a smallest one.
LEMMA Smallest ==
  ASSUME NEW S, S \subseteq Nat, S # {}
  PROVE  \E i \in S : \A j \in S : i <= j
<1> DEFINE R == OpToRel(<, Nat)
<1>1. IsWellFoundedOn(R, Nat)
  BY NatLessThanWellFounded, Zenon
<1>2. R = {ss \in Nat \X Nat : ss[1] < ss[2]}
  BY Zenon DEF OpToRel
<1> HIDE DEF R
<1>3. PICK i \in S : \A j \in S : <<j, i>> \notin R
  BY <1>1, WFMin, Zenon
<1>4. ASSUME NEW j \in S, j < i PROVE FALSE
  <2>1. <<j, i>> \in Nat \X Nat /\ <<j, i>>[1] = j /\ <<j, i>>[2] = i
    OBVIOUS
  <2> QED
    BY <1>2, <1>3, <1>4, <2>1
<1> QED
  BY <1>4

\* A rollback restores f from one of the snapshots.
Covers(snaps, f) == \E i \in Restored(snaps) : snaps[i].path = f

\* A new snapshot changes nothing about the earlier ones, and is one to restore
\* when it is the first of its path.
LEMMA RestoredAppend ==
  ASSUME NEW snaps \in Seq(Snapshot), NEW s \in Snapshot
  PROVE  LET all == Append(snaps, s) IN
         /\ \A i \in DOMAIN snaps : all[i] = snaps[i] /\ (i \in Restored(all) <=> i \in Restored(snaps))
         /\ Restored(snaps) \subseteq DOMAIN snaps
         /\ \A i \in DOMAIN all \ DOMAIN snaps : i = Len(snaps) + 1 /\ all[i] = s
         /\ Len(snaps) + 1 \in Restored(all) <=> \A j \in DOMAIN snaps : snaps[j].path # s.path
<1> DEFINE n == Len(snaps)
           all == Append(snaps, s)
<1>1. n \in Nat /\ DOMAIN snaps = 1 .. n /\ DOMAIN all = 1 .. (n + 1)
  OBVIOUS
<1>2. \A i \in 1 .. n : all[i] = snaps[i]
  OBVIOUS
<1>3. all[n + 1] = s
  OBVIOUS
<1> HIDE DEF all, n
<1>4. \A i \in 1 .. n : 1 .. (i - 1) \subseteq 1 .. n
  BY <1>1
<1>5. \A i \in 1 .. n : i \in Restored(all) <=> i \in Restored(snaps)
  BY <1>1, <1>2, <1>4 DEF Restored
<1>6. n + 1 \in Restored(all) <=> \A j \in 1 .. n : snaps[j].path # s.path
  <2>1. 1 .. ((n + 1) - 1) = 1 .. n /\ n + 1 \in DOMAIN all
    BY <1>1
  <2> QED
    BY <1>2, <1>3, <2>1 DEF Restored
<1>7. \A i \in DOMAIN snaps : all[i] = snaps[i] /\ (i \in Restored(all) <=> i \in Restored(snaps))
  BY <1>1, <1>2, <1>5
<1>8. Restored(snaps) \subseteq DOMAIN snaps
  BY DEF Restored
<1>9. \A i \in DOMAIN all \ DOMAIN snaps : i = n + 1 /\ all[i] = s
  BY <1>1, <1>3
<1>10. n + 1 \in Restored(all) <=> \A j \in DOMAIN snaps : snaps[j].path # s.path
  BY <1>1, <1>6
<1> QED
  BY <1>7, <1>8, <1>9, <1>10, Zenon DEF all, n

\* Path f once the first k steps of p have been applied to a tree.
AppliedFirst(p, k, tree, f) ==
    LET writes == {i \in DOMAIN Steps[p] :
                     i <= k /\ Steps[p][i].tool \in MutatingTools /\ Steps[p][i].path = f}
    IN  IF writes = {} THEN tree[f]
        ELSE Steps[p][CHOOSE i \in writes : \A j \in writes : j <= i].new

\* No step, one more step, and all steps.
LEMMA AppliedSteps ==
  ASSUME NEW p \in Plan, NEW k \in Nat, NEW tree, NEW f
  PROVE  /\ AppliedFirst(p, 0, tree, f) = tree[f]
         /\ k >= Len(Steps[p]) => AppliedFirst(p, k, tree, f) = Applied(p, tree, f)
         /\ k + 1 \in DOMAIN Steps[p] =>
               AppliedFirst(p, k + 1, tree, f) =
                  IF Steps[p][k + 1].tool \in MutatingTools /\ Steps[p][k + 1].path = f
                  THEN Steps[p][k + 1].new ELSE AppliedFirst(p, k, tree, f)
<1> DEFINE D == DOMAIN Steps[p]
           writes(n) == {i \in D : i <= n /\ Steps[p][i].tool \in MutatingTools /\ Steps[p][i].path = f}
           allWrites == {i \in D : Steps[p][i].tool \in MutatingTools /\ Steps[p][i].path = f}
           result(W) == IF W = {} THEN tree[f]
                        ELSE Steps[p][CHOOSE i \in W : \A j \in W : j <= i].new
<1>1. Steps[p] \in Seq(Step) /\ Len(Steps[p]) \in Nat /\ D = 1 .. Len(Steps[p])
  BY PlansAreValid
<1>r. /\ AppliedFirst(p, k, tree, f) = result(writes(k))
      /\ AppliedFirst(p, k + 1, tree, f) = result(writes(k + 1))
      /\ Applied(p, tree, f) = result(allWrites)
  BY Zenon DEF AppliedFirst, Applied
<1>2. AppliedFirst(p, 0, tree, f) = tree[f]
  <2>1. writes(0) = {}
    BY <1>1
  <2> QED
    BY <2>1 DEF AppliedFirst
<1>3. ASSUME k >= Len(Steps[p]) PROVE AppliedFirst(p, k, tree, f) = Applied(p, tree, f)
  <2>1. writes(k) = allWrites
    BY <1>1, <1>3
  <2> HIDE DEF writes, allWrites, result
  <2> QED
    BY <2>1, <1>r
<1>4. ASSUME k + 1 \in D, Steps[p][k + 1].tool \in MutatingTools, Steps[p][k + 1].path = f
      PROVE  AppliedFirst(p, k + 1, tree, f) = Steps[p][k + 1].new
  <2>1. k + 1 \in writes(k + 1) /\ \A j \in writes(k + 1) : j <= k + 1 /\ j \in Nat
    BY <1>1, <1>4
  <2> DEFINE W == writes(k + 1)
             last == CHOOSE i \in W : \A j \in W : j <= i
  <2> HIDE DEF W
  <2>2. last \in W /\ \A j \in W : j <= last
    BY <2>1 DEF W
  <2>3. last = k + 1
    <3>1. last \in Nat /\ last <= k + 1 /\ k + 1 <= last
      BY <2>1, <2>2 DEF W
    <3> QED
      BY <3>1
  <2>4. AppliedFirst(p, k + 1, tree, f) = Steps[p][last].new
    BY <2>1, Zenon DEF AppliedFirst, W
  <2> QED
    BY <2>3, <2>4
<1>5. ASSUME k + 1 \in D, ~(Steps[p][k + 1].tool \in MutatingTools /\ Steps[p][k + 1].path = f)
      PROVE  AppliedFirst(p, k + 1, tree, f) = AppliedFirst(p, k, tree, f)
  <2>1. writes(k + 1) = writes(k)
    <3>1. \A i \in D : i <= k + 1 <=> i <= k \/ i = k + 1
      BY <1>1
    <3> QED
      BY <1>5, <3>1
  <2> HIDE DEF writes, result
  <2> QED
    BY <2>1, <1>r
<1> QED
  BY <1>2, <1>3, <1>4, <1>5

\* A run that is classified as a success consists of successes.
LEMMA SuccessesOnly ==
  ASSUME NEW p, NEW results \in Seq(Outcomes), Classify(p, results) = "SUCCESS"
  PROVE  \A i \in DOMAIN results : ResultClass(Steps[p][i], results[i]) = "SUCCESS"
<1> DEFINE class(i) == ResultClass(Steps[p][i], results[i])
           bad == {i \in DOMAIN results : class(i) # "SUCCESS"}
<1> SUFFICES ASSUME bad # {} PROVE FALSE
  OBVIOUS
<1>1. bad \subseteq Nat
  OBVIOUS
<1> DEFINE first == CHOOSE i \in bad : \A j \in bad : i <= j
<1>2. first \in bad
  <2>1. \E i \in bad : \A j \in bad : i <= j
    BY <1>1, Smallest
  <2> QED
    BY <2>1, Zenon
<1>3. class(first) = "SUCCESS"
  BY Zenon DEF Classify
<1> QED
  BY <1>2, <1>3

\* A tool that reports a success has done its work.
LEMMA SuccessWrites ==
  ASSUME NEW s, NEW tree, NEW out, NEW after, ToolCall(s, tree, out, after),
         ResultClass(s, out) = "SUCCESS", out # "raised", s.tool \in MutatingTools
  PROVE  after = Written(s, tree)
<1>1. s.tool \notin ProcessTools
  BY DEF MutatingTools, ProcessTools, GitTools
<1>2. CASE s.tool = "PATCH_APPLY"
  BY <1>1, <1>2 DEF ToolCall, ApplyPatch, ResultClass
<1>3. CASE s.tool = "PATCH_EDIT"
  BY <1>1, <1>3 DEF ToolCall, PatchEdit, ResultClass
<1>4. CASE s.tool = "FILE_CREATE"
  BY <1>1, <1>4 DEF ToolCall, CreateFile
<1> QED
  BY <1>2, <1>3, <1>4 DEF MutatingTools

\* A step of a mutating tool that is refused is no success, unless it raises.
LEMMA RefusalIsNoSuccess ==
  ASSUME NEW s, s.tool \in MutatingTools
  PROVE  Refusal(s) = "raised" \/ ResultClass(s, Refusal(s)) # "SUCCESS"
  BY DEF Refusal, ResultClass, MutatingTools, GitTools
-----------------------------------------------------------------------------
(***************************************************************************)
(* A run starts with no results and no snapshots.                          *)
(***************************************************************************)
FreshInv == \A t \in Proc : pc[t] \in PreflightPoints => mem[t].results = <<>> /\ mem[t].snaps = <<>>

LEMMA FreshStep ==
  ASSUME TypeInv, FreshInv, [Next]_vars
  PROVE  FreshInv'
<1> USE DEF At, PreflightPoints
<1>c. CommandTypeOK
  BY DEF TypeInv, TypeOK
<1>1. ASSUME NEW p \in Plan, Submit(p) PROVE FreshInv'
  BY <1>1 DEF Submit, command, FreshInv
<1>2. ASSUME NEW t \in Proc, NEW p \in Plan, StartApprove(t, p) PROVE FreshInv'
  BY <1>2, <1>c DEF StartApprove, Start, FreshInv, CommandTypeOK
<1>3. ASSUME NEW t \in Proc, NEW p \in Plan, StartExecute(t, p) PROVE FreshInv'
  <2>1. Fresh.results = <<>> /\ Fresh.snaps = <<>>
    BY DEF Fresh
  <2>2. mem'[t] = Fresh
    BY <1>3, <1>c DEF StartExecute, Start, CommandTypeOK
  <2>3. \A u \in Proc \ {t} : pc'[u] = pc[u] /\ mem'[u] = mem[u]
    BY <1>3, <1>c DEF StartExecute, Start, CommandTypeOK
  <2> QED
    BY <2>1, <2>2, <2>3 DEF FreshInv
<1>4. ASSUME NEW t \in Proc, Gate(t) \/ Mark(t) \/ Copy(t) \/ Rename(t) \/ Unlink(t)
                             \/ RecordWorkspace(t) \/ WriteMeta(t)
      PROVE  FreshInv'
  BY <1>4, <1>c
     DEF Gate, Mark, Copy, Rename, Unlink, RecordWorkspace, WriteMeta, Goto, GotoWith, Stop,
     FreshInv, CommandTypeOK
<1>5. ASSUME NEW t \in Proc, CheckDrift(t) \/ Lock(t) \/ Fill(t) PROVE FreshInv'
  BY <1>5, <1>c DEF CheckDrift, Lock, Fill, Goto, Stop, FreshInv, CommandTypeOK
<1>6. ASSUME NEW t \in Proc, Aside(t) PROVE FreshInv'
  BY <1>6, <1>c DEF Aside, Moves, FreshInv, CommandTypeOK, TryPoints, StepPoints, FinishPoints
<1>7. ASSUME Elsewhere PROVE FreshInv'
  BY <1>7 DEF Elsewhere, command, FreshInv
<1> QED
  BY <1>1, <1>2, <1>3, <1>4, <1>5, <1>6, <1>7, StepKinds

LEMMA FreshCorrect == Spec => []FreshInv
<1>1. Init => FreshInv
  BY DEF Init, FreshInv, PreflightPoints
<1>2. TypeInv /\ FreshInv /\ [Next]_vars => FreshInv'
  BY FreshStep
<1> QED
  BY <1>1, <1>2, LockCorrect, PTL DEF Spec
-----------------------------------------------------------------------------
(***************************************************************************)
(* Runs are transactions where they keep off each other's files: no plan   *)
(* works on a file that another one mutates, and neither the subprocesses  *)
(* of the plan nor anybody else writes a file that a plan mutates.         *)
(***************************************************************************)
Touched(p) == {Steps[p][i].path : i \in DOMAIN Steps[p]}

FilesAreDisjoint ==
    /\ \A p, q \in Plan : p # q => Touched(p) \cap Typed(q) = {}
    /\ \A e \in OutsideEdits, p \in Plan : e[1] \notin Typed(p)
    /\ \A p \in Plan : \A i \in DOMAIN Steps[p] :
          Steps[p][i].tool \notin MutatingTools => Steps[p][i].path \notin Typed(p)

\* What the rollback of a run relies on: the snapshots tell how the files were
\* when the run started, and every file that differs has one.
Restorable(t) ==
    LET p == job[t]
        m == mem[t]
        asBefore(f) == ws[f] = base[p][f]
    IN  /\ \A i \in DOMAIN m.snaps : m.snaps[i].path \in Typed(p) /\ Covers(m.snaps, m.snaps[i].path)
        /\ \A i \in Restored(m.snaps) : m.snaps[i].content = base[p][m.snaps[i].path]
        /\ \A f \in Typed(p) : asBefore(f) \/ Covers(m.snaps, f)
        /\ At(t, "snap") => CurrentStep(t).tool \in MutatingTools
        /\ pc[t] \in {"validate", "effect"} /\ CurrentStep(t).tool \in MutatingTools =>
              Covers(m.snaps, CurrentStep(t).path)
        /\ At(t, "undo") =>
              /\ m.undo \subseteq Restored(m.snaps) /\ m.status # "SUCCESS"
              /\ \A f \in Typed(p) :
                    asBefore(f) \/ f \in m.errors \/ \E i \in m.undo : m.snaps[i].path = f
        /\ pc[t] \in {"summary", "terminal"} /\ m.status # "SUCCESS" =>
              \A f \in Typed(p) : asBefore(f) \/ f \in m.errors
        /\ At(t, "terminal") => summary[p] # None /\ summary[p].errors = m.errors

\* What a run without faults has done to the files: as far as its results are
\* successes, all that its steps say.
Effective(t) ==
    LET p == job[t]
        m == mem[t]
    IN  /\ /\ pc[t] \in {"begin"} \cup StepPoints
           /\ \A i \in DOMAIN m.results : ResultClass(Steps[p][i], m.results[i]) = "SUCCESS"
           => \A f \in Typed(p) : ws[f] = AppliedFirst(p, Len(m.results), base[p], f)
        /\ pc[t] \in {"summary", "terminal"} /\ m.status = "SUCCESS" =>
              \A f \in Typed(p) : ws[f] = Applied(p, base[p], f)
        /\ At(t, "undo") \/ (pc[t] \in {"summary", "terminal"} /\ m.status # "SUCCESS") =>
              m.errors = {}

\* The inductive invariant behind ExecutedTookEffect and FailedLeavesNoTrace.
TransactionInv ==
    /\ \A t \in Proc : Executing(t) => Restorable(t)
    /\ faults = 0 => (\A t \in Proc : Executing(t) => Effective(t)) /\ ExecutedTookEffect

\* Nothing that the run of u relies on changes.
Unaffected(u) ==
    /\ Executing(u) /\ pc'[u] = pc[u] /\ job'[u] = job[u] /\ mem'[u] = mem[u]
    /\ base'[job[u]] = base[job[u]] /\ summary'[job[u]] = summary[job[u]]
    /\ \A f \in Typed(job[u]) : ws'[f] = ws[f]

LEMMA UnaffectedStep ==
  ASSUME NEW u \in Proc, Unaffected(u)
  PROVE  (Restorable(u) => Restorable(u)') /\ (Effective(u) => Effective(u)')
<1>1. CurrentStep(u)' = CurrentStep(u)
  BY DEF Unaffected, CurrentStep, StepIndex
<1>2. Restorable(u) => Restorable(u)'
  BY <1>1 DEF Unaffected, Restorable, At
<1>3. Effective(u) => Effective(u)'
  BY DEF Unaffected, Effective, At
<1> QED
  BY <1>2, <1>3

\* A run writes no file but those of its own plan.
Local(t) ==
    /\ UNCHANGED base
    /\ \A f \in Path \ Touched(job[t]) : ws'[f] = ws[f]
    /\ \A p \in Plan \ {job[t]} : summary'[p] = summary[p]
    /\ (\E point, m : GotoWith(t, point, m)) \/ Stop(t)

LEMMA TypedArePaths ==
  ASSUME NEW p \in Plan
  PROVE  Typed(p) \subseteq Touched(p) /\ Touched(p) \subseteq Path
<1>1. Steps[p] \in Seq(Step)
  BY PlansAreValid
<1>2. \A i \in DOMAIN Steps[p] : Steps[p][i] \in Step
  BY <1>1
<1>3. \A s \in Step : s.path \in Path
  BY DEF Step
<1> QED
  BY <1>2, <1>3 DEF Typed, Touched

LEMMA LocalStep ==
  ASSUME FilesAreDisjoint, TypeInv, LockInv, NEW t \in Proc, Executing(t), Local(t)
  PROVE  \A u \in Proc \ {t} : Executing(u)' => Unaffected(u)
<1> SUFFICES ASSUME NEW u \in Proc \ {t}, Executing(u)' PROVE Unaffected(u)
  OBVIOUS
<1>1. pc'[u] = pc[u] /\ job'[u] = job[u] /\ mem'[u] = mem[u]
  BY DEF Local, GotoWith, Stop, TypeInv, TypeOK, CommandTypeOK
<1>2. Executing(u) /\ job[u] # job[t]
  BY <1>1, RunsDiffer DEF Executing
<1>3. job[u] \in Plan /\ job[t] \in Plan
  BY <1>2 DEF Executing, TryPoints, StepPoints, FinishPoints, TypeInv, Focused
<1>4. Typed(job[u]) \subseteq Path \ Touched(job[t])
  BY <1>2, <1>3, TypedArePaths DEF FilesAreDisjoint
<1> QED
  BY <1>1, <1>2, <1>3, <1>4 DEF Unaffected, Local

\* What is known of a run before its step.
RunBefore(t) ==
    /\ TypeInv /\ t \in Proc /\ Executing(t)
    /\ Restorable(t)
    /\ faults = 0 => Effective(t)

\* Its plan, its locals, and the step that it is at.
LEMMA RunTypes ==
  ASSUME NEW t \in Proc, RunBefore(t)
  PROVE  /\ job[t] \in Plan /\ mem[t] \in Memory
         /\ mem[t].results \in Seq(Outcomes) /\ mem[t].snaps \in Seq(Snapshot)
         /\ ws \in Tree /\ base \in [Plan -> Tree] /\ faults \in Nat
         /\ Typed(job[t]) \subseteq Path
         /\ CommandTypeOK
<1>1. job[t] \in Plan
  BY DEF RunBefore, Executing, TryPoints, StepPoints, FinishPoints, TypeInv, Focused
<1>2. mem[t] \in Memory /\ CommandTypeOK
  BY DEF RunBefore, TypeInv, TypeOK, CommandTypeOK
<1>3. mem[t].results \in Seq(Outcomes) /\ mem[t].snaps \in Seq(Snapshot)
  BY <1>2 DEF Memory
<1>4. ws \in Tree /\ base \in [Plan -> Tree] /\ faults \in Nat
  BY DEF RunBefore, TypeInv, TypeOK, EnvironmentTypeOK, HistoryTypeOK
<1> QED
  BY <1>1, <1>2, <1>3, <1>4, TypedArePaths

LEMMA StepOfPlan ==
  ASSUME NEW t \in Proc, RunBefore(t), pc[t] \in StepPoints \ {"step"}
  PROVE  /\ CurrentStep(t) \in Step /\ CurrentStep(t).path \in Path
         /\ Len(mem[t].results) + 1 \in DOMAIN Steps[job[t]]
         /\ CurrentStep(t) = Steps[job[t]][Len(mem[t].results) + 1]
         /\ CurrentStep(t).path \in Touched(job[t])
         /\ CurrentStep(t).tool \in MutatingTools => CurrentStep(t).path \in Typed(job[t])
         /\ FilesAreDisjoint /\ CurrentStep(t).tool \notin MutatingTools =>
               CurrentStep(t).path \notin Typed(job[t])
<1>1. CurrentStep(t) \in Step
  BY CurrentStepType DEF RunBefore
<1>2. Len(mem[t].results) + 1 \in DOMAIN Steps[job[t]]
  <2>1. Steps[job[t]] \in Seq(Step) /\ Len(mem[t].results) \in Nat
    BY RunTypes, PlansAreValid
  <2> QED
    BY <2>1 DEF RunBefore, TypeInv, Focused, MoreSteps, StepIndex
<1>3. CurrentStep(t) = Steps[job[t]][Len(mem[t].results) + 1]
  BY DEF CurrentStep, StepIndex
<1>4. CurrentStep(t).path \in Path
  BY <1>1 DEF Step
<1> QED
  BY <1>1, <1>2, <1>3, <1>4, RunTypes DEF Touched, Typed, FilesAreDisjoint

\* A step that only goes on keeps what is known of its run.
LEMMA PassesKeeps ==
  ASSUME NEW t \in Proc, RunBefore(t), Passes(t)
  PROVE  Restorable(t)' /\ (faults' = 0 => Effective(t)')
<1> USE DEF At
<1>1. /\ mem' = mem /\ job' = job /\ UNCHANGED <<ws, base, summary>>
      /\ pc'[t] \in {"step", "token", "snap", "validate", "effect", "envelope", "report"}
      /\ pc'[t] \in StepPoints => pc[t] \in {"begin"} \cup StepPoints
      /\ pc'[t] = "snap" => CurrentStep(t).tool \in MutatingTools
      /\ pc'[t] = "validate" => CurrentStep(t).tool \notin MutatingTools
      /\ pc'[t] = "effect" => pc[t] = "validate"
      /\ faults' = 0 => faults = 0
  BY RunTypes DEF Passes, GoesOn, Goto, CommandTypeOK, StepPoints
<1>2. CurrentStep(t)' = CurrentStep(t)
  BY <1>1 DEF CurrentStep, StepIndex
<1>3. Restorable(t)'
  BY <1>1, <1>2 DEF RunBefore, Restorable
<1>4. ASSUME faults' = 0 PROVE Effective(t)'
  BY <1>1, <1>4 DEF RunBefore, Effective
<1> QED
  BY <1>3, <1>4

\* So does taking a snapshot.
LEMMA SnapshotKeeps ==
  ASSUME NEW t \in Proc, RunBefore(t), TakeSnapshot(t)
  PROVE  Restorable(t)' /\ (faults' = 0 => Effective(t)')
<1> USE DEF At
<1> DEFINE f == CurrentStep(t).path
           s == [path |-> f, content |-> ws[f]]
           old == mem[t].snaps
           all == Append(old, s)
<1>1. /\ pc[t] = "snap" /\ pc' = [pc EXCEPT ![t] = "validate"] /\ job' = job
      /\ mem' = [mem EXCEPT ![t] = [mem[t] EXCEPT !.snaps = all]]
      /\ UNCHANGED <<ws, base, summary, faults>>
  BY DEF TakeSnapshot, GotoWith, store, budget, history
<1>2. /\ pc'[t] = "validate" /\ mem'[t].snaps = all /\ mem'[t].results = mem[t].results
  BY <1>1, RunTypes DEF CommandTypeOK, Memory
<1>3. f \in Path /\ s \in Snapshot /\ f \in Typed(job[t]) /\ old \in Seq(Snapshot)
  BY <1>1, StepOfPlan, RunTypes DEF StepPoints, RunBefore, Restorable, Tree, Snapshot
<1>4. s.path = f /\ s.content = ws[f]
  OBVIOUS
<1>5. CurrentStep(t)' = CurrentStep(t)
  BY <1>1, <1>2 DEF CurrentStep, StepIndex
<1> HIDE DEF s, f, old, all
<1>6. /\ \A i \in DOMAIN old : all[i] = old[i] /\ (i \in Restored(all) <=> i \in Restored(old))
      /\ Restored(old) \subseteq DOMAIN old
      /\ \A i \in DOMAIN all \ DOMAIN old : i = Len(old) + 1 /\ all[i] = s
      /\ Len(old) + 1 \in Restored(all) <=> \A j \in DOMAIN old : old[j].path # s.path
  BY <1>3, RestoredAppend DEF all
<1>7. Len(old) + 1 \in DOMAIN all \ DOMAIN old
  BY <1>3 DEF all
<1>8. Restored(all) \subseteq DOMAIN all
  BY DEF Restored
<1>9. /\ \A i \in DOMAIN old : old[i].path \in Typed(job[t]) /\ Covers(old, old[i].path)
      /\ \A i \in Restored(old) : old[i].content = base[job[t]][old[i].path]
      /\ \A g \in Typed(job[t]) : ws[g] = base[job[t]][g] \/ Covers(old, g)
  BY DEF RunBefore, Restorable, old
<1>10. \A g : Covers(old, g) => Covers(all, g)
  BY <1>6 DEF Covers
<1>11. Covers(all, f)
  BY <1>4, <1>6, <1>7, <1>9, <1>10 DEF Covers
<1>12. \A i \in Restored(all) : all[i].content = base[job[t]][all[i].path]
  <2> TAKE i \in Restored(all)
  <2>1. CASE i \in DOMAIN old
    BY <2>1, <1>6, <1>9
  <2>2. CASE i \notin DOMAIN old
    <3>1. all[i] = s /\ \A j \in DOMAIN old : old[j].path # f
      BY <2>2, <1>4, <1>6, <1>8
    <3>2. ~Covers(old, f)
      BY <3>1, <1>6 DEF Covers
    <3> QED
      BY <3>1, <3>2, <1>3, <1>4, <1>9
  <2> QED
    BY <2>1, <2>2
<1>13. \A i \in DOMAIN all : all[i].path \in Typed(job[t]) /\ Covers(all, all[i].path)
  BY <1>3, <1>4, <1>6, <1>9, <1>10, <1>11
<1>14. Restorable(t)'
  BY <1>1, <1>2, <1>5, <1>9, <1>10, <1>11, <1>12, <1>13 DEF Restorable, f
<1>15. ASSUME faults' = 0 PROVE Effective(t)'
  BY <1>1, <1>2, <1>15 DEF RunBefore, Effective, StepPoints
<1> QED
  BY <1>14, <1>15

\* The file of the current step is the only one that may change, and if the run
\* is to restore it, it can.
LEMMA WritesCovered ==
  ASSUME FilesAreDisjoint, NEW t \in Proc, RunBefore(t), Writes(t), UNCHANGED base
  PROVE  /\ \A f \in Path \ Touched(job[t]) : ws'[f] = ws[f]
         /\ \A f \in Typed(job[t]) : ws'[f] = base'[job[t]][f] \/ Covers(mem[t].snaps, f)
<1>1. CASE UNCHANGED ws
  BY <1>1 DEF RunBefore, Restorable
<1>2. ASSUME At(t, "effect"), NEW c, ws' = [ws EXCEPT ![CurrentStep(t).path] = c]
      PROVE  /\ \A f \in Path \ Touched(job[t]) : ws'[f] = ws[f]
             /\ \A f \in Typed(job[t]) : ws'[f] = base'[job[t]][f] \/ Covers(mem[t].snaps, f)
  <2> DEFINE g == CurrentStep(t).path
  <2>1. /\ pc[t] \in StepPoints \ {"step"} /\ pc[t] = "effect"
    BY <1>2 DEF At, StepPoints
  <2>2. g \in Path /\ g \in Touched(job[t])
    BY <2>1, StepOfPlan
  <2>3. \A f \in Path \ {g} : ws'[f] = ws[f]
    BY <1>2, RunTypes DEF Tree
  <2>4. g \in Typed(job[t]) => Covers(mem[t].snaps, g)
    BY <2>1, StepOfPlan DEF RunBefore, Restorable
  <2> HIDE DEF g
  <2>5. \A f \in Typed(job[t]) : ws[f] = base[job[t]][f] \/ Covers(mem[t].snaps, f)
    BY DEF RunBefore, Restorable
  <2> QED
    BY <2>2, <2>3, <2>4, <2>5, RunTypes
<1> QED
  BY <1>1, <1>2 DEF Writes

\* So does a step of the plan that returns: a success has done what it says.
LEMMA ReturnsKeeps ==
  ASSUME FilesAreDisjoint, NEW t \in Proc, RunBefore(t), Returns(t)
  PROVE  Restorable(t)' /\ (faults' = 0 => Effective(t)')
<1> USE DEF At
<1>0. PICK out \in Outcomes \ {"raised"} :
         /\ GotoWith(t, "step", [mem[t] EXCEPT !.results = Append(@, out)])
         /\ faults' = faults =>
               \/ pc[t] = "validate" /\ out = Refusal(CurrentStep(t)) /\ UNCHANGED ws
               \/ pc[t] = "effect" /\ ToolCall(CurrentStep(t), ws, out, ws')
  BY DEF Returns
<1> DEFINE p == job[t]
           k == Len(mem[t].results)
           s == CurrentStep(t)
<1>1. /\ UNCHANGED <<base, summary, job>> /\ pc[t] \in {"validate", "effect"}
      /\ pc'[t] = "step" /\ mem'[t].snaps = mem[t].snaps
      /\ mem'[t].results = Append(mem[t].results, out)
      /\ Writes(t)
  BY <1>0, RunTypes DEF Returns, GoesOn, GotoWith, CommandTypeOK, Memory
<1>2. Restorable(t)'
  BY <1>1, WritesCovered DEF RunBefore, Restorable
<1>3. ASSUME faults' = 0 PROVE Effective(t)'
  <2>0. faults' = faults /\ faults = 0 /\ Effective(t)
    BY <1>3, RunTypes DEF Returns, GoesOn, RunBefore
  <2>1. /\ s \in Step /\ k + 1 \in DOMAIN Steps[p] /\ s = Steps[p][k + 1] /\ p \in Plan
        /\ s.tool \in MutatingTools => s.path \in Typed(p)
        /\ s.tool \notin MutatingTools => s.path \notin Typed(p)
        /\ s.path \in Path
    BY <1>1, StepOfPlan, RunTypes DEF StepPoints
  <2>2. /\ k \in Nat /\ Len(mem'[t].results) = k + 1
        /\ mem'[t].results[k + 1] = out /\ k + 1 \in DOMAIN mem'[t].results
        /\ \A i \in DOMAIN mem[t].results : i \in DOMAIN mem'[t].results
                                            /\ mem'[t].results[i] = mem[t].results[i]
    BY <1>1, RunTypes
  <2> SUFFICES ASSUME \A i \in DOMAIN mem'[t].results :
                         ResultClass(Steps[p][i], mem'[t].results[i]) = "SUCCESS",
                      NEW f \in Typed(p)
      PROVE  ws'[f] = AppliedFirst(p, k + 1, base[p], f)
    BY <1>1, <2>2 DEF Effective
  <2>3. ResultClass(s, out) = "SUCCESS"
    BY <2>1, <2>2
  <2>4. ws[f] = AppliedFirst(p, k, base[p], f)
    BY <1>1, <2>0, <2>2 DEF Effective, StepPoints
  <2>5. AppliedFirst(p, k + 1, base[p], f) =
           IF s.tool \in MutatingTools /\ s.path = f THEN s.new ELSE AppliedFirst(p, k, base[p], f)
    BY <2>1, <2>2, AppliedSteps
  <2>6. CASE pc[t] = "validate" /\ out = Refusal(s) /\ UNCHANGED ws
    BY <2>1, <2>3, <2>4, <2>5, <2>6, RefusalIsNoSuccess
  <2>7. CASE pc[t] = "effect" /\ ToolCall(s, ws, out, ws')
    <3>1. CASE s.tool \in MutatingTools
      <4>1. ws' = [ws EXCEPT ![s.path] = s.new]
        BY <2>3, <2>7, <3>1, SuccessWrites DEF Written
      <4>2. ws'[f] = IF s.path = f THEN s.new ELSE ws[f]
        BY <2>1, <4>1, RunTypes DEF Tree
      <4> QED
        BY <2>4, <2>5, <3>1, <4>2
    <3>2. CASE s.tool \notin MutatingTools
      <4>1. f # s.path
        BY <2>1, <3>2
      <4>2. ws'[f] = ws[f]
        <5>1. ws' = ws \/ \E c : ws' = [ws EXCEPT ![s.path] = c]
          BY <2>7, ToolWrites
        <5>2. f \in Path
          BY RunTypes
        <5> HIDE DEF s
        <5> QED
          BY <4>1, <5>1, <5>2, RunTypes DEF Tree
      <4> QED
        BY <2>4, <2>5, <3>2, <4>2
    <3> QED
      BY <3>1, <3>2
  <2> QED
    BY <1>0, <2>0, <2>6, <2>7
<1> QED
  BY <1>2, <1>3

\* So does turning to the rollback: all that differs can be restored.
LEMMA TurnsBackKeeps ==
  ASSUME FilesAreDisjoint, NEW t \in Proc, RunBefore(t), TurnsBack(t)
  PROVE  Restorable(t)' /\ (faults' = 0 => Effective(t)')
<1> USE DEF At
<1>1. PICK status \in Statuses \ {"SUCCESS"}, handling \in BOOLEAN, results \in Seq(Outcomes) :
         Rollback(t, status, handling, results)
  BY DEF TurnsBack
<1>2. /\ UNCHANGED <<base, summary, job>> /\ pc'[t] = "undo"
      /\ mem'[t].snaps = mem[t].snaps /\ mem'[t].undo = Restored(mem[t].snaps)
      /\ mem'[t].errors = {} /\ mem'[t].status = status
      /\ Writes(t)
  <2>1. UNCHANGED <<base, summary>> /\ Writes(t)
    BY DEF TurnsBack, GoesOn
  <2> QED
    BY <1>1, <2>1, RunTypes DEF Rollback, GotoWith, CommandTypeOK, Memory
<1>3. \A f \in Typed(job[t]) : ws'[f] = base'[job[t]][f] \/ Covers(mem[t].snaps, f)
  BY <1>2, WritesCovered
<1>4. /\ \A i \in DOMAIN mem[t].snaps : mem[t].snaps[i].path \in Typed(job[t])
                                       /\ Covers(mem[t].snaps, mem[t].snaps[i].path)
      /\ \A i \in Restored(mem[t].snaps) :
            mem[t].snaps[i].content = base[job[t]][mem[t].snaps[i].path]
  BY DEF RunBefore, Restorable
<1>5. \A f \in Typed(job[t]) :
         ws'[f] = base'[job[t]][f] \/ \E i \in mem'[t].undo : mem'[t].snaps[i].path = f
  BY <1>2, <1>3 DEF Covers
<1>6. Restorable(t)'
  BY <1>2, <1>3, <1>4, <1>5 DEF Restorable
<1>7. Effective(t)'
  BY <1>2 DEF Effective, StepPoints
<1> QED
  BY <1>6, <1>7

\* A success has applied all steps of the plan.
LEMMA SucceedsKeeps ==
  ASSUME NEW t \in Proc, RunBefore(t), Succeeds(t)
  PROVE  Restorable(t)' /\ (faults' = 0 => Effective(t)')
<1> USE DEF At
<1>1. /\ UNCHANGED <<base, summary, job, ws>> /\ pc[t] = "step" /\ pc'[t] = "summary"
      /\ mem'[t].snaps = mem[t].snaps /\ mem'[t].status = "SUCCESS"
      /\ Classify(job[t], mem[t].results) = "SUCCESS" /\ ~MoreSteps(t)
      /\ faults' = 0 => faults = 0
  BY RunTypes DEF Succeeds, GoesOn, GotoWith, CommandTypeOK, Memory
<1>2. Restorable(t)'
  BY <1>1 DEF RunBefore, Restorable
<1>3. ASSUME faults' = 0, NEW f \in Typed(job[t])
      PROVE  ws[f] = Applied(job[t], base[job[t]], f)
  <2>1. \A i \in DOMAIN mem[t].results : ResultClass(Steps[job[t]][i], mem[t].results[i]) = "SUCCESS"
    BY <1>1, RunTypes, SuccessesOnly
  <2>2. ws[f] = AppliedFirst(job[t], Len(mem[t].results), base[job[t]], f)
    BY <1>1, <1>3, <2>1 DEF RunBefore, Effective, StepPoints
  <2>3. Len(mem[t].results) \in Nat /\ Len(mem[t].results) >= Len(Steps[job[t]])
    <3>1. Steps[job[t]] \in Seq(Step)
      BY RunTypes, PlansAreValid
    <3> QED
      BY <1>1, <3>1, RunTypes DEF MoreSteps, StepIndex
  <2> QED
    BY <2>2, <2>3, RunTypes, AppliedSteps
<1>4. ASSUME faults' = 0 PROVE Effective(t)'
  BY <1>1, <1>3, <1>4 DEF Effective, StepPoints
<1> QED
  BY <1>2, <1>4

\* Restoring a path, or failing to, leaves the others to be restored.
LEMMA UndoKeeps ==
  ASSUME NEW t \in Proc, RunBefore(t), UndoPath(t) \/ UndoFails(t)
  PROVE  /\ Restorable(t)' /\ (faults' = 0 => Effective(t)')
         /\ \A f \in Path \ Typed(job[t]) : ws'[f] = ws[f]
<1> USE DEF At
<1>1. PICK i \in DOMAIN mem[t].snaps :
         /\ i \in mem[t].undo /\ UNCHANGED <<base, summary>> /\ pc[t] = "undo"
         /\ \/ /\ ws' = [ws EXCEPT ![mem[t].snaps[i].path] = mem[t].snaps[i].content]
               /\ GotoWith(t, "undo", [mem[t] EXCEPT !.undo = @ \ {i}])
               /\ faults' = faults
            \/ /\ \/ UNCHANGED ws
                  \/ \E c : ws' = [ws EXCEPT ![mem[t].snaps[i].path] = c]
               /\ GotoWith(t, "undo", [mem[t] EXCEPT !.undo = @ \ {i},
                                         !.errors = @ \cup {mem[t].snaps[i].path}])
               /\ faults' = faults + 1
  BY DEF UndoPath, UndoFails, NextUndo, store, budget, history
<1> DEFINE g == mem[t].snaps[i].path
           B == base[job[t]]
           snaps == mem[t].snaps
<1>2. /\ UNCHANGED job /\ pc'[t] = "undo" /\ mem'[t].snaps = snaps
      /\ mem'[t].undo = mem[t].undo \ {i} /\ mem'[t].status = mem[t].status
  <2>1. CASE GotoWith(t, "undo", [mem[t] EXCEPT !.undo = @ \ {i}])
    BY <1>1, <2>1, RunTypes DEF GotoWith, CommandTypeOK, Memory
  <2>2. CASE GotoWith(t, "undo", [mem[t] EXCEPT !.undo = @ \ {i}, !.errors = @ \cup {g}])
    BY <1>1, <2>2, RunTypes DEF GotoWith, CommandTypeOK, Memory
  <2> QED
    BY <1>1, <2>1, <2>2
<1>3. /\ i \in Restored(snaps) /\ mem[t].undo \subseteq Restored(snaps)
      /\ \A f \in Typed(job[t]) :
            ws[f] = B[f] \/ f \in mem[t].errors \/ \E j \in mem[t].undo : snaps[j].path = f
      /\ \A f \in Typed(job[t]) : ws[f] = B[f] \/ Covers(snaps, f)
      /\ mem[t].status # "SUCCESS"
      /\ g \in Typed(job[t]) /\ snaps[i].content = B[g]
      /\ \A j \in DOMAIN snaps : snaps[j].path \in Typed(job[t]) /\ Covers(snaps, snaps[j].path)
      /\ \A j \in Restored(snaps) : snaps[j].content = B[snaps[j].path]
  BY <1>1 DEF RunBefore, Restorable
<1>4. /\ \A f \in Path \ {g} : ws'[f] = ws[f]
      /\ ws'[g] = B[g] \/ g \in mem'[t].errors
      /\ mem[t].errors \subseteq mem'[t].errors
      /\ faults' = 0 => faults = 0 /\ mem'[t].errors = mem[t].errors
  <2>1. CASE /\ UNCHANGED ws \/ \E c : ws' = [ws EXCEPT ![g] = c]
             /\ faults' = faults + 1
             /\ GotoWith(t, "undo", [mem[t] EXCEPT !.undo = @ \ {i}, !.errors = @ \cup {g}])
    <3>1. mem'[t].errors = mem[t].errors \cup {g}
      BY <2>1, RunTypes DEF GotoWith, CommandTypeOK, Memory
    <3>2. \A f \in Path \ {g} : ws'[f] = ws[f]
      BY <2>1, RunTypes DEF Tree
    <3> QED
      BY <2>1, <3>1, <3>2, RunTypes
  <2>2. CASE ws' = [ws EXCEPT ![g] = snaps[i].content] /\ faults' = faults
             /\ GotoWith(t, "undo", [mem[t] EXCEPT !.undo = @ \ {i}])
    <3>1. mem'[t].errors = mem[t].errors
      BY <2>2, RunTypes DEF GotoWith, CommandTypeOK, Memory
    <3>2. g \in Path
      BY <1>3, RunTypes
    <3> QED
      BY <1>3, <2>2, <3>1, <3>2, RunTypes DEF Tree
  <2> QED
    BY <1>1, <2>1, <2>2
<1> HIDE DEF g
<1>5. \A f \in Typed(job[t]) : f \in Path
  BY RunTypes
<1>6. \A f \in Typed(job[t]) :
         ws'[f] = B[f] \/ f \in mem'[t].errors \/ \E j \in mem'[t].undo : snaps[j].path = f
  BY <1>2, <1>3, <1>4, <1>5 DEF g
<1>7. \A f \in Typed(job[t]) : ws'[f] = B[f] \/ Covers(snaps, f)
  <2>1. Covers(snaps, g)
    BY <1>3 DEF g
  <2> QED
    BY <1>3, <1>4, <1>5, <2>1
<1> HIDE DEF B
<1>8. Restorable(t)'
  <2>1. base' = base /\ job'[t] = job[t] /\ mem'[t].snaps = mem[t].snaps /\ pc'[t] = "undo"
    BY <1>1, <1>2
  <2>2. mem'[t].undo \subseteq Restored(mem[t].snaps) /\ mem'[t].status # "SUCCESS"
    BY <1>2, <1>3
  <2> QED
    BY <1>3, <1>6, <1>7, <2>1, <2>2 DEF Restorable, B
<1>9. ASSUME faults' = 0 PROVE Effective(t)'
  BY <1>1, <1>2, <1>3, <1>4, <1>9 DEF RunBefore, Effective, StepPoints
<1> QED
  BY <1>3, <1>4, <1>8, <1>9

\* The rollback is done.
LEMMA UndoDoneKeeps ==
  ASSUME NEW t \in Proc, RunBefore(t), UndoDone(t)
  PROVE  Restorable(t)' /\ (faults' = 0 => Effective(t)')
<1> USE DEF At
<1>1. /\ UNCHANGED <<base, summary, job, mem, ws, faults>> /\ pc[t] = "undo" /\ pc'[t] = "summary"
      /\ mem[t].undo = {}
  BY RunTypes DEF UndoDone, Goto, CommandTypeOK, store, budget, history
<1>2. Restorable(t)'
  BY <1>1 DEF RunBefore, Restorable
<1>3. ASSUME faults' = 0 PROVE Effective(t)'
  BY <1>1, <1>3 DEF RunBefore, Restorable, Effective, StepPoints
<1> QED
  BY <1>2, <1>3

\* The summary names the errors of the rollback.
LEMMA SummaryKeeps ==
  ASSUME NEW t \in Proc, RunBefore(t), WriteSummary(t)
  PROVE  Restorable(t)' /\ (faults' = 0 => Effective(t)')
<1> USE DEF At
<1> DEFINE record == [status |-> mem[t].status, errors |-> mem[t].errors,
                      failed |-> FailedTests(job[t], mem[t].results)]
<1>1. /\ UNCHANGED <<base, job, mem, ws, faults>> /\ pc[t] = "summary" /\ pc'[t] = "terminal"
      /\ summary' = [summary EXCEPT ![job[t]] = record]
  BY RunTypes DEF WriteSummary, PutSummary, Goto, CommandTypeOK, budget, history
<1>2. summary'[job[t]] = record
  BY <1>1, RunTypes DEF RunBefore, TypeInv, TypeOK, StoreTypeOK
<1>3. record # None /\ record.errors = mem[t].errors
  <2>1. record \in Summary
    BY RunTypes, FailedTestsType DEF Summary, Memory
  <2> QED
    BY <2>1, NoneIsNoSummary
<1> HIDE DEF record
<1>4. Restorable(t)'
  BY <1>1, <1>2, <1>3 DEF RunBefore, Restorable
<1>5. ASSUME faults' = 0 PROVE Effective(t)'
  BY <1>1, <1>5 DEF RunBefore, Effective, StepPoints
<1> QED
  BY <1>4, <1>5

\* Writing the marker changes nothing that the rollback relies on.
LEMMA DecidesKeeps ==
  ASSUME NEW t \in Proc, RunBefore(t), Decides(t)
  PROVE  Restorable(t)' /\ Effective(t)'
<1>1. UNCHANGED <<base, summary, job, mem, ws>> /\ pc'[t] = "tail"
  BY RunTypes DEF Decides, GoesOn, Goto, CommandTypeOK
<1> QED
  BY <1>1 DEF RunBefore, Restorable, Effective, At, StepPoints

\* A run that starts has changed nothing.
LEMMA FillKeeps ==
  ASSUME TypeInv, FreshInv, NEW t \in Proc, Fill(t)
  PROVE  Restorable(t)' /\ Effective(t)'
<1>1. /\ UNCHANGED <<job, mem, ws>> /\ pc'[t] = "begin" /\ job[t] \in Plan
      /\ base'[job[t]] = ws
      /\ mem[t].results = <<>> /\ mem[t].snaps = <<>>
  BY
     DEF Fill, Goto, At, TypeInv, TypeOK, CommandTypeOK, HistoryTypeOK, Focused, FreshInv,
         PreflightPoints
<1>2. DOMAIN mem[t].snaps = {} /\ Restored(mem[t].snaps) = {} /\ Len(mem[t].results) = 0
  BY <1>1 DEF Restored
<1>3. Restorable(t)'
  BY <1>1, <1>2 DEF Restorable, At
<1>4. Effective(t)'
  <2>1. \A f : AppliedFirst(job[t], 0, ws, f) = ws[f]
    BY <1>1, AppliedSteps
  <2> QED
    BY <1>1, <1>2, <2>1 DEF Effective, At, StepPoints
<1> QED
  BY <1>3, <1>4

\* A step of a run that leaves the markers alone keeps the invariant.
LEMMA RunGoesOn ==
  ASSUME FilesAreDisjoint, TypeInv, LockInv, DecisionInv, TransactionInv,
         NEW t \in Proc, Executing(t), Local(t), faults <= faults', UNCHANGED marker,
         UNCHANGED ws \/ pc[t] \in Undecided,
         Executing(t)' => Restorable(t)' /\ (faults' = 0 => Effective(t)')
  PROVE  TransactionInv'
<1>1. faults \in Nat /\ faults' = 0 => faults = 0
  BY DEF TypeInv, TypeOK, EnvironmentTypeOK
<1>2. \A u \in Proc \ {t} : Executing(u)' => Executing(u) /\ Unaffected(u)
  BY LocalStep DEF Unaffected
<1>3. \A u \in Proc : Executing(u)' => Restorable(u)' /\ (faults' = 0 => faults = 0 /\ Effective(u)')
  BY <1>1, <1>2, UnaffectedStep DEF TransactionInv, TypeInv, TypeOK, EnvironmentTypeOK
<1>4. ASSUME faults' = 0 PROVE ExecutedTookEffect'
  <2>1. faults = 0 /\ UNCHANGED base
    BY <1>4 DEF Local, TypeInv, TypeOK, EnvironmentTypeOK
  <2> SUFFICES ASSUME NEW p \in Plan, marker[p] = "EXECUTED", NEW f \in Typed(p)
      PROVE  ws'[f] = Applied(p, base[p], f)
    BY <2>1 DEF ExecutedTookEffect
  <2>2. ws[f] = Applied(p, base[p], f)
    BY <2>1 DEF TransactionInv, ExecutedTookEffect
  <2>3. CASE p = job[t]
    <3>1. UNCHANGED ws
      BY <2>1, <2>3 DEF DecisionInv
    <3> QED
      BY <2>2, <3>1
  <2>4. CASE p # job[t]
    <3>1. job[t] \in Plan
      BY DEF Executing, TryPoints, StepPoints, FinishPoints, TypeInv, Focused
    <3>2. f \in Path \ Touched(job[t])
      BY <2>4, <3>1, TypedArePaths DEF FilesAreDisjoint
    <3> QED
      BY <2>2, <3>2 DEF Local
  <2> QED
    BY <2>3, <2>4
<1> QED
  BY <1>3, <1>4 DEF TransactionInv

\* What a step of a run leaves alone, by its kind.
LEMMA RunsAreLocal ==
  ASSUME FilesAreDisjoint, NEW t \in Proc, RunBefore(t)
  PROVE  /\ Passes(t) \/ Returns(t) \/ TurnsBack(t) \/ BreaksOff(t) \/ Succeeds(t)
               => Local(t) /\ faults <= faults' /\ UNCHANGED marker /\ (UNCHANGED ws \/ pc[t] \in Undecided)
         /\ TakeSnapshot(t) \/ UndoPath(t) \/ UndoFails(t) \/ UndoDone(t) \/ WriteSummary(t)
               => Local(t) /\ faults <= faults' /\ UNCHANGED marker /\ (UNCHANGED ws \/ pc[t] \in Undecided)
         /\ Decides(t) => Local(t) /\ faults <= faults'
<1> USE DEF At
<1>c. faults \in Nat /\ Typed(job[t]) \subseteq Touched(job[t])
  BY RunTypes, TypedArePaths
<1>1. ASSUME Passes(t) \/ Succeeds(t) \/ Decides(t)
      PROVE  Local(t) /\ faults <= faults' /\ UNCHANGED ws /\ (Passes(t) \/ Succeeds(t) => UNCHANGED marker)
  <2>1. UNCHANGED <<ws, base, summary>> /\ faults <= faults' /\ (Passes(t) \/ Succeeds(t) => UNCHANGED marker)
    BY <1>1 DEF Passes, Succeeds, Decides, GoesOn
  <2>2. \E point, m : GotoWith(t, point, m)
    <3>1. CASE Succeeds(t)
      BY <3>1 DEF Succeeds
    <3>2. CASE ~Succeeds(t)
      <4>1. \E point : Goto(t, point)
        BY <1>1, <3>2 DEF Passes, Decides
      <4>2. ASSUME NEW point, Goto(t, point) PROVE GotoWith(t, point, mem[t])
        BY <4>2, RunTypes DEF Goto, GotoWith, CommandTypeOK
      <4> QED
        BY <4>1, <4>2
    <3> QED
      BY <3>1, <3>2
  <2> QED
    BY <2>1, <2>2 DEF Local
<1>2. ASSUME Returns(t) \/ TurnsBack(t) \/ BreaksOff(t)
      PROVE  Local(t) /\ faults <= faults' /\ UNCHANGED marker /\ (UNCHANGED ws \/ pc[t] \in Undecided)
  <2>1. UNCHANGED <<base, summary, marker>> /\ faults <= faults' /\ Writes(t)
    BY <1>2 DEF Returns, TurnsBack, BreaksOff, GoesOn
  <2>2. (\E point, m : GotoWith(t, point, m)) \/ Stop(t)
    BY <1>2 DEF Returns, TurnsBack, BreaksOff, Rollback
  <2>3. UNCHANGED ws \/ pc[t] \in Undecided
    BY <2>1 DEF Writes, Undecided, StepPoints
  <2> QED
    BY <2>1, <2>2, <2>3, WritesCovered DEF Local
<1>3. ASSUME TakeSnapshot(t) \/ UndoPath(t) \/ UndoFails(t)
      PROVE  Local(t) /\ faults <= faults' /\ UNCHANGED marker /\ pc[t] \in Undecided
  <2>1. UNCHANGED <<base, summary, marker>> /\ faults <= faults' /\ pc[t] \in Undecided
    <3>1. CASE TakeSnapshot(t) \/ UndoPath(t)
      BY <3>1, <1>c DEF TakeSnapshot, UndoPath, store, budget, history, Undecided, StepPoints
    <3>2. CASE UndoFails(t)
      BY <3>2, <1>c DEF UndoFails, store, history, Undecided
    <3> QED
      BY <1>3, <3>1, <3>2
  <2>2. \E point, m : GotoWith(t, point, m)
    BY <1>3 DEF TakeSnapshot, UndoPath, UndoFails
  <2>3. \A f \in Path \ Touched(job[t]) : ws'[f] = ws[f]
    BY <1>3, <1>c, UndoKeeps DEF TakeSnapshot
  <2> QED
    BY <2>1, <2>2, <2>3 DEF Local
<1>4. ASSUME UndoDone(t) \/ WriteSummary(t)
      PROVE  Local(t) /\ faults <= faults' /\ UNCHANGED marker /\ UNCHANGED ws
  <2>1. UNCHANGED <<base, ws, marker, faults>>
    BY <1>4 DEF UndoDone, WriteSummary, PutSummary, store, budget, history
  <2>2. \A p \in Plan \ {job[t]} : summary'[p] = summary[p]
    BY <1>4 DEF UndoDone, WriteSummary, PutSummary, store, RunBefore, TypeInv, TypeOK, StoreTypeOK
  <2>3. \E point : Goto(t, point)
    BY <1>4 DEF UndoDone, WriteSummary
  <2>4. ASSUME NEW point, Goto(t, point) PROVE GotoWith(t, point, mem[t])
    BY <2>4, RunTypes DEF Goto, GotoWith, CommandTypeOK
  <2> QED
    BY <1>c, <2>1, <2>2, <2>3, <2>4 DEF Local
<1> QED
  BY <1>1, <1>2, <1>3, <1>4

\* Every step keeps the invariant.
LEMMA TransactionStep ==
  ASSUME FilesAreDisjoint, TypeInv, LockInv, FreshInv, DecisionInv, TransactionInv, [Next]_vars
  PROVE  TransactionInv'
<1>c. edits \in Nat /\ faults \in Nat /\ marker \in [Plan -> MarkerStates] /\ base \in [Plan -> Tree]
  BY DEF TypeInv, TypeOK, EnvironmentTypeOK, StoreTypeOK, HistoryTypeOK
<1>1. ASSUME Bystands PROVE TransactionInv'
  <2>1. UNCHANGED <<ws, base, summary, edits>> /\ (faults' = 0 => faults = 0)
    BY <1>1, <1>c DEF Bystands
  <2>2. \A u \in Proc : Executing(u)' => Executing(u) /\ Unaffected(u)
    BY <1>1 DEF Bystands, Unaffected
  <2>3. \A p \in Plan : marker'[p] = "EXECUTED" => marker[p] = "EXECUTED"
    BY <1>1 DEF Bystands
  <2>4. ExecutedTookEffect => ExecutedTookEffect'
    BY <2>1, <2>3 DEF ExecutedTookEffect
  <2> QED
    BY <2>1, <2>2, <2>4, UnaffectedStep DEF TransactionInv
<1>2. ASSUME NEW e \in OutsideEdits, Edit(e[1], e[2]) PROVE TransactionInv'
  <2>1. UNCHANGED <<base, summary, marker, faults, pc, job, mem>>
    BY <1>2 DEF Edit, store, command, history
  <2>2. ASSUME NEW p \in Plan, NEW f \in Typed(p) PROVE ws'[f] = ws[f]
    BY <1>2, <2>2, TypedArePaths
       DEF Edit, FilesAreDisjoint, TypeInv, TypeOK, EnvironmentTypeOK, Tree
  <2>3. \A u \in Proc : Executing(u)' => Executing(u) /\ job[u] \in Plan
    BY <2>1 DEF Executing, TryPoints, StepPoints, FinishPoints, TypeInv, Focused
  <2>4. \A u \in Proc : Executing(u)' => Executing(u) /\ Unaffected(u)
    BY <2>1, <2>2, <2>3 DEF Unaffected
  <2>5. ExecutedTookEffect => ExecutedTookEffect'
    BY <2>1, <2>2 DEF ExecutedTookEffect
  <2> QED
    BY <2>1, <2>4, <2>5, UnaffectedStep DEF TransactionInv
<1>3. ASSUME NEW t \in Proc, Fill(t) PROVE TransactionInv'
  <2>1. /\ UNCHANGED <<ws, summary, faults, mem, job>> /\ pc' = [pc EXCEPT ![t] = "begin"]
        /\ marker' = [marker EXCEPT ![job[t]] = "IN_FLIGHT"] /\ base' = [base EXCEPT ![job[t]] = ws]
        /\ job[t] \in Plan /\ Locking(t)
    BY <1>3 DEF Fill, PutMarker, Goto, budget, At, Locking, TypeInv, Focused
  <2>2. ASSUME NEW u \in Proc \ {t}, Executing(u)' PROVE Executing(u) /\ Unaffected(u)
    <3>1. Executing(u) /\ pc'[u] = pc[u]
      BY <2>1, <2>2 DEF Executing, TypeInv, TypeOK, CommandTypeOK
    <3>2. job[u] # job[t]
      BY <2>1, <3>1 DEF LockInv, SingleRunner, Running
    <3> QED
      BY <1>c, <2>1, <3>1, <3>2 DEF Unaffected
  <2>3. Restorable(t)' /\ Effective(t)'
    BY <1>3, FillKeeps
  <2>4. \A p \in Plan : marker'[p] = "EXECUTED" => marker[p] = "EXECUTED" /\ base'[p] = base[p]
    BY <1>c, <2>1
  <2>5. ExecutedTookEffect => ExecutedTookEffect'
    BY <2>1, <2>4 DEF ExecutedTookEffect
  <2> QED
    BY <1>3, <2>1, <2>2, <2>3, <2>5, UnaffectedStep DEF TransactionInv
<1>4. ASSUME NEW t \in Proc, Executing(t),
             \/ Passes(t) \/ TakeSnapshot(t) \/ Returns(t) \/ TurnsBack(t) \/ BreaksOff(t)
             \/ Succeeds(t) \/ UndoPath(t) \/ UndoFails(t) \/ UndoDone(t) \/ WriteSummary(t)
      PROVE  TransactionInv'
  <2>1. RunBefore(t)
    BY <1>4 DEF RunBefore, TransactionInv
  <2>2. Local(t) /\ faults <= faults' /\ UNCHANGED marker /\ (UNCHANGED ws \/ pc[t] \in Undecided)
    BY <1>4, <2>1, RunsAreLocal
  <2>3. BreaksOff(t) => ~Executing(t)'
    BY
       DEF BreaksOff, Stop, Executing, TryPoints, StepPoints, FinishPoints, TypeInv, TypeOK,
           CommandTypeOK
  <2>4. ~BreaksOff(t) => Restorable(t)' /\ (faults' = 0 => Effective(t)')
    BY <1>4, <2>1, PassesKeeps, SnapshotKeeps, ReturnsKeeps, TurnsBackKeeps, SucceedsKeeps,
       UndoKeeps,
       UndoDoneKeeps, SummaryKeeps
  <2> QED
    BY <1>4, <2>2, <2>3, <2>4, RunGoesOn
<1>5. ASSUME NEW t \in Proc, Decides(t) PROVE TransactionInv'
  <2> DEFINE state == TerminalState(mem[t].status)
  <2>1. /\ Executing(t) /\ UNCHANGED <<ws, base, job, mem>> /\ pc[t] = "terminal" /\ job[t] \in Plan
        /\ marker' = [marker EXCEPT ![job[t]] = state]
    BY <1>5
       DEF Decides, GoesOn, Goto, At, Executing, TryPoints, StepPoints, FinishPoints, TypeInv,
           Focused
  <2>2. RunBefore(t)
    BY <1>5, <2>1 DEF RunBefore, TransactionInv
  <2>3. Local(t) /\ (faults' = 0 => faults = 0)
    BY <1>5, <1>c, <2>2, RunsAreLocal
  <2>4. \A u \in Proc \ {t} : Executing(u)' => Executing(u) /\ Unaffected(u)
    BY <2>1, <2>3, LocalStep DEF Unaffected
  <2>5. Restorable(t)' /\ Effective(t)'
    BY <1>5, <2>2, DecidesKeeps
  <2>6. ASSUME faults = 0 PROVE ExecutedTookEffect'
    <3>1. state = "EXECUTED" => \A f \in Typed(job[t]) : ws[f] = Applied(job[t], base[job[t]], f)
      BY <1>5, <2>1, <2>6 DEF TransactionInv, Effective, TerminalState
    <3> HIDE DEF state
    <3>2. \A p \in Plan : marker'[p] = "EXECUTED" =>
             marker[p] = "EXECUTED" \/ (p = job[t] /\ state = "EXECUTED")
      BY <1>c, <2>1
    <3> QED
      BY <1>5, <2>1, <2>6, <3>1, <3>2 DEF ExecutedTookEffect, TransactionInv
  <2> QED
    BY <1>5, <2>3, <2>4, <2>5, <2>6, UnaffectedStep DEF TransactionInv
<1>6. ASSUME NEW t \in Proc,
             \/ Passes(t) \/ TakeSnapshot(t) \/ Returns(t) \/ TurnsBack(t) \/ BreaksOff(t)
             \/ Succeeds(t) \/ UndoPath(t) \/ UndoFails(t) \/ UndoDone(t) \/ WriteSummary(t)
      PROVE  Executing(t)
  BY <1>6
     DEF Passes, TakeSnapshot, Returns, TurnsBack, BreaksOff, Succeeds, UndoPath, UndoFails,
         UndoDone,
     WriteSummary, GoesOn, Executing, At, TryPoints, StepPoints, FinishPoints
<1> QED
  BY <1>1, <1>2, <1>3, <1>4, <1>5, <1>6, RunSteps DEF RunKinds

\* The invariant holds in every behaviour.
LEMMA TransactionCorrect ==
  ASSUME FilesAreDisjoint
  PROVE  Spec => []TransactionInv
<1>1. Init => TransactionInv
  BY
     DEF Init, StoreInit, TransactionInv, ExecutedTookEffect, Executing, TryPoints, StepPoints,
         FinishPoints
<1>2. TypeInv /\ LockInv /\ FreshInv /\ DecisionInv /\ TransactionInv /\ [Next]_vars => TransactionInv'
  BY TransactionStep
<1> QED
  BY <1>1, <1>2, LockCorrect, FreshCorrect, DecisionCorrect, PTL DEF Spec

\* While nobody else edits these files and no I/O fails, an executed plan has
\* taken effect as a whole on the files that it mutates, whatever other runs,
\* crashes, refusals and rollbacks there are (execute_plan).
THEOREM ExecutedPlansTookEffect ==
  ASSUME FilesAreDisjoint
  PROVE  Spec => [](faults = 0 => ExecutedTookEffect)
<1>1. TransactionInv => (faults = 0 => ExecutedTookEffect)
  BY DEF TransactionInv
<1> QED
  BY <1>1, TransactionCorrect, PTL
-----------------------------------------------------------------------------
(***************************************************************************)
(* Failed plans, and the refinement.                                       *)
(***************************************************************************)

\* Only the last step of a run writes a terminal state.
LEMMA WhoDecides ==
  ASSUME TypeInv, LockInv, [Next]_vars, NEW p \in Plan,
         marker'[p] # marker[p], marker'[p] \in {"EXECUTED", "FAILED"}
  PROVE  \E t \in Proc : Decides(t) /\ p = job[t] /\ marker'[p] = TerminalState(mem[t].status)
<1>c. marker \in [Plan -> MarkerStates]
  BY DEF TypeInv, TypeOK, StoreTypeOK
<1>1. ~Bystands
  BY DEF Bystands
<1>2. ASSUME NEW e \in OutsideEdits, Edit(e[1], e[2]) PROVE FALSE
  BY <1>2 DEF Edit, store
<1>3. ASSUME NEW t \in Proc, Fill(t) PROVE FALSE
  BY <1>3, <1>c DEF Fill, PutMarker
<1>4. ASSUME NEW t \in Proc,
             \/ Passes(t) \/ TakeSnapshot(t) \/ Returns(t) \/ TurnsBack(t) \/ BreaksOff(t)
             \/ Succeeds(t) \/ UndoPath(t) \/ UndoFails(t) \/ UndoDone(t) \/ WriteSummary(t)
      PROVE  FALSE
  BY <1>4 DEF Passes, TakeSnapshot, Returns, TurnsBack, BreaksOff, Succeeds, UndoPath, UndoFails,
     UndoDone, WriteSummary, PutSummary, store
<1>5. PICK t \in Proc : Decides(t)
  BY <1>1, <1>2, <1>3, <1>4, RunSteps DEF RunKinds
<1>6. marker' = [marker EXCEPT ![job[t]] = TerminalState(mem[t].status)]
  BY <1>5 DEF Decides
<1>7. p = job[t] /\ marker'[p] = TerminalState(mem[t].status)
  BY <1>6, <1>c
<1> QED
  BY <1>5, <1>7

\* While nobody else edits these files, a plan that fails leaves the files
\* that it mutates as they were when it started, except those that its summary
\* reports as not restored, also when I/O fails during the run or its rollback
\* (_rollback_mutations).
THEOREM FailedPlansLeaveNoTrace ==
  ASSUME FilesAreDisjoint
  PROVE  Spec => FailedLeavesNoTrace
<1>1. ASSUME TypeInv, LockInv, TransactionInv, [Next]_vars
      PROVE  [\A p \in Plan : marker[p] # "FAILED" /\ marker'[p] = "FAILED" =>
                 \A f \in Typed(p) \ summary[p].errors : ws[f] = base[p][f]]_vars
  <2> SUFFICES ASSUME NEW p \in Plan, marker[p] # "FAILED", marker'[p] = "FAILED"
      PROVE  \A f \in Typed(p) \ summary[p].errors : ws[f] = base[p][f]
    OBVIOUS
  <2>1. PICK t \in Proc : Decides(t) /\ p = job[t] /\ marker'[p] = TerminalState(mem[t].status)
    BY <1>1, WhoDecides
  <2>2. At(t, "terminal") /\ Executing(t) /\ mem[t].status # "SUCCESS"
    BY <2>1 DEF Decides, GoesOn, TerminalState
  <2>3. Restorable(t)
    BY <1>1, <2>2 DEF TransactionInv
  <2> QED
    BY <2>1, <2>2, <2>3 DEF Restorable, At
<1> QED
  BY <1>1, LockCorrect, TransactionCorrect, PTL DEF Spec, FailedLeavesNoTrace

\* Two plans never mutate the same file: what is shown of it is its own plan's.
LEMMA SettledFile ==
  ASSUME FilesAreDisjoint, NEW p \in Plan, NEW f \in Typed(p)
  PROVE  /\ settledTree[f] = IF marker[p] = "IN_FLIGHT" THEN base[p][f] ELSE ws[f]
         /\ settledTree'[f] = IF marker'[p] = "IN_FLIGHT" THEN base'[p][f] ELSE ws'[f]
<1>1. f \in UNION {Typed(q) : q \in Plan}
  OBVIOUS
<1>2. \A q \in Plan : f \in Typed(q) => q = p
  BY TypedArePaths DEF FilesAreDisjoint
<1>3. settledTree[f] = IF marker[p] = "IN_FLIGHT" THEN base[p][f] ELSE ws[f]
  <2> DEFINE inFlight(q) == marker[q] = "IN_FLIGHT" /\ f \in Typed(q)
             owner == CHOOSE q \in Plan : inFlight(q)
  <2>1. settledTree[f] = IF \E q \in Plan : inFlight(q) THEN base[owner][f] ELSE ws[f]
    BY <1>1 DEF settledTree
  <2>2. ASSUME marker[p] = "IN_FLIGHT" PROVE (\E q \in Plan : inFlight(q)) /\ owner = p
    <3>1. \E q \in Plan : inFlight(q)
      BY <2>2
    <3>2. owner \in Plan /\ inFlight(owner)
      BY <3>1, Zenon
    <3> QED
      BY <1>2, <3>1, <3>2
  <2>3. ASSUME marker[p] # "IN_FLIGHT" PROVE ~\E q \in Plan : inFlight(q)
    BY <1>2, <2>3
  <2> HIDE DEF owner
  <2> QED
    BY <2>1, <2>2, <2>3
<1>4. settledTree'[f] = IF marker'[p] = "IN_FLIGHT" THEN base'[p][f] ELSE ws'[f]
  <2> DEFINE inFlight(q) == marker'[q] = "IN_FLIGHT" /\ f \in Typed(q)
             owner == CHOOSE q \in Plan : inFlight(q)
  <2>1. settledTree'[f] = IF \E q \in Plan : inFlight(q) THEN base'[owner][f] ELSE ws'[f]
    BY <1>1 DEF settledTree
  <2>2. ASSUME marker'[p] = "IN_FLIGHT" PROVE (\E q \in Plan : inFlight(q)) /\ owner = p
    <3>1. \E q \in Plan : inFlight(q)
      BY <2>2
    <3>2. owner \in Plan /\ inFlight(owner)
      BY <3>1, Zenon
    <3> QED
      BY <1>2, <3>1, <3>2
  <2>3. ASSUME marker'[p] # "IN_FLIGHT" PROVE ~\E q \in Plan : inFlight(q)
    BY <1>2, <2>3
  <2> HIDE DEF owner
  <2> QED
    BY <2>1, <2>2, <2>3
<1> QED
  BY <1>3, <1>4

\* A step that changes no file of a plan that is not in flight, and decides no
\* plan, is none of the transactions.
Settles ==
    \A p \in Plan :
        /\ marker'[p] \in {"EXECUTED", "FAILED"} \/ marker[p] \in {"EXECUTED", "FAILED"} =>
              marker'[p] = marker[p]
        /\ \A f \in Typed(p) :
              (IF marker'[p] = "IN_FLIGHT" THEN base'[p][f] ELSE ws'[f])
                 = (IF marker[p] = "IN_FLIGHT" THEN base[p][f] ELSE ws[f])

LEMMA SettlesStutters ==
  ASSUME FilesAreDisjoint, Settles
  PROVE  UNCHANGED <<settledTree, outcomes>>
<1>1. \A f \in UNION {Typed(p) : p \in Plan} : settledTree'[f] = settledTree[f]
  BY SettledFile DEF Settles
<1>2. UNCHANGED settledTree
  BY <1>1, Zenon DEF settledTree
<1>3. UNCHANGED outcomes
  BY DEF Settles, outcomes
<1> QED
  BY <1>2, <1>3

\* The abstract specification speaks of the same plans.
LEMMA SameModel ==
  /\ Transaction!TypedPaths = UNION {Typed(p) : p \in Plan}
  /\ \A p, tree, f : Transaction!Applied(p, tree, f) = Applied(p, tree, f)
<1>1. \A p : Transaction!Typed(p) = Typed(p)
  BY DEF Transaction!Typed, Typed, Transaction!MutatingTools, MutatingTools
<1>2. Transaction!TypedPaths = UNION {Typed(p) : p \in Plan}
  BY <1>1, Zenon DEF Transaction!TypedPaths
<1>3. \A p, tree, f : Transaction!Applied(p, tree, f) = Applied(p, tree, f)
  BY Zenon DEF Transaction!Applied, Applied, Transaction!MutatingTools, MutatingTools
<1> QED
  BY <1>2, <1>3

\* A run that decides takes effect at once, or not at all.
LEMMA DecidesSettles ==
  ASSUME FilesAreDisjoint, TypeInv, LockInv, DecisionInv, TransactionInv, faults = 0,
         NEW t \in Proc, Decides(t)
  PROVE  Transaction!Next
<1> DEFINE p == job[t]
           state == TerminalState(mem[t].status)
<1>1. /\ UNCHANGED <<ws, base>> /\ pc[t] = "terminal" /\ p \in Plan /\ Executing(t)
      /\ marker' = [marker EXCEPT ![p] = state] /\ state \in {"EXECUTED", "FAILED"}
  BY
     DEF Decides, GoesOn, At, Executing, TryPoints, StepPoints, FinishPoints, TypeInv, Focused,
         TerminalState
<1>2. marker[p] = "IN_FLIGHT" /\ marker \in [Plan -> MarkerStates]
  BY <1>1 DEF DecisionInv, Undecided, TypeInv, TypeOK, StoreTypeOK
<1>3. /\ state = "EXECUTED" => \A f \in Typed(p) : ws[f] = Applied(p, base[p], f)
      /\ state = "FAILED" => \A f \in Typed(p) : ws[f] = base[p][f]
  BY <1>1 DEF TransactionInv, Effective, Restorable, TerminalState
<1>4. \A f \in Typed(p) : settledTree[f] = base[p][f] /\ settledTree'[f] = ws[f]
  BY <1>1, <1>2, SettledFile
<1>5. ASSUME NEW q \in Plan \ {p}, NEW f \in Typed(q)
      PROVE  f \notin Typed(p) /\ settledTree'[f] = settledTree[f]
  <2>1. marker'[q] = marker[q]
    BY <1>1, <1>2
  <2>2. f \notin Typed(p)
    BY <1>1, TypedArePaths DEF FilesAreDisjoint
  <2> QED
    BY <1>1, <2>1, <2>2, SettledFile
<1>6. outcomes[p] = "open"
  BY <1>1, <1>2 DEF outcomes
<1>7. outcomes' = [outcomes EXCEPT ![p] = IF state = "EXECUTED" THEN "committed" ELSE "aborted"]
  <2>1. marker'[p] = state /\ \A q \in Plan \ {p} : marker'[q] = marker[q]
    BY <1>1, <1>2
  <2> HIDE DEF state
  <2> QED
    BY <1>1, <2>1 DEF outcomes
<1>8. ASSUME state = "EXECUTED" PROVE Transaction!Commit(p)
  <2> DEFINE after == [f \in UNION {Typed(q) : q \in Plan} |-> Applied(p, settledTree, f)]
  <2>1. ASSUME NEW f \in Typed(p) PROVE settledTree'[f] = Applied(p, settledTree, f)
    <3> DEFINE W == {i \in DOMAIN Steps[p] : Steps[p][i].tool \in MutatingTools /\ Steps[p][i].path = f}
    <3>1. W # {}
      BY <2>1 DEF Typed
    <3>2. \A tree : Applied(p, tree, f) = Steps[p][CHOOSE i \in W : \A j \in W : j <= i].new
      BY <3>1, Zenon DEF Applied
    <3>3. Applied(p, settledTree, f) = Applied(p, base[p], f)
      BY <3>2, Zenon
    <3> HIDE DEF state
    <3> QED
      BY <1>3, <1>4, <1>8, <2>1, <3>3
  <2>2. ASSUME NEW q \in Plan \ {p}, NEW f \in Typed(q)
        PROVE  settledTree'[f] = Applied(p, settledTree, f)
    <3>1. {i \in DOMAIN Steps[p] : Steps[p][i].tool \in MutatingTools /\ Steps[p][i].path = f} = {}
      BY <1>5, <2>2 DEF Typed
    <3>2. Applied(p, settledTree, f) = settledTree[f]
      BY <3>1, Zenon DEF Applied
    <3> QED
      BY <1>5, <2>2, <3>2
  <2>3. \A f \in UNION {Typed(q) : q \in Plan} : settledTree'[f] = Applied(p, settledTree, f)
    BY <1>1, <2>1, <2>2
  <2>4. settledTree' = after
    BY <2>3, Zenon DEF settledTree
  <2>5. settledTree' = [f \in Transaction!TypedPaths |-> Transaction!Applied(p, settledTree, f)]
    BY <2>4, SameModel, Zenon
  <2> HIDE DEF after
  <2>6. outcomes' = [outcomes EXCEPT ![p] = "committed"]
    BY <1>7, <1>8
  <2> QED
    BY <1>6, <2>5, <2>6 DEF Transaction!Commit
<1>9. ASSUME state = "FAILED" PROVE Transaction!Abort(p)
  <2>1. \A f \in UNION {Typed(q) : q \in Plan} : settledTree'[f] = settledTree[f]
    BY <1>1, <1>3, <1>4, <1>5, <1>9
  <2>2. UNCHANGED settledTree
    BY <2>1, Zenon DEF settledTree
  <2> QED
    BY <1>6, <1>7, <1>9, <2>2 DEF Transaction!Abort
<1> QED
  BY <1>1, <1>8, <1>9 DEF Transaction!Next

\* Every other step shows nothing new.
LEMMA TransactionSteps ==
  ASSUME FilesAreDisjoint, TypeInv, LockInv, FreshInv, DecisionInv, TransactionInv, [Next]_vars,
         faults = 0, faults' = 0
  PROVE  Transaction!Next \/ UNCHANGED <<settledTree, outcomes>>
<1>c. marker \in [Plan -> MarkerStates] /\ base \in [Plan -> Tree]
  BY DEF TypeInv, TypeOK, StoreTypeOK, HistoryTypeOK
<1>1. ASSUME Bystands PROVE Settles
  BY <1>1 DEF Bystands, Settles
<1>2. ASSUME NEW e \in OutsideEdits, Edit(e[1], e[2]) PROVE Settles
  <2>1. UNCHANGED <<base, marker>>
    BY <1>2 DEF Edit, store, history
  <2>2. ASSUME NEW p \in Plan, NEW f \in Typed(p) PROVE ws'[f] = ws[f]
    BY <1>2, <2>2, TypedArePaths
       DEF Edit, FilesAreDisjoint, TypeInv, TypeOK, EnvironmentTypeOK, Tree
  <2> QED
    BY <2>1, <2>2 DEF Settles
<1>3. ASSUME NEW t \in Proc, Fill(t) PROVE Settles
  <2>1. /\ UNCHANGED ws /\ marker' = [marker EXCEPT ![job[t]] = "IN_FLIGHT"]
        /\ base' = [base EXCEPT ![job[t]] = ws]
        /\ job[t] \in Plan /\ marker[job[t]] = "created"
    BY <1>3 DEF Fill, PutMarker, At, Locking, LockInv, TypeInv, Focused
  <2>2. /\ marker'[job[t]] = "IN_FLIGHT" /\ base'[job[t]] = ws
        /\ \A p \in Plan \ {job[t]} : marker'[p] = marker[p] /\ base'[p] = base[p]
    BY <1>c, <2>1
  <2> QED
    BY <2>1, <2>2 DEF Settles
<1>4. ASSUME NEW t \in Proc,
             \/ Passes(t) \/ TakeSnapshot(t) \/ Returns(t) \/ TurnsBack(t) \/ BreaksOff(t)
             \/ Succeeds(t) \/ UndoPath(t) \/ UndoFails(t) \/ UndoDone(t) \/ WriteSummary(t)
      PROVE  Settles
  <2>1. Executing(t) /\ job[t] \in Plan
    BY <1>4
       DEF Passes, TakeSnapshot, Returns, TurnsBack, BreaksOff, Succeeds, UndoPath, UndoFails,
           UndoDone,
       WriteSummary, GoesOn, Executing, At, TryPoints, StepPoints, FinishPoints, TypeInv, Focused
  <2>2. RunBefore(t)
    BY <2>1 DEF RunBefore, TransactionInv
  <2>3. Local(t) /\ UNCHANGED marker /\ (UNCHANGED ws \/ pc[t] \in Undecided)
    BY <1>4, <2>2, RunsAreLocal
  <2>4. CASE UNCHANGED ws
    BY <2>3, <2>4 DEF Settles, Local
  <2>5. CASE pc[t] \in Undecided
    <3>1. marker[job[t]] = "IN_FLIGHT" /\ UNCHANGED <<marker, base>>
      BY <2>3, <2>5 DEF DecisionInv, Local
    <3>2. ASSUME NEW p \in Plan \ {job[t]}, NEW f \in Typed(p) PROVE ws'[f] = ws[f]
      BY <2>1, <2>3, TypedArePaths DEF FilesAreDisjoint, Local
    <3> QED
      BY <3>1, <3>2 DEF Settles
  <2> QED
    BY <2>3, <2>4, <2>5
<1>5. ASSUME NEW t \in Proc, Decides(t) PROVE Transaction!Next
  BY <1>5, DecidesSettles
<1> QED
  BY <1>1, <1>2, <1>3, <1>4, <1>5, RunSteps, SettlesStutters DEF RunKinds

\* While nobody else edits these files and no I/O fails, runs are
\* transactions: each step of the lifecycle, seen through the files of the
\* plans in flight as they were when these started, commits one plan as a
\* whole, aborts one plan as a whole, or shows nothing.
THEOREM RunsAreTransactions ==
  ASSUME FilesAreDisjoint
  PROVE  Spec /\ [](faults = 0) => ImplementsPlanTransaction
<1>1. Init => Transaction!Init
  <2> SUFFICES ASSUME Init PROVE Transaction!Init
    OBVIOUS
  <2>1. ws = Disk0 /\ \A p \in Plan : marker[p] = "none"
    BY DEF Init, StoreInit
  <2>2. outcomes = [p \in Plan |-> "open"]
    BY <2>1 DEF outcomes
  <2>3. \A f \in UNION {Typed(p) : p \in Plan} : settledTree[f] = Disk0[f]
    BY <2>1, SettledFile
  <2>4. settledTree = [f \in UNION {Typed(p) : p \in Plan} |-> Disk0[f]]
    BY <2>3, Zenon DEF settledTree
  <2> QED
    BY <2>2, <2>4, SameModel DEF Transaction!Init
<1>2. TypeInv /\ LockInv /\ FreshInv /\ DecisionInv /\ TransactionInv /\ [Next]_vars
         /\ faults = 0 /\ (faults = 0)'
      => [Transaction!Next]_<<settledTree, outcomes>>
  BY TransactionSteps
<1> QED
  BY <1>1, <1>2, LockCorrect, FreshCorrect, DecisionCorrect, TransactionCorrect, PTL
     DEF Spec, ImplementsPlanTransaction, Transaction!Spec
=============================================================================
