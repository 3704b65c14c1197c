------------------------- MODULE PlanLifecycleProofs -------------------------
(* Theorems about PlanLifecycle, for every value of its constants. *)
EXTENDS PlanLifecycle, FiniteSetTheorems, TLAPS

(***************************************************************************)
(* Lemmas about the data: the operators of PlanModel stay within the types *)
(* that the variables have.                                                *)
(***************************************************************************)

\* The classification of a run is one of the statuses.
LEMMA ClassifyType == \A p, results : Classify(p, results) \in Statuses
<1>1. \A s, out : ResultClass(s, out) \in Statuses
  BY DEF ResultClass, Statuses
<1>2. "SUCCESS" \in Statuses
  BY DEF Statuses
<1> QED
  BY <1>1, <1>2, Zenon DEF Classify

\* The restored snapshots are indices of the snapshot list.
LEMMA RestoredType ==
  ASSUME NEW snaps \in Seq(Snapshot)
  PROVE  Restored(snaps) \subseteq Nat
  BY DEF Restored

\* The number of failed tests is a number.
LEMMA FailedTestsType ==
  ASSUME NEW p \in Plan, NEW results \in Seq(Outcomes)
  PROVE  FailedTests(p, results) \in Nat
<1> DEFINE F == {i \in DOMAIN results : Steps[p][i].tool = "TEST_RUN" /\ results[i] # "ok"}
<1>1. F \subseteq 1 .. Len(results)
  OBVIOUS
<1>2. IsFiniteSet(1 .. Len(results))
  BY FS_Interval
<1>3. IsFiniteSet(F)
  BY <1>1, <1>2, FS_Subset
<1> QED
  BY <1>3, FS_CardinalityType DEF FailedTests

\* A fingerprint of a tree is a print.
LEMMA FingerprintType ==
  ASSUME NEW tree \in Tree
  PROVE  Fingerprint(tree) \in Prints
  BY PlansAreValid DEF Tree, Fingerprint, Prints

\* Opening, writing and renaming the copy of an approved plan keep the types of
\* the store.
LEMMA CopyType ==
  ASSUME StoreTypeOK, NEW p \in Plan, NEW t \in Proc,
         OpenTemp(p, t) \/ FillTemp(p, t) \/ RenameTemp(p)
  PROVE  StoreTypeOK'
<1>1. NoFile \in File
  BY DEF NoFile, File
<1>2. \A file \in File : Filled(file, t) \in File
  BY DEF Filled, File
<1>3. \A file \in File : [file EXCEPT !.writers = @ \ {t}] \in File
  BY DEF File
<1>4. \A file \in File : [text |-> "torn", writers |-> file.writers \cup {t}] \in File
  BY DEF File
<1>5. approved \in [Plan -> File] /\ temp \in [Plan -> File]
  BY DEF StoreTypeOK
<1>6. approved' \in [Plan -> File] /\ temp' \in [Plan -> File]
  <2>1. CASE OpenTemp(p, t)
    BY <2>1, <1>3, <1>4, <1>5, Zenon DEF OpenTemp
  <2>2. CASE FillTemp(p, t)
    BY <2>2, <1>2, <1>5 DEF FillTemp
  <2>3. CASE RenameTemp(p)
    BY <2>3, <1>1, <1>5 DEF RenameTemp
  <2> QED
    BY <2>1, <2>2, <2>3
<1>7. UNCHANGED <<pending, meta, marker, summary, envelope>>
  BY DEF OpenTemp, FillTemp, RenameTemp
<1> QED
  BY <1>6, <1>7 DEF StoreTypeOK

(***************************************************************************)
(* Type correctness.  It needs that a command has a plan, and that the     *)
(* step loop is at a step of the plan whenever it works on one.            *)
(***************************************************************************)
Focused ==
    \A t \in Proc :
        /\ pc[t] # "idle" => job[t] \in Plan
        /\ pc[t] \in StepPoints \ {"step"} => MoreSteps(t)

TypeInv == TypeOK /\ Focused

\* The step that a process works on is a well-formed step.
LEMMA CurrentStepType ==
  ASSUME TypeInv, NEW t \in Proc, pc[t] \in StepPoints \ {"step"}
  PROVE  CurrentStep(t) \in Step
<1>1. job[t] \in Plan /\ MoreSteps(t)
  BY DEF TypeInv, Focused, StepPoints
<1>2. mem[t].results \in Seq(Outcomes)
  BY DEF TypeInv, TypeOK, CommandTypeOK, Memory
<1>3. Steps[job[t]] \in Seq(Step)
  BY <1>1, PlansAreValid
<1> QED
  BY <1>1, <1>2, <1>3 DEF CurrentStep, MoreSteps, StepIndex

\* The two conjuncts of TypeInv that the control operators can disturb.
CommandInv == CommandTypeOK /\ Focused

\* Going to another point with new locals keeps a command well-formed.
LEMMA GotoWithInv ==
  ASSUME CommandInv, NEW t \in Proc, ~At(t, "idle"),
         NEW point \in Points \ {"idle"}, NEW m \in Memory,
         point \in StepPoints \ {"step"} => MoreSteps(t) /\ m.results = mem[t].results,
         GotoWith(t, point, m)
  PROVE  CommandInv'
<1>1. CommandTypeOK'
  BY DEF CommandInv, CommandTypeOK, GotoWith
<1>2. ASSUME NEW u \in Proc
      PROVE  (/\ pc[u] # "idle" => job[u] \in Plan
              /\ pc[u] \in StepPoints \ {"step"} => MoreSteps(u))'
  BY DEF CommandInv, CommandTypeOK, GotoWith, Focused, MoreSteps, StepIndex, At
<1> QED
  BY <1>1, <1>2 DEF CommandInv, Focused

\* So does going there with the same locals.
LEMMA GotoInv ==
  ASSUME CommandInv, NEW t \in Proc, ~At(t, "idle"),
         NEW point \in Points \ {"idle"},
         point \in StepPoints \ {"step"} => MoreSteps(t),
         Goto(t, point)
  PROVE  CommandInv'
<1>1. mem[t] \in Memory
  BY DEF CommandInv, CommandTypeOK
<1>2. GotoWith(t, point, mem[t])
  BY DEF Goto, GotoWith, CommandInv, CommandTypeOK
<1> QED
  BY <1>1, <1>2, GotoWithInv

\* The locals of a new command are well-formed.
LEMMA FreshType == Fresh \in Memory
<1>1. <<>> \in Seq(Outcomes) /\ <<>> \in Seq(Snapshot)
  OBVIOUS
<1>2. "SUCCESS" \in Statuses /\ {} \subseteq Nat /\ {} \subseteq Path
  BY DEF Statuses
<1> QED
  BY <1>1, <1>2 DEF Fresh, Memory

\* A command that ends leaves the other commands as they are.
LEMMA StopInv ==
  ASSUME CommandInv, NEW t \in Proc, Stop(t)
  PROVE  CommandInv'
<1>1. CommandTypeOK'
  BY FreshType DEF CommandInv, CommandTypeOK, Stop, Points
<1>2. ASSUME NEW u \in Proc
      PROVE  (/\ pc[u] # "idle" => job[u] \in Plan
              /\ pc[u] \in StepPoints \ {"step"} => MoreSteps(u))'
  BY DEF CommandInv, CommandTypeOK, Stop, Focused, MoreSteps, StepIndex, StepPoints
<1> QED
  BY <1>1, <1>2 DEF CommandInv, Focused

\* A command that begins has a plan.
LEMMA StartInv ==
  ASSUME CommandInv, NEW t \in Proc, NEW p \in Plan,
         NEW point \in Points \ StepPoints, Start(t, p, point)
  PROVE  CommandInv'
<1>1. CommandTypeOK'
  BY FreshType DEF CommandInv, CommandTypeOK, Start
<1>2. ASSUME NEW u \in Proc
      PROVE  (/\ pc[u] # "idle" => job[u] \in Plan
              /\ pc[u] \in StepPoints \ {"step"} => MoreSteps(u))'
  BY DEF CommandInv, CommandTypeOK, Start, Focused, MoreSteps, StepIndex, StepPoints
<1> QED
  BY <1>1, <1>2 DEF CommandInv, Focused

\* A command that rolls back is well-formed.
LEMMA RollbackInv ==
  ASSUME CommandInv, NEW t \in Proc, ~At(t, "idle"), NEW status \in Statuses,
         NEW handling \in BOOLEAN, NEW results \in Seq(Outcomes),
         Rollback(t, status, handling, results)
  PROVE  CommandInv'
<1> DEFINE m == [mem[t] EXCEPT !.status = status, !.handling = handling,
                               !.results = results, !.errors = {},
                               !.undo = Restored(mem[t].snaps)]
<1>1. mem[t] \in Memory
  BY DEF CommandInv, CommandTypeOK
<1>2. Restored(mem[t].snaps) \subseteq Nat
  BY <1>1, RestoredType DEF Memory
<1>3. m \in Memory
  BY <1>1, <1>2 DEF Memory
<1>4. "undo" \in Points \ {"idle"} /\ "undo" \notin StepPoints
  BY DEF Points, TryPoints, StepPoints, FinishPoints
<1>5. GotoWith(t, "undo", m)
  BY DEF Rollback
<1> HIDE DEF m
<1> QED
  BY <1>3, <1>4, <1>5, GotoWithInv

\* An exception inside the try or the except block keeps it well-formed.
LEMMA RaiseInv ==
  ASSUME CommandInv, NEW t \in Proc, ~At(t, "idle"), NEW class \in Statuses,
         NEW results \in Seq(Outcomes), Raise(t, class, results)
  PROVE  CommandInv'
<1>1. CASE mem[t].handling
  BY <1>1, StopInv DEF Raise
<1>2. CASE ~mem[t].handling
  BY <1>2, RollbackInv DEF Raise
<1> QED
  BY <1>1, <1>2

(***************************************************************************)
(* Every step keeps TypeInv: what steps and tools return.                   *)
(***************************************************************************)

\* What a step returns keeps its command well-formed.
LEMMA StepReturnsInv ==
  ASSUME CommandInv, NEW t \in Proc, ~At(t, "idle"), NEW out \in Outcomes,
         StepReturns(t, out)
  PROVE  CommandInv'
<1> DEFINE results == Append(mem[t].results, out)
           m == [mem[t] EXCEPT !.results = results]
<1>1. mem[t] \in Memory
  BY DEF CommandInv, CommandTypeOK
<1>2. results \in Seq(Outcomes) /\ mem[t].results \in Seq(Outcomes)
  BY <1>1 DEF Memory
<1>3. m \in Memory
  BY <1>1, <1>2 DEF Memory
<1>4. \/ Raise(t, "FAILED", mem[t].results)
      \/ Raise(t, "TIME_BUDGET_EXCEEDED", results)
      \/ GotoWith(t, "step", m)
  BY DEF StepReturns
<1> HIDE DEF results, m
<1> QED
  BY <1>2, <1>3, <1>4, RaiseInv, GotoWithInv
     DEF Statuses, Points, TryPoints, StepPoints

\* A refused step comes back as an outcome.
LEMMA RefusalType == \A s : Refusal(s) \in Outcomes
  BY DEF Refusal, Outcomes

\* A tool turns a tree into a tree.
LEMMA ToolCallType ==
  ASSUME NEW s \in Step, NEW tree \in Tree, NEW out, NEW after, ToolCall(s, tree, out, after)
  PROVE  after \in Tree
<1>1. Written(s, tree) \in Tree
  BY DEF Written, Tree, Step, Contents
<1> QED
  BY <1>1 DEF ToolCall, ApplyPatch, CreateFile, PatchEdit, RunCmd

\* Running a tool, or failing to, leaves a well-formed workspace.
LEMMA RunToolType ==
  ASSUME TypeInv, NEW t \in Proc, RunTool(t)
  PROVE  ws' \in Tree
<1>1. CurrentStep(t) \in Step
  BY CurrentStepType DEF RunTool, StepPoints, At
<1>2. ws \in Tree
  BY DEF TypeInv, TypeOK, EnvironmentTypeOK
<1> QED
  BY <1>1, <1>2, ToolCallType DEF RunTool

\* A fault, even after the effect of a tool, leaves a well-formed workspace.
LEMMA FaultType ==
  ASSUME TypeInv, NEW t \in Proc, Fault(t)
  PROVE  ws' \in Tree
<1>1. ws \in Tree
  BY DEF TypeInv, TypeOK, EnvironmentTypeOK
<1>2. CASE UNCHANGED ws
  BY <1>1, <1>2
<1>3. CASE At(t, "effect") /\ \E out \in Outcomes : ToolCall(CurrentStep(t), ws, out, ws')
  <2>1. CurrentStep(t) \in Step
    BY <1>3, CurrentStepType DEF StepPoints, At
  <2> QED
    BY <1>1, <1>3, <2>1, ToolCallType
<1> QED
  BY <1>2, <1>3 DEF Fault

\* Nor does a tool whose file access breaks spoil the workspace.
LEMMA ToolFailsType ==
  ASSUME TypeInv, NEW t \in Proc, ToolFails(t)
  PROVE  ws' \in Tree
<1>1. ws \in Tree
  BY DEF TypeInv, TypeOK, EnvironmentTypeOK
<1>2. CASE UNCHANGED ws
  BY <1>1, <1>2
<1>3. CASE \E c \in Text : ws' = [ws EXCEPT ![CurrentStep(t).path] = c]
  BY <1>1, <1>3 DEF Tree, Contents
<1> QED
  BY <1>2, <1>3 DEF ToolFails

\* Nor does a restoration that breaks.
LEMMA UndoFailsType ==
  ASSUME TypeInv, NEW t \in Proc, UndoFails(t)
  PROVE  ws' \in Tree
<1>1. ws \in Tree
  BY DEF TypeInv, TypeOK, EnvironmentTypeOK
<1>2. CASE UNCHANGED ws
  BY <1>1, <1>2
<1>3. CASE \E i \in DOMAIN mem[t].snaps, c \in Text : ws' = [ws EXCEPT ![mem[t].snaps[i].path] = c]
  BY <1>1, <1>3 DEF Tree, Contents
<1> QED
  BY <1>2, <1>3 DEF UndoFails

(***************************************************************************)
(* Every step keeps TypeInv: one step per action.                          *)
(***************************************************************************)
LEMMA TypeStep ==
  ASSUME TypeInv, [Next]_vars
  PROVE  TypeInv'
<1> USE DEF At
<1>c. CommandInv
  BY DEF TypeInv, TypeOK, CommandInv
<1>s. UNCHANGED store => StoreTypeOK'
  BY DEF TypeInv, TypeOK, StoreTypeOK, store
<1>e. UNCHANGED <<ws, tokenFile, budget>> => EnvironmentTypeOK'
  BY DEF TypeInv, TypeOK, EnvironmentTypeOK, tokenFile, budget
<1>h. UNCHANGED history => HistoryTypeOK'
  BY DEF TypeInv, TypeOK, HistoryTypeOK, history
<1>t. StoreTypeOK' /\ EnvironmentTypeOK' /\ CommandInv' /\ HistoryTypeOK' => TypeInv'
  BY DEF TypeInv, TypeOK, CommandInv
<1>m. ASSUME NEW t \in Proc PROVE mem[t] \in Memory
  BY DEF TypeInv, TypeOK, CommandTypeOK
<1>j. ASSUME NEW t \in Proc, ~At(t, "idle") PROVE job[t] \in Plan
  BY <1>j DEF TypeInv, Focused
<1>1. ASSUME NEW p \in Plan, Submit(p) PROVE TypeInv'
  <2>1. StoreTypeOK'
    BY <1>1 DEF Submit, StorePending, TypeInv, TypeOK, StoreTypeOK
  <2>2. EnvironmentTypeOK'
    BY <1>1, <1>e DEF Submit
  <2>3. CommandInv'
    BY <1>1, <1>c DEF Submit, command, CommandInv, CommandTypeOK, Focused, MoreSteps, StepIndex
  <2>4. HistoryTypeOK'
    BY <1>1 DEF Submit, TypeInv, TypeOK, HistoryTypeOK
  <2> QED BY <2>1, <2>2, <2>3, <2>4, <1>t
<1>2. ASSUME NEW t \in Proc, NEW p \in Plan, StartApprove(t, p) PROVE TypeInv'
  <2>1. StoreTypeOK'
    BY <1>2, <1>s DEF StartApprove
  <2>2. EnvironmentTypeOK'
    BY <1>2, <1>e DEF StartApprove
  <2>3. CommandInv'
    BY <1>2, <1>c, StartInv
       DEF StartApprove, Points, ApprovePoints, PreflightPoints, TryPoints, StepPoints, FinishPoints
  <2>4. HistoryTypeOK'
    BY <1>2, <1>h DEF StartApprove
  <2> QED BY <2>1, <2>2, <2>3, <2>4, <1>t
<1>3. ASSUME NEW t \in Proc, NEW p \in Plan, StartExecute(t, p) PROVE TypeInv'
  <2>1. StoreTypeOK'
    BY <1>3, <1>s DEF StartExecute
  <2>2. EnvironmentTypeOK'
    BY <1>3, <1>e DEF StartExecute
  <2>3. CommandInv'
    BY <1>3, <1>c, StartInv
       DEF StartExecute, TypeInv, TypeOK, StoreTypeOK, Points, ApprovePoints, PreflightPoints,
           TryPoints, StepPoints, FinishPoints
  <2>4. HistoryTypeOK'
    BY <1>3, <1>h DEF StartExecute
  <2> QED BY <2>1, <2>2, <2>3, <2>4, <1>t
<1>4. ASSUME NEW t \in Proc, Gate(t) PROVE TypeInv'
  <2>1. StoreTypeOK'
    BY <1>4, <1>s DEF Gate
  <2>2. EnvironmentTypeOK'
    BY <1>4, <1>e DEF Gate
  <2>3. CommandInv'
    BY <1>4, <1>c, GotoInv, StopInv
       DEF Gate, Points, ApprovePoints, PreflightPoints, TryPoints, StepPoints, FinishPoints
  <2>4. HistoryTypeOK'
    BY <1>4, <1>h DEF Gate
  <2> QED BY <2>1, <2>2, <2>3, <2>4, <1>t
<1>5. ASSUME NEW t \in Proc, Mark(t) PROVE TypeInv'
  <2>1. StoreTypeOK'
    BY <1>5, <1>s, <1>j, CopyType DEF Mark, TypeInv, TypeOK
  <2>2. EnvironmentTypeOK'
    BY <1>5, <1>e DEF Mark
  <2>3. CommandInv'
    BY <1>5, <1>c, GotoInv, StopInv
       DEF Mark, Points, ApprovePoints, PreflightPoints, TryPoints, StepPoints, FinishPoints
  <2>4. HistoryTypeOK'
    BY <1>5, <1>h DEF Mark
  <2> QED BY <2>1, <2>2, <2>3, <2>4, <1>t
<1>6. ASSUME NEW t \in Proc, Unlink(t) PROVE TypeInv'
  <2>1. StoreTypeOK'
    BY <1>6, <1>s, <1>j DEF Unlink, RemovePending, TypeInv, TypeOK, StoreTypeOK, MarkerStates
  <2>2. EnvironmentTypeOK'
    BY <1>6, <1>e DEF Unlink
  <2>3. CommandInv'
    BY <1>6, <1>c, GotoInv, StopInv
       DEF Unlink, Points, ApprovePoints, PreflightPoints, TryPoints, StepPoints, FinishPoints
  <2>4. HistoryTypeOK'
    BY <1>6, <1>h DEF Unlink
  <2> QED BY <2>1, <2>2, <2>3, <2>4, <1>t
<1>7. ASSUME NEW t \in Proc, RecordWorkspace(t) PROVE TypeInv'
  <2>1. StoreTypeOK'
    BY <1>7, <1>s DEF RecordWorkspace
  <2>2. EnvironmentTypeOK'
    BY <1>7, <1>e DEF RecordWorkspace
  <2>3. CommandInv'
    <3> DEFINE m == [mem[t] EXCEPT !.print = Fingerprint(ws)]
    <3>1. Fingerprint(ws) \in Prints
      BY FingerprintType DEF TypeInv, TypeOK, EnvironmentTypeOK
    <3>2. m \in Memory
      BY <3>1, <1>m DEF Memory
    <3>3. GotoWith(t, "meta", m) /\ ~At(t, "idle")
      BY <1>7 DEF RecordWorkspace
    <3> HIDE DEF m
    <3> QED
      BY <3>2, <3>3, <1>c, GotoWithInv
         DEF Points, ApprovePoints, PreflightPoints, TryPoints, StepPoints, FinishPoints
  <2>4. HistoryTypeOK'
    BY <1>7, <1>h DEF RecordWorkspace
  <2> QED BY <2>1, <2>2, <2>3, <2>4, <1>t
<1>8. ASSUME NEW t \in Proc, WriteMeta(t) PROVE TypeInv'
  <2>1. StoreTypeOK'
    BY <1>8, <1>j, <1>m DEF WriteMeta, PutMeta, Memory, TypeInv, TypeOK, StoreTypeOK
  <2>2. EnvironmentTypeOK'
    BY <1>8, <1>e DEF WriteMeta
  <2>3. CommandInv'
    BY <1>8, <1>c, StopInv DEF WriteMeta
  <2>4. HistoryTypeOK'
    BY <1>8, <1>j DEF WriteMeta, TypeInv, TypeOK, HistoryTypeOK
  <2> QED BY <2>1, <2>2, <2>3, <2>4, <1>t
<1>9. ASSUME NEW t \in Proc, CheckDrift(t) PROVE TypeInv'
  <2>1. StoreTypeOK'
    BY <1>9, <1>s DEF CheckDrift
  <2>2. EnvironmentTypeOK'
    BY <1>9, <1>e DEF CheckDrift
  <2>3. CommandInv'
    BY <1>9, <1>c, GotoInv, StopInv
       DEF CheckDrift, Points, ApprovePoints, PreflightPoints, TryPoints, StepPoints, FinishPoints
  <2>4. HistoryTypeOK'
    BY <1>9, <1>h DEF CheckDrift
  <2> QED BY <2>1, <2>2, <2>3, <2>4, <1>t
<1>10. ASSUME NEW t \in Proc, Lock(t) PROVE TypeInv'
  <2>1. StoreTypeOK'
    BY <1>10, <1>s, <1>j DEF Lock, PutMarker, TypeInv, TypeOK, StoreTypeOK, MarkerStates
  <2>2. EnvironmentTypeOK'
    BY <1>10, <1>e DEF Lock
  <2>3. CommandInv'
    BY <1>10, <1>c, GotoInv, StopInv
       DEF Lock, Points, ApprovePoints, PreflightPoints, TryPoints, StepPoints, FinishPoints
  <2>4. HistoryTypeOK'
    BY <1>10, <1>h DEF Lock
  <2> QED BY <2>1, <2>2, <2>3, <2>4, <1>t
<1>11. ASSUME NEW t \in Proc, Fill(t) PROVE TypeInv'
  <2>1. StoreTypeOK'
    BY <1>11, <1>s, <1>j DEF Fill, PutMarker, TypeInv, TypeOK, StoreTypeOK, MarkerStates
  <2>2. EnvironmentTypeOK'
    BY <1>11, <1>e DEF Fill
  <2>3. CommandInv'
    BY <1>11, <1>c, GotoInv, StopInv
       DEF Fill, Points, ApprovePoints, PreflightPoints, TryPoints, StepPoints, FinishPoints
  <2>4. HistoryTypeOK'
    BY <1>11, <1>j DEF Fill, TypeInv, TypeOK, HistoryTypeOK, EnvironmentTypeOK
  <2> QED BY <2>1, <2>2, <2>3, <2>4, <1>t
<1>12. ASSUME NEW t \in Proc, FillFails(t) PROVE TypeInv'
  <2>1. StoreTypeOK'
    BY <1>12, <1>s, <1>j DEF FillFails, PutMarker, TypeInv, TypeOK, StoreTypeOK, MarkerStates
  <2>2. EnvironmentTypeOK'
    BY <1>12 DEF FillFails, TypeInv, TypeOK, EnvironmentTypeOK, tokenFile, budget
  <2>3. CommandInv'
    BY <1>12, <1>c, StopInv DEF FillFails
  <2>4. HistoryTypeOK'
    BY <1>12, <1>h DEF FillFails
  <2> QED BY <2>1, <2>2, <2>3, <2>4, <1>t
<1>13. ASSUME NEW t \in Proc, Begin(t) PROVE TypeInv'
  <2>1. StoreTypeOK'
    BY <1>13, <1>s DEF Begin
  <2>2. EnvironmentTypeOK'
    BY <1>13, <1>e DEF Begin
  <2>3. CommandInv'
    BY <1>13, <1>c, GotoInv, StopInv
       DEF Begin, Points, ApprovePoints, PreflightPoints, TryPoints, StepPoints, FinishPoints
  <2>4. HistoryTypeOK'
    BY <1>13, <1>h DEF Begin
  <2> QED BY <2>1, <2>2, <2>3, <2>4, <1>t
<1>14. ASSUME NEW t \in Proc, Overrun(t) PROVE TypeInv'
  <2>1. StoreTypeOK'
    BY <1>14, <1>s DEF Overrun
  <2>2. EnvironmentTypeOK'
    BY <1>14, <1>e DEF Overrun
  <2>3. CommandInv'
    BY <1>14, <1>c, <1>m, RaiseInv DEF Overrun, Memory, Statuses
  <2>4. HistoryTypeOK'
    BY <1>14, <1>h DEF Overrun
  <2> QED BY <2>1, <2>2, <2>3, <2>4, <1>t
<1>15. ASSUME NEW t \in Proc, BeginStep(t) PROVE TypeInv'
  <2>1. StoreTypeOK'
    BY <1>15, <1>s DEF BeginStep
  <2>2. EnvironmentTypeOK'
    BY <1>15 DEF BeginStep, TypeInv, TypeOK, EnvironmentTypeOK, tokenFile, budget
  <2>3. CommandInv'
    BY <1>15, <1>c, GotoInv, StopInv
       DEF BeginStep, Points, ApprovePoints, PreflightPoints, TryPoints, StepPoints, FinishPoints
  <2>4. HistoryTypeOK'
    BY <1>15, <1>h DEF BeginStep
  <2> QED BY <2>1, <2>2, <2>3, <2>4, <1>t
<1>16. ASSUME NEW t \in Proc, IssueToken(t) PROVE TypeInv'
  <2>1. StoreTypeOK'
    BY <1>16, <1>s DEF IssueToken
  <2>2. EnvironmentTypeOK'
    BY <1>16 DEF IssueToken, IssuedFrom, TypeInv, TypeOK, EnvironmentTypeOK, tokenFile, budget
  <2>3. CommandInv'
    <3>1. MoreSteps(t)
      BY <1>16 DEF IssueToken, TypeInv, Focused, StepPoints
    <3> QED
      BY <1>16, <3>1, <1>c, GotoInv
         DEF IssueToken, Points, ApprovePoints, PreflightPoints, TryPoints, StepPoints, FinishPoints
  <2>4. HistoryTypeOK'
    BY <1>16, <1>h DEF IssueToken
  <2> QED BY <2>1, <2>2, <2>3, <2>4, <1>t
<1>17. ASSUME NEW t \in Proc, TakeSnapshot(t) PROVE TypeInv'
  <2>1. StoreTypeOK'
    BY <1>17, <1>s DEF TakeSnapshot
  <2>2. EnvironmentTypeOK'
    BY <1>17, <1>e DEF TakeSnapshot
  <2>3. CommandInv'
    <3> DEFINE f == CurrentStep(t).path
               m == [mem[t] EXCEPT !.snaps = Append(@, [path |-> f, content |-> ws[f]])]
    <3>1. CurrentStep(t) \in Step /\ MoreSteps(t)
      BY <1>17, CurrentStepType DEF TakeSnapshot, TypeInv, Focused, StepPoints
    <3>2. f \in Path
      BY <3>1 DEF Step
    <3>3. [path |-> f, content |-> ws[f]] \in Snapshot
      BY <3>2 DEF Snapshot, TypeInv, TypeOK, EnvironmentTypeOK, Tree
    <3>4. Append(mem[t].snaps, [path |-> f, content |-> ws[f]]) \in Seq(Snapshot)
      BY <3>3, <1>m DEF Memory
    <3>5. m \in Memory /\ m.results = mem[t].results
      BY <3>4, <1>m DEF Memory
    <3>6. GotoWith(t, "validate", m) /\ ~At(t, "idle")
      BY <1>17 DEF TakeSnapshot
    <3> HIDE DEF m
    <3> QED
      BY <3>1, <3>5, <3>6, <1>c, GotoWithInv
         DEF Points, ApprovePoints, PreflightPoints, TryPoints, StepPoints, FinishPoints
  <2>4. HistoryTypeOK'
    BY <1>17, <1>h DEF TakeSnapshot
  <2> QED BY <2>1, <2>2, <2>3, <2>4, <1>t
<1>18. ASSUME NEW t \in Proc, Validate(t) PROVE TypeInv'
  <2>1. StoreTypeOK'
    BY <1>18, <1>s DEF Validate
  <2>2. EnvironmentTypeOK'
    BY <1>18, <1>e DEF Validate
  <2>3. CommandInv'
    <3>1. CASE Permitted(t, CurrentStep(t))
      <4>1. MoreSteps(t)
        BY <1>18 DEF Validate, TypeInv, Focused, StepPoints
      <4> QED
        BY <1>18, <3>1, <4>1, <1>c, GotoInv
           DEF Validate, Points, ApprovePoints, PreflightPoints, TryPoints, StepPoints, FinishPoints
    <3>2. CASE ~Permitted(t, CurrentStep(t))
      BY <1>18, <3>2, <1>c, StepReturnsInv, RefusalType DEF Validate
    <3> QED
      BY <3>1, <3>2
  <2>4. HistoryTypeOK'
    BY <1>18, <1>h DEF Validate
  <2> QED BY <2>1, <2>2, <2>3, <2>4, <1>t
<1>19. ASSUME NEW t \in Proc, RunTool(t) PROVE TypeInv'
  <2>1. StoreTypeOK'
    BY <1>19, <1>s DEF RunTool
  <2>2. EnvironmentTypeOK'
    BY <1>19, RunToolType DEF RunTool, TypeInv, TypeOK, EnvironmentTypeOK, tokenFile, budget
  <2>3. CommandInv'
    BY <1>19, <1>c, StepReturnsInv DEF RunTool
  <2>4. HistoryTypeOK'
    BY <1>19, <1>h DEF RunTool
  <2> QED BY <2>1, <2>2, <2>3, <2>4, <1>t
<1>20. ASSUME NEW t \in Proc, Finish(t) PROVE TypeInv'
  <2>1. StoreTypeOK'
    BY <1>20, <1>s DEF Finish
  <2>2. EnvironmentTypeOK'
    BY <1>20, <1>e DEF Finish
  <2>3. CommandInv'
    <3> DEFINE status == Classify(job[t], mem[t].results)
               m == [mem[t] EXCEPT !.status = status]
    <3>1. status \in Statuses
      BY ClassifyType
    <3>2. m \in Memory /\ mem[t].results \in Seq(Outcomes)
      BY <3>1, <1>m DEF Memory
    <3>3. ~At(t, "idle")
      BY <1>20 DEF Finish
    <3>4. \/ GotoWith(t, "summary", m)
          \/ Rollback(t, status, FALSE, mem[t].results)
      BY <1>20 DEF Finish
    <3> HIDE DEF status, m
    <3> QED
      BY <3>1, <3>2, <3>3, <3>4, <1>c, GotoWithInv, RollbackInv
         DEF Points, ApprovePoints, PreflightPoints, TryPoints, StepPoints, FinishPoints
  <2>4. HistoryTypeOK'
    BY <1>20, <1>h DEF Finish
  <2> QED BY <2>1, <2>2, <2>3, <2>4, <1>t
<1>21. ASSUME NEW t \in Proc, UndoPath(t) PROVE TypeInv'
  <2>1. StoreTypeOK'
    BY <1>21, <1>s DEF UndoPath
  <2>2. EnvironmentTypeOK'
    <3> PICK i \in DOMAIN mem[t].snaps :
            ws' = [ws EXCEPT ![mem[t].snaps[i].path] = mem[t].snaps[i].content]
      BY <1>21 DEF UndoPath
    <3>1. mem[t].snaps[i] \in Snapshot
      BY <1>m DEF Memory
    <3> QED
      BY <1>21, <3>1
         DEF UndoPath, Snapshot, Tree, TypeInv, TypeOK, EnvironmentTypeOK, tokenFile, budget
  <2>3. CommandInv'
    <3> PICK i \in DOMAIN mem[t].snaps :
            GotoWith(t, "undo", [mem[t] EXCEPT !.undo = @ \ {i}])
      BY <1>21 DEF UndoPath
    <3>1. [mem[t] EXCEPT !.undo = @ \ {i}] \in Memory
      BY <1>m DEF Memory
    <3> QED
      BY <1>21, <3>1, <1>c, GotoWithInv
         DEF UndoPath, Points, ApprovePoints, PreflightPoints, TryPoints, StepPoints, FinishPoints
  <2>4. HistoryTypeOK'
    BY <1>21, <1>h DEF UndoPath
  <2> QED BY <2>1, <2>2, <2>3, <2>4, <1>t
<1>22. ASSUME NEW t \in Proc, UndoFails(t) PROVE TypeInv'
  <2>1. StoreTypeOK'
    BY <1>22, <1>s DEF UndoFails
  <2>2. EnvironmentTypeOK'
    <3>1. UNCHANGED <<tokenFile, edits, crashes>> /\ faults' = faults + 1
      BY <1>22 DEF UndoFails
    <3> QED
      BY <1>22, <3>1, UndoFailsType DEF TypeInv, TypeOK, EnvironmentTypeOK, tokenFile
  <2>3. CommandInv'
    <3> DEFINE m(i) == [mem[t] EXCEPT !.undo = @ \ {i}, !.errors = @ \cup {mem[t].snaps[i].path}]
    <3>1. PICK i \in DOMAIN mem[t].snaps : GotoWith(t, "undo", m(i))
      BY <1>22 DEF UndoFails
    <3>2. mem[t].snaps[i] \in Snapshot
      BY <1>m DEF Memory
    <3>3. mem[t].snaps[i].path \in Path
      BY <3>2 DEF Snapshot
    <3>4. m(i) \in Memory
      BY <3>3, <1>m DEF Memory
    <3>5. ~At(t, "idle")
      BY <1>22 DEF UndoFails
    <3> HIDE DEF m
    <3> QED
      BY <3>1, <3>4, <3>5, <1>c, GotoWithInv
         DEF Points, ApprovePoints, PreflightPoints, TryPoints, StepPoints, FinishPoints
  <2>4. HistoryTypeOK'
    BY <1>22, <1>h DEF UndoFails
  <2> QED BY <2>1, <2>2, <2>3, <2>4, <1>t
<1>23. ASSUME NEW t \in Proc, UndoDone(t) PROVE TypeInv'
  <2>1. StoreTypeOK'
    BY <1>23, <1>s DEF UndoDone
  <2>2. EnvironmentTypeOK'
    BY <1>23, <1>e DEF UndoDone
  <2>3. CommandInv'
    BY <1>23, <1>c, GotoInv, StopInv
       DEF UndoDone, Points, ApprovePoints, PreflightPoints, TryPoints, StepPoints, FinishPoints
  <2>4. HistoryTypeOK'
    BY <1>23, <1>h DEF UndoDone
  <2> QED BY <2>1, <2>2, <2>3, <2>4, <1>t
<1>24. ASSUME NEW t \in Proc, WriteSummary(t) PROVE TypeInv'
  <2>1. StoreTypeOK'
    <3> DEFINE r == [status |-> mem[t].status, errors |-> mem[t].errors,
                     failed |-> FailedTests(job[t], mem[t].results)]
    <3>1. job[t] \in Plan
      BY <1>24, <1>j DEF WriteSummary
    <3>2. FailedTests(job[t], mem[t].results) \in Nat
      BY <3>1, <1>m, FailedTestsType DEF Memory
    <3>3. r \in Summary
      BY <3>2, <1>m DEF Summary, Memory
    <3> HIDE DEF r
    <3>4. PutSummary(job[t], r)
      BY <1>24 DEF WriteSummary, r
    <3> QED
      BY <3>3, <3>4 DEF PutSummary, TypeInv, TypeOK, StoreTypeOK
  <2>2. EnvironmentTypeOK'
    BY <1>24, <1>e DEF WriteSummary
  <2>3. CommandInv'
    BY <1>24, <1>c, GotoInv, StopInv
       DEF WriteSummary, Points, ApprovePoints, PreflightPoints, TryPoints, StepPoints, FinishPoints
  <2>4. HistoryTypeOK'
    BY <1>24, <1>h DEF WriteSummary
  <2> QED BY <2>1, <2>2, <2>3, <2>4, <1>t
<1>25. ASSUME NEW t \in Proc, WriteTerminal(t) PROVE TypeInv'
  <2>1. StoreTypeOK'
    BY <1>25, <1>s, <1>j
       DEF WriteTerminal, PutMarker, TypeInv, TypeOK, StoreTypeOK, MarkerStates, TerminalState
  <2>2. EnvironmentTypeOK'
    BY <1>25, <1>e DEF WriteTerminal
  <2>3. CommandInv'
    BY <1>25, <1>c, <1>m, GotoInv, RaiseInv
       DEF WriteTerminal, Memory, Statuses, Points, ApprovePoints, PreflightPoints, TryPoints,
           StepPoints, FinishPoints
  <2>4. HistoryTypeOK'
    BY <1>25, <1>h DEF WriteTerminal
  <2> QED BY <2>1, <2>2, <2>3, <2>4, <1>t
<1>26. ASSUME NEW t \in Proc, AfterTerminal(t) PROVE TypeInv'
  <2>1. StoreTypeOK'
    BY <1>26, <1>s DEF AfterTerminal
  <2>2. EnvironmentTypeOK'
    BY <1>26, <1>e DEF AfterTerminal
  <2>3. CommandInv'
    BY <1>26, <1>c, GotoInv, StopInv
       DEF AfterTerminal, Points, ApprovePoints, PreflightPoints, TryPoints, StepPoints,
           FinishPoints
  <2>4. HistoryTypeOK'
    BY <1>26, <1>h DEF AfterTerminal
  <2> QED BY <2>1, <2>2, <2>3, <2>4, <1>t
<1>27. ASSUME NEW t \in Proc, WriteEnvelope(t) PROVE TypeInv'
  <2>1. StoreTypeOK'
    BY <1>27, <1>j, <1>m
       DEF WriteEnvelope, PutEnvelope, Envelope, Memory, TypeInv, TypeOK, StoreTypeOK
  <2>2. EnvironmentTypeOK'
    BY <1>27, <1>e DEF WriteEnvelope
  <2>3. CommandInv'
    BY <1>27, <1>c, GotoInv, StopInv
       DEF WriteEnvelope, Points, ApprovePoints, PreflightPoints, TryPoints, StepPoints,
           FinishPoints
  <2>4. HistoryTypeOK'
    BY <1>27, <1>h DEF WriteEnvelope
  <2> QED BY <2>1, <2>2, <2>3, <2>4, <1>t
<1>28. ASSUME NEW t \in Proc, Report(t) PROVE TypeInv'
  <2>1. StoreTypeOK'
    BY <1>28, <1>s DEF Report
  <2>2. EnvironmentTypeOK'
    BY <1>28, <1>e DEF Report
  <2>3. CommandInv'
    BY <1>28, <1>c, StopInv DEF Report
  <2>4. HistoryTypeOK'
    BY <1>28, <1>h DEF Report
  <2> QED BY <2>1, <2>2, <2>3, <2>4, <1>t
<1>29. ASSUME NEW t \in Proc, Fault(t) PROVE TypeInv'
  <2>1. StoreTypeOK'
    BY <1>29, <1>s DEF Fault
  <2>2. EnvironmentTypeOK'
    BY <1>29, FaultType DEF Fault, TypeInv, TypeOK, EnvironmentTypeOK, tokenFile, budget
  <2>3. CommandInv'
    BY <1>29, <1>c, <1>m, RaiseInv, StopInv DEF Fault, Memory, Statuses
  <2>4. HistoryTypeOK'
    BY <1>29, <1>h DEF Fault
  <2> QED BY <2>1, <2>2, <2>3, <2>4, <1>t
<1>30. ASSUME NEW t \in Proc, Crash(t) PROVE TypeInv'
  <2>1. StoreTypeOK'
    BY <1>30, <1>s DEF Crash
  <2>2. EnvironmentTypeOK'
    BY <1>30 DEF Crash, TypeInv, TypeOK, EnvironmentTypeOK, tokenFile, budget
  <2>3. CommandInv'
    BY <1>30, <1>c, StopInv DEF Crash
  <2>4. HistoryTypeOK'
    BY <1>30, <1>h DEF Crash
  <2> QED BY <2>1, <2>2, <2>3, <2>4, <1>t
<1>31. ASSUME NEW e \in OutsideEdits, Edit(e[1], e[2]) PROVE TypeInv'
  <2>1. StoreTypeOK'
    BY <1>31, <1>s DEF Edit
  <2>2. EnvironmentTypeOK'
    BY <1>31, BoundsAreNaturals
       DEF Edit, TypeInv, TypeOK, EnvironmentTypeOK, Tree, tokenFile, budget
  <2>3. CommandInv'
    BY <1>31, <1>c DEF Edit, command, CommandInv, CommandTypeOK, Focused, MoreSteps, StepIndex
  <2>4. HistoryTypeOK'
    BY <1>31, <1>h DEF Edit
  <2> QED BY <2>1, <2>2, <2>3, <2>4, <1>t
<1>32. CASE UNCHANGED vars
  BY <1>32, <1>c, <1>s, <1>e, <1>h, <1>t
     DEF vars, command, CommandInv, CommandTypeOK, Focused, MoreSteps, StepIndex
<1>33. ASSUME NEW t \in Proc, ToolFails(t) PROVE TypeInv'
  <2>1. StoreTypeOK'
    BY <1>33, <1>s DEF ToolFails
  <2>2. EnvironmentTypeOK'
    BY <1>33, ToolFailsType DEF ToolFails, TypeInv, TypeOK, EnvironmentTypeOK, tokenFile, budget
  <2>3. CommandInv'
    BY <1>33, <1>c, StepReturnsInv DEF ToolFails, Outcomes
  <2>4. HistoryTypeOK'
    BY <1>33, <1>h DEF ToolFails
  <2> QED BY <2>1, <2>2, <2>3, <2>4, <1>t
<1>34. ASSUME NEW t \in Proc, Copy(t) PROVE TypeInv'
  <2>1. StoreTypeOK'
    BY <1>34, <1>s, <1>j, CopyType DEF Copy, TypeInv, TypeOK
  <2>2. EnvironmentTypeOK'
    BY <1>34, <1>e DEF Copy
  <2>3. CommandInv'
    BY <1>34, <1>c, GotoInv, StopInv
       DEF Copy, Points, ApprovePoints, PreflightPoints, TryPoints, StepPoints, FinishPoints
  <2>4. HistoryTypeOK'
    BY <1>34, <1>h DEF Copy
  <2> QED BY <2>1, <2>2, <2>3, <2>4, <1>t
<1>35. ASSUME NEW t \in Proc, Rename(t) PROVE TypeInv'
  <2>1. StoreTypeOK'
    BY <1>35, <1>s, <1>j, CopyType DEF Rename, TypeInv, TypeOK
  <2>2. EnvironmentTypeOK'
    BY <1>35, <1>e DEF Rename
  <2>3. CommandInv'
    BY <1>35, <1>c, GotoInv, StopInv
       DEF Rename, Points, ApprovePoints, PreflightPoints, TryPoints, StepPoints, FinishPoints
  <2>4. HistoryTypeOK'
    BY <1>35, <1>h DEF Rename
  <2> QED BY <2>1, <2>2, <2>3, <2>4, <1>t
<1> QED
  BY <1>1, <1>2, <1>3, <1>4, <1>5, <1>6, <1>7, <1>8, <1>9, <1>10, <1>11, <1>12, <1>13, <1>14,
     <1>15, <1>16, <1>17, <1>18, <1>19, <1>20, <1>21, <1>22, <1>23, <1>24, <1>25, <1>26,
     <1>27, <1>28, <1>29, <1>30, <1>31, <1>32, <1>33, <1>34, <1>35 DEF Next, Continue

\* Init establishes TypeInv.
LEMMA TypeInit == Init => TypeInv
<1> SUFFICES ASSUME Init PROVE TypeInv
  OBVIOUS
<1>1. StoreTypeOK
  BY DEF Init, StoreInit, StoreTypeOK, MarkerStates, NoFile, File
<1>2. EnvironmentTypeOK
  BY BoundsAreNaturals DEF Init, EnvironmentTypeOK
<1>3. CommandTypeOK
  <2>1. Fresh \in Memory
    BY FreshType
  <2> QED
    BY <2>1 DEF Init, CommandTypeOK, Points
<1>4. HistoryTypeOK
  BY BoundsAreNaturals DEF Init, HistoryTypeOK
<1>5. Focused
  BY DEF Init, Focused, StepPoints
<1> QED
  BY <1>1, <1>2, <1>3, <1>4, <1>5 DEF TypeInv, TypeOK

\* Every variable keeps its type, and every command of the step loop is at a
\* step of its plan (all of plan_executor.py and plan_store.py).
THEOREM TypeCorrect == Spec => [](TypeOK /\ Focused)
<1>1. Init => TypeInv
  BY TypeInit
<1>2. TypeInv /\ [Next]_vars => TypeInv'
  BY TypeStep
<1> QED
  BY <1>1, <1>2, PTL DEF Spec, TypeInv

(***************************************************************************)
(* The execution lock.  Most steps are quiet: they touch neither the marker nor  *)
(* the start counter, and take no process into the part of a command that  *)
(* holds the lock.                                                         *)
(***************************************************************************)
Quiet(t) ==
    /\ UNCHANGED <<marker, starts>>
    /\ \A u \in Proc \ {t} : pc'[u] = pc[u] /\ job'[u] = job[u]
    /\ Locking(t)' => Locking(t) /\ job'[t] = job[t]
    /\ Executing(t)' => Executing(t) /\ job'[t] = job[t]

\* A quiet step keeps the lock invariant.
LEMMA QuietStep ==
  ASSUME LockInv, NEW t \in Proc, Quiet(t)
  PROVE  LockInv'
<1>1. ASSUME NEW u \in Proc
      PROVE  /\ Locking(u)' => Locking(u) /\ job'[u] = job[u]
             /\ Executing(u)' => Executing(u) /\ job'[u] = job[u]
  <2>1. CASE u = t
    BY <2>1 DEF Quiet
  <2>2. CASE u # t
    BY <2>2 DEF Quiet, Locking, Executing
  <2> QED
    BY <2>1, <2>2
<1>2. UNCHANGED <<marker, starts>>
  BY DEF Quiet
<1>3. SingleRunner'
  BY <1>1 DEF LockInv, SingleRunner, Running
<1>4. StartedOnce'
  BY <1>2 DEF LockInv, StartedOnce
<1> QED
  BY <1>1, <1>2, <1>3, <1>4 DEF LockInv

\* Ending a command, going on within the try block and raising are quiet.
LEMMA QuietControl ==
  ASSUME CommandTypeOK, NEW t \in Proc, UNCHANGED <<marker, starts>>
  PROVE  /\ Stop(t) => Quiet(t)
         /\ \A point \in {"gate", "mark", "copy", "rename", "unlink", "print", "meta", "drift", "lock"} :
               Goto(t, point) => Quiet(t)
         /\ \A point \in TryPoints : Executing(t) /\ Goto(t, point) => Quiet(t)
         /\ \A point, m : point \in TryPoints /\ Executing(t) /\ GotoWith(t, point, m) => Quiet(t)
<1> USE DEF CommandTypeOK, Quiet, Locking, Executing, TryPoints, StepPoints, FinishPoints
<1>1. Stop(t) => Quiet(t)
  BY DEF Stop
<1>2. ASSUME NEW point \in {"gate", "mark", "copy", "rename", "unlink", "print", "meta", "drift", "lock"}, Goto(t, point)
      PROVE  Quiet(t)
  BY <1>2 DEF Goto
<1>3. ASSUME NEW point \in TryPoints, Executing(t), Goto(t, point)
      PROVE  Quiet(t)
  BY <1>3 DEF Goto
<1>4. ASSUME NEW point, NEW m, point \in TryPoints, Executing(t), GotoWith(t, point, m)
      PROVE  Quiet(t)
  BY <1>4 DEF GotoWith
<1> QED
  BY <1>1, <1>2, <1>3, <1>4

\* So is everything that an exception in the try or except block does.
LEMMA QuietRaise ==
  ASSUME CommandTypeOK, NEW t \in Proc, UNCHANGED <<marker, starts>>, Executing(t)
  PROVE  /\ \A class, handling, results : Rollback(t, class, handling, results) => Quiet(t)
         /\ \A class, results : Raise(t, class, results) => Quiet(t)
         /\ \A out : StepReturns(t, out) => Quiet(t)
<1>1. "undo" \in TryPoints /\ "step" \in TryPoints
  BY DEF TryPoints, StepPoints, FinishPoints
<1>2. ASSUME NEW class, NEW handling, NEW results, Rollback(t, class, handling, results)
      PROVE  Quiet(t)
  BY <1>1, <1>2, QuietControl DEF Rollback
<1>3. ASSUME NEW class, NEW results, Raise(t, class, results)
      PROVE  Quiet(t)
  BY <1>2, <1>3, QuietControl DEF Raise
<1>4. ASSUME NEW out, StepReturns(t, out)
      PROVE  Quiet(t)
  BY <1>1, <1>3, <1>4, QuietControl DEF StepReturns
<1> QED
  BY <1>2, <1>3, <1>4

\* Every step keeps the lock invariant.
LEMMA LockStep ==
  ASSUME TypeInv, LockInv, [Next]_vars
  PROVE  LockInv'
<1> USE DEF At
<1>c. CommandTypeOK
  BY DEF TypeInv, TypeOK
<1>q. ASSUME NEW t \in Proc, Quiet(t) PROVE LockInv'
  BY <1>q, QuietStep
<1>1. ASSUME NEW p \in Plan, Submit(p) PROVE LockInv'
  BY <1>1
     DEF Submit, StorePending, command, LockInv, SingleRunner, StartedOnce, Running, Locking,
         Executing
<1>2. ASSUME NEW t \in Proc, NEW p \in Plan, StartApprove(t, p) \/ StartExecute(t, p) PROVE LockInv'
  <2>1. Quiet(t)
    BY <1>2, <1>c DEF StartApprove, StartExecute, Start, Quiet, Locking, Executing, CommandTypeOK,
       TryPoints, StepPoints, FinishPoints, store, history
  <2> QED
    BY <2>1, <1>q
<1>3. ASSUME NEW t \in Proc, Gate(t) PROVE LockInv'
  <2>1. UNCHANGED <<marker, starts>>
    BY <1>3 DEF Gate, store, history
  <2> QED
    BY <1>3, <2>1, <1>c, <1>q, QuietControl DEF Gate
<1>4. ASSUME NEW t \in Proc, Mark(t) PROVE LockInv'
  <2>1. UNCHANGED <<marker, starts>>
    BY <1>4 DEF Mark, store, history, OpenTemp
  <2> QED
    BY <1>4, <2>1, <1>c, <1>q, QuietControl DEF Mark
<1>5. ASSUME NEW t \in Proc, Unlink(t) PROVE LockInv'
  <2>1. UNCHANGED <<marker, starts>>
    BY <1>5 DEF Unlink, store, history, RemovePending
  <2> QED
    BY <1>5, <2>1, <1>c, <1>q, QuietControl DEF Unlink
<1>6. ASSUME NEW t \in Proc, RecordWorkspace(t) PROVE LockInv'
  <2>1. Quiet(t)
    BY <1>6, <1>c DEF RecordWorkspace, GotoWith, Quiet, Locking, Executing, CommandTypeOK,
       TryPoints, StepPoints, FinishPoints, store, history
  <2> QED
    BY <2>1, <1>q
<1>7. ASSUME NEW t \in Proc, WriteMeta(t) PROVE LockInv'
  <2>1. UNCHANGED <<marker, starts>>
    BY <1>7 DEF WriteMeta, store, history, PutMeta
  <2> QED
    BY <1>7, <2>1, <1>c, <1>q, QuietControl DEF WriteMeta
<1>8. ASSUME NEW t \in Proc, CheckDrift(t) PROVE LockInv'
  <2>1. UNCHANGED <<marker, starts>>
    BY <1>8 DEF CheckDrift, store, history
  <2> QED
    BY <1>8, <2>1, <1>c, <1>q, QuietControl DEF CheckDrift
<1>9. ASSUME NEW t \in Proc, Lock(t) PROVE LockInv'
  <2>0. job[t] \in Plan
    BY <1>9 DEF Lock, TypeInv, Focused
  <2>1. CASE ~MarkerFree(job[t])
    <3>1. UNCHANGED <<marker, starts>>
      BY <1>9, <2>1 DEF Lock, store, history
    <3> QED
      BY <1>9, <2>1, <3>1, <1>c, <1>q, QuietControl DEF Lock
  <2>2. CASE MarkerFree(job[t])
    <3>1. /\ marker[job[t]] = "none" /\ starts' = starts /\ job' = job
          /\ marker' = [marker EXCEPT ![job[t]] = "created"]
          /\ pc' = [pc EXCEPT ![t] = "fill"]
      BY <1>9, <2>2 DEF Lock, MarkerFree, PutMarker, Goto, history
    <3>2. \A u \in Proc : Running(u) => job[u] # job[t]
      BY <3>1 DEF LockInv, Running
    <3>3. \A u \in Proc \ {t} : Locking(u)' = Locking(u) /\ Executing(u)' = Executing(u)
      BY <3>1, <1>c DEF Locking, Executing, CommandTypeOK
    <3>4. Locking(t)' /\ ~Executing(t)'
      BY <3>1, <1>c DEF Locking, Executing, CommandTypeOK, TryPoints, StepPoints, FinishPoints
    <3>5. SingleRunner'
      BY <3>1, <3>2, <3>3, <3>4 DEF LockInv, SingleRunner, Running
    <3>6. StartedOnce' /\ (\A p \in Plan : marker[p] \in {"none", "created"} => starts[p] = 0)'
      BY <3>1, <2>0 DEF LockInv, StartedOnce, TypeInv, TypeOK, StoreTypeOK
    <3>7. (\A u \in Proc : Locking(u) => marker[job[u]] = "created")'
      BY <3>1, <3>2, <3>3, <2>0 DEF LockInv, Running, TypeInv, TypeOK, StoreTypeOK
    <3>8. (\A u \in Proc : Executing(u) => marker[job[u]] \in {"IN_FLIGHT", "EXECUTED", "FAILED"})'
      BY <3>1, <3>2, <3>3, <3>4, <2>0 DEF LockInv, Running, TypeInv, TypeOK, StoreTypeOK
    <3> QED
      BY <3>5, <3>6, <3>7, <3>8 DEF LockInv
  <2> QED
    BY <2>1, <2>2
<1>10. ASSUME NEW t \in Proc, Fill(t) PROVE LockInv'
  <2>0. job[t] \in Plan /\ Locking(t)
    BY <1>10 DEF Fill, Locking, TypeInv, Focused
  <2>1. /\ marker' = [marker EXCEPT ![job[t]] = "IN_FLIGHT"] /\ job' = job
        /\ pc' = [pc EXCEPT ![t] = "begin"]
        /\ starts' = [starts EXCEPT ![job[t]] = @ + 1]
    BY <1>10 DEF Fill, PutMarker, Goto
  <2>2. marker[job[t]] = "created" /\ starts[job[t]] = 0
    BY <2>0 DEF LockInv
  <2>3. \A u \in Proc \ {t} : Running(u) => job[u] # job[t]
    BY <2>0 DEF LockInv, SingleRunner, Running
  <2>4. \A u \in Proc \ {t} : Locking(u)' = Locking(u) /\ Executing(u)' = Executing(u)
    BY <2>1, <1>c DEF Locking, Executing, CommandTypeOK
  <2>5. ~Locking(t)' /\ Executing(t)'
    BY <2>1, <1>c DEF Locking, Executing, CommandTypeOK
  <2>6. SingleRunner'
    BY <2>0, <2>1, <2>3, <2>4 DEF LockInv, SingleRunner, Running
  <2>7. StartedOnce' /\ (\A p \in Plan : marker[p] \in {"none", "created"} => starts[p] = 0)'
    BY <2>0, <2>1, <2>2 DEF LockInv, StartedOnce, TypeInv, TypeOK, StoreTypeOK, HistoryTypeOK
  <2>8. (\A u \in Proc : Locking(u) => marker[job[u]] = "created")'
    BY <2>0, <2>1, <2>3, <2>4, <2>5 DEF LockInv, Running, TypeInv, TypeOK, StoreTypeOK
  <2>9. (\A u \in Proc : Executing(u) => marker[job[u]] \in {"IN_FLIGHT", "EXECUTED", "FAILED"})'
    BY <2>0, <2>1, <2>3, <2>4 DEF LockInv, Running, TypeInv, TypeOK, StoreTypeOK
  <2> QED
    BY <2>6, <2>7, <2>8, <2>9 DEF LockInv
<1>11. ASSUME NEW t \in Proc, FillFails(t) PROVE LockInv'
  <2>0. job[t] \in Plan /\ Locking(t)
    BY <1>11 DEF FillFails, Locking, TypeInv, Focused
  <2>1. PICK state \in {"none", "created"} : marker' = [marker EXCEPT ![job[t]] = state]
    BY <1>11 DEF FillFails, PutMarker
  <2>2. starts' = starts /\ pc' = [pc EXCEPT ![t] = "idle"] /\ job' = [job EXCEPT ![t] = None]
    BY <1>11 DEF FillFails, Stop, history
  <2>3. starts[job[t]] = 0
    BY <2>0 DEF LockInv
  <2>4. \A u \in Proc \ {t} : Running(u) => job[u] # job[t]
    BY <2>0 DEF LockInv, SingleRunner, Running
  <2>5. \A u \in Proc \ {t} : Locking(u)' = Locking(u) /\ Executing(u)' = Executing(u) /\ job'[u] = job[u]
    BY <2>2, <1>c DEF Locking, Executing, CommandTypeOK
  <2>6. ~Locking(t)' /\ ~Executing(t)'
    BY <2>2, <1>c DEF Locking, Executing, CommandTypeOK, TryPoints, StepPoints, FinishPoints
  <2>7. SingleRunner'
    BY <2>5, <2>6 DEF LockInv, SingleRunner, Running
  <2>8. StartedOnce' /\ (\A p \in Plan : marker[p] \in {"none", "created"} => starts[p] = 0)'
    BY <2>0, <2>1, <2>2, <2>3 DEF LockInv, StartedOnce, TypeInv, TypeOK, StoreTypeOK
  <2>9. (\A u \in Proc : Locking(u) => marker[job[u]] = "created")'
    BY <2>0, <2>1, <2>4, <2>5, <2>6 DEF LockInv, Running, TypeInv, TypeOK, StoreTypeOK
  <2>10. (\A u \in Proc : Executing(u) => marker[job[u]] \in {"IN_FLIGHT", "EXECUTED", "FAILED"})'
    BY <2>0, <2>1, <2>4, <2>5, <2>6 DEF LockInv, Running, TypeInv, TypeOK, StoreTypeOK
  <2> QED
    BY <2>7, <2>8, <2>9, <2>10 DEF LockInv
<1>12. ASSUME NEW t \in Proc, Begin(t) PROVE LockInv'
  <2>1. UNCHANGED <<marker, starts>>
    BY <1>12 DEF Begin, store, history
  <2>2. Executing(t)
    BY <1>12 DEF Begin, Executing, TryPoints, StepPoints, FinishPoints
  <2> QED
    BY <1>12, <2>1, <2>2, <1>c, <1>q, QuietControl, QuietRaise
       DEF Begin, TryPoints, StepPoints, FinishPoints
<1>13. ASSUME NEW t \in Proc, Overrun(t) PROVE LockInv'
  <2>1. UNCHANGED <<marker, starts>>
    BY <1>13 DEF Overrun, store, history
  <2>2. Executing(t)
    BY <1>13 DEF Overrun, Executing, TryPoints, StepPoints, FinishPoints
  <2> QED
    BY <1>13, <2>1, <2>2, <1>c, <1>q, QuietControl, QuietRaise
       DEF Overrun, TryPoints, StepPoints, FinishPoints
<1>14. ASSUME NEW t \in Proc, BeginStep(t) PROVE LockInv'
  <2>1. UNCHANGED <<marker, starts>>
    BY <1>14 DEF BeginStep, store, history
  <2>2. Executing(t)
    BY <1>14 DEF BeginStep, Executing, TryPoints, StepPoints, FinishPoints
  <2> QED
    BY <1>14, <2>1, <2>2, <1>c, <1>q, QuietControl, QuietRaise
       DEF BeginStep, TryPoints, StepPoints, FinishPoints
<1>15. ASSUME NEW t \in Proc, IssueToken(t) PROVE LockInv'
  <2>1. UNCHANGED <<marker, starts>>
    BY <1>15 DEF IssueToken, store, history
  <2>2. Executing(t)
    BY <1>15 DEF IssueToken, Executing, TryPoints, StepPoints, FinishPoints
  <2> QED
    BY <1>15, <2>1, <2>2, <1>c, <1>q, QuietControl, QuietRaise
       DEF IssueToken, TryPoints, StepPoints, FinishPoints
<1>16. ASSUME NEW t \in Proc, TakeSnapshot(t) PROVE LockInv'
  <2>1. UNCHANGED <<marker, starts>>
    BY <1>16 DEF TakeSnapshot, store, history
  <2>2. Executing(t)
    BY <1>16 DEF TakeSnapshot, Executing, TryPoints, StepPoints, FinishPoints
  <2> QED
    BY <1>16, <2>1, <2>2, <1>c, <1>q, QuietControl, QuietRaise
       DEF TakeSnapshot, TryPoints, StepPoints, FinishPoints
<1>17. ASSUME NEW t \in Proc, Validate(t) PROVE LockInv'
  <2>1. UNCHANGED <<marker, starts>>
    BY <1>17 DEF Validate, store, history
  <2>2. Executing(t)
    BY <1>17 DEF Validate, Executing, TryPoints, StepPoints, FinishPoints
  <2> QED
    BY <1>17, <2>1, <2>2, <1>c, <1>q, QuietControl, QuietRaise
       DEF Validate, TryPoints, StepPoints, FinishPoints
<1>18. ASSUME NEW t \in Proc, RunTool(t) PROVE LockInv'
  <2>1. UNCHANGED <<marker, starts>>
    BY <1>18 DEF RunTool, store, history
  <2>2. Executing(t)
    BY <1>18 DEF RunTool, Executing, TryPoints, StepPoints, FinishPoints
  <2> QED
    BY <1>18, <2>1, <2>2, <1>c, <1>q, QuietControl, QuietRaise
       DEF RunTool, TryPoints, StepPoints, FinishPoints
<1>19. ASSUME NEW t \in Proc, Finish(t) PROVE LockInv'
  <2>1. UNCHANGED <<marker, starts>>
    BY <1>19 DEF Finish, store, history
  <2>2. Executing(t)
    BY <1>19 DEF Finish, Executing, TryPoints, StepPoints, FinishPoints
  <2> QED
    BY <1>19, <2>1, <2>2, <1>c, <1>q, QuietControl, QuietRaise
       DEF Finish, TryPoints, StepPoints, FinishPoints
<1>20. ASSUME NEW t \in Proc, UndoPath(t) PROVE LockInv'
  <2>1. UNCHANGED <<marker, starts>>
    BY <1>20 DEF UndoPath, store, history
  <2>2. Executing(t)
    BY <1>20 DEF UndoPath, Executing, TryPoints, StepPoints, FinishPoints
  <2> QED
    BY <1>20, <2>1, <2>2, <1>c, <1>q, QuietControl, QuietRaise
       DEF UndoPath, TryPoints, StepPoints, FinishPoints
<1>21. ASSUME NEW t \in Proc, UndoFails(t) PROVE LockInv'
  <2>1. UNCHANGED <<marker, starts>>
    BY <1>21 DEF UndoFails, store, history
  <2>2. Executing(t)
    BY <1>21 DEF UndoFails, Executing, TryPoints, StepPoints, FinishPoints
  <2> QED
    BY <1>21, <2>1, <2>2, <1>c, <1>q, QuietControl, QuietRaise
       DEF UndoFails, TryPoints, StepPoints, FinishPoints
<1>22. ASSUME NEW t \in Proc, UndoDone(t) PROVE LockInv'
  <2>1. UNCHANGED <<marker, starts>>
    BY <1>22 DEF UndoDone, store, history
  <2>2. Executing(t)
    BY <1>22 DEF UndoDone, Executing, TryPoints, StepPoints, FinishPoints
  <2> QED
    BY <1>22, <2>1, <2>2, <1>c, <1>q, QuietControl, QuietRaise
       DEF UndoDone, TryPoints, StepPoints, FinishPoints
<1>23. ASSUME NEW t \in Proc, WriteSummary(t) PROVE LockInv'
  <2>1. UNCHANGED <<marker, starts>>
    BY <1>23 DEF WriteSummary, store, history, PutSummary
  <2>2. Executing(t)
    BY <1>23 DEF WriteSummary, Executing, TryPoints, StepPoints, FinishPoints
  <2> QED
    BY <1>23, <2>1, <2>2, <1>c, <1>q, QuietControl, QuietRaise
       DEF WriteSummary, TryPoints, StepPoints, FinishPoints
<1>24. ASSUME NEW t \in Proc, WriteTerminal(t) PROVE LockInv'
  <2> DEFINE state == TerminalState(mem[t].status)
  <2>0. job[t] \in Plan /\ Executing(t)
    BY <1>24 DEF WriteTerminal, Executing, TryPoints, FinishPoints, TypeInv, Focused
  <2>1. CASE ~CanMove(job[t], state)
    <3>1. UNCHANGED <<marker, starts>>
      BY <1>24, <2>1 DEF WriteTerminal, store, history
    <3> QED
      BY <1>24, <2>0, <2>1, <3>1, <1>c, <1>q, QuietRaise DEF WriteTerminal
  <2>2. CASE CanMove(job[t], state)
    <3>1. /\ marker' = [marker EXCEPT ![job[t]] = state] /\ job' = job /\ starts' = starts
          /\ pc' = [pc EXCEPT ![t] = "tail"]
      BY <1>24, <2>2 DEF WriteTerminal, PutMarker, Goto, history
    <3>2. state \in {"EXECUTED", "FAILED"}
      BY DEF TerminalState
    <3> HIDE DEF state
    <3>3. \A u \in Proc : /\ Locking(u)' => Locking(u) /\ job[u] # job[t]
                          /\ Executing(u)' => Executing(u)
      BY <2>0, <3>1, <1>c DEF Locking, Executing, CommandTypeOK, LockInv, SingleRunner, Running,
         TryPoints, StepPoints, FinishPoints
    <3>4. SingleRunner'
      BY <3>1, <3>3 DEF LockInv, SingleRunner, Running
    <3>5. StartedOnce' /\ (\A p \in Plan : marker[p] \in {"none", "created"} => starts[p] = 0)'
      BY <2>0, <3>1, <3>2 DEF LockInv, StartedOnce, TypeInv, TypeOK, StoreTypeOK
    <3>6. (\A u \in Proc : Locking(u) => marker[job[u]] = "created")'
      BY <2>0, <3>1, <3>3 DEF LockInv, TypeInv, TypeOK, StoreTypeOK
    <3>7. (\A u \in Proc : Executing(u) => marker[job[u]] \in {"IN_FLIGHT", "EXECUTED", "FAILED"})'
      BY <2>0, <3>1, <3>2, <3>3 DEF LockInv, TypeInv, TypeOK, StoreTypeOK
    <3> QED
      BY <3>4, <3>5, <3>6, <3>7 DEF LockInv
  <2> QED
    BY <2>1, <2>2
<1>25. ASSUME NEW t \in Proc, AfterTerminal(t) PROVE LockInv'
  <2>1. UNCHANGED <<marker, starts>>
    BY <1>25 DEF AfterTerminal, store, history
  <2>2. Executing(t)
    BY <1>25 DEF AfterTerminal, Executing, TryPoints, StepPoints, FinishPoints
  <2> QED
    BY <1>25, <2>1, <2>2, <1>c, <1>q, QuietControl, QuietRaise
       DEF AfterTerminal, TryPoints, StepPoints, FinishPoints
<1>26. ASSUME NEW t \in Proc, WriteEnvelope(t) PROVE LockInv'
  <2>1. UNCHANGED <<marker, starts>>
    BY <1>26 DEF WriteEnvelope, store, history, PutEnvelope
  <2>2. Executing(t)
    BY <1>26 DEF WriteEnvelope, Executing, TryPoints, StepPoints, FinishPoints
  <2> QED
    BY <1>26, <2>1, <2>2, <1>c, <1>q, QuietControl, QuietRaise
       DEF WriteEnvelope, TryPoints, StepPoints, FinishPoints
<1>27. ASSUME NEW t \in Proc, Report(t) PROVE LockInv'
  <2>1. UNCHANGED <<marker, starts>>
    BY <1>27 DEF Report, store, history
  <2>2. Executing(t)
    BY <1>27 DEF Report, Executing, TryPoints, StepPoints, FinishPoints
  <2> QED
    BY <1>27, <2>1, <2>2, <1>c, <1>q, QuietControl, QuietRaise
       DEF Report, TryPoints, StepPoints, FinishPoints
<1>28. ASSUME NEW t \in Proc, Fault(t) PROVE LockInv'
  <2>1. UNCHANGED <<marker, starts>>
    BY <1>28 DEF Fault, store, history
  <2>2. CASE pc[t] \in TryPoints
    <3>1. Executing(t)
      BY <2>2 DEF Executing
    <3> QED
      BY <1>28, <2>1, <2>2, <3>1, <1>c, <1>q, QuietRaise DEF Fault
  <2>3. CASE pc[t] \notin TryPoints
    BY <1>28, <2>1, <2>3, <1>c, <1>q, QuietControl DEF Fault
  <2> QED
    BY <2>2, <2>3
<1>29. ASSUME NEW t \in Proc, Crash(t) PROVE LockInv'
  <2>1. UNCHANGED <<marker, starts>>
    BY <1>29 DEF Crash, store, history
  <2> QED
    BY <1>29, <2>1, <1>c, <1>q, QuietControl DEF Crash
<1>30. ASSUME NEW e \in OutsideEdits, Edit(e[1], e[2]) PROVE LockInv'
  BY <1>30
     DEF Edit, command, store, history, LockInv, SingleRunner, StartedOnce, Running, Locking,
         Executing
<1>31. CASE UNCHANGED vars
  BY <1>31
     DEF vars, command, store, history, LockInv, SingleRunner, StartedOnce, Running, Locking,
         Executing
<1>32. ASSUME NEW t \in Proc, ToolFails(t) PROVE LockInv'
  <2>1. UNCHANGED <<marker, starts>>
    BY <1>32 DEF ToolFails, store, history
  <2>2. Executing(t)
    BY <1>32 DEF ToolFails, Executing, TryPoints, StepPoints, FinishPoints
  <2> QED
    BY <1>32, <2>1, <2>2, <1>c, <1>q, QuietRaise DEF ToolFails
<1>33. ASSUME NEW t \in Proc, Copy(t) PROVE LockInv'
  <2>1. UNCHANGED <<marker, starts>>
    BY <1>33 DEF Copy, store, history, FillTemp
  <2> QED
    BY <1>33, <2>1, <1>c, <1>q, QuietControl DEF Copy
<1>34. ASSUME NEW t \in Proc, Rename(t) PROVE LockInv'
  <2>1. UNCHANGED <<marker, starts>>
    BY <1>34 DEF Rename, store, history, RenameTemp
  <2> QED
    BY <1>34, <2>1, <1>c, <1>q, QuietControl DEF Rename
<1> QED
  BY <1>1, <1>2, <1>3, <1>4, <1>5, <1>6, <1>7, <1>8, <1>9, <1>10, <1>11, <1>12, <1>13, <1>14,
     <1>15, <1>16, <1>17, <1>18, <1>19, <1>20, <1>21, <1>22, <1>23, <1>24, <1>25, <1>26,
     <1>27, <1>28, <1>29, <1>30, <1>31, <1>32, <1>33, <1>34 DEF Next, Continue

\* The lock invariant holds of every reachable state.
LEMMA LockCorrect == Spec => [](TypeInv /\ LockInv)
<1>1. Init => TypeInv /\ LockInv
  <2>1. Init => LockInv
    BY DEF Init, StoreInit, LockInv, SingleRunner, StartedOnce, Running, Locking, Executing,
       TryPoints, StepPoints, FinishPoints
  <2> QED
    BY <2>1, TypeInit
<1>2. TypeInv /\ LockInv /\ [Next]_vars => (TypeInv /\ LockInv)'
  BY TypeStep, LockStep
<1> QED
  BY <1>1, <1>2, PTL DEF Spec

\* No two processes ever execute the same plan (acquire_execution_lock).
THEOREM ExecutionIsExclusive == Spec => []SingleRunner
<1>1. LockInv => SingleRunner
  BY DEF LockInv
<1> QED
  BY <1>1, LockCorrect, PTL

\* A plan is set IN_FLIGHT at most once, through any number of crashes, I/O
\* faults, re-submissions and re-approvals.
THEOREM ExecutionIsSingleUse == Spec => []StartedOnce
<1>1. LockInv => StartedOnce
  BY DEF LockInv
<1> QED
  BY <1>1, LockCorrect, PTL
-----------------------------------------------------------------------------
(* The markers implement the abstract execution record.                    *)

\* Four actions write a marker; every other step leaves all markers alone.
LEMMA MarkerWriters ==
  ASSUME [Next]_vars, marker' # marker
  PROVE  \E t \in Proc : Lock(t) \/ Fill(t) \/ FillFails(t) \/ WriteTerminal(t)
<1>1. ASSUME NEW p \in Plan, Submit(p) PROVE UNCHANGED marker
  BY <1>1 DEF Submit, StorePending
<1>2. ASSUME NEW t \in Proc, NEW p \in Plan, StartApprove(t, p) \/ StartExecute(t, p)
      PROVE  UNCHANGED marker
  BY <1>2 DEF StartApprove, StartExecute, store
<1>3. ASSUME NEW t \in Proc,
             Gate(t) \/ Mark(t) \/ Copy(t) \/ Rename(t) \/ Unlink(t) \/ RecordWorkspace(t) \/ WriteMeta(t)
      PROVE  UNCHANGED marker
  BY <1>3 DEF Gate, Mark, Copy, Rename, Unlink, RecordWorkspace, WriteMeta, store,
     OpenTemp, FillTemp, RenameTemp, RemovePending, PutMeta
<1>4. ASSUME NEW t \in Proc,
             CheckDrift(t) \/ Begin(t) \/ Overrun(t) \/ BeginStep(t) \/ IssueToken(t)
                \/ TakeSnapshot(t) \/ Validate(t) \/ RunTool(t)
      PROVE  UNCHANGED marker
  BY <1>4
     DEF CheckDrift, Begin, Overrun, BeginStep, IssueToken, TakeSnapshot, Validate, RunTool, store
<1>5. ASSUME NEW t \in Proc,
             Finish(t) \/ UndoPath(t) \/ UndoFails(t) \/ UndoDone(t) \/ WriteSummary(t)
                \/ AfterTerminal(t) \/ WriteEnvelope(t) \/ Report(t)
      PROVE  UNCHANGED marker
  BY <1>5 DEF Finish, UndoPath, UndoFails, UndoDone, WriteSummary, AfterTerminal, WriteEnvelope,
     Report, store, PutSummary, PutEnvelope
<1>6. ASSUME NEW t \in Proc, ToolFails(t) \/ Fault(t) \/ Crash(t) PROVE UNCHANGED marker
  BY <1>6 DEF ToolFails, Fault, Crash, store
<1>7. ASSUME NEW e \in OutsideEdits, Edit(e[1], e[2]) PROVE UNCHANGED marker
  BY <1>7 DEF Edit, store
<1>8. CASE UNCHANGED vars
  BY <1>8 DEF vars, store
<1> QED
  BY <1>1, <1>2, <1>3, <1>4, <1>5, <1>6, <1>7, <1>8 DEF Next, Continue

\* Every step is a move of the state flow or leaves all records as they are.
LEMMA RecordStep ==
  ASSUME TypeInv, LockInv, [Next]_vars
  PROVE  [Record!Next]_markerRecord
<1> USE DEF At
<1>1. CASE marker' = marker
  BY <1>1 DEF markerRecord
<1>2. ASSUME NEW t \in Proc, Lock(t), marker' # marker PROVE UNCHANGED markerRecord
  <2>1. marker[job[t]] = "none" /\ marker' = [marker EXCEPT ![job[t]] = "created"]
    BY <1>2 DEF Lock, MarkerFree, PutMarker, store
  <2> QED
    BY <2>1 DEF markerRecord, TypeInv, TypeOK, StoreTypeOK
<1>3. ASSUME NEW t \in Proc, FillFails(t) PROVE UNCHANGED markerRecord
  <2>1. PICK state \in {"none", "created"} : marker' = [marker EXCEPT ![job[t]] = state]
    BY <1>3 DEF FillFails, PutMarker
  <2>2. marker[job[t]] = "created"
    BY <1>3 DEF FillFails, LockInv, Locking
  <2> QED
    BY <2>1, <2>2 DEF markerRecord, TypeInv, TypeOK, StoreTypeOK
<1>4. ASSUME NEW t \in Proc, Fill(t) PROVE \E p \in Plan : Record!Consume(p)
  <2>1. marker' = [marker EXCEPT ![job[t]] = "IN_FLIGHT"]
    BY <1>4 DEF Fill, PutMarker
  <2>2. marker[job[t]] = "created" /\ job[t] \in Plan
    BY <1>4 DEF Fill, LockInv, Locking, TypeInv, Focused
  <2>3. Record!Consume(job[t])
    BY <2>1, <2>2 DEF Record!Consume, Record!Move, markerRecord, TypeInv, TypeOK, StoreTypeOK
  <2> QED
    BY <2>2, <2>3
<1>5. ASSUME NEW t \in Proc, WriteTerminal(t), marker' # marker
      PROVE  \E p \in Plan : Record!Succeed(p) \/ Record!Fail(p)
  <2>1. PICK state \in {"EXECUTED", "FAILED"} :
           CanMove(job[t], state) /\ marker' = [marker EXCEPT ![job[t]] = state]
    BY <1>5 DEF WriteTerminal, PutMarker, store, TerminalState
  <2>2. marker[job[t]] = "IN_FLIGHT"
    BY <2>1 DEF CanMove
  <2>3. job[t] \in Plan
    BY <1>5 DEF WriteTerminal, TypeInv, Focused
  <2>4. Record!Succeed(job[t]) \/ Record!Fail(job[t])
    BY <2>1, <2>2, <2>3
       DEF Record!Succeed, Record!Fail, Record!Move, markerRecord, TypeInv, TypeOK, StoreTypeOK
  <2> QED
    BY <2>3, <2>4
<1> QED
  BY <1>1, <1>2, <1>3, <1>4, <1>5, MarkerWriters DEF Record!Next

\* The markers of all plans go through APPROVED, IN_FLIGHT, EXECUTED or FAILED
\* in this order and nothing else (ALLOWED_STATE_TRANSITIONS), whoever races,
\* dies or fails.
THEOREM RefinesExecutionRecord == Spec => ImplementsExecutionRecord
<1>1. Init => Record!Init
  BY DEF Init, StoreInit, Record!Init, markerRecord
<1>2. TypeInv /\ LockInv /\ [Next]_vars => [Record!Next]_markerRecord
  BY RecordStep
<1> QED
  BY <1>1, <1>2, LockCorrect, PTL DEF Spec, ImplementsExecutionRecord, Record!Spec
=============================================================================
