-------------------------- MODULE PlanApprovalProofs --------------------------
(***************************************************************************)
(* What an approval is worth, for every value of the constants: every      *)
(* start of a plan has been paid for by an approval, every approval by a   *)
(* submission, and what is approved can be read back.                      *)
(***************************************************************************)
EXTENDS PlanLifecycleProofs

(***************************************************************************)
(* Most steps are no business of the approval: the steps of a run, and all *)
(* ways in which a command fails or dies.                                  *)
(***************************************************************************)

\* Process t goes to another point of its command, or ends it; the locals of the
\* other commands are their own.
Moves(t, point) ==
    /\ pc' = [pc EXCEPT ![t] = point]
    /\ job' = IF point = "idle" THEN [job EXCEPT ![t] = None] ELSE job
    /\ \A u \in Proc \ {t} : mem'[u] = mem[u]

\* The files and the counters of approvals.
approvalFiles == <<pending, approved, temp, meta, submits, approvals, starts>>

RunPoints == {"begin"} \cup TryPoints

\* A step of t that leaves them alone, after which t runs its plan or is idle.
\* Only a crash or a fault takes it there from outside the run.
Aside(t) ==
    /\ UNCHANGED approvalFiles
    /\ \E point \in TryPoints \cup {"idle"} : Moves(t, point)
    /\ crashes <= crashes' /\ faults <= faults'
    /\ crashes' = crashes /\ faults' = faults => pc[t] \in RunPoints

\* A step that no command takes.
Elsewhere == UNCHANGED approvalFiles /\ UNCHANGED <<command, crashes, faults>>

\* The actions that are such a step of a command.
Steers(t) ==
    \/ Begin(t) \/ Overrun(t) \/ BeginStep(t) \/ IssueToken(t) \/ TakeSnapshot(t) \/ Validate(t)
    \/ RunTool(t) \/ Finish(t) \/ UndoPath(t) \/ UndoDone(t) \/ WriteSummary(t) \/ WriteTerminal(t)
    \/ AfterTerminal(t) \/ WriteEnvelope(t) \/ Report(t)
Breaks(t) == FillFails(t) \/ ToolFails(t) \/ UndoFails(t) \/ Fault(t) \/ Crash(t)

\* What the control operators do to the point and the plan of a command.
LEMMA ControlMoves ==
  ASSUME CommandTypeOK, NEW t \in Proc
  PROVE  /\ Stop(t) => Moves(t, "idle")
         /\ \A point \in TryPoints : Goto(t, point) => Moves(t, point)
         /\ \A point \in TryPoints : \A m : GotoWith(t, point, m) => Moves(t, point)
         /\ \A class, handling, results : Rollback(t, class, handling, results) => Moves(t, "undo")
         /\ \A class, results : Raise(t, class, results) =>
               \E point \in TryPoints \cup {"idle"} : Moves(t, point)
         /\ \A out : StepReturns(t, out) => \E point \in TryPoints \cup {"idle"} : Moves(t, point)
<1> USE DEF TryPoints, StepPoints, FinishPoints, CommandTypeOK
<1>1. Stop(t) => Moves(t, "idle")
  BY DEF Stop, Moves
<1>2. ASSUME NEW point \in TryPoints, NEW m, Goto(t, point) \/ GotoWith(t, point, m)
      PROVE  Moves(t, point)
  BY <1>2 DEF Goto, GotoWith, Moves
<1>3. ASSUME NEW class, NEW handling, NEW results, Rollback(t, class, handling, results)
      PROVE  Moves(t, "undo")
  BY <1>3 DEF Rollback, GotoWith, Moves
<1>4. ASSUME NEW class, NEW results, Raise(t, class, results)
      PROVE  \E point \in TryPoints \cup {"idle"} : Moves(t, point)
  BY <1>1, <1>3, <1>4 DEF Raise
<1>5. ASSUME NEW out, StepReturns(t, out)
      PROVE  \E point \in TryPoints \cup {"idle"} : Moves(t, point)
  BY <1>2, <1>4, <1>5 DEF StepReturns
<1> QED
  BY <1>1, <1>2, <1>3, <1>4, <1>5

\* The steps of a run are no business of the approval.
LEMMA SteersAside ==
  ASSUME TypeInv, NEW t \in Proc, Steers(t)
  PROVE  Aside(t)
<1>c. CommandTypeOK /\ crashes \in Nat /\ faults \in Nat
  BY DEF TypeInv, TypeOK, EnvironmentTypeOK
<1>1. UNCHANGED approvalFiles
  <2>1. CASE Begin(t) \/ Overrun(t) \/ BeginStep(t) \/ IssueToken(t) \/ TakeSnapshot(t) \/ Validate(t)
    BY <2>1
       DEF Begin, Overrun, BeginStep, IssueToken, TakeSnapshot, Validate, approvalFiles, store,
           history
  <2>2. CASE RunTool(t) \/ Finish(t) \/ UndoPath(t) \/ UndoDone(t) \/ AfterTerminal(t) \/ Report(t)
    BY <2>2
       DEF RunTool, Finish, UndoPath, UndoDone, AfterTerminal, Report, approvalFiles, store, history
  <2>3. CASE WriteSummary(t) \/ WriteTerminal(t) \/ WriteEnvelope(t)
    BY <2>3 DEF WriteSummary, WriteTerminal, WriteEnvelope, PutSummary, PutMarker, PutEnvelope,
       approvalFiles, store, history
  <2> QED
    BY <2>1, <2>2, <2>3 DEF Steers
<1>2. UNCHANGED <<crashes, faults>> /\ pc[t] \in RunPoints
  BY DEF Steers, Begin, Overrun, BeginStep, IssueToken, TakeSnapshot, Validate, RunTool, Finish,
     UndoPath, UndoDone, WriteSummary, WriteTerminal, AfterTerminal, WriteEnvelope, Report, budget,
     At, RunPoints, TryPoints, StepPoints, FinishPoints
<1>3. \E point \in TryPoints \cup {"idle"} : Moves(t, point)
  <2> USE DEF TryPoints, StepPoints, FinishPoints
  <2>1. CASE Begin(t) \/ BeginStep(t) \/ IssueToken(t) \/ UndoDone(t) \/ WriteSummary(t)
             \/ WriteEnvelope(t)
    BY <2>1, <1>c, ControlMoves
       DEF Begin, BeginStep, IssueToken, UndoDone, WriteSummary, WriteEnvelope
  <2>2. CASE Overrun(t) \/ TakeSnapshot(t) \/ UndoPath(t) \/ Report(t) \/ AfterTerminal(t)
    BY <2>2, <1>c, ControlMoves DEF Overrun, TakeSnapshot, UndoPath, Report, AfterTerminal
  <2>3. CASE Validate(t) \/ RunTool(t)
    BY <2>3, <1>c, ControlMoves DEF Validate, RunTool
  <2>4. CASE Finish(t)
    BY <2>4, <1>c, ControlMoves DEF Finish
  <2>5. CASE WriteTerminal(t)
    BY <2>5, <1>c, ControlMoves DEF WriteTerminal
  <2> QED
    BY <2>1, <2>2, <2>3, <2>4, <2>5 DEF Steers
<1> QED
  BY <1>c, <1>1, <1>2, <1>3 DEF Aside

\* Nor are its failures.
LEMMA BreaksAside ==
  ASSUME TypeInv, NEW t \in Proc, Breaks(t)
  PROVE  Aside(t)
<1>c. CommandTypeOK /\ crashes \in Nat /\ faults \in Nat
  BY DEF TypeInv, TypeOK, EnvironmentTypeOK
<1>1. UNCHANGED approvalFiles
  BY
     DEF Breaks, FillFails, ToolFails, UndoFails, Fault, Crash, PutMarker, approvalFiles, store,
         history
<1>2. \/ crashes' = crashes + 1 /\ faults' = faults
      \/ crashes' = crashes /\ faults' = faults + 1
  BY DEF Breaks, FillFails, ToolFails, UndoFails, Fault, Crash
<1>3. \E point \in TryPoints \cup {"idle"} : Moves(t, point)
  <2>1. CASE FillFails(t) \/ Crash(t)
    BY <2>1, <1>c, ControlMoves DEF FillFails, Crash
  <2>2. CASE ToolFails(t)
    BY <2>2, <1>c, ControlMoves DEF ToolFails
  <2>3. CASE UndoFails(t)
    BY <2>3, <1>c, ControlMoves DEF UndoFails, TryPoints, FinishPoints
  <2>4. CASE Fault(t)
    BY <2>4, <1>c, ControlMoves DEF Fault
  <2> QED
    BY <2>1, <2>2, <2>3, <2>4 DEF Breaks
<1> QED
  BY <1>c, <1>1, <1>2, <1>3 DEF Aside

\* What can happen, seen from the approval.
LEMMA StepKinds ==
  ASSUME TypeInv, [Next]_vars
  PROVE  \/ \E p \in Plan : Submit(p)
         \/ \E t \in Proc, p \in Plan : StartApprove(t, p) \/ StartExecute(t, p)
         \/ \E t \in Proc : Gate(t) \/ Mark(t) \/ Copy(t) \/ Rename(t) \/ Unlink(t)
                               \/ RecordWorkspace(t) \/ WriteMeta(t)
         \/ \E t \in Proc : CheckDrift(t) \/ Lock(t) \/ Fill(t)
         \/ \E t \in Proc : Aside(t)
         \/ Elsewhere
<1>1. ASSUME NEW e \in OutsideEdits, Edit(e[1], e[2])
      PROVE  Elsewhere
  BY <1>1 DEF Edit, Elsewhere, approvalFiles, store, history
<1>2. CASE UNCHANGED vars
  BY <1>2 DEF vars, Elsewhere, approvalFiles, store, command, budget, history
<1> QED
  BY <1>1, <1>2, SteersAside, BreaksAside DEF Next, Continue, Steers, Breaks

-----------------------------------------------------------------------------
(***************************************************************************)
(* Starts need approvals.  Metadata on disk means that an approval was     *)
(* completed, and a process that is on its way to the execution lock has   *)
(* seen such metadata; the lock invariant then says that the start is the  *)
(* plan's first.                                                           *)
(***************************************************************************)

\* Process t has read the metadata of its plan and has not started it yet.
Preparing(t) == pc[t] \in {"drift", "lock", "fill"}

\* The inductive invariant behind StartsNeedApproval.
ApprovalInv ==
    /\ StartsNeedApproval
    /\ \A p \in Plan : meta[p] # None => approvals[p] >= 1
    /\ \A t \in Proc : Preparing(t) => approvals[job[t]] >= 1

\* A step in which nothing is approved or started, and nobody begins to
\* prepare.
Calm ==
    /\ UNCHANGED <<meta, approvals, starts>>
    /\ \A t \in Proc : Preparing(t)' => Preparing(t) /\ job'[t] = job[t]

\* Calm steps keep the invariant.
LEMMA CalmStep == ASSUME ApprovalInv, Calm PROVE ApprovalInv'
  BY DEF ApprovalInv, Calm, StartsNeedApproval

\* Every step keeps the invariant.
LEMMA ApprovalStep ==
  ASSUME TypeInv, LockInv, ApprovalInv, [Next]_vars
  PROVE  ApprovalInv'
<1> USE DEF At
<1>c. CommandTypeOK
  BY DEF TypeInv, TypeOK
<1>1. ASSUME NEW p \in Plan, Submit(p) PROVE Calm
  BY <1>1 DEF Submit, StorePending, command, Calm, Preparing
<1>2. ASSUME NEW t \in Proc, NEW p \in Plan, StartApprove(t, p) PROVE Calm
  BY <1>2, <1>c DEF StartApprove, Start, Calm, Preparing, CommandTypeOK, store, history
<1>3. ASSUME NEW t \in Proc, NEW p \in Plan, StartExecute(t, p) PROVE ApprovalInv'
  <2>1. /\ UNCHANGED <<meta, approvals, starts>>
        /\ meta[p] # None
        /\ job' = [job EXCEPT ![t] = p]
        /\ pc' = [pc EXCEPT ![t] = "drift"]
    BY <1>3 DEF StartExecute, Start, Approved, store, history
  <2>2. approvals[p] >= 1
    BY <2>1 DEF ApprovalInv
  <2>3. (\A u \in Proc : Preparing(u) => approvals[job[u]] >= 1)'
    BY <2>1, <2>2, <1>c DEF ApprovalInv, Preparing, CommandTypeOK
  <2> QED
    BY <2>1, <2>3 DEF ApprovalInv, StartsNeedApproval
<1>4. ASSUME NEW t \in Proc, WriteMeta(t) PROVE ApprovalInv'
  <2>1. /\ starts' = starts
        /\ approvals' = [approvals EXCEPT ![job[t]] = @ + 1]
        /\ meta' = [meta EXCEPT ![job[t]] = mem[t].print]
        /\ pc' = [pc EXCEPT ![t] = "idle"]
        /\ job' = [job EXCEPT ![t] = None]
    BY <1>4 DEF WriteMeta, PutMeta, Stop
  <2>2. approvals \in [Plan -> Nat] /\ starts \in [Plan -> Nat] /\ meta \in [Plan -> Prints \cup {None}]
    BY DEF TypeInv, TypeOK, HistoryTypeOK, StoreTypeOK
  <2>3. StartsNeedApproval'
    BY <2>1, <2>2 DEF ApprovalInv, StartsNeedApproval
  <2>4. (\A p \in Plan : meta[p] # None => approvals[p] >= 1)'
    BY <2>1, <2>2 DEF ApprovalInv
  <2>5. ASSUME NEW u \in Proc, Preparing(u)' PROVE (approvals[job[u]] >= 1)'
    <3>1. Preparing(u) /\ job'[u] = job[u] /\ job[u] \in Plan
      BY <2>1, <2>5, <1>c DEF Preparing, CommandTypeOK, TypeInv, Focused
    <3> QED
      BY <2>1, <2>2, <3>1 DEF ApprovalInv
  <2> QED
    BY <2>3, <2>4, <2>5 DEF ApprovalInv
<1>5. ASSUME NEW t \in Proc, Fill(t) PROVE ApprovalInv'
  <2>1. /\ starts' = [starts EXCEPT ![job[t]] = @ + 1]
        /\ UNCHANGED <<meta, approvals, job>>
        /\ pc' = [pc EXCEPT ![t] = "begin"]
    BY <1>5 DEF Fill, PutMarker, Goto
  <2>2. starts[job[t]] = 0 /\ approvals[job[t]] >= 1
    BY <1>5 DEF Fill, LockInv, Locking, ApprovalInv, Preparing, TypeInv, Focused
  <2>3. StartsNeedApproval'
    BY <2>1, <2>2 DEF ApprovalInv, StartsNeedApproval, TypeInv, TypeOK, HistoryTypeOK
  <2>4. \A u \in Proc : Preparing(u)' => Preparing(u)
    BY <2>1, <1>c DEF Preparing, CommandTypeOK
  <2> QED
    BY <2>1, <2>3, <2>4 DEF ApprovalInv
<1>6. ASSUME NEW t \in Proc, Gate(t) \/ Mark(t) \/ Copy(t) \/ Rename(t) \/ Unlink(t) \/ RecordWorkspace(t)
      PROVE  Calm
  <2>1. UNCHANGED <<meta, approvals, starts>>
    BY <1>6 DEF Gate, Mark, Copy, Rename, Unlink, RecordWorkspace, store, history, OpenTemp,
       FillTemp, RenameTemp, RemovePending
  <2>2. \A u \in Proc : Preparing(u)' => Preparing(u) /\ job'[u] = job[u]
    BY <1>6, <1>c DEF Gate, Mark, Copy, Rename, Unlink, RecordWorkspace, Goto, GotoWith, Stop,
       Preparing, CommandTypeOK
  <2> QED
    BY <2>1, <2>2 DEF Calm
<1>7. ASSUME NEW t \in Proc, CheckDrift(t) \/ Lock(t) PROVE Calm
  <2>1. UNCHANGED <<meta, approvals, starts>>
    BY <1>7 DEF CheckDrift, Lock, store, history, PutMarker
  <2>2. \A u \in Proc : Preparing(u)' => Preparing(u) /\ job'[u] = job[u]
    BY <1>7, <1>c DEF CheckDrift, Lock, Goto, Stop, Preparing, CommandTypeOK
  <2> QED
    BY <2>1, <2>2 DEF Calm
<1>8. ASSUME NEW t \in Proc, Aside(t) PROVE Calm
  BY <1>8, <1>c DEF Aside, approvalFiles, Moves, Calm, Preparing, CommandTypeOK,
     TryPoints, StepPoints, FinishPoints
<1>9. ASSUME Elsewhere PROVE Calm
  BY <1>9 DEF Elsewhere, command, approvalFiles, Calm, Preparing
<1> QED
  BY <1>1, <1>2, <1>3, <1>4, <1>5, <1>6, <1>7, <1>8, <1>9, CalmStep, StepKinds

\* No process executes a plan that nobody has approved to the end: an approval
\* that died before its metadata was written starts nothing (execute_plan).
THEOREM StartsAreApproved == Spec => []StartsNeedApproval
<1>1. Init => ApprovalInv
  BY DEF Init, StoreInit, ApprovalInv, StartsNeedApproval, Preparing
<1>2. TypeInv /\ LockInv /\ ApprovalInv /\ [Next]_vars => ApprovalInv'
  BY ApprovalStep
<1>3. ApprovalInv => StartsNeedApproval
  BY DEF ApprovalInv
<1> QED
  BY <1>1, <1>2, <1>3, LockCorrect, PTL DEF Spec
-----------------------------------------------------------------------------
(***************************************************************************)
(* Approvals spend submissions.  An approver that has unlinked the pending *)
(* plan is paying for its approval with that submission until it writes    *)
(* the metadata; it may die before.                                        *)
(***************************************************************************)
Paying(p) == {t \in Proc : pc[t] \in {"print", "meta"} /\ job[t] = p}

\* The inductive invariant behind ApprovalsSpendSubmissions.
SpendInv ==
    \A p \in Plan :
        /\ IsFiniteSet(Paying(p))
        /\ approvals[p] + Cardinality(Paying(p)) + (IF pending[p] THEN 1 ELSE 0) <= submits[p]

SpendTypes ==
    /\ pending \in [Plan -> BOOLEAN]
    /\ submits \in [Plan -> Nat] /\ approvals \in [Plan -> Nat]

\* Payers that go away do no harm.
LEMMA FewerPayers ==
  ASSUME SpendTypes, SpendInv, UNCHANGED <<pending, submits, approvals>>,
         \A p \in Plan : Paying(p)' \subseteq Paying(p)
  PROVE  SpendInv'
<1> SUFFICES ASSUME NEW p \in Plan
    PROVE  /\ IsFiniteSet(Paying(p)')
           /\ approvals[p] + Cardinality(Paying(p)') + (IF pending[p] THEN 1 ELSE 0) <= submits[p]
  BY DEF SpendInv
<1> DEFINE S == Paying(p)
           T == Paying(p)'
<1>1. IsFiniteSet(S) /\ T \in SUBSET S
  BY DEF SpendInv
<1>2. approvals[p] + Cardinality(S) + (IF pending[p] THEN 1 ELSE 0) <= submits[p]
  BY DEF SpendInv
<1> HIDE DEF S, T
<1>3. IsFiniteSet(T) /\ Cardinality(T) <= Cardinality(S)
  BY <1>1, FS_Subset
<1>4. Cardinality(S) \in Nat /\ Cardinality(T) \in Nat
  BY <1>1, <1>3, FS_CardinalityType
<1> QED
  BY <1>2, <1>3, <1>4 DEF S, T, SpendTypes

\* Every step keeps the invariant.
LEMMA SpendStep ==
  ASSUME TypeInv, SpendInv, [Next]_vars
  PROVE  SpendInv'
<1> USE DEF At
<1>c. CommandTypeOK /\ SpendTypes
  BY DEF TypeInv, TypeOK, StoreTypeOK, HistoryTypeOK, SpendTypes
<1>1. ASSUME NEW p \in Plan, Submit(p) PROVE SpendInv'
  <2>1. /\ pending' = [pending EXCEPT ![p] = TRUE] /\ UNCHANGED <<approvals, pc, job>>
        /\ submits' = [submits EXCEPT ![p] = @ + 1]
    BY <1>1 DEF Submit, StorePending, command
  <2>2. \A q \in Plan : IsFiniteSet(Paying(q)) /\ Cardinality(Paying(q)) \in Nat
    BY FS_CardinalityType DEF SpendInv
  <2>3. \A q : Paying(q)' = Paying(q)
    BY <2>1 DEF Paying
  <2> QED
    BY <2>1, <2>2, <2>3, <1>c DEF SpendInv, SpendTypes
<1>2. ASSUME NEW t \in Proc, Unlink(t), pending[job[t]] PROVE SpendInv'
  <2>1. /\ pending' = [pending EXCEPT ![job[t]] = FALSE] /\ UNCHANGED <<approvals, submits, job>>
        /\ pc' = [pc EXCEPT ![t] = "print"] /\ pc[t] = "unlink"
    BY <1>2 DEF Unlink, CanUnlink, RemovePending, Goto, history
  <2> SUFFICES ASSUME NEW p \in Plan
      PROVE  /\ IsFiniteSet(Paying(p)')
             /\ approvals[p] + Cardinality(Paying(p)') + (IF pending'[p] THEN 1 ELSE 0) <= submits[p]
    BY <2>1 DEF SpendInv
  <2> DEFINE S == Paying(p)
  <2>2. /\ IsFiniteSet(S)
        /\ approvals[p] + Cardinality(S) + (IF pending[p] THEN 1 ELSE 0) <= submits[p]
    BY DEF SpendInv
  <2>3. Paying(p)' = IF p = job[t] THEN S \cup {t} ELSE S
    BY <2>1, <1>c DEF Paying, CommandTypeOK
  <2> HIDE DEF S
  <2>4. /\ IsFiniteSet(S \cup {t}) /\ Cardinality(S) \in Nat
        /\ Cardinality(S \cup {t}) \in {Cardinality(S), Cardinality(S) + 1}
    BY <2>2, FS_AddElement, FS_CardinalityType
  <2> QED
    BY <2>1, <2>2, <2>3, <2>4, <1>2, <1>c DEF SpendTypes
<1>3. ASSUME NEW t \in Proc, WriteMeta(t) PROVE SpendInv'
  <2>1. /\ UNCHANGED <<pending, submits>> /\ approvals' = [approvals EXCEPT ![job[t]] = @ + 1]
        /\ pc' = [pc EXCEPT ![t] = "idle"] /\ job' = [job EXCEPT ![t] = None] /\ pc[t] = "meta"
    BY <1>3 DEF WriteMeta, PutMeta, Stop
  <2> SUFFICES ASSUME NEW p \in Plan
      PROVE  /\ IsFiniteSet(Paying(p)')
             /\ approvals'[p] + Cardinality(Paying(p)') + (IF pending[p] THEN 1 ELSE 0) <= submits[p]
    BY <2>1 DEF SpendInv
  <2> DEFINE S == Paying(p)
  <2>2. /\ IsFiniteSet(S)
        /\ approvals[p] + Cardinality(S) + (IF pending[p] THEN 1 ELSE 0) <= submits[p]
    BY DEF SpendInv
  <2>3. Paying(p)' = S \ {t} /\ (t \in S <=> p = job[t])
    BY <2>1, <1>c DEF Paying, CommandTypeOK
  <2> HIDE DEF S
  <2>4. /\ IsFiniteSet(S \ {t}) /\ Cardinality(S) \in Nat
        /\ Cardinality(S \ {t}) = IF t \in S THEN Cardinality(S) - 1 ELSE Cardinality(S)
    BY <2>2, FS_RemoveElement, FS_CardinalityType
  <2> QED
    BY <2>1, <2>2, <2>3, <2>4, <1>c DEF SpendTypes
<1>4. ASSUME UNCHANGED <<pending, submits, approvals>>,
             \A u \in Proc : pc'[u] \in {"print", "meta"} =>
                pc[u] \in {"print", "meta"} /\ job'[u] = job[u]
      PROVE  SpendInv'
  BY <1>4, <1>c, FewerPayers DEF Paying
<1>5. ASSUME NEW t \in Proc, NEW p \in Plan, StartApprove(t, p) \/ StartExecute(t, p)
      PROVE  SpendInv'
  BY <1>5, <1>4, <1>c DEF StartApprove, StartExecute, Start, store, history, CommandTypeOK
<1>6. ASSUME NEW t \in Proc, Gate(t) \/ Mark(t) \/ Copy(t) \/ Rename(t) PROVE SpendInv'
  <2>1. UNCHANGED <<pending, submits, approvals>>
    BY <1>6 DEF Gate, Mark, Copy, Rename, OpenTemp, FillTemp, RenameTemp, store, history
  <2> QED
    BY <1>6, <2>1, <1>4, <1>c DEF Gate, Mark, Copy, Rename, Goto, Stop, CommandTypeOK
<1>7. ASSUME NEW t \in Proc, RecordWorkspace(t) PROVE SpendInv'
  BY <1>7, <1>4, <1>c DEF RecordWorkspace, GotoWith, store, history, CommandTypeOK
<1>8. ASSUME NEW t \in Proc, Unlink(t), ~pending[job[t]] PROVE SpendInv'
  BY <1>8, <1>4, <1>c DEF Unlink, CanUnlink, Stop, store, history, CommandTypeOK
<1>9. ASSUME NEW t \in Proc, CheckDrift(t) \/ Lock(t) \/ Fill(t) PROVE SpendInv'
  <2>1. UNCHANGED <<pending, submits, approvals>>
    BY <1>9 DEF CheckDrift, Lock, Fill, PutMarker, store, history
  <2> QED
    BY <1>9, <2>1, <1>4, <1>c DEF CheckDrift, Lock, Fill, Goto, Stop, CommandTypeOK
<1>10. ASSUME NEW t \in Proc, Aside(t) PROVE SpendInv'
  BY <1>10, <1>4, <1>c DEF Aside, approvalFiles, Moves, CommandTypeOK,
     TryPoints, StepPoints, FinishPoints
<1>11. ASSUME Elsewhere PROVE SpendInv'
  BY <1>11, <1>4 DEF Elsewhere, command, approvalFiles
<1> QED
  BY <1>1, <1>2, <1>3, <1>5, <1>6, <1>7, <1>8, <1>9, <1>10, <1>11, StepKinds

\* However many approvers of a plan race, and wherever they die, there are no
\* more approvals than submissions, and a submission that is still pending has
\* paid for none (mark_plan_approved).
THEOREM ApprovalsAreSubmitted == Spec => []ApprovalsSpendSubmissions
<1>1. Init => SpendInv
  <2> SUFFICES ASSUME Init PROVE SpendInv
    OBVIOUS
  <2>1. \A p \in Plan : Paying(p) = {}
    BY DEF Init, Paying
  <2>2. \A p \in Plan : approvals[p] = 0 /\ submits[p] = 0 /\ pending[p] = FALSE
    BY DEF Init, StoreInit
  <2> QED
    BY <2>1, <2>2, FS_EmptySet DEF SpendInv
<1>2. TypeInv /\ SpendInv /\ [Next]_vars => SpendInv'
  BY SpendStep
<1>3. TypeInv /\ SpendInv => ApprovalsSpendSubmissions
  <2> SUFFICES ASSUME TypeInv, SpendInv, NEW p \in Plan
      PROVE  approvals[p] + (IF pending[p] THEN 1 ELSE 0) <= submits[p]
    BY DEF ApprovalsSpendSubmissions
  <2>1. Cardinality(Paying(p)) \in Nat
    BY FS_CardinalityType DEF SpendInv
  <2> QED
    BY <2>1 DEF SpendInv, TypeInv, TypeOK, HistoryTypeOK
<1> QED
  BY <1>1, <1>2, <1>3, LockCorrect, PTL DEF Spec
-----------------------------------------------------------------------------
(***************************************************************************)
(* What is approved can be read back.  As long as nobody has died, the     *)
(* writers of a file are the approvers that are about to write it, and a   *)
(* file without writers is whole.                                          *)
(***************************************************************************)
Calamity == crashes # 0 \/ faults # 0

\* The state of a file that bears the approved text of p, under either name.
Tended(p, file) ==
    /\ \A t \in file.writers : At(t, "copy") /\ job[t] = p
    /\ file.text = "torn" => file.writers # {}

\* The inductive invariant behind ApprovedIsReadable.
ReadInv ==
    ~Calamity =>
        /\ \A p \in Plan : Tended(p, temp[p]) /\ Tended(p, approved[p])
        /\ \A p \in Plan : meta[p] # None => approved[p].text # "none"
        /\ \A t \in Proc : pc[t] \in {"unlink", "print", "meta"} => approved[job[t]].text # "none"

ReadTypes ==
    /\ approved \in [Plan -> File] /\ temp \in [Plan -> File]
    /\ meta \in [Plan -> Prints \cup {None}]

\* Steps without a part in writing keep the invariant.
LEMMA ReadStutter ==
  ASSUME ReadInv, UNCHANGED <<approved, temp, meta>>, Calamity => Calamity',
         \A u \in Proc : ~Calamity' /\ At(u, "copy") => At(u, "copy")' /\ job'[u] = job[u],
         \A u \in Proc : pc'[u] \in {"unlink", "print", "meta"} =>
            pc[u] \in {"unlink", "print", "meta"} /\ job'[u] = job[u],
         \A p \in Plan : temp[p].writers \subseteq Proc /\ approved[p].writers \subseteq Proc
  PROVE  ReadInv'
<1> SUFFICES ASSUME ~Calamity'
    PROVE  /\ \A p \in Plan : Tended(p, temp[p])' /\ Tended(p, approved[p])'
           /\ \A p \in Plan : meta[p] # None => approved[p].text # "none"
           /\ \A t \in Proc : pc'[t] \in {"unlink", "print", "meta"} => approved[job'[t]].text # "none"
  BY DEF ReadInv
<1>1. ~Calamity
  OBVIOUS
<1>2. \A p \in Plan : Tended(p, temp[p])' /\ Tended(p, approved[p])'
  BY <1>1 DEF ReadInv, Tended
<1> QED
  BY <1>1, <1>2 DEF ReadInv

\* Every step keeps the invariant.
LEMMA ReadStep ==
  ASSUME TypeInv, ReadInv, [Next]_vars
  PROVE  ReadInv'
<1>c. CommandTypeOK /\ ReadTypes /\ crashes \in Nat /\ faults \in Nat
  BY DEF TypeInv, TypeOK, StoreTypeOK, EnvironmentTypeOK, ReadTypes
<1>j. \A t \in Proc : pc[t] # "idle" => job[t] \in Plan
  BY DEF TypeInv, Focused
<1>w. \A p \in Plan : temp[p].writers \subseteq Proc /\ approved[p].writers \subseteq Proc
  BY <1>c DEF ReadTypes, File
<1>1. ASSUME NEW p \in Plan, Submit(p) PROVE ReadInv'
  BY <1>1, <1>w, ReadStutter DEF Submit, StorePending, command, budget, Calamity, At
<1>2. ASSUME NEW t \in Proc, NEW p \in Plan, StartApprove(t, p) \/ StartExecute(t, p)
      PROVE  ReadInv'
  BY <1>2, <1>c, <1>w, ReadStutter DEF StartApprove, StartExecute, Start, store, budget, Calamity,
     CommandTypeOK, At
<1>3. ASSUME NEW t \in Proc, Gate(t) \/ CheckDrift(t) \/ Unlink(t) PROVE ReadInv'
  <2>1. UNCHANGED <<approved, temp, meta, crashes, faults>>
    BY <1>3 DEF Gate, CheckDrift, Unlink, RemovePending, store, budget
  <2> QED
    BY <1>3, <2>1, <1>c, <1>w, ReadStutter DEF Gate, CheckDrift, Unlink, Goto, Stop, Calamity,
       CommandTypeOK, At
<1>4. ASSUME NEW t \in Proc, Lock(t) \/ Fill(t) \/ RecordWorkspace(t) PROVE ReadInv'
  <2>1. UNCHANGED <<approved, temp, meta, crashes, faults>>
    BY <1>4 DEF Lock, Fill, RecordWorkspace, PutMarker, store, budget
  <2> QED
    BY <1>4, <2>1, <1>c, <1>w, ReadStutter DEF Lock, Fill, RecordWorkspace, Goto, GotoWith, Stop,
       Calamity, CommandTypeOK, At
<1>5. ASSUME NEW t \in Proc, Aside(t) PROVE ReadInv'
  <2>1. PICK point \in TryPoints \cup {"idle"} : Moves(t, point)
    BY <1>5 DEF Aside
  <2>2. UNCHANGED <<approved, temp, meta>> /\ (Calamity => Calamity')
    BY <1>5, <1>c DEF Aside, approvalFiles, Calamity
  <2>3. ~Calamity' => pc[t] \in RunPoints
    BY <1>5, <1>c DEF Aside, Calamity
  <2> QED
    BY <2>1, <2>2, <2>3, <1>c, <1>w, ReadStutter DEF Moves, CommandTypeOK, At, RunPoints,
       TryPoints, StepPoints, FinishPoints
<1>6. ASSUME Elsewhere PROVE ReadInv'
  BY <1>6, <1>w, ReadStutter DEF Elsewhere, command, approvalFiles, Calamity, At
<1>7. ASSUME NEW t \in Proc, Mark(t) PROVE ReadInv'
  <2>0. pc[t] = "mark" /\ job[t] \in Plan /\ UNCHANGED <<meta, crashes, faults>>
    BY <1>7, <1>j DEF Mark, OpenTemp, store, budget, At
  <2>1. CASE ~pending[job[t]]
    BY <1>7, <2>0, <2>1, <1>c, <1>w, ReadStutter DEF Mark, Stop, store, Calamity, CommandTypeOK, At
  <2>2. CASE pending[job[t]]
    <3>1. /\ temp' = [temp EXCEPT ![job[t]] = [text |-> "torn", writers |-> @.writers \cup {t}]]
          /\ approved' = [approved EXCEPT ![job[t]].writers = @ \ {t}]
          /\ pc' = [pc EXCEPT ![t] = "copy"] /\ job' = job
      BY <1>7, <2>2 DEF Mark, OpenTemp, Goto
    <3> SUFFICES ASSUME ~Calamity PROVE ReadInv'
      BY <2>0 DEF ReadInv, Calamity
    <3>2. \A p \in Plan : approved'[p] = approved[p]
      BY <2>0, <3>1, <1>c DEF ReadInv, Tended, ReadTypes, File, At
    <3>3. \A u \in Proc : At(u, "copy") => At(u, "copy")' /\ job'[u] = job[u]
      BY <2>0, <3>1, <1>c DEF At, CommandTypeOK
    <3>4. \A p \in Plan : Tended(p, approved[p])'
      BY <1>w, <3>2, <3>3 DEF ReadInv, Tended
    <3>5. \A p \in Plan : Tended(p, temp[p])'
      <4> TAKE p \in Plan
      <4>1. CASE p # job[t]
        BY <1>c, <1>w, <3>1, <3>3, <4>1 DEF ReadInv, Tended, ReadTypes
      <4>2. CASE p = job[t]
        <5>1. temp'[p] = [text |-> "torn", writers |-> temp[p].writers \cup {t}]
          BY <1>c, <2>0, <3>1, <4>2 DEF ReadTypes
        <5>2. At(t, "copy")'
          BY <1>c, <3>1 DEF CommandTypeOK, At
        <5> QED
          BY <1>w, <3>1, <3>3, <4>2, <5>1, <5>2 DEF ReadInv, Tended
      <4> QED
        BY <4>1, <4>2
    <3>6. \A u \in Proc : pc'[u] \in {"unlink", "print", "meta"} => pc[u] \in {"unlink", "print", "meta"}
      BY <3>1, <1>c DEF CommandTypeOK
    <3> QED
      BY <2>0, <3>1, <3>2, <3>4, <3>5, <3>6, <1>j DEF ReadInv
  <2> QED
    BY <2>1, <2>2
<1>8. ASSUME NEW t \in Proc, Copy(t) PROVE ReadInv'
  <2>1. /\ pc[t] = "copy" /\ job[t] \in Plan /\ UNCHANGED <<meta, crashes, faults, job>>
        /\ temp' = [temp EXCEPT ![job[t]] = Filled(@, t)]
        /\ approved' = [approved EXCEPT ![job[t]] = Filled(@, t)]
        /\ pc' = [pc EXCEPT ![t] = "rename"]
    BY <1>8, <1>j DEF Copy, FillTemp, Goto, budget, At
  <2> SUFFICES ASSUME ~Calamity PROVE ReadInv'
    BY <2>1 DEF ReadInv, Calamity
  <2>2. ASSUME NEW p \in Plan, NEW file \in File, Tended(p, file)
        PROVE  /\ p = job[t] => Tended(p, Filled(file, t))'
               /\ p # job[t] => Tended(p, file)'
               /\ file.text # "none" => Filled(file, t).text # "none"
    BY <2>1, <2>2, <1>c DEF Tended, Filled, File, At, CommandTypeOK
  <2>3. \A p \in Plan : /\ temp'[p] = IF p = job[t] THEN Filled(temp[p], t) ELSE temp[p]
                        /\ approved'[p] = IF p = job[t] THEN Filled(approved[p], t) ELSE approved[p]
                        /\ temp[p] \in File /\ approved[p] \in File
    BY <2>1, <1>c DEF ReadTypes
  <2>4. \A p \in Plan : Tended(p, temp[p])' /\ Tended(p, approved[p])'
    BY <2>2, <2>3 DEF ReadInv, Tended
  <2>5. \A p \in Plan : approved[p].text # "none" => approved'[p].text # "none"
    BY <2>2, <2>3 DEF ReadInv
  <2>6. \A u \in Proc : pc'[u] \in {"unlink", "print", "meta"} => pc[u] \in {"unlink", "print", "meta"}
    BY <2>1, <1>c DEF CommandTypeOK
  <2> QED
    BY <2>1, <2>4, <2>5, <2>6, <1>j DEF ReadInv
<1>9. ASSUME NEW t \in Proc, Rename(t) PROVE ReadInv'
  <2>0. pc[t] = "rename" /\ job[t] \in Plan /\ UNCHANGED <<meta, crashes, faults>>
    BY <1>9, <1>j DEF Rename, RenameTemp, store, budget, At
  <2>1. CASE temp[job[t]].text = "none"
    BY <1>9, <2>0, <2>1, <1>c, <1>w, ReadStutter
       DEF Rename, Stop, store, Calamity, CommandTypeOK, At
  <2>2. CASE temp[job[t]].text # "none"
    <3>1. /\ approved' = [approved EXCEPT ![job[t]] = temp[job[t]]]
          /\ temp' = [temp EXCEPT ![job[t]] = NoFile]
          /\ pc' = [pc EXCEPT ![t] = "unlink"] /\ job' = job
      BY <1>9, <2>2 DEF Rename, RenameTemp, Goto
    <3> SUFFICES ASSUME ~Calamity PROVE ReadInv'
      BY <2>0 DEF ReadInv, Calamity
    <3>2. \A u \in Proc : At(u, "copy") => At(u, "copy")' /\ job'[u] = job[u]
      BY <2>0, <3>1, <1>c DEF At, CommandTypeOK
    <3>3. \A p \in Plan : /\ approved'[p] = IF p = job[t] THEN temp[p] ELSE approved[p]
                          /\ temp'[p] = IF p = job[t] THEN NoFile ELSE temp[p]
      BY <2>0, <3>1, <1>c DEF ReadTypes
    <3>4. \A p \in Plan : Tended(p, temp[p])' /\ Tended(p, approved[p])'
      BY <3>2, <3>3, <1>w DEF ReadInv, Tended, NoFile
    <3>5. \A u \in Proc : pc'[u] \in {"unlink", "print", "meta"} =>
             u = t \/ pc[u] \in {"unlink", "print", "meta"}
      BY <3>1, <1>c DEF CommandTypeOK
    <3> QED
      BY <2>0, <2>2, <3>1, <3>3, <3>4, <3>5, <1>j DEF ReadInv
  <2> QED
    BY <2>1, <2>2
<1>10. ASSUME NEW t \in Proc, WriteMeta(t) PROVE ReadInv'
  <2>1. /\ pc[t] = "meta" /\ job[t] \in Plan /\ UNCHANGED <<approved, temp, crashes, faults>>
        /\ meta' = [meta EXCEPT ![job[t]] = mem[t].print]
        /\ pc' = [pc EXCEPT ![t] = "idle"] /\ job' = [job EXCEPT ![t] = None]
    BY <1>10, <1>j DEF WriteMeta, PutMeta, Stop, budget, At
  <2> SUFFICES ASSUME ~Calamity PROVE ReadInv'
    BY <2>1 DEF ReadInv, Calamity
  <2>2. \A u \in Proc : At(u, "copy") => At(u, "copy")' /\ job'[u] = job[u]
    BY <2>1, <1>c DEF At, CommandTypeOK
  <2>3. \A p \in Plan : Tended(p, temp[p])' /\ Tended(p, approved[p])'
    BY <2>1, <2>2, <1>w DEF ReadInv, Tended
  <2>4. \A p \in Plan : meta'[p] # None => approved[p].text # "none"
    BY <2>1, <1>c DEF ReadInv, ReadTypes
  <2>5. \A u \in Proc : pc'[u] \in {"unlink", "print", "meta"} =>
           pc[u] \in {"unlink", "print", "meta"} /\ job'[u] = job[u]
    BY <2>1, <1>c DEF CommandTypeOK
  <2> QED
    BY <2>1, <2>3, <2>4, <2>5 DEF ReadInv
<1> QED
  BY <1>1, <1>2, <1>3, <1>4, <1>5, <1>6, <1>7, <1>8, <1>9, <1>10, StepKinds

\* Whatever approvers share the temporary file, what they have approved can be
\* read back by plan.execute, now or once the last of them has written it, as
\* long as no process has died (_atomic_write_text).
THEOREM ApprovedCanBeRead == Spec => []ApprovedIsReadable
<1>1. Init => ReadInv
  BY DEF Init, StoreInit, ReadInv, Tended, NoFile
<1>2. TypeInv /\ ReadInv /\ [Next]_vars => ReadInv'
  BY ReadStep
<1>3. TypeInv /\ ReadInv => ApprovedIsReadable
  <2> SUFFICES ASSUME TypeInv, ReadInv, NEW p \in Plan, meta[p] # None, crashes = 0, faults = 0
      PROVE  \/ approved[p].text = "whole"
             \/ \E t \in approved[p].writers : At(t, "copy") /\ job[t] = p
    BY DEF ApprovedIsReadable
  <2>1. Tended(p, approved[p]) /\ approved[p].text # "none"
    BY DEF ReadInv, Calamity
  <2>2. approved[p].text \in {"none", "torn", "whole"}
    BY DEF TypeInv, TypeOK, StoreTypeOK, File
  <2> QED
    BY <2>1, <2>2 DEF Tended
<1> QED
  BY <1>1, <1>2, <1>3, LockCorrect, PTL DEF Spec
=============================================================================
