# Formal model of the local agent's plan lifecycle

TLA+ specifications, TLC configurations and TLAPS proofs for this repository: a
local agent that turns a task into a *plan* (a short list of tool steps), has a
person *approve* it, and then *executes* it once on a workspace, with capability
tokens, a policy, an audit log, and a rollback when a step fails.

Line numbers are those of the repository's files. `PROJECT.json` maps every
definition to the lines it stands for.

## 1. The system

| part | code | state it keeps | operations |
|---|---|---|---|
| plan store | `agent_core/plan_store.py` | one file per plan hash: `pending/`, `approved/` and its `.meta.json`, `executed/` (the *execution marker*), summaries, failure envelopes | store pending, mark approved, write meta, create the marker (`O_EXCL`), overwrite the marker along a transition table, write summary and envelope |
| plan executor | `agent_core/plan_executor.py` | locals of a run: results, snapshots, status | `submit_plan`, `approve_plan`, `execute_plan` (step loop, classification, rollback, `_finalize_execution`, except block) |
| approval gate | `plan_executor.py:137` | - | the mutations of a plan fit the files that exist |
| preflight, drift | `preflight.py`, `plan_executor.py:868` | - | load the approval, compare the workspace fingerprint |
| fingerprint | `workspace_fingerprint.py` | - | hash of every file outside the excluded directories |
| capability tokens | `policy/capabilities.py` | two JSON files: active tokens, revoked ids | issue, revoke one, revoke all, validate |
| tool gateway | `tools/gateway.py` | - | token check, policy, tool, audit record |
| tools | `tools/fs_tools.py`, `tools/cmd_tools.py` | the workspace | apply a patch, edit, create a file, run a test or git |
| policy engine | `policy/engine.py`, `cmd_policy.py`, `git_policy.py` | - | a verdict per action |
| plan schema, validator, hash | `plan_schema.py`, `plan_validator.py`, `plan_hash.py` | - | which plans exist, and their identity |
| audit log | `audit/log.py` | a JSONL file | append |
| agent loop, command line | `loop.py`, `orchestrator.py`, `main.py` | - | one command per process |
| workspace graph | `workspace_graph.py` | the graph of imports and calls | build; select the tests a change calls for |
| autonomy cycle | `autonomy.py` | none: the caller sends the limits and what is used of them, and takes the new counters from the answer | generate a plan and submit it if it fits the budgets |
| planners, proposals, health, mounts | `planner.py`, `llm_planner.py`, `strategy_proposals.py`, ... | - | stateless |

**Interaction.** Every command is an operating-system process of its own
(`main.py`, `loop.py`). Processes share the plan store, the token files, the
audit log and the workspace, and nothing but the creation of the execution
marker with `O_EXCL` is a lock. Inside a process the executor calls, for each
step, `issue_token`, then through the gateway `validate_token`, the policy, the
tool and the audit log; each of these touches a file and may raise.

**What is hard.** Two executions or two approvals of one plan; edits of the
workspace between approval, drift check and start; a process killed between two
files that must tell one story; exceptions inside the rollback and inside the
finalization; a token file rewritten as a whole by several processes; a plan that
mutates one file twice; two approvers writing one temporary file; a write that fails
half-way and a snapshot that went through a text decoder; overlapping matches of an
edit; an argv scan that advances in several places; an answer with the budget's
counters that never arrives. The list, at its lines, is in `PROJECT.json` under
`hazards`.

**What makes each part correct**

- store and executor: a plan starts only after a completed approval, and by one
  process at a time; the marker follows `APPROVED -> IN_FLIGHT -> EXECUTED | FAILED`;
  marker and summary agree; an execution is all-or-nothing on the files it names;
  a plan in flight is decided;
- approvals: a submission pays for one approval;
- tokens: a revoked token is refused; the two files tell the grants;
- file steps: the effect that the edits, one after the other, are meant to have; no
  effect of a step that is denied; after a failure, the text from before;
- command lines: exactly those of a grammar run, and a change needs a token;
- autonomy cycle: what is charged is what was submitted, within the budgets;
- test selection: exactly the functions that reach a change, and an end of the search.

## 2. Modules

| module | what it is |
|---|---|
| `PlanModel` | the data, as operators: plans and steps, tree and fingerprint, gate, effect and result of every tool, classification, snapshots and rollback |
| `PlanStore` | the files of the plan store as variables, and each write of one as an operator |
| `PlanLifecycle` | processes running `plan.approve` and `plan.execute`, with `plan.submit`, on the store, workspace and token file; crashes, I/O faults, edits |
| `ExecutionRecord` | abstract: the state flow of a plan's marker. Implemented by `PlanLifecycle` (`ImplementsExecutionRecord`) |
| `PlanTransaction` | abstract: executing a plan commits or aborts as one step. Implemented by `PlanLifecycle` (`ImplementsPlanTransaction`) |
| `TextFiles` | text files as `read_text` and `write_text` see them; occurrences, and what a list of edits is meant to do, without a loop |
| `FileMutation` | one mutation step on the characters of its file: snapshot, `patch_edit` with both its loops, `apply_patch`, `create_file`, rollback |
| `ArgvPolicy` | `git_run` and `test_run` with the argv parsers, word by word |
| `ToolGateway` | the gateway: a call is a step of `FileMutation` or a command line of `ArgvPolicy` |
| `AutonomyCycle` | `run_autonomy_cycle` and a caller that carries the counters |
| `CapabilityStore` | the two token files with load, truncate and write as separate steps |
| `TestSelection` | `select_tests_for_changes` and its breadth-first search |
| `AgentCalls` | the parts that work within one process and share no state: `ToolGateway`, `CapabilityStore`, `AutonomyCycle`, `TestSelection`; a behaviour is one of one part |
| `MCPlanLifecycle`, `MCFileMutation`, `MCToolGateway`, `MCTestSelection`, `MCAgentCalls` | small instances for TLC |
| `PlanLifecycleProofs`, `PlanApprovalProofs`, `PlanTransactionProofs` | theorems about `PlanLifecycle`: types, lock and marker; approvals; what a run does to its files. Each extends the one before |
| `FileMutationProofs`, `ArgvPolicyProofs`, `AutonomyCycleProofs`, `CapabilityStoreProofs`, `TestSelectionProofs` | theorems about the module of that name |

`PlanLifecycle` extends `PlanStore`, which extends `PlanModel`. `ToolGateway` extends
`FileMutation`, which extends `TextFiles`, and `ArgvPolicy`; `AgentCalls` extends it
and the three modules it stands beside, whose definitions therefore carry names like
`TokensNext` and `CycleSpec`. `PlanLifecycle` takes a
mutation step to be one content for another and its verdict to be given; the two
modules under `ToolGateway` say what the content is and where the verdict on a
command line comes from. Definitions named
"Mutant" in a comment are plausible bugs; none of the specifications use them.

### State and actions of PlanLifecycle against the code

- `pending, approved, temp, meta, marker, summary, envelope`: the files. A marker is
  `"created"` between `os.open` and the write of its first text
  (`plan_store.py:250-256`). All other files are written to a temporary name and
  renamed. That name is the same for every process (`plan_store.py:84`), and two
  approvers of one plan may be writing at once; so `approved` and its temporary file
  `temp` record whether their text is whole and who still has them open, and opening,
  writing and renaming are steps of their own (`Mark, Copy, Rename`). The other files
  change in one step.
- `ws`: the workspace, from path to content. `tokens`, `view`: of each process,
  whether its newest token is in the token file, and what it has read of the file.
- `pc, job, mem`: where each process is in its command, the plan, and the locals.
- `submits, approvals, starts, base` only record history for the properties.

| action | code |
|---|---|
| `Submit` | `submit_plan` |
| `StartApprove, Gate, Mark, Copy, Rename, Unlink, RecordWorkspace, WriteMeta` | `approve_plan` and `mark_plan_approved`, at each file they touch |
| `StartExecute, CheckDrift` | preflight, which reads the approved plan and its metadata; the fingerprint comparison, which reads the metadata again (`plan_executor.py:869`), so that a re-approval in between counts |
| `Lock, Fill, FillFails, Begin` | `acquire_execution_lock` and the lines before the try block |
| `BeginStep, IssueToken, TakeSnapshot, Validate, RunTool, ToolFails, Overrun` | one turn of the step loop, at each file it touches |
| `Finish, UndoPath, UndoFails, UndoDone` | classification and `_rollback_mutations`, path by path; where the text of a path was to be written back, a restoration that raises may have left some other text |
| `WriteSummary, WriteTerminal, AfterTerminal, WriteEnvelope, Report` | `_finalize_execution` |
| `Fault` | an I/O operation or a log append raises; inside the try block that starts the except block (`Raise`), inside the except block it ends the command |
| `Crash` | the process is killed; a `KeyboardInterrupt`, which `except Exception` does not catch, is the same |
| `Edit` | somebody else changes a file; `OutsideEdits` says which changes there may be |

### The other modules against the code

**FileMutation.** `file` is the sequence of the file's characters, `content` the text
in memory, `positions` and `start` the locals of the search, `applied` the edits made
so far. `TakeSnapshot` is `_capture_mutation_snapshot`, `Gate` the token and the
policy, `Read, NextEdit, Find, Choose, Write` are `patch_edit` and
`_apply_single_edit` with one turn of a loop per step, `ApplyPatch` and `CreateFile` the
two other tools, `WriteFails` a write that raises after the file was truncated, and
`Undo` the rollback. `Decode` and `Encode` are universal newlines in Python's
`read_text` and `write_text`: the code gives neither a `newline` argument. On a
platform whose line separator is LF, a text written is the text read back; a file
read and written back need not be the file.

**ArgvPolicy.** `stage` is the check that the call has reached and `next` the index of
the word it looks at. `CheckToken, CheckShape, ScanOption, ScanPath` are `git_run`
with `validate_git_run`, `CheckForm, ScanArg, CheckTestToken` are `test_run` with
`validate_test_run_argv`; the first asks for the token before the policy, the second
after it. A word is known by the classes the code tests it for.

**AutonomyCycle.** `used` is what the caller believes to be used; the command's locals
are `mode, enabled, plan, elapsed, answer`. `Check, Generate, CheckProjection, Submit,
Log` are `run_autonomy_cycle` in its order. `Raise` is an exception anywhere in the
command, also in the audit records after the plan was stored: the handlers answer
`DENIED: ...` (`loop.py:259-274`) and nothing else. `Deliver` is an answer reaching the
caller, who after `DENIED` knows what it knew before, and tries again or stops. `Lose` is
a kill, or an exception in the handler itself: no answer at all. Time is counted in
ticks, several to a second, because the code cuts off to whole seconds
(`autonomy.py:158`). `submitted, lost, mutations, ticks, before` are history; `lost`
counts the submissions that no answer told the caller of.

**AgentCalls.** `part` says which part a behaviour is about. The others rest in one
state each (`NoStep`, `NoTokens`, `NoCycle`, `NoSelection`), so the states of the
composition are those of the parts, added up and not multiplied. The theorems are about
the parts.

### Abstractions

- A plan is its hash. A file content is one of a few values. A step carries the
  one content its edit matches (`old`) and the one it writes (`new`): how
  `PATCH_EDIT` finds its text is in `FileMutation`.
- Hashing is injective. `Hidden` holds the paths in directories the fingerprint skips.
  The fingerprint's walk, and the gate's, is one step.
- Writing the metadata is one step. Approvers of two submissions of one plan may be at
  it together, as they may at the approved file; what the model has then is one of
  their two fingerprints, and not a torn file, which `load_approved_plan_meta` rejects.
- A workspace write is one step. A kill in the middle of one is not modelled, and
  nothing in the code recovers from it; a write that *raises* half-way is (`ToolFails`,
  `WriteFails`).
- In `FileMutation` the step has the file for itself; other processes are in
  `PlanLifecycle`. A character is a member of the constant `Char`, which has `"\r"` and
  `"\n"` in it.
- In `ArgvPolicy`, which words are paths in the workspace, or carry a forbidden part,
  is a constant; every word of white space is one, `Blank`.
- An exception's class, taken by the code from words of its message, is `FAILED` or
  `TIME_BUDGET_EXCEEDED`: the executor handles the others alike.
- The step limit in `execute_plan` cannot be reached, because `validate_plan` has the
  same limit (`ValidPlan`).
- In `PlanLifecycle` a token is alive or dead, which is what decides a step;
  revocation, expiry and torn files are in `CapabilityStore`.
- The summary is kept per plan, as the code gives a plan at most one execution
  (`StartedOnce`, theorem `ExecutionIsSingleUse`). That is stricter than the documents
  (finding `rerun`), so no run presents it as a property the program should have.
- In `TestSelection` the graph is arbitrary, not read from source files. The
  callers that a turn appends come in a fixed order, as they do in the code, which
  sorts them.

## 3. Runs

`tlc -workers 2 -config <run>.cfg <module>`. Deadlock checking is off everywhere:
a system with no command left to give, and a function that has returned, really stop.

### Properties that hold

| run | instance | properties |
|---|---|---|
| `race` | 2 processes, 2 plans on different files (one edits a file twice and runs a test), 1 edit of a file that no plan works on, no faults; 841,187 states up to symmetry | `TypeOK`; `SingleRunner`; `ExecutedTookEffect`; `ImplementsPlanTransaction` |
| `faults` | 2 processes, 1 plan submitted up to twice (an edit, a new file, a second write of the first file), 1 kill, 1 fault, fair scheduling; 284,519 states | `ApprovalsSpendSubmissions`; `ApprovedIsReadable`; `StartsNeedApproval`; `SummaryMatchesMarker`; `CommandsEnd`; `InFlightIsDecided`; `ImplementsExecutionRecord`; `FailedLeavesNoTrace` |
| `calls` | one part at a time, fair scheduling; 705,239 states | of the parts, as follows |
| - gateway | file steps of up to two edits on all short texts, 1 write that raises; all command lines of up to five words, with and without a token | `TypeOK`; `ScanIsGreedy`; `EffectIsWanted`; `DeniedWritesNothing`; `FailureRestoresText`; `StepEnds`; `ArgvTypeOK`; `RunsTheGrammar`; `ChangesNeedToken`; `ArgvIsDecided` |
| - tokens | 1 process, 2 tokens, a clock, 2 kills | `TokensTypeOK`; `RevokedIsDenied`; `FilesTellTheGrants` |
| - autonomy | limits of 2 cycles, 2 seconds and 3 mutation steps; plans of up to 2 steps that take up to 2 seconds; 2 commands that raise or are killed | `CycleTypeOK`; `SubmissionsAreCharged`; `PlansFitTheBudget`; `OverspendIsBounded`; `CallerStops` |
| - selection | all call graphs on 3 functions, all import graphs on 2 files, up to 2 changed functions | `SelectionTypeOK`; `ImpactIsReachability`; `QueueIsBounded`; `SelectionEnds` |

What they say, and their limits:

- `SingleRunner`: one process executes a plan, although nothing but the marker's
  creation is atomic. A failed write of the new marker may free it again or leave an
  empty one (`FillFails`); `race` has no faults, and that case is in `faults`, where the
  marker has to follow the state flow, and in the theorem `ExecutionIsExclusive`.
- `ApprovalsSpendSubmissions`: two approvers may both copy the pending file, but the
  second fails to unlink it and never writes metadata.
- `ApprovedIsReadable`: the two approvers share one temporary file. One can rename
  what the other has just emptied, but the other still has it open and writes it, or
  fails. If it is killed first, the approved file stays torn: loading it raises, so the
  plan starts nothing (`StartsNeedApproval`, whose `StartExecute` needs a whole text).
- `SummaryMatchesMarker` is stated, and `ExecutedTookEffect` run, without I/O faults.
  With one the latter does not hold (finding `late_fault`), and a second summary is
  written over the first.
- `ImplementsPlanTransaction` holds for plans on disjoint files. Nothing keeps two
  executions off one file: a rollback of one plan can put back what another had
  written (`plan_executor.py:714-729`). The run therefore uses disjoint files; for
  a shared file the code does not have the property.
- `FailedLeavesNoTrace`: when the marker becomes `FAILED`, every file the plan names
  is as at its start, except those the summary reports as not restored. The run has one
  plan, for the reason just given.
- `InFlightIsDecided` is stated for behaviours without a kill or fault: there is no
  recovery of a plan left `IN_FLIGHT`, by design
  (`docs/execution_state_semantics.md`).
- `EffectIsWanted` compares the loops with `Edited` in `TextFiles`, which defines the
  matches of a text as the occurrences that no earlier match overlaps, and has no
  loop. It says in particular that a step fails only when it has to. Two things about
  `Edited` are taken from the code and not from the documents. An edit with two equal
  texts is skipped; the documents want it denied without a match, which is what
  `EditsAreDocumented` says (finding `equal_texts`). And overlapping occurrences count as
  one match, about which the documents are silent ("1 exact match"): "aa" has one match in
  "aaa", at its start. The runs have LF as line separator; with CR LF, a CR that an
  edit brings in would not be read back.
- `DeniedWritesNothing`: several edits are made in memory and written once.
- `FailureRestoresText` is about the text, not the file: line endings are lost (finding
  `line_endings`). It also covers a write that stopped half-way.
- `RunsTheGrammar` compares the scan with a definition that gives every word a role
  (flag, value, path, separator, operand) and asks the roles to fit together. The
  documented grammar has no override flag anywhere and a version probe for `python` only.
  The code lets more run, and the property names both exceptions: `OverrideOperand`
  (finding `override_flags`) and `UnlistedProbe` (finding on `cmd_policy.py:131`). Nothing
  else outside the grammar runs, and with a token nothing in it is denied.
- `ChangesNeedToken`: the gateway decides about the token from its own reading of the
  subcommand, before the policy reads argv (`gateway.py:350`). The two must agree also
  on words in other cases, like `ADD`.
- `PlansFitTheBudget` is stated while the caller has been told of every plan. The
  counters are the caller's: a plan that is pending when the audit record after it raises
  is not charged for (`autonomy.py:192-205`), the caller is told `DENIED` (finding
  `late_denial`) and may ask for another. `SubmissionsAreCharged` says how much the
  counters then differ, and `OverspendIsBounded` what it can cost: each failing command
  leaves at most one such plan, and each such plan at most one more budget of mutation
  steps.
- `CallerStops` is about a caller that goes on for as long as it gets plans and may retry
  what has failed. It needs that only finitely many commands fail: one whose commands
  always fail never meets a limit.
- The token part of `calls` is sequential, with kills between any two file operations.
  Concurrent use of the token files breaks `RevokedIsDenied` (finding
  `revocation_race`).

**Bounds.** `MaxSubmits`, `MaxEdits`, `MaxCrashes`, `MaxFaults` (`PlanLifecycle`),
`MaxTime`, `MaxCrashes` (`CapabilityStore`), `MaxFaults` (`FileMutation`), `MaxTicks`,
`MaxPlan`, `MaxFailures` (`AutonomyCycle`), `MaxChanged` (`TestSelection`) and
`OutsideEdits`. Two processes show every race on one lock and on one file rewritten as a
whole; two submissions make two approvals, and an approval after a run, happen; one fault
anywhere, in the except block too, and one kill of either process let an approver or
an executor die at every point while the other goes on. Two kills of token commands cut
off two rewrites of one file. Five characters hold two matches and an occurrence that
overlaps one, and three hold every line ending next to every other; two edits let the
second fail after the first; three words after a subcommand let a flag, its value and
what follows meet every other word. With two ticks to a second, two cycles that each drop
half a second lose a whole one, and each of the three limits is reached first in some
behaviour. In `race` the one edit is of a file that no plan works on (`EditOfB`): it
makes drift happen, and cannot undo an effect. `race` has no faults or kills so that its
two plans of three and one steps stay small; with the one fault of `faults`
the except block fails after the try block has where it cannot move a marker that is
decided, and a second fault inside it is left to the theorems, which have no bounds. Every action fires in some run. `race` and `denied_test` use the
symmetry of processes, in which no property names a process and none is about liveness;
`faults` does not.

**Fairness.** `FairSpec` asks weak fairness of `Continue(t)`, the steps a process
takes by itself: the operating system runs a process whose command can go on.
Nothing is asked of submissions, new commands, edits, kills, faults or the time
budget. In `AutonomyCycle` it is of `Cycle`: a command runs to its answer, and the caller
sends the next one for as long as it gets plans. `CallerStops` is about that caller,
and commands that raise or are killed are not part of what must happen. `AgentSpec` asks
all of these of its parts; nothing is asked of token commands. In `ToolGateway` it is of the
steps of the file operation and of the scan, and not of a write that raises. In
`TestSelection` fairness is of the whole next-state relation: sequential
code that can go on does. The steps of a command contain no waiting for another
process, which is why weak fairness is enough.

### Disagreements found

Each is a run that TLC finds violated; the counterexample is the behaviour described. The
last one has no run of its own: `RunsTheGrammar` and `ArgvIsDecided` together say that
these command lines run.

| run | property | what the code does |
|---|---|---|
| `drift_race` | `StartsOnApprovedWorkspace` | the fingerprint is compared before the lock and never again; another plan or person can change the workspace in between |
| `late_fault` | `ExecutedTookEffect` | `_finalize_execution` is inside the try block: an audit append that raises after the transition to `EXECUTED` rolls the changes back while the marker stays `EXECUTED` |
| `denied_test` | `ExecutedPassedItsTests` | a `TEST_RUN` whose token is not found has no exit code, and counts as a success in the classification and as a failed test in the summary |
| `rerun` | `DenialsAreReplays` | the marker of a decided plan is never removed, so an execution after a new submission and approval is denied as a replay (`plan_executor.py:772-787`). `docs/execution_state_semantics.md:24` says "A rerun requires explicit new approval.", `:36` "Operator action is required to re-approve and rerun." |
| `revocation_race` | `RevokedIsDenied` | `issue_token` writes back the tokens it had read, so a `revoke_all_tokens` in between is undone |
| `line_endings` | `FailureRestoresFile` | the snapshot is read and written back as text, also when the step has written nothing, so a refused step turns CR LF into LF. `docs/anchors/security-invariants.md:184` says "nothing is written on failure" |
| `equal_texts` | `EditsAreDocumented` | an edit with equal texts succeeds before its text is looked for (`fs_tools.py:192`). `docs/anchors/write-lifecycle.md:112` says "0 exact matches denies", `:115` "out-of-range `occurrence` denies" |
| `late_denial` | `DeniedSubmitsNothing` | an audit record after `submit_plan` raises, and `task.autonomy` answers `DENIED` although its plan is pending (`loop.py:259-274`). `tests/test_autonomy_controller.py:205,208` have denied cycles that submit nothing |
| `override_flags` | `OverridesAreDenied` | the words after `--` are only checked as paths (`git_policy.py:93`), so `git diff -- -C` runs. `git_policy.py:55` says "deny override flags anywhere" |
| `calls` | `RunsTheGrammar` | `py --version` and `python3 --version` run (`cmd_policy.py:131`); the docstring at `:105-111` lists `python --version` alone |

Seen while modelling and not the subject of a run: a torn
revocation file reads as "nothing is revoked", against the comment at
`policy/capabilities.py:85` (the token is refused all the same, because
`revoke_token` also takes it out of the active ones); after a drift denial the old
approval works again once the workspace is back
(`docs/anchors/architecture-contract.md:111` asks for a new approval);
`propose_strategy_from_execution` looks for a `status` the payload of
`_finalize_execution` does not have at its top level (`strategy_proposals.py:12`,
`plan_executor.py:622`); the full test suite is not suggested when one
of several changes has selected tests and the others none
(`workspace_graph.py:198`).

## 4. Proofs

`tlapm <module>.tla`. The theorems hold for all values of the constants that satisfy
the assumptions below. Every invariant and every safety property that a passing run
checks is the conclusion of one of them; `ExecutionIsSingleUse` is about the code alone.

| module | theorem | statement |
|---|---|---|
| `PlanLifecycleProofs` | `TypeCorrect` | `Spec => [](TypeOK /\ Focused)` |
| | `ExecutionIsExclusive` | `Spec => []SingleRunner` |
| | `ExecutionIsSingleUse` | `Spec => []StartedOnce` |
| | `RefinesExecutionRecord` | `Spec => ImplementsExecutionRecord` |
| `PlanApprovalProofs` | `StartsAreApproved` | `Spec => []StartsNeedApproval` |
| | `ApprovalsAreSubmitted` | `Spec => []ApprovalsSpendSubmissions` |
| | `ApprovedCanBeRead` | `Spec => []ApprovedIsReadable` |
| `PlanTransactionProofs` | `SummariesMatch` | `Spec => []SummaryMatchesMarker` |
| | `ExecutedPlansTookEffect` | with `FilesAreDisjoint`: `Spec => [](faults = 0 => ExecutedTookEffect)` |
| | `FailedPlansLeaveNoTrace` | with `FilesAreDisjoint`: `Spec => FailedLeavesNoTrace` |
| | `RunsAreTransactions` | with `FilesAreDisjoint`: `Spec /\ [](faults = 0) => ImplementsPlanTransaction` |
| `FileMutationProofs` | `MutationTypes` | `Spec => []TypeOK` |
| | `SearchIsGreedy` | `Spec => []ScanIsGreedy` |
| | `EffectsAreWanted` | with `PlainTexts`: `Spec => []EffectIsWanted` |
| | `DenialsWriteNothing` | `Spec => []DeniedWritesNothing` |
| | `FailuresRestoreText` | `Spec => []FailureRestoresText` |
| `ArgvPolicyProofs` | `ParsersStayInside` | `ArgvSpec => []ArgvTypeOK` |
| | `ChangesAreAuthorised` | `ArgvSpec => []ChangesNeedToken` |
| | `ParsersRunTheGrammar` | `ArgvSpec => []RunsTheGrammar` |
| `AutonomyCycleProofs` | `CountersStayInBudget` | `CycleSpec => []CycleTypeOK` |
| | `ChargesMatchSubmissions` | `CycleSpec => []SubmissionsAreCharged` |
| | `BudgetsHold` | `CycleSpec => []PlansFitTheBudget` |
| | `OverspendIsLimited` | `CycleSpec => []OverspendIsBounded` |
| `CapabilityStoreProofs` | `FilesKeepTheirTypes` | `TokensSpec => []TokensTypeOK` |
| | `RevokedStaysDenied` | `TokensSpec /\ []Alone => []RevokedIsDenied` |
| | `FilesKeepTheGrants` | `TokensSpec /\ []Alone => []FilesTellTheGrants` |
| `TestSelectionProofs` | `SearchTypes` | `SelectionSpec => []SelectionTypeOK` |
| | `ImpactIsExact` | `SelectionSpec => []ImpactIsReachability` |
| | `WorkIsBounded` | `SelectionSpec => []QueueIsBounded` |

**Assumptions on constants.** TLC evaluates them in the runs. Bounds are natural
numbers and constants have the types their comments give (`BoundsAreNaturals`,
`RolesAndBounds`, `TestsAreFunctions`, `WordsAreClassified`). Values that stand for
"nothing" or for a broken file are no values (`NoneIsNoValue`, `NoneIsNoSummary`,
`BrokenFiles`). The rest is what code outside a module sees to: plans are what
`validate_plan` accepts (`PlansAreValid`), requests what the step schema accepts
(`RequestsAreValid`), limits are positive (`LimitsArePositive`, `autonomy.py`), a line
ends with LF or CR LF (`PlatformEndsLines`), and the flags of a git command begin with
a dash and are none of the overriding ones (`FlagsAreDashed`, the tables of
`git_policy.py`).

**Conditions of theorems.** Each is one without which the code does not have the
property.

- `FilesAreDisjoint`: nobody writes a file that a plan mutates but this plan's own
  mutating steps: no other plan works on it, no subprocess of the plan writes it, and no
  edit from outside (`OutsideEdits`) is of it. The first is missing from the code, which
  lets a rollback put back what another plan had written (`plan_executor.py:714-729`); the
  second is so for any rollback that knows only the files of the mutating steps; without
  the third, a person who edits a file after its snapshot loses the edit to a rollback,
  or overwrites an effect. The workspace may be edited everywhere else. The instances of
  `race` and `faults` satisfy it.
- `faults = 0`: the finding `late_fault`. `FailedPlansLeaveNoTrace` does without it:
  I/O may fail anywhere in a run or its rollback. Crashes are never excluded.
- `Alone`: no two token commands overlap (finding `revocation_race`). They may still
  be killed between any two file operations.
- `PlainTexts`: the platform ends lines with LF, or no request brings in a CR. On a
  platform with CR LF, a `"\r\n"` that is written becomes `"\r\r\n"`, and two ends of
  line when it is read.

**Types** (`PlanLifecycle`). `TypeOK` alone is not inductive: `CurrentStep(t)` is a step
only while the loop is inside the plan. `Focused` adds that a command has a plan, and
that past the head of the loop there is a step to work on.

**Lock.** `SingleRunner` and `StartedOnce` follow from `LockInv`, which ties the
marker to the process that made it: before `IN_FLIGHT` nothing has started; a process
at `fill` sees its plan's marker `created`; one in the execution sees it `IN_FLIGHT`
or decided. Without the last two, a second process could be at `lock` with a free
marker while another executes. Most actions keep the marker and start nothing, and
are dealt with by one lemma about such *quiet* steps (`QuietStep`); the remaining
ones are `Lock`, `Fill`, `FillFails`, `WriteTerminal`.

**Marker.** Each of those steps maps to a step of `ExecutionRecord` or leaves
`markerRecord` as it is; `LockInv` says that `Fill` finds the record `APPROVED`.

**Approvals.** `StartsNeedApproval` needs that metadata on disk, or a command past
`StartExecute`, shows a completed approval, and that a plan starts at most once.
`ApprovalsSpendSubmissions` counts: approvals, the approvers between `unlink` and the
metadata, and the pending file are together no more than the submissions (`SpendInv`).
The unlink is what turns one pending file into one such approver; two approvers that
have both copied it do not count yet. `ApprovedIsReadable` needs the same of the
temporary file as of the approved one (`ReadInv`): if it is not whole, a process that
has it open is at the writing of it. A rename hands this from the one to the other.

**Transactions.** A lemma per kind of step (`RunSteps`) reduces the actions of
`PlanLifecycle` to what a run does: it passes on, takes a snapshot, returns from a
step, turns back, undoes a path, writes its summary, decides. `TransactionInv` says of
every run that it is `Restorable`: its snapshots, read backwards, give each file as it
was at the start, and a file that differs from the start has a snapshot. While no I/O
fails it also is `Effective`: as long as all results are successes, its files are those
of the start with the effects of the steps so far; a run that is to be decided as a
success has the effects of all steps; and no path of a rollback is reported as an
error. `FilesAreDisjoint` makes steps of other runs keep this (`RunsAreLocal`). When the
marker is decided, this gives the effect as a whole, or the start. The refinement
mapping shows the files of a plan in flight as at its start (`settledTree`), so only
the decision is a step of `PlanTransaction`.

**File steps.** The two loops of `_apply_single_edit` and `patch_edit` each have an
invariant. The search: the matches found are the occurrences before `start` that no
earlier match overlaps (`GreedyFinds`), so they are the matches of `TextFiles`, which
are determined (`MatchesAreUnique`, `RankOfMatch`), and the edit that the code chooses
is the one that is meant (`EditIsMeant`). The list: the text in memory is what the
edits up to here are meant to make of the text at the start (`EffectInv`). Denials need
that nothing is written before the point `write`; the rollback needs that the snapshot
is the text from before (`UndoInv`) and that a text without a CR, written and read, is
itself (`RoundTrip`), also where lines end with CR LF: a decoded text has no CR.

**Command lines.** `ChangesNeedToken` carries that a call past the token check has one
or has a subcommand that does not mutate, and that both readings of the subcommand are
one (`TokenInv`). For `RunsTheGrammar` the scan of git keeps two things (`GitInv`): the
words behind `next` have roles that fit, and in every way to give roles to all words
those have the same ones. At the end the first gives roles to all words of a command line
that runs (`RolesFit`: it is grammatical, or has an override flag for an operand); the
second makes roles impossible for one that is denied, because the word that stopped the
scan has none in any reading.

**Budgets.** A submission is *due* from `Submit` until its answer is delivered or lost,
and *untold* if the answer is `DENIED`, whose delivery makes it lost. What was submitted
is what was charged, lost, due or untold (`ChargeInv`), and while nothing is lost the same
goes for mutation steps and, up to a dropped fraction of a second for each submission,
for time (`SpentInv`). Each loss takes a failure and at most the limit of mutation steps
(`LossInv`).

**Token files.** Under `Alone`, what a command has loaded is what the file has, so that
it cannot write back a revoked token (`RevocationInv`). `GrantInv` says, for each point
between two file operations, how far the files are behind `issued` and `revoked`
(`Underway`); when the command ends they are `Settled`.

**Test selection.** While the search runs, what was found and what is still on the
list (`Reached`) contains the changes and all callers of what was found, and is inside
every set that is closed under callers (`FrontierInv`). When the list is empty, the
two sides meet in the least closed set. The bound on the work holds because a function
that is found for the first time adds its call edges to one side and at most as many
callers to the other (`NewFunctionOpensCalls`).

**Recursion.** `Encode`, `Decode` and `Edited` are built from `FlattenSeq` and
`FoldLeft`, which are recursive functions; what these give is proved without an induction rule: a value that goes on element by element exists and is
unique, because there is no smallest length at which it fails (`LeastNumber`,
`GrowingSequences`, from the well-foundedness of `<`).

**Only model-checked.** Liveness: `CommandsEnd`, `InFlightIsDecided`, `StepEnds`,
`ArgvIsDecided`, `CallerStops`, `SelectionEnds`. It rests on fairness and enabledness,
which are out of the prover's reach. The theorems about file steps and command lines
are about `FileMutation` and `ArgvPolicy`; that a call of `ToolGateway` is a step of one of
them, and a behaviour of `AgentCalls` one of its parts', is by definition, and checked in
the run `calls`.

## 5. Not modelled

- Of the file tools: the resolution of paths, size limits, encodings, the diff in the
  result. Of `test_run`: which of two directories it runs in. Another writer between
  the read and the write of `patch_edit`, which the code does not look for.
- The temporary names of files other than the approved plan (the pending plan and the
  metadata can also have two writers), and the fingerprint's walk
  file by file: a change during the walk differs from one right after it only in that
  the fingerprint may be of no workspace, which the drift check then denies.
- `cmd_run`, `read_abs_path`, `search_files` of the gateway: no plan step mutates
  anything through them.
- Planners (text to plan, one of them a network call), strategy proposals, runtime
  history health, mounts: stateless or read-only, and nothing reads back what they
  produce during the lifecycle. The parsing of source files into the graph.
- Wording and layout of summaries, envelopes and audit records; truncation of output.
- Superseded files that nothing imports (`plan_submit.py`, `pending_store.py`,
  `revocations.py`, ...) and manual check scripts.

## 6. Plan

The model covers what changes state on the live path, and its safety is proved. Left:

1. The denial for drift (`plan_executor.py:889`): a property about a plan that is denied
   and later starts after all.
2. The theorems of the parts for the composed `GatewaySpec` and `AgentSpec`.
3. `FilesAreDisjoint` weakened to plans that are in flight at the same time, and `Alone`
   to the commands that write a token file.
4. Bounds for the steps that a run and a scan can take, as far as they are safety
   properties: they say why the loops end without fairness.
