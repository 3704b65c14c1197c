------------------------------ MODULE PlanModel ------------------------------
(***************************************************************************)
(* The data that the plan lifecycle works on: plans and their steps, the   *)
(* workspace tree and its fingerprint, the approval gate, what each tool   *)
(* does to the tree, how a run is classified and what a rollback restores. *)
(*                                                                         *)
(* A plan is identified with its hash (plan_hash.py: the hash is computed  *)
(* over the whole canonical plan, so equal hashes mean equal plans).  File *)
(* contents are members of a small set Text.  A step carries, besides its  *)
(* tool and path, the one content "old" in which the edits of a PATCH_EDIT *)
(* match, the content "new" that it writes, and whether PolicyEngine       *)
(* allows it ("allowed": a fixed verdict, the policy has no state).        *)
(***************************************************************************)
EXTENDS Integers, Sequences, FiniteSets

CONSTANTS
    Plan,             \* plan hashes
    Path,             \* the workspace paths that matter
    Text,             \* file contents
    Absent,           \* "no file at this path"
    Hidden,           \* the paths the fingerprint skips
    Steps,            \* the steps of every plan
    MaxStepsPerPlan,  \* plan_validator.MAX_STEPS_PER_PLAN
    None              \* Python's None

MutatingTools == {"PATCH_APPLY", "PATCH_EDIT", "FILE_CREATE"}

\* GIT_READ is GIT_RUN with a subcommand other than init, add and commit:
\* the gateway asks for no token then.
GitTools == {"GIT_RUN", "GIT_READ"}
ProcessTools == GitTools \cup {"TEST_RUN"}

Step == [tool: MutatingTools \cup ProcessTools, path: Path,
         old: Text, new: Text, allowed: BOOLEAN]

Contents == Text \cup {Absent}
Tree == [Path -> Contents]

\* validate_plan: between one and MAX_STEPS_PER_PLAN well-formed steps.
ValidPlan(steps) == steps \in Seq(Step) /\ Len(steps) \in 1 .. MaxStepsPerPlan

ASSUME PlansAreValid ==
    /\ Absent \notin Text
    /\ MaxStepsPerPlan \in Nat
    /\ Steps \in [Plan -> Seq(Step)]
    /\ \A p \in Plan : ValidPlan(Steps[p])
    /\ Hidden \subseteq Path

-----------------------------------------------------------------------------
(* The workspace.  The fingerprint hashes every file outside the excluded  *)
(* directories; hashing is taken to be injective.                          *)

Fingerprint(tree) == [f \in Path \ Hidden |-> tree[f]]

Prints == [Path \ Hidden -> Contents]

ASSUME NoneIsNoValue == None \notin Plan \cup Prints

\* The tool of every mutating step fits the file state at approval time.
GateOpen(p, tree) ==
    \A i \in DOMAIN Steps[p] :
        LET s == Steps[p][i] IN
        /\ s.tool \in {"PATCH_APPLY", "PATCH_EDIT"} => tree[s.path] # Absent
        /\ s.tool = "FILE_CREATE" => tree[s.path] = Absent
-----------------------------------------------------------------------------
(* Tools.  "ok" is a result that reports success; "rejected" the string    *)
(* result "[ERROR ..."; "denied" a result with denied = True; "failed" a   *)
(* non-zero exit code; "timeout" a result with timed_out = True; "raised"  *)
(* an exception that leaves execute_step.                                  *)

Outcomes == {"ok", "rejected", "denied", "failed", "timeout", "raised"}

\* What a refused token or a refusing policy comes back as.
Refusal(s) == IF s.tool \in {"PATCH_APPLY", "FILE_CREATE"} THEN "raised" ELSE "denied"

Written(s, tree) == [tree EXCEPT ![s.path] = s.new]

\* Each tool, once permitted, gives a result out and turns tree into after.
ApplyPatch(s, tree, out, after) ==
    IF tree[s.path] # Absent
    THEN out = "ok" /\ after = Written(s, tree)
    ELSE out = "rejected" /\ after = tree

CreateFile(s, tree, out, after) ==
    IF tree[s.path] = Absent
    THEN out = "ok" /\ after = Written(s, tree)
    ELSE out = "raised" /\ after = tree

PatchEdit(s, tree, out, after) ==
    IF tree[s.path] = s.old
    THEN out = "ok" /\ after = Written(s, tree)
    ELSE out = "denied" /\ after = tree

\* A subprocess may leave its own traces (s.path, s.new).
RunCmd(s, tree, out, after) ==
    /\ out \in {"ok", "failed", "timeout", "raised"}
    /\ after \in {tree, Written(s, tree)}

ToolCall(s, tree, out, after) ==
    \/ s.tool = "PATCH_APPLY" /\ ApplyPatch(s, tree, out, after)
    \/ s.tool = "FILE_CREATE" /\ CreateFile(s, tree, out, after)
    \/ s.tool = "PATCH_EDIT" /\ PatchEdit(s, tree, out, after)
    \/ s.tool \in ProcessTools /\ RunCmd(s, tree, out, after)
-----------------------------------------------------------------------------
(* Classification of a run from its step results.  FAILED also stands for  *)
(* the classes that an exception gets from the words in its message, all   *)
(* but TIME_BUDGET_EXCEEDED: they are handled alike.                       *)

Statuses == {"SUCCESS", "FAILED", "TEST_FAILURE", "PATCH_REJECTED", "TIME_BUDGET_EXCEEDED"}

\* Mutant: a denied edit counts as a success.
ResultClassOfEditIgnored(s, out) ==
    CASE s.tool = "TEST_RUN" /\ out = "failed"                  -> "TEST_FAILURE"
      [] s.tool = "PATCH_APPLY" /\ out = "rejected"             -> "PATCH_REJECTED"
      [] s.tool \in GitTools /\ out \in {"denied", "failed"}    -> "FAILED"
      [] OTHER                                                  -> "SUCCESS"

ResultClass(s, out) ==
    CASE s.tool = "TEST_RUN" /\ out = "timeout"                 -> "TIME_BUDGET_EXCEEDED"
      [] s.tool = "TEST_RUN" /\ out = "failed"                  -> "TEST_FAILURE"
      [] s.tool = "PATCH_APPLY" /\ out = "rejected"             -> "PATCH_REJECTED"
      [] s.tool = "PATCH_EDIT" /\ out = "denied"                -> "PATCH_REJECTED"
      [] s.tool \in GitTools /\ out \in {"denied", "failed"}    -> "FAILED"
      [] OTHER                                                  -> "SUCCESS"

\* The class of the first result that is not a success.
Classify(p, results) ==
    LET class(i) == ResultClass(Steps[p][i], results[i])
        bad == {i \in DOMAIN results : class(i) # "SUCCESS"}
    IN  IF bad = {} THEN "SUCCESS"
        ELSE class(CHOOSE i \in bad : \A j \in bad : i <= j)

\* The "failed" count of the test summary: a TEST_RUN without exit code 0.
FailedTests(p, results) ==
    Cardinality({i \in DOMAIN results : Steps[p][i].tool = "TEST_RUN" /\ results[i] # "ok"})
-----------------------------------------------------------------------------
(* Snapshots and rollback.                                                 *)

Snapshot == [path: Path, content: Contents]

\* Mutant: the newest snapshot of a path wins.
RestoredNewest(snaps) ==
    {i \in DOMAIN snaps : \A j \in (i + 1) .. Len(snaps) : snaps[j].path # snaps[i].path}

\* The indices of the snapshots a rollback restores: the earliest per path.
Restored(snaps) ==
    {i \in DOMAIN snaps : \A j \in 1 .. (i - 1) : snaps[j].path # snaps[i].path}

\* The paths that plan p mutates through the typed tools.
Typed(p) ==
    {Steps[p][i].path : i \in {j \in DOMAIN Steps[p] : Steps[p][j].tool \in MutatingTools}}

\* Path f once every step of p has been applied to a tree: the last write.
Applied(p, tree, f) ==
    LET writes == {i \in DOMAIN Steps[p] : Steps[p][i].tool \in MutatingTools /\ Steps[p][i].path = f}
    IN  IF writes = {} THEN tree[f]
        ELSE Steps[p][CHOOSE i \in writes : \A j \in writes : j <= i].new
=============================================================================
