--------------------------- MODULE MCPlanLifecycle ---------------------------
(* Small instances of PlanLifecycle for TLC. *)
EXTENDS PlanLifecycle, TLC

Do(tool, path, old, new) ==
    [tool |-> tool, path |-> path, old |-> old, new |-> new, allowed |-> TRUE]

\* Two files, a path that is free, and a path that subprocesses write.
MCPath == {"a", "b", "c", "log"}
MCText == {"v0", "v1", "v2"}
MCDisk0 == [f \in MCPath |-> IF f \in {"a", "b"} THEN "v0" ELSE Absent]

\* p1 mutates one file twice, so that a second snapshot of the path exists,
\* and runs a test; p2 works elsewhere.
RaceSteps ==
    [p1 |-> <<Do("PATCH_APPLY", "a", "v0", "v1"), Do("PATCH_EDIT", "a", "v1", "v2"),
              Do("TEST_RUN", "log", "v0", "v1")>>,
     p2 |-> <<Do("FILE_CREATE", "c", "v0", "v1")>>]

\* p1 alone.
ApprovalSteps == [p1 |-> <<Do("PATCH_APPLY", "a", "v0", "v1")>>]

\* p1 mutates a file, creates one, and mutates the first one again.
FaultySteps ==
    [p1 |-> <<Do("PATCH_EDIT", "a", "v0", "v1"), Do("FILE_CREATE", "c", "v0", "v1"),
              Do("PATCH_APPLY", "a", "v0", "v2")>>]

\* Somebody else changes b, which no plan works on: the fingerprint is another.
EditOfB == {<<"b", "v1">>}
NoEdits == {}

ProcSymmetry == Permutations(Proc)
=============================================================================
