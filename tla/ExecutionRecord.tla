--------------------------- MODULE ExecutionRecord ---------------------------
(***************************************************************************)
(* What the execution marker promises (ALLOWED_STATE_TRANSITIONS of        *)
(* plan_store.py): an approved plan is consumed by its first execution,    *)
(* an execution ends at most once, and nothing is ever reset.  How a       *)
(* process comes to write the marker, and who it races with, is left to    *)
(* PlanLifecycle.                                                          *)
(***************************************************************************)
CONSTANT Plan
VARIABLE record

States == {"APPROVED", "IN_FLIGHT", "EXECUTED", "FAILED"}

Init == record = [p \in Plan |-> "APPROVED"]

Move(p, from, to) == record[p] = from /\ record' = [record EXCEPT ![p] = to]

Consume(p) == Move(p, "APPROVED", "IN_FLIGHT")
Succeed(p) == Move(p, "IN_FLIGHT", "EXECUTED")
Fail(p) == Move(p, "IN_FLIGHT", "FAILED")

Next == \E p \in Plan : Consume(p) \/ Succeed(p) \/ Fail(p)

Spec == Init /\ [][Next]_record
=============================================================================
