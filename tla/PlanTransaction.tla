--------------------------- MODULE PlanTransaction ---------------------------
(***************************************************************************)
(* What executing a plan promises about the files it names: the plan is a  *)
(* transaction.  Either all of its mutations take effect, in one step, or  *)
(* none does; and it is decided at most once.  Only paths that some plan   *)
(* mutates with a typed tool are part of the tree here: what test and git  *)
(* subprocesses leave behind is nobody's transaction.                      *)
(***************************************************************************)
EXTENDS PlanModel

CONSTANT Disk0
VARIABLES tree, outcome

TypedPaths == UNION {Typed(p) : p \in Plan}

Init ==
    /\ tree = [f \in TypedPaths |-> Disk0[f]]
    /\ outcome = [p \in Plan |-> "open"]

Commit(p) ==
    /\ outcome[p] = "open"
    /\ outcome' = [outcome EXCEPT ![p] = "committed"]
    /\ tree' = [f \in TypedPaths |-> Applied(p, tree, f)]

Abort(p) ==
    /\ outcome[p] = "open"
    /\ outcome' = [outcome EXCEPT ![p] = "aborted"]
    /\ UNCHANGED tree

Next == \E p \in Plan : Commit(p) \/ Abort(p)

Spec == Init /\ [][Next]_<<tree, outcome>>
=============================================================================
