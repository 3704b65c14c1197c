----------------------------- MODULE ToolGateway -----------------------------
(***************************************************************************)
(* tools/gateway.py, the one way from a plan to its tools: a step is a     *)
(* mutation of a file (FileMutation) or a command line (ArgvPolicy), and   *)
(* the executor calls the gateway for one step at a time.                  *)
(***************************************************************************)
EXTENDS FileMutation, ArgvPolicy

\* The part that the step does not call.
NoCommand ==
    /\ command = [tool |-> "GIT_RUN", argv |-> <<>>] /\ granted = FALSE
    /\ stage = "denied" /\ next = 1

NoMutation ==
    /\ file = Absent /\ base = Absent
    /\ request = [tool |-> "PATCH_EDIT", edits |-> <<>>, guard |-> Absent, text |-> <<>>]
    /\ pc = "end" /\ snapshot = Absent
    /\ content = <<>> /\ applied = 0 /\ positions = <<>> /\ start = 1
    /\ reason = "none" /\ faults = 0

GatewayInit == (NoCommand /\ Init) \/ (NoMutation /\ ArgvInit)

GatewayNext ==
    \/ Next /\ UNCHANGED argvVars
    \/ ArgvNext /\ UNCHANGED vars

GatewaySpec ==
    /\ GatewayInit /\ [][GatewayNext]_<<vars, argvVars>>
    /\ WF_vars(Step) /\ WF_argvVars(ArgvNext)
=============================================================================
