------------------------------ MODULE AgentCalls ------------------------------
(***************************************************************************)
(* The parts of the agent that work within one process and share no state: *)
(* a step that goes through the tool gateway, the commands on capability   *)
(* tokens, the autonomy cycle with its caller, and the selection of tests. *)
(* A behaviour is one of one part; the others rest.                        *)
(***************************************************************************)
EXTENDS ToolGateway, CapabilityStore, AutonomyCycle, TestSelection

VARIABLE part

\* The parts at rest.
NoStep == NoCommand /\ NoMutation

NoTokens == TokensInit

NoCycle ==
    /\ used = Nothing /\ phase = "stopped"
    /\ mode = "MANUAL" /\ enabled = FALSE /\ plan = 0 /\ elapsed = 0 /\ answer = NoAnswer
    /\ failures = 0
    /\ submitted = 0 /\ lost = 0 /\ mutations = 0 /\ ticks = 0 /\ before = 0

NoSelection ==
    /\ calls = {} /\ imports = {}
    /\ changedPaths = {} /\ changedFunctions = <<>> /\ fallback = FALSE
    /\ progress = "done"
    /\ pending = <<>> /\ impacted = {} /\ selected = {}
    /\ runFullSuite = FALSE /\ pops = 0

AgentInit ==
    \/ part = "gateway" /\ GatewayInit /\ NoTokens /\ NoCycle /\ NoSelection
    \/ part = "tokens" /\ NoStep /\ TokensInit /\ NoCycle /\ NoSelection
    \/ part = "autonomy" /\ NoStep /\ NoTokens /\ CycleInit /\ NoSelection
    \/ part = "selection" /\ NoStep /\ NoTokens /\ NoCycle /\ SelectionInit

gatewayVars == <<vars, argvVars>>
agentVars == <<part, gatewayVars, tokensVars, cycleVars, selectionVars>>

AgentNext ==
    /\ \/ part = "gateway" /\ GatewayNext /\ UNCHANGED <<tokensVars, cycleVars, selectionVars>>
       \/ part = "tokens" /\ TokensNext /\ UNCHANGED <<gatewayVars, cycleVars, selectionVars>>
       \/ part = "autonomy" /\ CycleNext /\ UNCHANGED <<gatewayVars, tokensVars, selectionVars>>
       \/ part = "selection" /\ SelectionNext /\ UNCHANGED <<gatewayVars, tokensVars, cycleVars>>
    /\ UNCHANGED part

\* What each part is promised by the process that runs it: what has begun goes
\* on.
AgentSpec ==
    /\ AgentInit /\ [][AgentNext]_agentVars
    /\ WF_vars(Step) /\ WF_argvVars(ArgvNext)
    /\ WF_cycleVars(Cycle) /\ WF_selectionVars(SelectionNext)
=============================================================================
