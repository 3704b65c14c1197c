---------------------------- MODULE AutonomyCycle ----------------------------
(***************************************************************************)
(* agent_core/autonomy.py: run_autonomy_cycle, called by the task.autonomy *)
(* command of agent_core/loop.py.  The agent keeps no budget between       *)
(* commands.  Its caller sends the limits and what is used of them, and    *)
(* takes what is used now from the answer, if an answer comes and tells.   *)
(*                                                                         *)
(* The clock counts ticks, several to a second, because the code counts    *)
(* whole seconds.                                                          *)
(***************************************************************************)
EXTENDS Integers

CONSTANTS
    MaxCycles, MaxRuntime, MaxMutations,  \* the limits of the budget
    TicksPerSecond,
    MaxTicks,     \* bound: what it takes to generate one plan
    MaxPlan,      \* bound: mutation steps of one plan
    MaxFailures   \* bound: commands that raise or are killed

ASSUME LimitsArePositive ==
    /\ {MaxCycles, MaxRuntime, MaxMutations, TicksPerSecond} \subseteq Nat \ {0}
    /\ {MaxTicks, MaxPlan, MaxFailures} \subseteq Nat

VARIABLES
    used,                   \* what the caller knows to be used of the budget
    phase, mode, enabled,   \* the command: where it is, its mode, the feature flag
    plan, elapsed,          \* its plan's mutation steps, and the ticks to make it
    answer,                 \* its result: why it stopped, and what is used then
    failures,               \* commands that raised or were killed so far
    submitted, lost,        \* history: submissions, those that no answer tells of,
    mutations, ticks,       \* the mutation steps in them, and their real time
    before                  \* history: submissions when the command began

locals == <<mode, enabled, plan, elapsed, answer>>
tally == <<submitted, lost, mutations, ticks, before>>
cycleVars == <<used, phase, locals, failures, tally>>

Modes == {"MANUAL", "ASSISTED", "BOUNDED_AUTONOMOUS"}
\* The results of a cycle, and "DENIED: ..." for a command that has raised.
StopReasons == {"AWAITING_APPROVAL", "BUDGET_EXHAUSTED", "DISABLED", "DENIED"}
Phases == {"caller", "check", "generate", "budget", "submit", "log", "answer", "stopped"}

Counters == [cycles : Nat, runtime : Nat, mutations : Nat]
Answers == [stop : StopReasons, used : Counters]
Nothing == [cycles |-> 0, runtime |-> 0, mutations |-> 0]

\* Types; a caller never gets to know that more mutation steps or cycles are
\* used than there are.
CycleTypeOK ==
    /\ used \in Counters
    /\ used.cycles <= MaxCycles /\ used.mutations <= MaxMutations
    /\ phase \in Phases /\ mode \in Modes /\ enabled \in BOOLEAN
    /\ plan \in 0 .. MaxPlan /\ elapsed \in 0 .. MaxTicks
    /\ answer \in Answers
    /\ failures \in 0 .. MaxFailures
    /\ {submitted, lost, mutations, ticks, before} \subseteq Nat

NoAnswer == [stop |-> "DISABLED", used |-> Nothing]

CycleInit ==
    /\ used = Nothing /\ phase = "caller"
    /\ mode = "MANUAL" /\ enabled = FALSE
    /\ plan = 0 /\ elapsed = 0 /\ answer = NoAnswer
    /\ failures = 0
    /\ submitted = 0 /\ lost = 0 /\ mutations = 0 /\ ticks = 0 /\ before = 0

InPhase(point) == phase = point
GotoPhase(point) == phase' = point

\* The command is over and its process with it.
EndCommand ==
    /\ mode' = "MANUAL" /\ enabled' = FALSE
    /\ plan' = 0 /\ elapsed' = 0 /\ answer' = NoAnswer

\* The cycle returns: why, and with which counters.
Answer(stop, counters) ==
    /\ GotoPhase("answer")
    /\ answer' = [stop |-> stop, used |-> counters]
    /\ UNCHANGED <<mode, enabled, plan, elapsed>>
-----------------------------------------------------------------------------
\* The caller sends a command; the feature flag is the environment's.
Command(m, flag) ==
    /\ InPhase("caller") /\ GotoPhase("check")
    /\ mode' = m /\ enabled' = flag /\ before' = submitted
    /\ UNCHANGED <<used, plan, elapsed, answer, failures, submitted, lost, mutations, ticks>>

\* Mutant: a limit is exhausted when it is exceeded.
Exceeded ==
    \/ used.cycles > MaxCycles
    \/ used.runtime > MaxRuntime
    \/ used.mutations > MaxMutations

\* budget_exhausted: any of the three is used up
Exhausted ==
    \/ used.cycles >= MaxCycles
    \/ used.runtime >= MaxRuntime
    \/ used.mutations >= MaxMutations

Check ==
    /\ InPhase("check")
    /\ IF Exhausted THEN Answer("BUDGET_EXHAUSTED", used)
       ELSE IF mode = "BOUNDED_AUTONOMOUS" /\ ~enabled THEN Answer("DISABLED", used)
       ELSE GotoPhase("generate") /\ UNCHANGED locals
    /\ UNCHANGED <<used, failures, tally>>

\* generate_plan and parse_plan
Generate(n, t) ==
    /\ InPhase("generate") /\ GotoPhase("budget")
    /\ plan' = n /\ elapsed' = t
    /\ UNCHANGED <<used, mode, enabled, answer, failures, tally>>

ProjectedRuntime == used.runtime + elapsed \div TicksPerSecond
ProjectedMutations == used.mutations + plan

\* Mutant: only the plan itself is held against the limit.
OwnMutationsOverrun == plan > MaxMutations

RuntimeOverruns == ProjectedRuntime >= MaxRuntime
MutationsOverrun == ProjectedMutations > MaxMutations

\* Mutants: a plan that does not fit is made again until one does; the plan is
\* stored before it is held against the limits.
AskAgain ==
    /\ InPhase("budget")
    /\ IF RuntimeOverruns
       THEN Answer("BUDGET_EXHAUSTED", [used EXCEPT !.runtime = ProjectedRuntime])
       ELSE GotoPhase(IF MutationsOverrun THEN "generate" ELSE "submit") /\ UNCHANGED locals
    /\ UNCHANGED <<used, failures, tally>>

StoreThenCheck ==
    /\ InPhase("budget")
    /\ submitted' = submitted + 1 /\ mutations' = mutations + plan /\ ticks' = ticks + elapsed
    /\ IF RuntimeOverruns
       THEN Answer("BUDGET_EXHAUSTED", [used EXCEPT !.runtime = ProjectedRuntime])
       ELSE IF MutationsOverrun THEN Answer("BUDGET_EXHAUSTED", used)
       ELSE GotoPhase("log") /\ UNCHANGED locals
    /\ UNCHANGED <<used, failures, lost, before>>

\* Only the answer to an overrun of the runtime tells the time it took.
CheckProjection ==
    /\ InPhase("budget")
    /\ IF RuntimeOverruns
       THEN Answer("BUDGET_EXHAUSTED", [used EXCEPT !.runtime = ProjectedRuntime])
       ELSE IF MutationsOverrun THEN Answer("BUDGET_EXHAUSTED", used)
       ELSE GotoPhase("submit") /\ UNCHANGED locals
    /\ UNCHANGED <<used, failures, tally>>

\* submit_plan stores the plan as pending
Submit ==
    /\ InPhase("submit") /\ GotoPhase("log")
    /\ submitted' = submitted + 1
    /\ mutations' = mutations + plan
    /\ ticks' = ticks + elapsed
    /\ UNCHANGED <<used, locals, failures, lost, before>>

\* Mutant: the cycle is not counted.
UncountedCycle == [used EXCEPT !.runtime = ProjectedRuntime, !.mutations = ProjectedMutations]

Charged ==
    [cycles |-> used.cycles + 1, runtime |-> ProjectedRuntime, mutations |-> ProjectedMutations]

\* the audit records of submit_plan and of the cycle, and its result
Log ==
    /\ InPhase("log")
    /\ Answer("AWAITING_APPROVAL", Charged)
    /\ UNCHANGED <<used, failures, tally>>

Working == {"check", "generate", "budget", "submit", "log"}

Fails == failures < MaxFailures /\ failures' = failures + 1

\* A planner that fails, or an audit record that cannot be written: before,
\* in or after the cycle, the command answers with the exception alone.
\* Whatever it has submitted stays.
Raise ==
    /\ phase \in Working \/ (InPhase("answer") /\ answer.stop # "DENIED")
    /\ Fails
    /\ Answer("DENIED", used)
    /\ UNCHANGED <<used, tally>>

\* The answer reaches the caller, who takes over CYCLES_USED and
\* BUDGET_REMAINING and goes on while there are plans to approve.  After
\* "DENIED" the caller knows what it knew before, and may try again.
Deliver ==
    /\ InPhase("answer")
    /\ \/ answer.stop \in {"AWAITING_APPROVAL", "DENIED"} /\ GotoPhase("caller")
       \/ answer.stop # "AWAITING_APPROVAL" /\ GotoPhase("stopped")
    /\ used' = answer.used /\ EndCommand
    /\ lost' = lost + (IF answer.stop = "DENIED" THEN submitted - before ELSE 0)
    /\ UNCHANGED <<failures, submitted, mutations, ticks, before>>

\* The process is killed, or the record of the exception cannot be written
\* either: there is no answer, and the caller tries again with what it knows.
Lose ==
    /\ phase \in Working \cup {"answer"}
    /\ Fails
    /\ GotoPhase("caller") /\ EndCommand
    /\ lost' = lost + (submitted - before)
    /\ UNCHANGED <<used, submitted, mutations, ticks, before>>
-----------------------------------------------------------------------------
Cycle ==
    \/ \E m \in Modes, flag \in BOOLEAN : Command(m, flag)
    \/ Check
    \/ \E n \in 0 .. MaxPlan, t \in 0 .. MaxTicks : Generate(n, t)
    \/ CheckProjection \/ Submit \/ Log \/ Deliver

CycleNext == Cycle \/ Raise \/ Lose

CycleSpec == CycleInit /\ [][CycleNext]_cycleVars

\* A command that has been sent runs, and its caller goes on.
FairCycleSpec == CycleSpec /\ WF_cycleVars(Cycle)
-----------------------------------------------------------------------------
\* What the caller has been charged for is what was submitted, but for the
\* submissions that no answer told it of.
SubmissionsAreCharged ==
    InPhase("caller") \/ InPhase("stopped") => submitted = used.cycles + lost

\* While the caller is told of every plan, the pending plans together stay
\* within the budget of mutation steps, and their making within that of runtime
\* but for the fraction of a second that each cycle drops.
PlansFitTheBudget ==
    lost = 0 =>
        /\ mutations <= MaxMutations
        /\ ticks <= TicksPerSecond * (MaxRuntime - 1) + submitted * (TicksPerSecond - 1)

\* A command that raises or is killed leaves at most one plan that nobody is
\* charged for, and each such plan costs at most the budget once more.
OverspendIsBounded ==
    /\ lost <= failures
    /\ mutations <= MaxMutations * (1 + lost)

\* An answer other than AWAITING_APPROVAL means that nothing was submitted:
\* what is denied is denied before submit.
DeniedSubmitsNothing ==
    InPhase("answer") /\ answer.stop # "AWAITING_APPROVAL" => submitted = before

\* A caller that goes on, and retries what has failed, comes to its end: every
\* cycle uses the budget up.
CallerStops == <>InPhase("stopped")
=============================================================================
