------------------------- MODULE AutonomyCycleProofs -------------------------
(***************************************************************************)
(* Theorems about AutonomyCycle, for every budget, every size of a plan,   *)
(* every clock and any number of commands that raise or are killed.        *)
(***************************************************************************)
EXTENDS AutonomyCycle, TLAPS

(***************************************************************************)
(* The inductive invariant.  The counters of the caller lag behind what    *)
(* was submitted from the submission until the answer is delivered.  The   *)
(* plan that is stored in between is due to be charged for, unless the     *)
(* command has raised since, and answers "DENIED".                         *)
(***************************************************************************)
Due == InPhase("log") \/ (InPhase("answer") /\ answer.stop = "AWAITING_APPROVAL")
Untold == InPhase("answer") /\ answer.stop = "DENIED" /\ submitted # before
Stored == Due \/ Untold
OnTheWay == phase \in {"check", "generate", "budget", "submit"}

\* What has passed the first check is not exhausted; what is submitted has
\* passed the second one.
BudgetInv ==
    /\ phase \in {"generate", "budget", "submit", "log"} => ~Exhausted
    /\ phase \in {"submit", "log"} => ~RuntimeOverruns /\ ~MutationsOverrun

\* What an answer says.
AnswerInv ==
    InPhase("answer") =>
        /\ IF Due THEN answer.used = Charged /\ ~Exhausted /\ ~RuntimeOverruns
           ELSE /\ answer.used.cycles = used.cycles
                /\ answer.used.mutations = used.mutations
                /\ answer.used.runtime >= used.runtime
        /\ Stored => ~MutationsOverrun

\* Every submission has been charged for, was lost or is on its way to be.
ChargeInv ==
    /\ submitted = used.cycles + lost + (IF Stored THEN 1 ELSE 0)
    /\ Stored => submitted = before + 1
    /\ OnTheWay \/ (InPhase("answer") /\ ~Stored) => submitted = before

\* As long as none is lost, so are the mutation steps of the plans and, but for
\* the fractions that are dropped, the time to make them.
SpentInv ==
    lost = 0 =>
        /\ mutations = used.mutations + (IF Stored THEN plan ELSE 0)
        /\ ticks <= TicksPerSecond * (IF Stored THEN ProjectedRuntime ELSE used.runtime)
                      + submitted * (TicksPerSecond - 1)
        /\ ticks <= TicksPerSecond * (MaxRuntime - 1) + submitted * (TicksPerSecond - 1)

\* It takes a failure to lose one, and none has more mutation steps than the
\* limit.
LossInv ==
    /\ lost + (IF Untold THEN 1 ELSE 0) <= failures
    /\ mutations <= used.mutations + (IF Stored THEN plan ELSE 0) + MaxMutations * lost

IInv == CycleTypeOK /\ BudgetInv /\ AnswerInv /\ ChargeInv /\ SpentInv /\ LossInv

-----------------------------------------------------------------------------
\* Cutting off to whole seconds drops less than a second.
LEMMA WholeSeconds ==
  ASSUME NEW t \in Nat
  PROVE  /\ t \div TicksPerSecond \in Nat
         /\ t <= TicksPerSecond * (t \div TicksPerSecond) + (TicksPerSecond - 1)
  BY LimitsArePositive

\* What is used grows with the runtime that an answer reports.
LEMMA TimeGrows ==
  ASSUME NEW r \in Nat, NEW more \in Nat, r <= more
  PROVE  TicksPerSecond * r <= TicksPerSecond * more
  BY LimitsArePositive

\* What a submission adds to the time that is spent.
LEMMA TimeOfSubmission ==
  ASSUME NEW r \in Nat, NEW t \in Nat, NEW n \in Nat, NEW all \in Nat, NEW max \in Nat,
         all <= TicksPerSecond * r + n * (TicksPerSecond - 1),
         r + t \div TicksPerSecond <= max
  PROVE  /\ all + t <= TicksPerSecond * (r + t \div TicksPerSecond) + (n + 1) * (TicksPerSecond - 1)
         /\ all + t <= TicksPerSecond * max + (n + 1) * (TicksPerSecond - 1)
<1> DEFINE T == TicksPerSecond
           q == t \div T
<1>1. T \in Nat \ {0}
  BY LimitsArePositive
<1>2. q \in Nat /\ t <= T * q + (T - 1)
  BY WholeSeconds
<1> HIDE DEF q, T
<1>3. T * (r + q) = T * r + T * q
  BY <1>1, <1>2
<1>4. (n + 1) * (T - 1) = n * (T - 1) + (T - 1)
  BY <1>1
<1>5. T * (r + q) <= T * max
  BY <1>1, <1>2, TimeGrows DEF q, T
<1>6. T * r \in Nat /\ T * q \in Nat /\ n * (T - 1) \in Nat /\ T * max \in Nat
  BY <1>1, <1>2
<1> QED
  BY <1>1, <1>2, <1>3, <1>4, <1>5, <1>6 DEF q, T

\* What one more plan may add to the mutation steps.
LEMMA OneMorePlan ==
  ASSUME NEW n \in Nat
  PROVE  /\ MaxMutations * n \in Nat
         /\ MaxMutations * (n + 1) = MaxMutations * n + MaxMutations
  BY LimitsArePositive

-----------------------------------------------------------------------------
(* Every step keeps the invariant.                                         *)

LEMMA NoAnswerType == Nothing \in Counters /\ NoAnswer \in Answers
<1>1. Nothing \in Counters
  BY DEF Nothing, Counters
<1>2. "DISABLED" \in StopReasons
  BY DEF StopReasons
<1> QED
  BY <1>1, <1>2 DEF NoAnswer, Answers

LEMMA InitInv == CycleInit => IInv
<1> SUFFICES ASSUME CycleInit PROVE IInv
  OBVIOUS
<1> USE DEF CycleInit, Due, Untold, Stored, OnTheWay, InPhase
<1>1. CycleTypeOK
  <2>1. used \in Counters /\ answer \in Answers
    BY NoAnswerType
  <2>2. used.cycles <= MaxCycles /\ used.mutations <= MaxMutations
    BY LimitsArePositive DEF Nothing
  <2>3. plan \in 0 .. MaxPlan /\ elapsed \in 0 .. MaxTicks /\ failures \in 0 .. MaxFailures
    BY LimitsArePositive
  <2>4. phase \in Phases /\ mode \in Modes /\ enabled \in BOOLEAN
    BY DEF Phases, Modes
  <2>5. {submitted, lost, mutations, ticks, before} \subseteq Nat
    OBVIOUS
  <2> QED
    BY <2>1, <2>2, <2>3, <2>4, <2>5 DEF CycleTypeOK
<1>2. BudgetInv /\ AnswerInv
  BY DEF BudgetInv, AnswerInv
<1>3. ChargeInv
  BY DEF ChargeInv, Nothing
<1>4. SpentInv
  <2>1. TicksPerSecond * 0 = 0 /\ 0 * (TicksPerSecond - 1) = 0
    BY LimitsArePositive
  <2>2. TicksPerSecond * (MaxRuntime - 1) \in Nat
    BY LimitsArePositive
  <2> QED
    BY <2>1, <2>2 DEF SpentInv, Nothing
<1>5. LossInv
  BY LimitsArePositive DEF LossInv, Nothing
<1> QED
  BY <1>1, <1>2, <1>3, <1>4, <1>5 DEF IInv

\* The locals after a command has ended are well-formed.
LEMMA OverType == EndCommand => mode' \in Modes /\ enabled' \in BOOLEAN /\ answer' \in Answers
                          /\ plan' = 0 /\ elapsed' = 0
  BY NoAnswerType DEF EndCommand, Modes

\* The projections are numbers, and no smaller than what is used.
LEMMA ProjectionType ==
  ASSUME CycleTypeOK
  PROVE  /\ ProjectedRuntime \in Nat /\ ProjectedRuntime >= used.runtime
         /\ ProjectedMutations \in Nat
         /\ Charged \in Counters
<1>1. elapsed \in Nat /\ plan \in Nat /\ used \in Counters
  BY LimitsArePositive DEF CycleTypeOK
<1>2. elapsed \div TicksPerSecond \in Nat
  BY <1>1, WholeSeconds
<1> QED
  BY <1>1, <1>2 DEF ProjectedRuntime, ProjectedMutations, Charged, Counters

LEMMA CommandStep ==
  ASSUME IInv, NEW m \in Modes, NEW flag \in BOOLEAN, Command(m, flag)
  PROVE  IInv'
<1> USE DEF IInv, InPhase, GotoPhase, locals, tally, Command
<1>1. CycleTypeOK'
  BY DEF CycleTypeOK, Phases
<1>2. BudgetInv' /\ AnswerInv'
  BY DEF BudgetInv, AnswerInv
<1>3. ChargeInv'
  BY DEF ChargeInv, Due, Untold, Stored, OnTheWay, CycleTypeOK
<1>4. SpentInv'
  BY DEF SpentInv, Due, Untold, Stored, CycleTypeOK
<1>5. LossInv'
  BY DEF LossInv, Due, Untold, Stored, CycleTypeOK
<1> QED
  BY <1>1, <1>2, <1>3, <1>4, <1>5

LEMMA CheckStep ==
  ASSUME IInv, Check
  PROVE  IInv'
<1> USE DEF IInv, InPhase, GotoPhase, locals, tally, Check, Answer
<1>1. CycleTypeOK'
  BY DEF CycleTypeOK, Phases, Answers, StopReasons
<1>2. BudgetInv' /\ AnswerInv'
  BY DEF BudgetInv, AnswerInv, Due, Untold, Stored, Exhausted, CycleTypeOK, Counters
<1>3. ChargeInv'
  BY DEF ChargeInv, Due, Untold, Stored, OnTheWay
<1>4. SpentInv'
  BY DEF SpentInv, Due, Untold, Stored
<1>5. LossInv'
  BY DEF LossInv, Due, Untold, Stored, CycleTypeOK
<1> QED
  BY <1>1, <1>2, <1>3, <1>4, <1>5

LEMMA GenerateStep ==
  ASSUME IInv, NEW n \in 0 .. MaxPlan, NEW t \in 0 .. MaxTicks, Generate(n, t)
  PROVE  IInv'
<1> USE DEF IInv, InPhase, GotoPhase, locals, tally, Generate
<1>1. CycleTypeOK'
  BY DEF CycleTypeOK, Phases
<1>2. BudgetInv' /\ AnswerInv'
  BY DEF BudgetInv, AnswerInv, Exhausted
<1>3. ChargeInv'
  BY DEF ChargeInv, Due, Untold, Stored, OnTheWay
<1>4. SpentInv'
  BY DEF SpentInv, Due, Untold, Stored
<1>5. LossInv'
  BY DEF LossInv, Due, Untold, Stored, CycleTypeOK
<1> QED
  BY <1>1, <1>2, <1>3, <1>4, <1>5

LEMMA CheckProjectionStep ==
  ASSUME IInv, CheckProjection
  PROVE  IInv'
<1> USE DEF IInv, InPhase, GotoPhase, locals, tally, CheckProjection, Answer
<1>0. ProjectedRuntime \in Nat /\ ProjectedRuntime >= used.runtime
  BY ProjectionType
<1>1. CycleTypeOK'
  BY <1>0 DEF CycleTypeOK, Phases, Answers, StopReasons, Counters
<1>2. BudgetInv' /\ AnswerInv'
  BY <1>0
     DEF BudgetInv, AnswerInv, Due, Untold, Stored, Exhausted, RuntimeOverruns, MutationsOverrun,
     ProjectedRuntime, ProjectedMutations, CycleTypeOK, Counters
<1>3. ChargeInv'
  BY DEF ChargeInv, Due, Untold, Stored, OnTheWay
<1>4. SpentInv'
  BY DEF SpentInv, Due, Untold, Stored
<1>5. LossInv'
  BY DEF LossInv, Due, Untold, Stored, CycleTypeOK
<1> QED
  BY <1>1, <1>2, <1>3, <1>4, <1>5

LEMMA SubmitStep ==
  ASSUME IInv, Submit
  PROVE  IInv'
<1> USE DEF IInv, InPhase, GotoPhase, locals, tally, Submit
<1>0. elapsed \in Nat /\ plan \in Nat /\ used \in Counters /\ {submitted, lost, ticks, mutations} \subseteq Nat
  BY LimitsArePositive DEF CycleTypeOK
<1>1. CycleTypeOK'
  BY <1>0 DEF CycleTypeOK, Phases
<1>2. BudgetInv' /\ AnswerInv'
  BY DEF BudgetInv, AnswerInv, Exhausted, RuntimeOverruns, MutationsOverrun,
     ProjectedRuntime, ProjectedMutations
<1>3. ChargeInv'
  BY <1>0 DEF ChargeInv, Due, Untold, Stored, OnTheWay, Counters
<1>4. SpentInv'
  <2> SUFFICES ASSUME lost = 0
      PROVE  /\ mutations + plan = used.mutations + plan
             /\ ticks + elapsed <= TicksPerSecond * ProjectedRuntime
                                    + (submitted + 1) * (TicksPerSecond - 1)
             /\ ticks + elapsed <= TicksPerSecond * (MaxRuntime - 1)
                                    + (submitted + 1) * (TicksPerSecond - 1)
    BY <1>3 DEF SpentInv, Due, Untold, Stored, ProjectedRuntime
  <2>1. ~Stored
    BY DEF Due, Untold, Stored
  <2>2. MaxRuntime - 1 \in Nat /\ ProjectedRuntime <= MaxRuntime - 1
    BY LimitsArePositive, ProjectionType DEF BudgetInv, RuntimeOverruns
  <2>3. ticks <= TicksPerSecond * used.runtime + submitted * (TicksPerSecond - 1)
    BY <2>1 DEF SpentInv
  <2>4. mutations = used.mutations
    BY <1>0, <2>1 DEF SpentInv, Counters
  <2>5. used.runtime \in Nat
    BY <1>0 DEF Counters
  <2>6. /\ ticks + elapsed <= TicksPerSecond * ProjectedRuntime
                               + (submitted + 1) * (TicksPerSecond - 1)
        /\ ticks + elapsed <= TicksPerSecond * (MaxRuntime - 1)
                               + (submitted + 1) * (TicksPerSecond - 1)
    BY <1>0, <2>2, <2>3, <2>5, TimeOfSubmission DEF ProjectedRuntime
  <2> QED
    BY <2>4, <2>6
<1>5. LossInv'
  BY <1>0, OneMorePlan DEF LossInv, Due, Untold, Stored, CycleTypeOK, Counters
<1> QED
  BY <1>1, <1>2, <1>3, <1>4, <1>5

LEMMA LogStep ==
  ASSUME IInv, Log
  PROVE  IInv'
<1> USE DEF IInv, InPhase, GotoPhase, locals, tally, Log, Answer
<1>1. CycleTypeOK'
  BY ProjectionType DEF CycleTypeOK, Phases, Answers, StopReasons
<1>2. BudgetInv' /\ AnswerInv'
  BY
     DEF BudgetInv, AnswerInv, Due, Untold, Stored, Charged, Exhausted, RuntimeOverruns,
         MutationsOverrun,
     ProjectedRuntime, ProjectedMutations
<1>3. ChargeInv'
  BY DEF ChargeInv, Due, Untold, Stored, OnTheWay
<1>4. SpentInv'
  BY DEF SpentInv, Due, Untold, Stored, ProjectedRuntime
<1>5. LossInv'
  BY DEF LossInv, Due, Untold, Stored, CycleTypeOK
<1> QED
  BY <1>1, <1>2, <1>3, <1>4, <1>5

LEMMA DeliverStep ==
  ASSUME IInv, Deliver
  PROVE  IInv'
<1> USE DEF IInv, InPhase, GotoPhase, locals, tally, Deliver
<1>0. /\ used \in Counters /\ answer.used \in Counters
      /\ {MaxCycles, MaxRuntime, MaxMutations} \subseteq Nat \ {0}
      /\ {submitted, lost, mutations, ticks, before} \subseteq Nat
      /\ plan \in Nat /\ failures \in Nat
  BY LimitsArePositive DEF CycleTypeOK, Answers
<1>c. Charged.cycles = used.cycles + 1 /\ Charged.runtime = ProjectedRuntime
      /\ Charged.mutations = ProjectedMutations
  BY DEF Charged
<1>s. ~Stored' /\ ~Due' /\ ~Untold' /\ ~OnTheWay' /\ ~InPhase("answer")'
  BY DEF Stored, Due, Untold, OnTheWay
<1>e. /\ mode' \in Modes /\ enabled' \in BOOLEAN /\ answer' \in Answers
      /\ plan' = 0 /\ elapsed' = 0
  BY OverType
<1>l. lost' = lost + (IF Untold THEN 1 ELSE 0)
  BY <1>0 DEF ChargeInv, Untold, Stored, Due
<1>1. CycleTypeOK'
  <2>1. answer.used.cycles <= MaxCycles /\ answer.used.mutations <= MaxMutations
    BY <1>0, <1>c DEF AnswerInv, Stored, Exhausted, MutationsOverrun, ProjectedMutations,
       CycleTypeOK, Counters
  <2> QED
    BY <1>0, <1>e, <1>l, <2>1, LimitsArePositive DEF CycleTypeOK, Phases
<1>2. BudgetInv' /\ AnswerInv'
  BY DEF BudgetInv, AnswerInv
<1>3. ChargeInv'
  <2>1. CASE Due
    BY <1>0, <1>c, <1>s, <1>l, <2>1 DEF ChargeInv, AnswerInv, Due, Untold, Stored, Counters
  <2>2. CASE ~Due
    BY <1>0, <1>s, <1>l, <2>2 DEF ChargeInv, AnswerInv, Stored, Counters
  <2> QED
    BY <2>1, <2>2
<1>4. SpentInv'
  <2> SUFFICES ASSUME lost' = 0
      PROVE  /\ mutations = answer.used.mutations
             /\ ticks <= TicksPerSecond * answer.used.runtime + submitted * (TicksPerSecond - 1)
             /\ ticks <= TicksPerSecond * (MaxRuntime - 1) + submitted * (TicksPerSecond - 1)
    BY <1>s, <1>0 DEF SpentInv, Counters
  <2>0. lost = 0 /\ ~Untold
    BY <1>0, <1>l
  <2>1. CASE Due
    BY <1>0, <1>c, <2>0, <2>1 DEF SpentInv, AnswerInv, ProjectedMutations, Stored
  <2>2. CASE ~Due
    <3>1. TicksPerSecond * used.runtime <= TicksPerSecond * answer.used.runtime
      BY <1>0, <2>2, TimeGrows DEF AnswerInv, Counters
    <3>2. /\ TicksPerSecond * used.runtime \in Nat /\ TicksPerSecond * answer.used.runtime \in Nat
          /\ submitted * (TicksPerSecond - 1) \in Nat
      BY <1>0, LimitsArePositive DEF Counters
    <3>3. /\ mutations = used.mutations
          /\ ticks <= TicksPerSecond * used.runtime + submitted * (TicksPerSecond - 1)
          /\ ticks <= TicksPerSecond * (MaxRuntime - 1) + submitted * (TicksPerSecond - 1)
      BY <1>0, <2>0, <2>2 DEF SpentInv, Stored, Counters
    <3>4. answer.used.mutations = used.mutations
      BY <2>2 DEF AnswerInv
    <3> QED
      BY <1>0, <3>1, <3>2, <3>3, <3>4
  <2> QED
    BY <2>1, <2>2
<1>5. LossInv'
  <2>1. mutations <= answer.used.mutations + MaxMutations * lost'
    <3>0. /\ mutations <= used.mutations + (IF Stored THEN plan ELSE 0) + MaxMutations * lost
          /\ used.mutations \in Nat /\ answer.used.mutations \in Nat
          /\ MaxMutations * lost \in Nat
          /\ MaxMutations * (lost + 1) = MaxMutations * lost + MaxMutations
      BY <1>0, OneMorePlan DEF LossInv, Counters
    <3>1. CASE Due
      BY <1>0, <1>c, <1>l, <3>0, <3>1 DEF AnswerInv, Stored, Untold, Due, ProjectedMutations
    <3>2. CASE Untold
      <4>1. plan <= MaxMutations /\ answer.used.mutations = used.mutations
        BY <1>0, <3>0, <3>2 DEF AnswerInv, Stored, Untold, Due, MutationsOverrun, ProjectedMutations
      <4> QED
        BY <1>0, <1>l, <3>0, <3>2, <4>1 DEF Stored
    <3>3. CASE ~Stored
      BY <1>0, <1>l, <3>0, <3>3 DEF AnswerInv, Stored
    <3> QED
      BY <3>1, <3>2, <3>3 DEF Stored
  <2>2. lost' <= failures
    BY <1>0, <1>l DEF LossInv
  <2> QED
    <3>0. lost' \in Nat /\ answer.used.mutations \in Nat
      BY <1>0, <1>l DEF Counters
    <3>1. lost' \in Nat /\ MaxMutations * lost' \in Nat /\ answer.used.mutations \in Nat
      BY <3>0, OneMorePlan
    <3>2. lost' + (IF Untold' THEN 1 ELSE 0) <= failures'
      BY <1>s, <2>2, <3>1
    <3>3. mutations' <= used'.mutations + (IF Stored' THEN plan' ELSE 0) + MaxMutations * lost'
      BY <1>s, <2>1, <3>1
    <3> QED
      BY <3>2, <3>3 DEF LossInv
<1> QED
  BY <1>1, <1>2, <1>3, <1>4, <1>5

LEMMA LoseStep ==
  ASSUME IInv, Lose
  PROVE  IInv'
<1> USE DEF IInv, InPhase, GotoPhase, locals, tally, Lose, Fails, Working
<1>0. /\ used \in Counters /\ {submitted, lost, mutations, ticks, before} \subseteq Nat
      /\ plan \in Nat /\ failures \in Nat /\ failures' = failures + 1
      /\ used.mutations \in Nat /\ used.cycles \in Nat /\ MaxMutations \in Nat
  BY LimitsArePositive DEF CycleTypeOK, Counters
<1>s. ~Stored' /\ ~Due' /\ ~Untold' /\ ~OnTheWay' /\ ~InPhase("answer")'
  BY DEF Stored, Due, Untold, OnTheWay
<1>l. lost' = lost + (IF Stored THEN 1 ELSE 0)
  BY <1>0 DEF ChargeInv, OnTheWay, Due, Untold, Stored
<1>1. CycleTypeOK'
  <2>1. /\ mode' \in Modes /\ enabled' \in BOOLEAN /\ answer' \in Answers
        /\ plan' = 0 /\ elapsed' = 0
    BY OverType
  <2> QED
    BY <1>0, <1>l, <2>1, LimitsArePositive DEF CycleTypeOK, Phases
<1>2. BudgetInv' /\ AnswerInv'
  BY DEF BudgetInv, AnswerInv
<1>3. ChargeInv'
  BY <1>0, <1>s, <1>l DEF ChargeInv
<1>4. SpentInv'
  <2> SUFFICES ASSUME lost' = 0 PROVE SpentInv'
    BY DEF SpentInv
  <2>1. lost = 0 /\ ~Stored
    BY <1>0, <1>l
  <2> QED
    BY <1>s, <2>1 DEF SpentInv
<1>5. LossInv'
  <2>1. Stored => plan <= MaxMutations
    BY <1>0 DEF Stored, Due, Untold, BudgetInv, AnswerInv, MutationsOverrun, ProjectedMutations
  <2>2. MaxMutations * lost \in Nat /\ MaxMutations * (lost + 1) = MaxMutations * lost + MaxMutations
    BY <1>0, OneMorePlan
  <2>3. mutations <= used.mutations + MaxMutations * lost'
    BY <1>0, <1>l, <2>1, <2>2 DEF LossInv
  <2>4. lost' <= failures'
    BY <1>0, <1>l DEF LossInv
  <2> QED
    BY <1>0, <1>s, <1>l, <2>3, <2>4, OneMorePlan DEF LossInv
<1> QED
  BY <1>1, <1>2, <1>3, <1>4, <1>5

LEMMA RaiseStep ==
  ASSUME IInv, Raise
  PROVE  IInv'
<1> USE DEF IInv, InPhase, GotoPhase, locals, tally, Raise, Fails, Answer, Working
<1>0. /\ submitted \in Nat /\ before \in Nat /\ used \in Counters /\ failures \in Nat
      /\ failures' = failures + 1
  BY LimitsArePositive DEF CycleTypeOK
<1>s. Stored' <=> Stored
  BY <1>0 DEF ChargeInv, Stored, Due, Untold, OnTheWay
<1>1. CycleTypeOK'
  BY <1>0, LimitsArePositive DEF CycleTypeOK, Phases, Answers, StopReasons
<1>2. BudgetInv' /\ AnswerInv'
  BY <1>0, <1>s DEF BudgetInv, AnswerInv, Stored, Due, Untold, OnTheWay, MutationsOverrun,
     ProjectedMutations, Counters
<1>3. ChargeInv'
  BY <1>0, <1>s DEF ChargeInv, Stored, Due, Untold, OnTheWay
<1>4. SpentInv'
  BY <1>s DEF SpentInv, ProjectedRuntime
<1>5. LossInv'
  BY <1>0, <1>s DEF LossInv, Untold, CycleTypeOK
<1> QED
  BY <1>1, <1>2, <1>3, <1>4, <1>5

LEMMA StepInv == IInv /\ [CycleNext]_cycleVars => IInv'
<1> SUFFICES ASSUME IInv, [CycleNext]_cycleVars PROVE IInv'
  OBVIOUS
<1>1. CASE UNCHANGED cycleVars
  BY <1>1
     DEF cycleVars, locals, tally, IInv, CycleTypeOK, BudgetInv, AnswerInv, ChargeInv, SpentInv,
         LossInv,
     Due, Untold, Stored,
     OnTheWay, InPhase, Exhausted, RuntimeOverruns, MutationsOverrun, ProjectedRuntime,
     ProjectedMutations, Charged
<1> QED
  BY <1>1, CommandStep, CheckStep, GenerateStep, CheckProjectionStep, SubmitStep, LogStep,
     DeliverStep, RaiseStep, LoseStep DEF CycleNext, Cycle
-----------------------------------------------------------------------------
LEMMA Invariance == CycleSpec => []IInv
  BY InitInv, StepInv, PTL DEF CycleSpec

\* The counters of the caller and the locals of the command have their types,
\* and the caller never gets to know of more cycles or mutation steps used than
\* the budget has (run_autonomy_cycle).
THEOREM CountersStayInBudget == CycleSpec => []CycleTypeOK
<1>1. IInv => CycleTypeOK
  BY DEF IInv
<1> QED
  BY <1>1, Invariance, PTL

\* What the caller is charged for is what was submitted, but for the plans
\* whose answers were lost, however many commands raise or are killed.
THEOREM ChargesMatchSubmissions == CycleSpec => []SubmissionsAreCharged
<1>1. IInv => SubmissionsAreCharged
  BY DEF IInv, ChargeInv, SubmissionsAreCharged, Due, Untold, Stored, InPhase, CycleTypeOK, Counters
<1> QED
  BY <1>1, Invariance, PTL

\* Whatever plans are generated, and however long that takes, the pending plans
\* together stay within the budgets as long as no answer is lost.
THEOREM BudgetsHold == CycleSpec => []PlansFitTheBudget
<1>1. ASSUME IInv PROVE PlansFitTheBudget
  <2>1. ASSUME lost = 0 PROVE mutations <= MaxMutations
    BY <1>1, <2>1, LimitsArePositive
       DEF IInv, SpentInv, BudgetInv, AnswerInv, Due, Untold, Stored, InPhase,
       MutationsOverrun, ProjectedMutations, CycleTypeOK, Counters
  <2> QED
    BY <1>1, <2>1 DEF IInv, SpentInv, PlansFitTheBudget
<1> QED
  BY <1>1, Invariance, PTL

\* However many commands raise or are killed, before or after their plan is
\* stored, each of them leaves at most one plan that is not charged for, and
\* overspends the mutation steps by at most the limit.
THEOREM OverspendIsLimited == CycleSpec => []OverspendIsBounded
<1>1. ASSUME IInv PROVE OverspendIsBounded
  <2>1. /\ lost \in Nat /\ failures \in Nat /\ mutations \in Nat /\ plan \in Nat
        /\ used.mutations \in Nat /\ used.mutations <= MaxMutations
    BY <1>1, LimitsArePositive DEF IInv, CycleTypeOK, Counters
  <2>2. used.mutations + (IF Stored THEN plan ELSE 0) <= MaxMutations
    BY <1>1, <2>1, LimitsArePositive DEF IInv, BudgetInv, AnswerInv, Stored, Due, Untold,
       InPhase, MutationsOverrun, ProjectedMutations
  <2>3. MaxMutations * (1 + lost) = MaxMutations * lost + MaxMutations
    BY <2>1, OneMorePlan
  <2>4. lost <= failures
    BY <1>1, <2>1 DEF IInv, LossInv
  <2>5. mutations <= used.mutations + (IF Stored THEN plan ELSE 0) + MaxMutations * lost
    BY <1>1 DEF IInv, LossInv
  <2>6. mutations <= MaxMutations * (1 + lost)
    <3> DEFINE losses == MaxMutations * lost
               charged == used.mutations + (IF Stored THEN plan ELSE 0)
    <3>0. losses \in Nat
      BY <2>1, OneMorePlan
    <3>1. losses \in Nat /\ charged \in Nat /\ MaxMutations \in Nat
      BY <2>1, <3>0, LimitsArePositive
    <3>2. charged <= MaxMutations /\ mutations <= charged + losses
          /\ MaxMutations * (1 + lost) = losses + MaxMutations
      BY <2>2, <2>3, <2>5
    <3> HIDE DEF losses, charged
    <3> QED
      BY <2>1, <3>1, <3>2
  <2> QED
    BY <2>4, <2>6 DEF OverspendIsBounded
<1> QED
  BY <1>1, Invariance, PTL
=============================================================================
