---------------------------- MODULE TestSelection ----------------------------
(***************************************************************************)
(* select_tests_for_changes of agent_core/workspace_graph.py: which tests  *)
(* a set of changes calls for.  Tests are found along two ways: a test     *)
(* file that changed or imports a changed module, and a test that reaches  *)
(* a changed function through the call graph, which may have cycles and is *)
(* searched breadth-first with a work list that may hold a function twice. *)
(*                                                                         *)
(* A function is its FUNC artifact id, a module is its file, and a test is *)
(* the function of that name in a file under tests/.                       *)
(***************************************************************************)
EXTENDS Naturals, Sequences, FiniteSets, SequencesExt

CONSTANTS
    File,        \* Python files
    Function,
    Test,        \* the functions that are tests
    Owner,       \* the file of each function
    MaxChanged   \* bound: length of changed_functions, repetitions included

ASSUME TestsAreFunctions ==
    /\ IsFiniteSet(Function) /\ Test \subseteq Function
    /\ Owner \in [Function -> File]
    /\ MaxChanged \in Nat

VARIABLES
    calls, imports,                  \* the graph: <<caller, callee>>, <<importer, imported>>
    changedPaths, changedFunctions,  \* the changes: a set, and a sequence
    fallback,                        \* full_suite_on_no_selection
    progress, pending, impacted, selected, runFullSuite,
    pops                             \* history: turns of the search loop

graph == <<calls, imports>>
arguments == <<changedPaths, changedFunctions, fallback>>
selectionVars == <<graph, arguments, progress, pending, impacted, selected, runFullSuite, pops>>

\* Types of the graph, the arguments and the locals of the search.
SelectionTypeOK ==
    /\ calls \subseteq Function \X Function
    /\ imports \subseteq File \X File
    /\ changedPaths \subseteq File
    /\ changedFunctions \in Seq(Function)
    /\ fallback \in BOOLEAN
    /\ progress \in {"paths", "functions", "search", "decide", "done"}
    /\ pending \in Seq(Function)
    /\ impacted \subseteq Function
    /\ selected \subseteq Test
    /\ runFullSuite \in BOOLEAN
    /\ pops \in Nat

\* Any graph, any changes.  A call to itself is no edge (_collect_call_edges).
SelectionInit ==
    /\ calls \in SUBSET {e \in Function \X Function : e[1] # e[2]}
    /\ imports \in SUBSET {e \in File \X File : e[1] # e[2]}
    /\ changedPaths \in SUBSET File
    /\ changedFunctions \in UNION {[1 .. n -> Function] : n \in 0 .. MaxChanged}
    /\ fallback \in BOOLEAN
    /\ progress = "paths"
    /\ pending = <<>> /\ impacted = {} /\ selected = {}
    /\ runFullSuite = FALSE
    /\ pops = 0
-----------------------------------------------------------------------------
\* impacted_tests_for_modules: the tests in changed files and in files that
\* import a changed one.
ImpactedByPaths ==
    {t \in Test : \/ Owner[t] \in changedPaths
                  \/ \E f \in changedPaths : <<Owner[t], f>> \in imports}

SelectByPaths ==
    /\ progress = "paths" /\ progress' = "functions"
    /\ selected' = ImpactedByPaths
    /\ UNCHANGED <<graph, arguments, pending, impacted, runFullSuite, pops>>

StartSearch ==
    /\ progress = "functions"
    /\ progress' = IF changedFunctions = <<>> THEN "decide" ELSE "search"
    /\ pending' = changedFunctions
    /\ UNCHANGED <<graph, arguments, impacted, selected, runFullSuite, pops>>

\* called_by: the direct callers
CalledBy(f) == {c \in Function : <<c, f>> \in calls}

\* What a turn of the loop appends: the callers of a function not seen so far.
NewCallers(f, seen) == SetToSeq(CalledBy(f) \ seen)

\* Mutants: only direct callers are found; a function is expanded each time it
\* comes up; a function that was seen before is never taken off the list.
VisitDirect ==
    LET f == Head(pending) IN
    /\ progress = "search" /\ pending # <<>>
    /\ impacted' = impacted \cup {f} \cup CalledBy(f)
    /\ pending' = Tail(pending)
    /\ pops' = pops + 1
    /\ UNCHANGED <<graph, arguments, progress, selected, runFullSuite>>

VisitAgain ==
    LET f == Head(pending) IN
    /\ progress = "search" /\ pending # <<>>
    /\ impacted' = impacted \cup {f}
    /\ pending' = Tail(pending) \o NewCallers(f, impacted \cup {f})
    /\ pops' = pops + 1
    /\ UNCHANGED <<graph, arguments, progress, selected, runFullSuite>>

VisitStuck ==
    LET f == Head(pending) IN
    /\ progress = "search" /\ pending # <<>> /\ f \notin impacted
    /\ impacted' = impacted \cup {f}
    /\ pending' = Tail(pending) \o NewCallers(f, impacted \cup {f})
    /\ pops' = pops + 1
    /\ UNCHANGED <<graph, arguments, progress, selected, runFullSuite>>

\* One turn of the loop of _impacted_functions_from_changed_functions.
Visit ==
    LET f == Head(pending) IN
    /\ progress = "search" /\ pending # <<>>
    /\ IF f \in impacted
       THEN UNCHANGED impacted /\ pending' = Tail(pending)
       ELSE /\ impacted' = impacted \cup {f}
            /\ pending' = Tail(pending) \o NewCallers(f, impacted \cup {f})
    /\ pops' = pops + 1
    /\ UNCHANGED <<graph, arguments, progress, selected, runFullSuite>>

\* Mutant: impacted functions that are no tests are selected as well.
SelectAllImpacted ==
    /\ progress = "search" /\ pending = <<>>
    /\ progress' = "decide"
    /\ selected' = selected \cup impacted
    /\ UNCHANGED <<graph, arguments, pending, impacted, runFullSuite, pops>>

\* impacted_tests_for_functions: the tests among the impacted functions
SelectByFunctions ==
    /\ progress = "search" /\ pending = <<>>
    /\ progress' = "decide"
    /\ selected' = selected \cup (impacted \cap Test)
    /\ UNCHANGED <<graph, arguments, pending, impacted, runFullSuite, pops>>

Decide ==
    /\ progress = "decide" /\ progress' = "done"
    /\ runFullSuite' = (/\ fallback /\ selected = {}
                        /\ changedPaths # {} \/ changedFunctions # <<>>)
    /\ UNCHANGED <<graph, arguments, pending, impacted, selected, pops>>

SelectionNext == SelectByPaths \/ StartSearch \/ Visit \/ SelectByFunctions \/ Decide

\* The function runs to its end.
SelectionSpec == SelectionInit /\ [][SelectionNext]_selectionVars /\ WF_selectionVars(SelectionNext)
-----------------------------------------------------------------------------
\* The set holds the changed functions and, with a function, its callers.
ClosedUnderCallers(set) ==
    /\ Range(changedFunctions) \subseteq set
    /\ \A f \in set : CalledBy(f) \subseteq set

\* When the search is over, the impacted functions are exactly those that
\* reach a changed one: the least set that is closed under callers.  No cycle,
\* repeated change or order of the work list loses a caller or adds a stranger.
ImpactIsReachability ==
    progress \in {"decide", "done"} =>
        /\ ClosedUnderCallers(impacted)
        /\ \A set \in SUBSET Function : ClosedUnderCallers(set) => impacted \subseteq set

\* A function is expanded at most once, so the work list takes in at most the
\* changes and one entry per call edge, repeated entries included.
QueueIsBounded ==
    pops + Len(pending) <=
        Len(changedFunctions) + Cardinality({e \in calls : e[2] \in impacted})

\* The search ends on every graph, cyclic ones included.
SelectionEnds == <>(progress = "done")
=============================================================================
