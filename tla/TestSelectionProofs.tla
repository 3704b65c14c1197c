------------------------- MODULE TestSelectionProofs -------------------------
(***************************************************************************)
(* Partial correctness of the search for impacted functions, on graphs of  *)
(* any size and shape: when it is over, it has found exactly the functions *)
(* that reach a changed one.  And a bound on the work: a function is       *)
(* expanded once, so the work list takes in at most one entry per call.    *)
(* That the search ends is left to TLC.                                    *)
(***************************************************************************)
EXTENDS TestSelection, FiniteSetTheorems, SequenceTheorems, TLAPS

\* A finite set listed as a sequence has the elements of the set, each once.
LEMMA ListedSet ==
  ASSUME NEW T, NEW S \in SUBSET T, IsFiniteSet(S)
  PROVE  /\ SetToSeq(S) \in Seq(T) /\ Range(SetToSeq(S)) = S
         /\ Len(SetToSeq(S)) = Cardinality(S)
<1> DEFINE n == Cardinality(S)
<1>1. n \in Nat /\ ExistsBijection(1 .. n, S)
  BY FS_CardinalityType
<1>2. PICK b \in [1 .. n -> S] : IsInjective(b)
  BY <1>1 DEF ExistsBijection, Bijection, Injection
<1>3. SetToSeq(S) \in [1 .. n -> S] /\ IsInjective(SetToSeq(S))
  BY <1>2 DEF SetToSeq
<1>4. SetToSeq(S) \in Injection(1 .. n, S)
  BY <1>3 DEF Injection
<1>5. IsFiniteSet(1 .. n) /\ Cardinality(1 .. n) = n
  BY <1>1, FS_Interval
<1>6. SetToSeq(S) \in Surjection(1 .. n, S)
  BY <1>4, <1>5, FS_Injection
<1>7. Range(SetToSeq(S)) = S
  BY <1>3, <1>6 DEF Surjection, Range
<1>8. SetToSeq(S) \in [1 .. n -> T]
  BY <1>3
<1>9. SetToSeq(S) \in Seq(T)
  BY <1>1, <1>8, SeqDef
<1> QED
  BY <1>1, <1>3, <1>7, <1>9, LenProperties

\* The elements of a work list are its head and the elements of its tail.
LEMMA HeadAndTail ==
  ASSUME NEW S, NEW s \in Seq(S), s # <<>>
  PROVE  Head(s) \in S /\ Tail(s) \in Seq(S) /\ Range(s) = {Head(s)} \cup Range(Tail(s))
<1>1. Head(s) \in S /\ Tail(s) \in Seq(S) /\ s = <<Head(s)>> \o Tail(s)
  OBVIOUS
<1>2. <<Head(s)>> \in Seq(S) /\ Range(<<Head(s)>>) = {Head(s)}
  BY <1>1 DEF Range
<1>3. \A u, v \in Seq(S) : Range(u \o v) = Range(u) \cup Range(v)
  BY RangeConcatenation
<1> QED
  BY <1>1, <1>2, <1>3
-----------------------------------------------------------------------------
\* What the search has found and what it still has to look at: together they
\* hold the changes, the callers of all that was found, and no strangers.
Reached == impacted \cup Range(pending)

FrontierInv ==
    /\ Range(changedFunctions) \subseteq Reached
    /\ \A f \in impacted : CalledBy(f) \subseteq Reached
    /\ \A set \in SUBSET Function : ClosedUnderCallers(set) => Reached \subseteq set

\* The inductive invariant.
SearchInv ==
    /\ SelectionTypeOK
    /\ progress \in {"paths", "functions"} => impacted = {}
    /\ progress = "search" => FrontierInv
    /\ ImpactIsReachability

LEMMA InitSearch == SelectionInit => SearchInv
<1> SUFFICES ASSUME SelectionInit PROVE SearchInv
  OBVIOUS
<1>1. \A n \in Nat : [1 .. n -> Function] \subseteq Seq(Function)
  BY SeqDef
<1>2. changedFunctions \in Seq(Function) /\ pending \in Seq(Function)
  BY <1>1, TestsAreFunctions, EmptySeq DEF SelectionInit
<1>3. SelectionTypeOK
  BY <1>2 DEF SelectionInit, SelectionTypeOK
<1> QED
  BY <1>3 DEF SelectionInit, SearchInv, ImpactIsReachability

\* A turn of the loop keeps the frontier between what was found and the rest.
LEMMA VisitKeepsFrontier ==
  ASSUME SearchInv, Visit
  PROVE  /\ pending' \in Seq(Function) /\ impacted' \subseteq Function
         /\ FrontierInv'
<1> DEFINE f == Head(pending)
           rest == Range(Tail(pending))
<1>1. /\ pending \in Seq(Function) /\ pending # <<>>
      /\ impacted \subseteq Function /\ IsFiniteSet(Function)
      /\ FrontierInv
  BY TestsAreFunctions DEF SearchInv, SelectionTypeOK, Visit
<1>2. f \in Function /\ Tail(pending) \in Seq(Function) /\ Range(pending) = {f} \cup rest
  BY <1>1, HeadAndTail
<1>3. \A g : CalledBy(g)' = CalledBy(g)
  BY DEF Visit, graph, CalledBy
<1>4. changedFunctions' = changedFunctions
  BY DEF Visit, arguments
<1>5. \A set : ClosedUnderCallers(set)' <=> ClosedUnderCallers(set)
  BY <1>3, <1>4 DEF ClosedUnderCallers
<1>6. CASE f \in impacted
  <2>1. impacted' = impacted /\ pending' = Tail(pending) /\ Reached' = Reached
    BY <1>2, <1>6 DEF Visit, Reached
  <2> QED
    BY <1>1, <1>2, <1>3, <1>4, <1>5, <2>1 DEF FrontierInv
<1>7. CASE f \notin impacted
  <2> DEFINE new == CalledBy(f) \ (impacted \cup {f})
  <2>1. new \subseteq Function /\ IsFiniteSet(new)
    BY <1>1, FS_Subset DEF CalledBy
  <2>2. /\ NewCallers(f, impacted \cup {f}) \in Seq(Function)
        /\ Range(NewCallers(f, impacted \cup {f})) = new
    BY <2>1, ListedSet DEF NewCallers
  <2>3. /\ impacted' = impacted \cup {f}
        /\ pending' = Tail(pending) \o NewCallers(f, impacted \cup {f})
    BY <1>7 DEF Visit
  <2>4. pending' \in Seq(Function) /\ Range(pending') = rest \cup new
    <3>1. \A u, v \in Seq(Function) : u \o v \in Seq(Function) /\ Range(u \o v) = Range(u) \cup Range(v)
      BY RangeConcatenation
    <3> QED BY <1>2, <2>2, <2>3, <3>1
  <2>5. Reached' = Reached \cup CalledBy(f)
    BY <1>2, <2>3, <2>4 DEF Reached
  <2>6. \A set \in SUBSET Function : ClosedUnderCallers(set) => Reached' \subseteq set
    BY <1>1, <1>2, <2>5 DEF FrontierInv, ClosedUnderCallers, Reached
  <2> QED
    BY <1>1, <1>2, <1>3, <1>4, <1>5, <2>3, <2>4, <2>5, <2>6 DEF FrontierInv
<1> QED
  BY <1>6, <1>7

LEMMA SearchStep == SearchInv /\ [SelectionNext]_selectionVars => SearchInv'
<1> SUFFICES ASSUME SearchInv, [SelectionNext]_selectionVars PROVE SearchInv'
  OBVIOUS
<1>v. Visit => pending' \in Seq(Function) /\ impacted' \subseteq Function /\ FrontierInv'
  BY VisitKeepsFrontier
<1> USE DEF SearchInv
<1>1. CASE SelectByPaths
  BY <1>1
     DEF SelectByPaths, ImpactedByPaths, SelectionTypeOK, ImpactIsReachability, graph, arguments
<1>2. CASE StartSearch
  <2>1. impacted = {} /\ impacted' = {} /\ changedFunctions' = changedFunctions /\ calls' = calls
    BY <1>2 DEF StartSearch, graph, arguments
  <2>2. SelectionTypeOK'
    BY <1>2 DEF StartSearch, SelectionTypeOK, graph, arguments
  <2>3. progress' = "search" => FrontierInv'
    BY <1>2, <2>1 DEF StartSearch, FrontierInv, Reached, ClosedUnderCallers
  <2>4. ImpactIsReachability'
    BY <1>2, <2>1 DEF StartSearch, ImpactIsReachability, ClosedUnderCallers, Range
  <2> QED
    BY <1>2, <2>2, <2>3, <2>4 DEF StartSearch
<1>3. CASE Visit
  <2>1. pops' \in Nat
    BY <1>3 DEF Visit, SelectionTypeOK
  <2>2. SelectionTypeOK'
    BY <1>3, <1>v, <2>1 DEF Visit, SelectionTypeOK, graph, arguments
  <2>3. progress = "search" /\ progress' = progress
    BY <1>3 DEF Visit
  <2> QED
    BY <1>v, <1>3, <2>2, <2>3 DEF ImpactIsReachability
<1>4. CASE SelectByFunctions
  <2>1. Reached = impacted
    BY <1>4 DEF SelectByFunctions, Reached, Range
  <2>2. SelectionTypeOK'
    BY <1>4 DEF SelectByFunctions, SelectionTypeOK, graph, arguments
  <2>3. impacted' = impacted /\ changedFunctions' = changedFunctions /\ calls' = calls
    BY <1>4 DEF SelectByFunctions, graph, arguments
  <2>4. ImpactIsReachability'
    BY <1>4, <2>1, <2>3
       DEF SelectByFunctions, FrontierInv, ImpactIsReachability, ClosedUnderCallers, CalledBy
  <2> QED
    BY <1>4, <2>2, <2>4 DEF SelectByFunctions
<1>5. CASE Decide
  <2>1. SelectionTypeOK'
    BY <1>5 DEF Decide, SelectionTypeOK, graph, arguments
  <2> QED
    BY <1>5, <2>1 DEF Decide, ImpactIsReachability, ClosedUnderCallers, CalledBy, graph, arguments
<1>6. CASE UNCHANGED selectionVars
  BY <1>6
     DEF selectionVars, graph, arguments, SelectionTypeOK, FrontierInv, Reached,
         ImpactIsReachability, ClosedUnderCallers, CalledBy
<1> QED
  BY <1>1, <1>2, <1>3, <1>4, <1>5, <1>6 DEF SelectionNext

\* The types of the graph, the arguments and the locals of the search.
THEOREM SearchTypes == SelectionSpec => []SelectionTypeOK
<1>1. SearchInv => SelectionTypeOK
  BY DEF SearchInv
<1> QED
  BY <1>1, InitSearch, SearchStep, PTL DEF SelectionSpec

\* On every finite call graph the search of impacted functions, when it is
\* over, has found exactly those that reach a changed function
\* (_impacted_functions_from_changed_functions).
THEOREM ImpactIsExact == SelectionSpec => []ImpactIsReachability
<1>1. SearchInv => ImpactIsReachability
  BY DEF SearchInv
<1> QED
  BY <1>1, InitSearch, SearchStep, PTL DEF SelectionSpec
-----------------------------------------------------------------------------
\* The call edges that lead into a set of functions.
CallsInto(set) == {e \in calls : e[2] \in set}

\* Expanding a new function opens at least as many call edges as it has callers.
LEMMA NewFunctionOpensCalls ==
  ASSUME SelectionTypeOK, NEW f \in Function, f \notin impacted
  PROVE  /\ Cardinality(CallsInto(impacted)) \in Nat
         /\ Cardinality(CallsInto(impacted \cup {f})) \in Nat
         /\ IsFiniteSet(CalledBy(f)) /\ Cardinality(CalledBy(f)) \in Nat
         /\ Cardinality(CallsInto(impacted)) + Cardinality(CalledBy(f))
              <= Cardinality(CallsInto(impacted \cup {f}))
<1> DEFINE old == CallsInto(impacted)
           new == CallsInto({f})
           caller == [e \in new |-> e[1]]
<1>1. IsFiniteSet(Function) /\ calls \subseteq Function \X Function
  BY TestsAreFunctions DEF SelectionTypeOK
<1>2. IsFiniteSet(Function \X Function)
  BY <1>1, FS_Product
<1>3. IsFiniteSet(calls)
  BY <1>1, <1>2, FS_Subset
<1>4. old \subseteq calls /\ new \subseteq calls
  BY DEF CallsInto
<1>5. IsFiniteSet(old) /\ IsFiniteSet(new)
  BY <1>3, <1>4, FS_Subset
<1>6. caller \in Surjection(new, CalledBy(f))
  <2>1. caller \in [new -> CalledBy(f)]
    BY <1>1 DEF CallsInto, CalledBy
  <2>2. ASSUME NEW c \in CalledBy(f) PROVE \E e \in new : caller[e] = c
    <3>1. <<c, f>> \in new /\ caller[<<c, f>>] = c
      BY <2>2 DEF CallsInto, CalledBy
    <3> QED BY <3>1
  <2> QED BY <2>1, <2>2 DEF Surjection
<1>7. IsFiniteSet(CalledBy(f)) /\ Cardinality(CalledBy(f)) <= Cardinality(new)
  BY <1>5, <1>6, FS_Surjection
<1>8. CallsInto(impacted \cup {f}) = old \cup new /\ old \cap new = {}
  BY DEF CallsInto
<1>9. ASSUME NEW A, NEW B, IsFiniteSet(A), IsFiniteSet(B), A \cap B = {}
      PROVE  /\ Cardinality(A) \in Nat /\ Cardinality(B) \in Nat
             /\ Cardinality(A \cup B) = Cardinality(A) + Cardinality(B)
  <2>1. Cardinality(A \cup B) = Cardinality(A) + Cardinality(B) - Cardinality(A \cap B)
    BY <1>9, FS_Union
  <2>2. Cardinality(A \cap B) = 0
    BY <1>9, FS_EmptySet
  <2>3. Cardinality(A) \in Nat /\ Cardinality(B) \in Nat
    BY <1>9, FS_CardinalityType
  <2> QED
    BY <2>1, <2>2, <2>3
<1>10. /\ Cardinality(old) \in Nat /\ Cardinality(new) \in Nat
       /\ Cardinality(old \cup new) = Cardinality(old) + Cardinality(new)
  BY <1>5, <1>8, <1>9
<1>11. Cardinality(CalledBy(f)) \in Nat
  BY <1>7, FS_CardinalityType
<1>12. Cardinality(CallsInto(impacted \cup {f})) = Cardinality(old) + Cardinality(new)
  BY <1>8, <1>10
<1> QED
  BY <1>7, <1>10, <1>11, <1>12

\* The inductive invariant: the bound itself, and that the loop starts from nothing.
QueueInv ==
    /\ progress \in {"paths", "functions"} => pops = 0 /\ pending = <<>>
    /\ QueueIsBounded

LEMMA CallsIntoIsFinite ==
  ASSUME SelectionTypeOK, NEW set
  PROVE  Cardinality(CallsInto(set)) \in Nat
<1>1. IsFiniteSet(Function) /\ calls \subseteq Function \X Function
  BY TestsAreFunctions DEF SelectionTypeOK
<1>2. IsFiniteSet(Function \X Function)
  BY <1>1, FS_Product
<1>3. IsFiniteSet(calls)
  BY <1>1, <1>2, FS_Subset
<1>4. CallsInto(set) \subseteq calls
  BY DEF CallsInto
<1> QED
  BY <1>3, <1>4, FS_Subset, FS_CardinalityType

LEMMA VisitKeepsBound ==
  ASSUME SearchInv, QueueInv, Visit
  PROVE  QueueIsBounded'
<1> DEFINE f == Head(pending)
<1>1. /\ pending \in Seq(Function) /\ pending # <<>> /\ IsFiniteSet(Function)
      /\ pops \in Nat /\ changedFunctions \in Seq(Function) /\ SelectionTypeOK
  BY TestsAreFunctions DEF SearchInv, SelectionTypeOK, Visit
<1>2. /\ f \in Function /\ Tail(pending) \in Seq(Function)
      /\ Len(Tail(pending)) = Len(pending) - 1 /\ Len(pending) \in Nat
      /\ Len(changedFunctions) \in Nat
  BY <1>1, HeadTailProperties, LenProperties
<1>3. /\ pops' = pops + 1 /\ changedFunctions' = changedFunctions /\ calls' = calls
  BY DEF Visit, graph, arguments
<1>4. pops + Len(pending) <= Len(changedFunctions) + Cardinality(CallsInto(impacted))
  BY DEF QueueInv, QueueIsBounded, CallsInto
<1>5. QueueIsBounded' <=>
        pops' + Len(pending') <= Len(changedFunctions) + Cardinality(CallsInto(impacted'))
  BY <1>3 DEF QueueIsBounded, CallsInto
<1>6. CASE f \in impacted
  <2>1. impacted' = impacted /\ pending' = Tail(pending)
    BY <1>6 DEF Visit
  <2>2. Cardinality(CallsInto(impacted)) \in Nat
    BY <1>1, CallsIntoIsFinite
  <2> QED
    BY <1>1, <1>2, <1>3, <1>4, <1>5, <2>1, <2>2
<1>7. CASE f \notin impacted
  <2> DEFINE new == CalledBy(f) \ (impacted \cup {f})
             listed == NewCallers(f, impacted \cup {f})
  <2>1. /\ Cardinality(CallsInto(impacted)) \in Nat
        /\ Cardinality(CallsInto(impacted \cup {f})) \in Nat
        /\ IsFiniteSet(CalledBy(f)) /\ Cardinality(CalledBy(f)) \in Nat
        /\ Cardinality(CallsInto(impacted)) + Cardinality(CalledBy(f))
             <= Cardinality(CallsInto(impacted \cup {f}))
    BY <1>1, <1>2, <1>7, NewFunctionOpensCalls
  <2>2. new \subseteq CalledBy(f) /\ new \subseteq Function
    BY DEF CalledBy
  <2>3. IsFiniteSet(new) /\ Cardinality(new) <= Cardinality(CalledBy(f)) /\ Cardinality(new) \in Nat
    BY <2>1, <2>2, FS_Subset, FS_CardinalityType
  <2>4. listed \in Seq(Function) /\ Len(listed) = Cardinality(new)
    BY <2>2, <2>3, ListedSet DEF NewCallers
  <2>5. impacted' = impacted \cup {f} /\ pending' = Tail(pending) \o listed
    BY <1>7 DEF Visit
  <2>6. Len(pending') = Len(pending) - 1 + Cardinality(new)
    BY <1>2, <2>4, <2>5, ConcatProperties
  <2> HIDE DEF new, listed, f
  <2>7. pops' + Len(pending') <= Len(changedFunctions) + Cardinality(CallsInto(impacted \cup {f}))
    <3>1. pops' + Len(pending') = pops + Len(pending) + Cardinality(new)
      BY <1>1, <1>2, <1>3, <2>3, <2>6
    <3> QED
      BY <1>1, <1>2, <1>4, <2>1, <2>3, <3>1
  <2> QED
    BY <1>5, <2>5, <2>7
<1> QED
  BY <1>6, <1>7

LEMMA QueueStep == SearchInv /\ QueueInv /\ [SelectionNext]_selectionVars => QueueInv'
<1> SUFFICES ASSUME SearchInv, QueueInv, [SelectionNext]_selectionVars PROVE QueueInv'
  OBVIOUS
<1>t. SelectionTypeOK
  BY DEF SearchInv
<1>1. ASSUME SelectByPaths PROVE QueueInv'
  BY <1>1 DEF SelectByPaths, QueueInv, QueueIsBounded, graph, arguments
<1>2. ASSUME StartSearch PROVE QueueInv'
  <2>1. /\ pops' = 0 /\ pending' = changedFunctions /\ impacted' = impacted
        /\ calls' = calls /\ changedFunctions' = changedFunctions
        /\ progress' \notin {"paths", "functions"}
    BY <1>2 DEF StartSearch, QueueInv, graph, arguments
  <2>2. Cardinality(CallsInto(impacted)) \in Nat /\ Len(changedFunctions) \in Nat
    BY <1>t, CallsIntoIsFinite, LenProperties DEF SelectionTypeOK
  <2> QED
    BY <2>1, <2>2 DEF QueueInv, QueueIsBounded, CallsInto
<1>3. ASSUME Visit PROVE QueueInv'
  <2>1. QueueIsBounded'
    BY <1>3, VisitKeepsBound
  <2> QED
    BY <1>3, <2>1 DEF Visit, QueueInv
<1>4. ASSUME SelectByFunctions PROVE QueueInv'
  BY <1>4 DEF SelectByFunctions, QueueInv, QueueIsBounded, graph, arguments
<1>5. ASSUME Decide PROVE QueueInv'
  BY <1>5 DEF Decide, QueueInv, QueueIsBounded, graph, arguments
<1>6. CASE UNCHANGED selectionVars
  BY <1>6 DEF selectionVars, graph, arguments, QueueInv, QueueIsBounded
<1> QED
  BY <1>1, <1>2, <1>3, <1>4, <1>5, <1>6 DEF SelectionNext

\* On every finite call graph, cyclic ones included, the loop takes at most as
\* many turns as there are changes and call edges, and the list never holds
\* more than what is left of them (_impacted_functions_from_changed_functions).
THEOREM WorkIsBounded == SelectionSpec => []QueueIsBounded
<1>1. SelectionInit => QueueInv
  <2> SUFFICES ASSUME SelectionInit PROVE QueueInv
    OBVIOUS
  <2>1. SelectionTypeOK
    BY InitSearch DEF SearchInv
  <2>2. Cardinality(CallsInto(impacted)) \in Nat /\ Len(changedFunctions) \in Nat
    BY <2>1, CallsIntoIsFinite, LenProperties DEF SelectionTypeOK
  <2> QED
    BY <2>2 DEF SelectionInit, QueueInv, QueueIsBounded, CallsInto
<1>2. QueueInv => QueueIsBounded
  BY DEF QueueInv
<1> QED
  BY <1>1, <1>2, InitSearch, SearchStep, QueueStep, PTL DEF SelectionSpec
=============================================================================
