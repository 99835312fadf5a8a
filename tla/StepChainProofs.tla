--------------------------- MODULE StepChainProofs ---------------------------
(***************************************************************************)
(* Proofs about StepChain, for every set of custom steps and every length  *)
(* of a chain: the check for circular dependencies is right both ways.     *)
(***************************************************************************)
EXTENDS StepChain, SequenceTheorems, TLAPS

(***************************************************************************)
(* The dependency graph.                                                   *)
(***************************************************************************)

\* Every step has a name and dependencies in Name.
LEMMA StepFields ==
    ASSUME NEW s \in AnyStep
    PROVE  s.name \in Name /\ s.deps \subseteq Name
BY DEF Name

\* Dependencies are names, and a name that is not in the chain has none.
LEMMA GraphType ==
    ASSUME TypeOK, NEW n \in Name
    PROVE  Graph(n) \subseteq Name /\ Names \subseteq Name /\ (n \notin Names => Graph(n) = {})
<1>1. \A k \in 1..Len(steps) : steps[k].name \in Name /\ steps[k].deps \subseteq Name
  <2>1. \A k \in 1..Len(steps) : steps[k] \in AnyStep
    BY DEF TypeOK
  <2>2. QED
    BY <2>1, StepFields
<1>2. QED
  BY <1>1 DEF Graph, Bears, Names

\* The graph is that of the chain, whatever else changes.
LEMMA GraphUnchanged ==
    ASSUME UNCHANGED steps
    PROVE  /\ \A n : Graph(n)' = Graph(n)
           /\ Names' = Names
BY DEF Graph, Bears, Names

\* A path that is made longer.
LEMMA Longer ==
    ASSUME NEW s \in Seq(Name), NEW n \in Name
    PROVE  /\ Append(s, n) \in Seq(Name) /\ Len(Append(s, n)) = Len(s) + 1
           /\ Append(s, n)[Len(s) + 1] = n
           /\ \A k \in 1..Len(s) : Append(s, n)[k] = s[k]
           /\ Len(s) \in Nat
           /\ {Append(s, n)[k] : k \in 1..Len(Append(s, n))} = {s[k] : k \in 1..Len(s)} \union {n}
<1>1. /\ Append(s, n) \in Seq(Name) /\ Len(Append(s, n)) = Len(s) + 1
      /\ Append(s, n)[Len(s) + 1] = n /\ Len(s) \in Nat
      /\ \A k \in 1..Len(s) : Append(s, n)[k] = s[k]
  BY AppendProperties, LenProperties
<1>2. 1..(Len(s) + 1) = 1..Len(s) \union {Len(s) + 1}
  BY <1>1
<1>3. QED
  BY <1>1, <1>2

\* The beginning of a path.
LEMMA Prefix ==
    ASSUME NEW s \in Seq(Name), NEW m \in Nat, m <= Len(s)
    PROVE  /\ SubSeq(s, 1, m) \in Seq(Name) /\ Len(SubSeq(s, 1, m)) = m
           /\ \A k \in 1..m : SubSeq(s, 1, m)[k] = s[k]
BY SMT

\* A path without its end.
LEMMA Shorter ==
    ASSUME NEW s \in Seq(Name), s # <<>>
    PROVE  LET t == SubSeq(s, 1, Len(s) - 1)
           IN  /\ t \in Seq(Name) /\ Len(t) = Len(s) - 1
               /\ Len(s) \in Nat \ {0} /\ s[Len(s)] \in Name
               /\ \A k \in 1..Len(t) : t[k] = s[k] /\ k \in 1..Len(s)
<1>1. Len(s) \in Nat \ {0}
  BY EmptySeq, LenProperties
<1>2. s[Len(s)] \in Name
  BY <1>1, ElementOfSeq
<1>3. PICK m \in Nat : m = Len(s) - 1 /\ m <= Len(s)
  <2>1. Len(s) - 1 \in Nat /\ Len(s) - 1 <= Len(s)
    BY <1>1
  <2>2. QED
    BY <2>1
<1>4. \A k \in 1..m : k \in 1..Len(s)
  BY <1>1, <1>3
<1>5. QED
  BY <1>1, <1>2, <1>3, <1>4, Prefix

-----------------------------------------------------------------------------
(***************************************************************************)
(* Type correctness.                                                       *)
(***************************************************************************)

\* Nothing is searched at first.
LEMMA InitType == Init => TypeOK
BY EmptySeq, StepAssumption DEF Init, NoSearch, TypeOK, Answer

\* A call of hasCycleDFS puts the name on the path.
LEMMA CallType ==
    ASSUME TypeOK, NEW n \in Name, Call(n)
    PROVE  /\ visited' \in SUBSET Name /\ recStack' \in SUBSET Name
           /\ stack' \in Seq(Name)
           /\ recStack' = {stack'[k] : k \in 1..Len(stack')}
BY Longer DEF TypeOK, Call

\* The names on a path that is left at its end.
LEMMA ReturnType ==
    ASSUME TypeOK, NoEndlessRecursion, Return
    PROVE  /\ stack' \in Seq(Name) /\ Top \in Name
           /\ recStack' = {stack'[k] : k \in 1..Len(stack')}
<1>1. stack \in Seq(Name) /\ stack # <<>>
  BY DEF TypeOK, Return, Walking
<1>2. /\ stack' \in Seq(Name) /\ Len(stack') = Len(stack) - 1
      /\ Len(stack) \in Nat \ {0} /\ stack[Len(stack)] \in Name
      /\ \A k \in 1..Len(stack') : stack'[k] = stack[k] /\ k \in 1..Len(stack)
  BY <1>1, Shorter DEF Return
<1>3. recStack' = {stack[k] : k \in 1..Len(stack)} \ {stack[Len(stack)]}
  BY DEF TypeOK, Return, Top
<1>4. {stack[k] : k \in 1..Len(stack)} \ {stack[Len(stack)]} = {stack[k] : k \in 1..Len(stack')}
  <2>1. 1..Len(stack) = 1..Len(stack') \union {Len(stack)}
    BY <1>2
  <2>2. \A k \in 1..Len(stack') : k # Len(stack) /\ stack[k] # stack[Len(stack)]
    BY <1>2, <2>1 DEF NoEndlessRecursion
  <2>3. QED
    BY <2>1, <2>2
<1>5. {stack'[k] : k \in 1..Len(stack')} = {stack[k] : k \in 1..Len(stack')}
  BY <1>2
<1>6. QED
  BY <1>2, <1>3, <1>4, <1>5 DEF Top

\* Every step of a call keeps the types.
LEMMA TypeStep ==
    ASSUME TypeOK, NoEndlessRecursion, [Next]_vars
    PROVE  TypeOK'
<1> USE DEF TypeOK, search
<1>1. ASSUME NEW type \in CustomType, RegisterStep(type) PROVE TypeOK'
  BY <1>1 DEF RegisterStep
<1>2. CASE CreateStepChain
  BY <1>2, EmptySeq, StepAssumption DEF CreateStepChain, Answer
<1>3. ASSUME NEW s \in AnyStep, CreateStep(s) PROVE TypeOK'
  <2>1. steps' \in Seq(AnyStep) /\ Len(steps') <= MaxLength
    BY <1>3, AppendProperties, LenProperties, StepAssumption DEF CreateStep
  <2>2. QED
    BY <1>3, <2>1 DEF CreateStep
<1>4. CASE CreateFails
  BY <1>4, EmptySeq, StepAssumption DEF CreateFails, Answer
<1>5. CASE CheckCircular
  <2>1. Names \subseteq Name
    BY StepFields DEF Names
  <2>2. QED
    BY <1>5, <2>1 DEF CheckCircular
<1>6. ASSUME NEW n \in Name, NextRoot(n) PROVE TypeOK'
  BY <1>6, CallType, GraphType DEF NextRoot
<1>7. ASSUME NEW n \in Name, NextDependency(n) PROVE TypeOK'
  <2>1. /\ visited' \in SUBSET Name /\ recStack' \in SUBSET Name /\ stack' \in Seq(Name)
        /\ recStack' = {stack'[k] : k \in 1..Len(stack')}
    BY <1>7, CallType DEF NextDependency
  <2>2. left' \in [Name -> SUBSET Name]
    BY <1>7, GraphType DEF NextDependency
  <2>3. QED
    BY <1>7, <2>1, <2>2 DEF NextDependency
<1>8. ASSUME NEW n \in Name, SkipDependency(n) PROVE TypeOK'
  BY <1>8 DEF SkipDependency
<1>9. ASSUME EndSearch, answer' \in Answer PROVE TypeOK'
  BY <1>9, EmptySeq DEF EndSearch
<1>10. ASSUME NEW n \in Name, FindCycle(n) PROVE TypeOK'
  BY <1>9, <1>10 DEF FindCycle, Answer
<1>11. CASE Return
  BY <1>11, ReturnType DEF Return
<1>12. CASE CheckPresent
  BY <1>9, <1>12 DEF CheckPresent, Answer
<1>13. CASE UNCHANGED vars
  BY <1>13 DEF vars
<1>14. QED
  BY <1>1, <1>2, <1>3, <1>4, <1>5, <1>6, <1>7, <1>8, <1>10, <1>11, <1>12, <1>13
     DEF Next, CallStep

-----------------------------------------------------------------------------
(***************************************************************************)
(* The inductive invariant, action by action.                              *)
(***************************************************************************)

\* Whether there is a knot is a matter of the chain alone.
LEMMA KnotUnchanged ==
    ASSUME UNCHANGED steps
    PROVE  \A set : Knot(set)' <=> Knot(set)
BY GraphUnchanged DEF Knot

\* Where nothing is searched there is nothing to show about the search.
LEMMA NoSearchInv ==
    ASSUME NoSearch
    PROVE  OnPath /\ DoneIsAcyclic
<1>1. Len(stack) = 0 /\ Done = {}
  BY EmptySeq DEF NoSearch, Done
<1>2. QED
  BY <1>1 DEF NoSearch, OnPath, NoEndlessRecursion, DoneIsAcyclic, Knot

\* A factory that was just made.
LEMMA InitInv == Init => IInv
BY NoSearchInv DEF Init, IInv, Calm, RootsRemain, ValidCanBeOrdered, CircularIsReal, NoSearch

\* The registry and the creation of a chain, up to the beginning of the search.
LEMMA CreationInv ==
    ASSUME TypeOK, IInv,
           \/ \E type \in CustomType : RegisterStep(type)
           \/ CreateStepChain
           \/ \E s \in AnyStep : CreateStep(s)
           \/ CreateFails
           \/ CheckCircular
    PROVE  IInv'
<1>1. NoSearch
  BY DEF IInv, Calm, RegisterStep, CreateStepChain, CreateStep, CreateFails, CheckCircular
<1>2. OnPath' /\ DoneIsAcyclic'
  <2>1. UNCHANGED <<visited, recStack, stack, left>>
    BY DEF RegisterStep, CreateStepChain, CreateStep, CreateFails, CheckCircular, search
  <2>2. Len(stack') = 0 /\ Done' = {}
    BY <1>1, <2>1, EmptySeq DEF NoSearch, Done
  <2>3. QED
    BY <1>1, <2>1, <2>2 DEF NoSearch, OnPath, NoEndlessRecursion, DoneIsAcyclic, Knot
<1>3. Calm' /\ RootsRemain'
  BY <1>1 DEF IInv, Calm, NoSearch, RootsRemain, RegisterStep, CreateStepChain, CreateStep,
              CreateFails, CheckCircular, search, Names
<1>4. ValidCanBeOrdered' /\ CircularIsReal'
  <2>1. ASSUME NEW type \in CustomType, RegisterStep(type)
        PROVE  ValidCanBeOrdered' /\ CircularIsReal'
    <3>1. UNCHANGED <<steps, answer>>
      BY <2>1 DEF RegisterStep
    <3>2. QED
      BY <3>1, KnotUnchanged DEF IInv, ValidCanBeOrdered, CircularIsReal, Present, Names
  <2>2. ASSUME \/ CreateStepChain
               \/ \E s \in AnyStep : CreateStep(s)
               \/ CreateFails
               \/ CheckCircular
        PROVE  answer' \in {"none", "failed"}
    BY <2>2 DEF IInv, Calm, CreateStepChain, CreateStep, CreateFails, CheckCircular
  <2>3. QED
    BY <2>1, <2>2 DEF ValidCanBeOrdered, CircularIsReal
<1>5. QED
  BY <1>2, <1>3, <1>4 DEF IInv

\* What a step of the search that does not answer leaves alone.
LEMMA SearchGoesOn ==
    ASSUME IInv, phase = "walk", UNCHANGED <<phase, steps, answer>>
    PROVE  Calm' /\ ValidCanBeOrdered' /\ CircularIsReal'
BY DEF IInv, Calm, ValidCanBeOrdered, CircularIsReal

\* What is done stays so, and nothing else is, when a name is entered.
LEMMA CallDone ==
    ASSUME OnPath, NEW n \in Name, n \notin visited, Call(n)
    PROVE  Done' = Done
BY DEF OnPath, Call, Done

\* The graph below what is done does not change.
LEMMA DoneStays ==
    ASSUME DoneIsAcyclic, UNCHANGED steps, Done' = Done
    PROVE  DoneIsAcyclic'
BY GraphUnchanged, KnotUnchanged DEF DoneIsAcyclic

\* The next root, if it was not visited from another one, begins a path.
LEMMA NextRootInv ==
    ASSUME TypeOK, IInv, NEW n \in Name, NextRoot(n)
    PROVE  IInv'
<1>1. Calm' /\ ValidCanBeOrdered' /\ CircularIsReal'
  BY SearchGoesOn DEF NextRoot
<1>2. stack = <<>> /\ recStack = {} /\ UNCHANGED steps
  BY EmptySeq DEF NextRoot, TypeOK
<1>3. CASE n \in visited
  <2>1. UNCHANGED <<visited, recStack, stack, left>>
    BY <1>3 DEF NextRoot
  <2>2. OnPath'
    BY <1>2, <2>1, EmptySeq DEF IInv, OnPath, NoEndlessRecursion
  <2>3. DoneIsAcyclic'
    BY <1>2, <2>1, DoneStays DEF IInv, Done
  <2>4. RootsRemain'
    BY <1>2, <1>3, <2>1 DEF IInv, RootsRemain, NextRoot, Names
  <2>5. QED
    BY <1>1, <2>2, <2>3, <2>4 DEF IInv
<1>4. CASE n \notin visited
  <2>1. Call(n) /\ left' = [left EXCEPT ![n] = Graph(n)]
    BY <1>4 DEF NextRoot
  <2>2. Len(stack') = 1 /\ stack'[1] = n /\ visited' = visited \union {n} /\ recStack' = {n}
    BY <1>2, <2>1 DEF Call
  <2>3. OnPath'
    <3>1. left'[n] = Graph(n)' 
      BY <1>2, <2>1, GraphUnchanged DEF TypeOK
    <3>2. \A k \in 1..Len(stack') : k = 1
      BY <2>2
    <3>3. QED
      BY <2>2, <3>1, <3>2 DEF OnPath, NoEndlessRecursion
  <2>4. DoneIsAcyclic'
    BY <1>2, <1>4, <2>1, CallDone, DoneStays DEF IInv
  <2>5. RootsRemain'
    BY <1>2, <2>2 DEF IInv, RootsRemain, NextRoot, Names
  <2>6. QED
    BY <1>1, <2>3, <2>4, <2>5 DEF IInv
<1>5. QED
  BY <1>3, <1>4

\* The end of the path.
LEMMA TopIsLast ==
    ASSUME TypeOK, Walking
    PROVE  /\ Len(stack) \in Nat \ {0} /\ Len(stack) \in 1..Len(stack)
           /\ Top \in Name /\ Top \in recStack
<1>1. Len(stack) \in Nat \ {0}
  BY EmptySeq DEF TypeOK, Walking
<1>2. Len(stack) \in 1..Len(stack)
  BY <1>1
<1>3. QED
  BY <1>1, <1>2 DEF TypeOK, Top

\* A dependency that was not visited makes the path longer.
LEMMA NextDependencyInv ==
    ASSUME TypeOK, IInv, NEW d \in Name, NextDependency(d)
    PROVE  IInv'
<1>1. Calm' /\ ValidCanBeOrdered' /\ CircularIsReal'
  BY SearchGoesOn DEF NextDependency, Walking
<1>2. /\ Walking /\ d \in left[Top] /\ d \notin visited /\ Call(d) /\ UNCHANGED steps
      /\ left' = [left EXCEPT ![Top] = @ \ {d}, ![d] = Graph(d)]
  BY DEF NextDependency
<1>3. DoneIsAcyclic'
  BY <1>2, CallDone, DoneStays DEF IInv
<1>4. RootsRemain'
  BY <1>2 DEF IInv, RootsRemain, NextDependency, Call, Names
<1>5. OnPath'
  <2> DEFINE L == Len(stack)
  <2>1. /\ L \in Nat \ {0} /\ L \in 1..L /\ Top = stack[L] /\ Top \in Name
        /\ Top \in recStack
    BY <1>2, TopIsLast DEF Top
  <2>2. /\ Len(stack') = L + 1 /\ stack'[L + 1] = d
        /\ \A k \in 1..L : stack'[k] = stack[k]
    BY <1>2, Longer DEF Call, TypeOK
  <2>3. /\ visited' = visited \union {d} /\ recStack' = recStack \union {d}
        /\ \A k \in 1..L : stack[k] # d /\ stack[k] \in Name
        /\ d # Top
    BY <1>2, <2>1, LenProperties, ElementOfSeq DEF Call, IInv, OnPath, TypeOK
  <2>4. recStack' \subseteq visited' /\ Done' = Done
    BY <1>2, <2>3, CallDone DEF IInv, OnPath
  <2>5. /\ left'[d] = Graph(d) /\ left'[Top] = left[Top] \ {d}
        /\ \A n \in Name : n # d /\ n # Top => left'[n] = left[n]
    BY <1>2, <2>1, <2>3 DEF TypeOK
  <2>6. \A n : Graph(n)' = Graph(n)
    BY <1>2, GraphUnchanged
  <2>7. \A k \in 1..Len(stack') : k \in 1..L \/ k = L + 1
    BY <2>1, <2>2
  <2>8. NoEndlessRecursion'
    BY <2>2, <2>3, <2>7 DEF IInv, OnPath, NoEndlessRecursion
  <2>9. ASSUME NEW k \in 1..Len(stack')
        PROVE  /\ left'[stack'[k]] \subseteq Graph(stack'[k])
               /\ k < Len(stack') => stack'[k + 1] \in Graph(stack'[k])
               /\ \A e \in Graph(stack'[k]) \ left'[stack'[k]] :
                      e \in Done \/ (k < Len(stack') /\ e = stack'[k + 1])
    <3>1. CASE k \in 1..L /\ k # L
      <4>1. k + 1 \in 1..L /\ k < L /\ k < L + 1
        BY <2>1, <3>1
      <4>2. stack[k] # Top
        BY <2>1, <3>1 DEF IInv, OnPath, NoEndlessRecursion
      <4>3. left'[stack[k]] = left[stack[k]]
        BY <2>3, <2>5, <3>1, <4>2
      <4>4. QED
        BY <2>2, <3>1, <4>1, <4>3 DEF IInv, OnPath
    <3>2. CASE k = L
      <4>1. d \in Graph(Top) /\ left[Top] \subseteq Graph(Top)
        BY <1>2, <2>1 DEF IInv, OnPath
      <4>2. \A e \in Graph(Top) \ left[Top] : e \in Done
        BY <2>1 DEF IInv, OnPath
      <4>3. stack'[k] = Top /\ stack'[k + 1] = d /\ k < Len(stack')
        BY <2>1, <2>2, <3>2
      <4>4. QED
        BY <2>5, <4>1, <4>2, <4>3
    <3>3. CASE k = L + 1
      BY <2>1, <2>2, <2>5, <3>3
    <3>4. QED
      BY <2>7, <3>1, <3>2, <3>3
  <2>10. QED
    BY <2>4, <2>6, <2>8, <2>9 DEF OnPath
<1>6. QED
  BY <1>1, <1>3, <1>4, <1>5 DEF IInv

\* A dependency that is done needs no second visit.
LEMMA SkipDependencyInv ==
    ASSUME TypeOK, IInv, NEW d \in Name, SkipDependency(d)
    PROVE  IInv'
<1>1. Calm' /\ ValidCanBeOrdered' /\ CircularIsReal'
  BY SearchGoesOn DEF SkipDependency, Walking
<1>2. /\ Walking /\ d \in left[Top] /\ d \in Done
      /\ UNCHANGED <<phase, steps, roots, visited, recStack, stack>>
      /\ left' = [left EXCEPT ![Top] = @ \ {d}]
  BY DEF SkipDependency, Done
<1>3. DoneIsAcyclic' /\ Done' = Done
  BY <1>2, DoneStays DEF IInv, Done
<1>4. RootsRemain'
  BY <1>2 DEF IInv, RootsRemain, Names
<1>5. OnPath'
  <2>1. \A n \in Name : left'[n] = IF n = Top THEN left[n] \ {d} ELSE left[n]
    BY <1>2 DEF TypeOK
  <2>2. \A k \in 1..Len(stack) : stack[k] \in Name
    BY ElementOfSeq DEF TypeOK
  <2>3. \A n : Graph(n)' = Graph(n)
    BY <1>2, GraphUnchanged
  <2>4. QED
    BY <1>2, <1>3, <2>1, <2>2, <2>3 DEF IInv, OnPath, NoEndlessRecursion
<1>6. QED
  BY <1>1, <1>3, <1>4, <1>5 DEF IInv

\* After an answer there is no search.
LEMMA EndSearchInv ==
    ASSUME EndSearch
    PROVE  Calm' /\ OnPath' /\ DoneIsAcyclic' /\ RootsRemain'
<1>1. NoSearch'
  BY DEF EndSearch, NoSearch, search
<1>2. OnPath' /\ DoneIsAcyclic'
  BY <1>1, NoSearchInv, PTL
<1>3. QED
  BY <1>1, <1>2 DEF Calm, RootsRemain, EndSearch

\* A dependency on the path closes a cycle: the path from there to its end.
LEMMA FindCycleInv ==
    ASSUME TypeOK, IInv, NEW d \in Name, FindCycle(d)
    PROVE  IInv'
<1>1. /\ Walking /\ d \in left[Top] /\ d \in recStack /\ answer' = "circular"
      /\ UNCHANGED steps /\ EndSearch
  BY DEF FindCycle, EndSearch
<1>2. PICK i \in 1..Len(stack) : stack[i] = d
  BY <1>1 DEF TypeOK
<1>3. DEFINE cycle == {stack[k] : k \in i..Len(stack)}
<1>4. Len(stack) \in Nat \ {0} /\ Len(stack) \in 1..Len(stack) /\ Top = stack[Len(stack)]
  BY <1>1, TopIsLast DEF Top
<1>5. \A k \in i..Len(stack) : k \in 1..Len(stack)
  BY <1>2, <1>4
<1>6. cycle \in SUBSET Name /\ d \in cycle
  BY <1>2, <1>4, <1>5, ElementOfSeq DEF TypeOK
<1>7. ASSUME NEW k \in i..Len(stack)
      PROVE  \E m \in cycle : m \in Graph(stack[k])
  <2>1. CASE k = Len(stack)
    <3>1. d \in Graph(Top)
      BY <1>1, <1>4 DEF IInv, OnPath
    <3>2. QED
      BY <1>4, <1>6, <2>1, <3>1
  <2>2. CASE k # Len(stack)
    <3>1. k \in 1..Len(stack) /\ k < Len(stack) /\ k + 1 \in i..Len(stack)
      BY <1>2, <1>4, <2>2
    <3>2. stack[k + 1] \in Graph(stack[k])
      BY <3>1 DEF IInv, OnPath
    <3>3. QED
      BY <3>1, <3>2
  <2>3. QED
    BY <2>1, <2>2
<1>8. Knot(cycle)
  BY <1>6, <1>7 DEF Knot
<1>9. ValidCanBeOrdered' /\ CircularIsReal'
  <2>1. \E set \in SUBSET Name : Knot(set)
    BY <1>6, <1>8
  <2>2. \E set \in SUBSET Name : Knot(set)'
    BY <1>1, <2>1, KnotUnchanged
  <2>3. QED
    BY <1>1, <2>2 DEF ValidCanBeOrdered, CircularIsReal
<1>10. QED
  BY <1>1, <1>9, EndSearchInv DEF IInv

\* A call that returns has only what is done below it, so that nothing becomes
\* circular when its name is done as well.
LEMMA ReturnInv ==
    ASSUME TypeOK, IInv, Return
    PROVE  IInv'
<1> DEFINE L == Len(stack)
<1>1. Calm' /\ ValidCanBeOrdered' /\ CircularIsReal'
  BY SearchGoesOn DEF Return, Walking
<1>2. /\ Walking /\ left[Top] = {} /\ recStack' = recStack \ {Top}
      /\ UNCHANGED <<phase, steps, roots, visited, left>>
  BY DEF Return
<1>3. /\ L \in Nat \ {0} /\ L \in 1..L /\ Top = stack[L] /\ Top \in recStack
  BY <1>2, TopIsLast DEF Top
<1>4. Graph(Top) \subseteq Done
  BY <1>2, <1>3 DEF IInv, OnPath
<1>5. Done' = Done \union {Top}
  BY <1>2, <1>3 DEF Done, IInv, OnPath
<1>6. RootsRemain'
  BY <1>2 DEF IInv, RootsRemain, Names
<1>7. OnPath'
  <2>1. Len(stack') = L - 1 /\ \A k \in 1..Len(stack') : stack'[k] = stack[k] /\ k \in 1..L
    <3>1. stack \in Seq(Name) /\ stack # <<>> /\ stack' = SubSeq(stack, 1, L - 1)
      BY DEF TypeOK, Return, Walking
    <3>2. QED
      BY <3>1, Shorter
  <2>2. \A n : Graph(n)' = Graph(n)
    BY <1>2, GraphUnchanged
  <2>3. NoEndlessRecursion'
    BY <2>1 DEF IInv, OnPath, NoEndlessRecursion
  <2>4. ASSUME NEW k \in 1..Len(stack')
        PROVE  /\ left[stack[k]] \subseteq Graph(stack[k])
               /\ k < Len(stack') => stack'[k + 1] \in Graph(stack[k])
               /\ \A e \in Graph(stack[k]) \ left[stack[k]] :
                      e \in Done' \/ (k < Len(stack') /\ e = stack'[k + 1])
    <3>1. k \in 1..L /\ k < L /\ (k < Len(stack') => stack'[k + 1] = stack[k + 1])
          /\ (~(k < Len(stack')) => stack[k + 1] = Top)
      <4>1. k \in 1..L /\ k < L /\ (k < L - 1 => k + 1 \in 1..(L - 1))
            /\ (~(k < L - 1) => k + 1 = L)
        BY <1>3, <2>1
      <4>2. QED
        BY <1>3, <2>1, <4>1
    <3>2. /\ left[stack[k]] \subseteq Graph(stack[k])
          /\ stack[k + 1] \in Graph(stack[k])
          /\ \A e \in Graph(stack[k]) \ left[stack[k]] : e \in Done \/ e = stack[k + 1]
      BY <3>1 DEF IInv, OnPath
    <3>3. QED
      BY <1>5, <3>1, <3>2
  <2>5. recStack' \subseteq visited'
    BY <1>2 DEF IInv, OnPath
  <2>6. QED
    BY <1>2, <2>1, <2>2, <2>3, <2>4, <2>5 DEF OnPath
<1>8. DoneIsAcyclic'
  <2>1. \A n \in Done' : Graph(n) \subseteq Done
    BY <1>4, <1>5 DEF IInv, DoneIsAcyclic
  <2>2. ASSUME NEW set \in SUBSET Done', Knot(set) PROVE FALSE
    <3> DEFINE rest == set \ {Top}
    <3>1. \A n \in set : \E m \in rest : m \in Graph(n)
      BY <1>3, <2>1, <2>2 DEF Knot, Done
    <3>2. rest # {} /\ rest \in SUBSET Done
      BY <1>5, <2>2, <3>1 DEF Knot
    <3>3. QED
      BY <3>1, <3>2 DEF IInv, DoneIsAcyclic, Knot
  <2>3. QED
    BY <1>2, <1>5, <2>1, <2>2, GraphUnchanged, KnotUnchanged DEF DoneIsAcyclic
<1>9. QED
  BY <1>1, <1>6, <1>7, <1>8 DEF IInv

\* When every root was visited, what is in the chain is done; what is not has no
\* dependencies, and so no part in a cycle.
LEMMA CheckPresentInv ==
    ASSUME TypeOK, IInv, CheckPresent
    PROVE  IInv'
<1>1. /\ phase = "walk" /\ stack = <<>> /\ roots = {} /\ UNCHANGED steps /\ EndSearch
      /\ answer' = IF Present THEN "valid" ELSE "missing"
  BY DEF CheckPresent, EndSearch
<1>2. Names \subseteq Done
  BY <1>1, EmptySeq DEF IInv, RootsRemain, Done, TypeOK
<1>3. ASSUME NEW set \in SUBSET Name, Knot(set) PROVE FALSE
  <2>1. set \subseteq Names
    BY <1>3, GraphType DEF Knot
  <2>2. QED
    BY <1>2, <1>3, <2>1 DEF IInv, DoneIsAcyclic
<1>4. ValidCanBeOrdered' /\ CircularIsReal'
  <2>1. Present' <=> Present
    BY <1>1 DEF Present, Names
  <2>2. QED
    BY <1>1, <1>3, <2>1, KnotUnchanged DEF ValidCanBeOrdered, CircularIsReal
<1>5. QED
  BY <1>1, <1>4, EndSearchInv DEF IInv

\* The invariant holds of a new factory and is kept by every step.
LEMMA Invariant == Spec => [](TypeOK /\ IInv)
<1>1. Init => TypeOK /\ IInv
  BY InitType, InitInv
<1>2. TypeOK /\ IInv /\ [Next]_vars => (TypeOK /\ IInv)'
  <2> SUFFICES ASSUME TypeOK, IInv, [Next]_vars PROVE TypeOK' /\ IInv'
    OBVIOUS
  <2>1. TypeOK'
    BY TypeStep DEF IInv, OnPath
  <2>2. CASE UNCHANGED vars
    <3>1. UNCHANGED steps /\ Done' = Done
      BY <2>2 DEF vars, search, Done
    <3>2. DoneIsAcyclic'
      BY <3>1, DoneStays DEF IInv
    <3>3. OnPath'
      BY <2>2, <3>1, GraphUnchanged DEF IInv, OnPath, NoEndlessRecursion, vars, search
    <3>4. ValidCanBeOrdered' /\ CircularIsReal'
      BY <2>2, <3>1, KnotUnchanged
         DEF IInv, ValidCanBeOrdered, CircularIsReal, Present, Names, vars
    <3>5. Calm' /\ RootsRemain'
      BY <2>2 DEF IInv, Calm, NoSearch, RootsRemain, Names, vars, search
    <3>6. QED
      BY <2>1, <3>2, <3>3, <3>4, <3>5 DEF IInv
  <2>3. CASE Next
    BY <2>1, <2>3, CreationInv, NextRootInv, NextDependencyInv, SkipDependencyInv, FindCycleInv,
       ReturnInv, CheckPresentInv DEF Next, CallStep
  <2>4. QED
    BY <2>2, <2>3
<1>3. QED
  BY <1>1, <1>2, PTL DEF Spec

-----------------------------------------------------------------------------
(***************************************************************************)
(* The check is right.                                                     *)
(***************************************************************************)

\* Every reachable state is well typed, and recStack holds the names on the path.
THEOREM TypeCorrect == Spec => []TypeOK
BY Invariant, PTL

\* A chain that passes has no cycle, for any steps and any order of the search.
THEOREM ValidChainsCanBeOrdered == Spec => []ValidCanBeOrdered
<1>1. IInv => ValidCanBeOrdered
  BY DEF IInv
<1>2. QED
  BY <1>1, Invariant, PTL

\* A chain that is called circular is.
THEOREM CircularChainsAreReal == Spec => []CircularIsReal
<1>1. IInv => CircularIsReal
  BY DEF IInv
<1>2. QED
  BY <1>1, Invariant, PTL

\* The recursion is never deeper than there are names.
THEOREM RecursionIsBounded == Spec => []NoEndlessRecursion
<1>1. IInv => NoEndlessRecursion
  BY DEF IInv, OnPath
<1>2. QED
  BY <1>1, Invariant, PTL
=============================================================================
