------------------------------ MODULE StepChain ------------------------------
(***************************************************************************)
(* The step factory of internal/nightwatch/biz/v1/smsbatch                 *)
(* (step_processor.go): a registry of step types, and chains of steps,     *)
(* which are returned only when nothing in them depends on itself and every *)
(* dependency is in the chain.                                             *)
(*                                                                         *)
(* The check for circular dependencies is a depth-first search.  A step    *)
(* here is what one call or one turn of a loop does; stack is the Go       *)
(* stack of the recursive calls.  The search visits a name once, and the   *)
(* lists of dependencies are any lists, so their order is that in which    *)
(* the search happens to take them; the order of the roots is that of a Go *)
(* map.                                                                    *)
(***************************************************************************)
EXTENDS Naturals, Sequences, FiniteSets

CONSTANTS
    CustomType,   \* types that RegisterStep may add
    CustomStep,   \* the steps their creators return
    MaxLength     \* bound: the length of a chain

Step(n, d) == [name |-> n, deps |-> d]

\* What registerBuiltinSteps registers: each type makes one step, of its own name.
Builtin ==
    {Step("preparation", {}), Step("delivery", {"preparation"}),
     Step("validation", {}), Step("partition", {"validation"}),
     Step("statistics", {}), Step("cleanup", {"delivery"})}

AnyStep == Builtin \union CustomStep
Name == {s.name : s \in AnyStep} \union UNION {s.deps : s \in AnyStep}

ASSUME StepAssumption ==
    /\ \A s \in CustomStep : s = Step(s.name, s.deps) /\ IsFiniteSet(s.deps)
    /\ MaxLength \in Nat

VARIABLES
    registered,  \* the custom types in stepCreators
    phase,       \* the call in progress: idle, create or walk
    steps,       \* the chain
    answer,      \* what the last call returned
    roots,       \* names the loop over the graph has not come to
    visited,
    recStack,
    stack,       \* the calls of hasCycleDFS in progress
    left         \* the dependencies that each of them has still to look at

search == <<roots, visited, recStack, stack, left>>
vars == <<registered, phase, steps, answer, search>>

Answer == {"none", "failed", "circular", "missing", "valid"}

TypeOK ==
    /\ registered \in SUBSET CustomType
    /\ phase \in {"idle", "create", "walk"}
    /\ steps \in Seq(AnyStep) /\ Len(steps) <= MaxLength
    /\ answer \in Answer
    /\ roots \in SUBSET Name /\ visited \in SUBSET Name /\ recStack \in SUBSET Name
    /\ stack \in Seq(Name)
    /\ recStack = {stack[k] : k \in 1..Len(stack)}
    /\ left \in [Name -> SUBSET Name]

NoSearch ==
    /\ roots = {} /\ visited = {} /\ recStack = {} /\ stack = <<>>
    /\ left = [n \in Name |-> {}]

Init ==
    /\ registered = {}
    /\ phase = "idle" /\ steps = <<>> /\ answer = "none"
    /\ NoSearch

Names == {steps[k].name : k \in 1..Len(steps)}

\* dependencyGraph: of several steps with one name the last one counts, and a name
\* that is not in the chain depends on nothing.
Bears(k, n) == steps[k].name = n /\ \A m \in (k + 1)..Len(steps) : steps[m].name # n
Graph(n) == UNION {steps[k].deps : k \in {i \in 1..Len(steps) : Bears(i, n)}}

-----------------------------------------------------------------------------
(* The registry, and the creation of a chain. *)

\* A type that is registered already is refused.
RegisterStep(type) ==
    /\ phase = "idle" /\ type \notin registered
    /\ registered' = registered \union {type}
    /\ UNCHANGED <<phase, steps, answer, search>>

CreateStepChain ==
    /\ phase = "idle"
    /\ phase' = "create" /\ steps' = <<>> /\ answer' = "none"
    /\ UNCHANGED <<registered, search>>

\* The next type of the list is a registered one, whose creator makes a step.
CreateStep(s) ==
    /\ phase = "create" /\ Len(steps) < MaxLength
    /\ s \in Builtin \/ registered # {}
    /\ steps' = Append(steps, s)
    /\ UNCHANGED <<registered, phase, answer, search>>

\* An unknown type, or an error of its creator.
CreateFails ==
    /\ phase = "create" /\ Len(steps) < MaxLength
    /\ answer' = "failed" /\ steps' = <<>> /\ phase' = "idle"
    /\ UNCHANGED <<registered, search>>

-----------------------------------------------------------------------------
(* checkCircularDependencies and hasCycleDFS. *)

CheckCircular ==
    /\ phase = "create"
    /\ phase' = "walk" /\ roots' = Names
    /\ UNCHANGED <<registered, steps, answer, visited, recStack, stack, left>>

\* Seeded fault: the search enters a name and does not mark it.
CallUnmarked(n) ==
    /\ UNCHANGED visited
    /\ recStack' = recStack \union {n}
    /\ stack' = Append(stack, n)

\* A call of hasCycleDFS.
Call(n) ==
    /\ visited' = visited \union {n}
    /\ recStack' = recStack \union {n}
    /\ stack' = Append(stack, n)

NextRoot(n) ==
    /\ phase = "walk" /\ stack = <<>> /\ n \in roots
    /\ roots' = roots \ {n}
    /\ IF n \in visited
         THEN UNCHANGED <<visited, recStack, stack, left>>
         ELSE Call(n) /\ left' = [left EXCEPT ![n] = Graph(n)]
    /\ UNCHANGED <<registered, phase, steps, answer>>

Top == stack[Len(stack)]
Walking == phase = "walk" /\ stack # <<>>

NextDependency(d) ==
    /\ Walking /\ d \in left[Top] /\ d \notin visited
    /\ Call(d)
    /\ left' = [left EXCEPT ![Top] = @ \ {d}, ![d] = Graph(d)]
    /\ UNCHANGED <<registered, phase, steps, answer, roots>>

SkipDependency(d) ==
    /\ Walking /\ d \in left[Top] /\ d \in visited /\ d \notin recStack
    /\ left' = [left EXCEPT ![Top] = @ \ {d}]
    /\ UNCHANGED <<registered, phase, steps, answer, roots, visited, recStack, stack>>

EndSearch ==
    /\ phase' = "idle"
    /\ roots' = {} /\ visited' = {} /\ recStack' = {} /\ stack' = <<>>
    /\ left' = [n \in Name |-> {}]
    /\ UNCHANGED <<registered, steps>>

\* The calls in progress all return true.
FindCycle(d) ==
    /\ Walking /\ d \in left[Top] /\ d \in visited /\ d \in recStack
    /\ answer' = "circular"
    /\ EndSearch

\* Seeded fault: the name stays on the recursion stack.
ReturnKeeping ==
    /\ Walking /\ left[Top] = {}
    /\ stack' = SubSeq(stack, 1, Len(stack) - 1)
    /\ UNCHANGED <<registered, phase, steps, answer, roots, visited, recStack, left>>

\* A call that has found nothing returns false.
Return ==
    /\ Walking /\ left[Top] = {}
    /\ recStack' = recStack \ {Top}
    /\ stack' = SubSeq(stack, 1, Len(stack) - 1)
    /\ UNCHANGED <<registered, phase, steps, answer, roots, visited, left>>

\* The second half of ValidateStepChain: the dependencies of every step, also of one
\* whose name a later step has.
Present == \A k \in 1..Len(steps) : steps[k].deps \subseteq Names

\* Seeded fault: the loop ends with the first tree of the search.
FirstTreeOnly ==
    /\ phase = "walk" /\ stack = <<>> /\ (roots = {} \/ visited # {})
    /\ answer' = IF Present THEN "valid" ELSE "missing"
    /\ EndSearch

CheckPresent ==
    /\ phase = "walk" /\ stack = <<>> /\ roots = {}
    /\ answer' = IF Present THEN "valid" ELSE "missing"
    /\ EndSearch

CallStep ==
    \/ \E s \in AnyStep : CreateStep(s)
    \/ CreateFails
    \/ CheckCircular
    \/ \E n \in Name : NextRoot(n) \/ NextDependency(n) \/ SkipDependency(n) \/ FindCycle(n)
    \/ Return
    \/ CheckPresent

Next ==
    \/ \E type \in CustomType : RegisterStep(type)
    \/ CreateStepChain
    \/ CallStep

Spec == Init /\ [][Next]_vars

-----------------------------------------------------------------------------
(* Properties. *)

\* Names of which none can come first: each depends on one of them.  In a finite
\* graph such a set is there if and only if there is a cycle.
Knot(set) == set # {} /\ \A n \in set : \E m \in set : m \in Graph(n)

\* A chain that is returned can be put in an order in which every step comes after
\* its dependencies: these are all in the chain, and there is no cycle.  Nor is there
\* one in a chain that is only called incomplete, although the search also goes
\* through names that are not in the chain.
ValidCanBeOrdered ==
    /\ answer = "valid" => Present
    /\ answer \in {"valid", "missing"} => \A set \in SUBSET Name : ~Knot(set)

\* A chain is called circular only if it is, whatever was visited on other paths and
\* from other roots.
CircularIsReal ==
    answer = "circular" => \E set \in SUBSET Name : Knot(set)

\* The recursion never enters a name it is in already: a cycle does not make it
\* endless, and it is never deeper than there are names.
NoEndlessRecursion ==
    \A k, m \in 1..Len(stack) : stack[k] = stack[m] => k = m

-----------------------------------------------------------------------------
(***************************************************************************)
(* The inductive invariant behind the properties above.                    *)
(***************************************************************************)
Calm ==
    /\ phase # "walk" => NoSearch
    /\ phase # "idle" => answer = "none"

\* The names whose call has returned.
Done == visited \ recStack

\* The calls in progress follow the graph down.
OnPath ==
    /\ recStack \subseteq visited
    /\ NoEndlessRecursion
    /\ \A k \in 1..Len(stack) :
           /\ left[stack[k]] \subseteq Graph(stack[k])
           /\ k < Len(stack) => stack[k + 1] \in Graph(stack[k])
           /\ \A d \in Graph(stack[k]) \ left[stack[k]] :
                  d \in Done \/ (k < Len(stack) /\ d = stack[k + 1])

\* What is done depends on what is done, and there is no cycle in it.
DoneIsAcyclic ==
    /\ \A n \in Done : Graph(n) \subseteq Done
    /\ \A set \in SUBSET Done : ~Knot(set)

RootsRemain == phase = "walk" => Names \subseteq roots \union visited

IInv == Calm /\ OnPath /\ DoneIsAcyclic /\ RootsRemain /\ ValidCanBeOrdered /\ CircularIsReal
=============================================================================
