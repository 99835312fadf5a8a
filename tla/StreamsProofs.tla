---------------------------- MODULE StreamsProofs ----------------------------
(***************************************************************************)
(* Proofs about Streams, for every set of graphs of stages, every amount   *)
(* of data and every number of goroutines.                                 *)
(***************************************************************************)
EXTENDS Streams, TLAPS

USE StreamsAssumption

\* Of the chosen graph: what the assumption says of all of them.
LEMMA GraphType ==
    ASSUME TypeOK
    PROVE  /\ DOMAIN graph \subseteq Stage
           /\ \A s \in DOMAIN graph :
                 /\ graph[s].kind \in Kind /\ graph[s].in \in Channel
                 /\ graph[s].outs \in Seq(Channel)
                 /\ graph[s].image \in [Element -> Seq(Element)]
                 /\ graph[s].parallelism \in Nat
                 /\ Src \notin SetOf(graph[s].outs)
                 /\ graph[s].kind # "sink" => graph[s].outs # <<>>
                 /\ graph[s].kind = "split" => Len(graph[s].outs) = 2
<1>1. topology \in DOMAIN Graphs
  BY DEF TypeOK, chosen
<1>2. QED
  BY <1>1 DEF graph, StageRecord

\* A stage sends elements, on channels of its own.
LEMMA SendsType ==
    ASSUME TypeOK, NEW s \in DOMAIN graph, NEW x \in Element,
           NEW i \in 1..Len(Sends(s, x))
    PROVE  /\ Sends(s, x)[i].el \in Element
           /\ Sends(s, x)[i].chan \in SetOf(graph[s].outs)
<1> DEFINE outs == graph[s].outs
<1>1. outs \in Seq(Channel) /\ graph[s].image[x] \in Seq(Element)
  BY GraphType
<1>2. \A k \in 1..Len(outs) : outs[k] \in SetOf(outs)
  BY <1>1 DEF SetOf
<1>3. CASE graph[s].kind \in Operator
  <2>1. Sends(s, x) = [k \in DOMAIN graph[s].image[x] |-> To(outs[1], graph[s].image[x][k])]
    BY <1>3 DEF Sends, Outputs, Transformed, Operator, Pump
  <2>2. Len(outs) >= 1
    BY <1>1, <1>3, GraphType DEF Operator
  <2>3. Len(Sends(s, x)) = Len(graph[s].image[x])
    BY <1>1, <2>1
  <2>4. i \in DOMAIN graph[s].image[x] /\ graph[s].image[x][i] \in Element
    BY <1>1, <2>3
  <2>5. QED
    BY <1>1, <1>2, <2>1, <2>2, <2>4 DEF To
<1>4. CASE graph[s].kind \in Pump
  <2>1. Sends(s, x) = <<To(outs[1], x)>>
    BY <1>4 DEF Sends, Outputs, Forwarded, Pump, Operator
  <2>2. Len(outs) >= 1
    BY <1>1, <1>4, GraphType DEF Pump
  <2>3. QED
    BY <1>1, <1>2, <2>1, <2>2 DEF To
<1>5. CASE graph[s].kind = "split"
  <2>1. \E k \in {1, 2} : Sends(s, x) = <<To(outs[k], x)>>
    BY <1>5 DEF Sends, Outputs, Split, Pump, Operator
  <2>2. Len(outs) = 2
    BY <1>5, GraphType
  <2>3. QED
    BY <1>1, <1>2, <2>1, <2>2 DEF To
<1>6. CASE graph[s].kind = "fanOut"
  <2>1. Sends(s, x) = [k \in DOMAIN outs |-> To(outs[k], x)]
    BY <1>6 DEF Sends, Outputs, FanOut, Pump, Operator
  <2>2. Len(Sends(s, x)) = Len(outs)
    BY <1>1, <2>1
  <2>3. QED
    BY <1>1, <1>2, <2>1, <2>2 DEF To
<1>7. CASE graph[s].kind = "sink"
  BY <1>7 DEF Sends, Outputs, Pump, Operator
<1>8. QED
  BY <1>3, <1>4, <1>5, <1>6, <1>7, GraphType DEF Kind

\* The next element that a goroutine of stage s sends.
LEMMA NextSendType ==
    ASSUME TypeOK, NEW s \in DOMAIN graph, NEW t \in work[s], More(s, t)
    PROVE  /\ NextSend(s, t).el \in Element
           /\ NextSend(s, t).chan \in SetOf(graph[s].outs)
<1>1. t.el \in Element /\ t.sent \in Nat
  BY GraphType DEF TypeOK
<1>2. Len(Sends(s, t.el)) \in Nat
  <2>1. graph[s].image[t.el] \in Seq(Element) /\ graph[s].outs \in Seq(Channel)
    BY <1>1, GraphType
  <2>2. CASE graph[s].kind \in Operator
    BY <2>1, <2>2 DEF Sends, Outputs, Transformed
  <2>3. CASE graph[s].kind = "fanOut"
    BY <2>1, <2>3 DEF Sends, Outputs, FanOut, Pump, Operator
  <2>4. CASE graph[s].kind \notin Operator \union {"fanOut"}
    BY <2>4 DEF Sends, Outputs, Forwarded, Split
  <2>5. QED
    BY <2>2, <2>3, <2>4
<1>3. t.sent + 1 \in 1..Len(Sends(s, t.el))
  BY <1>1, <1>2 DEF More
<1>4. QED
  BY <1>1, <1>3, SendsType DEF NextSend

\* What a stage takes keeps the types.
LEMMA TakesType ==
    ASSUME TypeOK, NEW s \in DOMAIN graph, NEW y \in Element,
           NEW w \in [Stage -> SUBSET [el : Element, sent : Nat, token : Nat]], Takes(s, y, w)
    PROVE  /\ pending' \in [Stage -> Element \union {NoElement}]
           /\ work' \in [Stage -> SUBSET [el : Element, sent : Nat, token : Nat]]
           /\ done' = done
           /\ got' \in [Stage -> Seq(Element)]
<1>1. s \in Stage
  BY GraphType
<1>2. \A e \in Seq(Element) : Append(e, y) \in Seq(Element)
  OBVIOUS
<1>3. CASE graph[s].kind \in Operator /\ pending' = [pending EXCEPT ![s] = y]
             /\ work' = w /\ UNCHANGED <<done, got>>
  BY <1>1, <1>3 DEF TypeOK
<1>4. CASE got' = [got EXCEPT ![s] = Append(@, y)] /\ work' = w /\ UNCHANGED <<pending, done>>
  BY <1>1, <1>2, <1>4 DEF TypeOK
<1>5. CASE work' = [w EXCEPT ![s] = {[el |-> y, sent |-> 0, token |-> 1]}] /\ UNCHANGED <<pending, done, got>>
  BY <1>1, <1>5 DEF TypeOK
<1>6. QED
  BY <1>3, <1>4, <1>5 DEF Takes

\* Every step keeps the types.
LEMMA TypeStep == TypeOK /\ [Next]_vars => TypeOK'
<1> SUFFICES ASSUME TypeOK, [Next]_vars PROVE TypeOK'
  OBVIOUS
<1>1. ASSUME NEW r \in Connection, Read(r) PROVE TypeOK'
  <2>1. left # <<>> /\ left \in Seq(Element)
    BY <1>1 DEF Read, TypeOK
  <2>2. Head(left) \in Element /\ Tail(left) \in Seq(Element)
    BY <2>1
  <2>3. QED
    BY <1>1, <2>2 DEF Read, TypeOK, chosen, stageVars
<1>2. ASSUME NEW r \in Connection, ReadFails(r) PROVE TypeOK'
  BY <1>2 DEF ReadFails, TypeOK, chosen, stageVars
<1>3. CASE Cancel
  BY <1>3 DEF Cancel, TypeOK, chosen, stageVars
<1>4. CASE CloseSource
  BY <1>4 DEF CloseSource, TypeOK, chosen, sourceVars, stageVars
<1>5. ASSUME NEW r \in Connection, SourcePanics(r) PROVE TypeOK'
  BY <1>5 DEF SourcePanics, TypeOK, chosen, sourceVars, stageVars
<1>6. ASSUME NEW r \in Connection, NEW s \in DOMAIN graph, SourceSends(r, s) PROVE TypeOK'
  <2>1. held[r] \in Element
    BY <1>6 DEF SourceSends, TypeOK
  <2>2. work \in [Stage -> SUBSET [el : Element, sent : Nat, token : Nat]]
    BY DEF TypeOK
  <2>3. Takes(s, held[r], work)
    BY <1>6 DEF SourceSends
  <2>4. QED
    BY <1>6, <2>1, <2>2, <2>3, TakesType DEF SourceSends, TypeOK, chosen
<1>7. ASSUME NEW s \in DOMAIN graph, Acquire(s) PROVE TypeOK'
  <2>1. s \in Stage /\ pending[s] \in Element
    BY <1>7, GraphType DEF Acquire, TypeOK
  <2>2. PICK k \in Free(s, graph[s].parallelism) : work' = Started(s, pending[s], k)
    BY <1>7 DEF Acquire
  <2>3. k \in Nat
    BY <2>1, GraphType DEF Free
  <2>4. [el |-> pending[s], sent |-> 0, token |-> k] \in [el : Element, sent : Nat, token : Nat]
    BY <2>1, <2>3
  <2>5. work' \in [Stage -> SUBSET [el : Element, sent : Nat, token : Nat]]
    BY <2>1, <2>2, <2>4 DEF Started, TypeOK
  <2>6. QED
    BY <1>7, <2>1, <2>5 DEF Acquire, TypeOK, chosen, sourceVars
<1>8. ASSUME NEW s \in DOMAIN graph, NEW t \in work[s], NEW to \in DOMAIN graph, Send(s, t, to)
      PROVE  TypeOK'
  <2>1. s \in Stage
    BY GraphType
  <2>2. t \in [el : Element, sent : Nat, token : Nat]
    BY <2>1 DEF TypeOK
  <2>3. Sent(s, t) \in [Stage -> SUBSET [el : Element, sent : Nat, token : Nat]]
    <3>1. [t EXCEPT !.sent = @ + 1] \in [el : Element, sent : Nat, token : Nat]
      BY <2>2
    <3>2. QED
      BY <2>1, <3>1 DEF Sent, TypeOK
  <2>4. NextSend(s, t).el \in Element
    BY <1>8, NextSendType DEF Send
  <2>5. Takes(to, NextSend(s, t).el, Sent(s, t))
    BY <1>8 DEF Send
  <2>6. QED
    BY <1>8, <2>3, <2>4, <2>5, TakesType DEF Send, TypeOK, chosen, sourceVars
<1>9. ASSUME NEW s \in DOMAIN graph, NEW t \in work[s], StagePanics(s, t) PROVE TypeOK'
  BY <1>9 DEF StagePanics, TypeOK, chosen, sourceVars, stageVars
<1>10. ASSUME NEW s \in DOMAIN graph, NEW t \in work[s], Finish(s, t) PROVE TypeOK'
  BY <1>10, GraphType DEF Finish, TypeOK, chosen, sourceVars
<1>11. ASSUME NEW s \in DOMAIN graph, End(s) PROVE TypeOK'
  BY <1>11, GraphType DEF End, TypeOK, chosen, sourceVars
<1>12. ASSUME NEW c \in Channel, Close(c) PROVE TypeOK'
  BY <1>12 DEF Close, TypeOK, chosen, sourceVars, stageVars
<1>13. CASE UNCHANGED vars
  BY <1>13 DEF vars, TypeOK, chosen, sourceVars, stageVars
<1>14. CASE ConnectionFails
  BY <1>14 DEF ConnectionFails, TypeOK, chosen, stageVars
<1>15. CASE RepeatedReadPanics
  BY <1>15 DEF RepeatedReadPanics, TypeOK, chosen, sourceVars, stageVars
<1>16. QED
  BY <1>1, <1>2, <1>3, <1>4, <1>5, <1>6, <1>7, <1>8, <1>9, <1>10, <1>11, <1>12, <1>13,
     <1>14, <1>15
     DEF Next, SourceStep, StageStep

\* The initial states are well typed.
LEMMA TypeInit == Init => TypeOK
<1> SUFFICES ASSUME Init PROVE TypeOK
  OBVIOUS
<1>1. chosen \in Setups
  <2>1. PICK setup \in Setups : topology = setup[1] /\ source = setup[2]
    BY DEF Init
  <2>2. setup = <<setup[1], setup[2]>>
    BY <2>1
  <2>3. QED
    BY <2>1, <2>2 DEF chosen
<1>2. held \in [Connection -> Element \union {NoElement}]
      /\ pending \in [Stage -> Element \union {NoElement}]
  BY DEF Init
<1>3. work \in [Stage -> SUBSET [el : Element, sent : Nat, token : Nat]]
  BY DEF Init
<1>4. got \in [Stage -> Seq(Element)]
  BY DEF Init
<1>5. left \in Seq(Element) /\ errors \in Nat /\ cancelled \in BOOLEAN /\ crashed \in BOOLEAN
      /\ closed \subseteq Channel /\ done \subseteq Stage
  BY DEF Init
<1>6. QED
  BY <1>1, <1>2, <1>3, <1>4, <1>5 DEF TypeOK

\* Every reachable state is well typed: whatever a goroutine holds is an element.
THEOREM TypeCorrect == Spec => []TypeOK
BY TypeInit, TypeStep, PTL DEF Spec

-----------------------------------------------------------------------------
(***************************************************************************)
(* Channels are closed behind those that write to them.                    *)
(***************************************************************************)

\* A stage that has ended neither receives nor has anything to send.
LEMMA ClosedStep ==
    TypeOK /\ ClosedBehindWriters /\ [Next]_vars => ClosedBehindWriters'
<1> SUFFICES ASSUME TypeOK, ClosedBehindWriters, [Next]_vars PROVE ClosedBehindWriters'
  OBVIOUS
<1>1. ASSUME UNCHANGED <<topology, closed, pending, work, done>> PROVE ClosedBehindWriters'
  BY <1>1 DEF ClosedBehindWriters, Writers, graph
<1>2. CASE CloseSource
  BY <1>2 DEF CloseSource, ClosedBehindWriters, Writers, graph, chosen, stageVars
<1>3. ASSUME NEW r \in Connection, NEW s \in DOMAIN graph, SourceSends(r, s)
      PROVE  ClosedBehindWriters'
  <2>1. s \notin done /\ s \in Stage /\ UNCHANGED <<topology, closed>>
    BY <1>3, GraphType DEF SourceSends, Receives, chosen
  <2>2. done' = done /\ \A u \in Stage \ {s} : pending'[u] = pending[u] /\ work'[u] = work[u]
    BY <1>3, <2>1 DEF SourceSends, Takes, TypeOK
  <2>3. QED
    BY <2>1, <2>2, GraphType DEF ClosedBehindWriters, Writers, graph
<1>4. ASSUME NEW s \in DOMAIN graph, Acquire(s) PROVE ClosedBehindWriters'
  BY <1>4, GraphType DEF Acquire, Started, ClosedBehindWriters, Writers, graph, chosen, sourceVars, TypeOK
<1>5. ASSUME NEW s \in DOMAIN graph, NEW t \in work[s], NEW to \in DOMAIN graph, Send(s, t, to)
      PROVE  ClosedBehindWriters'
  <2>1. to \notin done /\ s \notin done /\ {s, to} \subseteq Stage /\ UNCHANGED <<topology, closed>>
    BY <1>5, GraphType DEF Send, Receives, chosen, ClosedBehindWriters
  <2>2. \A u \in Stage \ {s} : Sent(s, t)[u] = work[u]
    BY DEF Sent, TypeOK
  <2>3. DOMAIN Sent(s, t) = Stage
    BY <2>1 DEF Sent, TypeOK
  <2>4. done' = done /\ \A u \in Stage \ {s, to} : pending'[u] = pending[u] /\ work'[u] = work[u]
    BY <1>5, <2>1, <2>2, <2>3 DEF Send, Takes, TypeOK
  <2>5. QED
    BY <2>1, <2>4, GraphType DEF ClosedBehindWriters, Writers, graph
<1>6. ASSUME NEW s \in DOMAIN graph, NEW t \in work[s], Finish(s, t) PROVE ClosedBehindWriters'
  BY <1>6, GraphType DEF Finish, ClosedBehindWriters, Writers, graph, chosen, sourceVars, TypeOK
<1>7. ASSUME NEW s \in DOMAIN graph, End(s) PROVE ClosedBehindWriters'
  BY <1>7 DEF End, ClosedBehindWriters, Writers, graph, chosen
<1>8. ASSUME NEW c \in Channel, Close(c) PROVE ClosedBehindWriters'
  BY <1>8 DEF Close, ClosedBehindWriters, Writers, graph, chosen, stageVars
<1>9. QED
  BY <1>1, <1>2, <1>3, <1>4, <1>5, <1>6, <1>7, <1>8
     DEF Next, SourceStep, StageStep, Read, ReadFails, Cancel, ConnectionFails,
         RepeatedReadPanics, SourcePanics, StagePanics, vars, chosen, stageVars

\* A channel is closed only behind all the stages that send to it, each of which has
\* then nothing in hand and its own input closed (the deferred close of flow/*.go).
THEOREM AlwaysClosedBehindWriters == Spec => []ClosedBehindWriters
<1>1. Init => ClosedBehindWriters
  BY DEF Init, ClosedBehindWriters
<1>2. QED
  BY <1>1, ClosedStep, TypeCorrect, PTL DEF Spec

-----------------------------------------------------------------------------
(***************************************************************************)
(* Panics.                                                                 *)
(***************************************************************************)

\* The channel of a source is closed by the goroutine that sends, which then holds
\* nothing and reads no more, or else at the end of the context.
SourceInv ==
    /\ \A r \in Connection : held[r] # NoElement => r \in Reader
    /\ source = "webSocket" /\ errors > 0 => \A r \in Connection : held[r] = NoElement
    /\ Src \in closed =>
          IF source \in {"kafka", "net"} THEN cancelled
                                        ELSE \A r \in Connection : held[r] = NoElement

\* Every step keeps what the source owes its channel.
LEMMA SourceStepKeeps ==
    TypeOK /\ SourceInv /\ [Next]_vars => SourceInv'
<1> SUFFICES ASSUME TypeOK, SourceInv, [Next]_vars PROVE SourceInv'
  OBVIOUS
<1> USE DEF SourceInv, Reader, TypeOK
<1>1. ASSUME NEW r \in Connection, Read(r) PROVE SourceInv'
  BY <1>1 DEF Read, ReadsOn, chosen
<1>2. ASSUME NEW r \in Connection, ReadFails(r) PROVE SourceInv'
  BY <1>2 DEF ReadFails, chosen
<1>3. CASE Cancel \/ ConnectionFails
  BY <1>3 DEF Cancel, ConnectionFails, chosen
<1>4. CASE CloseSource
  BY <1>4 DEF CloseSource, EndOfLoop, ClosedFromOutside, chosen, sourceVars
<1>5. ASSUME NEW r \in Connection, NEW s \in DOMAIN graph, SourceSends(r, s) PROVE SourceInv'
  BY <1>5 DEF SourceSends, chosen
<1>6. ASSUME NEW c \in Channel, c # Src, Close(c) PROVE SourceInv'
  BY <1>6 DEF Close, chosen, sourceVars
<1>7. ASSUME Close(Src) PROVE FALSE
  BY <1>7, GraphType DEF Close, Writers
<1>8. ASSUME UNCHANGED <<topology, source, held, errors, cancelled, closed>> PROVE SourceInv'
  BY <1>8
<1>9. QED
  BY <1>1, <1>2, <1>3, <1>4, <1>5, <1>6, <1>7, <1>8
     DEF Next, SourceStep, StageStep, SourcePanics, RepeatedReadPanics, Acquire, Send,
         StagePanics, Finish, End, vars, chosen, sourceVars

\* No stage ever sends on a closed channel.
LEMMA StagesDoNotPanic ==
    ASSUME TypeOK, ClosedBehindWriters, NEW s \in DOMAIN graph, NEW t \in work[s],
           StagePanics(s, t)
    PROVE  FALSE
<1> DEFINE c == NextSend(s, t).chan
<1>1. c \in closed /\ c \in SetOf(graph[s].outs)
  BY NextSendType DEF StagePanics
<1>2. s \in Writers(graph, c) /\ c # Src
  BY <1>1, GraphType DEF Writers
<1>3. QED
  BY <1>1, <1>2 DEF ClosedBehindWriters

\* Only the shutdown of a Kafka or a net source, or a web socket that is read after it has
\* failed, makes a goroutine panic.
LEMMA PanicStep ==
    TypeOK /\ ClosedBehindWriters /\ SourceInv /\ PanicsOnlyInSources /\ [Next]_vars
        => PanicsOnlyInSources'
<1> SUFFICES ASSUME TypeOK, ClosedBehindWriters, SourceInv, PanicsOnlyInSources, [Next]_vars
             PROVE  PanicsOnlyInSources'
  OBVIOUS
<1>1. ASSUME NEW r \in Connection, SourcePanics(r) PROVE PanicsOnlyInSources'
  BY <1>1 DEF SourcePanics, SourceInv, PanicsOnlyInSources, chosen, sourceVars
<1>2. ASSUME NEW s \in DOMAIN graph, NEW t \in work[s], StagePanics(s, t)
      PROVE  PanicsOnlyInSources'
  BY <1>2, StagesDoNotPanic
<1>3. ASSUME ~crashed, crashed' = crashed PROVE PanicsOnlyInSources'
  BY <1>3 DEF PanicsOnlyInSources
<1>4. CASE UNCHANGED vars
  BY <1>4 DEF vars, chosen, sourceVars, PanicsOnlyInSources
<1>5. CASE RepeatedReadPanics
  BY <1>5 DEF RepeatedReadPanics, SourceInv, PanicsOnlyInSources, chosen, sourceVars
<1>6. QED
  BY <1>1, <1>2, <1>3, <1>4, <1>5
     DEF Next, SourceStep, StageStep, Read, ReadFails, Cancel, ConnectionFails, CloseSource,
         SourceSends, Acquire, Send, Finish, End, Close

\* Whatever the graph and the parallelism, only a Kafka or a net source that is shut
\* down in the middle of a send panics (connector/kafka.go, connector/extension/net.go), and
\* a web socket that has failed (ws/web_socket.go).
THEOREM PanicsOnlyThere == Spec => []PanicsOnlyInSources
<1>1. Init => SourceInv /\ PanicsOnlyInSources
  BY DEF Init, SourceInv, PanicsOnlyInSources
<1>2. Spec => []SourceInv
  BY <1>1, SourceStepKeeps, TypeCorrect, PTL DEF Spec
<1>3. QED
  BY <1>1, <1>2, PanicStep, TypeCorrect, AlwaysClosedBehindWriters, PTL DEF Spec

-----------------------------------------------------------------------------
(***************************************************************************)
(* Facts that the invariants about the elements share.                     *)
(***************************************************************************)

\* What a stage sends for an element is a sequence.
LEMMA SendsLength ==
    ASSUME TypeOK, NEW s \in DOMAIN graph, NEW x \in Element
    PROVE  Len(Sends(s, x)) \in Nat /\ DOMAIN Sends(s, x) = 1..Len(Sends(s, x))
<1>1. graph[s].image[x] \in Seq(Element) /\ graph[s].outs \in Seq(Channel)
  BY GraphType
<1>2. CASE graph[s].kind \in Operator
  BY <1>1, <1>2 DEF Sends, Outputs, Transformed
<1>3. CASE graph[s].kind = "fanOut"
  <2>1. Sends(s, x) = [k \in DOMAIN graph[s].outs |-> To(graph[s].outs[k], x)]
    BY <1>3 DEF Sends, Outputs, FanOut, Pump, Operator
  <2>2. QED
    BY <1>1, <2>1
<1>4. CASE graph[s].kind \in Pump
  <2>1. Sends(s, x) = <<To(graph[s].outs[1], x)>>
    BY <1>4 DEF Sends, Outputs, Forwarded, Pump, Operator
  <2>2. QED
    BY <2>1
<1>5. CASE graph[s].kind = "split"
  BY <1>5 DEF Sends, Outputs, Split, Pump, Operator
<1>6. CASE graph[s].kind = "sink"
  BY <1>6 DEF Sends, Outputs, Pump, Operator
<1>7. QED
  BY <1>2, <1>3, <1>4, <1>5, <1>6, GraphType DEF Kind

\* The steps that move elements; all others leave them where they are.
LEMMA MovingSteps ==
    ASSUME [Next]_vars
    PROVE  \/ \E r \in Connection :
                  Read(r) \/ ReadFails(r) \/ \E s \in DOMAIN graph : SourceSends(r, s)
           \/ \E s \in DOMAIN graph :
                  \/ Acquire(s)
                  \/ \E t \in work[s] : Finish(s, t) \/ \E to \in DOMAIN graph : Send(s, t, to)
           \/ UNCHANGED <<topology, source, left, held, pending, work, got>>
BY DEF Next, SourceStep, StageStep, Cancel, ConnectionFails, RepeatedReadPanics, CloseSource,
       SourcePanics, StagePanics, End, Close, vars, chosen, sourceVars, stageVars

\* The graph stays, and with it all that is said of it alone.
LEMMA GraphStays ==
    ASSUME [Next]_vars
    PROVE  UNCHANGED <<topology, source, chosen, graph>>
<1>1. UNCHANGED <<topology, source>>
  BY DEF Next, SourceStep, StageStep, Read, ReadFails, Cancel, ConnectionFails,
         RepeatedReadPanics, CloseSource, SourcePanics, SourceSends, Acquire, Send,
         StagePanics, Finish, End, Close, vars, chosen
<1>2. QED
  BY <1>1 DEF chosen, graph

\* What the taking of y does, by the kind of the stage that takes it.
LEMMA Taking ==
    ASSUME TypeOK, NEW s \in DOMAIN graph, NEW y \in Element,
           NEW w \in [Stage -> SUBSET [el : Element, sent : Nat, token : Nat]], Takes(s, y, w)
    PROVE  /\ \A u \in DOMAIN graph \ {s} :
                  pending'[u] = pending[u] /\ work'[u] = w[u] /\ got'[u] = got[u]
           /\ \/ /\ graph[s].kind \in Operator
                 /\ pending'[s] = y /\ work'[s] = w[s] /\ got'[s] = got[s]
              \/ /\ graph[s].kind = "sink"
                 /\ pending'[s] = pending[s] /\ work'[s] = w[s] /\ got'[s] = Append(got[s], y)
              \/ /\ graph[s].kind \in Pump \union {"split", "fanOut"}
                 /\ pending'[s] = pending[s] /\ got'[s] = got[s]
                 /\ work'[s] = {[el |-> y, sent |-> 0, token |-> 1]}
<1>1. DOMAIN graph \subseteq Stage
  BY GraphType
<1>2. CASE graph[s].kind \in Operator /\ pending' = [pending EXCEPT ![s] = y]
             /\ work' = w /\ UNCHANGED <<done, got>>
  BY <1>1, <1>2 DEF TypeOK
<1>3. CASE graph[s].kind = "sink" /\ got' = [got EXCEPT ![s] = Append(@, y)]
             /\ work' = w /\ UNCHANGED <<pending, done>>
  BY <1>1, <1>3 DEF TypeOK
<1>4. CASE graph[s].kind \in Pump \union {"split", "fanOut"}
             /\ work' = [w EXCEPT ![s] = {[el |-> y, sent |-> 0, token |-> 1]}]
             /\ UNCHANGED <<pending, done, got>>
  BY <1>1, <1>4 DEF TypeOK
<1>5. QED
  BY <1>2, <1>3, <1>4 DEF Takes

\* What the sending of an output leaves to stage s.
LEMMA Sending ==
    ASSUME TypeOK, NEW s \in DOMAIN graph, NEW t \in work[s]
    PROVE  /\ t \in [el : Element, sent : Nat, token : Nat]
           /\ Sent(s, t) \in [Stage -> SUBSET [el : Element, sent : Nat, token : Nat]]
           /\ Sent(s, t)[s] = (work[s] \ {t}) \union {[t EXCEPT !.sent = @ + 1]}
           /\ \A u \in DOMAIN graph \ {s} : Sent(s, t)[u] = work[u]
<1>1. s \in Stage /\ DOMAIN graph \subseteq Stage
  BY GraphType
<1>2. t \in [el : Element, sent : Nat, token : Nat]
  BY <1>1 DEF TypeOK
<1>3. [t EXCEPT !.sent = @ + 1] \in [el : Element, sent : Nat, token : Nat]
  BY <1>2
<1>4. QED
  BY <1>1, <1>2, <1>3 DEF Sent, TypeOK

\* left is what was not read yet, so that a source reads the data in order.
LEMMA LeftStep == TypeOK /\ LeftIsRest /\ [Next]_vars => LeftIsRest'
<1> SUFFICES ASSUME TypeOK, LeftIsRest, [Next]_vars PROVE LeftIsRest'
  OBVIOUS
<1>1. ASSUME NEW r \in Connection, Read(r) PROVE LeftIsRest'
  <2>1. left \in Seq(Element) /\ left # <<>> /\ left' = Tail(left)
    BY <1>1 DEF Read, TypeOK
  <2>2. Len(left') = Len(left) - 1 /\ \A i \in DOMAIN left' : i + 1 \in DOMAIN left /\ left'[i] = left[i + 1]
    BY <2>1
  <2>3. Len(Data) \in Nat /\ Len(left) \in Nat /\ DOMAIN left' = 1..(Len(left) - 1)
    BY <2>1
  <2>4. QED
    BY <2>1, <2>2, <2>3 DEF LeftIsRest
<1>2. ASSUME left' = left PROVE LeftIsRest'
  BY <1>2 DEF LeftIsRest
<1>3. QED
  BY <1>1, <1>2, MovingSteps DEF ReadFails, SourceSends, Acquire, Finish, Send, sourceVars

\* What a read reads, and what is left then.
LEMMA Reading ==
    ASSUME TypeOK, LeftIsRest, NEW r \in Connection, Read(r)
    PROVE  LET k == Len(Data) - Len(left) + 1
           IN  /\ k \in DOMAIN Data /\ k \notin WasRead
               /\ WasRead' = WasRead \union {k} /\ WasRead \subseteq DOMAIN Data
               /\ held[r] = NoElement /\ held' = [held EXCEPT ![r] = Data[k]]
<1>1. left \in Seq(Element) /\ left # <<>> /\ left' = Tail(left)
  BY DEF Read, TypeOK
<1>2. Len(left) \in Nat \ {0} /\ Len(left') = Len(left) - 1 /\ 1 \in DOMAIN left
  BY <1>1
<1>3. Head(left) = left[1] /\ left[1] = Data[Len(Data) - Len(left) + 1]
  BY <1>1, <1>2 DEF LeftIsRest
<1>4. Len(Data) \in Nat /\ DOMAIN Data = 1..Len(Data) /\ Len(left) <= Len(Data)
  BY DEF LeftIsRest
<1>5. held[r] = NoElement /\ held' = [held EXCEPT ![r] = Data[Len(Data) - Len(left) + 1]]
  BY <1>3, <1>1 DEF Read
<1>6. WasRead' = 1..(Len(Data) - Len(left) + 1)
  BY <1>2, <1>4 DEF WasRead
<1>7. QED
  BY <1>2, <1>4, <1>5, <1>6 DEF WasRead

-----------------------------------------------------------------------------
(***************************************************************************)
(* Tokens, and what there can be on each channel.                          *)
(***************************************************************************)

\* The goroutines of an operator have different tokens of its semaphore, and so an
\* element in work is one of its own.
LEMMA TokensStep == TypeOK /\ TokensDiffer /\ [Next]_vars => TokensDiffer'
<1> SUFFICES ASSUME TypeOK, TokensDiffer, [Next]_vars PROVE TokensDiffer'
  OBVIOUS
<1> DEFINE Good(s, W) ==
      /\ \A t, u \in W : t.token = u.token => t = u
      /\ \A t \in W : t.token \in Tokens(s)
<1>1. \A s \in DOMAIN graph : Good(s, work[s])
  BY DEF TokensDiffer
<1>0. \A s \in DOMAIN graph : pending'[s] # NoElement => graph[s].kind \in Operator
  <2>1. ASSUME NEW s \in DOMAIN graph, NEW y \in Element,
               NEW w \in [Stage -> SUBSET [el : Element, sent : Nat, token : Nat]], Takes(s, y, w)
        PROVE  \A u \in DOMAIN graph : pending'[u] # NoElement => graph[u].kind \in Operator
    BY <2>1, Taking DEF TokensDiffer
  <2>2. ASSUME NEW r \in Connection, NEW s \in DOMAIN graph, SourceSends(r, s)
        PROVE  \A u \in DOMAIN graph : pending'[u] # NoElement => graph[u].kind \in Operator
    <3>1. held[r] \in Element /\ Takes(s, held[r], work)
      BY <2>2 DEF SourceSends, TypeOK
    <3>2. QED
      BY <2>1, <3>1 DEF TypeOK
  <2>3. ASSUME NEW s \in DOMAIN graph, NEW t \in work[s], NEW to \in DOMAIN graph, Send(s, t, to)
        PROVE  \A u \in DOMAIN graph : pending'[u] # NoElement => graph[u].kind \in Operator
    <3>1. NextSend(s, t).el \in Element /\ Takes(to, NextSend(s, t).el, Sent(s, t))
      BY <2>3, NextSendType DEF Send
    <3>2. QED
      BY <2>1, <3>1, Sending
  <2>4. ASSUME NEW s \in DOMAIN graph, Acquire(s)
        PROVE  \A u \in DOMAIN graph : pending'[u] # NoElement => graph[u].kind \in Operator
    BY <2>4, GraphType DEF Acquire, TokensDiffer, TypeOK
  <2>5. CASE pending' = pending
    BY <2>5 DEF TokensDiffer
  <2>6. QED
    BY <2>2, <2>3, <2>4, <2>5, MovingSteps DEF Read, ReadFails, Finish, stageVars
<1>2. ASSUME \A s \in DOMAIN graph : Good(s, work'[s]) PROVE TokensDiffer'
  <2>1. \A s : Tokens(s)' = Tokens(s)
    BY GraphStays DEF Tokens
  <2>2. QED
    BY <1>0, <1>2, <2>1, GraphStays DEF TokensDiffer
<1>3. ASSUME NEW s \in DOMAIN graph, NEW y \in Element,
             NEW w \in [Stage -> SUBSET [el : Element, sent : Nat, token : Nat]],
             Takes(s, y, w), \A u \in DOMAIN graph : Good(u, w[u])
      PROVE  \A u \in DOMAIN graph : Good(u, work'[u])
  <2>1. graph[s].kind \in Pump \union {"split", "fanOut"}
          => Good(s, {[el |-> y, sent |-> 0, token |-> 1]})
    BY DEF Tokens, Pump, Operator
  <2>2. \A u \in DOMAIN graph \ {s} : work'[u] = w[u]
    BY <1>3, Taking
  <2>3. \/ work'[s] = w[s]
        \/ /\ graph[s].kind \in Pump \union {"split", "fanOut"}
           /\ work'[s] = {[el |-> y, sent |-> 0, token |-> 1]}
    BY <1>3, Taking
  <2>4. QED
    BY <1>3, <2>1, <2>2, <2>3
<1>4. ASSUME NEW r \in Connection, NEW s \in DOMAIN graph, SourceSends(r, s) PROVE TokensDiffer'
  <2>1. held[r] \in Element /\ Takes(s, held[r], work)
    BY <1>4 DEF SourceSends, TypeOK
  <2>2. QED
    BY <1>1, <1>2, <1>3, <2>1 DEF TypeOK
<1>5. ASSUME NEW s \in DOMAIN graph, Acquire(s) PROVE TokensDiffer'
  <2>1. PICK k \in Free(s, graph[s].parallelism) : work' = Started(s, pending[s], k)
    BY <1>5 DEF Acquire
  <2>2. k \in Tokens(s) /\ \A t \in work[s] : t.token # k
    BY <1>5 DEF Free, Tokens, TokensDiffer, Acquire
  <2>3. /\ work'[s] = work[s] \union {[el |-> pending[s], sent |-> 0, token |-> k]}
        /\ \A u \in DOMAIN graph \ {s} : work'[u] = work[u]
    BY <2>1, GraphType DEF Started, TypeOK
  <2>4. Good(s, work'[s])
    BY <1>1, <2>2, <2>3
  <2>5. QED
    BY <1>1, <1>2, <2>3, <2>4
<1>6. ASSUME NEW s \in DOMAIN graph, NEW t \in work[s], NEW to \in DOMAIN graph, Send(s, t, to)
      PROVE  TokensDiffer'
  <2>1. NextSend(s, t).el \in Element /\ Takes(to, NextSend(s, t).el, Sent(s, t))
    BY <1>6, NextSendType DEF Send
  <2> DEFINE rest == [t EXCEPT !.sent = @ + 1]
  <2>2. Sent(s, t)[s] = (work[s] \ {t}) \union {rest} /\ rest.token = t.token
    BY Sending
  <2>3. Good(s, Sent(s, t)[s])
    <3> HIDE DEF rest
    <3>1. Good(s, work[s])
      BY <1>1
    <3>2. QED
      BY <2>2, <3>1
  <2>4. \A u \in DOMAIN graph : Good(u, Sent(s, t)[u])
    BY <1>1, <2>3, Sending
  <2>5. Sent(s, t) \in [Stage -> SUBSET [el : Element, sent : Nat, token : Nat]]
    BY Sending
  <2>6. QED
    BY <1>2, <1>3, <2>1, <2>4, <2>5
<1>7. ASSUME NEW s \in DOMAIN graph, NEW t \in work[s], Finish(s, t) PROVE TokensDiffer'
  <2>1. \A u \in DOMAIN graph : work'[u] \subseteq work[u]
    BY <1>7, GraphType DEF Finish, TypeOK
  <2>2. QED
    BY <1>1, <1>2, <2>1
<1>8. CASE work' = work
  BY <1>1, <1>2, <1>8
<1>9. QED
  BY <1>4, <1>5, <1>6, <1>7, <1>8, MovingSteps DEF Read, ReadFails, stageVars

\* What a stage makes of what may come to it may come on.
LEMMA YieldIsClosed ==
    ASSUME TypeOK, NEW s \in DOMAIN graph, NEW x \in Yield[chosen][graph[s].in],
           NEW i \in 1..Len(Sends(s, x))
    PROVE  Sends(s, x)[i].el \in Yield[chosen][Sends(s, x)[i].chan]
<1>1. chosen \in Setups /\ graph = Graphs[chosen[1]]
  BY DEF TypeOK, graph, chosen
<1>2. x \in Element
  BY <1>1, YieldAssumption, GraphType
<1>3. i \in DOMAIN Outputs(graph[s], x)
  BY <1>2, SendsLength DEF Sends
<1>4. QED
  BY <1>1, <1>3, YieldAssumption DEF Sends

\* What Yield has are elements, and the data are among them.
LEMMA YieldType ==
    ASSUME TypeOK, NEW s \in DOMAIN graph
    PROVE  /\ Yield[chosen][graph[s].in] \subseteq Element
           /\ SetOf(Data) \subseteq Yield[chosen][Src]
           /\ source = "kafka" => Zero \in Yield[chosen][Src]
<1>1. chosen \in Setups /\ graph = Graphs[chosen[1]] /\ source = chosen[2]
  BY DEF TypeOK, graph, chosen
<1>2. Yield[chosen] \in [Channel -> SUBSET Element] /\ graph[s].in \in Channel
  BY <1>1, YieldAssumption, GraphType
<1>3. QED
  BY <1>1, <1>2, YieldAssumption

\* What is received comes behind what was received before.
LEMMA Appended ==
    ASSUME NEW seq \in Seq(Element), NEW y \in Element
    PROVE  /\ SetOf(Append(seq, y)) = SetOf(seq) \union {y}
           /\ DOMAIN Append(seq, y) = DOMAIN seq \union {Len(seq) + 1}
           /\ Append(seq, y)[Len(seq) + 1] = y
           /\ \A i \in DOMAIN seq : Append(seq, y)[i] = seq[i] /\ i < Len(seq) + 1
<1>1. /\ Len(seq) \in Nat /\ DOMAIN seq = 1..Len(seq)
      /\ DOMAIN Append(seq, y) = 1..(Len(seq) + 1)
      /\ Append(seq, y)[Len(seq) + 1] = y
      /\ \A i \in 1..Len(seq) : Append(seq, y)[i] = seq[i]
  OBVIOUS
<1>2. DOMAIN Append(seq, y) = DOMAIN seq \union {Len(seq) + 1}
  BY <1>1
<1> DEFINE more == Append(seq, y)
<1> HIDE DEF more
<1>3. SetOf(more) = SetOf(seq) \union {y}
  BY <1>1, <1>2 DEF SetOf, more
<1>4. QED
  BY <1>1, <1>2, <1>3 DEF more

\* What the taking of y, which may come to stage s, brings about.
LEMMA TakesYield ==
    ASSUME TypeOK, NothingInvented, [Next]_vars, NEW s \in DOMAIN graph,
           NEW y \in Yield[chosen][graph[s].in],
           NEW w \in [Stage -> SUBSET [el : Element, sent : Nat, token : Nat]], Takes(s, y, w),
           \A u \in DOMAIN graph : \A t \in w[u] : t.el \in Yield[chosen][graph[u].in],
           \A r \in Connection : held'[r] # NoElement => held'[r] \in Yield[chosen][Src]
    PROVE  NothingInvented'
<1>1. y \in Element
  BY YieldType
<1>2. \A u \in DOMAIN graph \ {s} :
          pending'[u] = pending[u] /\ work'[u] = w[u] /\ got'[u] = got[u]
  BY <1>1, Taking
<1>3. /\ pending'[s] = y \/ pending'[s] = pending[s]
      /\ work'[s] = w[s] \/ work'[s] = {[el |-> y, sent |-> 0, token |-> 1]}
      /\ got'[s] = got[s] \/ got'[s] = Append(got[s], y)
  BY <1>1, Taking
<1>4. SetOf(Append(got[s], y)) = SetOf(got[s]) \union {y}
  <2>1. got[s] \in Seq(Element)
    BY GraphType DEF TypeOK
  <2>2. QED
    BY <1>1, <2>1, Appended
<1>5. \A u \in DOMAIN graph :
          /\ pending'[u] # NoElement => pending'[u] \in Yield[chosen][graph[u].in]
          /\ \A t \in work'[u] : t.el \in Yield[chosen][graph[u].in]
          /\ SetOf(got'[u]) \subseteq Yield[chosen][graph[u].in]
  <2> SUFFICES ASSUME NEW u \in DOMAIN graph
               PROVE  /\ pending'[u] # NoElement => pending'[u] \in Yield[chosen][graph[u].in]
                      /\ \A t \in work'[u] : t.el \in Yield[chosen][graph[u].in]
                      /\ SetOf(got'[u]) \subseteq Yield[chosen][graph[u].in]
    OBVIOUS
  <2>1. /\ pending[u] # NoElement => pending[u] \in Yield[chosen][graph[u].in]
        /\ \A t \in w[u] : t.el \in Yield[chosen][graph[u].in]
        /\ SetOf(got[u]) \subseteq Yield[chosen][graph[u].in]
    BY DEF NothingInvented
  <2>2. CASE u # s
    BY <1>2, <2>1, <2>2
  <2>3. CASE u = s
    <3>1. \A t \in {[el |-> y, sent |-> 0, token |-> 1]} : t.el = y
      OBVIOUS
    <3>2. SetOf(got'[s]) \subseteq SetOf(got[s]) \union {y}
      BY <1>3, <1>4
    <3>3. \A t \in work'[s] : t \in w[s] \/ t.el = y
      BY <1>3, <3>1
    <3>4. QED
      BY <1>3, <2>1, <2>3, <3>2, <3>3
  <2>4. QED
    BY <2>2, <2>3
<1>6. QED
  BY <1>5, GraphStays DEF NothingInvented

\* Every step keeps to what Yield allows.
LEMMA NothingInventedStep == TypeOK /\ LeftIsRest /\ NothingInvented /\ [Next]_vars => NothingInvented'
<1> SUFFICES ASSUME TypeOK, LeftIsRest, NothingInvented, [Next]_vars PROVE NothingInvented'
  OBVIOUS
<1>1. ASSUME UNCHANGED <<pending, work, got>>,
             \A r \in Connection : held'[r] # NoElement => held'[r] \in Yield[chosen][Src]
      PROVE  NothingInvented'
  BY <1>1, GraphStays DEF NothingInvented
<1>2. ASSUME NEW r \in Connection, Read(r) PROVE NothingInvented'
  <2>1. PICK k \in DOMAIN Data : held' = [held EXCEPT ![r] = Data[k]]
    BY <1>2, Reading
  <2>2. Data[k] \in Yield[chosen][Src]
    BY YieldAssumption DEF SetOf, TypeOK
  <2>3. QED
    BY <1>1, <1>2, <2>1, <2>2 DEF Read, NothingInvented, stageVars, TypeOK
<1>3. ASSUME NEW r \in Connection, ReadFails(r) PROVE NothingInvented'
  <2>1. Zero \in Yield[chosen][Src]
    BY <1>3, YieldAssumption DEF ReadFails, TypeOK, chosen
  <2>2. QED
    BY <1>1, <1>3, <2>1 DEF ReadFails, NothingInvented, stageVars, TypeOK
<1>4. ASSUME NEW r \in Connection, NEW s \in DOMAIN graph, SourceSends(r, s)
      PROVE  NothingInvented'
  <2>1. held[r] \in Yield[chosen][graph[s].in] /\ Takes(s, held[r], work)
    BY <1>4 DEF SourceSends, Receives, NothingInvented
  <2>2. \A q \in Connection : held'[q] # NoElement => held'[q] \in Yield[chosen][Src]
    BY <1>4 DEF SourceSends, NothingInvented, TypeOK
  <2>3. /\ work \in [Stage -> SUBSET [el : Element, sent : Nat, token : Nat]]
        /\ \A u \in DOMAIN graph : \A t \in work[u] : t.el \in Yield[chosen][graph[u].in]
    BY DEF TypeOK, NothingInvented
  <2>4. QED
    BY <2>1, <2>2, <2>3, TakesYield
<1>5. ASSUME NEW s \in DOMAIN graph, Acquire(s) PROVE NothingInvented'
  <2>1. PICK k : work' = Started(s, pending[s], k)
    BY <1>5 DEF Acquire
  <2>2. /\ work'[s] = work[s] \union {[el |-> pending[s], sent |-> 0, token |-> k]}
        /\ \A u \in DOMAIN graph \ {s} : work'[u] = work[u]
    BY <2>1, GraphType DEF Started, TypeOK
  <2>3. \A u \in DOMAIN graph : pending'[u] \in {pending[u], NoElement}
    BY <1>5, GraphType DEF Acquire, TypeOK
  <2>4. UNCHANGED <<held, got>> /\ pending[s] # NoElement
    BY <1>5 DEF Acquire, sourceVars
  <2>5. \A u \in DOMAIN graph : \A t \in work'[u] : t.el \in Yield[chosen][graph[u].in]
    BY <2>2, <2>4 DEF NothingInvented
  <2>6. \A u \in DOMAIN graph :
            pending'[u] # NoElement => pending'[u] \in Yield[chosen][graph[u].in]
    BY <2>3 DEF NothingInvented
  <2>7. QED
    BY <2>4, <2>5, <2>6, GraphStays DEF NothingInvented
<1>6. ASSUME NEW s \in DOMAIN graph, NEW t \in work[s], NEW to \in DOMAIN graph, Send(s, t, to)
      PROVE  NothingInvented'
  <2> DEFINE out == NextSend(s, t)
  <2>1. t.el \in Yield[chosen][graph[s].in]
    BY DEF NothingInvented
  <2>2. t.sent + 1 \in 1..Len(Sends(s, t.el))
    <3>1. t.el \in Element /\ t.sent \in Nat
      BY Sending
    <3>2. QED
      BY <1>6, <3>1, SendsLength DEF Send, More
  <2>3. out.el \in Yield[chosen][graph[to].in]
    BY <1>6, <2>1, <2>2, YieldIsClosed DEF Send, Receives, NextSend
  <2>4. \A u \in DOMAIN graph : \A x \in Sent(s, t)[u] : x.el \in Yield[chosen][graph[u].in]
    BY <2>1, Sending DEF NothingInvented
  <2>5. Takes(to, out.el, Sent(s, t)) /\ held' = held
    BY <1>6 DEF Send, sourceVars
  <2>6. Sent(s, t) \in [Stage -> SUBSET [el : Element, sent : Nat, token : Nat]]
    BY Sending
  <2>7. \A r \in Connection : held'[r] # NoElement => held'[r] \in Yield[chosen][Src]
    BY <2>5 DEF NothingInvented
  <2>8. QED
    BY <2>3, <2>4, <2>5, <2>6, <2>7, TakesYield
<1>7. ASSUME NEW s \in DOMAIN graph, NEW t \in work[s], Finish(s, t) PROVE NothingInvented'
  <2>1. \A u \in DOMAIN graph : work'[u] \subseteq work[u]
    BY <1>7, GraphType DEF Finish, TypeOK
  <2>2. UNCHANGED <<held, pending, got>>
    BY <1>7 DEF Finish, sourceVars
  <2>3. QED
    BY <2>1, <2>2, GraphStays DEF NothingInvented
<1>8. CASE UNCHANGED <<held, pending, work, got>>
  BY <1>1, <1>8 DEF NothingInvented
<1>9. QED
  BY <1>2, <1>3, <1>4, <1>5, <1>6, <1>7, <1>8, MovingSteps

-----------------------------------------------------------------------------
(***************************************************************************)
(* What every way of an element ends in.                                   *)
(***************************************************************************)

\* A trace goes on behind every stage but a sink.
LEMMA TraceGoesOn ==
    ASSUME TypeOK, NEW trace \in Traces[topology], NEW s \in DOMAIN graph, NEW x \in Element,
           x \in trace[graph[s].in], graph[s].kind # "sink"
    PROVE  \E i \in 1..Len(Sends(s, x)) : Sends(s, x)[i].el \in trace[Sends(s, x)[i].chan]
<1>1. topology \in DOMAIN Graphs
  BY DEF TypeOK, chosen
<1>2. \E i \in DOMAIN Outputs(graph[s], x) :
          Outputs(graph[s], x)[i].el \in trace[Outputs(graph[s], x)[i].chan]
  BY <1>1, TracesAssumption DEF graph
<1>3. QED
  BY <1>2, SendsLength DEF Sends

\* Something in work at stage s has an output on the trace still to be sent.
Due(trace, s, t) ==
    \E i \in 1..Len(Sends(s, t.el)) :
        i > t.sent /\ Sends(s, t.el)[i].el \in trace[Sends(s, t.el)[i].chan]

\* Due, by positions, is what OnTrace says with the set of outstanding outputs.
LEMMA DueType ==
    ASSUME TypeOK, NEW s \in DOMAIN graph, NEW t \in [el : Element, sent : Nat, token : Nat],
           NEW trace
    PROVE  Due(trace, s, t) <=> \E out \in Outstanding(s, t.el, t.sent) : out.el \in trace[out.chan]
<1>1. Len(Sends(s, t.el)) \in Nat /\ t.sent \in Nat
  BY SendsLength
<1>2. \A i \in 1..Len(Sends(s, t.el)) : i > t.sent <=> i \in (t.sent + 1)..Len(Sends(s, t.el))
  BY <1>1
<1>3. \A i \in (t.sent + 1)..Len(Sends(s, t.el)) : i \in 1..Len(Sends(s, t.el))
  BY <1>1
<1>4. QED
  BY <1>2, <1>3 DEF Due, Outstanding

\* OnTrace in terms of Due, before a step,
LEMMA OnTraceNow ==
    ASSUME TypeOK, NEW trace
    PROVE  OnTrace(trace) <=>
             \/ \E r \in Connection : held[r] # NoElement /\ held[r] \in trace[Src]
             \/ \E s \in DOMAIN graph :
                   \/ pending[s] # NoElement /\ pending[s] \in trace[graph[s].in]
                   \/ \E t \in work[s] : Due(trace, s, t)
                   \/ graph[s].kind = "sink" /\ SetOf(got[s]) \intersect trace[graph[s].in] # {}
<1>1. \A s \in DOMAIN graph : \A t \in work[s] : t \in [el : Element, sent : Nat, token : Nat]
  BY GraphType DEF TypeOK
<1>2. QED
  BY <1>1, DueType DEF OnTrace, Sinks

\* and after it: Due does not depend on the state beyond the graph.
LEMMA OnTraceNext ==
    ASSUME TypeOK, [Next]_vars, NEW trace
    PROVE  OnTrace(trace)' <=>
             \/ \E r \in Connection : held'[r] # NoElement /\ held'[r] \in trace[Src]
             \/ \E s \in DOMAIN graph :
                   \/ pending'[s] # NoElement /\ pending'[s] \in trace[graph[s].in]
                   \/ \E t \in work'[s] : Due(trace, s, t)
                   \/ graph[s].kind = "sink" /\ SetOf(got'[s]) \intersect trace[graph[s].in] # {}
<1>1. graph' = graph
  BY GraphStays
<1>2. \A s \in DOMAIN graph : \A t \in work'[s] : t \in [el : Element, sent : Nat, token : Nat]
  <2>1. TypeOK'
    BY TypeStep
  <2>2. DOMAIN graph \subseteq Stage
    BY GraphType
  <2>3. QED
    BY <2>1, <2>2 DEF TypeOK
<1>3. \A s \in DOMAIN graph : \A t \in work'[s] :
         Due(trace, s, t) <=> \E out \in Outstanding(s, t.el, t.sent) : out.el \in trace[out.chan]
  BY <1>2, DueType
<1>4. Sinks' = {s \in DOMAIN graph : graph[s].kind = "sink"}
  BY <1>1 DEF Sinks
<1> HIDE DEF graph
<1>5. OnTrace(trace)' <=>
             \/ \E r \in Connection : held'[r] # NoElement /\ held'[r] \in trace[Src]
             \/ \E s \in DOMAIN graph :
                   \/ pending'[s] # NoElement /\ pending'[s] \in trace[graph[s].in]
                   \/ \E t \in work'[s] :
                         \E out \in Outstanding(s, t.el, t.sent) : out.el \in trace[out.chan]
                   \/ s \in Sinks' /\ SetOf(got'[s]) \intersect trace[graph[s].in] # {}
  BY <1>1 DEF OnTrace, Outstanding, Sends
<1>6. QED
  BY <1>3, <1>4, <1>5

\* A stage that takes an element loses nothing that it or any other had.
LEMMA NothingLost ==
    ASSUME TypeOK, NEW s \in DOMAIN graph, NEW y \in Element, NEW c, Receives(s, c),
           NEW w \in [Stage -> SUBSET [el : Element, sent : Nat, token : Nat]], Takes(s, y, w),
           graph[s].kind \in Operator \/ w[s] = {}
    PROVE  \A u \in DOMAIN graph :
               /\ pending[u] # NoElement => pending'[u] = pending[u]
               /\ w[u] \subseteq work'[u]
               /\ SetOf(got[u]) \subseteq SetOf(got'[u])
<1>1. graph[s].in = c /\ pending[s] = NoElement
  BY DEF Receives
<1>2. got[s] \in Seq(Element)
  BY GraphType DEF TypeOK
<1>3. SetOf(got[s]) \subseteq SetOf(Append(got[s], y))
  BY <1>2, Appended
<1>4. \A k \in Pump \union {"split", "fanOut"} : k \notin Operator
  BY DEF Pump, Operator
<1>5. \A u \in DOMAIN graph \ {s} :
          pending'[u] = pending[u] /\ work'[u] = w[u] /\ got'[u] = got[u]
  BY Taking
<1>6. w[s] \subseteq work'[s] /\ SetOf(got[s]) \subseteq SetOf(got'[s])
  <2>1. CASE graph[s].kind \in Pump \union {"split", "fanOut"} /\ got'[s] = got[s]
    BY <1>4, <2>1
  <2>2. CASE work'[s] = w[s] /\ got'[s] \in {got[s], Append(got[s], y)}
    BY <1>3, <2>2
  <2>3. QED
    BY <2>1, <2>2, Taking
<1>7. QED
  BY <1>1, <1>5, <1>6

\* An element on the trace that a stage takes is on its way, or has come to a sink.
LEMMA TakenOnTrace ==
    ASSUME TypeOK, [Next]_vars, NEW trace \in Traces[topology], NEW s \in DOMAIN graph,
           NEW y \in Element, y \in trace[graph[s].in],
           NEW w \in [Stage -> SUBSET [el : Element, sent : Nat, token : Nat]], Takes(s, y, w)
    PROVE  OnTrace(trace)'
<1>1. y # NoElement
  OBVIOUS
<1>2. CASE pending'[s] = y
  BY <1>1, <1>2, OnTraceNext
<1>3. CASE graph[s].kind = "sink" /\ got'[s] = Append(got[s], y)
  <2>1. got[s] \in Seq(Element)
    BY GraphType DEF TypeOK
  <2>2. y \in SetOf(got'[s])
    BY <1>3, <2>1, Appended
  <2>3. QED
    BY <1>3, <2>2, OnTraceNext
<1>4. CASE /\ graph[s].kind \in Pump \union {"split", "fanOut"}
           /\ work'[s] = {[el |-> y, sent |-> 0, token |-> 1]}
  <2> DEFINE t == [el |-> y, sent |-> 0, token |-> 1]
  <2>1. graph[s].kind # "sink"
    BY <1>4 DEF Pump
  <2>2. PICK i \in 1..Len(Sends(s, y)) : Sends(s, y)[i].el \in trace[Sends(s, y)[i].chan]
    BY <2>1, TraceGoesOn
  <2>3. i > 0 /\ t.el = y /\ t.sent = 0
    BY SendsLength
  <2>4. Due(trace, s, t)
    BY <2>2, <2>3 DEF Due
  <2>5. QED
    BY <1>4, <2>4, OnTraceNext
<1>5. QED
  BY <1>2, <1>3, <1>4, Taking

\* An element on the trace that no step takes from where it is stays there.
LEMMA StaysOnTrace ==
    ASSUME TypeOK, [Next]_vars, NEW trace, OnTrace(trace),
           \A r \in Connection :
              held[r] # NoElement /\ held[r] \in trace[Src] => held'[r] = held[r],
           \A u \in DOMAIN graph : pending[u] # NoElement => pending'[u] = pending[u],
           \A u \in DOMAIN graph : \A v \in work[u] :
              Due(trace, u, v) => \E v2 \in work'[u] : Due(trace, u, v2),
           \A u \in DOMAIN graph : SetOf(got[u]) \subseteq SetOf(got'[u])
    PROVE  OnTrace(trace)'
<1>1. CASE \E r \in Connection : held[r] # NoElement /\ held[r] \in trace[Src]
  BY <1>1, OnTraceNext
<1>2. ASSUME NEW s \in DOMAIN graph, pending[s] # NoElement, pending[s] \in trace[graph[s].in]
      PROVE  OnTrace(trace)'
  BY <1>2, OnTraceNext
<1>3. ASSUME NEW s \in DOMAIN graph, NEW t \in work[s], Due(trace, s, t) PROVE OnTrace(trace)'
  BY <1>3, OnTraceNext
<1>4. ASSUME NEW s \in DOMAIN graph, graph[s].kind = "sink",
             SetOf(got[s]) \intersect trace[graph[s].in] # {}
      PROVE  OnTrace(trace)'
  <2>1. SetOf(got'[s]) \intersect trace[graph[s].in] # {}
    BY <1>4
  <2>2. QED
    BY <1>4, <2>1, OnTraceNext
<1>5. QED
  BY <1>1, <1>2, <1>3, <1>4, OnTraceNow

\* What is on a trace stays on it.
LEMMA OnTraceStep ==
    ASSUME TypeOK, TokensDiffer, [Next]_vars, NEW trace \in Traces[topology], OnTrace(trace)
    PROVE  OnTrace(trace)'
<1>1. ASSUME \A r \in Connection : held[r] # NoElement => held'[r] = held[r],
             \A u \in DOMAIN graph :
                /\ pending[u] # NoElement => pending'[u] = pending[u]
                /\ work[u] \subseteq work'[u] /\ SetOf(got[u]) \subseteq SetOf(got'[u])
      PROVE  OnTrace(trace)'
  BY <1>1, StaysOnTrace
<1>2. ASSUME NEW r \in Connection, Read(r) \/ ReadFails(r) PROVE OnTrace(trace)'
  BY <1>1, <1>2 DEF Read, ReadFails, stageVars, TypeOK
<1>3. ASSUME NEW r \in Connection, NEW s \in DOMAIN graph, SourceSends(r, s)
      PROVE  OnTrace(trace)'
  <2>1. /\ held[r] \in Element /\ graph[s].in = Src /\ Receives(s, Src)
        /\ Takes(s, held[r], work)
        /\ work \in [Stage -> SUBSET [el : Element, sent : Nat, token : Nat]]
    BY <1>3 DEF SourceSends, Receives, TypeOK
  <2>2. CASE held[r] \in trace[Src]
    BY <2>1, <2>2, TakenOnTrace
  <2>3. CASE held[r] \notin trace[Src]
    <3>1. \A q \in Connection : q # r => held'[q] = held[q]
      BY <1>3 DEF SourceSends, TypeOK
    <3>2. graph[s].kind \in Operator \/ work[s] = {}
      BY <2>1 DEF Receives
    <3>3. \A u \in DOMAIN graph :
             /\ pending[u] # NoElement => pending'[u] = pending[u]
             /\ work[u] \subseteq work'[u] /\ SetOf(got[u]) \subseteq SetOf(got'[u])
      BY <2>1, <3>2, NothingLost
    <3>4. QED
      BY <2>3, <3>1, <3>3, StaysOnTrace
  <2>4. QED
    BY <2>2, <2>3
<1>4. ASSUME NEW s \in DOMAIN graph, Acquire(s) PROVE OnTrace(trace)'
  <2> DEFINE x == pending[s]
  <2>1. PICK k \in Free(s, graph[s].parallelism) : work' = Started(s, x, k)
    BY <1>4 DEF Acquire
  <2> DEFINE t == [el |-> x, sent |-> 0, token |-> k]
  <2>2. x \in Element /\ graph[s].kind \in Operator
    BY <1>4, GraphType DEF Acquire, TypeOK, TokensDiffer
  <2>3. work'[s] = work[s] \union {t} /\ \A u \in DOMAIN graph \ {s} : work'[u] = work[u]
    BY <2>1, GraphType DEF Started, TypeOK
  <2>4. \A u \in DOMAIN graph \ {s} : pending'[u] = pending[u]
    BY <1>4, GraphType DEF Acquire, TypeOK
  <2>5. UNCHANGED <<held, got>>
    BY <1>4 DEF Acquire, sourceVars
  <2>6. CASE x \in trace[graph[s].in]
    <3>1. graph[s].kind # "sink"
      BY <2>2 DEF Operator
    <3>2. PICK i \in 1..Len(Sends(s, x)) : Sends(s, x)[i].el \in trace[Sends(s, x)[i].chan]
      BY <2>2, <2>6, <3>1, TraceGoesOn
    <3>3. i > 0 /\ t.el = x /\ t.sent = 0
      BY <2>2, SendsLength
    <3>4. Due(trace, s, t)
      BY <3>2, <3>3 DEF Due
    <3>5. QED
      BY <2>3, <3>4, OnTraceNext
  <2>7. CASE x \notin trace[graph[s].in]
    <3> HIDE DEF t
    <3>1. QED
      BY <2>3, <2>4, <2>5, <2>7, OnTraceNow, OnTraceNext
  <2>8. QED
    BY <2>6, <2>7
<1>5. ASSUME NEW s \in DOMAIN graph, NEW t \in work[s], NEW to \in DOMAIN graph, Send(s, t, to)
      PROVE  OnTrace(trace)'
  <2> DEFINE out == NextSend(s, t)
             rest == [t EXCEPT !.sent = @ + 1]
             w == Sent(s, t)
  <2>1. /\ out.el \in Element /\ Takes(to, out.el, w) /\ Receives(to, out.chan)
        /\ graph[to].in = out.chan /\ More(s, t) /\ held' = held
    BY <1>5, NextSendType DEF Send, Receives, sourceVars
  <2>2. /\ w \in [Stage -> SUBSET [el : Element, sent : Nat, token : Nat]]
        /\ t \in [el : Element, sent : Nat, token : Nat]
        /\ w[s] = (work[s] \ {t}) \union {rest}
        /\ \A u \in DOMAIN graph \ {s} : w[u] = work[u]
    BY Sending
  <2>3. CASE out.el \in trace[out.chan]
    BY <2>1, <2>2, <2>3, TakenOnTrace
  <2>4. CASE out.el \notin trace[out.chan]
    <3>1. graph[to].kind \in Operator \/ w[to] = {}
      BY <2>1, <2>2 DEF Receives
    <3>2. \A u \in DOMAIN graph :
             /\ pending[u] # NoElement => pending'[u] = pending[u]
             /\ w[u] \subseteq work'[u] /\ SetOf(got[u]) \subseteq SetOf(got'[u])
      BY <2>1, <2>2, <3>1, NothingLost
    <3>3. Due(trace, s, t) => Due(trace, s, rest)
      <4>1. /\ rest.el = t.el /\ rest.sent = t.sent + 1 /\ t.sent \in Nat
            /\ Len(Sends(s, t.el)) \in Nat
        BY <2>2, SendsLength
      <4>2. SUFFICES ASSUME NEW i \in 1..Len(Sends(s, t.el)), i > t.sent,
                            Sends(s, t.el)[i].el \in trace[Sends(s, t.el)[i].chan]
                     PROVE  i > rest.sent
        BY <4>1 DEF Due
      <4>3. i # t.sent + 1
        BY <2>4, <4>2 DEF NextSend
      <4>4. QED
        BY <4>1, <4>2, <4>3
    <3>4. ASSUME NEW u \in DOMAIN graph, NEW v \in work[u], Due(trace, u, v)
          PROVE  \E v2 \in work'[u] : Due(trace, u, v2)
      <4> HIDE DEF rest, w
      <4>1. CASE u = s /\ v = t
        BY <2>2, <3>2, <3>3, <3>4, <4>1
      <4>2. CASE ~(u = s /\ v = t)
        BY <2>2, <3>2, <3>4, <4>2
      <4>3. QED
        BY <4>1, <4>2
    <3>5. QED
      BY <2>1, <3>2, <3>4, StaysOnTrace
  <2>5. QED
    BY <2>3, <2>4
<1>6. ASSUME NEW s \in DOMAIN graph, NEW t \in work[s], Finish(s, t) PROVE OnTrace(trace)'
  <2>1. /\ work'[s] = work[s] \ {t} /\ \A u \in DOMAIN graph \ {s} : work'[u] = work[u]
        /\ UNCHANGED <<held, pending, got>>
    BY <1>6, GraphType DEF Finish, TypeOK, sourceVars
  <2>2. ~Due(trace, s, t)
    <3>1. t.sent \in Nat /\ Len(Sends(s, t.el)) \in Nat
      BY Sending, SendsLength
    <3>2. QED
      BY <1>6, <3>1 DEF Finish, More, Due
  <2>3. QED
    BY <2>1, <2>2, OnTraceNow, OnTraceNext
<1>7. CASE UNCHANGED <<held, pending, work, got>>
  BY <1>1, <1>7
<1>8. QED
  BY <1>2, <1>3, <1>4, <1>5, <1>6, <1>7, MovingSteps

\* Whatever was read is followed from then on.
LEMMA TracesStep ==
    TypeOK /\ LeftIsRest /\ TokensDiffer /\ TracesGoOn /\ [Next]_vars => TracesGoOn'
<1> SUFFICES ASSUME TypeOK, LeftIsRest, TokensDiffer, TracesGoOn, [Next]_vars
             PROVE  TracesGoOn'
  OBVIOUS
<1> SUFFICES ASSUME NEW trace \in Traces[topology], NEW k \in WasRead', Data[k] \in trace[Src]
             PROVE  OnTrace(trace)'
  BY GraphStays DEF TracesGoOn
<1>1. CASE k \in WasRead
  BY <1>1, OnTraceStep DEF TracesGoOn
<1>2. CASE k \notin WasRead
  <2>1. PICK r \in Connection : Read(r)
    BY <1>2, MovingSteps
       DEF WasRead, ReadFails, SourceSends, Acquire, Finish, Send, sourceVars
  <2>2. held' = [held EXCEPT ![r] = Data[k]] /\ k \in DOMAIN Data
    BY <1>2, <2>1, Reading
  <2>3. held'[r] = Data[k] /\ Data[k] \in Element
    BY <2>2 DEF TypeOK
  <2>4. QED
    BY <2>3, OnTraceNext
<1>3. QED
  BY <1>1, <1>2

\* A sink has received something of every way of an element that was read, once all
\* stages have ended and the source holds nothing, and nothing but what the flows make of
\* what was read: whatever the graph, the parallelism and the way the source ended.
THEOREM AlwaysComplete == Spec => []SinksAreComplete
<1>1. Init => LeftIsRest /\ TokensDiffer /\ NothingInvented /\ TracesGoOn
  <2> SUFFICES ASSUME Init PROVE LeftIsRest /\ TokensDiffer /\ NothingInvented /\ TracesGoOn
    OBVIOUS
  <2>1. TypeOK
    BY TypeInit
  <2>2. LeftIsRest /\ WasRead = {}
    BY DEF Init, LeftIsRest, WasRead
  <2>3. /\ \A r \in Connection : held[r] = NoElement
        /\ \A s \in DOMAIN graph : pending[s] = NoElement /\ work[s] = {} /\ SetOf(got[s]) = {}
    BY <2>1, GraphType DEF Init, SetOf
  <2>4. QED
    BY <2>2, <2>3 DEF TokensDiffer, NothingInvented, TracesGoOn
<1>2. TypeOK /\ ClosedBehindWriters /\ NothingInvented /\ TracesGoOn => SinksAreComplete
  <2> SUFFICES ASSUME TypeOK, ClosedBehindWriters, NothingInvented, TracesGoOn,
                      done = DOMAIN graph, \A r \in Connection : held[r] = NoElement,
                      NEW trace \in Traces[topology], \E k \in WasRead : Data[k] \in trace[Src]
               PROVE  \E s \in Sinks : SetOf(got[s]) \intersect trace[graph[s].in] # {}
    BY DEF SinksAreComplete, NothingInvented
  <2>1. OnTrace(trace)
    BY DEF TracesGoOn
  <2>2. \A s \in DOMAIN graph : pending[s] = NoElement /\ work[s] = {}
    BY DEF ClosedBehindWriters
  <2>3. QED
    BY <2>1, <2>2, OnTraceNow DEF Sinks
<1>3. Spec => [](LeftIsRest /\ TokensDiffer /\ NothingInvented /\ TracesGoOn)
  BY <1>1, LeftStep, TokensStep, NothingInventedStep, TracesStep, TypeCorrect, PTL DEF Spec
<1>4. QED
  BY <1>2, <1>3, TypeCorrect, AlwaysClosedBehindWriters, PTL

-----------------------------------------------------------------------------
(***************************************************************************)
(* Where the numbers of an element are.                                    *)
(***************************************************************************)

\* Upstream is closed: with a channel, what feeds those that write to it.
LEMMA UpstreamIsClosed ==
    ASSUME TypeOK, NEW v \in DOMAIN graph
    PROVE  /\ graph[v].in \in Upstream(graph, v)
           /\ \A s \in DOMAIN graph : \A c \in SetOf(graph[s].outs) :
                 c \in Upstream(graph, v) => graph[s].in \in Upstream(graph, v)
BY GraphType DEF Upstream, Feeds

\* What a stage sends for an element has numbers of that element only.
LEMMA OutputSpan ==
    ASSUME TypeOK, NEW s \in DOMAIN graph, NEW x \in Element, NEW i \in 1..Len(Sends(s, x))
    PROVE  Span[Sends(s, x)[i].el] \subseteq Span[x]
<1>1. graph[s].image[x] \in Seq(Element) /\ graph[s].outs \in Seq(Channel)
  BY GraphType
<1>2. CASE graph[s].kind \in Operator
  <2>1. Sends(s, x) = [j \in DOMAIN graph[s].image[x] |-> To(graph[s].outs[1], graph[s].image[x][j])]
    BY <1>2 DEF Sends, Outputs, Transformed, Operator, Pump
  <2>2. Sends(s, x)[i].el = graph[s].image[x][i] /\ i \in DOMAIN graph[s].image[x]
    BY <1>1, <2>1 DEF To
  <2>3. topology \in DOMAIN Graphs
    BY DEF TypeOK, chosen
  <2>4. QED
    BY <1>2, <2>2, <2>3, SpanAssumption DEF graph
<1>3. CASE graph[s].kind = "fanOut"
  <2>1. Sends(s, x) = [j \in DOMAIN graph[s].outs |-> To(graph[s].outs[j], x)]
    BY <1>3 DEF Sends, Outputs, FanOut, Pump, Operator
  <2>2. QED
    BY <1>1, <2>1 DEF To
<1>4. CASE graph[s].kind \in Pump \union {"split"}
  <2>1. PICK c : Sends(s, x) = <<To(c, x)>>
    BY <1>4 DEF Sends, Outputs, Forwarded, Split, Pump, Operator
  <2>2. QED
    BY <2>1 DEF To
<1>5. CASE graph[s].kind = "sink"
  BY <1>5 DEF Sends, Outputs, Pump, Operator
<1>6. QED
  BY <1>2, <1>3, <1>4, <1>5, GraphType DEF Kind

\* The outputs of an operator follow each other as their numbers do.
LEMMA OutputsAscend ==
    ASSUME TypeOK, NEW s \in DOMAIN graph, NEW x \in Element, graph[s].kind # "fanOut",
           NEW i \in 1..Len(Sends(s, x)), NEW j \in 1..Len(Sends(s, x)), i < j
    PROVE  Ascending(Span[Sends(s, x)[i].el], Span[Sends(s, x)[j].el])
<1>1. graph[s].image[x] \in Seq(Element) /\ graph[s].outs \in Seq(Channel)
  BY GraphType
<1>2. CASE graph[s].kind \in Operator
  <2>1. Sends(s, x) = [k \in DOMAIN graph[s].image[x] |-> To(graph[s].outs[1], graph[s].image[x][k])]
    BY <1>2 DEF Sends, Outputs, Transformed, Operator, Pump
  <2>2. /\ Sends(s, x)[i].el = graph[s].image[x][i] /\ i \in DOMAIN graph[s].image[x]
        /\ Sends(s, x)[j].el = graph[s].image[x][j] /\ j \in DOMAIN graph[s].image[x]
    BY <1>1, <2>1 DEF To
  <2>3. topology \in DOMAIN Graphs
    BY DEF TypeOK, chosen
  <2>4. QED
    BY <1>2, <2>2, <2>3, SpanAssumption DEF graph
<1>3. CASE graph[s].kind \in Pump \union {"split"}
  <2>1. PICK c : Sends(s, x) = <<To(c, x)>>
    BY <1>3 DEF Sends, Outputs, Forwarded, Split, Pump, Operator
  <2>2. QED
    BY <2>1
<1>4. CASE graph[s].kind = "sink"
  BY <1>4 DEF Sends, Outputs, Pump, Operator
<1>5. QED
  BY <1>2, <1>3, <1>4, GraphType DEF Kind

\* No number is on two of the outputs that a stage sends towards stage v.
LEMMA OutputsApart ==
    ASSUME TypeOK, OneWay(graph), NEW v \in DOMAIN graph, NEW s \in DOMAIN graph, NEW x \in Element,
           NEW i \in 1..Len(Sends(s, x)), NEW j \in 1..Len(Sends(s, x)), i < j,
           Sends(s, x)[i].chan \in Upstream(graph, v), Sends(s, x)[j].chan \in Upstream(graph, v)
    PROVE  Span[Sends(s, x)[i].el] \intersect Span[Sends(s, x)[j].el] = {}
<1>1. CASE graph[s].kind = "fanOut"
  <2>1. graph[s].outs \in Seq(Channel)
    BY GraphType
  <2>2. Sends(s, x) = [k \in DOMAIN graph[s].outs |-> To(graph[s].outs[k], x)]
    BY <1>1 DEF Sends, Outputs, FanOut, Pump, Operator
  <2>3. /\ Sends(s, x)[i].chan = graph[s].outs[i] /\ i \in DOMAIN graph[s].outs
        /\ Sends(s, x)[j].chan = graph[s].outs[j] /\ j \in DOMAIN graph[s].outs
    BY <2>1, <2>2 DEF To
  <2>4. i = j
    BY <1>1, <2>3 DEF OneWay
  <2>5. QED
    BY <2>4, SendsLength
<1>2. CASE graph[s].kind # "fanOut"
  <2>1. Ascending(Span[Sends(s, x)[i].el], Span[Sends(s, x)[j].el])
    BY <1>2, OutputsAscend
  <2>2. Span[Sends(s, x)[i].el] \subseteq Nat
    BY SendsType, SpanAssumption
  <2>3. QED
    BY <2>1, <2>2 DEF Ascending
<1>3. QED
  BY <1>1, <1>2

\* Number n is on an output towards stage v that s has still to send.
Comes(v, n, s, x, k) ==
    \E i \in 1..Len(Sends(s, x)) :
        i > k /\ Sends(s, x)[i].chan \in Upstream(graph, v) /\ n \in Span[Sends(s, x)[i].el]

\* Only what has number n brings it to stage v, and only from a channel of its upstream.
LEMMA ComesFrom ==
    ASSUME TypeOK, NEW v \in DOMAIN graph, NEW s \in DOMAIN graph, NEW x \in Element, NEW k, NEW n,
           Comes(v, n, s, x, k)
    PROVE  n \in Span[x] /\ graph[s].in \in Upstream(graph, v)
BY OutputSpan, SendsType, UpstreamIsClosed DEF Comes

\* Comes, by positions, is membership in ToCome.
LEMMA ComesType ==
    ASSUME TypeOK, NEW v, NEW s \in DOMAIN graph, NEW x \in Element, NEW k \in Nat, NEW n
    PROVE  Comes(v, n, s, x, k) <=> n \in ToCome(s, x, k, Upstream(graph, v))
<1>1. Len(Sends(s, x)) \in Nat
  BY SendsLength
<1>2. \A i \in 1..Len(Sends(s, x)) : i > k <=> i \in (k + 1)..Len(Sends(s, x))
  BY <1>1
<1>3. \A i \in (k + 1)..Len(Sends(s, x)) : i \in 1..Len(Sends(s, x))
  BY <1>1
<1>4. QED
  BY <1>2, <1>3 DEF Comes, ToCome, Outstanding

\* p is a place of number n, when the variables have these values.
At(v, n, p, unread, inHand, waiting, working, received) ==
    \/ \E k \in unread : n \in Span[Data[k]] /\ p = <<"data", k, 0>>
    \/ \E r \in Connection :
          inHand[r] # NoElement /\ n \in Span[inHand[r]] /\ p = <<"held", r, 0>>
    \/ \E s \in DOMAIN graph :
          waiting[s] # NoElement /\ Comes(v, n, s, waiting[s], 0) /\ p = <<"pending", s, 0>>
    \/ \E s \in DOMAIN graph : \E t \in working[s] :
          Comes(v, n, s, t.el, t.sent) /\ p = <<"work", s, t.token>>
    \/ \E i \in DOMAIN received[v] : n \in Span[received[v][i]] /\ p = <<"got", i, 0>>

\* The same as a set, in the words of Where.
Places(v, n, unread, inHand, waiting, working, received) ==
    {<<"data", k, 0>> : k \in {i \in unread : n \in Span[Data[i]]}}
        \union {<<"held", r, 0>> : r \in {q \in Connection :
                    inHand[q] # NoElement /\ n \in Span[inHand[q]]}}
        \union {<<"pending", s, 0>> : s \in {u \in DOMAIN graph :
                    waiting[u] # NoElement
                        /\ n \in ToCome(u, waiting[u], 0, Upstream(graph, v))}}
        \union (UNION {{<<"work", s, t.token>> : t \in {u \in working[s] :
                    n \in ToCome(s, u.el, u.sent, Upstream(graph, v))}} : s \in DOMAIN graph})
        \union {<<"got", i, 0>> : i \in {j \in DOMAIN received[v] : n \in Span[received[v][j]]}}

\* Membership in Places, spelled out for one place.
LEMMA PlacesAt ==
    ASSUME TypeOK, NEW v, NEW n, NEW p, NEW unread, NEW inHand, NEW received,
           NEW waiting \in [Stage -> Element \union {NoElement}],
           NEW working \in [Stage -> SUBSET [el : Element, sent : Nat, token : Nat]]
    PROVE  p \in Places(v, n, unread, inHand, waiting, working, received) <=>
               At(v, n, p, unread, inHand, waiting, working, received)
<1>1. \A s \in DOMAIN graph : waiting[s] # NoElement =>
          (Comes(v, n, s, waiting[s], 0) <=> n \in ToCome(s, waiting[s], 0, Upstream(graph, v)))
  BY ComesType, GraphType
<1>2. \A s \in DOMAIN graph : \A t \in working[s] :
          Comes(v, n, s, t.el, t.sent) <=> n \in ToCome(s, t.el, t.sent, Upstream(graph, v))
  BY ComesType, GraphType
<1> DEFINE A == {<<"data", k, 0>> : k \in {i \in unread : n \in Span[Data[i]]}}
           B == {<<"held", r, 0>> : r \in {q \in Connection :
                    inHand[q] # NoElement /\ n \in Span[inHand[q]]}}
           C == {<<"pending", s, 0>> : s \in {u \in DOMAIN graph :
                    waiting[u] # NoElement
                        /\ n \in ToCome(u, waiting[u], 0, Upstream(graph, v))}}
           D(s) == {<<"work", s, t.token>> : t \in {u \in working[s] :
                    n \in ToCome(s, u.el, u.sent, Upstream(graph, v))}}
           E == UNION {D(s) : s \in DOMAIN graph}
           F == {<<"got", i, 0>> : i \in {j \in DOMAIN received[v] : n \in Span[received[v][j]]}}
           a == \E k \in unread : n \in Span[Data[k]] /\ p = <<"data", k, 0>>
           b == \E r \in Connection :
                    inHand[r] # NoElement /\ n \in Span[inHand[r]] /\ p = <<"held", r, 0>>
           c == \E s \in DOMAIN graph :
                    waiting[s] # NoElement /\ Comes(v, n, s, waiting[s], 0)
                        /\ p = <<"pending", s, 0>>
           e == \E s \in DOMAIN graph : \E t \in working[s] :
                    Comes(v, n, s, t.el, t.sent) /\ p = <<"work", s, t.token>>
           f == \E i \in DOMAIN received[v] : n \in Span[received[v][i]] /\ p = <<"got", i, 0>>
<1>3. p \in A <=> a
  OBVIOUS
<1>4. p \in B <=> b
  OBVIOUS
<1>5. p \in C <=> c
  BY <1>1
<1>6. p \in E <=> e
  <2>1. \A s \in DOMAIN graph : p \in D(s) <=> \E t \in working[s] :
            Comes(v, n, s, t.el, t.sent) /\ p = <<"work", s, t.token>>
    BY <1>2
  <2>2. p \in E <=> \E s \in DOMAIN graph : p \in D(s)
    <3> HIDE DEF D
    <3>1. QED
      OBVIOUS
  <2>3. QED
    BY <2>1, <2>2
<1>7. p \in F <=> f
  OBVIOUS
<1>8. Places(v, n, unread, inHand, waiting, working, received)
        = A \union B \union C \union E \union F
  BY DEF Places
<1>9. At(v, n, p, unread, inHand, waiting, working, received) <=> a \/ b \/ c \/ e \/ f
  BY DEF At
<1> HIDE DEF A, B, C, E, F, a, b, c, e, f
<1>10. QED
  BY <1>3, <1>4, <1>5, <1>6, <1>7, <1>8, <1>9

\* Where the numbers are in a state, and after a step.
LEMMA WhereNow ==
    ASSUME TypeOK, NEW v, NEW n, NEW p
    PROVE  p \in Where(v, n) <=>
               At(v, n, p, DOMAIN Data \ WasRead, held, pending, work, got)
<1>1. Where(v, n) = Places(v, n, DOMAIN Data \ WasRead, held, pending, work, got)
  BY DEF Where, Places
<1>2. /\ pending \in [Stage -> Element \union {NoElement}]
      /\ work \in [Stage -> SUBSET [el : Element, sent : Nat, token : Nat]]
  BY DEF TypeOK
<1>3. QED
  BY <1>1, <1>2, PlacesAt

\* Where a number is after a step.
LEMMA WhereNext ==
    ASSUME TypeOK, [Next]_vars, NEW v, NEW n, NEW p
    PROVE  p \in Where(v, n)' <=>
               At(v, n, p, DOMAIN Data \ WasRead', held', pending', work', got')
<1>1. TypeOK' /\ graph' = graph
  BY TypeStep, GraphStays
<1>2. Where(v, n)' = Places(v, n, DOMAIN Data \ WasRead', held', pending', work', got')
  <2> HIDE DEF graph
  <2>1. QED
    BY <1>1 DEF Where, Places, ToCome, Outstanding, Sends
<1>3. /\ pending' \in [Stage -> Element \union {NoElement}]
      /\ work' \in [Stage -> SUBSET [el : Element, sent : Nat, token : Nat]]
  BY <1>1 DEF TypeOK
<1>4. QED
  BY <1>2, <1>3, PlacesAt

\* The place that what stage s takes gets.
NewPlace(s) ==
    CASE graph[s].kind \in Operator -> <<"pending", s, 0>>
      [] graph[s].kind = "sink" -> <<"got", Len(got[s]) + 1, 0>>
      [] OTHER -> <<"work", s, 1>>

\* A stage that takes y has its numbers in one place more, if they go to stage v, and all
\* others are where they were.
LEMMA TakesPlace ==
    ASSUME TypeOK, NEW s \in DOMAIN graph, NEW y \in Element, NEW w \in
              [Stage -> SUBSET [el : Element, sent : Nat, token : Nat]], Takes(s, y, w),
           NEW v \in DOMAIN graph, NEW n, NEW p, NEW unread, NEW inHand,
           At(v, n, p, unread, inHand, pending', work', got')
    PROVE  \/ At(v, n, p, unread, inHand, pending, w, got)
           \/ /\ p = NewPlace(s) /\ n \in Span[y]
              /\ graph[s].in \in Upstream(graph, v)
<1>1. \A u \in DOMAIN graph \ {s} :
          pending'[u] = pending[u] /\ work'[u] = w[u] /\ got'[u] = got[u]
  BY Taking
<1>2. got[s] \in Seq(Element)
  BY GraphType DEF TypeOK
<1>3. ASSUME NEW u \in DOMAIN graph, pending'[u] # NoElement, Comes(v, n, u, pending'[u], 0),
             p = <<"pending", u, 0>>, pending'[u] # pending[u]
      PROVE  p = NewPlace(s) /\ n \in Span[y] /\ graph[s].in \in Upstream(graph, v)
  <2>1. u = s /\ graph[s].kind \in Operator /\ pending'[s] = y
    BY <1>1, <1>3, Taking
  <2>2. QED
    <3>1. Comes(v, n, s, y, 0) /\ p = <<"pending", s, 0>>
      BY <1>3, <2>1
    <3>2. n \in Span[y] /\ graph[s].in \in Upstream(graph, v)
      BY <3>1, ComesFrom
    <3>3. NewPlace(s) = <<"pending", s, 0>>
      BY <2>1 DEF NewPlace, Operator
    <3>4. QED
      BY <3>1, <3>2, <3>3
<1>4. ASSUME NEW u \in DOMAIN graph, NEW t \in work'[u], Comes(v, n, u, t.el, t.sent),
             p = <<"work", u, t.token>>, t \notin w[u]
      PROVE  p = NewPlace(s) /\ n \in Span[y] /\ graph[s].in \in Upstream(graph, v)
  <2>1. /\ u = s /\ graph[s].kind \in Pump \union {"split", "fanOut"}
        /\ t = [el |-> y, sent |-> 0, token |-> 1]
    <3> DEFINE fresh == [el |-> y, sent |-> 0, token |-> 1]
    <3>1. u = s
      BY <1>1, <1>4
    <3>2. work'[s] # w[s]
      BY <1>4, <3>1
    <3>3. /\ graph[s].kind \in Pump \union {"split", "fanOut"}
          /\ work'[s] = {fresh}
      BY <3>2, Taking
    <3> HIDE DEF fresh
    <3>4. t = fresh
      BY <1>4, <3>1, <3>3
    <3>5. QED
      BY <3>1, <3>3, <3>4 DEF fresh
  <2>2. t.el = y /\ t.token = 1
    BY <2>1
  <2>3. graph[s].kind \notin Operator /\ graph[s].kind # "sink"
    BY <2>1 DEF Pump, Operator
  <2>4. n \in Span[y] /\ graph[s].in \in Upstream(graph, v)
    BY <1>4, <2>1, <2>2, ComesFrom
  <2>5. QED
    BY <1>4, <2>1, <2>2, <2>3, <2>4 DEF NewPlace
<1>5. ASSUME NEW i \in DOMAIN got'[v], n \in Span[got'[v][i]], p = <<"got", i, 0>>
      PROVE  \/ i \in DOMAIN got[v] /\ n \in Span[got[v][i]]
             \/ p = NewPlace(s) /\ n \in Span[y] /\ graph[s].in \in Upstream(graph, v)
  <2>1. CASE got'[v] = got[v]
    BY <1>5, <2>1
  <2>2. CASE got'[v] # got[v]
    <3>1. v = s /\ graph[s].kind = "sink" /\ got'[s] = Append(got[s], y)
      BY <1>1, <2>2, Taking
    <3>2. i \in DOMAIN got[s] \/ i = Len(got[s]) + 1
      BY <1>2, <1>5, <3>1, Appended
    <3>3. CASE i \in DOMAIN got[s]
      BY <1>2, <1>5, <3>1, <3>3, Appended
    <3>4. CASE i = Len(got[s]) + 1
      <4>1. NewPlace(s) = <<"got", i, 0>>
        BY <3>1, <3>4 DEF NewPlace, Operator
      <4>2. n \in Span[y]
        BY <1>2, <1>5, <3>1, <3>4, Appended
      <4>3. QED
        BY <1>5, <3>1, <4>1, <4>2, UpstreamIsClosed
    <3>5. QED
      BY <3>2, <3>3, <3>4
  <2>3. QED
    BY <2>1, <2>2
<1> DEFINE new == p = NewPlace(s) /\ n \in Span[y] /\ graph[s].in \in Upstream(graph, v)
<1>6. CASE \E u \in DOMAIN graph :
              pending'[u] # NoElement /\ Comes(v, n, u, pending'[u], 0) /\ p = <<"pending", u, 0>>
  <2>1. PICK u \in DOMAIN graph :
              pending'[u] # NoElement /\ Comes(v, n, u, pending'[u], 0) /\ p = <<"pending", u, 0>>
    BY <1>6
  <2>2. CASE pending'[u] = pending[u]
    BY <2>1, <2>2 DEF At
  <2>3. QED
    BY <1>3, <2>1, <2>2
<1>7. CASE \E u \in DOMAIN graph : \E t \in work'[u] :
              Comes(v, n, u, t.el, t.sent) /\ p = <<"work", u, t.token>>
  <2>1. PICK u \in DOMAIN graph : \E t \in work'[u] :
              Comes(v, n, u, t.el, t.sent) /\ p = <<"work", u, t.token>>
    BY <1>7
  <2>2. PICK t \in work'[u] : Comes(v, n, u, t.el, t.sent) /\ p = <<"work", u, t.token>>
    BY <2>1
  <2>3. CASE t \in w[u]
    BY <2>2, <2>3 DEF At
  <2>4. QED
    BY <1>4, <2>2, <2>3
<1>8. CASE \E i \in DOMAIN got'[v] : n \in Span[got'[v][i]] /\ p = <<"got", i, 0>>
  BY <1>5, <1>8 DEF At
<1>9. CASE \/ \E k \in unread : n \in Span[Data[k]] /\ p = <<"data", k, 0>>
           \/ \E r \in Connection :
                 inHand[r] # NoElement /\ n \in Span[inHand[r]] /\ p = <<"held", r, 0>>
  BY <1>9 DEF At
<1>10. QED
  BY <1>6, <1>7, <1>8, <1>9 DEF At

\* At most one place in W, and at most one new one for one of them.
LEMMA OneMoves ==
    ASSUME NEW W, NEW V, \A p, q \in W : p = q,
           V \subseteq W \/ \E old \in W : \E new : V \subseteq (W \ {old}) \union {new}
    PROVE  \A p, q \in V : p = q
OBVIOUS

\* A set that loses one member and gains one at most has changed as a place does.
LEMMA Moving ==
    ASSUME NEW W, NEW V, NEW old \in W, NEW new, \A p \in V : p = new \/ (p \in W /\ p # old)
    PROVE  \E o \in W : \E m : V \subseteq (W \ {o}) \union {m}
<1>1. V \subseteq (W \ {old}) \union {new}
  OBVIOUS
<1>2. QED
  BY <1>1

\* A step takes a number from one place to another, if it moves it at all.
LEMMA PlaceStep ==
    ASSUME TypeOK, LeftIsRest, TokensDiffer, [Next]_vars, OneWay(graph),
           NEW v \in DOMAIN graph, NEW n
    PROVE  \/ Where(v, n)' \subseteq Where(v, n)
           \/ \E old \in Where(v, n) : \E new :
                 Where(v, n)' \subseteq (Where(v, n) \ {old}) \union {new}
<1> DEFINE W == Where(v, n)
           V == Where(v, n)'
           Moved == \E old \in W : \E new : V \subseteq (W \ {old}) \union {new}
           unread == DOMAIN Data \ WasRead
<1>1. \A p : p \in W <=> At(v, n, p, unread, held, pending, work, got)
  BY WhereNow
<1>2. \A p : p \in V <=> At(v, n, p, DOMAIN Data \ WasRead', held', pending', work', got')
  BY WhereNext
<1> HIDE DEF W, V
<1>3. ASSUME NEW r \in Connection, Read(r) PROVE V \subseteq W \/ Moved
  <2> DEFINE k == Len(Data) - Len(left) + 1
             old == <<"data", k, 0>>
             new == <<"held", r, 0>>
  <2>1. /\ k \in DOMAIN Data /\ k \notin WasRead /\ WasRead' = WasRead \union {k}
        /\ held[r] = NoElement /\ held' = [held EXCEPT ![r] = Data[k]]
    BY <1>3, Reading
  <2>2. UNCHANGED <<pending, work, got>>
    BY <1>3 DEF Read, stageVars
  <2> HIDE DEF k
  <2>3. held'[r] = Data[k] /\ \A q \in Connection : q # r => held'[q] = held[q]
    BY <2>1 DEF TypeOK
  <2>4. \A p \in V : p \in W \/ (p = new /\ n \in Span[Data[k]])
    BY <1>1, <1>2, <2>1, <2>2, <2>3 DEF At
  <2>5. old \notin V
    BY <1>2, <2>1 DEF At
  <2>6. n \in Span[Data[k]] => old \in W
    BY <1>1, <2>1 DEF At
  <2>7. CASE n \in Span[Data[k]]
    <3>1. old \in W /\ \A p \in V : p = new \/ (p \in W /\ p # old)
      BY <2>4, <2>5, <2>6, <2>7
    <3> HIDE DEF old, new
    <3>2. Moved
      BY <3>1, Moving
    <3>3. QED
      BY <3>2
  <2>8. CASE n \notin Span[Data[k]]
    BY <2>4, <2>8
  <2>9. QED
    BY <2>7, <2>8
<1>4. ASSUME NEW r \in Connection, ReadFails(r) PROVE V \subseteq W
  <2>1. /\ held' = [held EXCEPT ![r] = Zero] /\ WasRead' = WasRead
        /\ UNCHANGED <<pending, work, got>>
    BY <1>4 DEF ReadFails, WasRead, stageVars
  <2>2. \A q \in Connection : n \in Span[held'[q]] => held'[q] = held[q]
    BY <2>1, SpanAssumption DEF TypeOK
  <2>3. QED
    BY <1>1, <1>2, <2>1, <2>2 DEF At
<1>5. ASSUME NEW r \in Connection, NEW s \in DOMAIN graph, SourceSends(r, s)
      PROVE  V \subseteq W \/ Moved
  <2> DEFINE old == <<"held", r, 0>>
  <2>1. /\ held[r] \in Element /\ held[r] # NoElement /\ Takes(s, held[r], work)
        /\ work \in [Stage -> SUBSET [el : Element, sent : Nat, token : Nat]]
        /\ held' = [held EXCEPT ![r] = NoElement] /\ WasRead' = WasRead
    BY <1>5 DEF SourceSends, TypeOK, WasRead
  <2>2. held'[r] = NoElement /\ \A q \in Connection : q # r => held'[q] = held[q]
    BY <2>1 DEF TypeOK
  <2>3. \A p \in V : \/ At(v, n, p, unread, held', pending, work, got)
                     \/ p = NewPlace(s) /\ n \in Span[held[r]]
    BY <1>2, <2>1, TakesPlace
  <2>4. \A p : At(v, n, p, unread, held', pending, work, got) => p \in W /\ p # old
    BY <1>1, <2>2 DEF At
  <2>5. n \in Span[held[r]] => old \in W
    BY <1>1, <2>1 DEF At
  <2>6. CASE n \in Span[held[r]]
    <3>1. old \in W /\ \A p \in V : p = NewPlace(s) \/ (p \in W /\ p # old)
      BY <2>3, <2>4, <2>5, <2>6
    <3> HIDE DEF old
    <3>2. Moved
      BY <3>1, Moving
    <3>3. QED
      BY <3>2
  <2>7. CASE n \notin Span[held[r]]
    BY <2>3, <2>4, <2>7
  <2>8. QED
    BY <2>6, <2>7
<1>6. ASSUME NEW s \in DOMAIN graph, Acquire(s) PROVE V \subseteq W \/ Moved
  <2>1. PICK k \in Free(s, graph[s].parallelism) : work' = Started(s, pending[s], k)
    BY <1>6 DEF Acquire
  <2> DEFINE x == pending[s]
             t == [el |-> x, sent |-> 0, token |-> k]
             old == <<"pending", s, 0>>
             new == <<"work", s, k>>
  <2>2. work'[s] = work[s] \union {t} /\ \A u \in DOMAIN graph \ {s} : work'[u] = work[u]
    BY <2>1, GraphType DEF Started, TypeOK
  <2>3. /\ x # NoElement /\ pending'[s] = NoElement
        /\ \A u \in DOMAIN graph \ {s} : pending'[u] = pending[u]
    BY <1>6, GraphType DEF Acquire, TypeOK
  <2>4. UNCHANGED <<held, got>> /\ WasRead' = WasRead
    BY <1>6 DEF Acquire, sourceVars, WasRead
  <2>5. t.el = x /\ t.sent = 0 /\ t.token = k
    OBVIOUS
  <2> HIDE DEF t, x
  <2>6. ASSUME NEW p \in V PROVE p \in W \/ (p = new /\ Comes(v, n, s, x, 0))
    <3>1. CASE \E u \in DOMAIN graph : \E z \in work'[u] :
                  Comes(v, n, u, z.el, z.sent) /\ p = <<"work", u, z.token>>
      <4>1. PICK u \in DOMAIN graph : \E z \in work'[u] :
                  Comes(v, n, u, z.el, z.sent) /\ p = <<"work", u, z.token>>
        BY <3>1
      <4>2. PICK z \in work'[u] : Comes(v, n, u, z.el, z.sent) /\ p = <<"work", u, z.token>>
        BY <4>1
      <4>3. CASE z \in work[u]
        BY <1>1, <4>2, <4>3 DEF At
      <4>4. CASE z \notin work[u]
        BY <2>2, <2>5, <4>2, <4>4
      <4>5. QED
        BY <4>3, <4>4
    <3>2. QED
      BY <1>1, <1>2, <2>3, <2>4, <2>6, <3>1 DEF At, x
  <2>7. old \notin V
    BY <1>2, <2>3 DEF At
  <2>8. Comes(v, n, s, x, 0) => old \in W
    BY <1>1, <2>3 DEF At, x
  <2>9. CASE Comes(v, n, s, x, 0)
    <3>1. old \in W /\ \A p \in V : p = new \/ (p \in W /\ p # old)
      BY <2>6, <2>7, <2>8, <2>9
    <3> HIDE DEF old, new
    <3>2. Moved
      BY <3>1, Moving
    <3>3. QED
      BY <3>2
  <2>10. CASE ~Comes(v, n, s, x, 0)
    BY <2>6, <2>10
  <2>11. QED
    BY <2>9, <2>10
<1>7. ASSUME NEW s \in DOMAIN graph, NEW t \in work[s], NEW to \in DOMAIN graph, Send(s, t, to)
      PROVE  V \subseteq W \/ Moved
  <2> DEFINE out == NextSend(s, t)
             rest == [t EXCEPT !.sent = @ + 1]
             w == Sent(s, t)
             old == <<"work", s, t.token>>
             N == Len(Sends(s, t.el))
  <2>1. /\ out.el \in Element /\ Takes(to, out.el, w) /\ graph[to].in = out.chan
        /\ More(s, t) /\ held' = held /\ WasRead' = WasRead
    BY <1>7, NextSendType DEF Send, Receives, sourceVars, WasRead
  <2>2. /\ w \in [Stage -> SUBSET [el : Element, sent : Nat, token : Nat]]
        /\ t \in [el : Element, sent : Nat, token : Nat]
        /\ w[s] = (work[s] \ {t}) \union {rest}
        /\ \A u \in DOMAIN graph \ {s} : w[u] = work[u]
    BY Sending
  <2>3. /\ t.sent \in Nat /\ t.el \in Element /\ N \in Nat /\ t.sent + 1 \in 1..N
        /\ out = Sends(s, t.el)[t.sent + 1]
        /\ rest.el = t.el /\ rest.sent = t.sent + 1 /\ rest.token = t.token
    BY <2>1, <2>2, SendsLength DEF More, NextSend
  <2>4. \A p \in V : \/ At(v, n, p, unread, held, pending, w, got)
                     \/ p = NewPlace(to) /\ n \in Span[out.el] /\ out.chan \in Upstream(graph, v)
    <3>1. \A p \in V : At(v, n, p, unread, held, pending', work', got')
      BY <1>2, <2>1
    <3> HIDE DEF out, w
    <3>2. ASSUME NEW p \in V
          PROVE  \/ At(v, n, p, unread, held, pending, w, got)
                 \/ p = NewPlace(to) /\ n \in Span[out.el] /\ graph[to].in \in Upstream(graph, v)
      <4>1. At(v, n, p, unread, held, pending', work', got')
        BY <3>1
      <4>2. QED
        BY <2>1, <2>2, <4>1, TakesPlace
    <3>3. QED
      BY <2>1, <3>2
  <2>5. Comes(v, n, s, rest.el, rest.sent) => Comes(v, n, s, t.el, t.sent)
    <3>1. \A i \in 1..N : i > rest.sent => i > t.sent
      BY <2>3
    <3>2. QED
      BY <2>3, <3>1 DEF Comes
  <2>6. n \in Span[out.el] /\ out.chan \in Upstream(graph, v) =>
           /\ Comes(v, n, s, t.el, t.sent)
           /\ ~Comes(v, n, s, rest.el, rest.sent)
    <3>1. SUFFICES ASSUME n \in Span[out.el], out.chan \in Upstream(graph, v)
                   PROVE  /\ Comes(v, n, s, t.el, t.sent)
                          /\ ~Comes(v, n, s, rest.el, rest.sent)
      OBVIOUS
    <3>2. t.sent + 1 > t.sent
      BY <2>3
    <3>3. Comes(v, n, s, t.el, t.sent)
      BY <2>3, <3>1, <3>2 DEF Comes
    <3>4. ASSUME NEW i \in 1..N, i > t.sent + 1, Sends(s, t.el)[i].chan \in Upstream(graph, v)
          PROVE  n \notin Span[Sends(s, t.el)[i].el]
      <4>1. t.sent + 1 < i
        BY <2>3, <3>4
      <4>2. QED
        BY <2>3, <3>1, <3>4, <4>1, OutputsApart
    <3>5. QED
      BY <2>3, <3>3, <3>4 DEF Comes
  <2> HIDE DEF rest, w, N, out
  <2>7. \A u \in work[s] : u.token = t.token => u = t
    BY DEF TokensDiffer
  <2>8. ASSUME NEW p, At(v, n, p, unread, held, pending, w, got)
        PROVE  p \in W /\ (p = old => Comes(v, n, s, rest.el, rest.sent))
    <3>1. CASE \E u \in DOMAIN graph : \E z \in w[u] :
                  Comes(v, n, u, z.el, z.sent) /\ p = <<"work", u, z.token>>
      <4>1. PICK u \in DOMAIN graph : \E z \in w[u] :
                  Comes(v, n, u, z.el, z.sent) /\ p = <<"work", u, z.token>>
        BY <3>1
      <4>2. PICK z \in w[u] : Comes(v, n, u, z.el, z.sent) /\ p = <<"work", u, z.token>>
        BY <4>1
      <4>3. CASE u = s /\ z = rest
        <5>1. Comes(v, n, s, t.el, t.sent) /\ p = old
          BY <2>3, <2>5, <4>2, <4>3
        <5>2. At(v, n, p, unread, held, pending, work, got)
          BY <5>1 DEF At
        <5>3. QED
          BY <1>1, <4>2, <4>3, <5>2
      <4>4. CASE ~(u = s /\ z = rest)
        <5>1. z \in work[u] /\ (u = s => z # t)
          BY <2>2, <4>2, <4>4
        <5>2. At(v, n, p, unread, held, pending, work, got)
          BY <4>2, <5>1 DEF At
        <5>3. p # old
          BY <2>7, <4>2, <5>1
        <5>4. QED
          BY <1>1, <5>2, <5>3
      <4>5. QED
        BY <4>3, <4>4
    <3>2. CASE \/ \E k \in unread : n \in Span[Data[k]] /\ p = <<"data", k, 0>>
               \/ \E r \in Connection :
                     held[r] # NoElement /\ n \in Span[held[r]] /\ p = <<"held", r, 0>>
               \/ \E u \in DOMAIN graph :
                     pending[u] # NoElement /\ Comes(v, n, u, pending[u], 0)
                        /\ p = <<"pending", u, 0>>
               \/ \E i \in DOMAIN got[v] : n \in Span[got[v][i]] /\ p = <<"got", i, 0>>
      <4>1. p # old
        BY <3>2
      <4>2. At(v, n, p, unread, held, pending, work, got)
        BY <3>2 DEF At
      <4>3. QED
        BY <1>1, <4>1, <4>2
    <3>3. QED
      BY <2>8, <3>1, <3>2 DEF At
  <2>9. Comes(v, n, s, t.el, t.sent) => old \in W
    BY <1>1 DEF At
  <2>10. CASE n \in Span[out.el] /\ out.chan \in Upstream(graph, v)
    <3>1. old \in W /\ \A p \in V : p = NewPlace(to) \/ (p \in W /\ p # old)
      BY <2>4, <2>6, <2>8, <2>9, <2>10
    <3> HIDE DEF old
    <3>2. Moved
      BY <3>1, Moving
    <3>3. QED
      BY <3>2
  <2>11. CASE ~(n \in Span[out.el] /\ out.chan \in Upstream(graph, v))
    BY <2>4, <2>8, <2>11
  <2>12. QED
    BY <2>10, <2>11
<1>8. ASSUME NEW s \in DOMAIN graph, NEW t \in work[s], Finish(s, t) PROVE V \subseteq W
  <2>1. /\ \A u \in DOMAIN graph : work'[u] \subseteq work[u]
        /\ UNCHANGED <<held, pending, got>> /\ WasRead' = WasRead
    BY <1>8, GraphType DEF Finish, TypeOK, sourceVars, WasRead
  <2>2. QED
    BY <1>1, <1>2, <2>1 DEF At
<1>9. ASSUME UNCHANGED <<left, held, pending, work, got>> PROVE V \subseteq W
  <2>1. WasRead' = WasRead
    BY <1>9 DEF WasRead
  <2>2. QED
    <3>1. \A p : At(v, n, p, DOMAIN Data \ WasRead', held', pending', work', got')
                    <=> At(v, n, p, unread, held, pending, work, got)
      BY <1>9, <2>1 DEF At
    <3>2. \A p : p \in V => p \in W
      BY <1>1, <1>2, <3>1, Zenon
    <3>3. QED
      BY <3>2
<1>10. QED
  BY <1>3, <1>4, <1>5, <1>6, <1>7, <1>8, <1>9, MovingSteps DEF W, V

\* No step puts a number in a second place.
LEMMA OnePlaceStep ==
    TypeOK /\ LeftIsRest /\ TokensDiffer /\ OnePlace /\ [Next]_vars => OnePlace'
<1> SUFFICES ASSUME TypeOK, LeftIsRest, TokensDiffer, OnePlace, [Next]_vars PROVE OnePlace'
  OBVIOUS
<1>1. topology' = topology /\ Sinks' = Sinks
  BY GraphStays DEF Sinks
<1>2. SUFFICES ASSUME topology \in OneWayGraphs, NEW v \in Sinks, NEW n \in Numbers
               PROVE  \A p, q \in Where(v, n)' : p = q
  BY <1>1 DEF OnePlace, OneWayGraphs, Numbers
<1>3. OneWay(graph) /\ v \in DOMAIN graph
  BY <1>2 DEF OneWayGraphs, graph, Sinks
<1> DEFINE W == Where(v, n)
           V == Where(v, n)'
<1>4. \A p, q \in W : p = q
  BY <1>2 DEF OnePlace
<1>5. V \subseteq W \/ \E old \in W : \E new : V \subseteq (W \ {old}) \union {new}
  BY <1>3, PlaceStep
<1> HIDE DEF W, V
<1>6. \A p, q \in V : p = q
  BY <1>4, <1>5, OneMoves
<1>7. QED
  BY <1>6 DEF V

\* In the beginning nothing is read, and no two elements of the data share a number.
LEMMA OnePlaceInit == Init => OnePlace
<1> SUFFICES ASSUME Init, NEW v \in Sinks, NEW n \in Numbers,
                    NEW p \in Where(v, n), NEW q \in Where(v, n)
             PROVE  p = q
  BY DEF OnePlace
<1>1. TypeOK /\ WasRead = {}
  BY TypeInit DEF Init, WasRead
<1>2. v \in DOMAIN graph
  BY DEF Sinks
<1>3. /\ \A r \in Connection : held[r] = NoElement /\ got[v] = <<>>
      /\ \A s \in DOMAIN graph : pending[s] = NoElement /\ work[s] = {}
  BY <1>1, <1>2, GraphType DEF Init
<1>4. \A z \in Where(v, n) : \E k \in DOMAIN Data : n \in Span[Data[k]] /\ z = <<"data", k, 0>>
  BY <1>1, <1>3, WhereNow DEF At
<1>5. PICK i \in DOMAIN Data : n \in Span[Data[i]] /\ p = <<"data", i, 0>>
  BY <1>4
<1>6. PICK j \in DOMAIN Data : n \in Span[Data[j]] /\ q = <<"data", j, 0>>
  BY <1>4
<1>7. n \in Nat /\ i \in Nat /\ j \in Nat /\ Data[i] \in Element
  BY <1>5, SpanAssumption
<1>8. ~(i < j) /\ ~(j < i)
  BY <1>5, <1>6, <1>7, SpanAssumption DEF Ascending
<1>9. QED
  BY <1>5, <1>6, <1>7, <1>8

\* A sink receives what is made of an element once, whatever the parallelism of the
\* operators, and whatever a Split, a RoundRobin or a Merge does to the order.
THEOREM AlwaysOnce == Spec => []OnlyOnce
<1>1. Init => LeftIsRest /\ TokensDiffer
  <2> SUFFICES ASSUME Init PROVE LeftIsRest /\ TokensDiffer
    OBVIOUS
  <2>1. \A s \in DOMAIN graph : pending[s] = NoElement /\ work[s] = {}
    BY TypeInit, GraphType DEF Init
  <2>2. LeftIsRest
    BY DEF Init, LeftIsRest
  <2>3. QED
    BY <2>1, <2>2 DEF TokensDiffer
<1>2. TypeOK /\ OnePlace => OnlyOnce
  <2> SUFFICES ASSUME TypeOK, OnePlace, topology \in OneWayGraphs, NEW s \in Sinks,
                      NEW i \in DOMAIN got[s]
               PROVE  /\ \A j \in DOMAIN got[s] \ {i} : Span[got[s][i]] \intersect Span[got[s][j]] = {}
                      /\ \A k \in DOMAIN Data \ WasRead :
                            Span[got[s][i]] \intersect Span[Data[k]] = {}
    BY DEF OnlyOnce
  <2>1. got[s] \in Seq(Element)
    BY GraphType DEF TypeOK, Sinks
  <2>2. got[s][i] \in Element
    BY <2>1
  <2>3. ASSUME NEW n \in Span[got[s][i]]
        PROVE  n \in Numbers /\ <<"got", i, 0>> \in Where(s, n)
    <3>1. n \in Numbers
      BY <2>2 DEF Numbers
    <3>2. At(s, n, <<"got", i, 0>>, DOMAIN Data \ WasRead, held, pending, work, got)
      BY DEF At
    <3>3. QED
      BY <3>1, <3>2, WhereNow
  <2>4. ASSUME NEW j \in DOMAIN got[s] \ {i}, NEW n \in Span[got[s][i]] \intersect Span[got[s][j]]
        PROVE  FALSE
    <3>1. At(s, n, <<"got", j, 0>>, DOMAIN Data \ WasRead, held, pending, work, got)
      BY DEF At
    <3>2. <<"got", j, 0>> \in Where(s, n)
      BY <3>1, WhereNow
    <3>3. <<"got", i, 0>> = <<"got", j, 0>>
      BY <2>3, <3>2 DEF OnePlace
    <3>4. QED
      BY <3>3
  <2>5. ASSUME NEW k \in DOMAIN Data \ WasRead, NEW n \in Span[got[s][i]] \intersect Span[Data[k]]
        PROVE  FALSE
    <3>1. At(s, n, <<"data", k, 0>>, DOMAIN Data \ WasRead, held, pending, work, got)
      BY DEF At
    <3>2. <<"data", k, 0>> \in Where(s, n)
      BY <3>1, WhereNow
    <3>3. <<"got", i, 0>> = <<"data", k, 0>>
      BY <2>3, <3>2 DEF OnePlace
    <3>4. QED
      BY <3>3
  <2>6. QED
    BY <2>4, <2>5
<1>3. Spec => [](LeftIsRest /\ TokensDiffer /\ OnePlace)
  BY <1>1, OnePlaceInit, LeftStep, TokensStep, OnePlaceStep, TypeCorrect, PTL DEF Spec
<1>4. QED
  BY <1>2, <1>3, TypeCorrect, PTL

-----------------------------------------------------------------------------
(***************************************************************************)
(* The order of the elements.                                              *)
(***************************************************************************)

\* Without Merge one stage alone sends on a channel, and each output on its own.
LEMMA OneSender ==
    ASSUME TypeOK, KeepsOrder(graph), NEW s \in DOMAIN graph, NEW c \in SetOf(graph[s].outs)
    PROVE  \A u \in DOMAIN graph : c \in SetOf(graph[u].outs) => u = s
<1>1. topology \in DOMAIN Graphs
  BY DEF TypeOK, chosen
<1>2. OneWriter(graph)
  BY <1>1 DEF graph
<1>3. QED
  BY <1>2 DEF OneWriter, KeepsOrder

\* What feeds a stage is its own channel and what feeds the stage that sends on it.
LEMMA UpstreamOfNext ==
    ASSUME TypeOK, KeepsOrder(graph), NEW s \in DOMAIN graph, NEW to \in DOMAIN graph,
           graph[to].in \in SetOf(graph[s].outs)
    PROVE  Upstream(graph, to) \subseteq {graph[to].in} \union Upstream(graph, s)
<1> DEFINE S == {graph[to].in} \union Upstream(graph, s)
<1>1. S \subseteq Channel
  BY GraphType DEF Upstream
<1>2. ASSUME NEW u \in DOMAIN graph, SetOf(graph[u].outs) \intersect S # {}
      PROVE  graph[u].in \in S
  <2>1. CASE graph[to].in \in SetOf(graph[u].outs)
    <3>1. u = s
      BY <2>1, OneSender
    <3>2. QED
      BY <3>1, UpstreamIsClosed
  <2>2. CASE SetOf(graph[u].outs) \intersect Upstream(graph, s) # {}
    BY <2>2, UpstreamIsClosed
  <2>3. QED
    BY <1>2, <2>1, <2>2
<1>3. Feeds(graph, S, to)
  BY <1>2 DEF Feeds
<1>4. QED
  BY <1>1, <1>3 DEF Upstream

\* Nothing feeds a stage at the source but the source.
LEMMA UpstreamOfFirst ==
    ASSUME TypeOK, NEW s \in DOMAIN graph, graph[s].in = Src
    PROVE  Upstream(graph, s) \subseteq {Src}
<1>1. \A u \in DOMAIN graph : SetOf(graph[u].outs) \intersect {Src} = {}
  BY GraphType
<1>2. Feeds(graph, {Src}, s)
  BY <1>1 DEF Feeds
<1>3. QED
  BY <1>2 DEF Upstream

\* Number n is still to come to stage v, when the variables have these values.
Ahead(v, n, unread, inHand, waiting, working) ==
    \/ \E k \in unread : n \in Span[Data[k]]
    \/ \E r \in Connection : inHand[r] # NoElement /\ n \in Span[inHand[r]]
    \/ \E s \in DOMAIN graph : waiting[s] # NoElement /\ Comes(v, n, s, waiting[s], 0)
    \/ \E s \in DOMAIN graph : \E t \in working[s] : Comes(v, n, s, t.el, t.sent)

\* Membership in Behind, for any values of the variables.
LEMMA AheadOf ==
    ASSUME TypeOK, NEW v, NEW n, NEW unread, NEW inHand,
           NEW waiting \in [Stage -> Element \union {NoElement}],
           NEW working \in [Stage -> SUBSET [el : Element, sent : Nat, token : Nat]],
           NEW B,
           B = (UNION {Span[Data[k]] : k \in unread})
                 \union (UNION {Span[inHand[r]] : r \in {q \in Connection : inHand[q] # NoElement}})
                 \union (UNION {ToCome(u, waiting[u], 0, Upstream(graph, v)) :
                                   u \in {w \in DOMAIN graph : waiting[w] # NoElement}})
                 \union (UNION {UNION {ToCome(u, t.el, t.sent, Upstream(graph, v)) : t \in working[u]} :
                                   u \in DOMAIN graph})
    PROVE  n \in B <=> Ahead(v, n, unread, inHand, waiting, working)
<1>1. \A s \in DOMAIN graph : waiting[s] # NoElement =>
          (Comes(v, n, s, waiting[s], 0) <=> n \in ToCome(s, waiting[s], 0, Upstream(graph, v)))
  BY ComesType, GraphType
<1>2. \A s \in DOMAIN graph : \A t \in working[s] :
          Comes(v, n, s, t.el, t.sent) <=> n \in ToCome(s, t.el, t.sent, Upstream(graph, v))
  BY ComesType, GraphType
<1> DEFINE P == UNION {Span[Data[k]] : k \in unread}
           Q == UNION {Span[inHand[r]] : r \in {q \in Connection : inHand[q] # NoElement}}
           R == UNION {ToCome(u, waiting[u], 0, Upstream(graph, v)) :
                          u \in {w \in DOMAIN graph : waiting[w] # NoElement}}
           T(u) == UNION {ToCome(u, t.el, t.sent, Upstream(graph, v)) : t \in working[u]}
           S == UNION {T(u) : u \in DOMAIN graph}
<1>3. n \in P <=> \E k \in unread : n \in Span[Data[k]]
  OBVIOUS
<1>4. n \in Q <=> \E r \in Connection : inHand[r] # NoElement /\ n \in Span[inHand[r]]
  OBVIOUS
<1>5. n \in R <=> \E s \in DOMAIN graph : waiting[s] # NoElement /\ Comes(v, n, s, waiting[s], 0)
  BY <1>1
<1>6. n \in S <=> \E s \in DOMAIN graph : \E t \in working[s] : Comes(v, n, s, t.el, t.sent)
  <2>1. \A u \in DOMAIN graph :
            n \in T(u) <=> \E t \in working[u] : n \in ToCome(u, t.el, t.sent, Upstream(graph, v))
    OBVIOUS
  <2>2. n \in S <=> \E u \in DOMAIN graph : n \in T(u)
    <3> HIDE DEF T
    <3>1. QED
      OBVIOUS
  <2>3. QED
    BY <1>2, <2>1, <2>2
<1>7. B = P \union Q \union R \union S
  OBVIOUS
<1> HIDE DEF P, Q, R, S
<1>8. QED
  BY <1>3, <1>4, <1>5, <1>6, <1>7 DEF Ahead

\* What is still to come to a stage before a step,
LEMMA BehindNow ==
    ASSUME TypeOK, NEW v, NEW n
    PROVE  n \in Behind(v) <=> Ahead(v, n, DOMAIN Data \ WasRead, held, pending, work)
<1>1. /\ pending \in [Stage -> Element \union {NoElement}]
      /\ work \in [Stage -> SUBSET [el : Element, sent : Nat, token : Nat]]
  BY DEF TypeOK
<1>2. QED
  BY <1>1, AheadOf DEF Behind

\* and after it.
LEMMA BehindNext ==
    ASSUME TypeOK, [Next]_vars, NEW v, NEW n
    PROVE  n \in Behind(v)' <=> Ahead(v, n, DOMAIN Data \ WasRead', held', pending', work')
<1>1. TypeOK' /\ graph' = graph
  BY TypeStep, GraphStays
<1>2. /\ pending' \in [Stage -> Element \union {NoElement}]
      /\ work' \in [Stage -> SUBSET [el : Element, sent : Nat, token : Nat]]
  BY <1>1 DEF TypeOK
<1> DEFINE B == (UNION {Span[Data[k]] : k \in DOMAIN Data \ WasRead'})
                 \union (UNION {Span[held'[r]] : r \in {q \in Connection : held'[q] # NoElement}})
                 \union (UNION {ToCome(u, pending'[u], 0, Upstream(graph, v)) :
                                   u \in {w \in DOMAIN graph : pending'[w] # NoElement}})
                 \union (UNION {UNION {ToCome(u, t.el, t.sent, Upstream(graph, v)) : t \in work'[u]} :
                                   u \in DOMAIN graph})
<1>3. Behind(v)' = B
  <2> HIDE DEF graph
  <2>1. QED
    BY <1>1 DEF Behind, ToCome, Outstanding, Sends
<1>4. n \in B <=> Ahead(v, n, DOMAIN Data \ WasRead', held', pending', work')
  BY <1>2, AheadOf
<1>5. QED
  BY <1>3, <1>4

\* What a stage takes may be on its way to stage v then; all else was before.
LEMMA TakesAhead ==
    ASSUME TypeOK, NEW s \in DOMAIN graph, NEW y \in Element,
           NEW w \in [Stage -> SUBSET [el : Element, sent : Nat, token : Nat]], Takes(s, y, w),
           NEW v \in DOMAIN graph, NEW n, NEW unread, NEW inHand,
           Ahead(v, n, unread, inHand, pending', work')
    PROVE  \/ Ahead(v, n, unread, inHand, pending, w)
           \/ Comes(v, n, s, y, 0)
<1>1. \A u \in DOMAIN graph \ {s} :
          pending'[u] = pending[u] /\ work'[u] = w[u] /\ got'[u] = got[u]
  BY Taking
<1>2. ASSUME NEW u \in DOMAIN graph, pending'[u] # NoElement, Comes(v, n, u, pending'[u], 0)
      PROVE  \/ Ahead(v, n, unread, inHand, pending, w)
             \/ Comes(v, n, s, y, 0)
  <2>1. CASE pending'[u] = pending[u]
    BY <1>2, <2>1 DEF Ahead
  <2>2. CASE pending'[u] # pending[u]
    <3>1. u = s /\ pending'[s] = y
      BY <1>1, <2>2, Taking
    <3>2. Comes(v, n, s, y, 0)
      BY <1>2, <3>1
    <3>3. QED
      BY <3>2
  <2>3. QED
    BY <2>1, <2>2
<1>3. ASSUME NEW u \in DOMAIN graph, NEW t \in work'[u], Comes(v, n, u, t.el, t.sent)
      PROVE  \/ Ahead(v, n, unread, inHand, pending, w)
             \/ Comes(v, n, s, y, 0)
  <2>1. CASE t \in w[u]
    BY <1>3, <2>1 DEF Ahead
  <2>2. CASE t \notin w[u]
    <3> DEFINE fresh == [el |-> y, sent |-> 0, token |-> 1]
    <3>1. u = s
      BY <1>1, <1>3, <2>2
    <3>2. work'[s] = {fresh}
      BY <1>3, <2>2, <3>1, Taking
    <3>3. fresh.el = y /\ fresh.sent = 0
      OBVIOUS
    <3> HIDE DEF fresh
    <3>4. t = fresh
      BY <1>3, <3>1, <3>2
    <3>5. QED
      BY <1>3, <3>1, <3>3, <3>4
  <2>3. QED
    BY <2>1, <2>2
<1>4. CASE \/ \E k \in unread : n \in Span[Data[k]]
           \/ \E r \in Connection : inHand[r] # NoElement /\ n \in Span[inHand[r]]
  BY <1>4 DEF Ahead
<1>5. QED
  BY <1>2, <1>3, <1>4 DEF Ahead

\* What goroutine t of stage s is to send next was on its way to whatever it feeds.
LEMMA NextWasAhead ==
    ASSUME TypeOK, NEW s \in DOMAIN graph, NEW t \in work[s], More(s, t), NEW v \in DOMAIN graph,
           NextSend(s, t).chan \in Upstream(graph, v), NEW n \in Span[NextSend(s, t).el]
    PROVE  n \in Behind(v)
<1>1. t \in [el : Element, sent : Nat, token : Nat] /\ Len(Sends(s, t.el)) \in Nat
  BY Sending, SendsLength
<1>2. t.sent + 1 \in 1..Len(Sends(s, t.el)) /\ t.sent + 1 > t.sent
  BY <1>1 DEF More
<1>3. Comes(v, n, s, t.el, t.sent)
  BY <1>2 DEF Comes, NextSend
<1>4. QED
  BY <1>3, BehindNow DEF Ahead

\* What is ahead once an output is sent, but for what the stage takes that gets it.
LEMMA SentAhead ==
    ASSUME TypeOK, NEW s \in DOMAIN graph, NEW t \in work[s], NEW v \in DOMAIN graph, NEW n,
           Ahead(v, n, DOMAIN Data \ WasRead, held, pending, Sent(s, t))
    PROVE  n \in Behind(v)
<1> DEFINE rest == [t EXCEPT !.sent = @ + 1]
           w == Sent(s, t)
<1>1. /\ t \in [el : Element, sent : Nat, token : Nat]
      /\ w[s] = (work[s] \ {t}) \union {rest}
      /\ \A u \in DOMAIN graph \ {s} : w[u] = work[u]
  BY Sending
<1>2. rest.el = t.el /\ rest.sent = t.sent + 1 /\ t.sent \in Nat /\ Len(Sends(s, t.el)) \in Nat
  BY <1>1, SendsLength
<1>3. \A i \in 1..Len(Sends(s, t.el)) : i > rest.sent => i > t.sent
  BY <1>2
<1>4. Comes(v, n, s, rest.el, rest.sent) => Comes(v, n, s, t.el, t.sent)
  BY <1>2, <1>3 DEF Comes
<1> HIDE DEF rest, w
<1>5. ASSUME NEW u \in DOMAIN graph, NEW z \in w[u], Comes(v, n, u, z.el, z.sent)
      PROVE  \E t2 \in work[u] : Comes(v, n, u, t2.el, t2.sent)
  <2>1. CASE u = s /\ z = rest
    BY <1>4, <1>5, <2>1
  <2>2. CASE ~(u = s /\ z = rest)
    BY <1>1, <1>5, <2>2
  <2>3. QED
    BY <2>1, <2>2
<1>6. Ahead(v, n, DOMAIN Data \ WasRead, held, pending, work)
  BY <1>5 DEF Ahead, w
<1>7. QED
  BY <1>6, BehindNow

\* What is to come to a stage was to come before, whatever the step.
LEMMA BehindStep ==
    ASSUME TypeOK, LeftIsRest, [Next]_vars, NEW v \in DOMAIN graph
    PROVE  Behind(v)' \subseteq Behind(v)
<1> SUFFICES ASSUME NEW n, Ahead(v, n, DOMAIN Data \ WasRead', held', pending', work')
             PROVE  Ahead(v, n, DOMAIN Data \ WasRead, held, pending, work)
  BY BehindNow, BehindNext
<1>1. ASSUME NEW r \in Connection, Read(r)
      PROVE  Ahead(v, n, DOMAIN Data \ WasRead, held, pending, work)
  <2> DEFINE k == Len(Data) - Len(left) + 1
  <2>1. /\ k \in DOMAIN Data /\ k \notin WasRead /\ WasRead' = WasRead \union {k}
        /\ held[r] = NoElement /\ held' = [held EXCEPT ![r] = Data[k]]
    BY <1>1, Reading
  <2>2. UNCHANGED <<pending, work>>
    BY <1>1 DEF Read, stageVars
  <2> HIDE DEF k
  <2>3. held'[r] = Data[k] /\ \A q \in Connection : q # r => held'[q] = held[q]
    BY <2>1 DEF TypeOK
  <2>4. QED
    BY <2>1, <2>2, <2>3 DEF Ahead
<1>2. ASSUME NEW r \in Connection, ReadFails(r)
      PROVE  Ahead(v, n, DOMAIN Data \ WasRead, held, pending, work)
  <2>1. held' = [held EXCEPT ![r] = Zero] /\ WasRead' = WasRead /\ UNCHANGED <<pending, work>>
    BY <1>2 DEF ReadFails, WasRead, stageVars
  <2>2. \A q \in Connection : n \in Span[held'[q]] => held'[q] = held[q]
    BY <2>1, SpanAssumption DEF TypeOK
  <2>3. QED
    BY <2>1, <2>2 DEF Ahead
<1>3. ASSUME NEW r \in Connection, NEW s \in DOMAIN graph, SourceSends(r, s)
      PROVE  Ahead(v, n, DOMAIN Data \ WasRead, held, pending, work)
  <2>1. /\ held[r] \in Element /\ held[r] # NoElement /\ Takes(s, held[r], work)
        /\ work \in [Stage -> SUBSET [el : Element, sent : Nat, token : Nat]]
        /\ held' = [held EXCEPT ![r] = NoElement] /\ WasRead' = WasRead
    BY <1>3 DEF SourceSends, TypeOK, WasRead
  <2>2. \A q \in Connection : held'[q] # NoElement => held'[q] = held[q]
    BY <2>1 DEF TypeOK
  <2>3. CASE n \in Span[held[r]]
    BY <2>1, <2>3 DEF Ahead
  <2>4. CASE n \notin Span[held[r]]
    <3>1. Ahead(v, n, DOMAIN Data \ WasRead', held', pending, work)
      BY <2>1, <2>4, TakesAhead, ComesFrom
    <3>2. QED
      BY <2>1, <2>2, <3>1 DEF Ahead
  <2>5. QED
    BY <2>3, <2>4
<1>4. ASSUME NEW s \in DOMAIN graph, Acquire(s)
      PROVE  Ahead(v, n, DOMAIN Data \ WasRead, held, pending, work)
  <2> DEFINE x == pending[s]
  <2>1. PICK k \in Free(s, graph[s].parallelism) : work' = Started(s, x, k)
    BY <1>4 DEF Acquire
  <2> DEFINE t == [el |-> x, sent |-> 0, token |-> k]
  <2>2. work'[s] = work[s] \union {t} /\ \A u \in DOMAIN graph \ {s} : work'[u] = work[u]
    BY <2>1, GraphType DEF Started, TypeOK
  <2>3. /\ x # NoElement /\ pending'[s] = NoElement
        /\ \A u \in DOMAIN graph \ {s} : pending'[u] = pending[u]
    BY <1>4, GraphType DEF Acquire, TypeOK
  <2>4. held' = held /\ WasRead' = WasRead
    BY <1>4 DEF Acquire, sourceVars, WasRead
  <2>5. t.el = x /\ t.sent = 0
    OBVIOUS
  <2> HIDE DEF t, x
  <2>6. ASSUME NEW u \in DOMAIN graph, NEW z \in work'[u], Comes(v, n, u, z.el, z.sent)
        PROVE  Ahead(v, n, DOMAIN Data \ WasRead, held, pending, work)
    <3>1. CASE z \in work[u]
      BY <2>6, <3>1 DEF Ahead
    <3>2. CASE z \notin work[u]
      <4>1. u = s /\ z = t
        BY <2>2, <2>6, <3>2
      <4>2. Comes(v, n, s, x, 0)
        BY <2>5, <2>6, <4>1
      <4>3. QED
        BY <2>3, <4>2 DEF Ahead, x
    <3>3. QED
      BY <3>1, <3>2
  <2>7. ASSUME NEW u \in DOMAIN graph, pending'[u] # NoElement, Comes(v, n, u, pending'[u], 0)
        PROVE  Ahead(v, n, DOMAIN Data \ WasRead, held, pending, work)
    BY <2>3, <2>7 DEF Ahead
  <2>8. QED
    BY <2>4, <2>6, <2>7 DEF Ahead
<1>5. ASSUME NEW s \in DOMAIN graph, NEW t \in work[s], NEW to \in DOMAIN graph, Send(s, t, to)
      PROVE  Ahead(v, n, DOMAIN Data \ WasRead, held, pending, work)
  <2> DEFINE out == NextSend(s, t)
             w == Sent(s, t)
  <2>1. /\ out.el \in Element /\ Takes(to, out.el, w) /\ graph[to].in = out.chan
        /\ More(s, t) /\ held' = held /\ WasRead' = WasRead
    BY <1>5, NextSendType DEF Send, Receives, sourceVars, WasRead
  <2>2. w \in [Stage -> SUBSET [el : Element, sent : Nat, token : Nat]]
    BY Sending
  <2>3. Ahead(v, n, DOMAIN Data \ WasRead, held, pending', work')
    BY <2>1
  <2>4. CASE n \in Span[out.el] /\ graph[to].in \in Upstream(graph, v)
    BY <2>1, <2>4, NextWasAhead, BehindNow
  <2>5. CASE Ahead(v, n, DOMAIN Data \ WasRead, held, pending, w)
    BY <2>5, SentAhead, BehindNow
  <2> HIDE DEF out, w
  <2>6. QED
    BY <2>1, <2>2, <2>3, <2>4, <2>5, TakesAhead, ComesFrom
<1>6. ASSUME NEW s \in DOMAIN graph, NEW t \in work[s], Finish(s, t)
      PROVE  Ahead(v, n, DOMAIN Data \ WasRead, held, pending, work)
  <2>1. /\ \A u \in DOMAIN graph : work'[u] \subseteq work[u]
        /\ UNCHANGED <<held, pending>> /\ WasRead' = WasRead
    BY <1>6, GraphType DEF Finish, TypeOK, sourceVars, WasRead
  <2>2. QED
    BY <2>1 DEF Ahead
<1>7. ASSUME UNCHANGED <<left, held, pending, work>>
      PROVE  Ahead(v, n, DOMAIN Data \ WasRead, held, pending, work)
  BY <1>7 DEF Ahead, WasRead
<1>8. QED
  BY <1>1, <1>2, <1>3, <1>4, <1>5, <1>6, <1>7, MovingSteps

\* InOrderAt in parts, in a state and after a step.
LEMMA OrderNow ==
    ASSUME TypeOK, NEW s \in DOMAIN graph, InOrderAt(s)
    PROVE  /\ \A t \in work[s] : Ascending(Span[t.el], Behind(s))
           /\ pending[s] # NoElement => Ascending(Span[pending[s]], Behind(s))
           /\ \A i \in DOMAIN got[s] : Ascending(Span[got[s][i]], Behind(s))
           /\ \A t \in work[s] :
                 pending[s] # NoElement => Ascending(Span[t.el], Span[pending[s]])
           /\ \A i, j \in DOMAIN got[s] : i < j => Ascending(Span[got[s][i]], Span[got[s][j]])
<1>1. /\ \A t \in work[s] : t.el \in Has(s)
      /\ pending[s] # NoElement => pending[s] \in Has(s)
      /\ \A i \in DOMAIN got[s] : got[s][i] \in Has(s)
  BY DEF Has, SetOf
<1>2. QED
  BY <1>1 DEF InOrderAt

\* What has to be shown of a stage after a step.
LEMMA OrderNext ==
    ASSUME TypeOK, [Next]_vars, NEW s \in DOMAIN graph,
           \A t \in work'[s] : Ascending(Span[t.el], Behind(s)'),
           pending'[s] # NoElement => Ascending(Span[pending'[s]], Behind(s)'),
           \A i \in DOMAIN got'[s] : Ascending(Span[got'[s][i]], Behind(s)'),
           \A t \in work'[s] :
              pending'[s] # NoElement => Ascending(Span[t.el], Span[pending'[s]]),
           \A i, j \in DOMAIN got'[s] : i < j => Ascending(Span[got'[s][i]], Span[got'[s][j]])
    PROVE  InOrderAt(s)'
<1>1. \A x \in Has(s)' : \/ \E t \in work'[s] : x = t.el
                         \/ x = pending'[s] /\ pending'[s] # NoElement
                         \/ \E i \in DOMAIN got'[s] : x = got'[s][i]
  BY DEF Has, SetOf
<1>2. \A x \in Has(s)' : Ascending(Span[x], Behind(s)')
  BY <1>1
<1>3. QED
  BY <1>2 DEF InOrderAt

\* A stage stays in order when it takes what is behind all it has, and before the rest.
LEMMA TakesInOrder ==
    ASSUME TypeOK, LeftIsRest, TokensDiffer, [Next]_vars, NEW s \in DOMAIN graph, NEW y \in Element,
           NEW w \in [Stage -> SUBSET [el : Element, sent : Nat, token : Nat]], Takes(s, y, w),
           \A u \in DOMAIN graph : \A z \in w[u] : \E t \in work[u] : z.el = t.el,
           \A u \in DOMAIN graph : InOrderAt(u),
           Span[y] \subseteq Behind(s), Ascending(Span[y], Behind(s)'),
           NEW v \in DOMAIN graph
    PROVE  InOrderAt(v)'
<1>1. Behind(v)' \subseteq Behind(v)
  BY BehindStep
<1> DEFINE B == Behind(v)
           C == Behind(v)'
<1>2. /\ \A t \in work[v] : Ascending(Span[t.el], B)
      /\ pending[v] # NoElement => Ascending(Span[pending[v]], B)
      /\ \A i \in DOMAIN got[v] : Ascending(Span[got[v][i]], B)
      /\ \A t \in work[v] : pending[v] # NoElement => Ascending(Span[t.el], Span[pending[v]])
      /\ \A i, j \in DOMAIN got[v] : i < j => Ascending(Span[got[v][i]], Span[got[v][j]])
  BY OrderNow
<1> HIDE DEF B, C
<1>3. \A X, Y : Ascending(X, Y) /\ Y = B => Ascending(X, C)
  BY <1>1 DEF Ascending, B, C
<1>4. \A t \in w[v] : /\ Ascending(Span[t.el], C)
                      /\ pending[v] # NoElement => Ascending(Span[t.el], Span[pending[v]])
                      /\ v = s => Ascending(Span[t.el], Span[y])
  <2> SUFFICES ASSUME NEW t \in w[v]
               PROVE  /\ Ascending(Span[t.el], C)
                      /\ pending[v] # NoElement => Ascending(Span[t.el], Span[pending[v]])
                      /\ v = s => Ascending(Span[t.el], Span[y])
    OBVIOUS
  <2>1. PICK z \in work[v] : t.el = z.el
    OBVIOUS
  <2>2. Ascending(Span[t.el], B)
    BY <1>2, <2>1
  <2>3. v = s => Ascending(Span[t.el], Span[y])
    BY <2>2 DEF Ascending, B
  <2>4. QED
    BY <1>2, <1>3, <2>1, <2>2, <2>3
<1>5. /\ pending[v] # NoElement => Ascending(Span[pending[v]], C)
      /\ \A i \in DOMAIN got[v] : Ascending(Span[got[v][i]], C)
      /\ v = s => \A i \in DOMAIN got[v] : Ascending(Span[got[v][i]], Span[y])
  BY <1>2, <1>3 DEF Ascending, B
<1>6. CASE pending'[v] = pending[v] /\ work'[v] = w[v] /\ got'[v] = got[v]
  BY <1>2, <1>4, <1>5, <1>6, OrderNext DEF C
<1>7. CASE v = s /\ pending'[s] = y /\ work'[s] = w[s] /\ got'[s] = got[s]
  <2>1. Ascending(Span[y], C)
    BY <1>7 DEF C
  <2>2. QED
    BY <1>2, <1>4, <1>5, <1>7, <2>1, OrderNext DEF C
<1>8. CASE v = s /\ pending'[s] = pending[s] /\ work'[s] = w[s] /\ got'[s] = Append(got[s], y)
  <2>1. Ascending(Span[y], C)
    BY <1>8 DEF C
  <2>2. got[s] \in Seq(Element)
    BY GraphType DEF TypeOK
  <2>3. \A i \in DOMAIN got'[s] : i \in DOMAIN got[s] \/ i = Len(got[s]) + 1
    BY <1>8, <2>2, Appended
  <2>4. /\ got'[s][Len(got[s]) + 1] = y
        /\ \A i \in DOMAIN got[s] : got'[s][i] = got[s][i] /\ i < Len(got[s]) + 1
    BY <1>8, <2>2, Appended
  <2>5. Len(got[s]) \in Nat /\ DOMAIN got[s] = 1..Len(got[s])
    BY <2>2
  <2>6. \A i \in DOMAIN got'[s] : Ascending(Span[got'[s][i]], C)
    BY <1>5, <1>8, <2>1, <2>3, <2>4
  <2>7. ASSUME NEW i \in DOMAIN got'[s], NEW j \in DOMAIN got'[s], i < j
        PROVE  Ascending(Span[got'[s][i]], Span[got'[s][j]])
    <3>1. i \in DOMAIN got[s] /\ got'[s][i] = got[s][i]
      BY <2>3, <2>4, <2>5, <2>7
    <3>2. CASE j \in DOMAIN got[s]
      BY <1>2, <1>8, <2>4, <2>7, <3>1, <3>2
    <3>3. CASE j = Len(got[s]) + 1
      BY <1>5, <1>8, <2>4, <3>1, <3>3
    <3>4. QED
      BY <2>3, <3>2, <3>3
  <2>8. QED
    BY <1>4, <1>5, <1>8, <2>6, <2>7, OrderNext DEF C
<1>9. CASE /\ v = s /\ pending'[s] = pending[s] /\ got'[s] = got[s]
           /\ work'[s] = {[el |-> y, sent |-> 0, token |-> 1]}
           /\ graph[s].kind \notin Operator
  <2>1. \A t \in work'[s] : t.el = y
    BY <1>9
  <2>2. Ascending(Span[y], C)
    BY <1>9 DEF C
  <2>3. pending[s] = NoElement
    BY <1>9 DEF TokensDiffer
  <2>4. QED
    BY <1>2, <1>5, <1>9, <2>1, <2>2, <2>3, OrderNext DEF C
<1>10. \A k \in Pump \union {"split", "fanOut"} : k \notin Operator
  BY DEF Pump, Operator
<1>11. QED
  BY <1>6, <1>7, <1>8, <1>9, <1>10, Taking

\* A source that keeps the order has read what is held before all that is left.
LEMMA HeldStep ==
    ASSUME TypeOK, LeftIsRest, [Next]_vars,
           \A r \in Connection, k \in DOMAIN Data \ WasRead :
              held[r] # NoElement => Ascending(Span[held[r]], Span[Data[k]]),
           NEW r \in Connection, NEW k \in DOMAIN Data \ WasRead', held'[r] # NoElement
    PROVE  Ascending(Span[held'[r]], Span[Data[k]])
<1>1. ASSUME NEW q \in Connection, Read(q) PROVE Ascending(Span[held'[r]], Span[Data[k]])
  <2> DEFINE m == Len(Data) - Len(left) + 1
  <2>1. /\ m \in DOMAIN Data /\ WasRead' = WasRead \union {m}
        /\ held' = [held EXCEPT ![q] = Data[m]]
    BY <1>1, Reading
  <2>2. m < k
    <3>1. Len(Data) \in Nat /\ DOMAIN Data = 1..Len(Data) /\ Len(left) \in Nat
      BY DEF TypeOK
    <3>2. k \in 1..Len(Data) /\ k \notin 1..(Len(Data) - Len(left)) /\ k # m
      BY <2>1, <3>1 DEF WasRead
    <3>3. QED
      BY <3>1, <3>2 DEF LeftIsRest
  <2> HIDE DEF m
  <2>3. CASE r = q
    <3>1. held'[r] = Data[m]
      BY <2>1, <2>3 DEF TypeOK
    <3>2. QED
      BY <2>1, <2>2, <3>1, SpanAssumption
  <2>4. CASE r # q
    BY <2>1, <2>4 DEF TypeOK
  <2>5. QED
    BY <2>3, <2>4
<1>2. ASSUME NEW q \in Connection, ReadFails(q) PROVE Ascending(Span[held'[r]], Span[Data[k]])
  <2>1. WasRead' = WasRead /\ (held'[r] = held[r] \/ held'[r] = Zero)
    BY <1>2 DEF ReadFails, WasRead, TypeOK
  <2>2. CASE held'[r] = Zero
    BY <2>2, SpanAssumption DEF Ascending
  <2>3. QED
    BY <2>1, <2>2
<1>3. ASSUME NEW q \in Connection, NEW s \in DOMAIN graph, SourceSends(q, s)
      PROVE  Ascending(Span[held'[r]], Span[Data[k]])
  <2>1. WasRead' = WasRead /\ held'[r] = held[r]
    BY <1>3 DEF SourceSends, WasRead, TypeOK
  <2>2. QED
    BY <2>1
<1>4. CASE UNCHANGED <<left, held>>
  BY <1>4 DEF WasRead
<1>5. QED
  BY <1>1, <1>2, <1>3, <1>4, MovingSteps DEF Acquire, Send, Finish, sourceVars

\* What a source sends is before all that it has not sent, and nothing else comes to a
\* stage at the source.
LEMMA SourceInOrder ==
    ASSUME TypeOK, LeftIsRest, SourceInv, source # "net", [Next]_vars,
           \A r \in Connection, k \in DOMAIN Data \ WasRead :
              held[r] # NoElement => Ascending(Span[held[r]], Span[Data[k]]),
           NEW r \in Connection, NEW s \in DOMAIN graph, SourceSends(r, s)
    PROVE  /\ Span[held[r]] \subseteq Behind(s)
           /\ Ascending(Span[held[r]], Behind(s)')
<1>1. /\ held[r] # NoElement /\ graph[s].in = Src
      /\ held' = [held EXCEPT ![r] = NoElement] /\ WasRead' = WasRead
  BY DEF SourceSends, Receives, WasRead
<1>2. Span[held[r]] \subseteq Behind(s)
  BY <1>1, BehindNow DEF Ahead
<1>3. \A q \in Connection : held'[q] = NoElement
  <2>1. \A q \in Connection : held[q] # NoElement => q = r
    BY <1>1 DEF SourceInv, Reader
  <2>2. QED
    BY <1>1, <2>1 DEF TypeOK
<1>4. TypeOK'
  BY TypeStep
<1>5. ASSUME NEW u \in DOMAIN graph, NEW x \in Element, NEW k, NEW n, Comes(s, n, u, x, k)
      PROVE  FALSE
  <2>1. PICK i \in 1..Len(Sends(u, x)) : Sends(u, x)[i].chan \in Upstream(graph, s)
    BY <1>5 DEF Comes
  <2>2. Sends(u, x)[i].chan = Src
    BY <1>1, <2>1, UpstreamOfFirst
  <2>3. QED
    BY <2>2, SendsType, GraphType
<1>6. \A u \in DOMAIN graph : /\ pending'[u] \in Element \union {NoElement}
                              /\ \A t \in work'[u] : t.el \in Element
  BY <1>4, GraphType DEF TypeOK
<1>7. ASSUME NEW n \in Behind(s)' PROVE \E k \in DOMAIN Data \ WasRead : n \in Span[Data[k]]
  <2>1. Ahead(s, n, DOMAIN Data \ WasRead', held', pending', work')
    BY BehindNext
  <2>2. \A u \in DOMAIN graph : pending'[u] # NoElement => ~Comes(s, n, u, pending'[u], 0)
    BY <1>5, <1>6
  <2>3. \A u \in DOMAIN graph : \A t \in work'[u] : ~Comes(s, n, u, t.el, t.sent)
    BY <1>5, <1>6
  <2>4. QED
    BY <1>1, <1>3, <2>1, <2>2, <2>3 DEF Ahead
<1>8. QED
  BY <1>1, <1>2, <1>7 DEF Ascending

\* What a stage sends next is before all that it and those in front of it have not sent.
LEMMA SendInOrder ==
    ASSUME TypeOK, LeftIsRest, TokensDiffer, KeepsOrder(graph), [Next]_vars,
           NEW s \in DOMAIN graph, InOrderAt(s),
           NEW t \in work[s], NEW to \in DOMAIN graph, Send(s, t, to)
    PROVE  /\ Span[NextSend(s, t).el] \subseteq Behind(to)
           /\ Ascending(Span[NextSend(s, t).el], Behind(to)')
<1> DEFINE out == NextSend(s, t)
           rest == [t EXCEPT !.sent = @ + 1]
           w == Sent(s, t)
           N == Len(Sends(s, t.el))
<1>1. /\ out.el \in Element /\ Takes(to, out.el, w) /\ graph[to].in = out.chan
      /\ More(s, t) /\ held' = held /\ WasRead' = WasRead
      /\ out.chan \in SetOf(graph[s].outs) /\ Receives(to, out.chan)
  BY NextSendType DEF Send, Receives, sourceVars, WasRead
<1>2. /\ w \in [Stage -> SUBSET [el : Element, sent : Nat, token : Nat]]
      /\ t \in [el : Element, sent : Nat, token : Nat]
      /\ w[s] = (work[s] \ {t}) \union {rest}
      /\ \A u \in DOMAIN graph \ {s} : w[u] = work[u]
  BY Sending
<1>3. /\ t.sent \in Nat /\ t.el \in Element /\ N \in Nat /\ t.sent + 1 \in 1..N
      /\ out = Sends(s, t.el)[t.sent + 1]
      /\ rest.el = t.el /\ rest.sent = t.sent + 1
  BY <1>1, <1>2, SendsLength DEF More, NextSend
<1>4. Span[out.el] \subseteq Behind(to)
  BY <1>1, UpstreamIsClosed, NextWasAhead
<1>5. Span[out.el] \subseteq Span[t.el]
  BY <1>3, OutputSpan
<1>6. Ascending(Span[t.el], Behind(s))
  BY OrderNow
<1>7. work[s] = {t}
  <2>1. Tokens(s) = {1}
    BY GraphType DEF Tokens, KeepsOrder
  <2>2. QED
    BY <2>1 DEF TokensDiffer
<1>8. Upstream(graph, to) \subseteq {out.chan} \union Upstream(graph, s)
  BY <1>1, UpstreamOfNext
<1> HIDE DEF out, rest, w, N
<1>9. ASSUME NEW n, Ahead(to, n, DOMAIN Data \ WasRead, held, pending, w),
             NEW m \in Span[out.el]
      PROVE  m < n
  <2>1. CASE n \in Behind(s)
    BY <1>5, <1>6, <1>9, <2>1 DEF Ascending
  <2>2. CASE \/ \E k \in DOMAIN Data \ WasRead : n \in Span[Data[k]]
             \/ \E r \in Connection : held[r] # NoElement /\ n \in Span[held[r]]
    <3>1. n \in Behind(s)
      BY <2>2, BehindNow DEF Ahead
    <3>2. QED
      BY <2>1, <3>1
  <2>3. ASSUME NEW u \in DOMAIN graph, pending[u] # NoElement, Comes(to, n, u, pending[u], 0)
        PROVE  m < n
    <3>1. pending[u] \in Element
      BY <2>3, GraphType DEF TypeOK
    <3>2. PICK i \in 1..Len(Sends(u, pending[u])) :
              /\ i > 0 /\ Sends(u, pending[u])[i].chan \in Upstream(graph, to)
              /\ n \in Span[Sends(u, pending[u])[i].el]
      BY <2>3 DEF Comes
    <3>3. CASE Sends(u, pending[u])[i].chan \in Upstream(graph, s)
      <4>1. Comes(s, n, u, pending[u], 0)
        BY <3>2, <3>3 DEF Comes
      <4>2. n \in Behind(s)
        BY <2>3, <4>1, BehindNow DEF Ahead
      <4>3. QED
        BY <2>1, <4>2
    <3>4. CASE Sends(u, pending[u])[i].chan = out.chan
      <4>1. u = s
        BY <1>1, <3>1, <3>4, SendsType, OneSender
      <4>2. n \in Span[pending[s]]
        BY <3>1, <3>2, <4>1, OutputSpan
      <4>3. Ascending(Span[t.el], Span[pending[s]])
        BY <2>3, <4>1, OrderNow
      <4>4. QED
        BY <1>5, <1>9, <4>2, <4>3 DEF Ascending
    <3>5. QED
      BY <1>8, <3>2, <3>3, <3>4
  <2>4. ASSUME NEW u \in DOMAIN graph, NEW z \in w[u], Comes(to, n, u, z.el, z.sent)
        PROVE  m < n
    <3>1. z.el \in Element
      BY <1>2, GraphType
    <3>2. PICK i \in 1..Len(Sends(u, z.el)) :
              /\ i > z.sent /\ Sends(u, z.el)[i].chan \in Upstream(graph, to)
              /\ n \in Span[Sends(u, z.el)[i].el]
      BY <2>4 DEF Comes
    <3>3. CASE Sends(u, z.el)[i].chan \in Upstream(graph, s)
      <4>1. Comes(s, n, u, z.el, z.sent)
        BY <3>2, <3>3 DEF Comes
      <4>2. Ahead(s, n, DOMAIN Data \ WasRead, held, pending, w)
        BY <4>1 DEF Ahead
      <4>3. n \in Behind(s)
        BY <4>2, SentAhead DEF w
      <4>4. QED
        BY <2>1, <4>3
    <3>4. CASE Sends(u, z.el)[i].chan = out.chan
      <4>1. u = s
        BY <1>1, <3>1, <3>4, SendsType, OneSender
      <4>2. z = rest
        BY <1>2, <1>7, <4>1
      <4>3. /\ i \in 1..N /\ t.sent + 1 < i /\ n \in Span[Sends(s, t.el)[i].el]
            /\ Sends(s, t.el)[i].chan = out.chan
        BY <1>3, <3>2, <3>4, <4>1, <4>2 DEF N
      <4>4. graph[s].kind # "fanOut"
        <5>1. ASSUME graph[s].kind = "fanOut" PROVE FALSE
          <6>1. graph[s].outs \in Seq(Channel)
            BY GraphType
          <6>2. Sends(s, t.el) = [j \in DOMAIN graph[s].outs |-> To(graph[s].outs[j], t.el)]
            BY <5>1 DEF Sends, Outputs, FanOut, Pump, Operator
          <6>3. /\ i \in DOMAIN graph[s].outs /\ t.sent + 1 \in DOMAIN graph[s].outs
                /\ graph[s].outs[i] = graph[s].outs[t.sent + 1]
            BY <1>3, <4>3, <6>1, <6>2 DEF To, N
          <6>4. topology \in DOMAIN Graphs
            BY DEF TypeOK, chosen
          <6>5. i = t.sent + 1
            BY <6>3, <6>4 DEF graph
          <6>6. QED
            BY <1>3, <4>3, <6>5
        <5>2. QED
          BY <5>1
      <4>5. Ascending(Span[out.el], Span[Sends(s, t.el)[i].el])
        BY <1>3, <4>3, <4>4, OutputsAscend DEF N
      <4>6. QED
        BY <1>9, <4>3, <4>5 DEF Ascending
    <3>5. QED
      BY <1>8, <3>2, <3>3, <3>4
  <2>5. QED
    BY <1>9, <2>2, <2>3, <2>4 DEF Ahead
<1>10. ASSUME NEW n, Comes(to, n, to, out.el, 0), NEW m \in Span[out.el] PROVE m < n
  <2>1. PICK i \in 1..Len(Sends(to, out.el)) :
            /\ i > 0 /\ Sends(to, out.el)[i].chan \in Upstream(graph, to)
            /\ n \in Span[Sends(to, out.el)[i].el]
    BY <1>10 DEF Comes
  <2>2. n \in Span[out.el]
    BY <1>1, <2>1, OutputSpan
  <2>3. out.chan \in Upstream(graph, s)
    <3>1. CASE Sends(to, out.el)[i].chan \in Upstream(graph, s)
      <4>1. Comes(s, n, to, out.el, 0)
        BY <2>1, <3>1 DEF Comes
      <4>2. QED
        BY <1>1, <4>1, ComesFrom
    <3>2. CASE Sends(to, out.el)[i].chan = out.chan
      <4>1. to = s
        BY <1>1, <3>2, SendsType, OneSender
      <4>2. QED
        BY <1>1, <4>1, UpstreamIsClosed
    <3>3. QED
      BY <1>8, <2>1, <3>1, <3>2
  <2>4. n \in Behind(s)
    BY <1>1, <2>2, <2>3, NextWasAhead DEF out
  <2>5. QED
    BY <1>5, <1>6, <1>10, <2>4 DEF Ascending
<1>11. ASSUME NEW n \in Behind(to)', NEW m \in Span[out.el] PROVE m < n
  <2>1. Ahead(to, n, DOMAIN Data \ WasRead, held, pending', work')
    BY <1>1, BehindNext
  <2>2. \/ Ahead(to, n, DOMAIN Data \ WasRead, held, pending, w)
        \/ Comes(to, n, to, out.el, 0)
    BY <1>1, <1>2, <2>1, TakesAhead
  <2>3. QED
    BY <1>9, <1>10, <1>11, <2>2
<1>12. QED
  BY <1>4, <1>11 DEF Ascending, out

\* Every step keeps the order.
LEMMA OrderStep ==
    TypeOK /\ LeftIsRest /\ TokensDiffer /\ SourceInv /\ InOrder /\ [Next]_vars => InOrder'
<1> SUFFICES ASSUME TypeOK, LeftIsRest, TokensDiffer, SourceInv, InOrder, [Next]_vars,
                    KeepsOrder(graph), source # "net"
             PROVE  /\ \A r \in Connection, k \in DOMAIN Data \ WasRead' :
                          held'[r] # NoElement => Ascending(Span[held'[r]], Span[Data[k]])
                    /\ \A v \in DOMAIN graph : InOrderAt(v)'
  BY GraphStays DEF InOrder
<1>1. /\ \A r \in Connection, k \in DOMAIN Data \ WasRead :
            held[r] # NoElement => Ascending(Span[held[r]], Span[Data[k]])
      /\ \A v \in DOMAIN graph : InOrderAt(v)
  BY DEF InOrder
<1>2. \A r \in Connection, k \in DOMAIN Data \ WasRead' :
          held'[r] # NoElement => Ascending(Span[held'[r]], Span[Data[k]])
  BY <1>1, HeldStep
<1>3. ASSUME NEW v \in DOMAIN graph, got'[v] = got[v],
             pending'[v] # NoElement => pending'[v] = pending[v],
             \A t \in work'[v] : \E z \in work[v] : z.el = t.el
      PROVE  InOrderAt(v)'
  <2>1. Behind(v)' \subseteq Behind(v)
    BY BehindStep
  <2>2. \A X : Ascending(X, Behind(v)) => Ascending(X, Behind(v)')
    BY <2>1 DEF Ascending
  <2>3. /\ \A t \in work[v] : Ascending(Span[t.el], Behind(v))
        /\ pending[v] # NoElement => Ascending(Span[pending[v]], Behind(v))
        /\ \A i \in DOMAIN got[v] : Ascending(Span[got[v][i]], Behind(v))
        /\ \A t \in work[v] :
              pending[v] # NoElement => Ascending(Span[t.el], Span[pending[v]])
        /\ \A i, j \in DOMAIN got[v] : i < j => Ascending(Span[got[v][i]], Span[got[v][j]])
    BY <1>1, OrderNow
  <2>4. QED
    BY <1>3, <2>2, <2>3, OrderNext
<1>4. ASSUME NEW r \in Connection, NEW s \in DOMAIN graph, SourceSends(r, s)
      PROVE  \A v \in DOMAIN graph : InOrderAt(v)'
  <2>1. /\ held[r] \in Element /\ Takes(s, held[r], work)
        /\ work \in [Stage -> SUBSET [el : Element, sent : Nat, token : Nat]]
    BY <1>4 DEF SourceSends, TypeOK
  <2>2. Span[held[r]] \subseteq Behind(s) /\ Ascending(Span[held[r]], Behind(s)')
    BY <1>1, <1>4, SourceInOrder
  <2>3. QED
    BY <1>1, <2>1, <2>2, TakesInOrder
<1>5. ASSUME NEW s \in DOMAIN graph, Acquire(s) PROVE \A v \in DOMAIN graph : InOrderAt(v)'
  <2> DEFINE x == pending[s]
  <2>1. PICK k \in Free(s, graph[s].parallelism) : work' = Started(s, x, k)
    BY <1>5 DEF Acquire
  <2> DEFINE t == [el |-> x, sent |-> 0, token |-> k]
  <2>2. work'[s] = work[s] \union {t} /\ \A u \in DOMAIN graph \ {s} : work'[u] = work[u]
    BY <2>1, GraphType DEF Started, TypeOK
  <2>3. /\ x # NoElement /\ pending'[s] = NoElement
        /\ \A u \in DOMAIN graph \ {s} : pending'[u] = pending[u]
    BY <1>5, GraphType DEF Acquire, TypeOK
  <2>4. got' = got
    BY <1>5 DEF Acquire
  <2>5. t.el = x
    OBVIOUS
  <2> HIDE DEF t
  <2>6. InOrderAt(s)'
    <3>1. Behind(s)' \subseteq Behind(s)
      BY BehindStep
    <3>2. \A X : Ascending(X, Behind(s)) => Ascending(X, Behind(s)')
      BY <3>1 DEF Ascending
    <3>3. /\ \A z \in work[s] : Ascending(Span[z.el], Behind(s))
          /\ Ascending(Span[x], Behind(s))
          /\ \A i \in DOMAIN got[s] : Ascending(Span[got[s][i]], Behind(s))
          /\ \A i, j \in DOMAIN got[s] : i < j => Ascending(Span[got[s][i]], Span[got[s][j]])
      BY <1>1, <2>3, OrderNow
    <3>4. \A z \in work'[s] : Ascending(Span[z.el], Behind(s)')
      BY <2>2, <2>5, <3>2, <3>3
    <3>5. QED
      BY <2>3, <2>4, <3>2, <3>3, <3>4, OrderNext
  <2>7. ASSUME NEW v \in DOMAIN graph, v # s PROVE InOrderAt(v)'
    BY <1>3, <2>2, <2>3, <2>4, <2>7
  <2>8. QED
    BY <2>6, <2>7
<1>6. ASSUME NEW s \in DOMAIN graph, NEW t \in work[s], NEW to \in DOMAIN graph, Send(s, t, to)
      PROVE  \A v \in DOMAIN graph : InOrderAt(v)'
  <2> DEFINE out == NextSend(s, t)
             w == Sent(s, t)
             rest == [t EXCEPT !.sent = @ + 1]
  <2>1. out.el \in Element /\ Takes(to, out.el, w)
    BY <1>6, NextSendType DEF Send
  <2>2. /\ w \in [Stage -> SUBSET [el : Element, sent : Nat, token : Nat]]
        /\ t \in [el : Element, sent : Nat, token : Nat]
        /\ w[s] = (work[s] \ {t}) \union {rest}
        /\ \A u \in DOMAIN graph \ {s} : w[u] = work[u]
    BY Sending
  <2>3. rest.el = t.el
    BY <2>2
  <2>4. Span[out.el] \subseteq Behind(to) /\ Ascending(Span[out.el], Behind(to)')
    BY <1>1, <1>6, SendInOrder
  <2> HIDE DEF out, w, rest
  <2>5. \A u \in DOMAIN graph : \A z \in w[u] : \E z2 \in work[u] : z.el = z2.el
    BY <2>2, <2>3
  <2>6. QED
    BY <1>1, <2>1, <2>2, <2>4, <2>5, TakesInOrder
<1>7. ASSUME NEW s \in DOMAIN graph, NEW t \in work[s], Finish(s, t)
      PROVE  \A v \in DOMAIN graph : InOrderAt(v)'
  <2>1. /\ \A u \in DOMAIN graph : work'[u] \subseteq work[u]
        /\ UNCHANGED <<pending, got>>
    BY <1>7, GraphType DEF Finish, TypeOK
  <2>2. QED
    BY <1>3, <2>1
<1>8. ASSUME UNCHANGED <<pending, work, got>> PROVE \A v \in DOMAIN graph : InOrderAt(v)'
  BY <1>3, <1>8
<1>9. QED
  BY <1>2, <1>4, <1>5, <1>6, <1>7, <1>8, MovingSteps DEF Read, ReadFails, stageVars

\* "In case the events order matters, use parallelism = 1" (map.go): then, and without
\* Merge, what a sink receives keeps the order of what the source read, whatever the graph.
THEOREM AlwaysInOrder == Spec => []OrderIsKept
<1>1. Init => LeftIsRest /\ TokensDiffer /\ SourceInv /\ InOrder
  <2> SUFFICES ASSUME Init PROVE LeftIsRest /\ TokensDiffer /\ SourceInv /\ InOrder
    OBVIOUS
  <2>1. /\ \A s \in DOMAIN graph : pending[s] = NoElement /\ work[s] = {} /\ got[s] = <<>>
        /\ \A r \in Connection : held[r] = NoElement
    BY TypeInit, GraphType DEF Init
  <2>2. LeftIsRest
    BY DEF Init, LeftIsRest
  <2>3. TokensDiffer
    BY <2>1 DEF TokensDiffer
  <2>4. SourceInv
    BY <2>1 DEF SourceInv, Init
  <2>5. \A s \in DOMAIN graph : InOrderAt(s)
    BY <2>1 DEF InOrderAt, Has, SetOf
  <2>6. QED
    BY <2>1, <2>2, <2>3, <2>4, <2>5 DEF InOrder
<1>2. TypeOK /\ InOrder => OrderIsKept
  BY DEF InOrder, InOrderAt, OrderIsKept, Sinks
<1>3. Spec => [](LeftIsRest /\ TokensDiffer /\ SourceInv /\ InOrder)
  BY <1>1, LeftStep, TokensStep, SourceStepKeeps, OrderStep, TypeCorrect, PTL DEF Spec
<1>4. QED
  BY <1>2, <1>3, TypeCorrect, PTL

=============================================================================
