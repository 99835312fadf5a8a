------------------------------- MODULE Streams -------------------------------
(***************************************************************************)
(* Streams of elements (pkg/streams): a source, flows and sinks, connected *)
(* by unbuffered channels.  A stage is a goroutine, or an operator with    *)
(* the goroutines it starts: it ranges over one channel, sends what it     *)
(* makes of each element to others and closes them when its own channel    *)
(* has been closed.  The graph of stages is a value, and so is the kind of *)
(* the source; both are chosen once.                                       *)
(*                                                                         *)
(* A send meets a receive: one step moves an element from the hands of one *)
(* goroutine to another's.  A send on a closed channel is a panic, which   *)
(* ends the process.                                                       *)
(***************************************************************************)
EXTENDS Naturals, Sequences, FiniteSets

CONSTANTS
    Stage,      \* names of stages
    Channel,    \* names of channels
    Src,        \* the channel that the source sends to
    Element,    \* what is sent
    Zero,       \* the empty message that a Kafka source makes of an error
    NoElement,
    Graphs,     \* by name, the graphs of stages: functions from stages to records
    Setups,     \* pairs of a graph's name and a kind of source
    Connection, \* the goroutines of a net source; the others have one
    Data,       \* what there is to read
    MaxErrors,  \* bound: read errors of a Kafka source, the context's end among them
    Yield,      \* by setup, what the flows may make of it on each channel
    Traces,     \* by graph, ways of an element: on each channel, what is on one
    Span        \* numbers of an element and of all that is made of it, as they were read

Operator == {"map", "filter", "flatMap"}
Pump == {"transmit", "passThrough", "merge", "roundRobin"}
Kind == Operator \union Pump \union {"split", "fanOut", "sink"}

SetOf(seq) == {seq[i] : i \in DOMAIN seq}

\* image is the function of an operator, and for a filter or a split <<x>> or <<>>.
StageRecord ==
    [kind : Kind, in : Channel, outs : Seq(Channel), parallelism : Nat,
     image : [Element -> Seq(Element)]]

Writers(g, c) == {s \in DOMAIN g : c \in SetOf(g[s].outs)}

\* Only the goroutines of one Merge share a channel that they send to.
OneWriter(g) ==
    \A s, t \in DOMAIN g :
        s # t /\ SetOf(g[s].outs) \intersect SetOf(g[t].outs) # {}
            => g[s].kind = "merge" /\ g[t].kind = "merge"

\* Each flow that a stage sends to has a channel of its own.
ASSUME StreamsAssumption ==
    /\ Src \in Channel /\ Zero \in Element /\ NoElement \notin Element
    /\ Connection # {}
    /\ \A n \in DOMAIN Graphs :
          /\ DOMAIN Graphs[n] \subseteq Stage
          /\ \A s \in DOMAIN Graphs[n] :
                /\ Graphs[n][s] \in StageRecord
                /\ Src \notin SetOf(Graphs[n][s].outs)
                /\ \A i, j \in DOMAIN Graphs[n][s].outs :
                      Graphs[n][s].outs[i] = Graphs[n][s].outs[j] => i = j
                /\ Graphs[n][s].kind # "sink" => Graphs[n][s].outs # <<>>
                /\ Graphs[n][s].kind = "split" => Len(Graphs[n][s].outs) = 2
          /\ OneWriter(Graphs[n])
    /\ Setups \subseteq (DOMAIN Graphs) \X {"file", "redis", "webSocket", "kafka", "net"}
    /\ Data \in Seq(Element) /\ MaxErrors \in Nat

VARIABLES
    topology,   \* the name of the graph
    source,     \* the kind of the source
    left,       \* data not read yet
    held,       \* what each goroutine of the source has read and not yet sent
    errors,     \* read errors of a Kafka source so far; of a web socket, the first
    cancelled,  \* whether the source's context has ended
    closed,     \* the channels that are closed
    pending,    \* the element an operator waits with for its semaphore
    work,       \* elements in work, with the number of outputs sent and the token
    done,       \* stages that have come to their end
    got,        \* what each stage received, kept for sinks
    crashed     \* whether a goroutine has panicked

chosen == <<topology, source>>
sourceVars == <<left, held, errors, cancelled>>
stageVars == <<pending, work, done, got>>
vars == <<chosen, sourceVars, stageVars, closed, crashed>>

graph == Graphs[topology]

Reader == IF source = "net" THEN Connection ELSE {CHOOSE r \in Connection : TRUE}

TypeOK ==
    /\ chosen \in Setups
    /\ left \in Seq(Element)
    /\ held \in [Connection -> Element \union {NoElement}]
    /\ errors \in Nat /\ cancelled \in BOOLEAN
    /\ closed \subseteq Channel
    /\ pending \in [Stage -> Element \union {NoElement}]
    /\ work \in [Stage -> SUBSET [el : Element, sent : Nat, token : Nat]]
    /\ done \subseteq Stage
    /\ got \in [Stage -> Seq(Element)]
    /\ crashed \in BOOLEAN

Init ==
    /\ \E setup \in Setups : topology = setup[1] /\ source = setup[2]
    /\ left = Data
    /\ held = [r \in Connection |-> NoElement]
    /\ errors = 0 /\ cancelled = FALSE
    /\ closed = {}
    /\ pending = [s \in Stage |-> NoElement]
    /\ work = [s \in Stage |-> {}]
    /\ done = {}
    /\ got = [s \in Stage |-> <<>>]
    /\ crashed = FALSE

-----------------------------------------------------------------------------
(* What a stage sends for an element, in order. *)

To(c, y) == [chan |-> c, el |-> y]

Transformed(stage, x) == [i \in DOMAIN stage.image[x] |-> To(stage.outs[1], stage.image[x][i])]

Forwarded(stage, x) == <<To(stage.outs[1], x)>>

Split(stage, x) == <<To(stage.outs[IF stage.image[x] # <<>> THEN 1 ELSE 2], x)>>

FanOut(stage, x) == [i \in DOMAIN stage.outs |-> To(stage.outs[i], x)]

Outputs(stage, x) ==
    CASE stage.kind \in Operator -> Transformed(stage, x)
      [] stage.kind \in Pump -> Forwarded(stage, x)
      [] stage.kind = "split" -> Split(stage, x)
      [] stage.kind = "fanOut" -> FanOut(stage, x)
      [] OTHER -> <<>>

Sends(s, x) == Outputs(graph[s], x)

(* What the properties follow the elements by. *)

\* Yield is large enough for all that is read and all that is made of it.
ASSUME YieldAssumption ==
    /\ Yield \in [Setups -> [Channel -> SUBSET Element]]
    /\ \A setup \in Setups :
          LET g == Graphs[setup[1]]
          IN /\ SetOf(Data) \subseteq Yield[setup][Src]
             /\ setup[2] = "kafka" => Zero \in Yield[setup][Src]
             /\ \A s \in DOMAIN g : \A x \in Yield[setup][g[s].in] :
                   \A i \in DOMAIN Outputs(g[s], x) :
                       LET out == Outputs(g[s], x)[i] IN out.el \in Yield[setup][out.chan]

\* A trace goes on with an output of every stage that an element of it may come to.
ASSUME TracesAssumption ==
    /\ Traces \in [DOMAIN Graphs -> SUBSET [Channel -> SUBSET Element]]
    /\ \A n \in DOMAIN Graphs : \A trace \in Traces[n], s \in DOMAIN Graphs[n] :
          \A x \in trace[Graphs[n][s].in] :
              \/ Graphs[n][s].kind = "sink"
              \/ \E i \in DOMAIN Outputs(Graphs[n][s], x) :
                    LET out == Outputs(Graphs[n][s], x)[i] IN out.el \in trace[out.chan]

Ascending(A, B) == \A a \in A, b \in B : a < b

\* Elements know where they come from: those that are read have numbers in the order of
\* their reading, and what an operator makes of one has some of its numbers, in order.
ASSUME SpanAssumption ==
    /\ Span \in [Element -> SUBSET Nat] /\ Span[Zero] = {}
    /\ \A i, j \in DOMAIN Data : i < j => Ascending(Span[Data[i]], Span[Data[j]])
    /\ \A n \in DOMAIN Graphs : \A s \in DOMAIN Graphs[n] :
          Graphs[n][s].kind \in Operator =>
              \A x \in Element :
                  LET ys == Graphs[n][s].image[x]
                  IN /\ \A i \in DOMAIN ys : Span[ys[i]] \subseteq Span[x]
                     /\ \A i, j \in DOMAIN ys : i < j => Ascending(Span[ys[i]], Span[ys[j]])

More(s, t) == t.sent < Len(Sends(s, t.el))
NextSend(s, t) == Sends(s, t.el)[t.sent + 1]

-----------------------------------------------------------------------------
(* The source. *)

\* A select may choose a message although the context has ended; a Kafka reader
\* returns the context's error instead, and a net connection may outlive it.  A web
\* socket that has failed is read again, and fails again.
ReadsOn ==
    /\ source \in {"redis", "net"} \/ ~cancelled
    /\ source = "webSocket" => errors = 0

Read(r) ==
    /\ r \in Reader /\ held[r] = NoElement /\ left # <<>> /\ ReadsOn
    /\ Src \notin closed \/ source = "net"
    /\ held' = [held EXCEPT ![r] = Head(left)]
    /\ left' = Tail(left)
    /\ UNCHANGED <<chosen, errors, cancelled, stageVars, closed, crashed>>

\* consume logs the error and sends the empty message all the same.
ReadFails(r) ==
    /\ source = "kafka" /\ r \in Reader /\ held[r] = NoElement
    /\ errors < MaxErrors
    /\ held' = [held EXCEPT ![r] = Zero]
    /\ errors' = errors + 1
    /\ UNCHANGED <<chosen, left, cancelled, stageVars, closed, crashed>>

\* The loop logs the error and goes on with the failed connection.
ConnectionFails ==
    /\ source = "webSocket" /\ errors = 0 /\ Src \notin closed
    /\ \A r \in Reader : held[r] = NoElement
    /\ errors' = 1
    /\ UNCHANGED <<chosen, left, held, cancelled, stageVars, closed, crashed>>

\* The library panics in the end when a failed connection is read again and again.
RepeatedReadPanics ==
    /\ source = "webSocket" /\ errors > 0 /\ Src \notin closed
    /\ crashed' = TRUE
    /\ UNCHANGED <<chosen, sourceVars, stageVars, closed>>

\* A file source has no context.
Cancel ==
    /\ source # "file" /\ ~cancelled
    /\ cancelled' = TRUE
    /\ UNCHANGED <<chosen, left, held, errors, stageVars, closed, crashed>>

\* The loops of these sources close the channel behind their last send; that of a web
\* socket when its peer says so or the context ends, but not when the connection fails.
EndOfLoop ==
    /\ \A r \in Reader : held[r] = NoElement
    /\ \/ source = "file" /\ left = <<>>
       \/ source = "webSocket" /\ left = <<>> /\ errors = 0
       \/ source \in {"redis", "webSocket"} /\ cancelled

\* Another goroutine than the one that sends closes the channel.
ClosedFromOutside == source \in {"kafka", "net"} /\ cancelled

CloseSource ==
    /\ Src \notin closed
    /\ EndOfLoop \/ ClosedFromOutside
    /\ closed' = closed \union {Src}
    /\ UNCHANGED <<chosen, sourceVars, stageVars, crashed>>

SourcePanics(r) ==
    /\ held[r] # NoElement /\ Src \in closed
    /\ crashed' = TRUE
    /\ UNCHANGED <<chosen, sourceVars, stageVars, closed>>

-----------------------------------------------------------------------------
(* The stages. *)

\* The goroutine is at the head of its loop over c.
Receives(s, c) ==
    /\ graph[s].in = c /\ s \notin done
    /\ pending[s] = NoElement
    /\ graph[s].kind \in Operator \/ work[s] = {}

\* Stage s takes y; w is what the stages have in work before that.
Takes(s, y, w) ==
    \/ /\ graph[s].kind \in Operator
       /\ pending' = [pending EXCEPT ![s] = y]
       /\ work' = w
       /\ UNCHANGED <<done, got>>
    \/ /\ graph[s].kind = "sink"
       /\ got' = [got EXCEPT ![s] = Append(@, y)]
       /\ work' = w
       /\ UNCHANGED <<pending, done>>
    \/ /\ graph[s].kind \in Pump \union {"split", "fanOut"}
       /\ work' = [w EXCEPT ![s] = {[el |-> y, sent |-> 0, token |-> 1]}]
       /\ UNCHANGED <<pending, done, got>>

SourceSends(r, s) ==
    /\ held[r] # NoElement /\ Src \notin closed /\ Receives(s, Src)
    /\ held' = [held EXCEPT ![r] = NoElement]
    /\ Takes(s, held[r], work)
    /\ UNCHANGED <<chosen, left, errors, cancelled, closed, crashed>>

\* The tokens of a semaphore of size p that no goroutine of the operator has.
Free(s, p) == {k \in 1..p : \A t \in work[s] : t.token # k}

Started(s, x, k) == [work EXCEPT ![s] = @ \union {[el |-> x, sent |-> 0, token |-> k]}]

\* Seeded fault: the new goroutine refers to the loop's variable.
AcquireByReference(s) ==
    /\ pending[s] # NoElement
    /\ pending' = [pending EXCEPT ![s] = NoElement]
    /\ \E k \in Free(s, graph[s].parallelism) : work' = Started(s, pending'[s], k)
    /\ UNCHANGED <<chosen, sourceVars, done, got, closed, crashed>>

\* Seeded fault: one element more than the semaphore has room for.
AcquireOneMore(s) ==
    /\ pending[s] # NoElement
    /\ \E k \in Free(s, graph[s].parallelism + 1) : work' = Started(s, pending[s], k)
    /\ pending' = [pending EXCEPT ![s] = NoElement]
    /\ UNCHANGED <<chosen, sourceVars, done, got, closed, crashed>>

\* Seeded fault: the last token of the semaphore is never used.
AcquireOneLess(s) ==
    /\ pending[s] # NoElement
    /\ \E k \in Free(s, graph[s].parallelism - 1) : work' = Started(s, pending[s], k)
    /\ pending' = [pending EXCEPT ![s] = NoElement]
    /\ UNCHANGED <<chosen, sourceVars, done, got, closed, crashed>>

\* Seeded fault: a goroutine is started for every token, with the same element.
AcquireAgain(s) ==
    /\ pending[s] # NoElement
    /\ \E k \in Free(s, graph[s].parallelism) :
          /\ work' = Started(s, pending[s], k)
          /\ pending' = [pending EXCEPT ![s] = IF Free(s, graph[s].parallelism) = {k}
                                                 THEN NoElement ELSE @]
    /\ UNCHANGED <<chosen, sourceVars, done, got, closed, crashed>>

Acquire(s) ==
    /\ pending[s] # NoElement
    /\ \E k \in Free(s, graph[s].parallelism) : work' = Started(s, pending[s], k)
    /\ pending' = [pending EXCEPT ![s] = NoElement]
    /\ UNCHANGED <<chosen, sourceVars, done, got, closed, crashed>>

Sent(s, t) == [work EXCEPT ![s] = (@ \ {t}) \union {[t EXCEPT !.sent = @ + 1]}]

Send(s, t, to) ==
    /\ t \in work[s] /\ More(s, t)
    /\ LET out == NextSend(s, t)
       IN /\ out.chan \notin closed /\ Receives(to, out.chan)
          /\ Takes(to, out.el, Sent(s, t))
    /\ UNCHANGED <<chosen, sourceVars, closed, crashed>>

StagePanics(s, t) ==
    /\ t \in work[s] /\ More(s, t)
    /\ NextSend(s, t).chan \in closed
    /\ crashed' = TRUE
    /\ UNCHANGED <<chosen, sourceVars, stageVars, closed>>

\* A goroutine of an operator gives its token back.
Finish(s, t) ==
    /\ t \in work[s] /\ ~More(s, t)
    /\ work' = [work EXCEPT ![s] = @ \ {t}]
    /\ UNCHANGED <<chosen, sourceVars, pending, done, got, closed, crashed>>

\* Seeded fault: an operator does not take all the tokens before it ends.
EndWithoutTokens(s) ==
    /\ s \notin done /\ graph[s].in \in closed
    /\ pending[s] = NoElement
    /\ done' = done \union {s}
    /\ UNCHANGED <<chosen, sourceVars, pending, work, got, closed, crashed>>

\* The loop has ended and, for an operator, all the tokens are taken.
End(s) ==
    /\ s \notin done /\ graph[s].in \in closed
    /\ pending[s] = NoElement /\ work[s] = {}
    /\ done' = done \union {s}
    /\ UNCHANGED <<chosen, sourceVars, pending, work, got, closed, crashed>>

\* Seeded fault: Merge closes its channel as soon as one of its goroutines ends.
CloseAfterFirst(c) ==
    /\ c \notin closed /\ Writers(graph, c) \intersect done # {}
    /\ closed' = closed \union {c}
    /\ UNCHANGED <<chosen, sourceVars, stageVars, crashed>>

\* By the one stage that writes to c, or by Merge's goroutine behind the wait group.
Close(c) ==
    /\ c \notin closed /\ Writers(graph, c) # {}
    /\ Writers(graph, c) \subseteq done
    /\ closed' = closed \union {c}
    /\ UNCHANGED <<chosen, sourceVars, stageVars, crashed>>

-----------------------------------------------------------------------------
StageStep(s) ==
    \/ Acquire(s)
    \/ End(s)
    \/ \E t \in work[s] :
           \/ \E to \in DOMAIN graph : Send(s, t, to)
           \/ StagePanics(s, t)
           \/ Finish(s, t)

SourceStep(r) ==
    \/ Read(r)
    \/ ReadFails(r)
    \/ SourcePanics(r)
    \/ \E s \in DOMAIN graph : SourceSends(r, s)

Next ==
    /\ ~crashed
    /\ \/ Cancel
       \/ ConnectionFails
       \/ RepeatedReadPanics
       \/ CloseSource
       \/ \E r \in Connection : SourceStep(r)
       \/ \E s \in DOMAIN graph : StageStep(s)
       \/ \E c \in Channel : Close(c)

Spec == Init /\ [][Next]_vars

\* Goroutines that can run do run, whichever comes first: a stream has an end.
Progress ==
    /\ ~crashed
    /\ \/ CloseSource
       \/ \E r \in Connection, s \in DOMAIN graph : SourceSends(r, s)
       \/ \E s \in DOMAIN graph : StageStep(s)
       \/ \E c \in Channel : Close(c)

FairSpec == Spec /\ WF_vars(Progress)

-----------------------------------------------------------------------------
Sinks == {s \in DOMAIN graph : graph[s].kind = "sink"}

\* The positions of the data that were read; left is the rest.
WasRead == 1..(Len(Data) - Len(left))

\* The channels from which stage v gets what it gets: the least set that has its input
\* and, with a channel, the inputs of those that write to it.
Feeds(g, S, v) ==
    /\ g[v].in \in S
    /\ \A s \in DOMAIN g : SetOf(g[s].outs) \intersect S # {} => g[s].in \in S
Upstream(g, v) == {c \in Channel : \A S \in SUBSET Channel : Feeds(g, S, v) => c \in S}

\* No two branches of a FanOut meet again.
OneWay(g) ==
    \A v, s \in DOMAIN g : g[s].kind = "fanOut" =>
        \A i, j \in DOMAIN g[s].outs :
            {g[s].outs[i], g[s].outs[j]} \subseteq Upstream(g, v) => i = j
OneWayGraphs == {n \in DOMAIN Graphs : OneWay(Graphs[n])}

KeepsOrder(g) ==
    \A s \in DOMAIN g :
        g[s].kind # "merge" /\ (g[s].kind \in Operator => g[s].parallelism = 1)

(* No flow ever panics (pkg/streams/flow), and of the sources only two kinds *)
(* do: one whose channel another goroutine closes than the one that sends    *)
(* (Kafka, net), and that at a shutdown in the middle of a send; and a web   *)
(* socket whose connection has failed, with nothing in hand.                 *)
PanicsOnlyInSources ==
    crashed =>
        \/ /\ source \in {"kafka", "net"} /\ cancelled
           /\ \E r \in Connection : held[r] # NoElement
        \/ /\ source = "webSocket" /\ errors > 0
           /\ \A r \in Connection : held[r] = NoElement

\* Every way of an element that was read ends in a sink, once the stream has come to its
\* end: neither the parallelism nor the way the source ended has lost any.  And nothing is
\* anywhere that the flows do not make of what was read.
SinksAreComplete ==
    /\ \A s \in DOMAIN graph : SetOf(got[s]) \subseteq Yield[chosen][graph[s].in]
    /\ done = DOMAIN graph /\ (\A r \in Connection : held[r] = NoElement) =>
          \A trace \in Traces[topology] :
              (\E k \in WasRead : Data[k] \in trace[Src]) =>
                  \E s \in Sinks : SetOf(got[s]) \intersect trace[graph[s].in] # {}

\* A sink receives what is made of an element once, and never before it was read: no two
\* goroutines have the same element, in a graph in which no branches of a FanOut meet.
OnlyOnce ==
    topology \in OneWayGraphs => \A s \in Sinks : \A i \in DOMAIN got[s] :
        /\ \A j \in DOMAIN got[s] \ {i} : Span[got[s][i]] \intersect Span[got[s][j]] = {}
        /\ \A k \in DOMAIN Data \ WasRead : Span[got[s][i]] \intersect Span[Data[k]] = {}

\* "In case the events order matters, use parallelism = 1" (map.go:36 and the same in
\* filter.go and flat_map.go): behind operators of parallelism 1, and without Merge, what
\* is made of the elements arrives in the order in which they were read.
OrderIsKept ==
    KeepsOrder(graph) /\ source # "net" => \A s \in Sinks : \A i, j \in DOMAIN got[s] :
        i < j => Ascending(Span[got[s][i]], Span[got[s][j]])

(* What makes it so: a channel is closed behind all those that send to it,  *)
(* and a stage has ended only with its input closed and nothing in hand.    *)
ClosedBehindWriters ==
    /\ \A c \in closed \ {Src} : Writers(graph, c) \subseteq done
    /\ \A s \in done : /\ s \in DOMAIN graph /\ graph[s].in \in closed
                       /\ pending[s] = NoElement /\ work[s] = {}

(* Once the source has closed its channel every stage comes to its end: no  *)
(* split, merge, fan-out or full operator blocks another for good.          *)
Drains ==
    Src \in closed ~> (crashed \/ done = DOMAIN graph)

-----------------------------------------------------------------------------
(***************************************************************************)
(* The inductive invariants behind SinksAreComplete, OnlyOnce and          *)
(* OrderIsKept.                                                            *)
(***************************************************************************)
LeftIsRest ==
    /\ Len(left) <= Len(Data)
    /\ \A i \in DOMAIN left : left[i] = Data[Len(Data) - Len(left) + i]

\* An operator has the tokens of its semaphore, any other stage has one goroutine.
Tokens(s) == IF graph[s].kind \in Operator THEN 1..graph[s].parallelism ELSE {1}

TokensDiffer ==
    \A s \in DOMAIN graph :
        /\ \A t, u \in work[s] : t.token = u.token => t = u
        /\ \A t \in work[s] : t.token \in Tokens(s)
        /\ pending[s] # NoElement => graph[s].kind \in Operator

\* Nothing is anywhere that is not in Yield.
NothingInvented ==
    /\ \A r \in Connection : held[r] # NoElement => held[r] \in Yield[chosen][Src]
    /\ \A s \in DOMAIN graph :
          /\ pending[s] # NoElement => pending[s] \in Yield[chosen][graph[s].in]
          /\ \A t \in work[s] : t.el \in Yield[chosen][graph[s].in]
          /\ SetOf(got[s]) \subseteq Yield[chosen][graph[s].in]

\* The outputs that stage s has still to send for x, when k have been sent.
Outstanding(s, x, k) == {Sends(s, x)[i] : i \in (k + 1)..Len(Sends(s, x))}

\* Something on the trace is on its way, or has come to a sink.
OnTrace(trace) ==
    \/ \E r \in Connection : held[r] # NoElement /\ held[r] \in trace[Src]
    \/ \E s \in DOMAIN graph :
          \/ pending[s] # NoElement /\ pending[s] \in trace[graph[s].in]
          \/ \E t \in work[s] : \E out \in Outstanding(s, t.el, t.sent) : out.el \in trace[out.chan]
          \/ s \in Sinks /\ SetOf(got[s]) \intersect trace[graph[s].in] # {}

TracesGoOn ==
    \A trace \in Traces[topology] :
        (\E k \in WasRead : Data[k] \in trace[Src]) => OnTrace(trace)

\* The numbers that stage s has still to send on channels of C, when it has sent k of the
\* outputs for x.
ToCome(s, x, k, C) == UNION {Span[out.el] : out \in {o \in Outstanding(s, x, k) : o.chan \in C}}

\* Where number n is, among what was not read and what may come to stage v.
Where(v, n) ==
    {<<"data", k, 0>> : k \in {i \in DOMAIN Data \ WasRead : n \in Span[Data[i]]}}
        \union {<<"held", r, 0>> : r \in {q \in Connection :
                    held[q] # NoElement /\ n \in Span[held[q]]}}
        \union {<<"pending", s, 0>> : s \in {u \in DOMAIN graph :
                    pending[u] # NoElement
                        /\ n \in ToCome(u, pending[u], 0, Upstream(graph, v))}}
        \union (UNION {{<<"work", s, t.token>> : t \in {u \in work[s] :
                    n \in ToCome(s, u.el, u.sent, Upstream(graph, v))}} : s \in DOMAIN graph})
        \union {<<"got", i, 0>> : i \in {j \in DOMAIN got[v] : n \in Span[got[v][j]]}}

Numbers == UNION {Span[x] : x \in Element}

OnePlace ==
    topology \in OneWayGraphs =>
        \A v \in Sinks, n \in Numbers : \A p, q \in Where(v, n) : p = q

\* What stage s has or, as a sink, has received.
Has(s) ==
    {t.el : t \in work[s]} \union ({pending[s]} \ {NoElement}) \union SetOf(got[s])

\* The numbers that are still to come to stage s.
Behind(s) ==
    (UNION {Span[Data[k]] : k \in DOMAIN Data \ WasRead})
        \union (UNION {Span[held[r]] : r \in {q \in Connection : held[q] # NoElement}})
        \union (UNION {ToCome(u, pending[u], 0, Upstream(graph, s)) :
                           u \in {w \in DOMAIN graph : pending[w] # NoElement}})
        \union (UNION {UNION {ToCome(u, t.el, t.sent, Upstream(graph, s)) : t \in work[u]} :
                           u \in DOMAIN graph})

\* What stage s has or has received comes in order, and all that is to come is behind it.
InOrderAt(s) ==
    /\ \A x \in Has(s) : Ascending(Span[x], Behind(s))
    /\ \A t \in work[s] :
          pending[s] # NoElement => Ascending(Span[t.el], Span[pending[s]])
    /\ \A i, j \in DOMAIN got[s] : i < j => Ascending(Span[got[s][i]], Span[got[s][j]])

InOrder ==
    KeepsOrder(graph) /\ source # "net" =>
        /\ \A r \in Connection, k \in DOMAIN Data \ WasRead :
              held[r] # NoElement => Ascending(Span[held[r]], Span[Data[k]])
        /\ \A s \in DOMAIN graph : InOrderAt(s)
=============================================================================
