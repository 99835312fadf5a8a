------------------------------ MODULE MCStreams ------------------------------
(* Instances of Streams for TLC.  Elements are numbers: 10, 20, 30 are read, *)
(* and the functions of the operators add a digit, so that the order of      *)
(* what a sink received can be read off.                                     *)
EXTENDS Streams

MCElement == {0, 10, 20, 30, 11, 12, 21, 22, 31, 32, 1, 2}
MCData == <<10, 20, 30>>

MCTwo == [x \in MCElement |-> IF x % 10 = 0 THEN <<x + 1, x + 2>> ELSE <<x>>]
MCKeep == [x \in MCElement |-> IF x \in {12, 21} THEN <<>> ELSE <<x>>]
MCMap == [x \in MCElement |-> IF x % 10 = 0 THEN <<x + 1>> ELSE <<x>>]

MCStage(k, i, o, p, f) == [kind |-> k, in |-> i, outs |-> o, parallelism |-> p, image |-> f]
MCPump(k, i, o) == MCStage(k, i, <<o>>, 1, MCMap)

MCStages == {"a", "b", "c", "d", "e", "f", "g"}
MCChannels == {"src", "c1", "c2", "c3", "c4", "c5", "c6"}

\* source.Via(Map of parallelism 2).To(sink)
MCParallel ==
    [s \in {"a", "b", "c", "d"} |->
        CASE s = "a" -> MCPump("transmit", "src", "c1")
          [] s = "b" -> MCStage("map", "c1", <<"c2">>, 2, MCMap)
          [] s = "c" -> MCPump("transmit", "c2", "c3")
          [] s = "d" -> MCStage("sink", "c3", <<>>, 1, MCMap)]

\* source.Via(FlatMap).Via(Filter).To(sink), parallelism 1
MCOrdered ==
    [s \in {"a", "b", "c", "d", "e", "f"} |->
        CASE s = "a" -> MCPump("transmit", "src", "c1")
          [] s = "b" -> MCStage("flatMap", "c1", <<"c2">>, 1, MCTwo)
          [] s = "c" -> MCPump("transmit", "c2", "c3")
          [] s = "d" -> MCStage("filter", "c3", <<"c4">>, 1, MCKeep)
          [] s = "e" -> MCPump("transmit", "c4", "c5")
          [] s = "f" -> MCStage("sink", "c5", <<>>, 1, MCMap)]

\* Merge of the flows of Split
MCSplit ==
    [s \in {"a", "b", "c", "d", "e", "f", "g"} |->
        CASE s = "a" -> MCStage("split", "src", <<"c1", "c2">>, 1,
                                [x \in MCElement |-> IF x = 20 THEN <<>> ELSE <<x>>])
          [] s = "b" -> MCPump("passThrough", "c1", "c3")
          [] s = "c" -> MCPump("passThrough", "c2", "c4")
          [] s = "d" -> MCPump("merge", "c3", "c5")
          [] s = "e" -> MCPump("merge", "c4", "c5")
          [] s = "f" -> MCPump("passThrough", "c5", "c6")
          [] s = "g" -> MCStage("sink", "c6", <<>>, 1, MCMap)]

\* FanOut to a sink and to an operator with a sink
MCFanOut ==
    [s \in {"a", "b", "c", "d", "e", "f"} |->
        CASE s = "a" -> MCStage("fanOut", "src", <<"c1", "c2">>, 1, MCMap)
          [] s = "b" -> MCPump("passThrough", "c1", "c3")
          [] s = "c" -> MCPump("passThrough", "c2", "c4")
          [] s = "d" -> MCStage("sink", "c3", <<>>, 1, MCMap)
          [] s = "e" -> MCStage("map", "c4", <<"c5">>, 2, MCMap)
          [] s = "f" -> MCStage("sink", "c5", <<>>, 1, MCMap)]

\* Merge of the flows of RoundRobin
MCRoundRobin ==
    [s \in {"a", "b", "c", "d", "e", "f", "g"} |->
        CASE s = "a" -> MCPump("roundRobin", "src", "c1")
          [] s = "b" -> MCPump("roundRobin", "src", "c2")
          [] s = "c" -> MCPump("passThrough", "c1", "c3")
          [] s = "d" -> MCPump("passThrough", "c2", "c4")
          [] s = "e" -> MCPump("merge", "c3", "c5")
          [] s = "f" -> MCPump("merge", "c4", "c5")
          [] s = "g" -> MCStage("sink", "c5", <<>>, 1, MCMap)]

MCGraphs == [parallel |-> MCParallel, ordered |-> MCOrdered, split |-> MCSplit,
             fanOut |-> MCFanOut, roundRobin |-> MCRoundRobin]

\* A source whose channel another goroutine closes is followed through one graph.
MCSetups ==
    ((DOMAIN MCGraphs) \X {"file"})
        \union ({"parallel", "ordered", "split", "fanOut"} \X {"redis"})
        \union ({"parallel", "ordered", "split"} \X {"webSocket"})
        \union ({"parallel"} \X {"kafka", "net"})

-----------------------------------------------------------------------------
(* What becomes of elements, by definitions that know nothing of goroutines. *)

\* All that crosses channel c when the elements of xs are read.
RECURSIVE Crossing(_, _, _)
Crossing(g, c, xs) ==
    IF c = Src THEN xs
    ELSE UNION {UNION {{out.el : out \in {o \in SetOf(Outputs(g[s], x)) : o.chan = c}} :
                           x \in Crossing(g, g[s].in, xs)} : s \in Writers(g, c)}

MCYield ==
    [setup \in MCSetups |->
        [c \in MCChannels |->
            Crossing(MCGraphs[setup[1]], c,
                     SetOf(MCData) \union IF setup[2] = "kafka" THEN {0} ELSE {})]]

\* All that sink v receives when x crosses channel c.
RECURSIVE Becomes(_, _, _, _)
Becomes(g, c, x, v) ==
    IF g[v].in = c THEN {x}
    ELSE UNION {UNION {Becomes(g, out.chan, out.el, v) : out \in SetOf(Outputs(g[s], x))} :
                    s \in {u \in DOMAIN g : g[u].in = c}}

\* For each sink and each element it may receive, the ways that end there so.
MCTraces ==
    [n \in DOMAIN MCGraphs |->
        {[c \in MCChannels |-> {x \in MCElement : y \in Becomes(MCGraphs[n], c, x, v)}] :
            v \in {s \in DOMAIN MCGraphs[n] : MCGraphs[n][s].kind = "sink"}, y \in MCElement}]

\* 10 is read first, and 11 and 12 are made of it; nothing follows from an empty message.
MCSpan == [x \in MCElement |-> CASE x < 10 -> {} [] x % 10 = 0 -> {x + 1, x + 2} [] OTHER -> {x}]
=============================================================================
