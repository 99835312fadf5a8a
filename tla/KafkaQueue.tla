----------------------------- MODULE KafkaQueue -----------------------------
(***************************************************************************)
(* KQueue (pkg/queue/kafka.go): producer goroutines fetch messages of one  *)
(* partition and put them into a bounded channel; processor goroutines     *)
(* take them out, hand each to the consumer's handler and commit it.       *)
(* Messages are their offsets.                                             *)
(*                                                                         *)
(* Start spawns both pools from goroutines of their own and waits for the  *)
(* producers at once.  Whether they have been counted by then is up to the *)
(* Go scheduler: a wait does not see a goroutine that is yet "unborn".     *)
(***************************************************************************)
EXTENDS Integers, Sequences, FiniteSets

CONSTANTS
    Producer,       \* the goroutines that fetch (KafkaConfig.Consumers of them)
    Processor,      \* the goroutines that process (KafkaConfig.Processors)
    QueueCapacity,  \* capacity of the channel
    ForceCommit,    \* KafkaConfig.ForceCommit: commit what the handler failed on
    LogLength,      \* bound: messages in the partition
    MaxSessions     \* bound: how often the process is started

\* NewKQueue sees to the numbers of goroutines and the capacity.
ASSUME QueueAssumption ==
    /\ IsFiniteSet(Producer) /\ Producer # {}
    /\ IsFiniteSet(Processor) /\ Processor # {}
    /\ QueueCapacity \in Nat \ {0} /\ LogLength \in Nat /\ MaxSessions \in Nat
    /\ ForceCommit \in BOOLEAN

VARIABLES
    committed,  \* Kafka: the group's offset, where the next session begins
    main,       \* Start: down, waitProducers, waitConsumers, returned, panicked
    cancelled,  \* whether q.ctx is cancelled
    base,       \* the offset this session began at
    position,   \* the offset FetchMessage returns next
    producer,   \* pc of each producer: unborn, fetching, sending, done
    carrying,   \* the message it fetched last
    channel,    \* q.channel
    closed,     \* whether it is closed
    processor,  \* pc of each processor: unborn, waiting, received, consuming,
                \* committing, done
    holding,    \* the message it took last
    finished,   \* history: messages whose processMessage returned in this session
    handed,     \* history: messages handed to the handler, in any session
    acked,      \* history: messages whose own CommitMessages succeeded
    sessions    \* number of sessions begun

log == <<committed, handed, acked>>
start == <<main, cancelled, base, sessions>>
producers == <<position, producer, carrying>>
processors == <<processor, holding, finished>>
vars == <<log, start, producers, channel, closed, processors>>

Message == 0..(LogLength - 1)

Offset == 0..LogLength

\* A processor between taking a message and being done with it.
Holds(c) == processor[c] \in {"received", "consuming", "committing"}

Up == main \in {"waitProducers", "waitConsumers"}

TypeOK ==
    /\ committed \in Offset /\ base \in Offset /\ position \in Offset
    /\ main \in {"down", "waitProducers", "waitConsumers", "returned", "panicked"}
    /\ cancelled \in BOOLEAN /\ closed \in BOOLEAN
    /\ producer \in [Producer -> {"unborn", "fetching", "sending", "done"}]
    /\ carrying \in [Producer -> Offset]
    /\ \A p \in Producer : producer[p] = "sending" => carrying[p] \in Message
    /\ channel \in Seq(Message) /\ Len(channel) <= QueueCapacity
    /\ processor \in [Processor -> {"unborn", "waiting", "received", "consuming",
                                    "committing", "done"}]
    /\ holding \in [Processor -> Offset]
    /\ \A c \in Processor : Holds(c) => holding[c] \in Message
    /\ finished \in SUBSET Offset /\ handed \in SUBSET Offset /\ acked \in SUBSET Offset
    /\ sessions \in Nat

Init ==
    /\ committed = 0 /\ base = 0 /\ position = 0
    /\ main = "down" /\ cancelled = FALSE /\ closed = FALSE
    /\ producer = [p \in Producer |-> "unborn"]
    /\ carrying = [p \in Producer |-> 0]
    /\ channel = <<>>
    /\ processor = [c \in Processor |-> "unborn"]
    /\ holding = [c \in Processor |-> 0]
    /\ finished = {} /\ handed = {} /\ acked = {}
    /\ sessions = 0

-----------------------------------------------------------------------------
(* A session: NewKQueue, Start, Stop, and the end of the process. *)

\* Goroutines run while the process lives, even when Start has returned.
Alive == main \notin {"down", "panicked"}

\* A new queue, whose reader begins at the group's offset.
Begin ==
    /\ ~Alive /\ sessions < MaxSessions
    /\ main' = "waitProducers" /\ sessions' = sessions + 1
    /\ base' = committed /\ position' = committed
    /\ UNCHANGED <<log, cancelled, producer, carrying, channel, closed, processors>>

SpawnProducer(p) ==
    /\ Alive /\ producer[p] = "unborn"
    /\ producer' = [producer EXCEPT ![p] = "fetching"]
    /\ UNCHANGED <<log, start, position, carrying, channel, closed, processors>>

SpawnProcessor(c) ==
    /\ Alive /\ processor[c] = "unborn"
    /\ processor' = [processor EXCEPT ![c] = "waiting"]
    /\ UNCHANGED <<log, start, producers, channel, closed, holding, finished>>

\* Wait returns when no goroutine that has been counted still runs.
Gone(pool, pc) == \A g \in pool : pc[g] \in {"unborn", "done"}

CloseChannel ==
    /\ main = "waitProducers" /\ Gone(Producer, producer)
    /\ main' = "waitConsumers" /\ closed' = TRUE
    /\ UNCHANGED <<log, cancelled, base, sessions, producers, channel, processors>>

StartReturns ==
    /\ main = "waitConsumers" /\ Gone(Processor, processor)
    /\ main' = "returned"
    /\ UNCHANGED <<log, cancelled, base, sessions, producers, channel, closed, processors>>

Stop ==
    /\ Up /\ ~cancelled
    /\ cancelled' = TRUE
    /\ UNCHANGED <<log, main, base, sessions, producers, channel, closed, processors>>

\* The end of the process: what it had in memory is gone.
Forget ==
    /\ cancelled' = FALSE /\ closed' = FALSE /\ channel' = <<>>
    /\ producer' = [p \in Producer |-> "unborn"]
    /\ carrying' = [p \in Producer |-> 0]
    /\ processor' = [c \in Processor |-> "unborn"]
    /\ holding' = [c \in Processor |-> 0]
    /\ finished' = {}
    /\ UNCHANGED <<log, base, position, sessions>>

\* Nobody waits for Start to return, so the process may end at any time.
Exit == Alive /\ main' = "down" /\ Forget

-----------------------------------------------------------------------------
(* The producers. *)

NextMessage(p) ==
    /\ Alive /\ producer[p] = "fetching" /\ position < LogLength
    /\ producer' = [producer EXCEPT ![p] = "sending"]
    /\ carrying' = [carrying EXCEPT ![p] = position]
    /\ position' = position + 1
    /\ UNCHANGED <<start, channel, closed, processors>>

\* Seeded fault: the reader's ReadMessage, which commits what it returns.
ReadMessage(p) ==
    /\ NextMessage(p)
    /\ committed' = position + 1
    /\ UNCHANGED <<handed, acked>>

Fetch(p) == NextMessage(p) /\ UNCHANGED log

\* Seeded fault: the send does not wait for room in the channel.
SendOrDrop(p) ==
    /\ Alive /\ producer[p] = "sending" /\ ~closed
    /\ producer' = [producer EXCEPT ![p] = "fetching"]
    /\ channel' = IF Len(channel) < QueueCapacity THEN Append(channel, carrying[p])
                                                  ELSE channel
    /\ UNCHANGED <<log, start, position, carrying, closed, processors>>

\* Seeded fault: the channel has no capacity.
SendAlways(p) ==
    /\ Alive /\ producer[p] = "sending" /\ ~closed
    /\ producer' = [producer EXCEPT ![p] = "fetching"]
    /\ channel' = Append(channel, carrying[p])
    /\ UNCHANGED <<log, start, position, carrying, closed, processors>>

Send(p) ==
    /\ Alive /\ producer[p] = "sending" /\ ~closed /\ Len(channel) < QueueCapacity
    /\ producer' = [producer EXCEPT ![p] = "fetching"]
    /\ channel' = Append(channel, carrying[p])
    /\ UNCHANGED <<log, start, position, carrying, closed, processors>>

\* A send on a closed channel; nothing recovers, and the process ends.
SendPanics(p) ==
    /\ Alive /\ producer[p] = "sending" /\ closed
    /\ main' = "panicked" /\ Forget

\* Seeded fault: the send does not select on the context.
ProducerEndsFetching(p) ==
    /\ Alive /\ cancelled /\ producer[p] = "fetching"
    /\ producer' = [producer EXCEPT ![p] = "done"]
    /\ UNCHANGED <<log, start, position, carrying, channel, closed, processors>>

\* Both of a producer's selects look at the context; FetchMessage does as well.
ProducerEnds(p) ==
    /\ Alive /\ cancelled /\ producer[p] \in {"fetching", "sending"}
    /\ producer' = [producer EXCEPT ![p] = "done"]
    /\ UNCHANGED <<log, start, position, carrying, channel, closed, processors>>

-----------------------------------------------------------------------------
(* The processors. *)

\* A message is received from the channel; the handler has yet to be called.
Receive(c) ==
    /\ Alive /\ processor[c] = "waiting" /\ channel # <<>>
    /\ processor' = [processor EXCEPT ![c] = "received"]
    /\ holding' = [holding EXCEPT ![c] = Head(channel)]
    /\ UNCHANGED <<log, start, producers, closed, finished>>

\* Seeded fault: the message stays in the channel.
Peek(c) == Receive(c) /\ UNCHANGED channel

Take(c) == Receive(c) /\ channel' = Tail(channel)

\* The call of the handler, with which the message is handed over.
HandOver(c) ==
    /\ Alive /\ processor[c] = "received"
    /\ processor' = [processor EXCEPT ![c] = "consuming"]
    /\ handed' = handed \union {holding[c]}
    /\ UNCHANGED <<committed, acked, start, producers, channel, closed, holding, finished>>

ConsumeSucceeds(c) ==
    /\ Alive /\ processor[c] = "consuming"
    /\ processor' = [processor EXCEPT ![c] = "committing"]
    /\ UNCHANGED <<log, start, producers, channel, closed, holding, finished>>

\* Seeded fault: the goroutine returns when the handler fails.
ConsumeFailsAndEnds(c) ==
    /\ Alive /\ processor[c] = "consuming"
    /\ processor' = [processor EXCEPT ![c] = IF ForceCommit THEN "committing" ELSE "done"]
    /\ finished' = IF ForceCommit THEN finished ELSE finished \union {holding[c]}
    /\ UNCHANGED <<log, start, producers, channel, closed, holding>>

\* An error of the handler: nothing is committed, unless ForceCommit says so.
ConsumeFails(c) ==
    /\ Alive /\ processor[c] = "consuming"
    /\ processor' = [processor EXCEPT ![c] = IF ForceCommit THEN "committing" ELSE "waiting"]
    /\ finished' = IF ForceCommit THEN finished ELSE finished \union {holding[c]}
    /\ UNCHANGED <<log, start, producers, channel, closed, holding>>

Finish(c) ==
    /\ Alive /\ processor[c] = "committing"
    /\ processor' = [processor EXCEPT ![c] = "waiting"]
    /\ finished' = finished \union {holding[c]}
    /\ UNCHANGED <<handed, start, producers, channel, closed, holding>>

\* Seeded fault: the queue commits the message it has fetched last.
CommitPosition(c) ==
    /\ Finish(c)
    /\ committed' = position
    /\ acked' = acked \union {holding[c]}

\* Kafka takes the offset as it is told, a lower one than before included.
Commit(c) ==
    /\ Finish(c)
    /\ committed' = holding[c] + 1
    /\ acked' = acked \union {holding[c]}

CommitFails(c) == Finish(c) /\ UNCHANGED <<committed, acked>>

ProcessorEnds(c) ==
    /\ Alive /\ processor[c] = "waiting"
    /\ cancelled \/ (closed /\ channel = <<>>)
    /\ processor' = [processor EXCEPT ![c] = "done"]
    /\ UNCHANGED <<log, start, producers, channel, closed, holding, finished>>

-----------------------------------------------------------------------------
Next ==
    \/ Begin
    \/ CloseChannel
    \/ StartReturns
    \/ Stop
    \/ Exit
    \/ \E p \in Producer :
           \/ SpawnProducer(p)
           \/ Fetch(p)
           \/ Send(p)
           \/ SendPanics(p)
           \/ ProducerEnds(p)
    \/ \E c \in Processor :
           \/ SpawnProcessor(c)
           \/ Take(c)
           \/ HandOver(c)
           \/ ConsumeSucceeds(c)
           \/ ConsumeFails(c)
           \/ Commit(c)
           \/ CommitFails(c)
           \/ ProcessorEnds(c)

Spec == Init /\ [][Next]_vars

(***************************************************************************)
(* Goroutines run, the broker answers and the handler returns.  Nobody has *)
(* to start, stop or end the process.                                      *)
(***************************************************************************)
Fairness ==
    /\ WF_vars(CloseChannel) /\ WF_vars(StartReturns)
    /\ \A p \in Producer :
           /\ WF_vars(SpawnProducer(p)) /\ WF_vars(Fetch(p))
           /\ WF_vars(Send(p) \/ SendPanics(p) \/ ProducerEnds(p))
    /\ \A c \in Processor :
           /\ WF_vars(SpawnProcessor(c))
           /\ WF_vars(Take(c) \/ ProcessorEnds(c)) /\ WF_vars(HandOver(c))
           /\ WF_vars(ConsumeSucceeds(c) \/ ConsumeFails(c))
           /\ WF_vars(Commit(c) \/ CommitFails(c))

FairSpec == Spec /\ Fairness

-----------------------------------------------------------------------------
(* Properties. *)

Carried(m) == \E p \in Producer : producer[p] = "sending" /\ carrying[p] = m
Queued(m) == \E i \in 1..Len(channel) : channel[i] = m
Held(m) == \E c \in Processor : Holds(c) /\ holding[c] = m

\* Until Stop, a message that was fetched is somewhere: with a producer, in the
\* channel, with a processor, or done with.
NothingLost ==
    Up /\ ~cancelled =>
        \A m \in base..(position - 1) :
            Carried(m) \/ Queued(m) \/ Held(m) \/ m \in finished

\* The group's offset never gets ahead of the handler: the message just below it
\* has been handed over, in this session or an earlier one, however the
\* processors overtake each other.
OffsetIsEarned == committed > 0 => committed - 1 \in handed

\* The messages below offset b that no handler has been given.
Unhanded(b) == {m \in 0..(b - 1) : m \notin handed}

\* The goroutines besides the one producer and the one processor a message goes through.
Others == Cardinality(Producer) + Cardinality(Processor) - 2

\* The group's offset does pass messages that were never handed over: when a producer
\* overtakes another that has fetched one, or a processor commits while another has
\* received one and not yet called the handler.  The end of the process then skips them
\* for good.  However often it ends, that is at most one message for each further producer
\* (KafkaConfig.Consumers) and each further processor in each session.
FewAreSkipped == Cardinality(Unhanded(committed)) <= sessions * Others

\* What OffsetIsEarned rests on: a processor hands over before it commits.
HeldWasHanded ==
    \A c \in Processor : processor[c] \in {"consuming", "committing"} => holding[c] \in handed

\* The promise of the queue as an abstract machine: within a session no message is
\* worked on twice, whichever goroutines had it before, and what is committed is the
\* offset behind a message that a processor is being done with.
Contract ==
    INSTANCE ConsumerContract WITH
        Worker <- Processor,
        hands <- [c \in Processor |-> IF Holds(c) THEN {holding[c]} ELSE {}],
        done <- finished
ContractSpec == Contract!Spec

\* The comment in startProducers, "kafka will refire the messages on uncommitted
\* messages": the next session does not begin above a message that was never
\* committed itself.
UncommittedAreRefired == \A m \in 0..(committed - 1) : m \in acked

\* The inductive invariant behind ContractSpec: a message is in one place only, and
\* none that is anywhere will be fetched again; what has ended has left nothing.
EndedIsEmpty ==
    ~Alive => /\ channel = <<>> /\ finished = {}
              /\ \A p \in Producer : producer[p] # "sending"
              /\ \A c \in Processor : ~Holds(c)

OneCarrier ==
    \A p, q \in Producer :
        producer[p] = "sending" /\ producer[q] = "sending" /\ carrying[p] = carrying[q]
            => p = q

OneSlot == \A i, j \in 1..Len(channel) : channel[i] = channel[j] => i = j

OneHolder == \A c, d \in Processor : Holds(c) /\ Holds(d) /\ holding[c] = holding[d] => c = d

OnePlace ==
    \A m \in Message :
        /\ Carried(m) => m < position /\ ~Queued(m) /\ ~Held(m) /\ m \notin finished
        /\ Queued(m) => m < position /\ ~Held(m) /\ m \notin finished
        /\ Held(m) => m < position /\ m \notin finished
        /\ m \in finished => m < position

InOnePlace == EndedIsEmpty /\ OneCarrier /\ OneSlot /\ OneHolder /\ OnePlace

(* The inductive invariant behind FewAreSkipped. *)

\* A message that a processor has received and not yet handed over.
Received(m) == \E c \in Processor : processor[c] = "received" /\ holding[c] = m

\* Messages of this session below x that no processor has received and that are not among
\* the first i in the channel.
Overtaken(x, i) ==
    {m \in base..(x - 1) :
        m \notin handed /\ ~Received(m) /\ \A j \in 1..i : channel[j] # m}

FewOvertaken(x, i) == Cardinality(Overtaken(x, i)) < Cardinality(Producer)

\* Messages of this session below x that are not handed over, wherever they are.
LeftBehind(x) == {m \in base..(x - 1) : m \notin handed}

FewLeftBehind(x) == Cardinality(LeftBehind(x)) <= Others

\* Every message that was fetched has come further, or is the last of its producer.
HasCome ==
    \A m \in base..(position - 1) :
        \/ m \in handed \/ Received(m) \/ Queued(m)
        \/ \E p \in Producer : producer[p] \in {"sending", "done"} /\ carrying[p] = m

\* Few were overtaken by a message in the channel, or left behind by one that has left it.
FewInLine ==
    /\ \A i \in 1..Len(channel) : FewOvertaken(channel[i], i)
    /\ \A x \in Message : Held(x) \/ x \in finished => FewLeftBehind(x)

FewBefore ==
    /\ sessions > 0
    /\ Cardinality(Unhanded(base)) <= (sessions - 1) * Others

SkipInv == FewAreSkipped /\ (Alive => HasCome /\ FewInLine /\ FewBefore)

Spawned ==
    /\ \A p \in Producer : producer[p] # "unborn"
    /\ \A c \in Processor : processor[c] # "unborn"

\* Once both pools run and Start still waits for the first, each message from the
\* group's offset on is handed over, unless the queue is stopped or killed.
EveryMessageIsHandled ==
    \A m \in Message :
        main = "waitProducers" /\ Spawned /\ m >= base ~>
            m \in handed \/ cancelled \/ main = "down"

\* After Stop, producers that wait for room in the channel end like the others,
\* and Start returns.
StopEndsStart ==
    main = "waitProducers" /\ Spawned /\ cancelled ~> main \in {"returned", "down"}
=============================================================================
