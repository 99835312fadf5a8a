-------------------------- MODULE KafkaQueueProofs --------------------------
(* Proofs about KafkaQueue, for any number of goroutines and any capacity. *)
EXTENDS KafkaQueue, SequenceTheorems, FiniteSetTheorems, TLAPS

ProcessorPC ==
    [Processor -> {"unborn", "waiting", "received", "consuming", "committing", "done"}]

(* A process that ends leaves nothing in memory that could have a wrong type. *)
LEMMA ForgetTypes ==
    ASSUME TypeOK, Forget, main' \in {"down", "panicked"}
    PROVE  TypeOK'
<1>1. /\ committed' \in Offset /\ base' \in Offset /\ position' \in Offset
      /\ handed' \in SUBSET Offset /\ acked' \in SUBSET Offset /\ sessions' \in Nat
  BY DEF Forget, TypeOK, log
<1>2. carrying' \in [Producer -> Offset] /\ holding' \in [Processor -> Offset]
  BY QueueAssumption DEF Forget, Offset
<1>3. /\ \A p \in Producer : producer'[p] = "unborn"
      /\ \A c \in Processor : processor'[c] = "unborn"
      /\ producer' \in [Producer -> {"unborn", "fetching", "sending", "done"}]
      /\ processor' \in ProcessorPC
  BY DEF Forget, ProcessorPC
<1>4. channel' \in Seq(Message) /\ Len(channel') <= QueueCapacity
  <2>1. channel' = <<>>
    BY DEF Forget
  <2>2. <<>> \in Seq(Message) /\ Len(<<>>) = 0
    OBVIOUS
  <2> QED
    BY <2>1, <2>2, QueueAssumption
<1>5. cancelled' \in BOOLEAN /\ closed' \in BOOLEAN /\ finished' \in SUBSET Offset
  BY DEF Forget
<1> QED
  BY <1>1, <1>2, <1>3, <1>4, <1>5 DEF TypeOK, Holds, ProcessorPC

(* A step keeps the types: in particular nothing that is not in the log is   *)
(* ever carried, queued or held, and the channel keeps to its capacity.      *)
LEMMA TypeStep == TypeOK /\ [Next]_vars => TypeOK'
<1> SUFFICES ASSUME TypeOK, [Next]_vars PROVE TypeOK'
  OBVIOUS
<1> USE QueueAssumption
    DEF TypeOK, Offset, Message, Holds, ProcessorPC, log, start, producers, processors
<1>1. CASE Begin
  BY <1>1 DEF Begin, Alive
<1>2. CASE CloseChannel
  BY <1>2 DEF CloseChannel
<1>3. CASE StartReturns
  BY <1>3 DEF StartReturns
<1>4. CASE Stop
  BY <1>4 DEF Stop
<1>5. CASE Exit
  BY <1>5, ForgetTypes DEF Exit
<1>6. ASSUME NEW p \in Producer, SpawnProducer(p) PROVE TypeOK'
  BY <1>6 DEF SpawnProducer
<1>7. ASSUME NEW p \in Producer, Fetch(p) PROVE TypeOK'
  BY <1>7 DEF Fetch, NextMessage
<1>8. ASSUME NEW p \in Producer, Send(p) PROVE TypeOK'
  <2>1. carrying[p] \in Message
    BY <1>8 DEF Send
  <2>2. channel' \in Seq(Message) /\ Len(channel') = Len(channel) + 1
    BY <1>8, <2>1 DEF Send
  <2> QED
    BY <1>8, <2>2 DEF Send
<1>9. ASSUME NEW p \in Producer, SendPanics(p) PROVE TypeOK'
  BY <1>9, ForgetTypes DEF SendPanics
<1>10. ASSUME NEW p \in Producer, ProducerEnds(p) PROVE TypeOK'
  BY <1>10 DEF ProducerEnds
<1>11. ASSUME NEW c \in Processor, SpawnProcessor(c) PROVE TypeOK'
  BY <1>11 DEF SpawnProcessor
<1>12. ASSUME NEW c \in Processor, Take(c) PROVE TypeOK'
  <2>1. Head(channel) \in Message
    BY <1>12 DEF Take, Receive
  <2>2. channel' \in Seq(Message) /\ Len(channel') <= QueueCapacity
    BY <1>12 DEF Take, Receive
  <2>3. /\ holding' \in [Processor -> Offset]
        /\ processor' \in ProcessorPC
        /\ \A d \in Processor : Holds(d)' => holding'[d] \in Message
    BY <1>12, <2>1 DEF Take, Receive
  <2> QED
    BY <1>12, <2>2, <2>3 DEF Take, Receive
<1>19. ASSUME NEW c \in Processor, HandOver(c) PROVE TypeOK'
  <2>1. handed' \in SUBSET Offset
    <3>1. holding[c] \in Offset
      BY <1>19 DEF HandOver
    <3>2. handed \in SUBSET Offset /\ handed' = handed \union {holding[c]}
      BY <1>19 DEF HandOver
    <3> QED
      BY ONLY <3>1, <3>2
  <2>2. /\ processor' \in ProcessorPC
        /\ \A d \in Processor : Holds(d)' => holding'[d] \in Message
    BY <1>19 DEF HandOver
  <2> QED
    BY <1>19, <2>1, <2>2 DEF HandOver
<1>13. ASSUME NEW c \in Processor, ConsumeSucceeds(c) PROVE TypeOK'
  BY <1>13 DEF ConsumeSucceeds
<1>14. ASSUME NEW c \in Processor, ConsumeFails(c) PROVE TypeOK'
  BY <1>14 DEF ConsumeFails
<1>15. ASSUME NEW c \in Processor, Commit(c) PROVE TypeOK'
  <2>1. holding[c] \in Message
    BY <1>15 DEF Commit, Finish
  <2>2. committed' \in Offset /\ acked' \in SUBSET Offset /\ finished' \in SUBSET Offset
    <3>1. holding[c] + 1 \in Offset /\ holding[c] \in Offset
      BY <2>1
    <3>2. /\ committed' = holding[c] + 1
          /\ acked' = acked \union {holding[c]} /\ finished' = finished \union {holding[c]}
          /\ acked \in SUBSET Offset /\ finished \in SUBSET Offset
      BY <1>15 DEF Commit, Finish
    <3> QED
      BY ONLY <3>1, <3>2
  <2>3. /\ processor' \in ProcessorPC
        /\ \A d \in Processor : Holds(d)' => holding'[d] \in Message
    BY <1>15 DEF Commit, Finish
  <2> QED
    BY <1>15, <2>2, <2>3 DEF Commit, Finish
<1>16. ASSUME NEW c \in Processor, CommitFails(c) PROVE TypeOK'
  BY <1>16 DEF CommitFails, Finish
<1>17. ASSUME NEW c \in Processor, ProcessorEnds(c) PROVE TypeOK'
  BY <1>17 DEF ProcessorEnds
<1>18. CASE UNCHANGED vars
  BY <1>18 DEF vars
<1> QED
  BY <1>1, <1>2, <1>3, <1>4, <1>5, <1>6, <1>7, <1>8, <1>9, <1>10, <1>11, <1>12,
     <1>13, <1>14, <1>15, <1>16, <1>17, <1>18, <1>19 DEF Next

(* The types of KafkaQueue, in every reachable state.                        *)
THEOREM TypeCorrect == Spec => []TypeOK
<1>1. Init => TypeOK
  <2> SUFFICES ASSUME Init PROVE TypeOK
    OBVIOUS
  <2>1. <<>> \in Seq(Message) /\ Len(<<>>) = 0
    OBVIOUS
  <2>2. channel \in Seq(Message) /\ Len(channel) <= QueueCapacity
    BY <2>1, QueueAssumption DEF Init
  <2>3. 0 \in Offset
    BY QueueAssumption DEF Offset
  <2> QED
    BY <2>2, <2>3 DEF Init, TypeOK, Holds
<1>2. QED
  BY <1>1, TypeStep, PTL DEF Spec

-----------------------------------------------------------------------------
(* What a message that is somewhere needs to stay there: a producer or a     *)
(* processor that does not move keeps what it has.                           *)
LEMMA NothingLostStep ==
    TypeOK /\ NothingLost /\ [Next]_vars => NothingLost'
<1> SUFFICES ASSUME TypeOK, NothingLost, [Next]_vars,
                    Up', ~cancelled',
                    NEW m \in base'..(position' - 1)
             PROVE  Carried(m)' \/ Queued(m)' \/ Held(m)' \/ m \in finished'
  BY DEF NothingLost
<1> DEFINE Somewhere == Carried(m) \/ Queued(m) \/ Held(m) \/ m \in finished
<1> USE DEF log, start, producers, processors
<1>1. CASE Begin
  <2>1. base' = committed /\ position' = committed /\ committed \in Int
    BY <1>1, QueueAssumption DEF Begin, TypeOK, Offset
  <2>2. m \in committed..(committed - 1)
    BY ONLY <2>1, m \in base'..(position' - 1)
  <2> QED
    BY ONLY <2>1, <2>2
<1>2. CASE CloseChannel
  BY <1>2 DEF CloseChannel, NothingLost, Up, Carried, Queued, Held, Holds
<1>3. CASE StartReturns
  BY <1>3 DEF StartReturns, Up
<1>4. CASE Stop
  BY <1>4 DEF Stop
<1>5. CASE Exit
  BY <1>5 DEF Exit, Up
<1>6. ASSUME NEW p \in Producer, SpawnProducer(p) PROVE Somewhere'
  BY <1>6 DEF SpawnProducer, NothingLost, Up, Carried, Queued, Held, Holds, TypeOK
<1>7. ASSUME NEW p \in Producer, Fetch(p) PROVE Somewhere'
  <2>1. Up /\ ~cancelled
    BY <1>7 DEF Fetch, NextMessage, Up
  <2>2. CASE m = position
    <3>1. producer'[p] = "sending" /\ carrying'[p] = m
      BY <1>7, <2>2 DEF Fetch, NextMessage, TypeOK
    <3> QED
      BY <3>1 DEF Carried
  <2>3. CASE m # position
    <3>1. m \in base..(position - 1)
      BY <1>7, <2>3 DEF Fetch, NextMessage, TypeOK, Offset
    <3>2. Somewhere
      BY <2>1, <3>1 DEF NothingLost
    <3>3. CASE Carried(m)
      <4>1. PICK q \in Producer : producer[q] = "sending" /\ carrying[q] = m
        BY <3>3 DEF Carried
      <4>2. q # p
        BY <4>1, <1>7 DEF Fetch, NextMessage
      <4>3. producer'[q] = "sending" /\ carrying'[q] = m
        BY <4>1, <4>2, <1>7 DEF Fetch, NextMessage, TypeOK
      <4> QED
        BY <4>3 DEF Carried
    <3>4. CASE Queued(m) \/ Held(m) \/ m \in finished
      BY <3>4, <1>7 DEF Fetch, NextMessage, Queued, Held, Holds
    <3> QED
      BY <3>2, <3>3, <3>4
  <2> QED
    BY <2>2, <2>3
<1>8. ASSUME NEW p \in Producer, Send(p) PROVE Somewhere'
  <2>1. Somewhere
    BY <1>8 DEF Send, NothingLost, Up
  <2>2. channel' = Append(channel, carrying[p]) /\ channel \in Seq(Message)
    BY <1>8 DEF Send, TypeOK
  <2>3. Len(channel') = Len(channel) + 1 /\ Len(channel) \in Nat
    BY <2>2
  <2>4. channel'[Len(channel) + 1] = carrying[p]
    BY <2>2
  <2>5. \A i \in 1..Len(channel) : channel'[i] = channel[i]
    BY <2>2
  <2>6. CASE Carried(m)
    <3>1. PICK q \in Producer : producer[q] = "sending" /\ carrying[q] = m
      BY <2>6 DEF Carried
    <3>2. CASE q = p
      BY <3>1, <3>2, <2>3, <2>4 DEF Queued
    <3>3. CASE q # p
      <4>1. producer'[q] = "sending" /\ carrying'[q] = m
        BY <3>1, <3>3, <1>8 DEF Send, TypeOK
      <4> QED
        BY <4>1 DEF Carried
    <3> QED
      BY <3>2, <3>3
  <2>7. CASE Queued(m)
    <3>1. PICK i \in 1..Len(channel) : channel[i] = m
      BY <2>7 DEF Queued
    <3>2. i \in 1..Len(channel') /\ channel'[i] = m
      BY <3>1, <2>3, <2>5
    <3> QED
      BY <3>2 DEF Queued
  <2>8. CASE Held(m) \/ m \in finished
    BY <2>8, <1>8 DEF Send, Held, Holds
  <2> QED
    BY <2>1, <2>6, <2>7, <2>8
<1>9. ASSUME NEW p \in Producer, SendPanics(p) PROVE Somewhere'
  BY <1>9 DEF SendPanics, Up
<1>10. ASSUME NEW p \in Producer, ProducerEnds(p) PROVE Somewhere'
  BY <1>10 DEF ProducerEnds
<1>11. ASSUME NEW c \in Processor, SpawnProcessor(c) PROVE Somewhere'
  BY <1>11 DEF SpawnProcessor, NothingLost, Up, Carried, Queued, Held, Holds, TypeOK
<1>12. ASSUME NEW c \in Processor, Take(c) PROVE Somewhere'
  <2>1. Somewhere
    BY <1>12 DEF Take, Receive, NothingLost, Up
  <2>2. channel \in Seq(Message) /\ channel # <<>> /\ channel' = Tail(channel)
    BY <1>12 DEF Take, Receive, TypeOK
  <2>3. CASE Queued(m)
    <3>1. PICK i \in 1..Len(channel) : channel[i] = m
      BY <2>3 DEF Queued
    <3>2. CASE i = 1
      <4>1. Holds(c)' /\ holding'[c] = m
        BY <3>1, <3>2, <2>2, <1>12 DEF Take, Receive, TypeOK, Holds
      <4> QED
        BY <4>1 DEF Held
    <3>3. CASE i # 1
      <4>1. Len(channel') = Len(channel) - 1 /\ Len(channel) \in Nat
        BY <2>2
      <4>2. i - 1 \in 1..Len(channel')
        BY <4>1, <3>1, <3>3
      <4>3. channel'[i - 1] = m
        BY <4>2, <4>1, <2>2, <3>1
      <4> QED
        BY <4>2, <4>3 DEF Queued
    <3> QED
      BY <3>2, <3>3
  <2>4. CASE Held(m)
    <3>1. PICK d \in Processor : Holds(d) /\ holding[d] = m
      BY <2>4 DEF Held
    <3>2. d # c
      BY <3>1, <1>12 DEF Take, Receive, Holds
    <3>3. Holds(d)' /\ holding'[d] = m
      BY <3>1, <3>2, <1>12 DEF Take, Receive, Holds, TypeOK
    <3> QED
      BY <3>3 DEF Held
  <2>5. CASE Carried(m) \/ m \in finished
    BY <2>5, <1>12 DEF Take, Receive, Carried
  <2> QED
    BY <2>1, <2>3, <2>4, <2>5
<1>13. ASSUME NEW c \in Processor,
              HandOver(c) \/ ConsumeSucceeds(c) \/ ConsumeFails(c) \/ Finish(c) \/ ProcessorEnds(c)
       PROVE  Somewhere'
  <2>1. /\ UNCHANGED <<start, producers, channel, closed, holding>>
        /\ \A d \in Processor : Holds(d) => Holds(d)' \/ holding[d] \in finished'
        /\ finished \subseteq finished'
    BY <1>13 DEF HandOver, ConsumeSucceeds, ConsumeFails, Finish, ProcessorEnds, Holds, TypeOK
  <2>2. Somewhere
    BY <2>1 DEF NothingLost, Up
  <2> QED
    BY <2>1, <2>2 DEF Carried, Queued, Held
<1>14. CASE UNCHANGED vars
  BY <1>14 DEF vars, NothingLost, Up, Carried, Queued, Held, Holds
<1> QED
  BY <1>1, <1>2, <1>3, <1>4, <1>5, <1>6, <1>7, <1>8, <1>9, <1>10, <1>11, <1>12,
     <1>13, <1>14 DEF Next, Commit, CommitFails

(* No message that was fetched gets lost while the queue is neither stopped   *)
(* nor killed, whatever the pools and the capacity (startProducers,           *)
(* startConsumers, processMessage).                                           *)
THEOREM NeverLoses == Spec => []NothingLost
<1>1. Init => NothingLost
  BY DEF Init, NothingLost, Up
<1>2. QED
  BY <1>1, NothingLostStep, TypeCorrect, PTL DEF Spec

-----------------------------------------------------------------------------
(* A processor hands over what it has received before it commits.            *)
LEMMA HandedFirst == Spec => [](OffsetIsEarned /\ HeldWasHanded)
<1> DEFINE Inv == OffsetIsEarned /\ HeldWasHanded
<1>1. Init => Inv
  BY DEF Init, OffsetIsEarned, HeldWasHanded, Holds
<1>2. TypeOK /\ Inv /\ [Next]_vars => Inv'
  <2> SUFFICES ASSUME TypeOK, Inv, [Next]_vars PROVE Inv'
    OBVIOUS
  <2> USE DEF OffsetIsEarned, HeldWasHanded, Holds, log, start, producers, processors
  <2>1. CASE Exit \/ \E p \in Producer : SendPanics(p)
    BY <2>1 DEF Exit, SendPanics, Forget
  <2>2. ASSUME NEW c \in Processor, Take(c) PROVE Inv'
    BY <2>2 DEF Take, Receive, TypeOK
  <2>8. ASSUME NEW c \in Processor, HandOver(c) PROVE Inv'
    BY <2>8 DEF HandOver, TypeOK
  <2>3. ASSUME NEW c \in Processor, ConsumeSucceeds(c) \/ ConsumeFails(c) PROVE Inv'
    BY <2>3 DEF ConsumeSucceeds, ConsumeFails, TypeOK
  <2>4. ASSUME NEW c \in Processor, Commit(c) PROVE Inv'
    <3>1. holding[c] \in handed /\ holding[c] \in Int
      BY <2>4 DEF Commit, Finish, TypeOK, Message
    <3>2. committed' = holding[c] + 1 /\ handed' = handed
      BY <2>4 DEF Commit, Finish
    <3>3. OffsetIsEarned'
      BY <3>1, <3>2
    <3>4. HeldWasHanded'
      BY <2>4 DEF Commit, Finish, TypeOK
    <3> QED
      BY <3>3, <3>4
  <2>5. ASSUME NEW c \in Processor, CommitFails(c) PROVE Inv'
    BY <2>5 DEF CommitFails, Finish, TypeOK
  <2>6. ASSUME NEW c \in Processor, SpawnProcessor(c) \/ ProcessorEnds(c) PROVE Inv'
    BY <2>6 DEF SpawnProcessor, ProcessorEnds, TypeOK
  <2>7. CASE \/ Begin \/ CloseChannel \/ StartReturns \/ Stop \/ UNCHANGED vars
             \/ \E p \in Producer : SpawnProducer(p) \/ Fetch(p) \/ Send(p) \/ ProducerEnds(p)
    <3>1. UNCHANGED <<log, processor, holding>>
      BY <2>7 DEF Begin, CloseChannel, StartReturns, Stop, vars, SpawnProducer, Fetch,
                  NextMessage, Send, ProducerEnds
    <3> QED
      BY <3>1
  <2> QED
    BY <2>1, <2>2, <2>3, <2>4, <2>5, <2>6, <2>7, <2>8 DEF Next
<1>3. QED
  BY <1>1, <1>2, TypeCorrect, PTL DEF Spec

(* The offset Kafka stores is always one above a message that was handed to  *)
(* the handler.                                                              *)
THEOREM OffsetAlwaysEarned == Spec => []OffsetIsEarned
<1>1. QED
  BY HandedFirst, PTL

-----------------------------------------------------------------------------
(***************************************************************************)
(* A message is in one place at a time, and so the queue implements its    *)
(* contract.                                                               *)
(***************************************************************************)

\* What the steps of the goroutines keep.
Places == OneCarrier /\ OneSlot /\ OneHolder /\ OnePlace

\* A send moves a message from its producer to the end of the channel.
LEMMA SendPlaces ==
    ASSUME TypeOK, Places, NEW p \in Producer, Send(p)
    PROVE  Places'
<1> USE DEF Places
<1>1. /\ channel \in Seq(Message) /\ channel' = Append(channel, carrying[p])
      /\ carrying[p] \in Message /\ producer[p] = "sending"
      /\ producer' = [producer EXCEPT ![p] = "fetching"]
      /\ producer \in [Producer -> {"unborn", "fetching", "sending", "done"}]
      /\ UNCHANGED <<position, carrying, processor, holding, finished>>
  BY DEF Send, TypeOK, processors
<1>2. /\ Len(channel) \in Nat /\ Len(channel') = Len(channel) + 1
      /\ channel'[Len(channel) + 1] = carrying[p]
      /\ \A i \in 1..Len(channel) : channel'[i] = channel[i]
  BY <1>1
<1>3. Carried(carrying[p]) /\ ~Queued(carrying[p])
  BY <1>1 DEF Carried, OnePlace
<1>4. \A m : Carried(m)' <=> Carried(m) /\ m # carrying[p]
  BY <1>1 DEF Carried, OneCarrier
<1>5. \A m : Queued(m)' <=> Queued(m) \/ m = carrying[p]
  BY <1>2 DEF Queued
<1>6. \A m : Held(m)' <=> Held(m)
  BY <1>1 DEF Held, Holds
<1>7. OneCarrier'
  BY <1>1 DEF OneCarrier
<1>8. OneSlot'
  <2> SUFFICES ASSUME NEW i \in 1..Len(channel'), NEW j \in 1..Len(channel'),
                      channel'[i] = channel'[j]
               PROVE  i = j
    BY DEF OneSlot
  <2>1. \A k \in 1..Len(channel) : channel[k] # carrying[p]
    BY <1>3 DEF Queued
  <2>2. QED
    BY <1>2, <2>1 DEF OneSlot
<1>9. OneHolder'
  BY <1>1 DEF OneHolder, Holds
<1>10. OnePlace'
  BY <1>1, <1>3, <1>4, <1>5, <1>6 DEF OnePlace
<1>11. QED
  BY <1>7, <1>8, <1>9, <1>10

\* A receive moves the head of the channel into the hands of the processor.
LEMMA TakePlaces ==
    ASSUME TypeOK, Places, NEW c \in Processor, Take(c)
    PROVE  Places' /\ Queued(Head(channel)) /\ Head(channel) \in Message
<1> USE DEF Places
<1> DEFINE h == Head(channel)
<1>1. /\ channel \in Seq(Message) /\ channel # <<>> /\ channel' = Tail(channel)
      /\ processor[c] = "waiting" /\ processor' = [processor EXCEPT ![c] = "received"]
      /\ holding' = [holding EXCEPT ![c] = h]
      /\ processor \in ProcessorPC /\ holding \in [Processor -> Offset]
      /\ UNCHANGED <<position, producer, carrying, finished>>
  BY DEF Take, Receive, TypeOK, ProcessorPC, producers
<1>2. /\ Len(channel) \in Nat /\ Len(channel) > 0 /\ Len(channel') = Len(channel) - 1
      /\ h = channel[1] /\ h \in Message
      /\ \A i \in 1..Len(channel') : channel'[i] = channel[i + 1]
  BY <1>1
<1>3. Queued(h)
  BY <1>2 DEF Queued
<1>4. \A m : Carried(m)' <=> Carried(m)
  BY <1>1 DEF Carried
<1>5. \A m : Queued(m)' => Queued(m) /\ m # h
  <2> SUFFICES ASSUME NEW m, NEW i \in 1..Len(channel'), channel'[i] = m
               PROVE  Queued(m) /\ m # h
    BY DEF Queued
  <2>1. i + 1 \in 1..Len(channel) /\ channel[i + 1] = m /\ 1 \in 1..Len(channel) /\ i + 1 # 1
    BY <1>2
  <2>2. QED
    BY <1>2, <2>1 DEF Queued, OneSlot
<1>6. \A m : Held(m)' => Held(m) \/ m = h
  BY <1>1 DEF Held, Holds, ProcessorPC
<1>7. \A d \in Processor : Holds(d) => holding[d] # h
  BY <1>2, <1>3 DEF OnePlace, Held
<1>8. OneCarrier'
  BY <1>1 DEF OneCarrier
<1>9. OneSlot'
  <2> SUFFICES ASSUME NEW i \in 1..Len(channel'), NEW j \in 1..Len(channel'),
                      channel'[i] = channel'[j]
               PROVE  i = j
    BY DEF OneSlot
  <2>1. i + 1 \in 1..Len(channel) /\ j + 1 \in 1..Len(channel)
        /\ channel[i + 1] = channel[j + 1]
    BY <1>2
  <2>2. i + 1 = j + 1
    BY <2>1 DEF OneSlot
  <2>3. QED
    BY <2>2
<1>10. OneHolder'
  <2>1. \A d \in Processor : d # c => (Holds(d)' <=> Holds(d)) /\ holding'[d] = holding[d]
    BY <1>1 DEF Holds, ProcessorPC
  <2>2. holding'[c] = h
    BY <1>1
  <2>3. QED
    BY <1>7, <2>1, <2>2 DEF OneHolder
<1>11. OnePlace'
  BY <1>1, <1>2, <1>3, <1>4, <1>5, <1>6 DEF OnePlace
<1>12. QED
  BY <1>2, <1>3, <1>8, <1>9, <1>10, <1>11

\* A processor that is done with a message has nothing in hand.
LEMMA DonePlaces ==
    ASSUME TypeOK, Places, NEW c \in Processor, Holds(c),
           processor' = [processor EXCEPT ![c] = "waiting"],
           finished' = finished \union {holding[c]},
           UNCHANGED <<position, producer, carrying, channel, holding>>
    PROVE  Places'
<1> USE DEF Places
<1>1. processor \in ProcessorPC /\ holding[c] \in Message
  BY DEF TypeOK, ProcessorPC
<1>2. Held(holding[c])
  BY DEF Held
<1>3. \A d \in Processor : Holds(d)' <=> Holds(d) /\ d # c
  BY <1>1 DEF Holds, ProcessorPC
<1>4. \A m : Held(m)' => Held(m) /\ m # holding[c]
  BY <1>3 DEF Held, OneHolder
<1>5. \A m : (Carried(m)' <=> Carried(m)) /\ (Queued(m)' <=> Queued(m))
  BY DEF Carried, Queued
<1>6. OneCarrier' /\ OneSlot'
  BY DEF OneCarrier, OneSlot
<1>7. OneHolder'
  BY <1>3 DEF OneHolder
<1>8. OnePlace'
  BY <1>1, <1>2, <1>4, <1>5 DEF OnePlace
<1>9. QED
  BY <1>6, <1>7, <1>8

\* No step of the queue puts an offset in a second place.
LEMMA InOnePlaceStep == TypeOK /\ InOnePlace /\ [Next]_vars => InOnePlace'
<1> SUFFICES ASSUME TypeOK, InOnePlace, [Next]_vars PROVE InOnePlace'
  OBVIOUS
<1> USE DEF log, start, producers, processors
<1>0. Places /\ EndedIsEmpty
  BY DEF InOnePlace, Places
<1>1. ASSUME Places', Alive' PROVE InOnePlace'
  BY <1>1 DEF InOnePlace, Places, EndedIsEmpty
<1>2. CASE Begin
  <2>1. /\ channel' = <<>> /\ finished' = {} /\ Alive'
        /\ \A p \in Producer : producer'[p] # "sending"
        /\ \A c \in Processor : ~Holds(c)'
    BY <1>0, <1>2 DEF Begin, EndedIsEmpty, Holds, Alive
  <2>2. Places'
    BY <2>1 DEF Places, OneCarrier, OneSlot, OneHolder, OnePlace, Carried, Queued, Held
  <2>3. QED
    BY <1>1, <2>1, <2>2
<1>3. ASSUME Forget PROVE InOnePlace'
  <2>1. /\ channel' = <<>> /\ finished' = {}
        /\ \A p \in Producer : producer'[p] # "sending"
        /\ \A c \in Processor : ~Holds(c)'
    BY <1>3 DEF Forget, Holds
  <2>2. QED
    BY <2>1 DEF InOnePlace, EndedIsEmpty, OneCarrier, OneSlot, OneHolder, OnePlace, Carried,
                Queued, Held
<1>4. ASSUME UNCHANGED <<position, producer, carrying, channel, processor, holding, finished>>
      PROVE  Places'
  BY <1>0, <1>4 DEF Places, OneCarrier, OneSlot, OneHolder, OnePlace, Carried, Queued, Held, Holds
<1>5. CASE CloseChannel \/ StartReturns \/ Stop
  <2>1. Alive'
    BY <1>5 DEF CloseChannel, StartReturns, Stop, Alive, Up
  <2>2. QED
    BY <1>1, <1>4, <1>5, <2>1 DEF CloseChannel, StartReturns, Stop
<1>6. ASSUME NEW p \in Producer, SpawnProducer(p) \/ ProducerEnds(p) PROVE InOnePlace'
  <2>1. /\ UNCHANGED <<position, carrying, channel, processor, holding, finished>> /\ Alive'
        /\ \A q \in Producer : producer'[q] = "sending" => producer[q] = "sending"
    BY <1>6 DEF SpawnProducer, ProducerEnds, TypeOK, Alive
  <2>2. \A m : /\ Carried(m)' => Carried(m)
               /\ Queued(m)' <=> Queued(m)
               /\ Held(m)' <=> Held(m)
    BY <2>1 DEF Carried, Queued, Held, Holds
  <2>3. OneCarrier' /\ OneSlot' /\ OneHolder'
    BY <1>0, <2>1 DEF Places, OneCarrier, OneSlot, OneHolder, Holds
  <2>4. OnePlace'
    BY <1>0, <2>1, <2>2 DEF Places, OnePlace
  <2>5. QED
    BY <1>1, <2>1, <2>3, <2>4 DEF Places
<1>7. ASSUME NEW p \in Producer, Fetch(p) PROVE InOnePlace'
  <2>1. /\ UNCHANGED <<channel, processor, holding, finished>> /\ Alive'
        /\ position' = position + 1 /\ position \in Nat
        /\ producer'[p] = "sending" /\ carrying'[p] = position
        /\ \A q \in Producer : q # p => producer'[q] = producer[q] /\ carrying'[q] = carrying[q]
    BY <1>7, QueueAssumption DEF Fetch, NextMessage, TypeOK, Alive, Offset
  <2>2. \A m : /\ Carried(m)' => Carried(m) \/ m = position
               /\ Queued(m)' <=> Queued(m)
               /\ Held(m)' <=> Held(m)
    BY <2>1 DEF Carried, Queued, Held, Holds
  <2>3. \A q \in Producer : producer[q] = "sending" => carrying[q] # position
    <3>1. SUFFICES ASSUME NEW q \in Producer, producer[q] = "sending"
                   PROVE  carrying[q] < position
      BY <2>1
    <3>2. carrying[q] \in Message /\ Carried(carrying[q])
      BY <3>1 DEF TypeOK, Carried
    <3>3. QED
      BY <1>0, <3>2 DEF Places, OnePlace
  <2>4. OneCarrier'
    BY <1>0, <2>1, <2>3 DEF Places, OneCarrier
  <2>5. OneSlot' /\ OneHolder'
    BY <1>0, <2>1 DEF Places, OneSlot, OneHolder, Holds
  <2>6. OnePlace'
    <3>1. \A m \in Message : m \in Int /\ (m < position => m < position')
      BY <2>1 DEF Message
    <3>2. QED
      BY <1>0, <2>1, <2>2, <3>1 DEF Places, OnePlace
  <2>7. QED
    BY <1>1, <2>1, <2>4, <2>5, <2>6 DEF Places
<1>8. ASSUME NEW p \in Producer, Send(p) PROVE InOnePlace'
  BY <1>0, <1>1, <1>8, SendPlaces DEF Send, Alive
<1>9. ASSUME NEW c \in Processor, Take(c) PROVE InOnePlace'
  BY <1>0, <1>1, <1>9, TakePlaces DEF Take, Receive, Alive
<1>10. ASSUME NEW c \in Processor, UNCHANGED <<start, producers, channel, holding, finished>>,
              Alive, \A d \in Processor : Holds(d)' <=> Holds(d)
       PROVE  InOnePlace'
  <2>1. Alive'
    BY <1>10 DEF Alive
  <2>2. Places'
    BY <1>0, <1>10 DEF Places, OneCarrier, OneSlot, OneHolder, OnePlace, Carried, Queued, Held
  <2>3. QED
    BY <1>1, <2>1, <2>2
<1>11. ASSUME NEW c \in Processor,
              SpawnProcessor(c) \/ HandOver(c) \/ ConsumeSucceeds(c) \/ ProcessorEnds(c)
       PROVE  InOnePlace'
  <2>1. \A d \in Processor : Holds(d)' <=> Holds(d)
    BY <1>11 DEF SpawnProcessor, HandOver, ConsumeSucceeds, ProcessorEnds, Holds, TypeOK
  <2>2. QED
    BY <1>10, <1>11, <2>1 DEF SpawnProcessor, HandOver, ConsumeSucceeds, ProcessorEnds
<1>12. ASSUME NEW c \in Processor, ConsumeFails(c) PROVE InOnePlace'
  <2>1. CASE ForceCommit
    <3>1. \A d \in Processor : Holds(d)' <=> Holds(d)
      BY <1>12, <2>1 DEF ConsumeFails, Holds, TypeOK
    <3>2. QED
      BY <1>10, <1>12, <2>1, <3>1 DEF ConsumeFails
  <2>2. CASE ~ForceCommit
    <3>1. Places'
      BY <1>0, <1>12, <2>2, DonePlaces DEF ConsumeFails, Holds
    <3>2. QED
      BY <1>1, <1>12, <3>1 DEF ConsumeFails, Alive
  <2>3. QED
    BY <2>1, <2>2
<1>13. ASSUME NEW c \in Processor, Finish(c) PROVE InOnePlace'
  <2>1. Places'
    BY <1>0, <1>13, DonePlaces DEF Finish, Holds
  <2>2. QED
    BY <1>1, <1>13, <2>1 DEF Finish, Alive
<1>14. CASE UNCHANGED vars
  BY <1>0, <1>4, <1>14 DEF vars, InOnePlace, Places, EndedIsEmpty, Alive, Holds
<1>15. QED
  BY <1>2, <1>3, <1>5, <1>6, <1>7, <1>8, <1>9, <1>11, <1>12, <1>13, <1>14
     DEF Next, Exit, SendPanics, Commit, CommitFails

\* Within a session a message that was fetched is with one producer, once in the
\* channel, with one processor or done with, and never in two of these places.
THEOREM AlwaysInOnePlace == Spec => []InOnePlace
<1>1. Init => InOnePlace
  <2> SUFFICES ASSUME Init PROVE InOnePlace
    OBVIOUS
  <2>1. /\ channel = <<>> /\ finished = {}
        /\ \A p \in Producer : producer[p] # "sending"
        /\ \A c \in Processor : ~Holds(c)
    BY DEF Init, Holds
  <2>2. QED
    BY <2>1 DEF InOnePlace, EndedIsEmpty, OneCarrier, OneSlot, OneHolder, OnePlace, Carried,
                Queued, Held
<1>2. QED
  BY <1>1, InOnePlaceStep, TypeCorrect, PTL DEF Spec

\* Every step of the queue is a step of the contract or leaves its variables alone.
LEMMA ContractStep ==
    TypeOK /\ InOnePlace /\ [Next]_vars => [Contract!Next]_(Contract!vars)
<1> SUFFICES ASSUME TypeOK, InOnePlace, [Next]_vars
             PROVE  [Contract!Next]_(Contract!vars)
  OBVIOUS
<1> USE DEF log, start, producers, processors
<1> DEFINE Hands == [c \in Processor |-> IF Holds(c) THEN {holding[c]} ELSE {}]
<1>1. ASSUME NEW c \in Processor, Take(c) PROVE Contract!Next
  <2>1. PICK m \in Message : m = Head(channel) /\ Queued(m)
    BY <1>1, TakePlaces DEF InOnePlace, Places
  <2>2. m \notin finished /\ ~Held(m)
    BY <2>1 DEF InOnePlace, OnePlace
  <2>3. \A v \in Processor : m \notin Hands[v]
    BY <2>2 DEF Held
  <2>4. ~Holds(c) /\ Holds(c)' /\ holding'[c] = m
    BY <1>1, <2>1 DEF Take, Receive, Holds, TypeOK
  <2>5. \A d \in Processor : d # c => (Holds(d)' <=> Holds(d)) /\ holding'[d] = holding[d]
    BY <1>1 DEF Take, Receive, Holds, TypeOK
  <2>6. Hands' = [Hands EXCEPT ![c] = {m}]
    BY <2>4, <2>5
  <2>7. Contract!Take(c, m)
    BY <1>1, <2>2, <2>3, <2>4, <2>6 DEF Take, Receive, Contract!Take
  <2>8. QED
    BY <2>7 DEF Contract!Next
<1>2. ASSUME NEW c \in Processor, Holds(c),
             processor' = [processor EXCEPT ![c] = "waiting"],
             finished' = finished \union {holding[c]},
             committed' \in {committed, holding[c] + 1}, UNCHANGED holding
      PROVE  Contract!Next
  <2>1. PICK m \in Message : m = holding[c]
    BY <1>2 DEF TypeOK
  <2>2. \A d \in Processor : Holds(d)' <=> Holds(d) /\ d # c
    BY <1>2 DEF Holds, TypeOK
  <2>3. Hands' = [Hands EXCEPT ![c] = {}]
    BY <1>2, <2>2
  <2>4. Contract!Finish(c, m)
    BY <1>2, <2>1, <2>3 DEF Contract!Finish
  <2>5. QED
    BY <2>4 DEF Contract!Next
<1>3. ASSUME NEW c \in Processor, Commit(c) \/ CommitFails(c) PROVE Contract!Next
  BY <1>2, <1>3 DEF Commit, CommitFails, Finish, Holds
<1>4. ASSUME Forget PROVE Contract!Next
  <2>1. \A c \in Processor : ~Holds(c)'
    BY <1>4 DEF Forget, Holds
  <2>2. Contract!Restart
    BY <1>4, <2>1 DEF Forget, Contract!Restart, Contract!Idle
  <2>3. QED
    BY <2>2 DEF Contract!Next
<1>5. ASSUME UNCHANGED <<committed, holding, finished>>, \A c \in Processor : Holds(c)' <=> Holds(c)
      PROVE  UNCHANGED Contract!vars
  BY <1>5 DEF Contract!vars
<1>6. ASSUME NEW c \in Processor, ConsumeFails(c) PROVE [Contract!Next]_(Contract!vars)
  <2>1. CASE ForceCommit
    <3>1. \A d \in Processor : Holds(d)' <=> Holds(d)
      BY <1>6, <2>1 DEF ConsumeFails, Holds, TypeOK
    <3>2. QED
      BY <1>5, <1>6, <2>1, <3>1 DEF ConsumeFails
  <2>2. CASE ~ForceCommit
    BY <1>2, <1>6, <2>2 DEF ConsumeFails, Holds
  <2>3. QED
    BY <2>1, <2>2
<1>7. ASSUME NEW c \in Processor,
             SpawnProcessor(c) \/ HandOver(c) \/ ConsumeSucceeds(c) \/ ProcessorEnds(c)
      PROVE  UNCHANGED Contract!vars
  <2>1. \A d \in Processor : Holds(d)' <=> Holds(d)
    BY <1>7 DEF SpawnProcessor, HandOver, ConsumeSucceeds, ProcessorEnds, Holds, TypeOK
  <2>2. QED
    BY <1>5, <1>7, <2>1 DEF SpawnProcessor, HandOver, ConsumeSucceeds, ProcessorEnds
<1>8. CASE \/ Begin \/ CloseChannel \/ StartReturns \/ Stop \/ UNCHANGED vars
           \/ \E p \in Producer : SpawnProducer(p) \/ Fetch(p) \/ Send(p) \/ ProducerEnds(p)
  <2>1. UNCHANGED <<committed, processors>>
    BY <1>8 DEF Begin, CloseChannel, StartReturns, Stop, vars, SpawnProducer, Fetch, NextMessage,
                Send,
                ProducerEnds
  <2>2. QED
    BY <1>5, <2>1 DEF Holds
<1>9. QED
  BY <1>1, <1>3, <1>4, <1>6, <1>7, <1>8 DEF Next, Exit, SendPanics

\* Every behaviour of the queue is one its contract allows: in one session no message is
\* worked on twice, for any number of goroutines, and commits follow the work.
THEOREM ImplementsContract == Spec => ContractSpec
<1>1. Init => Contract!Init
  <2> SUFFICES ASSUME Init PROVE Contract!Init
    OBVIOUS
  <2>1. \A c \in Processor : ~Holds(c)
    BY DEF Init, Holds
  <2>2. QED
    BY <2>1 DEF Init, Contract!Init, Contract!Idle
<1>2. QED
  BY <1>1, ContractStep, TypeCorrect, AlwaysInOnePlace, PTL
     DEF Spec, ContractSpec, Contract!Spec
-----------------------------------------------------------------------------
(* How many messages the group's offset passes without the handler. *)

\* Sets of messages below an offset are finite.
LEMMA BelowIsFinite ==
    ASSUME NEW b \in Int
    PROVE  IsFiniteSet(Unhanded(b)) /\ Cardinality(Unhanded(b)) \in Nat
<1>1. IsFiniteSet(0..(b - 1))
  BY FS_Interval
<1>2. Unhanded(b) \in SUBSET (0..(b - 1))
  BY DEF Unhanded
<1>3. IsFiniteSet(Unhanded(b))
  BY <1>1, <1>2, FS_Subset
<1>4. QED
  BY <1>3, FS_CardinalityType

\* So are the messages that were overtaken, or left behind.
LEMMA OvertakenIsFinite ==
    ASSUME TypeOK, NEW x \in Int
    PROVE  /\ \A i : IsFiniteSet(Overtaken(x, i)) /\ Cardinality(Overtaken(x, i)) \in Nat
           /\ IsFiniteSet(LeftBehind(x)) /\ Cardinality(LeftBehind(x)) \in Nat
<1>1. IsFiniteSet(base..(x - 1))
  BY FS_Interval DEF TypeOK, Offset
<1>2. ASSUME NEW U, U \in SUBSET (base..(x - 1))
      PROVE  IsFiniteSet(U) /\ Cardinality(U) \in Nat
  BY <1>1, <1>2, FS_Subset, FS_CardinalityType
<1>3. LeftBehind(x) \in SUBSET (base..(x - 1))
  BY DEF LeftBehind
<1>4. \A i : Overtaken(x, i) \in SUBSET (base..(x - 1))
  BY DEF Overtaken
<1>5. QED
  BY <1>2, <1>3, <1>4

\* The numbers of goroutines.
LEMMA HowMany ==
    /\ Cardinality(Producer) \in Nat \ {0} /\ Cardinality(Processor) \in Nat \ {0}
    /\ Others = (Cardinality(Producer) - 1) + (Cardinality(Processor) - 1) /\ Others \in Nat
<1>1. Cardinality(Producer) \in Nat /\ Cardinality(Processor) \in Nat
  BY FS_CardinalityType, QueueAssumption
<1>2. Cardinality(Producer) # 0 /\ Cardinality(Processor) # 0
  BY FS_EmptySet, QueueAssumption
<1>3. QED
  BY <1>1, <1>2 DEF Others

\* What the members of a pool other than g have, one message each, is less than the pool.
LEMMA OthersHave ==
    ASSUME NEW pool, IsFiniteSet(pool), NEW g \in pool, NEW has, NEW U,
           \A m \in U : \E q \in pool \ {g} : has[q] = m
    PROVE  IsFiniteSet(U) /\ Cardinality(U) <= Cardinality(pool) - 1
<1> DEFINE f == [m \in U |-> CHOOSE q \in pool \ {g} : has[q] = m]
<1>1. \A m \in U : f[m] \in pool \ {g} /\ has[f[m]] = m
  OBVIOUS
<1>2. f \in [U -> pool \ {g}]
  BY <1>1
<1> HIDE DEF f
<1>3. f \in Injection(U, pool \ {g})
  BY <1>1, <1>2 DEF Injection, IsInjective
<1>4. IsFiniteSet(pool \ {g}) /\ Cardinality(pool \ {g}) = Cardinality(pool) - 1
  BY FS_RemoveElement
<1>5. IsFiniteSet(U) /\ Cardinality(U) <= Cardinality(pool \ {g})
  BY <1>3, <1>4, FS_Injection
<1>6. QED
  BY <1>4, <1>5

\* What is in one of two sets is at most as many as both.
LEMMA FewerTogether ==
    ASSUME NEW A, NEW B, IsFiniteSet(A), IsFiniteSet(B), NEW U \in SUBSET (A \union B)
    PROVE  /\ IsFiniteSet(U) /\ Cardinality(U) \in Nat
           /\ Cardinality(U) <= Cardinality(A) + Cardinality(B)
<1>1. /\ IsFiniteSet(A \union B)
      /\ Cardinality(A \union B) = Cardinality(A) + Cardinality(B) - Cardinality(A \intersect B)
  BY FS_Union
<1>2. Cardinality(A \intersect B) \in Nat
  <2>1. (A \intersect B) \in SUBSET A
    OBVIOUS
  <2>2. QED
    BY <2>1, FS_Subset, FS_CardinalityType
<1>3. IsFiniteSet(U) /\ Cardinality(U) <= Cardinality(A \union B)
  BY <1>1, FS_Subset
<1>4. Cardinality(U) \in Nat /\ Cardinality(A) \in Nat /\ Cardinality(B) \in Nat
  BY <1>3, FS_CardinalityType
<1>5. QED
  BY <1>1, <1>2, <1>3, <1>4

\* Fewer messages are fewer.
LEMMA FewerOvertaken ==
    ASSUME TypeOK, NEW y \in Int, NEW z \in Int, NEW i, NEW k,
           FewOvertaken(z, k), Overtaken(y, i)' \in SUBSET Overtaken(z, k)
    PROVE  FewOvertaken(y, i)'
<1>1. IsFiniteSet(Overtaken(z, k)) /\ Cardinality(Overtaken(z, k)) \in Nat
  BY OvertakenIsFinite
<1>2. /\ IsFiniteSet(Overtaken(y, i)')
      /\ Cardinality(Overtaken(y, i)') <= Cardinality(Overtaken(z, k))
  BY <1>1, FS_Subset
<1>3. Cardinality(Overtaken(y, i)') \in Nat
  BY <1>2, FS_CardinalityType
<1>4. QED
  BY <1>1, <1>2, <1>3, HowMany DEF FewOvertaken

\* A step that hands over, queues, commits and forgets nothing disturbs nothing of it.
LEMMA NobodySkipped ==
    ASSUME SkipInv, Alive, Alive',
           UNCHANGED <<committed, handed, base, channel, position, sessions>>,
           \A m : Received(m)' <=> Received(m),
           \A x \in Message : (Held(x) \/ x \in finished)' => Held(x) \/ x \in finished,
           \A p \in Producer :
              producer[p] \in {"sending", "done"} =>
                  producer'[p] \in {"sending", "done"} /\ carrying'[p] = carrying[p]
    PROVE  SkipInv'
<1>1. FewAreSkipped'
  BY DEF SkipInv, FewAreSkipped, Unhanded
<1>2. HasCome'
  BY DEF SkipInv, HasCome, Queued
<1>3. /\ \A x, i : FewOvertaken(x, i)' <=> FewOvertaken(x, i)
      /\ \A x : FewLeftBehind(x)' <=> FewLeftBehind(x)
  BY DEF FewOvertaken, Overtaken, FewLeftBehind, LeftBehind
<1>4. FewInLine'
  BY <1>3 DEF SkipInv, FewInLine
<1>5. FewBefore'
  BY DEF SkipInv, FewBefore, Unhanded
<1>6. QED
  BY <1>1, <1>2, <1>4, <1>5 DEF SkipInv

\* A new session allows for as many again.
LEMMA SkippedBefore ==
    ASSUME TypeOK, SkipInv, EndedIsEmpty, Begin
    PROVE  SkipInv'
<1> DEFINE C == Others
           U == Cardinality(Unhanded(committed))
<1>1. C \in Nat /\ sessions \in Nat /\ committed \in Nat /\ U \in Nat
  <2>1. sessions \in Nat /\ committed \in Nat
    BY DEF TypeOK, Offset
  <2>2. QED
    BY <2>1, HowMany, BelowIsFinite
<1>2. U <= sessions * C /\ ~Alive
  BY DEF SkipInv, FewAreSkipped, Begin
<1>3. /\ sessions' = sessions + 1 /\ base' = committed /\ position' = committed
      /\ UNCHANGED <<committed, handed, channel, processor, holding, finished>>
  BY DEF Begin, log, processors
<1>4. Unhanded(committed)' = Unhanded(committed) /\ Unhanded(base)' = Unhanded(committed)
  BY <1>3 DEF Unhanded
<1> HIDE DEF C, U
<1>5. U <= (sessions + 1) * C
  <2>1. (sessions + 1) * C = sessions * C + C /\ sessions * C \in Nat
    BY <1>1
  <2>2. QED
    BY <1>1, <1>2, <2>1
<1>6. FewAreSkipped'
  BY <1>3, <1>4, <1>5 DEF FewAreSkipped, C, U
<1>7. FewBefore'
  BY <1>1, <1>2, <1>3, <1>4 DEF FewBefore, C, U
<1>8. HasCome'
  BY <1>1, <1>3 DEF HasCome
<1>9. channel' = <<>> /\ finished' = {} /\ \A c \in Processor : ~Holds(c)'
  BY <1>2, <1>3 DEF EndedIsEmpty, Holds
<1>10. FewInLine'
  BY <1>9 DEF FewInLine, Held
<1>11. QED
  BY <1>6, <1>7, <1>8, <1>10 DEF SkipInv

\* A message that is put into the channel has overtaken those that other producers carry.
LEMMA FewOvertakenBySend ==
    ASSUME TypeOK, SkipInv, OnePlace, NEW p \in Producer, Send(p)
    PROVE  SkipInv'
<1>1. /\ carrying[p] \in Message /\ producer[p] = "sending" /\ Alive
      /\ channel' = Append(channel, carrying[p]) /\ channel \in Seq(Message)
      /\ producer' = [producer EXCEPT ![p] = "fetching"]
      /\ UNCHANGED <<log, start, position, carrying, closed, processors>>
  BY DEF Send, TypeOK
<1>2. /\ Len(channel') = Len(channel) + 1 /\ channel'[Len(channel) + 1] = carrying[p]
      /\ \A i \in 1..Len(channel) : channel'[i] = channel[i]
      /\ Len(channel) \in Nat
  BY <1>1
<1>3. carrying[p] < position
  BY <1>1 DEF OnePlace, Carried
<1>4. \A m : Queued(m)' <=> Queued(m) \/ m = carrying[p]
  BY <1>2 DEF Queued
<1>5. \A q \in Producer \ {p} : producer'[q] = producer[q]
  BY <1>1
<1>13. \A m : Received(m)' <=> Received(m)
  BY <1>1 DEF Received, processors
<1>6. HasCome'
  BY <1>1, <1>4, <1>5, <1>13 DEF SkipInv, HasCome, log, start
<1>7. FewAreSkipped'
  BY <1>1 DEF SkipInv, FewAreSkipped, Unhanded, log, start
<1>8. FewBefore'
  BY <1>1 DEF SkipInv, FewBefore, Unhanded, log, start
<1>9. \A x : \A i \in 0..Len(channel) : FewOvertaken(x, i)' <=> FewOvertaken(x, i)
  <2>1. \A x : \A i \in 0..Len(channel) : Overtaken(x, i)' = Overtaken(x, i)
    BY <1>1, <1>2, <1>13 DEF Overtaken, log, start
  <2>2. QED
    BY <2>1 DEF FewOvertaken
<1>10. ASSUME NEW y, y = carrying[p], NEW k, k = Len(channel) + 1 PROVE FewOvertaken(y, k)'
  <2> DEFINE U == Overtaken(y, k)'
  <2>1. U = {m \in base..(y - 1) :
                m \notin handed /\ ~Received(m) /\ \A j \in 1..k : channel'[j] # m}
    BY <1>1, <1>13 DEF Overtaken, log, start
  <2>2. ASSUME NEW m \in U PROVE \E q \in Producer \ {p} : carrying[q] = m
    <3>1. m \in base..(position - 1) /\ m < carrying[p]
      BY <1>1, <1>3, <1>10, <2>1 DEF TypeOK, Offset, Message
    <3>2. m \notin handed /\ ~Received(m) /\ ~Queued(m)
      BY <1>2, <1>10, <2>1 DEF Queued
    <3>3. QED
      BY <1>1, <3>1, <3>2 DEF SkipInv, HasCome, Message
  <2>3. Cardinality(U) < Cardinality(Producer)
    <3> HIDE DEF U
    <3>1. IsFiniteSet(U) /\ Cardinality(U) <= Cardinality(Producer) - 1
      BY <2>2, OthersHave, QueueAssumption
    <3>2. Cardinality(U) \in Nat
      BY <3>1, FS_CardinalityType
    <3>3. QED
      BY <3>1, <3>2, HowMany
  <2>4. QED
    BY <2>3 DEF FewOvertaken
<1>11. FewInLine'
  <2>1. ASSUME NEW i \in 1..Len(channel'), NEW y, y = channel'[i] PROVE FewOvertaken(y, i)'
    <3>1. CASE i = Len(channel) + 1
      BY <1>2, <1>10, <2>1, <3>1
    <3>2. CASE i # Len(channel) + 1
      <4>1. i \in 1..Len(channel) /\ y = channel[i]
        BY <1>2, <2>1, <3>2
      <4>2. QED
        BY <1>1, <1>9, <4>1 DEF SkipInv, FewInLine
    <3>3. QED
      BY <3>1, <3>2
  <2>2. ASSUME NEW x \in Message, (Held(x) \/ x \in finished)' PROVE FewLeftBehind(x)'
    BY <1>1, <2>2
       DEF SkipInv, FewInLine, FewLeftBehind, LeftBehind, Held, Holds, log, start, processors
  <2>3. QED
    BY <2>1, <2>2 DEF FewInLine
<1>12. QED
  BY <1>6, <1>7, <1>8, <1>11 DEF SkipInv

\* A message that is received leaves behind those that overtaking left behind, and those
\* that other processors have received before.
LEMMA FewLeftBehindByTake ==
    ASSUME TypeOK, SkipInv, NEW c \in Processor, Take(c)
    PROVE  SkipInv'
<1>0. PICK x : x = channel[1]
  OBVIOUS
<1>1. /\ channel \in Seq(Message) /\ channel # <<>> /\ Head(channel) = x /\ x \in Message
      /\ channel' = Tail(channel) /\ Alive
      /\ processor[c] = "waiting" /\ processor' = [processor EXCEPT ![c] = "received"]
      /\ holding' = [holding EXCEPT ![c] = x]
      /\ UNCHANGED <<log, start, producers, closed, finished>>
  BY <1>0 DEF Take, Receive, TypeOK
<1>2. /\ Len(channel) \in Nat \ {0} /\ Len(channel') = Len(channel) - 1
      /\ \A i \in 1..Len(channel') : channel'[i] = channel[i + 1]
  BY <1>1
<1>3. processor \in ProcessorPC /\ holding \in [Processor -> Offset] /\ x \in Int
  BY <1>1 DEF TypeOK, ProcessorPC, Message
<1>4. \A m : Received(m)' <=> Received(m) \/ m = x
  BY <1>1, <1>3 DEF Received, ProcessorPC
<1>5. \A m : Queued(m) => Queued(m)' \/ m = x
  <2>1. ASSUME NEW m, NEW i \in 1..Len(channel), channel[i] = m, m # x
        PROVE  Queued(m)'
    <3>1. i # 1
      BY <1>0, <2>1
    <3>2. i - 1 \in 1..Len(channel') /\ channel'[i - 1] = channel[i]
      BY <1>2, <3>1
    <3>3. QED
      BY <2>1, <3>2 DEF Queued
  <2>2. QED
    BY <2>1 DEF Queued
<1>6. HasCome'
  BY <1>1, <1>4, <1>5 DEF SkipInv, HasCome, log, start, producers
<1>7. FewAreSkipped' /\ FewBefore'
  BY <1>1 DEF SkipInv, FewAreSkipped, FewBefore, Unhanded, log, start
<1>8. ASSUME NEW y \in Int, NEW i \in 0..Len(channel'), FewOvertaken(y, i + 1)
      PROVE  FewOvertaken(y, i)'
  <2>1. Overtaken(y, i)' = {m \in base..(y - 1) :
            m \notin handed /\ ~(Received(m) \/ m = x) /\ \A j \in 1..i : channel[j + 1] # m}
    BY <1>1, <1>2, <1>4 DEF Overtaken, log, start
  <2>2. Overtaken(y, i)' \in SUBSET Overtaken(y, i + 1)
    <3>1. ASSUME NEW m \in Overtaken(y, i)', NEW j \in 1..(i + 1) PROVE channel[j] # m
      <4>1. CASE j = 1
        BY <1>0, <2>1, <4>1
      <4>2. CASE j # 1
        <5>1. j - 1 \in 1..i /\ channel[(j - 1) + 1] = channel[j]
          BY <4>2
        <5>2. QED
          BY <2>1, <5>1
      <4>3. QED
        BY <4>1, <4>2
    <3>2. QED
      BY <2>1, <3>1 DEF Overtaken
  <2>3. QED
    BY <1>8, <2>2, FewerOvertaken
<1>9. FewLeftBehind(x)'
  <2> DEFINE A == Overtaken(x, 1)
             B == {m \in LeftBehind(x) : Received(m)}
  <2>1. IsFiniteSet(A) /\ Cardinality(A) \in Nat /\ Cardinality(A) <= Cardinality(Producer) - 1
    <3>1. FewOvertaken(x, 1)
      BY <1>0, <1>1, <1>2 DEF SkipInv, FewInLine
    <3>2. QED
      BY <1>3, <3>1, OvertakenIsFinite, HowMany DEF FewOvertaken
  <2>2. IsFiniteSet(B) /\ Cardinality(B) <= Cardinality(Processor) - 1
    <3>1. \A m \in B : \E d \in Processor \ {c} : holding[d] = m
      BY <1>1 DEF Received
    <3> HIDE DEF B
    <3>2. QED
      BY <3>1, OthersHave, QueueAssumption
  <2>3. LeftBehind(x) \in SUBSET (A \union B)
    <3>1. ASSUME NEW m \in LeftBehind(x), m \notin B PROVE m \in A
      <4>1. m # x /\ ~Received(m) /\ m \in base..(x - 1) /\ m \notin handed
        BY <1>3, <3>1 DEF LeftBehind, TypeOK, Offset
      <4>2. QED
        BY <1>0, <4>1 DEF Overtaken
    <3>2. QED
      BY <3>1
  <2> HIDE DEF A, B
  <2>4. Cardinality(LeftBehind(x)) <= Cardinality(A) + Cardinality(B)
        /\ Cardinality(LeftBehind(x)) \in Nat /\ Cardinality(B) \in Nat
    BY <2>1, <2>2, <2>3, FewerTogether, FS_CardinalityType
  <2>5. Cardinality(LeftBehind(x)) <= Others
    BY <2>1, <2>2, <2>4, HowMany
  <2>6. LeftBehind(x)' = LeftBehind(x)
    BY <1>1 DEF LeftBehind, log, start
  <2>7. QED
    BY <2>5, <2>6 DEF FewLeftBehind
<1>10. FewInLine'
  <2>1. ASSUME NEW i \in 1..Len(channel'), NEW y, y = channel'[i] PROVE FewOvertaken(y, i)'
    <3>1. FewOvertaken(y, i + 1) /\ y \in Int
      <4>1. i + 1 \in 1..Len(channel) /\ y = channel[i + 1] /\ i \in Int
        BY <1>2, <2>1
      <4>2. y \in Message
        BY <1>1, <4>1
      <4>3. QED
        BY <1>1, <4>1, <4>2 DEF SkipInv, FewInLine, Message
    <3>2. QED
      BY <1>2, <1>8, <3>1
  <2>2. ASSUME NEW y \in Message, (Held(y) \/ y \in finished)' PROVE FewLeftBehind(y)'
    <3>1. Held(y) \/ y \in finished \/ y = x
      BY <1>1, <1>3, <2>2 DEF Held, Holds, ProcessorPC
    <3>2. CASE y = x
      BY <1>9, <3>2
    <3>3. CASE Held(y) \/ y \in finished
      BY <1>1, <3>3 DEF SkipInv, FewInLine, FewLeftBehind, LeftBehind, log, start
    <3>4. QED
      BY <3>1, <3>2, <3>3
  <2>3. QED
    BY <2>1, <2>2 DEF FewInLine
<1>11. QED
  BY <1>6, <1>7, <1>10 DEF SkipInv

\* What is handed over is left behind no longer.
LEMMA FewLeftBehindByHandOver ==
    ASSUME TypeOK, SkipInv, NEW c \in Processor, HandOver(c)
    PROVE  SkipInv'
<1>1. /\ processor[c] = "received" /\ processor' = [processor EXCEPT ![c] = "consuming"]
      /\ handed' = handed \union {holding[c]} /\ Alive
      /\ UNCHANGED <<committed, acked, start, producers, channel, closed, holding, finished>>
      /\ processor \in ProcessorPC
  BY DEF HandOver, TypeOK, ProcessorPC
<1>2. \A m : Received(m) => Received(m)' \/ m = holding[c]
  BY <1>1 DEF Received, ProcessorPC
<1>3. \A m : m \in handed \/ Received(m) => m \in handed' \/ Received(m)'
  BY <1>1, <1>2
<1>4. HasCome'
  BY <1>1, <1>3 DEF SkipInv, HasCome, Queued, start, producers
<1>5. ASSUME NEW b \in Int
      PROVE  /\ Cardinality(Unhanded(b)') <= Cardinality(Unhanded(b))
             /\ Cardinality(Unhanded(b)') \in Nat /\ Cardinality(Unhanded(b)) \in Nat
  <2>1. Unhanded(b)' \in SUBSET Unhanded(b)
    BY <1>1 DEF Unhanded
  <2>2. IsFiniteSet(Unhanded(b)) /\ Cardinality(Unhanded(b)) \in Nat
    BY BelowIsFinite
  <2>3. IsFiniteSet(Unhanded(b)') /\ Cardinality(Unhanded(b)') <= Cardinality(Unhanded(b))
    BY <2>1, <2>2, FS_Subset
  <2>4. QED
    BY <2>2, <2>3, FS_CardinalityType
<1>6. FewAreSkipped' /\ FewBefore'
  <2> DEFINE C == Others
  <2>1. /\ committed \in Int /\ base \in Int /\ committed' = committed /\ base' = base
        /\ sessions' = sessions /\ sessions \in Nat /\ C \in Nat
    BY <1>1, HowMany DEF TypeOK, Offset, start
  <2>2. sessions * C \in Int /\ (sessions - 1) * C \in Int
    BY <2>1
  <2>3. \A b : Cardinality(Unhanded(b))' = Cardinality(Unhanded(b)')
    OBVIOUS
  <2>4. /\ Cardinality(Unhanded(committed))' <= Cardinality(Unhanded(committed))
        /\ Cardinality(Unhanded(base))' <= Cardinality(Unhanded(base))
        /\ Cardinality(Unhanded(committed))' \in Nat /\ Cardinality(Unhanded(committed)) \in Nat
        /\ Cardinality(Unhanded(base))' \in Nat /\ Cardinality(Unhanded(base)) \in Nat
    BY <1>5, <2>1
  <2>5. /\ Cardinality(Unhanded(committed)) <= sessions * C
        /\ sessions > 0 /\ Cardinality(Unhanded(base)) <= (sessions - 1) * C
    BY <1>1 DEF SkipInv, FewAreSkipped, FewBefore
  <2> HIDE DEF C
  <2>6. /\ Cardinality(Unhanded(committed))' <= sessions' * C
        /\ sessions' > 0 /\ Cardinality(Unhanded(base))' <= (sessions' - 1) * C
    BY <2>1, <2>2, <2>4, <2>5
  <2>7. QED
    BY <2>6 DEF FewAreSkipped, FewBefore, C
<1>7. ASSUME NEW y \in Int, NEW i, FewOvertaken(y, i) PROVE FewOvertaken(y, i)'
  <2>1. Overtaken(y, i)' \in SUBSET Overtaken(y, i)
    BY <1>1, <1>3 DEF Overtaken, start
  <2>2. QED
    BY <1>7, <2>1, FewerOvertaken
<1>8. ASSUME NEW y \in Int, FewLeftBehind(y) PROVE FewLeftBehind(y)'
  <2>1. LeftBehind(y)' \in SUBSET LeftBehind(y)
    BY <1>1 DEF LeftBehind, start
  <2>2. IsFiniteSet(LeftBehind(y)) /\ Cardinality(LeftBehind(y)) \in Nat
    BY OvertakenIsFinite
  <2>3. /\ IsFiniteSet(LeftBehind(y)')
        /\ Cardinality(LeftBehind(y)') <= Cardinality(LeftBehind(y))
    BY <2>1, <2>2, FS_Subset
  <2>4. Cardinality(LeftBehind(y)') \in Nat
    BY <2>3, FS_CardinalityType
  <2>5. QED
    BY <1>8, <2>2, <2>3, <2>4, HowMany DEF FewLeftBehind
<1>9. FewInLine'
  <2>1. ASSUME NEW i \in 1..Len(channel'), NEW y, y = channel'[i] PROVE FewOvertaken(y, i)'
    <3>1. i \in 1..Len(channel) /\ y = channel[i]
      BY <1>1, <2>1
    <3>2. y \in Int
      <4>1. y \in Message
        BY <3>1 DEF TypeOK
      <4>2. QED
        BY <4>1 DEF Message
    <3>3. FewOvertaken(y, i)
      BY <1>1, <3>1 DEF SkipInv, FewInLine
    <3>4. QED
      BY <1>7, <3>2, <3>3
  <2>2. ASSUME NEW y \in Message, (Held(y) \/ y \in finished)' PROVE FewLeftBehind(y)'
    <3>1. Held(y) \/ y \in finished
      BY <1>1, <2>2 DEF Held, Holds, ProcessorPC
    <3>2. QED
      BY <1>1, <1>8, <3>1 DEF SkipInv, FewInLine, Message
  <2>3. QED
    BY <2>1, <2>2 DEF FewInLine
<1>10. QED
  BY <1>4, <1>6, <1>9 DEF SkipInv

\* What a commit passes is what was passed before the session, and what its own message
\* has left behind in it.
LEMMA FewSkippedByCommit ==
    ASSUME TypeOK, SkipInv, HeldWasHanded, NEW c \in Processor, Commit(c)
    PROVE  SkipInv'
<1> DEFINE x == holding[c]
           A == Unhanded(base)
           B == LeftBehind(x)
           C == Others
<1>1. /\ Holds(c) /\ x \in Message /\ Alive /\ committed' = x + 1
      /\ processor' = [processor EXCEPT ![c] = "waiting"]
      /\ finished' = finished \union {x}
      /\ processor[c] = "committing"
      /\ UNCHANGED <<handed, start, producers, channel, closed, holding>>
  BY DEF Commit, Finish, TypeOK, Holds
<1>2. processor \in ProcessorPC
      /\ base \in Nat /\ sessions \in Nat
  BY DEF TypeOK, ProcessorPC, Offset
<1>3. x \in handed /\ Held(x)
  BY <1>1 DEF HeldWasHanded, Held
<1>4. FewLeftBehind(x) /\ FewBefore
  BY <1>1, <1>3 DEF SkipInv, FewInLine
<1>5. /\ IsFiniteSet(A) /\ IsFiniteSet(B) /\ Cardinality(A) \in Nat /\ Cardinality(B) \in Nat
      /\ C \in Nat
  BY <1>1, <1>2, BelowIsFinite, OvertakenIsFinite, HowMany DEF Message
<1>6. Cardinality(A) <= (sessions - 1) * C /\ sessions > 0 /\ Cardinality(B) <= C
  BY <1>4, <1>5 DEF FewBefore, FewLeftBehind
<1>7. Unhanded(committed)' \in SUBSET (A \union B)
  <2>1. Unhanded(committed)' = {m \in 0..x : m \notin handed}
    BY <1>1 DEF Unhanded, Message
  <2>2. ASSUME NEW m \in 0..x, m \notin handed, m \notin A PROVE m \in B
    <3>1. m # x /\ m \in base..(x - 1)
      BY <1>1, <1>2, <1>3, <2>2 DEF Unhanded, Message
    <3>2. QED
      BY <2>2, <3>1 DEF LeftBehind
  <2>3. QED
    BY <2>1, <2>2
<1> HIDE DEF x, A, B, C
<1>8. Cardinality(Unhanded(committed)') <= Cardinality(A) + Cardinality(B)
      /\ Cardinality(Unhanded(committed)') \in Nat
  BY <1>5, <1>7, FewerTogether
<1>9. Cardinality(Unhanded(committed)') <= sessions * C
  <2>1. sessions * C = (sessions - 1) * C + C
    BY <1>2, <1>5
  <2>2. (sessions - 1) * C \in Int
    BY <1>2, <1>5
  <2>3. QED
    BY <1>5, <1>6, <1>8, <2>1, <2>2
<1>10. FewAreSkipped'
  <2>1. sessions' = sessions /\ Cardinality(Unhanded(committed))' = Cardinality(Unhanded(committed)')
    BY <1>1 DEF start
  <2>2. QED
    BY <1>9, <2>1 DEF FewAreSkipped, C
<1>16. \A m : Received(m)' <=> Received(m)
  BY <1>1, <1>2 DEF Received, ProcessorPC
<1>11. FewBefore' /\ HasCome'
  BY <1>1, <1>16 DEF SkipInv, FewBefore, HasCome, Unhanded, Queued, start, producers
<1>12. /\ \A y, i : FewOvertaken(y, i)' <=> FewOvertaken(y, i)
       /\ \A y : FewLeftBehind(y)' <=> FewLeftBehind(y)
  BY <1>1, <1>16 DEF FewOvertaken, Overtaken, FewLeftBehind, LeftBehind, start
<1>13. \A y : (Held(y) \/ y \in finished)' => Held(y) \/ y \in finished
  BY <1>1, <1>2, <1>3 DEF Held, Holds, ProcessorPC, x
<1>14. FewInLine'
  BY <1>1, <1>12, <1>13 DEF SkipInv, FewInLine
<1>15. QED
  BY <1>10, <1>11, <1>14 DEF SkipInv
\* When the process ends, what its session skipped is skipped for good.
LEMMA SkippedAtEnd ==
    ASSUME SkipInv, Forget, ~Alive'
    PROVE  SkipInv'
<1>1. UNCHANGED <<committed, handed, sessions>>
  BY DEF Forget, log
<1>2. FewAreSkipped'
  BY <1>1 DEF SkipInv, FewAreSkipped, Unhanded
<1>3. QED
  BY <1>2 DEF SkipInv

\* No step of the queue lets its offset pass too many messages.
LEMMA SkipStep ==
    TypeOK /\ InOnePlace /\ HeldWasHanded /\ SkipInv /\ [Next]_vars => SkipInv'
<1> SUFFICES ASSUME TypeOK, InOnePlace, HeldWasHanded, SkipInv, [Next]_vars PROVE SkipInv'
  OBVIOUS
<1> USE DEF log, start, producers, processors
<1>1. CASE Begin
  BY <1>1, SkippedBefore DEF InOnePlace
<1>2. CASE CloseChannel
  BY <1>2, NobodySkipped DEF CloseChannel, Alive, Received, Held, Holds
<1>3. CASE StartReturns
  BY <1>3, NobodySkipped DEF StartReturns, Alive, Received, Held, Holds
<1>4. CASE Stop
  BY <1>4, NobodySkipped DEF Stop, Up, Alive, Received, Held, Holds
<1>5. CASE Exit
  BY <1>5, SkippedAtEnd DEF Exit, Alive
<1>6. ASSUME NEW p \in Producer,
             SpawnProducer(p) \/ Fetch(p) \/ Send(p) \/ SendPanics(p) \/ ProducerEnds(p)
      PROVE  SkipInv'
  <2>1. CASE SpawnProducer(p)
    BY <2>1, NobodySkipped DEF SpawnProducer, Alive, Received, Held, Holds, TypeOK
  <2>2. CASE Fetch(p)
    <3>1. /\ Alive /\ Alive' /\ producer[p] = "fetching"
          /\ producer' = [producer EXCEPT ![p] = "sending"]
          /\ carrying' = [carrying EXCEPT ![p] = position] /\ position' = position + 1
          /\ UNCHANGED <<log, start, channel, closed, processors>>
      BY <2>2 DEF Fetch, NextMessage, Alive
    <3>2. HasCome'
      <4>1. ASSUME NEW m \in base..position, m # position
            PROVE  \/ m \in handed \/ Received(m) \/ Queued(m)
                   \/ \E q \in Producer : producer[q] \in {"sending", "done"} /\ carrying[q] = m
        <5>1. m \in base..(position - 1)
          BY <4>1 DEF TypeOK, Offset
        <5>2. QED
          BY <3>1, <5>1 DEF SkipInv, HasCome
      <4>2. \A q \in Producer : producer[q] \in {"sending", "done"} =>
                producer'[q] = producer[q] /\ carrying'[q] = carrying[q]
        BY <3>1
      <4>3. producer'[p] = "sending" /\ carrying'[p] = position
        BY <3>1 DEF TypeOK
      <4>4. base' = base /\ position' - 1 = position /\ handed' = handed
        BY <3>1 DEF TypeOK, Offset
      <4>5. \A m : (Queued(m)' <=> Queued(m)) /\ (Received(m)' <=> Received(m))
        BY <3>1 DEF Queued, Received
      <4>6. QED
        BY <4>1, <4>2, <4>3, <4>4, <4>5 DEF HasCome
    <3>3. QED
      BY <3>1, <3>2
      DEF SkipInv, FewAreSkipped, FewInLine, FewBefore, FewOvertaken, Overtaken,
          FewLeftBehind, LeftBehind, Unhanded, Received, Held, Holds
  <2>3. CASE Send(p)
    BY <2>3, FewOvertakenBySend DEF InOnePlace
  <2>4. CASE SendPanics(p)
    BY <2>4, SkippedAtEnd DEF SendPanics, Alive
  <2>5. CASE ProducerEnds(p)
    BY <2>5, NobodySkipped DEF ProducerEnds, Alive, Received, Held, Holds, TypeOK
  <2>6. QED
    BY <1>6, <2>1, <2>2, <2>3, <2>4, <2>5
<1>7. ASSUME NEW c \in Processor,
             \/ SpawnProcessor(c) \/ Take(c) \/ HandOver(c) \/ ConsumeSucceeds(c)
             \/ ConsumeFails(c) \/ Commit(c) \/ CommitFails(c) \/ ProcessorEnds(c)
      PROVE  SkipInv'
  <2>1. CASE SpawnProcessor(c)
    BY <2>1, NobodySkipped DEF SpawnProcessor, Alive, Received, Held, Holds, TypeOK
  <2>2. CASE Take(c)
    BY <2>2, FewLeftBehindByTake
  <2>9. CASE HandOver(c)
    BY <2>9, FewLeftBehindByHandOver
  <2>3. CASE ConsumeSucceeds(c)
    BY <2>3, NobodySkipped DEF ConsumeSucceeds, Alive, Received, Held, Holds, TypeOK
  <2>4. CASE ConsumeFails(c)
    BY <2>4, NobodySkipped DEF ConsumeFails, Alive, Received, Held, Holds, TypeOK
  <2>5. CASE Commit(c)
    BY <2>5, FewSkippedByCommit
  <2>6. CASE CommitFails(c)
    BY <2>6, NobodySkipped DEF CommitFails, Finish, Alive, Received, Held, Holds, TypeOK
  <2>7. CASE ProcessorEnds(c)
    BY <2>7, NobodySkipped DEF ProcessorEnds, Alive, Received, Held, Holds, TypeOK
  <2>8. QED
    BY <1>7, <2>1, <2>2, <2>3, <2>4, <2>5, <2>6, <2>7, <2>9
<1>8. CASE UNCHANGED vars
  <2>1. CASE Alive
    BY <1>8, <2>1, NobodySkipped DEF vars, Alive, Received, Held, Holds
  <2>2. CASE ~Alive
    BY <1>8, <2>2 DEF vars, SkipInv, FewAreSkipped, Unhanded, Alive
  <2>3. QED
    BY <2>1, <2>2
<1>9. QED
  BY <1>1, <1>2, <1>3, <1>4, <1>5, <1>6, <1>7, <1>8 DEF Next

\* In each session the group's offset passes at most one message without the handler for
\* each producer but one, which had fetched it and was overtaken on the way to the channel,
\* and one for each processor but one, which had received it and not yet called the handler.
\* That is a bound on what is skipped for good when the process ends, for any number of
\* goroutines and sessions.
THEOREM AlwaysFewSkipped == Spec => []FewAreSkipped
<1>1. Init => SkipInv
  <2> SUFFICES ASSUME Init PROVE SkipInv
    OBVIOUS
  <2>1. Unhanded(committed) = {} /\ sessions = 0 /\ ~Alive
    BY DEF Init, Unhanded, Alive
  <2>2. Cardinality(Unhanded(committed)) = 0
    BY <2>1, FS_EmptySet
  <2>3. 0 * Others = 0
    BY HowMany
  <2>4. QED
    BY <2>1, <2>2, <2>3 DEF SkipInv, FewAreSkipped
<1>2. Spec => []HeldWasHanded
  BY HandedFirst, PTL
<1>3. SkipInv => FewAreSkipped
  BY DEF SkipInv
<1>4. QED
  BY <1>1, <1>2, <1>3, SkipStep, TypeCorrect, AlwaysInOnePlace, PTL DEF Spec

\* Only with one producer and one processor does the group's offset pass no message that
\* was not handed over, however often the process ends.
THEOREM OneOfEachSkipsNone ==
    ASSUME \A p, q \in Producer : p = q, \A c, d \in Processor : c = d
    PROVE  Spec => [](\A m \in 0..(committed - 1) : m \in handed)
<1>1. Others = 0
  <2>1. Cardinality(Producer) = 1 /\ Cardinality(Processor) = 1
    BY FS_Singleton, QueueAssumption
  <2>2. QED
    BY <2>1 DEF Others
<1>2. TypeOK /\ FewAreSkipped => \A m \in 0..(committed - 1) : m \in handed
  <2> SUFFICES ASSUME TypeOK, FewAreSkipped PROVE Unhanded(committed) = {}
    BY DEF Unhanded
  <2>1. sessions * Others = 0
    BY <1>1 DEF TypeOK
  <2>2. IsFiniteSet(Unhanded(committed)) /\ Cardinality(Unhanded(committed)) \in Nat
    BY BelowIsFinite DEF TypeOK, Offset
  <2>3. QED
    BY <2>1, <2>2, FS_EmptySet DEF FewAreSkipped
<1>3. QED
  BY <1>2, TypeCorrect, AlwaysFewSkipped, PTL
=============================================================================
