--------------------------- MODULE ConsumerContract ---------------------------
(***************************************************************************)
(* What a Kafka queue owes its consumer and its group (pkg/queue), with    *)
(* nothing said of producers and channels: in one session no message is    *)
(* worked on twice, and only the offset behind one that is being finished  *)
(* is ever committed.  In the next session anything may come again.        *)
(***************************************************************************)
EXTENDS Naturals

CONSTANTS
    Worker,
    Message   \* the messages of a partition are their offsets

VARIABLES committed,   \* the group's offset
          hands,       \* what each worker works on: one message, or none
          done         \* messages that workers are done with in this session

vars == <<committed, hands, done>>

Idle == [w \in Worker |-> {}]

Init == committed = 0 /\ hands = Idle /\ done = {}

Take(w, m) ==
    /\ hands[w] = {}
    /\ m \notin done /\ \A v \in Worker : m \notin hands[v]
    /\ hands' = [hands EXCEPT ![w] = {m}]
    /\ UNCHANGED <<committed, done>>

Finish(w, m) ==
    /\ hands[w] = {m}
    /\ hands' = [hands EXCEPT ![w] = {}]
    /\ done' = done \union {m}
    /\ committed' \in {committed, m + 1}

Restart == hands' = Idle /\ done' = {} /\ UNCHANGED committed

Next == Restart \/ \E w \in Worker, m \in Message : Take(w, m) \/ Finish(w, m)

Spec == Init /\ [][Next]_vars
=============================================================================
