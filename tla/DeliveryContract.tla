-------------------------- MODULE DeliveryContract --------------------------
(***************************************************************************)
(* What a subscription promises about its topic, whatever retries, dead    *)
(* letters, shutdowns and crashes do.  A message is dealt with by settling *)
(* it or by leaving it behind, any number of times, but only in its turn:  *)
(* after all before it, and never again once the group's offset is past    *)
(* it.  The offset only moves forward, to just past a message that was     *)
(* settled; messages left behind before that one are passed over.          *)
(***************************************************************************)
EXTENDS Naturals

CONSTANTS
    Topics,
    Length      \* messages in a topic

VARIABLES
    offset,     \* offset[t]: where the consumer group goes on after a crash
    done,       \* messages handled, dead-lettered or given up after retries
    left,       \* messages left behind on purpose
    dealt       \* dealt[t][o]: how often message o was settled or left

contractVars == <<offset, done, left, dealt>>

Init ==
    /\ offset = [t \in Topics |-> 0]
    /\ done = [t \in Topics |-> {}]
    /\ left = [t \in Topics |-> {}]
    /\ dealt = [t \in Topics |-> [o \in 0..(Length - 1) |-> 0]]

\* It is the turn of message o: it is not committed, and those before it have
\* been dealt with.
Turn(t, o) ==
    /\ offset[t] <= o
    /\ \A p \in 0..(o - 1) : p \in done[t] \cup left[t]

Deal(t, o) ==
    /\ Turn(t, o)
    /\ dealt' = [dealt EXCEPT ![t][o] = @ + 1]

Settle(t, o) ==
    /\ Deal(t, o)
    /\ done' = [done EXCEPT ![t] = @ \cup {o}]
    /\ UNCHANGED <<offset, left>>

Leave(t, o) ==
    /\ Deal(t, o)
    /\ left' = [left EXCEPT ![t] = @ \cup {o}]
    /\ UNCHANGED <<offset, done>>

Commit(t, o) ==
    /\ Turn(t, o)
    /\ o \in done[t]
    /\ offset' = [offset EXCEPT ![t] = o + 1]
    /\ UNCHANGED <<done, left, dealt>>

Next ==
    \E t \in Topics : \E o \in 0..(Length - 1) :
        Settle(t, o) \/ Leave(t, o) \/ Commit(t, o)

Spec == Init /\ [][Next]_contractVars

=============================================================================
