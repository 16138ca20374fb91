-------------------------------- MODULE Fifo --------------------------------
(***************************************************************************)
(* What a message queue promises: messages leave in the order in which     *)
(* they entered, each exactly once, and at most Capacity are waiting.      *)
(***************************************************************************)
EXTENDS Naturals, Sequences

CONSTANTS Message, Capacity

VARIABLES
    queue,          \* the messages that wait
    delivered       \* every message that has left, in order

vars == <<queue, delivered>>

Init == queue = <<>> /\ delivered = <<>>

Enqueue(m) == /\ Len(queue) < Capacity
              /\ queue' = Append(queue, m)
              /\ UNCHANGED delivered

Dequeue == /\ queue # <<>>
           /\ queue' = Tail(queue)
           /\ delivered' = Append(delivered, Head(queue))

Next == Dequeue \/ \E m \in Message : Enqueue(m)

Spec == Init /\ [][Next]_vars

=============================================================================
