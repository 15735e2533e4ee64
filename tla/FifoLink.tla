------------------------------ MODULE FifoLink ------------------------------
(***************************************************************************)
(* What the queues below the network layer promise together: packets that  *)
(* were accepted leave the node one by one, in the order in which they     *)
(* were accepted, and each of them leaves.                                 *)
(***************************************************************************)
EXTENDS Sequences

CONSTANT Packet     \* what can be told of a packet

VARIABLE queue      \* accepted, not sent yet

Init == queue = <<>>

Accept(p) == queue' = Append(queue, p)

Deliver == /\ queue # <<>>
           /\ queue' = Tail(queue)

Next == (\E p \in Packet : Accept(p)) \/ Deliver

Spec == Init /\ [][Next]_queue

\* A link that has packets does not stop.
Fairness == WF_queue(Deliver)
=============================================================================
