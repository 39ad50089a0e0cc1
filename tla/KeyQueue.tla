------------------------------ MODULE KeyQueue ------------------------------
(***************************************************************************)
(* What the input buffer of kernel/drivers/keyboard.c promises to the      *)
(* processes that read descriptor 0: a first-in first-out queue of at most *)
(* Capacity characters, in which a character that finds the queue full is  *)
(* lost and one that was accepted is delivered once.                       *)
(***************************************************************************)
EXTENDS Naturals, Sequences

CONSTANTS Characters, Capacity

VARIABLE queue

Init == queue = <<>>

Accept == /\ Len(queue) < Capacity
          /\ \E c \in Characters : queue' = Append(queue, c)

Deliver == /\ queue # <<>>
           /\ queue' = Tail(queue)

Next == Accept \/ Deliver

Spec == Init /\ [][Next]_queue
=============================================================================
