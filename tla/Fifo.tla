-------------------------------- MODULE Fifo --------------------------------
(***************************************************************************)
(* What a buffer of bytes promises: they come out in the order they went   *)
(* in, each once, and none is lost.                                        *)
(***************************************************************************)
EXTENDS Integers, Sequences

CONSTANT Chunk    \* the sequences of bytes that are written at a time

VARIABLE queue

Init == queue = <<>>

Enqueue == \E data \in Chunk : queue' = queue \o data
Dequeue == \E length \in 0 .. Len(queue) : queue' = SubSeq(queue, length + 1, Len(queue))

Next == Enqueue \/ Dequeue

Spec == Init /\ [][Next]_queue
=============================================================================
