---------------------------- MODULE BoundedFifo ----------------------------
(***************************************************************************)
(* What a single-producer, single-consumer ring buffer promises: a FIFO    *)
(* queue of at most Capacity items.  The items are numbered modulo Modulus *)
(* in the order in which they are put.                                     *)
(***************************************************************************)
EXTENDS Integers, Sequences

CONSTANTS Capacity, Modulus

VARIABLES queue, put

Init == queue = <<>> /\ put = 0

\* The producer makes n more items available.
Put(n) ==
    /\ Len(queue) + n <= Capacity
    /\ queue' = queue \o [i \in 1 .. n |-> (put + i - 1) % Modulus]
    /\ put' = (put + n) % Modulus

\* The consumer is done with the n oldest items.
Get(n) ==
    /\ n <= Len(queue)
    /\ queue' = SubSeq(queue, n + 1, Len(queue))
    /\ UNCHANGED put

Next == \E n \in 0 .. Capacity : Put(n) \/ Get(n)

Spec == Init /\ [][Next]_<<queue, put>>
=============================================================================
