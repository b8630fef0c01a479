------------------------------ MODULE CanRecv ------------------------------
(***************************************************************************)
(* The CAN frame receivers of a network interface (src/lib/can/net.c).     *)
(* The receivers of one key are a sequence, in the order of the doubly-    *)
(* linked list whose first element is the node in the tree.  l[k] is the   *)
(* list of key k.                                                          *)
(***************************************************************************)
EXTENDS Naturals, Sequences, FiniteSets, SequencesExt

CONSTANTS
    Keys,   \* the keys (identifier and flags) of CAN frames
    Recvs,  \* the receivers
    Null

CanRecvAssumption == Null \notin Recvs

Active(l) == {r \in Recvs : \E k \in Keys : r \in ToSet(l[k])}

can_recv_stop(l, r) == [k \in Keys |-> SelectSeq(l[k], LAMBDA x : x # r)]

\* A receiver is inserted after the first one with the same key.
can_recv_start(l, r, k) ==
    LET s == can_recv_stop(l, r) IN
    [s EXCEPT ![k] = IF @ = <<>> THEN <<r>> ELSE <<Head(@), r>> \o Tail(@)]

\* The pointer to the next element of the list that holds r.  It is cleared
\* when r is stopped.
list_next(l, r) ==
    LET after == {l[k][i + 1] : <<k, i>> \in
                     {<<k, i>> \in Keys \X (1..Cardinality(Recvs)) : i < Len(l[k]) /\ l[k][i] = r}}
    IN  IF after = {} THEN Null ELSE CHOOSE x \in after : TRUE
=============================================================================
