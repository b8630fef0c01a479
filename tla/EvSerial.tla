------------------------------ MODULE EvSerial ------------------------------
(***************************************************************************)
(* What a strand promises (src/include/lely/ev/strand.h): tasks run in the *)
(* order in which they are submitted, and never at the same time.  A task  *)
(* that is dispatched by the running task may run inside of it.            *)
(***************************************************************************)
EXTENDS Naturals, Sequences

CONSTANTS Tasks, None

\* The tasks that wait, and the task that runs.
VARIABLES pending, running

SerialInit == pending = <<>> /\ running = None

Submit(x) == pending' = Append(pending, x) /\ UNCHANGED running

Start == running = None /\ pending # <<>> /\ running' = Head(pending) /\ pending' = Tail(pending)

Finish == running # None /\ running' = None /\ UNCHANGED pending

\* s without its i-th element.
Without(s, i) == [j \in 1..(Len(s) - 1) |-> IF j < i THEN s[j] ELSE s[j + 1]]

Abort(i) == pending' = Without(pending, i) /\ UNCHANGED running

AbortAll == pending' = <<>> /\ UNCHANGED running

SerialNext ==
    \/ \E x \in Tasks : Submit(x)
    \/ \E i \in 1..Len(pending) : Abort(i)
    \/ Start \/ Finish \/ AbortAll

SerialSpec == SerialInit /\ [][SerialNext]_<<pending, running>>
=============================================================================
