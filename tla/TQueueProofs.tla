---------------------------- MODULE TQueueProofs ----------------------------
(***************************************************************************)
(* Proofs about the timer queue: the wait operation that all waits share   *)
(* is never in two places, the time the queue remembers covers every wait  *)
(* that is pending, no wait is completed before its time, and nothing is   *)
(* left when io_tqueue_fini() returns.                                     *)
(***************************************************************************)
EXTENDS TQueue, FiniteSetTheorems, TLAPS

Pcs == {"idle", "submit", "resubmit", "noclock", "got", "expired", "empty"}

Timer == [exp : 0 .. MaxTime, held : BOOLEAN, shutdown : BOOLEAN, watch : BOOLEAN,
          posted : BOOLEAN]

\* The types, and that no thread has read a time that has not come.
TqTypes ==
    /\ conf \in Confs /\ now \in 1 .. MaxTime
    /\ st \in [Waits -> {"idle", "pending", "done", "canceled", "aborted"}]
    /\ heap \subseteq Waits \X (1 .. MaxTime)
    /\ tq \in [shutdown : BOOLEAN, submitted : BOOLEAN, next : 0 .. MaxTime]
    /\ tm \in Timer
    /\ exec \subseteq {"tqwait", "waittask"}
    /\ fini \in {"no", "cancel", "down", "wait", "done"}
    /\ at \in [Crew -> [pc : Pcs, clock : 0 .. MaxTime]]
    /\ \A t \in Crew : at[t].clock <= now

\* A wait is in the heap once, with one value, exactly while it is pending.
HeapInv ==
    /\ IsFiniteSet(heap)
    /\ \A p, q \in heap : p[1] = q[1] => p = q
    /\ \A w \in Waits : st[w] = "pending" <=> \E p \in heap : p[1] = w

\* The next time covers the heap, which is empty once the waits were cancelled.
CoverInv ==
    /\ heap # {} /\ ~tq.shutdown =>
         tq.submitted /\ tq.next # 0 /\ \A p \in heap : tq.next <= p[2]
    /\ fini # "no" => tq.shutdown
    /\ fini \in {"down", "wait", "done"} => heap = {}

Holder(t) == at[t].pc \in {"submit", "resubmit", "noclock", "got"}

\* Where tq->wait is: in the timer, in the executor, with a thread, or nowhere.
InTimer == tm.held
InExec == "tqwait" \in exec
Held == \E t \in Crew : Holder(t)

PlaceInv ==
    /\ ~(InTimer /\ InExec)
    /\ InTimer \/ InExec => ~Held
    /\ \A t, u \in Crew : Holder(t) /\ Holder(u) => t = u
    /\ fini # "done" => (tq.submitted <=> InTimer \/ InExec \/ Held)
    /\ fini = "done" => ~InTimer /\ ~InExec /\ ~Held

TqInv == TqTypes /\ HeapInv /\ CoverInv /\ PlaceInv

-----------------------------------------------------------------------------
(***************************************************************************)
(* The timer.                                                              *)
(***************************************************************************)

\* The timer T becomes R[1] and the tasks R[2] are posted: tq->wait stays, or
\* moves to the executor.
Kept(T, R) ==
    /\ R[1] \in Timer /\ R[2] \subseteq {"tqwait"}
    /\ ~(R[1].held /\ "tqwait" \in R[2])
    /\ T.held <=> R[1].held \/ "tqwait" \in R[2]

LEMMA ReleasedKept ==
    ASSUME NEW T \in Timer
    PROVE  Kept(T, Released(T))
<1> DEFINE U == [T EXCEPT !.held = FALSE]
<1>1. U \in Timer /\ ~U.held
  BY DEF Timer
<1>2. CASE T.held
  <2>1. Released(T) = <<U, {"tqwait"}>>
    BY <1>2 DEF Released
  <2> HIDE DEF U
  <2>2. Released(T)[1] = U /\ Released(T)[2] = {"tqwait"}
    BY <2>1
  <2> QED
    BY <1>1, <1>2, <2>2, Zenon DEF Kept
<1>3. CASE ~T.held
  <2>1. Released(T) = <<U, {}>>
    BY <1>3 DEF Released
  <2> HIDE DEF U
  <2>2. Released(T)[1] = U /\ Released(T)[2] = {}
    BY <2>1
  <2> QED
    BY <1>1, <1>3, <2>2, Zenon DEF Kept
<1> QED
  BY <1>2, <1>3

\* A timer that does nothing.
LEMMA NothingKept ==
    ASSUME NEW T \in Timer
    PROVE  Kept(T, <<T, {}>>)
BY DEF Kept

\* An expiration of the user-defined timer.
LEMMA do_settimeKept ==
    ASSUME TqAssumption, NEW T \in Timer
    PROVE  Kept(T, do_settime(T))
<1>1. CASE T.exp # 0 /\ T.exp <= now'
  <2> DEFINE U == [T EXCEPT !.exp = 0]
  <2>1. do_settime(T) = Released(U)
    BY <1>1 DEF do_settime
  <2>2. U \in Timer /\ U.held = T.held
    BY DEF Timer, TqAssumption
  <2> HIDE DEF U
  <2>3. Kept(U, do_settime(T))
    BY <2>1, <2>2, ReleasedKept
  <2> QED
    BY <2>2, <2>3, Zenon DEF Kept
<1>2. CASE ~(T.exp # 0 /\ T.exp <= now')
  <2>1. do_settime(T) = <<T, {}>>
    BY <1>2 DEF do_settime
  <2> QED
    BY <2>1, NothingKept
<1> QED
  BY <1>1, <1>2

\* Setting the timer.
LEMMA SettimeKept ==
    ASSUME TqAssumption, NEW T \in Timer, NEW value \in 0 .. MaxTime
    PROVE  Kept(T, Settime(T, value))
<1> DEFINE U == [T EXCEPT !.exp = value]
<1>1. U \in Timer /\ U.held = T.held
  BY DEF Timer
<1>2. Settime(T, value) = do_settime(U) \/ Settime(T, value) = <<U, {}>>
  BY DEF Settime
<1> HIDE DEF U
<1>3. Kept(U, Settime(T, value))
  BY <1>1, <1>2, do_settimeKept, NothingKept
<1> QED
  BY <1>1, <1>3, Zenon DEF Kept

\* The cancellation of tq->wait when the heap is empty.
LEMMA CancelKept ==
    ASSUME NEW T \in Timer, NEW h
    PROVE  Kept(T, CancelEmpty(h, T))
BY ReleasedKept, NothingKept DEF CancelEmpty

\* tq->wait is submitted to a timer that does not hold it: it is then in the
\* timer or in the executor.
LEMMA SubmitPuts ==
    ASSUME TqAssumption, NEW T \in Timer, ~T.held
    PROVE  LET R == SubmitWait(T)
           IN  /\ R[1] \in Timer /\ R[2] \subseteq {"tqwait"}
               /\ R[1].held <=> "tqwait" \notin R[2]
<1> DEFINE U == [T EXCEPT !.held = TRUE]
<1>1. U \in Timer /\ U.held
  BY DEF Timer
<1>2. CASE T.shutdown
  <2>1. SubmitWait(T) = <<T, {"tqwait"}>>
    BY <1>2 DEF SubmitWait
  <2>2. SubmitWait(T)[1] = T /\ SubmitWait(T)[2] = {"tqwait"}
    BY <2>1
  <2> QED
    BY <2>2, Zenon
<1>3. CASE ~T.shutdown
  <2>1. SubmitWait(T) = do_settime(U) \/ SubmitWait(T) = <<U, {}>>
    BY <1>3 DEF SubmitWait
  <2> HIDE DEF U
  <2>2. Kept(U, SubmitWait(T))
    BY <1>1, <2>1, do_settimeKept, NothingKept
  <2> QED
    BY <1>1, <2>2, Zenon DEF Kept
<1> QED
  BY <1>2, <1>3

-----------------------------------------------------------------------------
(***************************************************************************)
(* The heap and the threads.                                               *)
(***************************************************************************)

\* A heap that is not empty has an earliest value.
LEMMA EarliestIs ==
    ASSUME MaxTime \in Nat, NEW h, h \subseteq Waits \X (1 .. MaxTime), h # {}
    PROVE  /\ Earliest(h) \in 1 .. MaxTime
           /\ \A p \in h : Earliest(h) <= p[2]
           /\ \E p \in h : Earliest(h) = p[2]
<1> DEFINE V == {p[2] : p \in h}
           R == OpToRel(<, Nat)
<1>1. V \subseteq 1 .. MaxTime /\ V \subseteq Nat /\ V # {}
  OBVIOUS
<1>2. IsWellFoundedOn(R, Nat)
  BY NatLessThanWellFounded
<1>3. \A x, y \in Nat : x < y => <<x, y>> \in R
  BY DEF OpToRel
<1> HIDE DEF R, V
<1>4. PICK m \in V : \A y \in V : ~(<<y, m>> \in R)
  BY <1>1, <1>2, WFMin, Zenon
<1>5. ASSUME NEW y \in V
      PROVE  m <= y
  <2>1. m \in Nat /\ y \in Nat /\ ~(<<y, m>> \in R)
    BY <1>1, <1>4
  <2>2. ~(y < m)
    BY <1>3, <2>1
  <2> QED
    BY <2>1, <2>2
<1> USE DEF V
<1>6. \A p \in h : m <= p[2]
  BY <1>5
<1>7. \E v \in {p[2] : p \in h} : \A p \in h : v <= p[2]
  BY <1>6
<1>8. Earliest(h) \in V /\ \A p \in h : Earliest(h) <= p[2]
  BY <1>7 DEF Earliest
<1> QED
  BY <1>1, <1>8

\* Waits leave the heap and are no longer pending; the others are as before.
LEMMA HeapShrinks ==
    ASSUME TqTypes, HeapInv, heap' \subseteq heap,
           \A w \in Waits : (\E p \in heap \ heap' : p[1] = w) => st'[w] # "pending",
           \A w \in Waits : ~(\E p \in heap \ heap' : p[1] = w) => st'[w] = st[w]
    PROVE  HeapInv'
<1>1. IsFiniteSet(heap')
  BY FS_Subset DEF HeapInv
<1>2. \A p, q \in heap' : p[1] = q[1] => p = q
  BY DEF HeapInv
<1>3. ASSUME NEW w \in Waits
      PROVE  st'[w] = "pending" <=> \E p \in heap' : p[1] = w
  <2>1. CASE \E p \in heap \ heap' : p[1] = w
    BY <2>1 DEF HeapInv
  <2>2. CASE ~(\E p \in heap \ heap' : p[1] = w)
    BY <2>2 DEF HeapInv
  <2> QED
    BY <2>1, <2>2
<1> QED
  BY <1>1, <1>2, <1>3 DEF HeapInv

\* A thread goes on to its next step, the others stay where they are.
LEMMA Becomes ==
    ASSUME TqAssumption, TqTypes, now' = now, NEW t \in Crew, NEW what \in Pcs,
           Become(t, what)
    PROVE  /\ at' \in [Crew -> [pc : Pcs, clock : 0 .. MaxTime]]
           /\ \A u \in Crew : at'[u].clock <= now'
           /\ at'[t].pc = what
           /\ \A u \in Crew : u # t => at'[u] = at[u]
<1>1. at' = [at EXCEPT ![t] = [pc |-> what, clock |-> 0]]
  BY DEF Become, Step
<1>2. [pc |-> what, clock |-> 0] \in [pc : Pcs, clock : 0 .. MaxTime]
  BY DEF TqAssumption
<1>3. at \in [Crew -> [pc : Pcs, clock : 0 .. MaxTime]]
  BY DEF TqTypes
<1>4. at'[t] = [pc |-> what, clock |-> 0] /\ \A u \in Crew : u # t => at'[u] = at[u]
  BY <1>1, <1>3
<1>5. at' \in [Crew -> [pc : Pcs, clock : 0 .. MaxTime]]
  BY <1>1, <1>2, <1>3
<1>6. \A u \in Crew : at'[u].clock <= now'
  BY <1>4, <1>3 DEF TqTypes
<1> QED
  BY <1>4, <1>5, <1>6

LEMMA KeptFrom ==
    ASSUME NEW T, NEW U, NEW R, U.held = T.held, Kept(U, R)
    PROVE  Kept(T, R)
BY Zenon DEF Kept

\* tq->wait stays, or moves from the timer to the executor.
LEMMA KeptPlaces ==
    ASSUME PlaceInv, NEW R, Kept(tm, R), tm' = R[1],
           InExec' <=> InExec \/ "tqwait" \in R[2],
           \A u \in Crew : Holder(u)' <=> Holder(u),
           tq'.submitted <=> tq.submitted,
           fini' = "done" <=> fini = "done"
    PROVE  PlaceInv'
<1>1. InTimer <=> InTimer' \/ "tqwait" \in R[2]
  BY Zenon DEF Kept, InTimer
<1>2. ~(InTimer' /\ "tqwait" \in R[2])
  BY Zenon DEF Kept, InTimer
<1>3. Held' <=> Held
  BY DEF Held
<1>4. InTimer' \/ InExec' <=> InTimer \/ InExec
  BY <1>1
<1>5. ~(InTimer' /\ InExec')
  BY <1>1, <1>2 DEF PlaceInv
<1>6. \A t, u \in Crew : Holder(t)' /\ Holder(u)' => t = u
  BY DEF PlaceInv
<1> HIDE DEF InTimer, InExec, Held, Holder
<1> QED
  BY <1>3, <1>4, <1>5, <1>6 DEF PlaceInv

\* A step that leaves the queue alone.
LEMMA QueueAlone ==
    ASSUME HeapInv, CoverInv, UNCHANGED <<heap, st, tq, fini>>
    PROVE  HeapInv' /\ CoverInv'
BY DEF HeapInv, CoverInv

\* A thread moves between steps that do not hold tq->wait.
LEMMA HoldersStay ==
    ASSUME NEW t \in Crew, ~Holder(t), ~Holder(t)',
           \A u \in Crew : u # t => at'[u] = at[u]
    PROVE  \A u \in Crew : Holder(u)' <=> Holder(u)
BY DEF Holder

LEMMA FreeIsIdle ==
    ASSUME NEW t \in Crew, Free(t)
    PROVE  at[t].pc = "idle" /\ ~Holder(t)
BY DEF Free, Step, Holder

-----------------------------------------------------------------------------
(***************************************************************************)
(* The steps of the timer.                                                 *)
(***************************************************************************)

LEMMA TickStep ==
    ASSUME TqAssumption, TqInv, Tick
    PROVE  TqInv'
<1> USE DEF TqInv
<1> DEFINE R == IF conf.impl = "user" THEN do_settime(tm) ELSE <<tm, {}>>
<1>1. tm \in Timer
  BY DEF TqTypes
<1>2. Kept(tm, R)
  BY <1>1, do_settimeKept, NothingKept
<1>3. tm' = R[1] /\ exec' = exec \cup R[2]
  BY DEF Tick
<1> HIDE DEF R
<1>4. tm' \in Timer /\ exec' \subseteq {"tqwait", "waittask"}
  BY <1>2, <1>3 DEF Kept, TqTypes
<1>5. now' \in 1 .. MaxTime /\ now' = now + 1
  BY DEF Tick, TqTypes, TqAssumption
<1>6. UNCHANGED <<conf, heap, st, tq, at, fini>>
  BY DEF Tick
<1>7. \A t \in Crew : at'[t].clock <= now'
  BY <1>5, <1>6 DEF TqTypes
<1>8. TqTypes'
  BY <1>4, <1>5, <1>6, <1>7 DEF TqTypes
<1>9. PlaceInv'
  <2>1. InExec' <=> InExec \/ "tqwait" \in R[2]
    BY <1>3 DEF InExec
  <2>2. \A u \in Crew : Holder(u)' <=> Holder(u)
    BY <1>6 DEF Holder
  <2>3. tq' = tq /\ fini' = fini
    BY <1>6
  <2> QED
    BY <1>2, <1>3, <2>1, <2>2, <2>3, KeptPlaces
<1> QED
  BY <1>6, <1>8, <1>9, QueueAlone

LEMMA TimerShutdownStep ==
    ASSUME TqAssumption, TqInv, TimerShutdown
    PROVE  TqInv'
<1> USE DEF TqInv
<1> DEFINE U == [tm EXCEPT !.shutdown = TRUE, !.watch = FALSE,
                           !.posted = @ /\ ~("waittask" \in exec)]
           R == Released(U)
<1>1. tm \in Timer
  BY DEF TqTypes
<1>2. U \in Timer /\ U.held = tm.held
  BY <1>1 DEF Timer
<1>3. tm' = R[1] /\ exec' = (exec \ {"waittask"}) \cup R[2]
  BY DEF TimerShutdown
<1>4. UNCHANGED <<conf, now, heap, st, tq, at, fini>>
  BY DEF TimerShutdown
<1> HIDE DEF U
<1>5. Kept(tm, R)
  BY <1>2, ReleasedKept, KeptFrom
<1> HIDE DEF R
<1>6. tm' \in Timer /\ exec' \subseteq {"tqwait", "waittask"}
  BY <1>3, <1>5 DEF Kept, TqTypes
<1>7. TqTypes'
  BY <1>4, <1>6 DEF TqTypes
<1>8. PlaceInv'
  <2>1. InExec' <=> InExec \/ "tqwait" \in R[2]
    BY <1>3 DEF InExec
  <2>2. \A u \in Crew : Holder(u)' <=> Holder(u)
    BY <1>4 DEF Holder
  <2>3. tq' = tq /\ fini' = fini
    BY <1>4
  <2> QED
    BY <1>3, <1>5, <2>1, <2>2, <2>3, KeptPlaces
<1> QED
  BY <1>4, <1>7, <1>8, QueueAlone

LEMMA watch_funcStep ==
    ASSUME TqAssumption, TqInv, NEW t \in Crew, watch_func(t)
    PROVE  TqInv'
<1> USE DEF TqInv
<1>1. tm \in Timer
  BY DEF TqTypes
<1>2. tm' \in Timer /\ tm'.held = tm.held
  BY <1>1 DEF Timer, watch_func
<1>3. UNCHANGED <<conf, now, heap, st, tq, at, fini>>
  BY DEF watch_func
<1>4. exec' \subseteq {"tqwait", "waittask"} /\ (InExec' <=> InExec)
  BY DEF watch_func, TqTypes, InExec
<1>5. Kept(tm, <<tm', {}>>)
  BY <1>2, NothingKept, KeptFrom
<1>6. TqTypes'
  BY <1>2, <1>3, <1>4 DEF TqTypes
<1>7. PlaceInv'
  <2>1. InExec' <=> InExec \/ "tqwait" \in <<tm', {}>>[2]
    BY <1>4
  <2>2. \A u \in Crew : Holder(u)' <=> Holder(u)
    BY <1>3 DEF Holder
  <2>3. tq' = tq /\ fini' = fini /\ tm' = <<tm', {}>>[1]
    BY <1>3
  <2> QED
    BY <1>5, <2>1, <2>2, <2>3, KeptPlaces
<1> QED
  BY <1>3, <1>6, <1>7, QueueAlone

LEMMA wait_task_funcStep ==
    ASSUME TqAssumption, TqInv, NEW t \in Crew, wait_task_func(t)
    PROVE  TqInv'
<1> USE DEF TqInv
<1> DEFINE what == IF Readable THEN "expired" ELSE "empty"
<1>1. tm \in Timer
  BY DEF TqTypes
<1>2. tm' \in Timer /\ tm'.held = tm.held
  BY <1>1 DEF Timer, wait_task_func, TqAssumption
<1>3. UNCHANGED <<conf, now, heap, st, tq, fini>>
  BY DEF wait_task_func
<1>4. exec' \subseteq {"tqwait", "waittask"} /\ (InExec' <=> InExec)
  BY DEF wait_task_func, TqTypes, InExec
<1>5. what \in Pcs /\ what \in {"expired", "empty"} /\ Become(t, what)
  BY DEF wait_task_func, Pcs
<1> HIDE DEF what
<1>6. /\ at' \in [Crew -> [pc : Pcs, clock : 0 .. MaxTime]]
      /\ \A u \in Crew : at'[u].clock <= now'
      /\ at'[t].pc = what
      /\ \A u \in Crew : u # t => at'[u] = at[u]
  BY <1>3, <1>5, Becomes
<1>7. Kept(tm, <<tm', {}>>)
  BY <1>2, NothingKept, KeptFrom
<1>8. TqTypes'
  BY <1>2, <1>3, <1>4, <1>6 DEF TqTypes
<1>9. PlaceInv'
  <2>1. InExec' <=> InExec \/ "tqwait" \in <<tm', {}>>[2]
    BY <1>4
  <2>2. ~Holder(t) /\ ~Holder(t)'
    BY <1>5, <1>6, FreeIsIdle DEF Holder, wait_task_func
  <2>3. \A u \in Crew : Holder(u)' <=> Holder(u)
    BY <1>6, <2>2, HoldersStay
  <2>4. tq' = tq /\ fini' = fini /\ tm' = <<tm', {}>>[1]
    BY <1>3
  <2> QED
    BY <1>7, <2>1, <2>3, <2>4, KeptPlaces
<1> QED
  BY <1>3, <1>8, <1>9, QueueAlone

LEMMA WaitTaskLockStep ==
    ASSUME TqAssumption, TqInv, NEW t \in Crew, WaitTaskLock(t)
    PROVE  TqInv'
<1> USE DEF TqInv
<1> DEFINE U == [tm EXCEPT !.watch = ~tm.shutdown, !.posted = FALSE]
           R == IF at[t].pc = "expired" THEN Released(U) ELSE <<U, {}>>
<1>1. tm \in Timer
  BY DEF TqTypes
<1>2. U \in Timer /\ U.held = tm.held
  BY <1>1 DEF Timer
<1>3. tm' = R[1] /\ exec' = exec \cup R[2]
  BY DEF WaitTaskLock
<1>4. UNCHANGED <<conf, now, heap, st, tq, fini>>
  BY DEF WaitTaskLock
<1>5. "idle" \in Pcs /\ Become(t, "idle")
  BY DEF WaitTaskLock, Pcs
<1> HIDE DEF U
<1>6. Kept(tm, R)
  BY <1>2, ReleasedKept, NothingKept, KeptFrom
<1> HIDE DEF R
<1>7. tm' \in Timer /\ exec' \subseteq {"tqwait", "waittask"}
  BY <1>3, <1>6 DEF Kept, TqTypes
<1>8. /\ at' \in [Crew -> [pc : Pcs, clock : 0 .. MaxTime]]
      /\ \A u \in Crew : at'[u].clock <= now'
      /\ at'[t].pc = "idle"
      /\ \A u \in Crew : u # t => at'[u] = at[u]
  BY <1>4, <1>5, Becomes
<1>9. TqTypes'
  BY <1>4, <1>7, <1>8 DEF TqTypes
<1>10. PlaceInv'
  <2>1. InExec' <=> InExec \/ "tqwait" \in R[2]
    BY <1>3 DEF InExec
  <2>2. ~Holder(t) /\ ~Holder(t)'
    BY <1>8 DEF Holder, WaitTaskLock
  <2>3. \A u \in Crew : Holder(u)' <=> Holder(u)
    BY <1>8, <2>2, HoldersStay
  <2>4. tq' = tq /\ fini' = fini
    BY <1>4
  <2> QED
    BY <1>3, <1>6, <2>1, <2>3, <2>4, KeptPlaces
<1> QED
  BY <1>4, <1>9, <1>10, QueueAlone

\* tq->wait is with thread t alone.
LEMMA HolderAlone ==
    ASSUME PlaceInv, NEW t \in Crew, Holder(t)
    PROVE  /\ ~InTimer /\ ~InExec /\ tq.submitted /\ fini # "done"
           /\ \A u \in Crew : u # t => ~Holder(u)
BY Zenon DEF PlaceInv, Held

LEMMA TimerSubmitStep ==
    ASSUME TqAssumption, TqInv, NEW t \in Crew, TimerSubmit(t)
    PROVE  TqInv'
<1> USE DEF TqInv
<1> DEFINE R == SubmitWait(tm)
<1>1. Holder(t)
  BY DEF TimerSubmit, Holder
<1>2. tm \in Timer /\ ~tm.held
  BY <1>1, HolderAlone DEF TqTypes, InTimer
<1>3. /\ R[1] \in Timer /\ R[2] \subseteq {"tqwait"}
      /\ R[1].held <=> "tqwait" \notin R[2]
  BY <1>2, SubmitPuts
<1>4. tm' = R[1] /\ exec' = exec \cup R[2]
  BY DEF TimerSubmit
<1>5. UNCHANGED <<conf, now, heap, st, tq, fini>>
  BY DEF TimerSubmit
<1>6. "idle" \in Pcs /\ Become(t, "idle")
  BY DEF TimerSubmit, Pcs
<1> HIDE DEF R
<1>7. tm' \in Timer /\ exec' \subseteq {"tqwait", "waittask"}
  BY <1>3, <1>4 DEF TqTypes
<1>8. /\ at' \in [Crew -> [pc : Pcs, clock : 0 .. MaxTime]]
      /\ \A u \in Crew : at'[u].clock <= now'
      /\ at'[t].pc = "idle"
      /\ \A u \in Crew : u # t => at'[u] = at[u]
  BY <1>5, <1>6, Becomes
<1>9. TqTypes'
  BY <1>5, <1>7, <1>8 DEF TqTypes
<1>10. PlaceInv'
  <2>1. InExec' <=> "tqwait" \in R[2]
    BY <1>1, <1>4, HolderAlone DEF InExec
  <2>2. InTimer' <=> "tqwait" \notin R[2]
    BY <1>3, <1>4, Zenon DEF InTimer
  <2>3. ~Held' /\ \A u \in Crew : ~Holder(u)'
    BY <1>1, <1>8, HolderAlone DEF Holder, Held
  <2>4. tq'.submitted /\ fini' # "done"
    BY <1>1, <1>5, HolderAlone, Zenon
  <2> QED
    BY <2>1, <2>2, <2>3, <2>4, Zenon DEF PlaceInv
<1> QED
  BY <1>5, <1>9, <1>10, QueueAlone

LEMMA wait_funcStep ==
    ASSUME TqAssumption, TqInv, NEW t \in Crew, wait_func(t)
    PROVE  TqInv'
<1> USE DEF TqInv
<1>1. UNCHANGED <<conf, now, heap, st, tq, tm, fini>>
  BY DEF wait_func
<1>2. exec' = exec \ {"tqwait"} /\ InExec /\ ~InExec'
  BY DEF wait_func, InExec
<1>3. PICK r \in {[pc |-> "got", clock |-> now], [pc |-> "noclock", clock |-> 0]} :
        at' = [at EXCEPT ![t] = r]
  BY DEF wait_func, Become, Step, Got
<1>4. /\ at \in [Crew -> [pc : Pcs, clock : 0 .. MaxTime]]
      /\ now \in 1 .. MaxTime /\ MaxTime \in Nat
      /\ \A u \in Crew : at[u].clock <= now
  BY DEF TqTypes, TqAssumption
<1>5. r \in [pc : Pcs, clock : 0 .. MaxTime] /\ r.clock <= now /\ r.pc \in {"got", "noclock"}
  BY <1>3, <1>4 DEF Pcs
<1>6. /\ at' \in [Crew -> [pc : Pcs, clock : 0 .. MaxTime]]
      /\ at'[t] = r
      /\ \A u \in Crew : u # t => at'[u] = at[u]
  BY <1>3, <1>4, <1>5
<1>7. \A u \in Crew : at'[u].clock <= now'
  BY <1>1, <1>4, <1>5, <1>6
<1>8. TqTypes'
  BY <1>1, <1>2, <1>6, <1>7 DEF TqTypes
<1>9. PlaceInv'
  <2>1. ~InTimer /\ ~Held /\ tq.submitted /\ fini # "done"
    BY <1>2, Zenon DEF PlaceInv
  <2>2. \A u \in Crew : Holder(u)' <=> u = t
    BY <1>5, <1>6, <2>1 DEF Holder, Held
  <2>3. Held'
    BY <2>2 DEF Held
  <2>4. ~InTimer' /\ tq'.submitted /\ fini' # "done"
    BY <1>1, <2>1, Zenon DEF InTimer
  <2> QED
    BY <1>2, <2>2, <2>3, <2>4, Zenon DEF PlaceInv
<1> QED
  BY <1>1, <1>8, <1>9, QueueAlone

-----------------------------------------------------------------------------
(***************************************************************************)
(* The steps of the queue that take waits out.                             *)
(***************************************************************************)

LEMMA PopStep ==
    ASSUME TqAssumption, TqInv, NEW t \in Crew, NEW ws,
           NEW how \in {"canceled", "aborted"}, Pop(t, ws, how)
    PROVE  TqInv' /\ NotEarlyStep
<1> USE DEF TqInv
<1> DEFINE R == CancelEmpty(heap', tm)
<1>1. tm \in Timer
  BY DEF TqTypes
<1>2. Kept(tm, R)
  BY <1>1, CancelKept
<1>3. tm' = R[1] /\ exec' = exec \cup R[2]
  BY DEF Pop
<1>4. UNCHANGED <<conf, now, tq, at, fini>>
  BY DEF Pop
<1> HIDE DEF R
<1>5. tm' \in Timer /\ exec' \subseteq {"tqwait", "waittask"}
  BY <1>2, <1>3 DEF Kept, TqTypes
<1>6. heap' = {p \in heap : p[1] \notin ws}
  BY DEF Pop
<1>7. st' = [w \in Waits |-> IF w \in ws THEN how ELSE st[w]]
  BY DEF Pop, Finish
<1>8. st' \in [Waits -> {"idle", "pending", "done", "canceled", "aborted"}]
  BY <1>7 DEF TqTypes
<1>9. \A w \in ws : \E p \in heap : p[1] = w
  BY DEF Pop, Ops
<1>10. \A w \in Waits : (\E p \in heap \ heap' : p[1] = w) <=> w \in ws
  BY <1>6, <1>9
<1>11. HeapInv'
  BY <1>6, <1>7, <1>10, HeapShrinks
<1>12. TqTypes'
  <2>1. heap' \subseteq Waits \X (1 .. MaxTime)
    BY <1>6 DEF TqTypes
  <2> QED
    BY <1>4, <1>5, <1>8, <2>1 DEF TqTypes
<1>13. CoverInv'
  BY <1>4, <1>6 DEF CoverInv
<1>14. PlaceInv'
  <2>1. InExec' <=> InExec \/ "tqwait" \in R[2]
    BY <1>3 DEF InExec
  <2>2. \A u \in Crew : Holder(u)' <=> Holder(u)
    BY <1>4 DEF Holder
  <2>3. tq' = tq /\ fini' = fini
    BY <1>4
  <2> QED
    BY <1>2, <1>3, <2>1, <2>2, <2>3, KeptPlaces
<1>15. NotEarlyStep
  BY <1>7 DEF NotEarlyStep
<1> QED
  BY <1>11, <1>12, <1>13, <1>14, <1>15

\* All waits are cancelled.
LEMMA AllCanceled ==
    ASSUME TqTypes, HeapInv, heap' = {}, Finish(Ops(heap), "canceled")
    PROVE  /\ st' \in [Waits -> {"idle", "pending", "done", "canceled", "aborted"}]
           /\ HeapInv' /\ NotEarlyStep
<1>1. st' = [w \in Waits |-> IF \E p \in heap : p[1] = w THEN "canceled" ELSE st[w]]
  <2>1. \A w \in Waits : w \in Ops(heap) <=> \E p \in heap : p[1] = w
    BY DEF Ops
  <2> QED
    BY <2>1 DEF Finish
<1>2. st' \in [Waits -> {"idle", "pending", "done", "canceled", "aborted"}]
  BY <1>1 DEF TqTypes
<1>3. HeapInv'
  BY <1>1, HeapShrinks
<1> QED
  BY <1>1, <1>2, <1>3 DEF NotEarlyStep

LEMMA WaitFuncErrorStep ==
    ASSUME TqAssumption, TqInv, NEW t \in Crew, WaitFuncError(t)
    PROVE  TqInv' /\ NotEarlyStep
<1> USE DEF TqInv
<1>1. Holder(t)
  BY DEF WaitFuncError, Holder
<1>2. UNCHANGED <<conf, now, tm, exec, fini>> /\ heap' = {}
  BY DEF WaitFuncError
<1>3. /\ st' \in [Waits -> {"idle", "pending", "done", "canceled", "aborted"}]
      /\ HeapInv' /\ NotEarlyStep
  BY <1>2, AllCanceled DEF WaitFuncError
<1>4. "idle" \in Pcs /\ Become(t, "idle")
  BY DEF WaitFuncError, Pcs
<1>5. /\ at' \in [Crew -> [pc : Pcs, clock : 0 .. MaxTime]]
      /\ \A u \in Crew : at'[u].clock <= now'
      /\ at'[t].pc = "idle"
      /\ \A u \in Crew : u # t => at'[u] = at[u]
  BY <1>2, <1>4, Becomes
<1>6. /\ tq' \in [shutdown : BOOLEAN, submitted : BOOLEAN, next : 0 .. MaxTime]
      /\ tq'.shutdown = tq.shutdown /\ tq'.submitted = FALSE
  <2>1. /\ tq' = [tq EXCEPT !.submitted = FALSE, !.next = 0]
        /\ tq \in [shutdown : BOOLEAN, submitted : BOOLEAN, next : 0 .. MaxTime]
        /\ 0 \in 0 .. MaxTime
    BY DEF WaitFuncError, TqTypes, TqAssumption
  <2> QED
    BY <2>1
<1>7. TqTypes'
  BY <1>2, <1>3, <1>5, <1>6 DEF TqTypes
<1>8. CoverInv'
  BY <1>2, <1>6 DEF CoverInv
<1>9. PlaceInv'
  <2>1. ~InTimer' /\ ~InExec'
    BY <1>1, <1>2, HolderAlone DEF InTimer, InExec
  <2>2. ~Held' /\ \A u \in Crew : ~Holder(u)'
    BY <1>1, <1>5, HolderAlone DEF Holder, Held
  <2> QED
    BY <1>6, <2>1, <2>2, Zenon DEF PlaceInv
<1> QED
  BY <1>3, <1>7, <1>8, <1>9

LEMMA ShutdownCancelStep ==
    ASSUME TqAssumption, TqInv, ShutdownCancel
    PROVE  TqInv' /\ NotEarlyStep
<1> USE DEF TqInv
<1> DEFINE R == CancelEmpty({}, tm)
<1>1. tm \in Timer
  BY DEF TqTypes
<1>2. Kept(tm, R)
  BY <1>1, CancelKept
<1>3. tm' = R[1] /\ exec' = exec \cup R[2]
  BY DEF ShutdownCancel
<1>4. UNCHANGED <<conf, now, tq, at>> /\ fini = "cancel" /\ fini' = "down" /\ heap' = {}
  BY DEF ShutdownCancel
<1>5. /\ st' \in [Waits -> {"idle", "pending", "done", "canceled", "aborted"}]
      /\ HeapInv' /\ NotEarlyStep
  BY <1>4, AllCanceled DEF ShutdownCancel
<1> HIDE DEF R
<1>6. tm' \in Timer /\ exec' \subseteq {"tqwait", "waittask"}
  BY <1>2, <1>3 DEF Kept, TqTypes
<1>7. TqTypes'
  BY <1>4, <1>5, <1>6 DEF TqTypes
<1>8. CoverInv'
  BY <1>4 DEF CoverInv
<1>9. PlaceInv'
  <2>1. InExec' <=> InExec \/ "tqwait" \in R[2]
    BY <1>3 DEF InExec
  <2>2. \A u \in Crew : Holder(u)' <=> Holder(u)
    BY <1>4 DEF Holder
  <2>3. tq' = tq /\ (fini' = "done" <=> fini = "done")
    BY <1>4
  <2> QED
    BY <1>2, <1>3, <2>1, <2>2, <2>3, KeptPlaces
<1> QED
  BY <1>5, <1>7, <1>8, <1>9

LEMMA ShutdownStep ==
    ASSUME TqAssumption, TqInv, Shutdown
    PROVE  TqInv'
<1> USE DEF TqInv
<1>1. UNCHANGED <<conf, now, heap, st, exec, at>> /\ fini = "no" /\ fini' = "cancel"
  BY DEF Shutdown
<1>2. /\ tq' \in [shutdown : BOOLEAN, submitted : BOOLEAN, next : 0 .. MaxTime]
      /\ tq'.shutdown = TRUE
      /\ tq'.submitted = (tq.submitted /\ ~(tq.submitted /\ tm.held))
  BY DEF Shutdown, TqTypes
<1>3. tm' \in Timer /\ tm'.held = (tm.held /\ ~(tq.submitted /\ tm.held))
  BY DEF Shutdown, TqTypes, Timer
<1>4. TqTypes'
  BY <1>1, <1>2, <1>3 DEF TqTypes
<1>5. HeapInv'
  BY <1>1 DEF HeapInv
<1>6. CoverInv'
  BY <1>1, <1>2 DEF CoverInv
<1>7. PlaceInv'
  <2>1. (Held' <=> Held) /\ (InExec' <=> InExec) /\ \A u \in Crew : Holder(u)' <=> Holder(u)
    BY <1>1 DEF Holder, Held, InExec
  <2>2. CASE tm.held
    <3>1. tq.submitted /\ ~InExec /\ ~Held
      BY <1>1, <2>2, Zenon DEF PlaceInv, InTimer
    <3>2. ~InTimer' /\ ~tq'.submitted
      BY <1>2, <1>3, <2>2, <3>1, Zenon DEF InTimer
    <3>3. \A t, u \in Crew : Holder(t)' /\ Holder(u)' => t = u
      BY <2>1 DEF PlaceInv
    <3> QED
      BY <2>1, <3>1, <3>2, <3>3, <1>1, Zenon DEF PlaceInv
  <2>3. CASE ~tm.held
    <3>1. ~InTimer' /\ (tq'.submitted <=> tq.submitted)
      BY <1>2, <1>3, <2>3, Zenon DEF InTimer
    <3>2. tq.submitted <=> InExec \/ Held
      BY <1>1, <2>3, Zenon DEF PlaceInv, InTimer
    <3>3. (InExec => ~Held) /\ \A t, u \in Crew : Holder(t)' /\ Holder(u)' => t = u
      BY <2>1 DEF PlaceInv
    <3>4. fini' # "done"
      BY <1>1
    <3> QED
      BY <2>1, <3>1, <3>2, <3>3, <3>4, Zenon DEF PlaceInv
  <2> QED
    BY <2>2, <2>3
<1> QED
  BY <1>4, <1>5, <1>6, <1>7

LEMMA FiniBeginStep ==
    ASSUME TqInv, FiniBegin
    PROVE  TqInv'
<1> USE DEF TqInv
<1>1. UNCHANGED <<conf, now, heap, st, tq, tm, exec, at>> /\ fini = "down" /\ fini' = "wait"
  BY DEF FiniBegin
<1>2. TqTypes' /\ HeapInv' /\ CoverInv'
  BY <1>1 DEF TqTypes, HeapInv, CoverInv
<1>3. PlaceInv'
  BY <1>1 DEF PlaceInv, InTimer, InExec, Held, Holder
<1> QED
  BY <1>2, <1>3

LEMMA FiniWaitStep ==
    ASSUME TqInv, FiniWait
    PROVE  TqInv'
<1> USE DEF TqInv
<1>1. /\ UNCHANGED <<conf, now, heap, st, tq, tm, at>> /\ fini = "wait" /\ fini' = "done"
      /\ tq.submitted => InExec
      /\ exec' = IF tq.submitted THEN exec \ {"tqwait"} ELSE exec
  BY DEF FiniWait, InExec
<1>2. TqTypes' /\ HeapInv' /\ CoverInv'
  BY <1>1 DEF TqTypes, HeapInv, CoverInv
<1>3. ~InTimer /\ ~Held
  BY <1>1, Zenon DEF PlaceInv
<1>4. ~InExec'
  <2>1. CASE tq.submitted
    BY <1>1, <2>1 DEF InExec
  <2>2. CASE ~tq.submitted
    <3>1. ~InExec
      BY <1>1, <2>2, Zenon DEF PlaceInv
    <3> QED
      BY <1>1, <2>2, <3>1 DEF InExec
  <2> QED
    BY <2>1, <2>2
<1>5. ~InTimer' /\ ~Held' /\ \A u \in Crew : ~Holder(u)'
  BY <1>1, <1>3 DEF InTimer, Held, Holder
<1> QED
  BY <1>1, <1>2, <1>4, <1>5, Zenon DEF PlaceInv

-----------------------------------------------------------------------------
(***************************************************************************)
(* io_tqueue_wait_func(): what is due is completed.                        *)
(***************************************************************************)

LEMMA WaitFuncLockStep ==
    ASSUME TqAssumption, TqInv, NEW t \in Crew, NEW ok \in BOOLEAN, WaitFuncLock(t, ok)
    PROVE  TqInv' /\ NotEarlyStep
<1> USE DEF TqInv
<1>1. PICK n \in 1 .. MaxTime :
        /\ at[t] = Got(n)
        /\ LET later == {p \in heap : n < p[2]}
               T     == IF later = {} \/ ~ok THEN <<tm, {}>>
                        ELSE Settime(tm, Earliest(later))
           IN  /\ ok \/ later # {}
               /\ heap' = IF ok THEN later ELSE {}
               /\ Finish(Ops(heap \ heap'), IF ok THEN "done" ELSE "canceled")
               /\ tm' = T[1] /\ exec' = exec \cup T[2]
               /\ tq' = [tq EXCEPT !.next = IF heap' = {} THEN 0 ELSE Earliest(later),
                                   !.submitted = heap' # {} /\ ~tq.shutdown]
               /\ Become(t, IF tq'.submitted THEN "resubmit" ELSE "idle")
  BY Zenon DEF WaitFuncLock
<1> DEFINE later == {p \in heap : n < p[2]}
           R == IF later = {} \/ ~ok THEN <<tm, {}>> ELSE Settime(tm, Earliest(later))
           what == IF tq'.submitted THEN "resubmit" ELSE "idle"
<1>2. UNCHANGED <<conf, now, fini>>
  BY DEF WaitFuncLock
<1>3. /\ at[t] = Got(n) /\ heap' = (IF ok THEN later ELSE {})
      /\ Finish(Ops(heap \ heap'), IF ok THEN "done" ELSE "canceled")
      /\ tm' = R[1] /\ exec' = exec \cup R[2]
      /\ tq' = [tq EXCEPT !.next = IF heap' = {} THEN 0 ELSE Earliest(later),
                          !.submitted = heap' # {} /\ ~tq.shutdown]
      /\ Become(t, what)
  BY <1>1, Zenon
<1>4. Holder(t) /\ n <= now
  BY <1>3 DEF Holder, Got, TqTypes
<1>5. /\ tm \in Timer /\ heap \subseteq Waits \X (1 .. MaxTime) /\ MaxTime \in Nat
      /\ tq \in [shutdown : BOOLEAN, submitted : BOOLEAN, next : 0 .. MaxTime]
  BY DEF TqTypes, TqAssumption
<1>6. later \subseteq heap /\ later \subseteq Waits \X (1 .. MaxTime)
  BY <1>5
<1>7. \A p \in heap \ later : p[2] <= now
  <2>1. \A p \in heap : p[2] \in 1 .. MaxTime
    BY <1>5
  <2>2. now \in 1 .. MaxTime
    BY DEF TqTypes
  <2> QED
    BY <1>4, <2>1, <2>2
<1>8. what \in Pcs /\ what = IF tq'.submitted THEN "resubmit" ELSE "idle"
  BY DEF Pcs
<1> HIDE DEF later, what
<1>9. later # {} => Earliest(later) \in 1 .. MaxTime /\ \A p \in later : Earliest(later) <= p[2]
  BY <1>5, <1>6, EarliestIs
<1>10. Kept(tm, R)
  <2>1. Kept(tm, <<tm, {}>>)
    BY <1>5, NothingKept
  <2>2. ASSUME later # {}
        PROVE  Kept(tm, Settime(tm, Earliest(later)))
    <3>1. Earliest(later) \in 0 .. MaxTime
      BY <1>5, <1>9, <2>2
    <3> QED
      BY <1>5, <3>1, SettimeKept
  <2> QED
    BY <2>1, <2>2
<1> HIDE DEF R
<1>11. heap' \subseteq heap /\ (heap' # {} => ok /\ heap' = later)
  BY <1>3, <1>6
<1>12. st' = [w \in Waits |-> IF \E p \in heap \ heap' : p[1] = w
                              THEN IF ok THEN "done" ELSE "canceled" ELSE st[w]]
  <2>1. \A w \in Waits : w \in Ops(heap \ heap') <=> \E p \in heap \ heap' : p[1] = w
    BY DEF Ops
  <2> QED
    BY <1>3, <2>1 DEF Finish
<1>13. st' \in [Waits -> {"idle", "pending", "done", "canceled", "aborted"}]
  BY <1>12 DEF TqTypes
<1>14. HeapInv'
  BY <1>11, <1>12, HeapShrinks
<1>15. NotEarlyStep
  <2>1. ASSUME NEW w \in Waits, st[w] = "pending", st'[w] = "done", NEW p \in heap, p[1] = w
        PROVE  p[2] <= now
    <3>1. ok
      BY <1>12, <2>1
    <3>2. PICK q \in heap \ heap' : q[1] = w
      BY <1>12, <2>1
    <3>3. q = p
      BY <2>1, <3>2 DEF HeapInv
    <3> QED
      BY <1>3, <1>7, <3>1, <3>2, <3>3
  <2> QED
    BY <2>1 DEF NotEarlyStep
<1>16. /\ tq' \in [shutdown : BOOLEAN, submitted : BOOLEAN, next : 0 .. MaxTime]
       /\ tq'.shutdown = tq.shutdown
       /\ tq'.submitted = (heap' # {} /\ ~tq.shutdown)
       /\ heap' # {} => tq'.next = Earliest(later)
  <2> DEFINE nx == IF heap' = {} THEN 0 ELSE Earliest(later)
             sb == (heap' # {} /\ ~tq.shutdown)
  <2>1. nx \in 0 .. MaxTime /\ (heap' # {} => nx = Earliest(later)) /\ sb \in BOOLEAN
    BY <1>5, <1>9, <1>11
  <2>2. tq' = [tq EXCEPT !.next = nx, !.submitted = sb]
    BY <1>3
  <2>3. sb = (heap' # {} /\ ~tq.shutdown)
    OBVIOUS
  <2> HIDE DEF nx, sb
  <2>4. /\ tq' \in [shutdown : BOOLEAN, submitted : BOOLEAN, next : 0 .. MaxTime]
        /\ tq'.shutdown = tq.shutdown /\ tq'.submitted = sb /\ tq'.next = nx
    BY <1>5, <2>1, <2>2
  <2> QED
    BY <2>1, <2>3, <2>4, Zenon
<1>17. /\ at' \in [Crew -> [pc : Pcs, clock : 0 .. MaxTime]]
       /\ \A u \in Crew : at'[u].clock <= now'
       /\ at'[t].pc = what
       /\ \A u \in Crew : u # t => at'[u] = at[u]
  BY <1>2, <1>3, <1>8, Becomes
<1>18. TqTypes'
  <2>1. heap' \subseteq Waits \X (1 .. MaxTime)
    BY <1>5, <1>11
  <2>2. tm' \in Timer /\ exec' \subseteq {"tqwait", "waittask"}
    BY <1>3, <1>10 DEF Kept, TqTypes
  <2> QED
    BY <1>2, <1>13, <1>16, <1>17, <2>1, <2>2 DEF TqTypes
<1>19. CoverInv'
  <2>1. ASSUME heap' # {}, ~tq'.shutdown
        PROVE  tq'.submitted /\ tq'.next # 0 /\ \A p \in heap' : tq'.next <= p[2]
    <3>1. tq'.submitted
      BY <1>16, <2>1, Zenon
    <3>2. heap' = later /\ later # {} /\ tq'.next = Earliest(later)
      BY <1>11, <1>16, <2>1, Zenon
    <3>3. tq'.next # 0 /\ \A p \in heap' : tq'.next <= p[2]
      BY <1>9, <3>2
    <3> QED
      BY <3>1, <3>3
  <2>2. fini' # "no" => tq'.shutdown
    BY <1>2, <1>16, Zenon DEF CoverInv
  <2>3. fini' \in {"down", "wait", "done"} => heap' = {}
    BY <1>2, <1>11 DEF CoverInv
  <2> QED
    BY <2>1, <2>2, <2>3, Zenon DEF CoverInv
<1>20. PlaceInv'
  <2>1. ~InTimer /\ ~InExec /\ fini' # "done" /\ \A u \in Crew : u # t => ~Holder(u)
    BY <1>2, <1>4, HolderAlone
  <2>2. ~InTimer' /\ ~InExec'
    <3>1. ~R[1].held /\ "tqwait" \notin R[2]
      BY <1>10, <2>1, Zenon DEF Kept, InTimer
    <3> QED
      BY <1>3, <2>1, <3>1 DEF InTimer, InExec
  <2>3. \A u \in Crew : u # t => ~Holder(u)'
    BY <1>17, <2>1 DEF Holder
  <2>4. CASE tq'.submitted
    <3>1. Holder(t)'
      BY <1>8, <1>17, <2>4 DEF Holder
    <3>2. Held'
      BY <3>1 DEF Held
    <3> QED
      BY <2>1, <2>2, <2>3, <2>4, <3>2, Zenon DEF PlaceInv
  <2>5. CASE ~tq'.submitted
    <3>1. ~Holder(t)'
      BY <1>8, <1>17, <2>5 DEF Holder
    <3>2. ~Held'
      BY <2>3, <3>1 DEF Held
    <3> QED
      BY <2>1, <2>2, <2>3, <2>5, <3>2, Zenon DEF PlaceInv
  <2> QED
    BY <2>4, <2>5
<1> QED
  BY <1>14, <1>15, <1>18, <1>19, <1>20

-----------------------------------------------------------------------------
(***************************************************************************)
(* io_tqueue_submit_wait().                                                *)
(***************************************************************************)

\* The queue is shut down: the wait is cancelled at once.
LEMMA SubmitCanceled ==
    ASSUME TqAssumption, TqInv, NEW t \in Crew, NEW w \in Waits, NEW v \in 1 .. MaxTime,
           NEW ok \in BOOLEAN, io_tqueue_submit_wait(t, w, v, ok), tq.shutdown
    PROVE  TqInv' /\ NotEarlyStep
<1> USE DEF TqInv
<1>1. UNCHANGED <<conf, now, heap, tq, tm, exec, at, fini>> /\ st[w] # "pending"
  BY DEF io_tqueue_submit_wait
<1>2. st' = [x \in Waits |-> IF x \in {w} THEN "canceled" ELSE st[x]]
  BY DEF io_tqueue_submit_wait, Finish
<1>3. st' \in [Waits -> {"idle", "pending", "done", "canceled", "aborted"}]
  BY <1>2 DEF TqTypes
<1>4. \A x \in Waits : st'[x] = "pending" <=> st[x] = "pending"
  BY <1>1, <1>2
<1>5. TqTypes'
  BY <1>1, <1>3 DEF TqTypes
<1>6. HeapInv'
  BY <1>1, <1>4 DEF HeapInv
<1>7. CoverInv' /\ PlaceInv'
  BY <1>1 DEF CoverInv, PlaceInv, InTimer, InExec, Held, Holder
<1>8. NotEarlyStep
  BY <1>2 DEF NotEarlyStep
<1> QED
  BY <1>5, <1>6, <1>7, <1>8

\* The wait is added to the heap, and the timer is set for it if it is the
\* earliest.
LEMMA SubmitAdded ==
    ASSUME TqAssumption, TqInv, NEW t \in Crew, NEW w \in Waits, NEW v \in 1 .. MaxTime,
           io_tqueue_submit_wait(t, w, v, TRUE), ~tq.shutdown
    PROVE  TqInv' /\ NotEarlyStep
<1> USE DEF TqInv
<1> DEFINE sets == tq.next = 0 \/ v < tq.next
           R == IF sets THEN Settime(tm, v) ELSE <<tm, {}>>
           nx == IF sets THEN v ELSE tq.next
           what == IF ~tq.submitted THEN "submit" ELSE "idle"
<1>1. UNCHANGED <<conf, now, fini>> /\ Free(t) /\ Alive /\ st[w] # "pending"
  BY DEF io_tqueue_submit_wait
<1>2. /\ heap' = heap \cup {<<w, v>>}
      /\ st' = [x \in Waits |-> IF x = w THEN "pending" ELSE st[x]]
  BY DEF io_tqueue_submit_wait
<1>3. tm' = R[1] /\ exec' = exec \cup R[2]
  BY DEF io_tqueue_submit_wait
<1>4. tq' = [tq EXCEPT !.next = nx, !.submitted = TRUE] /\ Become(t, what)
  BY DEF io_tqueue_submit_wait
<1>5. /\ tm \in Timer /\ heap \subseteq Waits \X (1 .. MaxTime) /\ MaxTime \in Nat
      /\ tq \in [shutdown : BOOLEAN, submitted : BOOLEAN, next : 0 .. MaxTime]
      /\ tq.next \in 0 .. MaxTime
  BY DEF TqTypes, TqAssumption
<1>6. Kept(tm, R)
  <2>1. v \in 0 .. MaxTime
    BY <1>5
  <2> QED
    BY <1>5, <2>1, SettimeKept, NothingKept
<1> HIDE DEF R
<1>7. what \in Pcs /\ (tq.submitted => what = "idle") /\ (~tq.submitted => what = "submit")
  BY DEF Pcs
<1> HIDE DEF what
<1>8. /\ at' \in [Crew -> [pc : Pcs, clock : 0 .. MaxTime]]
      /\ \A u \in Crew : at'[u].clock <= now'
      /\ at'[t].pc = what
      /\ \A u \in Crew : u # t => at'[u] = at[u]
  BY <1>1, <1>4, <1>7, Becomes
<1>9. nx \in 0 .. MaxTime
  BY <1>5
<1>10. /\ tq' \in [shutdown : BOOLEAN, submitted : BOOLEAN, next : 0 .. MaxTime]
       /\ tq'.shutdown = tq.shutdown /\ tq'.submitted = TRUE /\ tq'.next = nx
  <2> HIDE DEF nx
  <2> QED
    BY <1>4, <1>5, <1>9
<1>11. TqTypes'
  <2>1. heap' \subseteq Waits \X (1 .. MaxTime)
    BY <1>2, <1>5
  <2>2. st' \in [Waits -> {"idle", "pending", "done", "canceled", "aborted"}]
    BY <1>2 DEF TqTypes
  <2>3. tm' \in Timer /\ exec' \subseteq {"tqwait", "waittask"}
    BY <1>3, <1>6 DEF Kept, TqTypes
  <2> HIDE DEF nx
  <2> QED
    BY <1>1, <1>8, <1>10, <2>1, <2>2, <2>3 DEF TqTypes
<1>12. HeapInv'
  <2>1. \A p \in heap : p[1] # w
    BY <1>1 DEF HeapInv
  <2>2. IsFiniteSet(heap')
    BY <1>2, FS_AddElement DEF HeapInv
  <2>3. \A p, q \in heap' : p[1] = q[1] => p = q
    BY <1>2, <2>1 DEF HeapInv
  <2>4. ASSUME NEW x \in Waits
        PROVE  st'[x] = "pending" <=> \E p \in heap' : p[1] = x
    <3>1. CASE x = w
      <4>1. <<w, v>> \in heap' /\ <<w, v>>[1] = x /\ st'[x] = "pending"
        BY <1>2, <3>1
      <4> QED
        BY <4>1
    <3>2. CASE x # w
      <4>1. st'[x] = st[x] /\ (\E p \in heap' : p[1] = x) = (\E p \in heap : p[1] = x)
        BY <1>2, <3>2
      <4> QED
        BY <4>1 DEF HeapInv
    <3> QED
      BY <3>1, <3>2
  <2> QED
    BY <2>2, <2>3, <2>4 DEF HeapInv
<1>13. CoverInv'
  <2>1. \A p \in heap' : nx <= p[2]
    <3>1. \A p \in heap : tq.next # 0 /\ tq.next <= p[2] /\ p[2] \in 1 .. MaxTime
      BY <1>5 DEF CoverInv
    <3>2. \A p \in heap : nx <= p[2]
      BY <1>5, <3>1
    <3>3. nx <= v
      BY <1>5
    <3> QED
      BY <1>2, <3>2, <3>3
  <2>2. nx # 0
    OBVIOUS
  <2>3. fini' = "no" /\ ~tq'.shutdown
    BY <1>1, <1>10 DEF CoverInv, TqTypes
  <2> HIDE DEF nx
  <2> QED
    BY <1>10, <2>1, <2>2, <2>3 DEF CoverInv
<1>14. PlaceInv'
  <2>1. ~Holder(t) /\ fini # "done" /\ fini' # "done"
    BY <1>1, FreeIsIdle DEF Alive
  <2>2. InExec' <=> InExec \/ "tqwait" \in R[2]
    BY <1>3 DEF InExec
  <2>3. CASE tq.submitted
    <3>1. ~Holder(t)'
      BY <1>7, <1>8, <2>3 DEF Holder
    <3>2. \A u \in Crew : Holder(u)' <=> Holder(u)
      BY <1>8, <2>1, <3>1, HoldersStay
    <3>3. tq'.submitted <=> tq.submitted
      BY <1>10, <2>3
    <3> QED
      BY <1>3, <1>6, <2>1, <2>2, <3>2, <3>3, KeptPlaces
  <2>4. CASE ~tq.submitted
    <3>1. ~InTimer /\ ~InExec /\ ~Held
      BY <2>1, <2>4, Zenon DEF PlaceInv
    <3>2. ~R[1].held /\ "tqwait" \notin R[2]
      BY <1>6, <3>1, Zenon DEF Kept, InTimer
    <3>3. ~InTimer' /\ ~InExec'
      BY <1>3, <2>2, <3>1, <3>2 DEF InTimer
    <3>4. \A u \in Crew : Holder(u)' <=> u = t
      BY <1>7, <1>8, <2>4, <3>1 DEF Holder, Held
    <3>5. Held'
      BY <3>4 DEF Held
    <3>6. tq'.submitted
      BY <1>10
    <3> QED
      BY <2>1, <3>3, <3>4, <3>5, <3>6, Zenon DEF PlaceInv
  <2> QED
    BY <2>3, <2>4
<1>15. NotEarlyStep
  BY <1>2 DEF NotEarlyStep
<1> QED
  BY <1>11, <1>12, <1>13, <1>14, <1>15

\* The timer cannot be set: every wait is cancelled, this one included.
LEMMA SubmitFailed ==
    ASSUME TqAssumption, TqInv, NEW t \in Crew, NEW w \in Waits, NEW v \in 1 .. MaxTime,
           io_tqueue_submit_wait(t, w, v, FALSE), ~tq.shutdown
    PROVE  TqInv' /\ NotEarlyStep
<1> USE DEF TqInv
<1> DEFINE R == CancelEmpty({}, tm)
<1>1. UNCHANGED <<conf, now, fini>> /\ Free(t) /\ Alive /\ st[w] # "pending"
  BY DEF io_tqueue_submit_wait
<1>2. /\ heap' = {}
      /\ st' = [x \in Waits |-> IF x \in Ops(heap \cup {<<w, v>>}) THEN "canceled" ELSE st[x]]
  BY DEF io_tqueue_submit_wait
<1>3. tm' = R[1] /\ exec' = exec \cup R[2]
  BY DEF io_tqueue_submit_wait
<1>4. tq' = [tq EXCEPT !.next = 0, !.submitted = @ \/ FALSE] /\ Become(t, "idle")
  BY DEF io_tqueue_submit_wait
<1>5. /\ tm \in Timer /\ 0 \in 0 .. MaxTime
      /\ tq \in [shutdown : BOOLEAN, submitted : BOOLEAN, next : 0 .. MaxTime]
  BY DEF TqTypes, TqAssumption
<1>6. Kept(tm, R)
  BY <1>5, CancelKept
<1> HIDE DEF R
<1>7. /\ at' \in [Crew -> [pc : Pcs, clock : 0 .. MaxTime]]
      /\ \A u \in Crew : at'[u].clock <= now'
      /\ at'[t].pc = "idle"
      /\ \A u \in Crew : u # t => at'[u] = at[u]
  <2>1. "idle" \in Pcs
    BY DEF Pcs
  <2> QED
    BY <1>1, <1>4, <2>1, Becomes
<1>8. /\ tq' \in [shutdown : BOOLEAN, submitted : BOOLEAN, next : 0 .. MaxTime]
      /\ tq'.shutdown = tq.shutdown /\ tq'.submitted = tq.submitted
  BY <1>4, <1>5
<1>9. st' \in [Waits -> {"idle", "pending", "done", "canceled", "aborted"}]
  BY <1>2 DEF TqTypes
<1>10. TqTypes'
  <2>1. tm' \in Timer /\ exec' \subseteq {"tqwait", "waittask"}
    BY <1>3, <1>6 DEF Kept, TqTypes
  <2> QED
    BY <1>1, <1>2, <1>7, <1>8, <1>9, <2>1 DEF TqTypes
<1>11. HeapInv'
  <2>1. \A x \in Waits : st'[x] # "pending"
    BY <1>2 DEF HeapInv, Ops
  <2>2. IsFiniteSet(heap')
    BY <1>2, FS_EmptySet
  <2> QED
    BY <1>2, <2>1, <2>2 DEF HeapInv
<1>12. CoverInv'
  BY <1>1, <1>2, <1>8 DEF CoverInv
<1>13. PlaceInv'
  <2>1. ~Holder(t) /\ ~Holder(t)'
    BY <1>1, <1>7, FreeIsIdle DEF Holder
  <2>2. InExec' <=> InExec \/ "tqwait" \in R[2]
    BY <1>3 DEF InExec
  <2>3. \A u \in Crew : Holder(u)' <=> Holder(u)
    BY <1>7, <2>1, HoldersStay
  <2> QED
    BY <1>1, <1>3, <1>6, <1>8, <2>2, <2>3, KeptPlaces
<1>14. NotEarlyStep
  BY <1>2 DEF NotEarlyStep
<1> QED
  BY <1>10, <1>11, <1>12, <1>13, <1>14

-----------------------------------------------------------------------------
(***************************************************************************)
(* The queue.                                                              *)
(***************************************************************************)

LEMMA TqInvInit ==
    ASSUME TqAssumption, TqInit
    PROVE  TqInv
<1>1. MaxTime \in Nat /\ MaxTime # 0
  BY DEF TqAssumption
<1>2. TqTypes
  BY <1>1 DEF TqInit, TqTypes, Timer, Pcs, Step
<1>3. HeapInv
  BY FS_EmptySet DEF TqInit, HeapInv
<1>4. CoverInv
  BY DEF TqInit, CoverInv
<1>5. ~InTimer /\ ~InExec /\ ~Held /\ \A u \in Crew : ~Holder(u)
  BY DEF TqInit, InTimer, InExec, Held, Holder, Step
<1>6. PlaceInv
  BY <1>5 DEF TqInit, PlaceInv
<1> QED
  BY <1>2, <1>3, <1>4, <1>6 DEF TqInv

LEMMA TqInvStutter ==
    ASSUME TqInv, UNCHANGED tqvars
    PROVE  TqInv' /\ NotEarlyStep
<1>1. UNCHANGED <<conf, now, heap, st, tq, tm, exec, at, fini>>
  BY DEF tqvars
<1>2. TqTypes' /\ HeapInv' /\ CoverInv'
  BY <1>1 DEF TqInv, TqTypes, HeapInv, CoverInv
<1>3. PlaceInv'
  BY <1>1 DEF TqInv, PlaceInv, InTimer, InExec, Held, Holder
<1> QED
  BY <1>1, <1>2, <1>3 DEF TqInv, NotEarlyStep

\* A step that leaves the waits alone completes none of them.
LEMMA NoneCompleted ==
    ASSUME UNCHANGED st
    PROVE  NotEarlyStep
BY DEF NotEarlyStep

LEMMA TqInvStep ==
    ASSUME TqAssumption, TqInv, TqNext
    PROVE  TqInv' /\ NotEarlyStep
<1>1. CASE Tick
  BY <1>1, TickStep, NoneCompleted DEF Tick
<1>2. CASE TimerShutdown
  BY <1>2, TimerShutdownStep, NoneCompleted DEF TimerShutdown
<1>3. CASE Shutdown
  BY <1>3, ShutdownStep, NoneCompleted DEF Shutdown
<1>4. CASE ShutdownCancel
  BY <1>4, ShutdownCancelStep
<1>5. CASE FiniBegin
  BY <1>5, FiniBeginStep, NoneCompleted DEF FiniBegin
<1>6. CASE FiniWait
  BY <1>6, FiniWaitStep, NoneCompleted DEF FiniWait
<1>7. ASSUME NEW t \in Crew, NEW w \in Waits, NEW v \in 1 .. MaxTime, NEW ok \in BOOLEAN,
             io_tqueue_submit_wait(t, w, v, ok)
      PROVE  TqInv' /\ NotEarlyStep
  <2>1. CASE tq.shutdown
    BY <1>7, <2>1, SubmitCanceled
  <2>2. CASE ~tq.shutdown /\ ok = TRUE
    BY <1>7, <2>2, SubmitAdded
  <2>3. CASE ~tq.shutdown /\ ok = FALSE
    BY <1>7, <2>3, SubmitFailed
  <2> QED
    BY <2>1, <2>2, <2>3, Zenon
<1>8. ASSUME NEW t \in Crew, NEW ws, NEW how \in {"canceled", "aborted"}, Pop(t, ws, how)
      PROVE  TqInv' /\ NotEarlyStep
  BY <1>8, PopStep
<1>9. ASSUME NEW t \in Crew, TimerSubmit(t)
      PROVE  TqInv' /\ NotEarlyStep
  BY <1>9, TimerSubmitStep, NoneCompleted DEF TimerSubmit
<1>10. ASSUME NEW t \in Crew, watch_func(t)
       PROVE  TqInv' /\ NotEarlyStep
  BY <1>10, watch_funcStep, NoneCompleted DEF watch_func
<1>11. ASSUME NEW t \in Crew, wait_task_func(t)
       PROVE  TqInv' /\ NotEarlyStep
  BY <1>11, wait_task_funcStep, NoneCompleted DEF wait_task_func
<1>12. ASSUME NEW t \in Crew, WaitTaskLock(t)
       PROVE  TqInv' /\ NotEarlyStep
  BY <1>12, WaitTaskLockStep, NoneCompleted DEF WaitTaskLock
<1>13. ASSUME NEW t \in Crew, wait_func(t)
       PROVE  TqInv' /\ NotEarlyStep
  BY <1>13, wait_funcStep, NoneCompleted DEF wait_func
<1>14. ASSUME NEW t \in Crew, WaitFuncError(t)
       PROVE  TqInv' /\ NotEarlyStep
  BY <1>14, WaitFuncErrorStep
<1>15. ASSUME NEW t \in Crew, NEW ok \in BOOLEAN, WaitFuncLock(t, ok)
       PROVE  TqInv' /\ NotEarlyStep
  BY <1>15, WaitFuncLockStep
<1> QED
  BY <1>1, <1>2, <1>3, <1>4, <1>5, <1>6, <1>7, <1>8, <1>9, <1>10, <1>11, <1>12, <1>13,
     <1>14, <1>15, Zenon DEF TqNext

\* What the invariant says of the heap and of the places of tq->wait.
LEMMA TqInvSafe ==
    ASSUME TqAssumption, TqInv
    PROVE  TqTypeOK /\ OneWait /\ NextCovers /\ FiniSafe
<1> USE DEF TqInv
<1>1. Cardinality(Ops(heap)) = Cardinality(heap)
  <2> DEFINE f == [p \in heap |-> p[1]]
  <2>1. f \in Injection(heap, Ops(heap))
    BY DEF HeapInv, Injection, IsInjective, Ops
  <2>2. f \in Surjection(heap, Ops(heap))
    BY DEF Surjection, Ops
  <2>3. ExistsBijection(heap, Ops(heap))
    BY <2>1, <2>2, Zenon DEF ExistsBijection, Bijection
  <2> QED
    BY <2>3, FS_Bijection DEF HeapInv
<1>2. TqTypeOK
  <2>1. \A w \in Waits : st[w] = "pending" <=> w \in Ops(heap)
    BY DEF HeapInv, Ops
  <2> QED
    BY <1>1, <2>1 DEF TqTypeOK, TqTypes, Timer
<1>3. OneWait
  <2>1. Holders = {t \in Crew : Holder(t)}
    BY DEF Holders, Holder
  <2>2. CASE fini = "done"
    BY <2>2 DEF OneWait
  <2>3. CASE fini # "done" /\ Held
    <3>1. PICK t \in Crew : Holder(t)
      BY <2>3 DEF Held
    <3>2. ~InTimer /\ ~InExec /\ tq.submitted /\ \A u \in Crew : u # t => ~Holder(u)
      BY <3>1, HolderAlone
    <3>3. Holders = {t}
      BY <2>1, <3>1, <3>2
    <3>4. Cardinality(Holders) = 1
      BY <3>3, FS_Singleton
    <3> QED
      BY <3>2, <3>4 DEF OneWait, InTimer, InExec
  <2>4. CASE fini # "done" /\ ~Held
    <3>1. Holders = {}
      BY <2>1, <2>4 DEF Held
    <3>2. Cardinality(Holders) = 0
      BY <3>1, FS_EmptySet
    <3>3. (tq.submitted <=> InTimer \/ InExec) /\ ~(InTimer /\ InExec)
      BY <2>4, Zenon DEF PlaceInv
    <3>4. CASE tq.submitted
      BY <3>2, <3>3, <3>4 DEF OneWait, InTimer, InExec
    <3>5. CASE ~tq.submitted
      BY <3>2, <3>3, <3>5 DEF OneWait, InTimer, InExec
    <3> QED
      BY <3>4, <3>5
  <2> QED
    BY <2>2, <2>3, <2>4
<1>4. NextCovers
  <2>1. ASSUME heap # {}, ~tq.shutdown
        PROVE  tq.submitted /\ tq.next # 0 /\ tq.next <= Earliest(heap)
    <3>1. heap \subseteq Waits \X (1 .. MaxTime) /\ MaxTime \in Nat
      BY DEF TqTypes, TqAssumption
    <3>2. PICK p \in heap : Earliest(heap) = p[2]
      BY <2>1, <3>1, EarliestIs
    <3> QED
      BY <2>1, <3>2 DEF CoverInv
  <2> QED
    BY <2>1 DEF NextCovers
<1>5. FiniSafe
  <2>1. ASSUME fini = "done"
        PROVE  ~tm.held /\ "tqwait" \notin exec /\ Holders = {} /\ heap = {}
    <3>1. ~InTimer /\ ~InExec /\ ~Held
      BY <2>1, Zenon DEF PlaceInv
    <3>2. heap = {}
      BY <2>1 DEF CoverInv
    <3> QED
      BY <3>1, <3>2 DEF InTimer, InExec, Held, Holder, Holders
  <2> QED
    BY <2>1 DEF FiniSafe
<1> QED
  BY <1>2, <1>3, <1>4, <1>5

\* tq->wait is in one place at a time, the time the queue remembers covers every
\* pending wait, and nothing is left when io_tqueue_fini() returns, for any number
\* of threads and waits.
THEOREM TqSafe ==
    ASSUME TqAssumption
    PROVE  TqSpec => [](TqTypeOK /\ OneWait /\ NextCovers /\ FiniSafe)
<1>1. TqInit => TqInv
  BY TqInvInit
<1>2. TqInv /\ [TqNext]_tqvars => TqInv'
  BY TqInvStep, TqInvStutter
<1>3. TqInv => TqTypeOK /\ OneWait /\ NextCovers /\ FiniSafe
  BY TqInvSafe
<1> QED
  BY <1>1, <1>2, <1>3, PTL DEF TqSpec

\* No step of io_tqueue_wait_func() or of any other function completes a wait
\* before its time.
THEOREM TqNotEarly ==
    ASSUME TqAssumption
    PROVE  TqSpec => NotEarly
<1>1. TqInit => TqInv
  BY TqInvInit
<1>2. TqInv /\ [TqNext]_tqvars => TqInv' /\ [NotEarlyStep]_tqvars
  BY TqInvStep, TqInvStutter
<1> QED
  BY <1>1, <1>2, PTL DEF TqSpec, NotEarly
=============================================================================
