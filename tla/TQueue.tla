------------------------------- MODULE TQueue -------------------------------
(***************************************************************************)
(* The timer queue (lib/io2/tqueue.c) on top of the timer it drives: the   *)
(* timerfd timer (lib/io2/linux/timer.c) or the user-defined timer         *)
(* (lib/io2/user/timer.c), as `conf.impl' says.  One wait operation,       *)
(* tq->wait, is shared by all the waits of the queue: it is submitted to   *)
(* the timer by whoever finds it free, and comes back as a task that       *)
(* completes what is due and submits it again.                             *)
(*                                                                         *)
(* A section under a mutex is one step; what a function does after the     *)
(* unlock is another, so that the other threads may come in between.       *)
(***************************************************************************)
EXTENDS Integers, FiniteSets

CONSTANTS
    Crew,       \* the threads that call the functions and run the tasks
    Waits,      \* the wait operations of the users (struct io_tqueue_wait)
    MaxTime,    \* the time at which the clock of the model stops
    Confs       \* the configurations, see `conf'

TqAssumption ==
    /\ MaxTime \in Nat \ {0}
    /\ Confs \subseteq [impl : {"linux", "user"}, crew : SUBSET Crew, past : BOOLEAN]

VARIABLES
    conf,       \* impl: which timer; crew: the threads there are; past: may
                \* a wait be submitted whose time has come already
    now,        \* the clock of the timer
    heap,       \* the pairs <<wait, its value>> of tq->queue
    st,         \* wait |-> "idle", "pending", "done", "canceled", "aborted"
    tq,         \* shutdown, submitted and next (0: none) of struct io_tqueue
    tm,         \* the timer: expiry (0: disarmed), whether it holds tq->wait,
                \* shutdown, and for timerfd: the watch, wait_posted
    exec,       \* the tasks the executor holds: "tqwait", "waittask"
    at,         \* thread |-> what it is about to do
    fini        \* how far io_tqueue_fini() is

tqvars == <<conf, now, heap, st, tq, tm, exec, at, fini>>

\* A step of a thread, with the clock it has read
Step(what) == [pc |-> what, clock |-> 0]
Got(n) == [pc |-> "got", clock |-> n]

TqInit ==
    /\ conf \in Confs
    /\ now = 1
    /\ heap = {}
    /\ st = [w \in Waits |-> "idle"]
    /\ tq = [shutdown |-> FALSE, submitted |-> FALSE, next |-> 0]
    /\ tm = [exp |-> 0, held |-> FALSE, shutdown |-> FALSE,
             watch |-> TRUE, posted |-> FALSE]
    /\ exec = {}
    /\ at = [t \in Crew |-> Step("idle")]
    /\ fini = "no"

Free(t) == t \in conf.crew /\ at[t] = Step("idle")
Alive == fini \in {"no", "cancel", "down"}
Become(t, what) == at' = [at EXCEPT ![t] = Step(what)]

-----------------------------------------------------------------------------
(***************************************************************************)
(* The timer.  What posts tq->wait is the pair of the new timer and the    *)
(* tasks posted.                                                           *)
(***************************************************************************)
\* tq->wait is posted: by an expiration, a cancellation or at shutdown.
Released(T) == <<[T EXCEPT !.held = FALSE], IF T.held THEN {"tqwait"} ELSE {}>>

\* io_user_timer_do_settime(): an expiration takes what waits now.
do_settime(T) ==
    IF T.exp # 0 /\ T.exp <= now' THEN Released([T EXCEPT !.exp = 0]) ELSE <<T, {}>>

\* io_timer_settime() with TIMER_ABSTIME
Settime(T, value) ==
    LET armed == [T EXCEPT !.exp = value]
    IN  IF conf.impl = "user" THEN do_settime(armed) ELSE <<armed, {}>>

\* io_timer_submit_wait()
SubmitWait(T) ==
    LET holds == [T EXCEPT !.held = TRUE]
    IN  IF T.shutdown THEN <<T, {"tqwait"}>>
        ELSE IF conf.impl = "user" THEN do_settime(holds) ELSE <<holds, {}>>

\* A timerfd is readable once it has expired, until it is read or set again.
Readable == tm.exp # 0 /\ tm.exp <= now

\* io_timer_impl_watch_func(): the poll of thread t reports the descriptor,
\* which stops the watch until it is renewed.
watch_func(t) ==
    /\ conf.impl = "linux" /\ Free(t) /\ tm.watch /\ Readable
    /\ tm' = [tm EXCEPT !.watch = FALSE, !.posted = @ \/ ~tm.shutdown]
    /\ exec' = exec \cup (IF ~tm.posted /\ ~tm.shutdown THEN {"waittask"} ELSE {})
    /\ UNCHANGED <<conf, now, heap, st, tq, at, fini>>

\* io_timer_impl_wait_task_func(), up to the lock: the descriptor is read.
wait_task_func(t) ==
    /\ Free(t) /\ "waittask" \in exec
    /\ exec' = exec \ {"waittask"}
    /\ Become(t, IF Readable THEN "expired" ELSE "empty")
    /\ tm' = IF Readable THEN [tm EXCEPT !.exp = 0] ELSE tm
    /\ UNCHANGED <<conf, now, heap, st, tq, fini>>

\* ... and from the lock: the expiration takes what waits now.
WaitTaskLock(t) ==
    /\ at[t].pc \in {"expired", "empty"}
    /\ LET free == [tm EXCEPT !.watch = ~tm.shutdown, !.posted = FALSE]
           T    == IF at[t].pc = "expired" THEN Released(free) ELSE <<free, {}>>
       IN  tm' = T[1] /\ exec' = exec \cup T[2]
    /\ Become(t, "idle")
    /\ UNCHANGED <<conf, now, heap, st, tq, fini>>

\* The svc_shutdown() of the timer: the I/O context shuts down, the timer
\* before the queue, which was created after it.
TimerShutdown ==
    /\ ~tm.shutdown
    /\ LET aborted == "waittask" \in exec
           T == Released([tm EXCEPT !.shutdown = TRUE, !.watch = FALSE,
                                    !.posted = @ /\ ~aborted])
       IN  tm' = T[1] /\ exec' = (exec \ {"waittask"}) \cup T[2]
    /\ UNCHANGED <<conf, now, heap, st, tq, at, fini>>

\* Time passes; for the user-defined timer because a thread calls
\* io_user_timer_clock_settime().
Tick ==
    /\ now < MaxTime /\ now' = now + 1
    /\ conf.impl = "user" => \E t \in Crew : Free(t)
    /\ LET T == IF conf.impl = "user" THEN do_settime(tm) ELSE <<tm, {}>>
       IN  tm' = T[1] /\ exec' = exec \cup T[2]
    /\ UNCHANGED <<conf, heap, st, tq, at, fini>>

-----------------------------------------------------------------------------
(***************************************************************************)
(* The queue.                                                              *)
(***************************************************************************)
Ops(h) == {p[1] : p \in h}
Earliest(h) == CHOOSE v \in {p[2] : p \in h} : \A p \in h : v <= p[2]
Finish(ws, how) == st' = [w \in Waits |-> IF w \in ws THEN how ELSE st[w]]

\* The end of io_tqueue_do_pop_wait(): with an empty queue and tq->wait on its
\* way, io_timer_cancel_wait().
CancelEmpty(h, T) == IF h = {} /\ tq.submitted THEN Released(T) ELSE <<T, {}>>

\* io_tqueue_submit_wait() up to the unlock, for a wait w of value v; ok says
\* whether io_timer_settime() succeeds, if it is called.
io_tqueue_submit_wait(t, w, v, ok) ==
    /\ Free(t) /\ Alive /\ st[w] # "pending" /\ (conf.past \/ v > now)
    /\ now' = now
    /\ IF tq.shutdown
       THEN ok /\ Finish({w}, "canceled") /\ UNCHANGED <<heap, tq, tm, exec, at>>
       ELSE LET sets == tq.next = 0 \/ v < tq.next
                all  == heap \cup {<<w, v>>}
                T    == CASE ~sets    -> <<tm, {}>>
                          [] sets /\ ok -> Settime(tm, v)
                          [] OTHER    -> CancelEmpty({}, tm)
            IN  /\ ok \/ sets
                /\ heap' = IF ok THEN all ELSE {}
                /\ st' = [x \in Waits |-> CASE ~ok /\ x \in Ops(all) -> "canceled"
                                            [] ok /\ x = w -> "pending"
                                            [] OTHER -> st[x]]
                /\ tm' = T[1] /\ exec' = exec \cup T[2]
                /\ tq' = [tq EXCEPT !.next = IF ~sets THEN @ ELSE IF ok THEN v ELSE 0,
                                    !.submitted = @ \/ ok]
                /\ Become(t, IF ok /\ ~tq.submitted THEN "submit" ELSE "idle")
    /\ UNCHANGED <<conf, fini>>

\* Both callers of io_timer_submit_wait(), after the unlock.
TimerSubmit(t) ==
    /\ at[t].pc \in {"submit", "resubmit"}
    /\ now' = now
    /\ LET T == SubmitWait(tm) IN tm' = T[1] /\ exec' = exec \cup T[2]
    /\ Become(t, "idle")
    /\ UNCHANGED <<conf, heap, st, tq, fini>>

\* io_tqueue_cancel_wait(), io_tqueue_abort_wait(), io_dev_cancel() and
\* io_dev_abort(): waits are taken out, one or all.
Pop(t, ws, how) ==
    /\ Free(t) /\ Alive
    /\ ws \in {Ops(heap)} \cup {{w} : w \in Ops(heap)}
    /\ heap' = {p \in heap : p[1] \notin ws}
    /\ Finish(ws, how)
    /\ LET T == CancelEmpty(heap', tm) IN tm' = T[1] /\ exec' = exec \cup T[2]
    /\ UNCHANGED <<conf, now, tq, at, fini>>

\* io_tqueue_wait_func() up to the lock: it reads the clock.
wait_func(t) ==
    /\ Free(t) /\ "tqwait" \in exec
    /\ exec' = exec \ {"tqwait"}
    /\ \/ at' = [at EXCEPT ![t] = Got(now)]
       \/ Become(t, "noclock")
    /\ UNCHANGED <<conf, now, heap, st, tq, tm, fini>>

\* ... the clock could not be read: every wait ends.
WaitFuncError(t) ==
    /\ at[t].pc = "noclock"
    /\ heap' = {}
    /\ Finish(Ops(heap), "canceled")
    /\ tq' = [tq EXCEPT !.submitted = FALSE, !.next = 0]
    /\ Become(t, "idle")
    /\ UNCHANGED <<conf, now, tm, exec, fini>>

\* Mutant: a wait that expires one tick later is completed as well.
WaitFuncLockEarly(t, ok) ==
    /\ now' = now
    /\ \E n \in 1..MaxTime :
         /\ at[t] = Got(n)
         /\ LET later == {p \in heap : n + 1 < p[2]}
                T     == IF later = {} THEN <<tm, {}>> ELSE Settime(tm, Earliest(later))
            IN  /\ ok
                /\ heap' = later
                /\ Finish(Ops(heap \ later), "done")
                /\ tm' = T[1] /\ exec' = exec \cup T[2]
                /\ tq' = [tq EXCEPT !.next = IF later = {} THEN 0 ELSE Earliest(later),
                                    !.submitted = later # {} /\ ~tq.shutdown]
                /\ Become(t, IF tq'.submitted THEN "resubmit" ELSE "idle")
    /\ UNCHANGED <<conf, fini>>

\* ... and from the lock: what is due is completed, the timer set for the
\* rest and tq->wait submitted again.
WaitFuncLock(t, ok) ==
    /\ now' = now
    /\ \E n \in 1..MaxTime :
         /\ at[t] = Got(n)
         /\ LET later == {p \in heap : n < p[2]}
                T     == IF later = {} \/ ~ok THEN <<tm, {}>>
                         ELSE Settime(tm, Earliest(later))
            IN  /\ ok \/ later # {}
                /\ heap' = IF ok THEN later ELSE {}
                /\ Finish(Ops(heap \ heap'), IF ok THEN "done" ELSE "canceled")
                /\ tm' = T[1] /\ exec' = exec \cup T[2]
                /\ tq' = [tq EXCEPT !.next = IF heap' = {} THEN 0 ELSE Earliest(later),
                                    !.submitted = heap' # {} /\ ~tq.shutdown]
                /\ Become(t, IF tq'.submitted THEN "resubmit" ELSE "idle")
    /\ UNCHANGED <<conf, fini>>

-----------------------------------------------------------------------------
(***************************************************************************)
(* The shutdown, by the I/O context or by io_tqueue_fini(), and the rest   *)
(* of io_tqueue_fini(), when no other function of the queue is executing.  *)
(***************************************************************************)
\* io_tqueue_svc_shutdown() up to the unlock
Shutdown ==
    /\ fini = "no" /\ fini' = "cancel"
    /\ LET aborts == tq.submitted /\ tm.held
       IN  /\ tq' = [tq EXCEPT !.shutdown = TRUE, !.submitted = @ /\ ~aborts]
           /\ tm' = [tm EXCEPT !.held = @ /\ ~aborts]
    /\ UNCHANGED <<conf, now, heap, st, exec, at>>

\* ... and the cancellation of the waits after it
ShutdownCancel ==
    /\ fini = "cancel" /\ fini' = "down"
    /\ heap' = {}
    /\ Finish(Ops(heap), "canceled")
    /\ LET T == CancelEmpty({}, tm) IN tm' = T[1] /\ exec' = exec \cup T[2]
    /\ UNCHANGED <<conf, now, tq, at>>

FiniBegin ==
    /\ fini = "down" /\ fini' = "wait"
    /\ \A t \in Crew : at[t].pc # "submit"
    /\ UNCHANGED <<conf, now, heap, st, tq, tm, exec, at>>

\* The busy-wait: it ends when tq->wait is not submitted, or is a task that
\* can be aborted.
FiniWait ==
    /\ fini = "wait" /\ (tq.submitted => "tqwait" \in exec)
    /\ fini' = "done"
    /\ exec' = IF tq.submitted THEN exec \ {"tqwait"} ELSE exec
    /\ UNCHANGED <<conf, now, heap, st, tq, tm, at>>

TqNext ==
    \/ Tick \/ TimerShutdown \/ Shutdown \/ ShutdownCancel \/ FiniBegin
    \/ FiniWait
    \/ \E t \in Crew :
          \/ \E w \in Waits, v \in 1..MaxTime, ok \in BOOLEAN :
                io_tqueue_submit_wait(t, w, v, ok)
          \/ \E ws \in SUBSET Waits, how \in {"canceled", "aborted"} : Pop(t, ws, how)
          \/ TimerSubmit(t)
          \/ watch_func(t) \/ wait_task_func(t) \/ WaitTaskLock(t)
          \/ wait_func(t) \/ WaitFuncError(t)
          \/ \E ok \in BOOLEAN : WaitFuncLock(t, ok)

\* Time passes, the executor and the poll of every thread go on, and the
\* busy-wait ends when it can.
Runs(t) == \/ TimerSubmit(t) \/ watch_func(t) \/ wait_task_func(t) \/ WaitTaskLock(t)
           \/ wait_func(t) \/ WaitFuncError(t) \/ \E ok \in BOOLEAN : WaitFuncLock(t, ok)

TqSpec == TqInit /\ [][TqNext]_tqvars
TqFairness ==
    /\ SF_tqvars(Tick)
    /\ SF_tqvars(\E t \in Crew : Runs(t))
    /\ WF_tqvars(ShutdownCancel \/ FiniWait)

-----------------------------------------------------------------------------
(***************************************************************************)
(* Properties                                                              *)
(***************************************************************************)
\* The variables have their types, and a wait is pending exactly while the
\* heap holds it.
TqTypeOK ==
    /\ conf \in Confs /\ now \in 1..MaxTime
    /\ st \in [Waits -> {"idle", "pending", "done", "canceled", "aborted"}]
    /\ heap \subseteq Waits \X (1..MaxTime)
    /\ Cardinality(Ops(heap)) = Cardinality(heap)
    /\ \A w \in Waits : st[w] = "pending" <=> w \in Ops(heap)
    /\ tq \in [shutdown : BOOLEAN, submitted : BOOLEAN, next : 0..MaxTime]
    /\ tm \in [exp : 0..MaxTime, held : BOOLEAN, shutdown : BOOLEAN,
               watch : BOOLEAN, posted : BOOLEAN]
    /\ exec \subseteq {"tqwait", "waittask"}
    /\ fini \in {"no", "cancel", "down", "wait", "done"}

\* The threads that are about to submit tq->wait, or run it before the lock.
Holders == {t \in Crew : at[t].pc \in {"submit", "resubmit", "noclock", "got"}}

\* tq->wait is in one place at a time (the timer, the executor, or a thread),
\* and in none exactly while `submitted' is clear: io_tqueue_submit_wait() and
\* io_tqueue_wait_func() never submit it twice, and the assertions on
\* tq->submitted hold.
OneWait ==
    (IF tm.held THEN 1 ELSE 0) + (IF "tqwait" \in exec THEN 1 ELSE 0)
        + Cardinality(Holders) = (IF tq.submitted THEN 1 ELSE 0)
        \/ fini = "done"

\* While waits are pending and the queue is not shut down, the time it remembers
\* as the next one is not after any of them, and tq->wait is on its way: this is
\* what lets io_tqueue_submit_wait() leave the timer alone for a later wait.
NextCovers ==
    heap # {} /\ ~tq.shutdown => tq.submitted /\ tq.next # 0 /\ tq.next <= Earliest(heap)

\* No wait is completed before its time.
NotEarlyStep ==
    \A w \in Waits : st[w] = "pending" /\ st'[w] = "done" =>
        \A p \in heap : p[1] = w => p[2] <= now

NotEarly == [][NotEarlyStep]_tqvars

\* io_tqueue_fini() returns only when nothing will use the queue any more:
\* tq->wait is not in the timer, not in the executor and not in a thread.
FiniSafe ==
    fini = "done" => ~tm.held /\ "tqwait" \notin exec /\ Holders = {} /\ heap = {}

\* The conditions under which an expiration finds tq->wait in the timer: no
\* second thread polls between the io_timer_settime() of a function and its
\* io_timer_submit_wait(), and the user-defined timer is never set to a time
\* that has passed.
Orderly == Cardinality(conf.crew) = 1 /\ (conf.impl = "linux" \/ ~conf.past)

Pending(w) == Orderly /\ st[w] = "pending"

\* Under those conditions, every wait is completed, cancelled or aborted.
WaitCompletes == \A w \in Waits : Pending(w) ~> ~Pending(w)

Finishing == Orderly /\ fini = "wait"

\* Under the same conditions, io_tqueue_fini() returns.
FiniReturns == Finishing ~> ~Finishing

\* What tqueue.h says of io_tqueue_submit_wait(): "The completion task is
\* submitted for execution once the timeout specified in the value member of
\* the wait operation expires."
ExpiryCompletes == \A w \in Waits : st[w] = "pending" ~> st[w] # "pending"
=============================================================================
