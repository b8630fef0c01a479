-------------------------------- MODULE MCEv --------------------------------
(***************************************************************************)
(* Ev with two or three threads and tasks.                                 *)
(***************************************************************************)
EXTENDS Ev

CONSTANTS t1, t2, t3, x1, x2, x3

McThreads == {t1, t2, t3}
McCrew == {t1, t2}
McTasks == {x1, x2, x3}
McItems == {x1, x2}

-----------------------------------------------------------------------------
(* One or two threads, two waits, at three times.                          *)

McTqConfs ==
    {[impl |-> "linux", crew |-> {t1}, past |-> TRUE], [impl |-> "linux", crew |-> {t1, t2}, past |-> FALSE],
     [impl |-> "user", crew |-> {t1}, past |-> FALSE], [impl |-> "user", crew |-> {t1, t2}, past |-> FALSE]}

-----------------------------------------------------------------------------
(* Two threads and up to two tasks.                                        *)

Mode(waits, timeout, once) == [waits |-> waits, timeout |-> timeout, once |-> once]
Run == Mode(FALSE, "none", FALSE)

LoopConf(npoll, poll_task, modes, tasks, calls) ==
    [npoll |-> npoll, poll_task |-> poll_task, modes |-> modes, tasks |-> tasks, calls |-> calls]

McLoopConfs ==
    {LoopConf(0, FALSE, {Run}, {x1, x2}, {"work"}),
     LoopConf(1, FALSE, {Run}, {x1}, {"work", "kill"}),
     LoopConf(1, TRUE, {Run}, {x1, x2}, {"stop", "abort"}),
     LoopConf(1, FALSE, {Mode(TRUE, "none", FALSE)}, {}, {}),
     LoopConf(1, FALSE, {Mode(FALSE, "some", FALSE), Mode(FALSE, "null", TRUE)}, {x1}, {"work", "abort"})}

McCtxs == {"c1", "c2"}

\* A loop with a polling task whose threads are interrupted.
Polls == INSTANCE EvLoop WITH Threads <- McCrew, Tasks <- McItems,
    Configs <- {LoopConf(1, TRUE, {Run}, {x1}, {"work", "kill"})},
    d <- v1, loop <- v2, thr <- v3, ctx <- v4, future <- v5, fini <- v6

ASSUME Polls!LoopAssumption

PollsSpec ==
    /\ part = "loop" /\ Polls!LoopInit /\ Rest(6)
    /\ [][Polls!LoopNext /\ UNCHANGED <<part, v7, v8, v9, v10>>]_vars

-----------------------------------------------------------------------------
(* Two executors with two fibers each, and up to three tasks.              *)

McFibers == {"f1", "f2"}

Scene(e1, e2, e3, does, max_ops, recursive, max_unused) ==
    [exec |-> [x \in {x1, x2, x3} |-> IF x = x1 THEN e1 ELSE IF x = x2 THEN e2 ELSE e3],
     does |-> does, max_ops |-> max_ops, recursive |-> recursive, max_unused |-> max_unused]

McFiberScenes ==
    {Scene(t1, t1, None, {"lock", "wait", "signal"}, 3, TRUE, 2),
     Scene(t1, t2, None, {"lock", "wait", "signal"}, 3, FALSE, 2),
     Scene(t1, t1, t1, {"lock", "wait"}, 2, FALSE, 1),
     Scene(t1, t1, None, {"post", "defer", "dispatch", "abort", "await"}, 2, FALSE, 1),
     Scene(t1, t2, t1, {"post", "defer", "abort"}, 1, FALSE, 1)}

-----------------------------------------------------------------------------
(* One or two threads that execute tasks, and the application: frames with *)
(* a timeout, timers, and frames that are sent before the start.           *)

IoNet(txlen, timeout, early, uses, crew, max_frames, max_time) ==
    [txlen |-> txlen, timeout |-> timeout, early |-> early, uses |-> uses, crew |-> crew,
     max_frames |-> max_frames, max_time |-> max_time]

McIoNets ==
    {IoNet(2, TRUE, FALSE, TRUE, {t1}, 2, 0), IoNet(1, TRUE, FALSE, TRUE, {t1}, 2, 0),
     IoNet(2, TRUE, FALSE, FALSE, {t1, t2}, 2, 0), IoNet(2, TRUE, TRUE, FALSE, {t1}, 2, 0),
     IoNet(2, FALSE, FALSE, FALSE, {t1}, 1, 2), IoNet(2, FALSE, FALSE, TRUE, {t1, t2}, 0, 2)}

-----------------------------------------------------------------------------
\* A task, a function, a wait or a frame has been accepted; a thread waits for another or
\* has been interrupted.  (One of each stands for all of them.)
Owed ==
    \/ part = "strand" /\ Strand!Waiting(x1)
    \/ part = "stop" /\ Stop!Registered(x1)
    \/ part = "timers" /\ Timers!Pending(x1)
    \/ part = "loop" /\ Loop!Neglected(x1)
    \/ part = "fibers" /\ v7[x1] \in {"queue", "defer", "run"}
    \/ part = "io" /\ Io!Queued(1)

Blocked ==
    \/ part = "strand" /\ Strand!Finishing
    \/ part = "stop" /\ Stop!Removing(t1)
    \/ part = "timers" /\ Timers!Finishing
    \/ part = "loop" /\ Loop!Killed(t1)
    \/ part = "io" /\ Io!IoFinishing

\* What must happen happens: the tasks of a strand, a loop and a fiber executor run,
\* registered functions are called, waits complete and frames leave or are given up,
\* unless they are taken back; and the functions that wait for another thread, and the run function of a thread that
\* is interrupted, return.
EvProgress == (Owed ~> ~Owed) /\ (Blocked ~> ~Blocked)

\* "If not explicitly stopped, these functions will execute pending tasks as long
\* as the event loop has outstanding work" (loop.h).
PendingTasksExecuted == Polls!NoSleepingLoop
=============================================================================
