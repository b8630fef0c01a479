--------------------------------- MODULE Ev ---------------------------------
(***************************************************************************)
(* The parts of the event and I/O libraries on which the threads of an     *)
(* application meet: a strand (EvStrand), a stop token (StopToken), a      *)
(* timer queue (TQueue), an event loop (EvLoop), fiber executors           *)
(* (FiberExec) and a CAN network interface (IoCanNet).  A behaviour is one *)
(* of one part.                                                            *)
(***************************************************************************)
EXTENDS Integers, Sequences, FiniteSets

CONSTANTS
    Threads,      \* the threads that use a strand or a stop token
    Crew,         \* those of them that execute tasks
    Outside,      \* a thread that does not
    Tasks,        \* the tasks of a strand and of fiber executors
    Items,        \* callback functions, waits, and tasks of an event loop
    TqConfs, MaxTime, LoopConfs, Ctxs, MaxWork, FiberScenes, Fibers, IoNets,
    None

\* The part, and its variables, in the order of its module.
VARIABLES part, v1, v2, v3, v4, v5, v6, v7, v8, v9, v10

vars == <<part, v1, v2, v3, v4, v5, v6, v7, v8, v9, v10>>

Strand == INSTANCE EvStrand WITH
    queue <- v1, posted <- v2, thr <- v3, inner <- v4, ntasks <- v5, run <- v6, cur <- v7, call <- v8,
    arg <- v9, fini <- v10

Stop == INSTANCE StopToken WITH Funcs <- Items,
    requested <- v1, thr <- v2, queue <- v3, func <- v4, at <- v5, op <- v6, arg <- v7, st <- v8, calls <- v9

Timers == INSTANCE TQueue WITH Waits <- Items, Confs <- TqConfs,
    conf <- v1, now <- v2, heap <- v3, st <- v4, tq <- v5, tm <- v6, exec <- v7, at <- v8, fini <- v9

Loop == INSTANCE EvLoop WITH Threads <- Crew, Tasks <- Items, Configs <- LoopConfs,
    d <- v1, loop <- v2, thr <- v3, ctx <- v4, future <- v5, fini <- v6

Fiber == INSTANCE FiberExec WITH Execs <- Crew, Scenes <- FiberScenes,
    scene <- v1, exec <- v2, ctx <- v3, mtx <- v4, cond <- v5, hand <- v6, task <- v7

Io == INSTANCE IoCanNet WITH App <- Outside, Nets <- IoNets, conf <- v1, now <- v2, s <- v3, at <- v4

ASSUME EvAssumption ==
    /\ Strand!StrandAssumption /\ Stop!StopAssumption /\ Timers!TqAssumption
    /\ Loop!LoopAssumption /\ Fiber!FiberAssumption /\ Io!IoAssumption

-----------------------------------------------------------------------------
\* A part that has n variables leaves the others alone.
Rest(n) == /\ n < 5 => v5 = None /\ v6 = None
           /\ n < 7 => v7 = None
           /\ n < 9 => v8 = None /\ v9 = None
           /\ v10 = None

Init ==
    \/ part = "strand" /\ Strand!StrandInit
    \/ part = "stop" /\ Stop!StopInit /\ Rest(9)
    \/ part = "timers" /\ Timers!TqInit /\ Rest(9)
    \/ part = "loop" /\ Loop!LoopInit /\ Rest(6)
    \/ part = "fibers" /\ Fiber!FiberInit /\ Rest(7)
    \/ part = "io" /\ Io!IoInit /\ Rest(4)

Next ==
    \/ part = "strand" /\ Strand!StrandNext /\ UNCHANGED part
    \/ part = "stop" /\ Stop!StopNext /\ UNCHANGED <<part, v10>>
    \/ part = "timers" /\ Timers!TqNext /\ UNCHANGED <<part, v10>>
    \/ part = "loop" /\ Loop!LoopNext /\ UNCHANGED <<part, v7, v8, v9, v10>>
    \/ part = "fibers" /\ Fiber!FiberNext /\ UNCHANGED <<part, v8, v9, v10>>
    \/ part = "io" /\ Io!IoNext /\ UNCHANGED <<part, v5, v6, v7, v8, v9, v10>>

\* The fairness of the parts, each in its own module.
Goes(t) ==
    \/ part = "strand" /\ Strand!Proceed(t) /\ UNCHANGED part
    \/ part = "stop" /\ Stop!StopProceed(t) /\ UNCHANGED <<part, v10>>
    \/ part = "loop" /\ t \in Crew /\ Loop!LoopProceed(t) /\ UNCHANGED <<part, v1, v7, v8, v9, v10>>
    \/ part = "fibers" /\ Fiber!FiberProceed(t) /\ UNCHANGED <<part, v8, v9, v10>>
    \/ part = "io" /\ t \in Crew /\ Io!Works(t) /\ UNCHANGED <<part, v5, v6, v7, v8, v9, v10>>

Returns == part = "strand" /\ (\E t \in Threads : Strand!Return(t)) /\ UNCHANGED part

Executor ==
    \/ part = "strand" /\ Strand!RunInner /\ UNCHANGED part
    \/ part = "timers" /\ (\E t \in Crew : Timers!Runs(t)) /\ UNCHANGED <<part, v10>>
    \/ part = "fibers" /\ (\E c \in Fiber!Ctx : Fiber!FutureReady(c)) /\ UNCHANGED <<part, v8, v9, v10>>
    \/ /\ part = "io" /\ UNCHANGED <<part, v5, v6, v7, v8, v9, v10>>
       /\ \E t \in Crew : Io!io_can_net_write_func(t) \/ Io!io_can_net_wait_confirm_func(t)

Ends ==
    \/ part = "strand" /\ (Strand!FiniLock \/ Strand!FiniWait) /\ UNCHANGED part
    \/ part = "timers" /\ (Timers!ShutdownCancel \/ Timers!FiniWait) /\ UNCHANGED <<part, v10>>
    \/ part = "io" /\ (Io!AbortWait \/ Io!io_can_net_fini) /\ UNCHANGED <<part, v5, v6, v7, v8, v9, v10>>

Time ==
    \/ part = "timers" /\ Timers!Tick /\ UNCHANGED <<part, v10>>
    \/ part = "io" /\ Io!Completes("confirm") /\ UNCHANGED <<part, v5, v6, v7, v8, v9, v10>>

Fairness ==
    /\ \A t \in Threads : WF_vars(Goes(t))
    /\ SF_vars(Returns) /\ SF_vars(Executor) /\ WF_vars(Ends) /\ SF_vars(Time)

Spec == Init /\ [][Next]_vars /\ Fairness

-----------------------------------------------------------------------------
(* The properties of the parts, stated in their modules.                   *)

\* A strand runs one task at a time, in the order in which they were submitted,
\* whatever the threads of the inner executor do: its own task is in one place at
\* a time, every task is counted, and nothing is left of it once ev_strand_fini()
\* has returned (EvStrand).
StrandSerial ==
    /\ [](part = "strand" => /\ Strand!StrandTypeOK /\ Strand!OneToken
                             /\ Strand!TasksCounted /\ Strand!FiniSafe)
    /\ part = "strand" => Strand!Serial!SerialInit
    /\ [][part = "strand" => Strand!Serial!SerialNext \/ UNCHANGED <<v1, Strand!Running>>]_vars

\* A callback function is invoked at most once, and is not registered and not
\* running after stop_token_remove() (StopToken).
CallbacksQuiet == part = "stop" => Stop!StopTypeOK /\ Stop!CalledOnce /\ Stop!RemovedIsQuiet

\* The wait that the timer queue shares is in one place, its time covers every
\* pending wait, no wait is completed before its time, and io_tqueue_fini()
\* returns only when nothing is left of it (TQueue).
TimersHonest ==
    /\ [](part = "timers" => /\ Timers!TqTypeOK /\ Timers!OneWait
                             /\ Timers!NextCovers /\ Timers!FiniSafe)
    /\ [][part = "timers" => Timers!NotEarlyStep]_vars

\* No thread of an event loop sleeps while it has something to do or has been told
\* to leave, the polling task is in one place, and no context is used again while
\* somebody knows it (EvLoop).
LoopAwake ==
    part = "loop" => /\ Loop!LoopTypeOK /\ Loop!WakeupsKept /\ Loop!OnePollTask
                     /\ Loop!CtxCounted /\ Loop!ToldIsAwake

\* A fiber is in one place, at most one has the mutex, a task that has been posted
\* is looked after and none is lost, also when fibers of two threads and a thread
\* without fibers meet (FiberExec).
FibersRight ==
    part = "fibers" => /\ Fiber!FiberTypeOK /\ Fiber!OnePlace /\ Fiber!MutexExcludes
                       /\ Fiber!Attended /\ Fiber!TasksKept

\* No operation of the CAN network interface is submitted twice, frames leave in
\* order and once, the transmit queue moves on, no timer waits for a later one, and
\* io_can_net_fini() leaves no operation behind (IoCanNet).
IoNetRight ==
    part = "io" => /\ Io!IoTypeOK /\ Io!FlagsRight /\ Io!FramesInOrder
                   /\ Io!QueueMoves /\ Io!NextCovers /\ Io!IoFiniSafe
=============================================================================
