------------------------------ MODULE EvProofs ------------------------------
(***************************************************************************)
(* The properties of Ev that follow from the proofs about its parts.       *)
(***************************************************************************)
EXTENDS Ev, TLAPS

StrandP == INSTANCE EvStrandProofs WITH
    queue <- v1, posted <- v2, thr <- v3, inner <- v4, ntasks <- v5, run <- v6, cur <- v7, call <- v8,
    arg <- v9, fini <- v10

-----------------------------------------------------------------------------
(* The strand.                                                             *)

\* The definitions of the part are those of the module of its proofs.
LEMMA StrandSame ==
    /\ Strand!StrandAssumption <=> StrandP!StrandAssumption
    /\ Strand!StrandInit <=> StrandP!StrandInit
    /\ Strand!StrandTypeOK <=> StrandP!StrandTypeOK
    /\ Strand!OneToken <=> StrandP!OneToken
    /\ Strand!TasksCounted <=> StrandP!TasksCounted
    /\ Strand!FiniSafe <=> StrandP!FiniSafe
    /\ Strand!Serial!SerialInit <=> StrandP!Serial!SerialInit
    /\ Strand!Running = StrandP!Running /\ Strand!Running' = StrandP!Running'
    /\ Strand!Serial!SerialNext <=> StrandP!Serial!SerialNext
<1>1. Strand!StrandAssumption <=> StrandP!StrandAssumption
    BY Zenon DEF Strand!StrandAssumption, StrandP!StrandAssumption, Strand!IsFiniteSet, StrandP!IsFiniteSet
<1>a. Strand!StrandInit <=> StrandP!StrandInit
    BY Zenon DEF Strand!StrandInit, StrandP!StrandInit
<1>b. Strand!StrandTypeOK <=> StrandP!StrandTypeOK
    BY Zenon DEF Strand!StrandTypeOK, StrandP!StrandTypeOK
<1>c. Strand!OneToken <=> StrandP!OneToken
    BY Zenon DEF Strand!OneToken, StrandP!OneToken, Strand!Holds, StrandP!Holds
<1>d. Strand!TasksCounted <=> StrandP!TasksCounted
    BY Zenon DEF Strand!TasksCounted, StrandP!TasksCounted, Strand!Count, StrandP!Count, Strand!Cardinality, StrandP!Cardinality
<1>e. Strand!FiniSafe <=> StrandP!FiniSafe
    BY Zenon DEF Strand!Holds, StrandP!Holds, Strand!FiniSafe, StrandP!FiniSafe
<1>2. Strand!Running = StrandP!Running
    BY DEF Strand!Running, StrandP!Running
<1>3. Strand!Running' = StrandP!Running'
    BY DEF Strand!Running, StrandP!Running
<1>4. Strand!Serial!SerialInit <=> StrandP!Serial!SerialInit
    BY DEF Strand!Serial!SerialInit, StrandP!Serial!SerialInit, Strand!Running, StrandP!Running
<1>5. Strand!Serial!SerialNext <=> StrandP!Serial!SerialNext
    BY Zenon DEF Strand!Running, StrandP!Running,
    Strand!Serial!SerialNext, StrandP!Serial!SerialNext,
    Strand!Serial!Submit, StrandP!Serial!Submit,
    Strand!Serial!Start, StrandP!Serial!Start,
    Strand!Serial!Finish, StrandP!Serial!Finish,
    Strand!Serial!Abort, StrandP!Serial!Abort,
    Strand!Serial!Without, StrandP!Serial!Without,
    Strand!Serial!AbortAll, StrandP!Serial!AbortAll
<1> QED
    BY <1>1, <1>2, <1>3, <1>4, <1>5, <1>a, <1>b, <1>c, <1>d, <1>e

LEMMA StrandSameNext == Strand!StrandNext <=> StrandP!StrandNext
BY Zenon DEF Strand!StrandNext, StrandP!StrandNext,
    Strand!StrandStep, StrandP!StrandStep, Strand!Submit, StrandP!Submit,
    Strand!InUse, StrandP!InUse, Strand!Inline, StrandP!Inline,
    Strand!Enqueue, StrandP!Enqueue, Strand!PostCall, StrandP!PostCall,
    Strand!ev_strand_func, StrandP!ev_strand_func, Strand!Return, StrandP!Return,
    Strand!Fini, StrandP!Fini, Strand!End, StrandP!End,
    Strand!PostFunc, StrandP!PostFunc, Strand!Abort, StrandP!Abort,
    Strand!Without, StrandP!Without, Strand!FiniBegin, StrandP!FiniBegin,
    Strand!FiniLock, StrandP!FiniLock, Strand!FiniWait, StrandP!FiniWait

StrandPart == part = "strand" => StrandP!StrandInv /\ StrandP!TasksCounted

\* A strand runs one task at a time, in the order in which they were submitted;
\* its own task is in one place at a time, every task is counted and nothing is
\* left once ev_strand_fini() has returned, for any number of threads and tasks.
THEOREM StrandsAreSerial == Spec => StrandSerial
<1>a. StrandP!StrandAssumption
    BY EvAssumption, StrandSame
<1>1. Init => StrandPart /\ (part = "strand" => Strand!Serial!SerialInit)
    BY <1>a, StrandSame, StrandP!StrandInvInit DEF Init, StrandPart
<1>2. ASSUME StrandPart, [Next]_vars
      PROVE  /\ StrandPart'
             /\ part = "strand" =>
                  Strand!Serial!SerialNext \/ UNCHANGED <<v1, Strand!Running>>
  <2>1. CASE part # "strand"
      BY <1>2, <2>1 DEF Next, vars, StrandPart
  <2>2. CASE part = "strand" /\ Next
    <3>1. StrandP!StrandNext /\ part' = part
        BY <2>2, StrandSameNext DEF Next
    <3>2. StrandP!StrandInv /\ StrandP!TasksCounted
        BY <1>2, <2>2 DEF StrandPart
    <3>3. StrandP!StrandInv' /\ StrandP!TasksCounted'
        BY <1>a, <3>1, <3>2, StrandP!StrandInvStep, StrandP!StrandCounts
    <3>4. StrandP!Serial!SerialNext \/ UNCHANGED <<v1, StrandP!Running>>
        BY <1>a, <3>1, <3>2, StrandP!StrandRefines
    <3> QED
        BY <3>1, <3>3, <3>4, StrandSame DEF StrandPart
  <2>3. CASE part = "strand" /\ UNCHANGED vars
    <3>1. StrandP!StrandInv /\ StrandP!TasksCounted
        BY <1>2, <2>3 DEF StrandPart
    <3>2. UNCHANGED StrandP!strandVars /\ part' = part
        BY <2>3 DEF vars, StrandP!strandVars
    <3>3. StrandP!StrandInv' /\ StrandP!TasksCounted' /\ UNCHANGED <<v1, StrandP!Running>>
        BY <3>1, <3>2, StrandP!StrandInvStutter
    <3> QED
        BY <3>2, <3>3, StrandSame DEF StrandPart
  <2> QED
      BY <1>2, <2>1, <2>2, <2>3
<1>3. StrandPart => (part = "strand" => /\ Strand!StrandTypeOK /\ Strand!OneToken
                                        /\ Strand!TasksCounted /\ Strand!FiniSafe)
    BY StrandSame, StrandP!StrandInvFini DEF StrandPart, StrandP!StrandInv
<1>4. StrandPart /\ [Next]_vars
        => [part = "strand" => Strand!Serial!SerialNext
                                 \/ UNCHANGED <<v1, Strand!Running>>]_vars
    BY <1>2
<1>5. StrandPart /\ [Next]_vars => StrandPart'
    BY <1>2
<1> QED
    BY <1>1, <1>3, <1>4, <1>5, PTL DEF Spec, StrandSerial

-----------------------------------------------------------------------------
(* The stop token.                                                         *)

StopP == INSTANCE StopTokenProofs WITH Funcs <- Items,
    requested <- v1, thr <- v2, queue <- v3, func <- v4, at <- v5, op <- v6, arg <- v7, st <- v8, calls <- v9

LEMMA StopSame ==
    /\ Stop!StopAssumption <=> StopP!StopAssumption
    /\ Stop!StopInit <=> StopP!StopInit
    /\ Stop!StopTypeOK <=> StopP!StopTypeOK
    /\ Stop!CalledOnce <=> StopP!CalledOnce
    /\ Stop!RemovedIsQuiet <=> StopP!RemovedIsQuiet
BY Zenon DEF Stop!StopAssumption, StopP!StopAssumption,
    Stop!StopInit, StopP!StopInit, Stop!StopTypeOK, StopP!StopTypeOK,
    Stop!CalledOnce, StopP!CalledOnce, Stop!RemovedIsQuiet, StopP!RemovedIsQuiet

LEMMA StopSameNext == Stop!StopNext <=> StopP!StopNext
BY Zenon DEF Stop!StopNext, StopP!StopNext, Stop!StopStep, StopP!StopStep,
    Stop!RequestStop, StopP!RequestStop, Stop!Free, StopP!Free,
    Stop!RequestLock, StopP!RequestLock, Stop!Invoke, StopP!Invoke,
    Stop!CallbackReturns, StopP!CallbackReturns,
    Stop!CallbackLock, StopP!CallbackLock, Stop!Own, StopP!Own,
    Stop!Enter, StopP!Enter, Stop!Leave, StopP!Leave,
    Stop!stop_token_insert, StopP!stop_token_insert,
    Stop!InsertLock, StopP!InsertLock, Stop!OwnReturns, StopP!OwnReturns,
    Stop!stop_token_remove, StopP!stop_token_remove, Stop!Gone, StopP!Gone,
    Stop!sllist_remove, StopP!sllist_remove,
    Stop!RemoveLock, StopP!RemoveLock, Stop!RemoveWakes, StopP!RemoveWakes

StopPart == part = "stop" => StopP!StopInv

\* A callback function is invoked at most once, and is not registered and not
\* running after stop_token_remove(), for any number of threads and functions.
THEOREM CallbacksAreQuiet == Spec => []CallbacksQuiet
<1>a. StopP!StopAssumption
    BY EvAssumption, StopSame
<1>1. Init => StopPart
    BY <1>a, StopSame, StopP!StopInvInit DEF Init, StopPart
<1>2. ASSUME StopPart, [Next]_vars
      PROVE  StopPart'
  <2>1. CASE part # "stop"
      BY <1>2, <2>1 DEF Next, vars, StopPart
  <2>2. CASE part = "stop" /\ Next
    <3>1. StopP!StopNext /\ part' = part
        BY <2>2, StopSameNext DEF Next
    <3> QED
        BY <1>2, <1>a, <2>2, <3>1, StopP!StopInvStep DEF StopPart
  <2>3. CASE part = "stop" /\ UNCHANGED vars
    <3>1. UNCHANGED StopP!stopVars /\ part' = part
        BY <2>3 DEF vars, StopP!stopVars
    <3> QED
        BY <1>2, <2>3, <3>1, StopP!StopInvStutter DEF StopPart
  <2> QED
      BY <1>2, <2>1, <2>2, <2>3
<1>3. StopPart => CallbacksQuiet
    BY <1>a, StopSame, StopP!StopInvSafe DEF StopPart, StopP!StopInv, CallbacksQuiet
<1> QED
    BY <1>1, <1>2, <1>3, PTL DEF Spec

-----------------------------------------------------------------------------
(* The timer queue.                                                        *)

TqP == INSTANCE TQueueProofs WITH Waits <- Items, Confs <- TqConfs,
    conf <- v1, now <- v2, heap <- v3, st <- v4, tq <- v5, tm <- v6, exec <- v7, at <- v8, fini <- v9

LEMMA TqSame ==
    /\ Timers!TqAssumption <=> TqP!TqAssumption
    /\ Timers!TqInit <=> TqP!TqInit
    /\ Timers!TqTypeOK <=> TqP!TqTypeOK
    /\ Timers!OneWait <=> TqP!OneWait
    /\ Timers!NextCovers <=> TqP!NextCovers
    /\ Timers!FiniSafe <=> TqP!FiniSafe
    /\ Timers!NotEarlyStep <=> TqP!NotEarlyStep
<1>1. Timers!TqAssumption <=> TqP!TqAssumption
    BY Zenon DEF Timers!TqAssumption, TqP!TqAssumption
<1>2. Timers!TqInit <=> TqP!TqInit
    BY Zenon DEF Timers!TqInit, TqP!TqInit, Timers!Step, TqP!Step
<1>3. Timers!TqTypeOK <=> TqP!TqTypeOK
    BY Zenon DEF Timers!TqTypeOK, TqP!TqTypeOK, Timers!Ops, TqP!Ops, Timers!Cardinality, TqP!Cardinality
<1>4. Timers!OneWait <=> TqP!OneWait
    BY Zenon DEF Timers!OneWait, TqP!OneWait, Timers!Holders, TqP!Holders, Timers!Cardinality, TqP!Cardinality
<1>5. Timers!NextCovers <=> TqP!NextCovers
    BY Zenon DEF Timers!NextCovers, TqP!NextCovers, Timers!Earliest, TqP!Earliest
<1>6. Timers!FiniSafe <=> TqP!FiniSafe
    BY Zenon DEF Timers!FiniSafe, TqP!FiniSafe, Timers!Holders, TqP!Holders
<1>7. Timers!NotEarlyStep <=> TqP!NotEarlyStep
    BY Zenon DEF Timers!NotEarlyStep, TqP!NotEarlyStep
<1> QED
    BY <1>1, <1>2, <1>3, <1>4, <1>5, <1>6, <1>7

LEMMA TqSameNext == Timers!TqNext <=> TqP!TqNext
BY Zenon DEF Timers!TqNext, TqP!TqNext,
    Timers!Tick, TqP!Tick, Timers!TimerShutdown, TqP!TimerShutdown, Timers!Shutdown,
    TqP!Shutdown, Timers!ShutdownCancel, TqP!ShutdownCancel, Timers!FiniBegin,
    TqP!FiniBegin, Timers!FiniWait, TqP!FiniWait, Timers!io_tqueue_submit_wait,
    TqP!io_tqueue_submit_wait, Timers!Pop, TqP!Pop, Timers!TimerSubmit,
    TqP!TimerSubmit, Timers!watch_func, TqP!watch_func, Timers!wait_task_func,
    TqP!wait_task_func, Timers!WaitTaskLock, TqP!WaitTaskLock, Timers!wait_func,
    TqP!wait_func, Timers!WaitFuncError, TqP!WaitFuncError, Timers!WaitFuncLock,
    TqP!WaitFuncLock, Timers!Step, TqP!Step, Timers!Got, TqP!Got, Timers!Free,
    TqP!Free, Timers!Alive, TqP!Alive, Timers!Become, TqP!Become,
    Timers!Released, TqP!Released, Timers!do_settime, TqP!do_settime, Timers!Settime,
    TqP!Settime, Timers!SubmitWait, TqP!SubmitWait, Timers!Readable, TqP!Readable,
    Timers!Ops, TqP!Ops, Timers!Earliest, TqP!Earliest, Timers!Finish, TqP!Finish,
    Timers!CancelEmpty, TqP!CancelEmpty

TimersPart == part = "timers" => TqP!TqInv

\* The wait operation that all waits of a timer queue share is in one place at a
\* time, the time the queue remembers covers every pending wait, no wait is
\* completed before its time and nothing is left when io_tqueue_fini() returns,
\* for any number of threads and waits.
THEOREM TimersAreHonest == Spec => TimersHonest
<1>a. TqP!TqAssumption
    BY EvAssumption, TqSame
<1>1. Init => TimersPart
    BY <1>a, TqSame, TqP!TqInvInit DEF Init, TimersPart
<1>2. ASSUME TimersPart, [Next]_vars
      PROVE  TimersPart' /\ (part = "timers" => Timers!NotEarlyStep)
  <2>1. CASE part # "timers"
      BY <1>2, <2>1 DEF Next, vars, TimersPart
  <2>2. CASE part = "timers" /\ Next
    <3>1. TqP!TqNext /\ part' = part
        BY <2>2, TqSameNext DEF Next
    <3>2. TqP!TqInv
        BY <1>2, <2>2 DEF TimersPart
    <3>3. TqP!TqInv' /\ TqP!NotEarlyStep
        BY <1>a, <3>1, <3>2, TqP!TqInvStep
    <3> QED
        BY <3>3, TqSame DEF TimersPart
  <2>3. CASE part = "timers" /\ UNCHANGED vars
    <3>1. TqP!TqInv
        BY <1>2, <2>3 DEF TimersPart
    <3>2. UNCHANGED TqP!tqvars /\ part' = part
        BY <2>3 DEF vars, TqP!tqvars
    <3>3. TqP!TqInv' /\ TqP!NotEarlyStep
        BY <3>1, <3>2, TqP!TqInvStutter
    <3> QED
        BY <3>3, TqSame DEF TimersPart
  <2> QED
      BY <1>2, <2>1, <2>2, <2>3
<1>3. TimersPart => (part = "timers" => /\ Timers!TqTypeOK /\ Timers!OneWait
                                        /\ Timers!NextCovers /\ Timers!FiniSafe)
    BY <1>a, TqSame, TqP!TqInvSafe DEF TimersPart
<1>4. TimersPart /\ [Next]_vars => [part = "timers" => Timers!NotEarlyStep]_vars
    BY <1>2
<1>5. TimersPart /\ [Next]_vars => TimersPart'
    BY <1>2
<1> QED
    BY <1>1, <1>3, <1>4, <1>5, PTL DEF Spec, TimersHonest
=============================================================================
