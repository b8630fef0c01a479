------------------------------- MODULE EvLoop -------------------------------
(***************************************************************************)
(* The polling event loop (lib/ev/loop.c): threads that execute its tasks, *)
(* poll or wait, other threads that post and abort tasks, announce work,   *)
(* stop and restart the loop or interrupt a thread in it.                  *)
(*                                                                         *)
(* A section under the mutex of the loop is one step.  A thread has at     *)
(* most one context (no run function is called inside a task), but the     *)
(* context may outlive the call: its task is still in the queue then.      *)
(***************************************************************************)
EXTENDS Integers, Sequences, FiniteSets

CONSTANTS
    Threads,    \* the threads that call the run functions
    Tasks,      \* the tasks that are posted
    Ctxs,       \* the contexts (struct ev_loop_ctx) that can be allocated
    None,
    Configs,    \* see below
    MaxWork     \* bound on the announced tasks

(***************************************************************************)
(* A configuration has the number of threads that may poll (npoll, 0 if    *)
(* there is no polling instance), whether there is a polling task, the     *)
(* ways of calling the run functions (modes: do they wait for the future,  *)
(* the timeout "none", "some" or "null", for no abs_time, and whether they *)
(* execute one task only), the tasks that are posted, and the other        *)
(* functions that are called.                                              *)
(***************************************************************************)
LoopConfig ==
    [npoll : Nat, poll_task : BOOLEAN,
     modes : SUBSET [waits : BOOLEAN, timeout : {"none", "some", "null"}, once : BOOLEAN],
     tasks : SUBSET Tasks, calls : SUBSET {"abort", "work", "stop", "kill"}]

LoopAssumption ==
    /\ MaxWork \in Nat
    /\ \A c \in Configs : c \in LoopConfig /\ (c.poll_task => c.npoll > 0)

VARIABLES
    d,          \* the configuration
    loop,       \* queue, ntasks, stopped, waiting and polling of struct ev_loop
    thr,        \* thread |-> what it does in the loop, see NotInLoop
    ctx,        \* context |-> refcnt, ready, and where its task is
    future,     \* is the future ready that the threads may wait for
    fini        \* calls of on_task_fini() between the decrement and the lock

loopvars == <<d, loop, thr, ctx, future, fini>>

Poll == "poll"      \* loop->task, the polling task

NotInLoop == [pc |-> "outside", ctx |-> None,
            mode |-> [waits |-> FALSE, timeout |-> "none", once |-> FALSE],
            next |-> "loop", poll_task |-> FALSE, task |-> None, stopped |-> FALSE, kill |-> FALSE]

Unused == [refcnt |-> 0, ready |-> FALSE, task |-> "none"]

LoopInit ==
    /\ d \in Configs
    /\ loop = [queue |-> IF d.poll_task THEN <<Poll>> ELSE <<>>,
               ntasks |-> 0, stopped |-> FALSE, waiting |-> <<>>, polling |-> <<>>]
    /\ thr = [t \in Threads |-> NotInLoop]
    /\ ctx = [c \in Ctxs |-> Unused]
    /\ future = FALSE
    /\ fini = 0

-----------------------------------------------------------------------------
(***************************************************************************)
(* Helpers on the state that is protected by the mutex, as functions of    *)
(* the record S of `loop', `thr' and `ctx'.                                *)
(***************************************************************************)
Now == [loop |-> loop, thr |-> thr, ctx |-> ctx]
Becomes(S) == loop' = S.loop /\ thr' = S.thr /\ ctx' = S.ctx

ItemsOf(q) == {q[i] : i \in DOMAIN q}
Without(q, x) == SelectSeq(q, LAMBDA y : y # x)
Real(q) == ItemsOf(q) \ {Poll}

\* ev_loop_empty()
ev_loop_empty(L) == Real(L.queue) = {}

\* ev_loop_ctx_kill() of the context of thread t: a signal to the condition
\* variable, or to the poll, where it is remembered.
ev_loop_ctx_kill(S, t, stop) ==
    IF S.thr[t].stopped THEN S
    ELSE [S EXCEPT !.thr[t].stopped = stop,
                   !.thr[t].kill = @ \/ S.thr[t].pc \in {"waiting", "polling"}]

\* ev_loop_kill_any(): the thread that came last.
ev_loop_kill_any(S, polling) ==
    CASE S.loop.waiting # <<>> -> ev_loop_ctx_kill(S, Head(S.loop.waiting), FALSE)
      [] S.loop.waiting = <<>> /\ polling /\ S.loop.polling # <<>> ->
            ev_loop_ctx_kill(S, Head(S.loop.polling), FALSE)
      [] OTHER -> S

\* ev_loop_do_stop(): every thread that waits or polls is stopped.
ev_loop_do_stop(S) ==
    LET asleep == ItemsOf(S.loop.waiting) \cup ItemsOf(S.loop.polling)
    IN  IF S.loop.stopped THEN S
        ELSE [S EXCEPT !.loop.stopped = TRUE,
                       !.thr = [t \in Threads |->
                           IF t \in asleep /\ ~S.thr[t].stopped
                           THEN [S.thr[t] EXCEPT !.stopped = TRUE, !.kill = TRUE]
                           ELSE S.thr[t]]]

\* ev_loop_std_exec_impl_post()
post(S, x) ==
    LET pushed == [S EXCEPT !.loop.queue = Append(@, x)]
    IN  IF S.loop.queue = <<>> THEN ev_loop_kill_any(pushed, TRUE) ELSE pushed

\* ev_loop_ctx_release(): a context that nobody refers to may be used again.
ev_loop_ctx_release(S, c) ==
    [S EXCEPT !.ctx[c] = IF @.refcnt = 1 THEN Unused ELSE [@ EXCEPT !.refcnt = @ - 1]]

-----------------------------------------------------------------------------
(***************************************************************************)
(* ev_loop_wait_one() and ev_loop_wait_one_until(), which the other run    *)
(* functions call until they return 0.                                     *)
(***************************************************************************)
Enter(t, mode) ==
    /\ thr[t].pc = "outside"
    /\ thr' = [thr EXCEPT ![t].pc = "loop", ![t].mode = mode]
    /\ UNCHANGED <<loop, ctx, future, fini>>

\* Does the thread call the function again?
Again(T, n) == n > 0 /\ ~T.mode.once

\* Mutant: the queue is left to a thread that sleeps.
LeaveQuiet(S, t, n) ==
    [S EXCEPT !.loop.queue = IF S.thr[t].poll_task THEN Append(@, Poll) ELSE @,
              !.thr[t] = [@ EXCEPT !.poll_task = FALSE, !.task = None,
                                   !.stopped = @ /\ (n > 0 \/ S.thr[t].ctx = None),
                                   !.pc = IF Again(S.thr[t], n) THEN "loop" ELSE "leave"]]

\* What follows the loop of the functions: the polling task is put back, a
\* thread is woken up for what is left, and a thread that executed no task
\* resets its flag and leaves.
Leave(S, t, n) ==
    LET back == [S EXCEPT !.loop.queue = IF S.thr[t].poll_task THEN Append(@, Poll) ELSE @]
        told == CASE S.loop.queue # <<>> -> ev_loop_kill_any(back, TRUE)
                  [] S.loop.queue = <<>> /\ S.thr[t].poll_task -> ev_loop_kill_any(back, FALSE)
                  [] OTHER -> back
    IN  [told EXCEPT !.thr[t] = [@ EXCEPT !.poll_task = FALSE, !.task = None,
                                          !.stopped = @ /\ (n > 0 \/ S.thr[t].ctx = None),
                                          !.pc = IF Again(S.thr[t], n) THEN "loop" ELSE "leave"]]

\* The condition of the loop
Goes(S, t) ==
    LET c == S.thr[t].ctx
    IN  ~S.loop.stopped /\ (c # None => ~S.thr[t].stopped /\ ~S.ctx[c].ready)

\* One turn of the loop, from the test of its condition
Turn(t) ==
    /\ thr[t].pc = "loop"
    /\ LET T == thr[t] IN
       CASE ~Goes(Now, t) -> Becomes(Leave(Now, t, 0))
         [] Goes(Now, t) /\ ev_loop_empty(loop) /\ loop.ntasks = 0 /\ (T.mode.waits => T.ctx # None) ->
               Becomes(ev_loop_do_stop(Now))
         [] OTHER ->
               LET first == IF loop.queue = <<>> THEN None ELSE Head(loop.queue)
                   S == [Now EXCEPT !.loop.queue = IF first = None THEN @ ELSE Tail(@),
                                    !.thr[t].poll_task = @ \/ first = Poll]
                   asleep == S.loop.queue = <<>>
               IN  CASE first \notin {None, Poll} ->
                          Becomes([S EXCEPT !.thr[t].pc = "run", !.thr[t].task = first])
                     [] first \in {None, Poll} /\ T.ctx = None ->
                          Becomes([S EXCEPT !.thr[t].pc = "create"])
                     [] first \in {None, Poll} /\ T.ctx # None
                            /\ Len(loop.polling) < d.npoll ->
                          Becomes([S EXCEPT !.thr[t].pc = "polling",
                                            !.thr[t].kill = ~asleep \/ T.mode.timeout = "null",
                                            !.loop.polling = <<t>> \o @])
                     [] first \in {None, Poll} /\ T.ctx # None
                            /\ Len(loop.polling) >= d.npoll /\ ~asleep ->
                          Becomes(S)
                     [] first \in {None, Poll} /\ T.ctx # None
                            /\ Len(loop.polling) >= d.npoll /\ asleep
                            /\ T.mode.timeout = "null" ->
                          Becomes(Leave(S, t, 0))
                     [] OTHER ->
                          Becomes([S EXCEPT !.thr[t].pc = "waiting", !.thr[t].kill = FALSE,
                                            !.loop.waiting = <<t>> \o @])
    /\ UNCHANGED <<future, fini>>

\* ev_loop_ctx_create(): a context, or none if there is no memory.  The task
\* of a context with a future is submitted to it (ev_future_submit()), and
\* posted at once if the future is ready.
Create(t) ==
    /\ thr[t].pc = "create"
    /\ LET free == {c \in Ctxs : ctx[c].refcnt = 0}
           c == CHOOSE e \in free : TRUE
           W == thr[t].mode.waits
           S == [Now EXCEPT
                    !.thr[t] = [@ EXCEPT !.ctx = c, !.next = "loop",
                                         !.pc = IF W /\ future THEN "fini" ELSE "loop"],
                    !.ctx[c] = [refcnt |-> IF W THEN 2 ELSE 1, ready |-> FALSE,
                                task |-> IF ~W THEN "none" ELSE
                                         IF future THEN "queue" ELSE "future"],
                    !.loop.ntasks = IF W THEN @ + 1 ELSE @]
       IN  Becomes(IF free = {} THEN Leave(Now, t, 0)
                   ELSE IF W /\ future THEN post(S, c) ELSE S)
    /\ UNCHANGED <<future, fini>>

\* ev_exec_on_task_fini() of the thread itself, after such a post: the atomic
\* decrement, and the section under the mutex if that was to 0.
OwnFini(t) ==
    /\ thr[t].pc = "fini"
    /\ loop' = [loop EXCEPT !.ntasks = @ - 1]
    /\ thr' = [thr EXCEPT ![t].pc = IF loop.ntasks = 1 THEN "lock" ELSE thr[t].next]
    /\ UNCHANGED <<ctx, future, fini>>

OwnFiniLock(t) ==
    /\ thr[t].pc = "lock"
    /\ LET S == [Now EXCEPT !.thr[t].pc = thr[t].next]
       IN  Becomes(IF ev_loop_empty(loop) THEN ev_loop_do_stop(S) ELSE S)
    /\ UNCHANGED <<future, fini>>

\* ev_exec_run(): the function of a context (ev_loop_ctx_task_func()) tells the
\* thread that its future is ready, and then drops its reference; any other
\* task returns.
Ran(t) ==
    /\ thr[t].pc = "run"
    /\ LET x == thr[t].task
           u == CHOOSE v \in Threads : thr[v].ctx = x
           tell == x \in Ctxs /\ ctx[x].refcnt > 1 /\ ~thr[u].stopped /\ ~ctx[x].ready
           S == [Now EXCEPT !.thr[t].pc = IF x \in Ctxs THEN "unref" ELSE "ran"]
       IN  Becomes(IF tell THEN ev_loop_ctx_kill([S EXCEPT !.ctx[x].ready = TRUE], u, FALSE) ELSE S)
    /\ UNCHANGED <<future, fini>>

Unref(t) ==
    /\ thr[t].pc = "unref"
    /\ LET x == thr[t].task
       IN  Becomes(ev_loop_ctx_release([Now EXCEPT !.ctx[x].task = "none",
                                                   !.thr[t].pc = "ran"], x))
    /\ UNCHANGED <<future, fini>>

Left(t) == thr[t].pc = "ran" /\ Becomes(Leave(Now, t, 1)) /\ UNCHANGED <<future, fini>>

\* cnd_wait() or ev_poll_wait() returns: it was signalled, timed out, or for
\* no reason (an event, a spurious wake-up).  The thread leaves after an error
\* or a timeout.
Wakes(t, ok) ==
    /\ thr[t].pc \in {"waiting", "polling"}
    /\ ok \/ thr[t].mode.timeout = "some" \/ thr[t].pc = "polling"
    /\ LET S == [Now EXCEPT !.loop.waiting = Without(@, t), !.loop.polling = Without(@, t),
                            !.thr[t].kill = FALSE, !.thr[t].pc = "loop"]
       IN  Becomes(IF ok THEN S ELSE Leave(S, t, 0))
    /\ UNCHANGED <<future, fini>>

\* ev_loop_ctx_destroy(): ev_future_cancel() posts the task of the context if
\* the future still has it,
Cancel(t) ==
    /\ thr[t].pc = "leave"
    /\ LET c == thr[t].ctx
           S == [Now EXCEPT !.thr[t].pc = "release"]
       IN  Becomes(IF c \in Ctxs /\ ctx[c].task = "future"
                   THEN post([S EXCEPT !.ctx[c].task = "queue",
                                       !.thr[t].pc = "fini", !.thr[t].next = "release"], c)
                   ELSE S)
    /\ UNCHANGED <<future, fini>>

\* and the thread drops its reference.
Release(t) ==
    /\ thr[t].pc = "release"
    /\ LET c == thr[t].ctx
           S == [Now EXCEPT !.thr[t] = [NotInLoop EXCEPT !.stopped = thr[t].stopped]]
       IN  Becomes(IF c = None THEN S ELSE ev_loop_ctx_release(S, c))
    /\ UNCHANGED <<future, fini>>

-----------------------------------------------------------------------------
(***************************************************************************)
(* The other functions, called by any thread or task.                      *)
(***************************************************************************)
InUse(x) == x \in ItemsOf(loop.queue) \/ \E t \in Threads : thr[t].task = x

Post(x) == ~InUse(x) /\ Becomes(post(Now, x)) /\ UNCHANGED <<future, fini>>

\* ev_loop_std_exec_impl_abort(), for one task or for all but the polling task
Aborted(xs) ==
    /\ "abort" \in d.calls /\ xs # {} /\ (xs = Real(loop.queue) \cap Tasks \/ Cardinality(xs) = 1)
    /\ xs \subseteq Real(loop.queue) \cap Tasks
    /\ loop' = [loop EXCEPT !.queue = SelectSeq(@, LAMBDA y : y \notin xs)]
    /\ UNCHANGED <<thr, ctx, future, fini>>

\* on_task_init(), and on_task_fini() in two steps: the atomic decrement, and
\* the section under the mutex if it was to 0.
on_task_init ==
    /\ "work" \in d.calls /\ loop.ntasks < MaxWork
    /\ loop' = [loop EXCEPT !.ntasks = @ + 1]
    /\ UNCHANGED <<thr, ctx, future, fini>>

\* The tasks of contexts that are announced
InFuture == {c \in Ctxs : ctx[c].task \in {"future", "posting"}}

on_task_fini ==
    /\ loop.ntasks > Cardinality(InFuture \cup {t \in Threads : thr[t].pc = "fini"})
    /\ fini < MaxWork
    /\ loop' = [loop EXCEPT !.ntasks = @ - 1]
    /\ fini' = fini + (IF loop.ntasks = 1 THEN 1 ELSE 0)
    /\ UNCHANGED <<thr, ctx, future>>

FiniLock ==
    /\ fini > 0 /\ fini' = fini - 1
    /\ Becomes(IF ev_loop_empty(loop) THEN ev_loop_do_stop(Now) ELSE Now)
    /\ UNCHANGED future

\* The future becomes ready (ev_promise_set_release()): it gives up the tasks,
\* and they are posted one by one, each before its on_task_fini().
Ready ==
    /\ ~future /\ future' = TRUE
    /\ \E mode \in d.modes : mode.waits
    /\ ctx' = [c \in Ctxs |-> IF ctx[c].task = "future"
                              THEN [ctx[c] EXCEPT !.task = "posting"] ELSE ctx[c]]
    /\ UNCHANGED <<loop, thr, fini>>

PostCtx(c) ==
    /\ ctx[c].task = "posting"
    /\ Becomes(post([Now EXCEPT !.ctx[c].task = "queue"], c))
    /\ UNCHANGED <<future, fini>>

Stop ==
    /\ "stop" \in d.calls /\ ~loop.stopped
    /\ Becomes(ev_loop_do_stop(Now)) /\ UNCHANGED <<future, fini>>

Restart ==
    /\ loop.stopped /\ loop' = [loop EXCEPT !.stopped = FALSE]
    /\ UNCHANGED <<thr, ctx, future, fini>>

\* ev_loop_kill()
Kill(t) ==
    /\ "kill" \in d.calls /\ ~thr[t].stopped
    /\ Becomes(IF thr[t].ctx # None THEN ev_loop_ctx_kill(Now, t, TRUE)
               ELSE [Now EXCEPT !.thr[t].stopped = TRUE])
    /\ UNCHANGED <<future, fini>>

Steps(t) == Turn(t) \/ Create(t) \/ OwnFini(t) \/ OwnFiniLock(t) \/ Ran(t) \/ Unref(t) \/ Left(t) \/ Cancel(t) \/ Release(t)

LoopNext ==
    /\ \/ \E t \in Threads :
            \/ \E mode \in d.modes : Enter(t, mode)
            \/ Steps(t) \/ (\E ok \in BOOLEAN : Wakes(t, ok)) \/ Kill(t)
       \/ \E x \in d.tasks : Post(x)
       \/ \E xs \in SUBSET d.tasks : Aborted(xs)
       \/ on_task_init \/ on_task_fini \/ FiniLock
       \/ Ready \/ (\E c \in Ctxs : PostCtx(c)) \/ Stop \/ Restart
    /\ UNCHANGED d

LoopSpec == LoopInit /\ [][LoopNext]_loopvars

\* A thread that does not sleep goes on, tasks return, and one that sleeps
\* wakes up when it has been signalled.
LoopProceed(t) == Steps(t) \/ (thr[t].kill /\ Wakes(t, TRUE))

LoopFairness == \A t \in Threads : WF_loopvars(LoopProceed(t) /\ UNCHANGED d)

-----------------------------------------------------------------------------
(***************************************************************************)
(* Properties                                                              *)
(***************************************************************************)
\* The variables have their types.
LoopTypeOK ==
    /\ \A t \in Threads :
         /\ thr[t].pc \in {"outside", "loop", "run", "unref", "ran", "create", "fini", "lock", "polling",
                           "waiting", "leave", "release"}
         /\ thr[t].ctx \in Ctxs \cup {None}
    /\ \A c \in Ctxs : ctx[c] \in [refcnt : 0..2, ready : BOOLEAN,
                                    task : {"none", "future", "posting", "queue"}]
    /\ loop.ntasks \in 0..MaxWork + 2 * Cardinality(Ctxs)

InLoop(t) == thr[t].pc \notin {"outside", "leave", "release"}
Asleep(t) == thr[t].pc \in {"polling", "waiting"} /\ ~thr[t].kill
Awake == \E t \in Threads : InLoop(t) /\ ~Asleep(t)

\* "If not explicitly stopped, these functions will execute pending tasks as
\* long as the event loop has outstanding work" (loop.h): while a task is in
\* the queue of a loop that is not stopped, not every thread in it sleeps.
NoSleepingLoop ==
    ~loop.stopped /\ ~ev_loop_empty(loop) /\ (\E t \in Threads : InLoop(t)) => Awake

\* Without a polling task no wake-up is lost, although only a post to an empty
\* queue wakes a thread up, and only one (ev_loop_std_exec_impl_post(), the end
\* of ev_loop_ctx_wait_one()).
WakeupsKept == ~d.poll_task => NoSleepingLoop

\* There is one polling task, in the queue or in the hands of a thread, and no
\* more threads poll than allowed.
OnePollTask ==
    /\ d.poll_task =>
         Cardinality({i \in DOMAIN loop.queue : loop.queue[i] = Poll})
             + Cardinality({t \in Threads : thr[t].poll_task}) = 1
    /\ Len(loop.polling) <= d.npoll

\* The reference counter of a context counts its thread and its task, so that
\* a context that is used again or freed is known to nobody
\* (ev_loop_ctx_release()), and its assertions hold.
CtxCounted ==
    \A c \in Ctxs :
        ctx[c].refcnt = Cardinality({t \in Threads : thr[t].ctx = c})
                            + (IF ctx[c].task = "none" THEN 0 ELSE 1)

\* A loop that is told to stop, a thread that is interrupted and one whose
\* future is ready do not sleep.
ToldIsAwake ==
    \A t \in Threads :
        InLoop(t) /\ thr[t].ctx # None
            /\ (loop.stopped \/ thr[t].stopped \/ ctx[thr[t].ctx].ready) => ~Asleep(t)

\* A task waits in a loop that is running and has threads.
Neglected(x) ==
    ~d.poll_task /\ ~loop.stopped /\ x \in ItemsOf(loop.queue) /\ \E t \in Threads : InLoop(t)

\* A task that is posted to a loop without polling task is executed, unless it
\* is aborted, the loop is stopped or no thread is left in it.
TasksExecuted == \A x \in Tasks : Neglected(x) ~> ~Neglected(x)

Killed(t) == InLoop(t) /\ thr[t].ctx # None /\ thr[t].stopped

\* A thread with a context that is interrupted with ev_loop_kill() leaves the
\* loop.
KilledLeaves == \A t \in Threads : Killed(t) ~> ~Killed(t)
=============================================================================
