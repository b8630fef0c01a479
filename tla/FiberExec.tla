----------------------------- MODULE FiberExec -----------------------------
(***************************************************************************)
(* The fiber executors of lib/ev/fiber_exec.c, with the mutexes and the    *)
(* condition variables for their fibers.  Each executor e has a thread of  *)
(* its own, which runs the tasks of the inner executor one after the       *)
(* other; such a task is that of a fiber, which resumes it, or the task of *)
(* e itself, which starts a fiber.  Another thread, Outside, has no        *)
(* fibers.  The fibers of all executors share one mutex and one condition  *)
(* variable.                                                               *)
(*                                                                         *)
(* A step is a section under a lock with the computation of the thread     *)
(* after it, up to the next step that another thread can notice.           *)
(***************************************************************************)
EXTENDS Integers, Sequences, FiniteSets

CONSTANTS
    Execs,      \* the executors, and their threads
    Outside,    \* a thread that is not that of an executor
    Fibers,     \* the fibers that each executor can create
    Tasks,      \* the tasks of the user
    None,
    Scenes      \* what is looked at, see scene

VARIABLES
    scene,      \* the tasks that each executor is for, what tasks do and how often,
                \* whether the mutex is recursive, and max_unused
    exec,       \* struct ev_fiber_exec and struct ev_fiber_thrd, and the inner executor
    ctx,        \* struct ev_fiber_ctx, and where the fiber goes on
    mtx,        \* struct ev_fiber_mtx_impl
    cond,       \* the queue of the condition variable
    hand,       \* what a thread is about to post, and the fibers it is about to wake
    task        \* where each task is

fibervars == <<scene, exec, ctx, mtx, cond, hand, task>>

ExecThreads == Execs \cup {Outside}
Ctx == Execs \X Fibers
Of(c) == c[1]
ExecItems == Ctx \cup {<<"exec", e>> : e \in Execs}

FiberAssumption ==
    /\ Outside \notin Execs /\ "exec" \notin Execs /\ None \notin Ctx \cup Tasks
    /\ \A s \in Scenes : /\ s.max_ops \in Nat /\ s.recursive \in BOOLEAN
                         /\ s.max_unused \in Nat \ {0}
                         /\ \A x \in Tasks : s.exec[x] \in Execs \cup {None}

FiberInit ==
    /\ scene \in Scenes
    /\ exec = [e \in Execs |-> [queue |-> <<>>, posted |-> FALSE, pending |-> 0, inner |-> <<>>, curr |-> None,
                                unused |-> {}, new |-> {e} \X Fibers, work |-> 0, fini |-> FALSE]]
    /\ ctx = [c \in Ctx |-> [at |-> "start", task |-> None, defer |-> <<>>, ops |-> 0, held |-> 0]]
    /\ mtx = [owner |-> None, locked |-> 0, queue |-> <<>>]
    /\ cond = <<>>
    /\ hand = [t \in ExecThreads |-> [post |-> <<>>, wake |-> <<>>]]
    /\ task = [x \in Tasks |-> "new"]

-----------------------------------------------------------------------------
(***************************************************************************)
(* Functions of the thread of an executor, on its state x.                 *)
(***************************************************************************)
\* ev_fiber_exec_post_ctx(): a fiber that is unused or new, if there is one, is
\* posted.
PostCtx(x) ==
    LET from == IF x.unused # {} THEN x.unused ELSE x.new
        c    == CHOOSE f \in from : TRUE
    IN  IF from = {} THEN x
        ELSE [x EXCEPT !.unused = @ \ {c}, !.new = @ \ {c}, !.pending = @ + 1, !.inner = Append(@, c)]

\* Mutant: a fiber that is suspended does not look at the queue.
ResumeBlind(x) == [x EXCEPT !.curr = None]

\* ev_fiber_resume(): the running fiber is suspended.
Resume(x) ==
    LET y == [x EXCEPT !.curr = None]
    IN  IF x.pending = 0 /\ x.queue # <<>> THEN PostCtx(y) ELSE y

\* ev_fiber_await(NULL): the fiber goes on after the other tasks.
Yields(x) == LET y == Resume(x) IN [y EXCEPT !.inner = Append(@, x.curr)]

\* ev_fiber_return(): the fiber is kept for later, or destroyed.
ev_fiber_return(x, c) ==
    IF Cardinality(x.unused) < scene.max_unused THEN [x EXCEPT !.curr = None, !.unused = @ \cup {c}]
    ELSE [x EXCEPT !.curr = None, !.new = @ \cup {c}]

\* ev_fiber_exec_func()
ev_fiber_exec_func(x) ==
    LET y == [x EXCEPT !.posted = FALSE, !.inner = Tail(@)] IN IF x.pending = 0 THEN PostCtx(y) ELSE y

\* Nothing is left that thread t has to do before it goes on.
Ready(t) == hand[t].post = <<>> /\ hand[t].wake = <<>>

\* The thread of e is between two tasks of the inner executor, or in a fiber that
\* executes a task.
Idle(e) == exec[e].curr = None /\ Ready(e) /\ ~exec[e].fini
Running(e) == exec[e].curr # None /\ ctx[exec[e].curr].at = "run" /\ Ready(e)
Cur(e) == exec[e].curr

-----------------------------------------------------------------------------
(***************************************************************************)
(* The inner executor runs a task.                                         *)
(***************************************************************************)
RunExec(e) ==
    /\ Idle(e) /\ exec[e].inner # <<>> /\ Head(exec[e].inner) = <<"exec", e>>
    /\ exec' = [exec EXCEPT ![e] = ev_fiber_exec_func(@)]
    /\ UNCHANGED <<scene, ctx, mtx, cond, hand, task>>

\* ev_fiber_ctx_task_func(), and the return of the function that had suspended the
\* fiber: ev_fiber_mtx_lock() and ev_fiber_cnd_wait() find the mutex locked for it.
ev_fiber_ctx_task_func(e) ==
    LET c == Head(exec[e].inner)
    IN  /\ Idle(e) /\ exec[e].inner # <<>> /\ c \in Ctx
        /\ exec' = [exec EXCEPT ![e].curr = c, ![e].inner = Tail(@)]
        /\ ctx' = [ctx EXCEPT ![c].at = IF @ = "start" THEN "start" ELSE "run",
                              ![c].held = IF ctx[c].at = "locked" THEN 1 ELSE @]
        /\ mtx' = IF ctx[c].at = "locked" THEN [mtx EXCEPT !.owner = c] ELSE mtx
        /\ UNCHANGED <<scene, cond, hand, task>>

\* ev_fiber_ctx_fiber_func(): the next task, or the end (ev_fiber_return()).  A
\* fiber in the list of unused ones goes on here as well.
NextTask(e) ==
    LET c == Cur(e)
        q == exec[e].queue
    IN  /\ c # None /\ ctx[c].at = "start"
        /\ IF ctx[c].task # None THEN
             /\ ctx' = [ctx EXCEPT ![c].at = "run", ![c].ops = 0]
             /\ task' = [task EXCEPT ![ctx[c].task] = "run"]
             /\ UNCHANGED exec
           ELSE IF q # <<>> THEN
             /\ exec' = [exec EXCEPT ![e].pending = @ - 1, ![e].queue = Tail(@)]
             /\ ctx' = [ctx EXCEPT ![c].at = "run", ![c].task = Head(q), ![c].ops = 0]
             /\ task' = [task EXCEPT ![Head(q)] = "run"]
           ELSE
             /\ exec' = [exec EXCEPT ![e] = ev_fiber_return([@ EXCEPT !.pending = @ - 1], c)]
             /\ UNCHANGED <<ctx, task>>
        /\ UNCHANGED <<scene, mtx, cond, hand>>

\* The same: the task function returns, and the fiber lets others run.
TaskReturns(e) ==
    LET c == Cur(e)
        d == ctx[c].defer
        x == [exec[e] EXCEPT !.work = @ - 1, !.pending = IF d = <<>> THEN @ + 1 ELSE @]
    IN  /\ Running(e) /\ ctx[c].held = 0
        /\ exec' = [exec EXCEPT ![e] = Yields(x)]
        /\ ctx' = [ctx EXCEPT ![c].at = "start", ![c].task = IF d = <<>> THEN None ELSE Head(d),
                              ![c].defer = IF d = <<>> THEN d ELSE Tail(d)]
        /\ task' = [task EXCEPT ![ctx[c].task] = "done"]
        /\ UNCHANGED <<scene, mtx, cond, hand>>

-----------------------------------------------------------------------------
(***************************************************************************)
(* What a task does; each call counts.                                     *)
(***************************************************************************)
Does(e, op) == op \in scene.does /\ Running(e) /\ ctx[Cur(e)].ops < scene.max_ops
Done(c) == [ctx[c] EXCEPT !.ops = @ + 1]

\* ev_fiber_await() with no future, or with one that becomes ready later
Yield(e) ==
    /\ Does(e, "await")
    /\ exec' = [exec EXCEPT ![e] = Yields(@)]
    /\ ctx' = [ctx EXCEPT ![Cur(e)] = [Done(Cur(e)) EXCEPT !.at = "ready"]]
    /\ UNCHANGED <<scene, mtx, cond, hand, task>>

ev_fiber_await(e) ==
    /\ Does(e, "await")
    /\ exec' = [exec EXCEPT ![e] = Resume(@)]
    /\ ctx' = [ctx EXCEPT ![Cur(e)] = [Done(Cur(e)) EXCEPT !.at = "future"]]
    /\ UNCHANGED <<scene, mtx, cond, hand, task>>

\* The future becomes ready: the task of the fiber is posted.
FutureReady(c) ==
    /\ ctx[c].at = "future"
    /\ ctx' = [ctx EXCEPT ![c].at = "ready"]
    /\ exec' = [exec EXCEPT ![Of(c)].inner = Append(@, c)]
    /\ UNCHANGED <<scene, mtx, cond, hand, task>>

\* ev_fiber_mtx_lock(); ev_fiber_mtx_trylock() is the case that does not wait.
Free == mtx.locked = 0
Mine(c) == mtx.locked > 0 /\ mtx.owner = c

ev_fiber_mtx_trylock(e) ==
    LET c == Cur(e)
    IN  /\ Does(e, "lock")
        /\ Free \/ (Mine(c) /\ scene.recursive)
        /\ mtx' = [mtx EXCEPT !.owner = c, !.locked = @ + 1]
        /\ ctx' = [ctx EXCEPT ![c] = [Done(c) EXCEPT !.held = @ + 1]]
        /\ UNCHANGED <<scene, exec, cond, hand, task>>

\* ev_fiber_mtx_lock_func(): the fiber waits.
ev_fiber_mtx_lock(e) ==
    LET c == Cur(e)
    IN  /\ Does(e, "lock") /\ ~Free /\ ~Mine(c)
        /\ exec' = [exec EXCEPT ![e] = Resume(@)]
        /\ mtx' = [mtx EXCEPT !.queue = Append(@, c)]
        /\ ctx' = [ctx EXCEPT ![c] = [Done(c) EXCEPT !.at = "locked"]]
        /\ UNCHANGED <<scene, cond, hand, task>>

\* The mutex is passed on to the first fiber that waits, which is posted later.
PassOn(m) == IF m.queue = <<>> THEN [m EXCEPT !.owner = None, !.locked = 0]
             ELSE [m EXCEPT !.owner = None, !.locked = 1, !.queue = Tail(@)]
First(m) == IF m.queue = <<>> THEN <<>> ELSE <<Head(m.queue)>>

ev_fiber_mtx_unlock(e) ==
    LET c == Cur(e)
    IN  /\ Running(e) /\ ctx[c].held > 0 /\ Mine(c)
        /\ mtx' = IF mtx.locked > 1 THEN [mtx EXCEPT !.locked = @ - 1] ELSE PassOn(mtx)
        /\ hand' = [hand EXCEPT ![e].post = IF mtx.locked > 1 THEN <<>> ELSE First(mtx)]
        /\ ctx' = [ctx EXCEPT ![c].held = @ - 1]
        /\ UNCHANGED <<scene, exec, cond, task>>

\* ev_fiber_cnd_wait() up to the end of ev_fiber_cnd_wait_func(): in that order the
\* fiber is in the queue before the mutex is free.
ev_fiber_cnd_wait(e) ==
    LET c == Cur(e)
    IN  /\ Does(e, "wait") /\ Mine(c) /\ mtx.locked = 1
        /\ exec' = [exec EXCEPT ![e] = Resume(@)]
        /\ cond' = Append(cond, c)
        /\ mtx' = PassOn(mtx)
        /\ hand' = [hand EXCEPT ![e].post = First(mtx)]
        /\ ctx' = [ctx EXCEPT ![c] = [Done(c) EXCEPT !.at = "locked", !.held = 0]]
        /\ UNCHANGED <<scene, task>>

\* ev_fiber_cnd_signal() and ev_fiber_cnd_broadcast(), of a fiber or of Outside
Signals(t, n) ==
    /\ cond # <<>>
    /\ hand' = [hand EXCEPT ![t].wake = SubSeq(cond, 1, n)]
    /\ cond' = SubSeq(cond, n + 1, Len(cond))

ev_fiber_cnd_signal(e) ==
    /\ Does(e, "signal")
    /\ \E n \in {1, Len(cond)} : Signals(e, n)
    /\ ctx' = [ctx EXCEPT ![Cur(e)] = Done(Cur(e))]
    /\ UNCHANGED <<scene, exec, mtx, task>>

OutsideSignals ==
    /\ Ready(Outside)
    /\ \E n \in {1, Len(cond)} : Signals(Outside, n)
    /\ UNCHANGED <<scene, exec, ctx, mtx, task>>

\* ev_fiber_cnd_wake(): the fiber gets the mutex or waits for it.
ev_fiber_cnd_wake(t) ==
    LET c == Head(hand[t].wake)
    IN  /\ hand[t].wake # <<>> /\ hand[t].post = <<>>
        /\ IF Free THEN /\ mtx' = [mtx EXCEPT !.locked = 1]
                        /\ hand' = [hand EXCEPT ![t] = [post |-> <<c>>, wake |-> Tail(@.wake)]]
           ELSE /\ mtx' = [mtx EXCEPT !.queue = Append(@, c)]
                /\ hand' = [hand EXCEPT ![t].wake = Tail(@)]
        /\ UNCHANGED <<scene, exec, ctx, cond, task>>

\* The call of ev_exec_post() after an unlock
Posts(t) ==
    /\ hand[t].post # <<>>
    /\ LET i == Head(hand[t].post)
           e == IF i \in Ctx THEN Of(i) ELSE i[2]
       IN  exec' = [exec EXCEPT ![e].inner = Append(@, i)]
    /\ hand' = [hand EXCEPT ![t].post = Tail(@)]
    /\ UNCHANGED <<scene, ctx, mtx, cond, task>>

-----------------------------------------------------------------------------
(***************************************************************************)
(* Submitting and aborting tasks.                                          *)
(***************************************************************************)
\* ev_fiber_exec_post() by the thread of the executor: a fiber of it, or a task
\* between two fibers
ev_fiber_exec_post(e, x) ==
    /\ task[x] = "new" /\ scene.exec[x] = e /\ ~exec[e].fini
    /\ \/ Idle(e) /\ UNCHANGED ctx
       \/ Does(e, "post") /\ ctx' = [ctx EXCEPT ![Cur(e)] = Done(Cur(e))]
    /\ LET y == [exec[e] EXCEPT !.queue = Append(@, x), !.work = @ + 1]
       IN  exec' = [exec EXCEPT ![e] = IF y.pending = 0 THEN PostCtx(y) ELSE y]
    /\ task' = [task EXCEPT ![x] = "queue"]
    /\ UNCHANGED <<scene, mtx, cond, hand>>

\* By another thread: the task of the executor is posted later.
PostFrom(t, e, x) ==
    /\ task[x] = "new" /\ scene.exec[x] = e /\ ~exec[e].fini
    /\ t # e
    /\ \/ t = Outside /\ Ready(t) /\ UNCHANGED ctx
       \/ t \in Execs /\ Does(t, "post") /\ ctx' = [ctx EXCEPT ![Cur(t)] = Done(Cur(t))]
    /\ exec' = [exec EXCEPT ![e].queue = Append(@, x), ![e].work = @ + 1, ![e].posted = TRUE]
    /\ hand' = [hand EXCEPT ![t].post = IF exec[e].posted THEN <<>> ELSE <<<<"exec", e>>>>]
    /\ task' = [task EXCEPT ![x] = "queue"]
    /\ UNCHANGED <<scene, mtx, cond>>

\* ev_fiber_exec_defer() of a fiber of the executor
ev_fiber_exec_defer(e, x) ==
    LET c == Cur(e)
    IN  /\ Does(e, "defer") /\ task[x] = "new" /\ scene.exec[x] = e
        /\ exec' = [exec EXCEPT ![e].work = @ + 1]
        /\ ctx' = [ctx EXCEPT ![c] = [Done(c) EXCEPT !.defer = Append(@, x)]]
        /\ task' = [task EXCEPT ![x] = "defer"]
        /\ UNCHANGED <<scene, mtx, cond, hand>>

\* ev_fiber_exec_dispatch() of a fiber of the executor: the task is executed.
ev_fiber_exec_dispatch(e, x) ==
    /\ Does(e, "dispatch") /\ task[x] = "new" /\ scene.exec[x] = e
    /\ ctx' = [ctx EXCEPT ![Cur(e)] = Done(Cur(e))]
    /\ task' = [task EXCEPT ![x] = "done"]
    /\ UNCHANGED <<scene, exec, mtx, cond, hand>>

\* ev_fiber_exec_abort(), of tasks xs of executor e by thread t: those in the queue,
\* and those deferred by the calling fiber
Without(q, xs) == SelectSeq(q, LAMBDA x : x \notin xs)
Elems(q) == {q[i] : i \in 1..Len(q)}

Aborted(t, e, xs) ==
    (Elems(exec[e].queue) \cup (IF t = e /\ Cur(e) # None THEN Elems(ctx[Cur(e)].defer) ELSE {})) \cap xs

ev_fiber_exec_abort(t, e, xs) ==
    LET a == Aborted(t, e, xs)
    IN  /\ "abort" \in scene.does /\ a # {}
        /\ \/ t = Outside /\ Ready(t) /\ UNCHANGED ctx
           \/ t = e /\ Does(e, "abort") /\ ctx' = [ctx EXCEPT ![Cur(e)] = [Done(Cur(e)) EXCEPT !.defer = Without(@, a)]]
        /\ exec' = [exec EXCEPT ![e].queue = Without(@, a), ![e].work = @ - Cardinality(a)]
        /\ task' = [x \in Tasks |-> IF x \in a THEN "aborted" ELSE task[x]]
        /\ UNCHANGED <<scene, mtx, cond, hand>>

\* ev_fiber_exec_fini(), when nobody else uses the executor and its fibers have ended
ev_fiber_exec_fini(e) ==
    LET a == Elems(exec[e].queue)
        i == <<"exec", e>>
    IN  /\ Idle(e)
        /\ \A t \in ExecThreads : i \notin Elems(hand[t].post)
        /\ \A f \in Fibers : <<e, f>> \in exec[e].unused \cup exec[e].new
        /\ exec' = [exec EXCEPT ![e] = [@ EXCEPT !.queue = <<>>, !.work = @ - Cardinality(a), !.fini = TRUE,
                                                 !.posted = @ /\ i \notin Elems(exec[e].inner),
                                                 !.inner = IF exec[e].posted THEN Without(@, {i}) ELSE @]]
        /\ task' = [x \in Tasks |-> IF x \in a THEN "aborted" ELSE task[x]]
        /\ UNCHANGED <<scene, ctx, mtx, cond, hand>>

-----------------------------------------------------------------------------
\* A thread goes on with what it has to do.
FiberProceed(t) ==
    \/ Posts(t) \/ ev_fiber_cnd_wake(t)
    \/ /\ t \in Execs
       /\ RunExec(t) \/ ev_fiber_ctx_task_func(t) \/ NextTask(t) \/ TaskReturns(t) \/ ev_fiber_mtx_unlock(t)
    \/ t = Outside /\ OutsideSignals

FiberNext ==
    \/ \E e \in Execs :
          \/ Yield(e) \/ ev_fiber_await(e) \/ ev_fiber_mtx_trylock(e) \/ ev_fiber_mtx_lock(e)
          \/ ev_fiber_cnd_wait(e) \/ ev_fiber_cnd_signal(e) \/ ev_fiber_exec_fini(e)
          \/ \E x \in Tasks :
                \/ ev_fiber_exec_post(e, x) \/ ev_fiber_exec_defer(e, x) \/ ev_fiber_exec_dispatch(e, x)
                \/ \E t \in ExecThreads : PostFrom(t, e, x)
          \/ \E t \in {e, Outside} : \E xs \in {Tasks} \cup {{x} : x \in Tasks} : ev_fiber_exec_abort(t, e, xs)
    \/ \E t \in ExecThreads : FiberProceed(t)
    \/ \E c \in Ctx : FutureReady(c)

-----------------------------------------------------------------------------
FiberTypeOK ==
    /\ scene \in Scenes
    /\ \A e \in Execs :
          LET x == exec[e]
          IN  /\ Elems(x.queue) \subseteq Tasks /\ x.posted \in BOOLEAN /\ x.pending \in 0..Cardinality(Fibers)
              /\ Elems(x.inner) \subseteq ExecItems /\ x.curr \in {e} \X Fibers \cup {None}
              /\ x.unused \subseteq {e} \X Fibers /\ x.new \subseteq {e} \X Fibers
              /\ x.work \in Nat /\ x.fini \in BOOLEAN
    /\ \A c \in Ctx :
          LET f == ctx[c]
          IN  /\ f.at \in {"start", "run", "ready", "future", "locked"} /\ f.task \in Tasks \cup {None}
              /\ Elems(f.defer) \subseteq Tasks /\ f.ops \in 0..scene.max_ops /\ f.held \in Nat
    /\ mtx.owner \in Ctx \cup {None} /\ mtx.locked \in Nat /\ Elems(mtx.queue) \subseteq Ctx
    /\ Elems(cond) \subseteq Ctx
    /\ \A t \in ExecThreads : Elems(hand[t].post) \subseteq ExecItems /\ Elems(hand[t].wake) \subseteq Ctx
    /\ \A x \in Tasks : task[x] \in {"new", "queue", "defer", "run", "done", "aborted"}

\* How often i is in a sequence, and in the hands of the threads
Times(q, i) == Cardinality({k \in 1..Len(q) : q[k] = i})
InHand(i) == {t \in ExecThreads : i \in Elems(hand[t].post)}
B(p) == IF p THEN 1 ELSE 0

\* The places where the task of a fiber, or the fiber itself, can be
Places(c) ==
    LET x == exec[Of(c)]
    IN  Times(x.inner, c) + B(x.curr = c) + B(c \in x.unused) + B(c \in x.new) + B(ctx[c].at = "future")
            + Times(mtx.queue, c) + Times(cond, c) + Cardinality(InHand(c))
            + Cardinality({t \in ExecThreads : c \in Elems(hand[t].wake)})

\* A fiber is in one place: whoever has its task can post it, since nobody else can
\* have posted it, queued it or be running it.
OnePlace == \A c \in Ctx : Places(c) = 1

\* The fiber to which the mutex has been passed on, and that has not run since
Heirs == {c \in Ctx : ctx[c].at = "locked" /\ (InHand(c) # {} \/ Times(exec[Of(c)].inner, c) > 0)}

\* At most one fiber holds the mutex or is about to, and nobody waits for a mutex
\* that is free (the assertions of ev_fiber_mtx_lock(), ev_fiber_mtx_unlock() and
\* ev_fiber_cnd_wait()).
MutexExcludes ==
    /\ mtx.locked = 0 => mtx.owner = None /\ mtx.queue = <<>>
    /\ \A c \in Ctx : ctx[c].held = IF mtx.owner = c THEN mtx.locked ELSE 0
    /\ Cardinality(Heirs) = B(mtx.locked > 0 /\ mtx.owner = None)
    /\ Heirs # {} => mtx.locked = 1
    /\ mtx.locked > 1 => scene.recursive

\* The fibers that will look for a task are counted; a task in the queue has such a
\* fiber, or the thread will look again, or every fiber is in use and takes it when
\* it is done.
LooksFor(c) == ctx[c].at = "start" /\ ctx[c].task = None /\ c \notin exec[Of(c)].unused \cup exec[Of(c)].new

Attended ==
    \A e \in Execs :
        LET x == exec[e]
            i == <<"exec", e>>
        IN  /\ x.pending = Cardinality({c \in Ctx : Of(c) = e /\ LooksFor(c)})
            /\ Times(x.inner, i) + Cardinality(InHand(i)) = B(x.posted)
            /\ x.queue # <<>> => x.pending > 0 \/ x.posted \/ x.curr # None \/ x.unused \cup x.new = {}

\* A task is in one place, is counted by the executor that was told of it, and is
\* left nowhere when the executor has been finished.
TasksKept ==
    /\ \A x \in Tasks :
          /\ B(task[x] = "queue") = IF scene.exec[x] = None THEN 0 ELSE Times(exec[scene.exec[x]].queue, x)
          /\ Cardinality({c \in Ctx : x = ctx[c].task \/ x \in Elems(ctx[c].defer)}) = B(task[x] \in {"defer", "run"})
    /\ \A e \in Execs :
          /\ exec[e].work = Cardinality({x \in Tasks : scene.exec[x] = e /\ task[x] \in {"queue", "defer", "run"}})
          /\ exec[e].fini => exec[e].work = 0 /\ ~exec[e].posted /\ exec[e].inner = <<>>

=============================================================================
