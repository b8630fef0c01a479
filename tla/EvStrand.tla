------------------------------ MODULE EvStrand ------------------------------
(***************************************************************************)
(* The strand executor (src/lib/ev/strand.c): threads submit tasks, and    *)
(* the threads of the inner executor run them one at a time, by running a  *)
(* task of the strand itself, ev_strand_func().                            *)
(*                                                                         *)
(* What a thread does while it holds the mutex of the strand is one step.  *)
(***************************************************************************)
EXTENDS Integers, Sequences, FiniteSets

CONSTANTS Threads, Tasks, None

(***************************************************************************)
(* queue, posted and thr are those of struct ev_strand.  inner says how    *)
(* often the task of the strand is in the queue of the inner executor, and *)
(* ntasks is its number of announced tasks.                                *)
(*                                                                         *)
(* run[t] is the place of thread t in ev_strand_func(): it runs the        *)
(* function of task cur[t] ("func"), calls on_task_fini() ("fini"), takes  *)
(* the lock again ("end") or posts the task of the strand ("post").        *)
(* call[t] is its place in ev_strand_exec_dispatch() or _defer() with task *)
(* arg[t]: both may be called from the function of a task.  fini is the    *)
(* progress of ev_strand_fini().                                           *)
(***************************************************************************)
VARIABLES queue, posted, thr, inner, ntasks, run, cur, call, arg, fini

StrandAssumption == IsFiniteSet(Threads) /\ None \notin Threads \cup Tasks

strandVars == <<queue, posted, thr, inner, ntasks, run, cur, call, arg, fini>>

StrandInit ==
    /\ queue = <<>> /\ posted = FALSE /\ thr = None /\ inner = 0 /\ ntasks = 0
    /\ run = [t \in Threads |-> "idle"] /\ cur = [t \in Threads |-> None]
    /\ call = [t \in Threads |-> "none"] /\ arg = [t \in Threads |-> None]
    /\ fini = "no"

\* A task is submitted again only after it has run or has been aborted.
InUse(x) == \/ \E i \in 1..Len(queue) : queue[i] = x
            \/ \E t \in Threads : x \in {cur[t], arg[t]}

-----------------------------------------------------------------------------
(* ev_strand_exec_dispatch() and ev_strand_exec_defer().                   *)

\* on_task_init().  The application submits no tasks to a strand that it destroys.
Submit(t, x) ==
    /\ call[t] = "none" /\ run[t] \in {"idle", "func"} /\ ~InUse(x) /\ fini = "no"
    /\ call' = [call EXCEPT ![t] = "lock"] /\ arg' = [arg EXCEPT ![t] = x]
    /\ ntasks' = ntasks + 1
    /\ UNCHANGED <<queue, posted, thr, inner, run, cur, fini>>

\* A task that is dispatched by the running task runs at once.
Inline(t) ==
    /\ call[t] = "lock" /\ thr = t
    /\ call' = [call EXCEPT ![t] = "none"] /\ arg' = [arg EXCEPT ![t] = None]
    /\ ntasks' = ntasks - 1
    /\ UNCHANGED <<queue, posted, thr, inner, run, cur, fini>>

\* Mutant: the task is put in front of those that wait.
EnqueueFront(t) ==
    /\ call[t] = "lock"
    /\ queue' = <<arg[t]>> \o queue /\ arg' = [arg EXCEPT ![t] = None]
    /\ call' = [call EXCEPT ![t] = IF posted THEN "none" ELSE "post"]
    /\ posted' = TRUE
    /\ UNCHANGED <<thr, inner, ntasks, run, cur, fini>>

Enqueue(t) ==
    /\ call[t] = "lock"
    /\ queue' = Append(queue, arg[t]) /\ arg' = [arg EXCEPT ![t] = None]
    /\ call' = [call EXCEPT ![t] = IF posted THEN "none" ELSE "post"]
    /\ posted' = TRUE
    /\ UNCHANGED <<thr, inner, ntasks, run, cur, fini>>

PostCall(t) ==
    /\ call[t] = "post" /\ call' = [call EXCEPT ![t] = "none"]
    /\ inner' = inner + 1
    /\ UNCHANGED <<queue, posted, thr, ntasks, run, cur, arg, fini>>

-----------------------------------------------------------------------------
(* ev_strand_func(), run by a thread of the inner executor.                *)

ev_strand_func(t) ==
    /\ inner > 0 /\ run[t] = "idle" /\ call[t] = "none" /\ inner' = inner - 1
    /\ IF queue # <<>>
       THEN /\ queue' = Tail(queue) /\ cur' = [cur EXCEPT ![t] = Head(queue)]
            /\ thr' = t /\ run' = [run EXCEPT ![t] = "func"]
            /\ UNCHANGED posted
       ELSE posted' = FALSE /\ UNCHANGED <<queue, cur, thr, run>>
    /\ UNCHANGED <<ntasks, call, arg, fini>>

\* The function of the task returns.
Return(t) ==
    /\ run[t] = "func" /\ call[t] = "none"
    /\ cur' = [cur EXCEPT ![t] = None] /\ run' = [run EXCEPT ![t] = "fini"]
    /\ UNCHANGED <<queue, posted, thr, inner, ntasks, call, arg, fini>>

Fini(t) ==
    /\ run[t] = "fini" /\ run' = [run EXCEPT ![t] = "end"]
    /\ ntasks' = ntasks - 1
    /\ UNCHANGED <<queue, posted, thr, inner, cur, call, arg, fini>>

End(t) ==
    /\ run[t] = "end" /\ run' = [run EXCEPT ![t] = IF queue = <<>> THEN "idle" ELSE "post"]
    /\ thr' = None /\ posted' = (queue # <<>>)
    /\ UNCHANGED <<queue, inner, ntasks, cur, call, arg, fini>>

PostFunc(t) ==
    /\ run[t] = "post" /\ run' = [run EXCEPT ![t] = "idle"]
    /\ inner' = inner + 1
    /\ UNCHANGED <<queue, posted, thr, ntasks, cur, call, arg, fini>>

-----------------------------------------------------------------------------
(* ev_strand_exec_abort() and ev_strand_fini().                            *)

Without(s, i) == [j \in 1..(Len(s) - 1) |-> IF j < i THEN s[j] ELSE s[j + 1]]

Abort(i) ==
    /\ fini = "no" /\ queue' = Without(queue, i) /\ ntasks' = ntasks - 1
    /\ UNCHANGED <<posted, thr, inner, run, cur, call, arg, fini>>

\* No thread submits tasks, and the strand is not destroyed by one of its tasks.
FiniBegin ==
    /\ fini = "no" /\ \A t \in Threads : call[t] = "none" /\ run[t] # "func"
    /\ fini' = "lock" /\ queue' = <<>> /\ ntasks' = ntasks - Len(queue)
    /\ UNCHANGED <<posted, thr, inner, run, cur, call, arg>>

\* The task of the strand is aborted, or will run.
FiniLock ==
    /\ fini = "lock"
    /\ IF posted /\ inner > 0
       THEN inner' = inner - 1 /\ posted' = FALSE /\ fini' = "done"
       ELSE fini' = (IF posted THEN "wait" ELSE "done") /\ UNCHANGED <<inner, posted>>
    /\ UNCHANGED <<queue, thr, ntasks, run, cur, call, arg>>

FiniWait ==
    /\ fini = "wait" /\ ~posted /\ fini' = "done"
    /\ UNCHANGED <<queue, posted, thr, inner, ntasks, run, cur, call, arg>>

-----------------------------------------------------------------------------
StrandStep(t) ==
    \/ \E x \in Tasks : Submit(t, x)
    \/ Inline(t) \/ Enqueue(t) \/ PostCall(t)
    \/ ev_strand_func(t) \/ Return(t) \/ Fini(t) \/ End(t) \/ PostFunc(t)

StrandNext ==
    \/ \E t \in Threads : StrandStep(t)
    \/ \E i \in 1..Len(queue) : Abort(i)
    \/ FiniBegin \/ FiniLock \/ FiniWait

StrandSpec == StrandInit /\ [][StrandNext]_strandVars

\* Threads go on; task functions return, whatever else they do, and some thread of
\* the inner executor finds the time to run its tasks.
Proceed(t) == Enqueue(t) \/ PostCall(t) \/ Fini(t) \/ End(t) \/ PostFunc(t)
RunInner == \E t \in Threads : ev_strand_func(t)

StrandFairness ==
    /\ \A t \in Threads : WF_strandVars(Proceed(t)) /\ SF_strandVars(Return(t))
    /\ SF_strandVars(RunInner) /\ WF_strandVars(FiniLock \/ FiniWait)

-----------------------------------------------------------------------------
(* Properties.                                                             *)

StrandTypeOK ==
    /\ queue \in Seq(Tasks) /\ posted \in BOOLEAN /\ thr \in Threads \cup {None}
    /\ inner \in Nat /\ ntasks \in Int
    /\ run \in [Threads -> {"idle", "func", "fini", "end", "post"}] /\ cur \in [Threads -> Tasks \cup {None}]
    /\ call \in [Threads -> {"none", "lock", "post"}] /\ arg \in [Threads -> Tasks \cup {None}]
    /\ fini \in {"no", "lock", "wait", "done"}

\* The places at which a thread is responsible for the task of the strand: it runs
\* ev_strand_func(), or it is about to post the task.
Holds(t) == run[t] # "idle" \/ call[t] = "post"

\* The flag posted says that the task of the strand is in the queue of the inner
\* executor or in the hands of one thread, and never in two places at once; it is set
\* while tasks wait.  With it go the three assertions of ev_strand_func(), that no
\* other thread runs a task, that this thread still does and that the flag is set.
OneToken ==
    /\ inner <= 1
    /\ \A t, u \in Threads : Holds(t) /\ Holds(u) => t = u
    /\ \A t \in Threads : /\ Holds(t) => inner = 0
                          /\ ~(run[t] # "idle" /\ call[t] = "post")
                          /\ thr = t <=> run[t] \in {"func", "fini", "end"}
    /\ posted <=> (inner = 1 \/ \E t \in Threads : Holds(t))
    /\ queue # <<>> => posted

\* The number of threads that are at one of a set of places.
Count(place, S) == Cardinality({t \in Threads : place[t] \in S})

\* The inner executor counts every task that has been submitted and has not run or
\* been aborted, so that its loop does not stop while there are any.
TasksCounted == ntasks = Len(queue) + Count(run, {"func", "fini"}) + Count(call, {"lock"})

\* Once ev_strand_fini() has returned, no thread uses the strand and its task is not
\* in the queue of the inner executor.
FiniSafe == fini = "done" => inner = 0 /\ queue = <<>> /\ \A t \in Threads : ~Holds(t) /\ call[t] = "none"

Running == IF thr = None THEN None ELSE cur[thr]
Serial == INSTANCE EvSerial WITH pending <- queue, running <- Running

\* "Tasks run in the order in which they are submitted to a strand, and the invocation
\* of a task function by the strand is never concurrent with that of another task
\* function submitted to the same strand."
ImplementsSerial == Serial!SerialSpec

Waiting(x) == \E i \in 1..Len(queue) : queue[i] = x

\* Every task that waits runs, or is aborted.
TasksRun == \A x \in Tasks : Waiting(x) ~> ~Waiting(x)

Finishing == fini \in {"lock", "wait"}

\* ev_strand_fini() returns.
FiniReturns == Finishing ~> ~Finishing
=============================================================================
