----------------------------- MODULE StopToken -----------------------------
(***************************************************************************)
(* Stop sources and stop tokens (src/lib/util/stop.c): threads register    *)
(* and deregister callback functions with a token while other threads      *)
(* issue stop requests, which invoke the registered functions.  Functions  *)
(* may themselves register and deregister functions.                       *)
(*                                                                         *)
(* What a thread does while it holds the mutex of the token is one step.   *)
(* The reference counters, which keep the object alive, are left out.      *)
(***************************************************************************)
EXTENDS Integers, Sequences, FiniteSets

CONSTANTS Threads, Funcs, None

(***************************************************************************)
(* requested is the least significant bit of the value of the source, thr  *)
(* the thread that has issued the request; queue and func are those of     *)
(* the token.                                                              *)
(*                                                                         *)
(* at[t] is the place of thread t in stop_source_request_stop(): about to  *)
(* lock ("rq"), in a callback function ("cb") or about to lock after it    *)
(* ("end").  op[t] is its place in stop_token_insert() or _remove() with   *)
(* function arg[t]: about to lock ("ins", "rm"), invoking the function     *)
(* itself ("own"), waiting for the condition variable ("wait") or waking   *)
(* up ("woken").                                                           *)
(*                                                                         *)
(* st[f] says what has become of function f: it exists ("new"), is to be   *)
(* registered ("ins") or is registered ("in"), has been invoked ("done")   *)
(* or has been deregistered, after which it may be destroyed ("gone", or   *)
(* "self" if it has done so itself); calls[f] counts its invocations.      *)
(***************************************************************************)
VARIABLES requested, thr, queue, func, at, op, arg, st, calls

StopAssumption == None \notin Threads \cup Funcs

stopVars == <<requested, thr, queue, func, at, op, arg, st, calls>>

StopInit ==
    /\ requested = FALSE /\ thr = None /\ queue = <<>> /\ func = None
    /\ at = [t \in Threads |-> "idle"] /\ op = [t \in Threads |-> "none"] /\ arg = [t \in Threads |-> None]
    /\ st = [f \in Funcs |-> "new"] /\ calls = [f \in Funcs |-> 0]

\* A thread can call a function: it is in none, or in a callback function.
Free(t) == op[t] = "none" /\ at[t] \in {"idle", "cb"}

Enter(t, o, f) == op' = [op EXCEPT ![t] = o] /\ arg' = [arg EXCEPT ![t] = f]
Leave(t) == op' = [op EXCEPT ![t] = "none"] /\ arg' = [arg EXCEPT ![t] = None]

-----------------------------------------------------------------------------
(* stop_source_request_stop().                                             *)

\* The quick check; a callback function that requests a stop returns here.
RequestStop(t) ==
    /\ Free(t) /\ at[t] = "idle" /\ ~requested
    /\ at' = [at EXCEPT ![t] = "rq"]
    /\ UNCHANGED <<requested, thr, queue, func, op, arg, st, calls>>

\* Pop the next function and invoke it, or return.
Invoke(t) ==
    IF queue = <<>>
    THEN at' = [at EXCEPT ![t] = "idle"] /\ func' = None /\ UNCHANGED <<queue, st, calls>>
    ELSE /\ at' = [at EXCEPT ![t] = "cb"] /\ func' = Head(queue) /\ queue' = Tail(queue)
         /\ st' = [st EXCEPT ![Head(queue)] = "done"]
         /\ calls' = [calls EXCEPT ![Head(queue)] = @ + 1]

\* "Check again, in case a stop request was issued before we acquired the lock."
RequestLock(t) ==
    /\ at[t] = "rq" /\ requested' = TRUE
    /\ IF requested THEN at' = [at EXCEPT ![t] = "idle"] /\ UNCHANGED <<thr, queue, func, st, calls>>
       ELSE thr' = t /\ Invoke(t)
    /\ UNCHANGED <<op, arg>>

\* The callback function returns.
CallbackReturns(t) ==
    /\ at[t] = "cb" /\ op[t] = "none" /\ at' = [at EXCEPT ![t] = "end"]
    /\ UNCHANGED <<requested, thr, queue, func, op, arg, st, calls>>

\* Mutant: the thread that waits for the function is not told.
CallbackLockSilent(t) ==
    /\ at[t] = "end" /\ Invoke(t)
    /\ UNCHANGED <<requested, thr, op, arg>>

\* The condition variable wakes one of the threads that wait.
CallbackLock(t) ==
    /\ at[t] = "end" /\ Invoke(t)
    /\ LET waiting == {u \in Threads : op[u] = "wait"}
       IN  IF waiting = {} THEN UNCHANGED op
           ELSE \E u \in waiting : op' = [op EXCEPT ![u] = "woken"]
    /\ UNCHANGED <<requested, thr, arg>>

-----------------------------------------------------------------------------
(* stop_token_insert() and stop_token_remove().                            *)

\* The function is invoked by the calling thread.
Own(t, f) == Enter(t, "own", f) /\ st' = [st EXCEPT ![f] = "done"] /\ calls' = [calls EXCEPT ![f] = @ + 1]

stop_token_insert(t, f) ==
    /\ Free(t) /\ st[f] = "new"
    /\ IF requested THEN Own(t, f)
       ELSE Enter(t, "ins", f) /\ st' = [st EXCEPT ![f] = "ins"] /\ UNCHANGED calls
    /\ UNCHANGED <<requested, thr, queue, func, at>>

\* "Check again, in case a stop request was issued before we acquired the lock."
InsertLock(t) ==
    /\ op[t] = "ins"
    /\ IF requested THEN Own(t, arg[t]) /\ UNCHANGED queue
       ELSE /\ queue' = <<arg[t]>> \o queue /\ st' = [st EXCEPT ![arg[t]] = "in"]
            /\ Leave(t) /\ UNCHANGED calls
    /\ UNCHANGED <<requested, thr, func, at>>

OwnReturns(t) == op[t] = "own" /\ Leave(t) /\ UNCHANGED <<requested, thr, queue, func, at, st, calls>>

\* The application deregisters a function that it has registered, once.
stop_token_remove(t, f) ==
    /\ Free(t) /\ st[f] \in {"in", "done"} /\ \A u \in Threads : arg[u] # f
    /\ Enter(t, "rm", f)
    /\ UNCHANGED <<requested, thr, queue, func, at, st, calls>>

\* A node is in a list at most once.
sllist_remove(s, x) ==
    IF \A i \in 1..Len(s) : s[i] # x THEN s
    ELSE LET i == CHOOSE i \in 1..Len(s) : s[i] = x
         IN  [j \in 1..(Len(s) - 1) |-> IF j < i THEN s[j] ELSE s[j + 1]]

\* A function may deregister itself.
Gone(t) == Leave(t) /\ st' = [st EXCEPT ![arg[t]] = IF func = arg[t] /\ thr = t THEN "self" ELSE "gone"]

\* Mutant: a function that is running is not waited for.
RemoveLockNoWait(t) ==
    /\ op[t] = "rm"
    /\ Gone(t) /\ queue' = sllist_remove(queue, arg[t])
    /\ UNCHANGED <<requested, thr, func, at, calls>>

\* "Only wait for the callback to complete if it is running on another thread."
RemoveLock(t) ==
    /\ op[t] = "rm"
    /\ IF func = arg[t] /\ thr # t THEN op' = [op EXCEPT ![t] = "wait"] /\ UNCHANGED <<arg, st, queue>>
       ELSE Gone(t) /\ queue' = (IF func = arg[t] THEN queue ELSE sllist_remove(queue, arg[t]))
    /\ UNCHANGED <<requested, thr, func, at, calls>>

\* The thread is awake, possibly without having been told.
RemoveWakes(t) ==
    /\ op[t] \in {"wait", "woken"}
    /\ IF func = arg[t] THEN op' = [op EXCEPT ![t] = "wait"] /\ UNCHANGED <<arg, st>> ELSE Gone(t)
    /\ UNCHANGED <<requested, thr, queue, func, at, calls>>

-----------------------------------------------------------------------------
StopStep(t) ==
    \/ RequestStop(t) \/ RequestLock(t) \/ CallbackReturns(t) \/ CallbackLock(t)
    \/ \E f \in Funcs : stop_token_insert(t, f) \/ stop_token_remove(t, f)
    \/ InsertLock(t) \/ OwnReturns(t) \/ RemoveLock(t) \/ RemoveWakes(t)

StopNext == \E t \in Threads : StopStep(t)

\* Threads go on, callback functions return, and a thread that has been told to wakes up.
StopProceed(t) ==
    \/ RequestLock(t) \/ CallbackReturns(t) \/ CallbackLock(t)
    \/ InsertLock(t) \/ OwnReturns(t) \/ RemoveLock(t)
    \/ op[t] = "woken" /\ RemoveWakes(t)

StopSpec == StopInit /\ [][StopNext]_stopVars

StopFairness == \A t \in Threads : WF_stopVars(StopProceed(t))

-----------------------------------------------------------------------------
(* Properties.                                                             *)

StopTypeOK ==
    /\ requested \in BOOLEAN /\ thr \in Threads \cup {None}
    /\ queue \in Seq(Funcs) /\ func \in Funcs \cup {None}
    /\ at \in [Threads -> {"idle", "rq", "cb", "end"}]
    /\ op \in [Threads -> {"none", "ins", "own", "rm", "wait", "woken"}] /\ arg \in [Threads -> Funcs \cup {None}]
    /\ st \in [Funcs -> {"new", "ins", "in", "done", "gone", "self"}] /\ calls \in [Funcs -> Nat]

\* A function is invoked at most once, whichever of stop_token_insert() and
\* stop_source_request_stop() does it, and only one request invokes functions.
CalledOnce ==
    /\ \A f \in Funcs : calls[f] <= 1
    /\ \A t, u \in Threads : {at[t], at[u]} \subseteq {"cb", "end"} => t = u

\* "This function does not return until the callback function invocation is complete":
\* when stop_token_remove() has returned, the function is not registered, and not
\* running unless it is the one that has called stop_token_remove().
RemovedIsQuiet ==
    \A f \in Funcs : st[f] \in {"gone", "self"} =>
        (\A i \in 1..Len(queue) : queue[i] # f) /\ (func = f => st[f] = "self")

Registered(f) == requested /\ st[f] \in {"ins", "in"}

\* A function that is registered is invoked once a stop is requested, unless it is
\* deregistered: none is added to the queue after the request has emptied it.
RegisteredIsCalled == \A f \in Funcs : Registered(f) ~> ~Registered(f)

Removing(t) == op[t] \in {"rm", "wait", "woken"}

\* stop_token_remove() returns: the thread that waits for the function is woken.
RemoveReturns == \A t \in Threads : Removing(t) ~> ~Removing(t)
=============================================================================
