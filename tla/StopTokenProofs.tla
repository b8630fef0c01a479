--------------------------- MODULE StopTokenProofs --------------------------
(***************************************************************************)
(* Proofs about StopToken, for any number of threads and functions: a      *)
(* function is invoked at most once, and is quiet after                    *)
(* stop_token_remove().                                                    *)
(***************************************************************************)
EXTENDS StopToken, TLAPS

\* Only the thread of the first request invokes the functions of the queue, and
\* func is the one it is at.
RequestInv ==
    /\ \A t \in Threads : at[t] \in {"cb", "end"} => thr = t /\ func # None
    /\ func # None => thr # None /\ st[func] \in {"done", "self"}
    /\ ~requested => thr = None

\* What is known of the function with which a thread has called stop_token_insert()
\* or stop_token_remove(): no other thread has it.
ArgInv ==
    /\ \A t \in Threads :
         /\ op[t] = "none" <=> arg[t] = None
         /\ op[t] = "ins" => st[arg[t]] = "ins"
         /\ op[t] = "own" => st[arg[t]] = "done"
         /\ op[t] = "rm" => st[arg[t]] \in {"in", "done"}
         /\ op[t] \in {"wait", "woken"} => st[arg[t]] = "done"
    /\ \A t, u \in Threads : arg[t] = arg[u] /\ arg[t] # None => t = u

\* The queue holds functions that are registered, each of them once, and they have
\* not been invoked.
QueueInv ==
    /\ \A i \in 1..Len(queue) : st[queue[i]] = "in"
    /\ \A i, j \in 1..Len(queue) : queue[i] = queue[j] => i = j
    /\ \A f \in Funcs : /\ st[f] \in {"new", "ins", "in"} => calls[f] = 0
                        /\ calls[f] <= 1

StopInv == StopTypeOK /\ RequestInv /\ ArgInv /\ QueueInv

-----------------------------------------------------------------------------
\* The invariant implies the properties.
LEMMA StopInvSafe ==
    ASSUME StopAssumption, StopInv
    PROVE  CalledOnce /\ RemovedIsQuiet
<1>1. CalledOnce
    BY DEF StopInv, RequestInv, QueueInv, CalledOnce
<1>2. ASSUME NEW f \in Funcs, st[f] \in {"gone", "self"}
      PROVE  /\ \A i \in 1..Len(queue) : queue[i] # f
             /\ func = f => st[f] = "self"
  <2>1. \A i \in 1..Len(queue) : queue[i] # f
      BY <1>2 DEF StopInv, QueueInv
  <2>2. func = f => st[f] = "self"
    <3>1. func = f => func # None
        BY <1>2 DEF StopAssumption
    <3> QED
        BY <1>2, <3>1 DEF StopInv, RequestInv
  <2> QED
      BY <2>1, <2>2
<1> QED
    BY <1>1, <1>2 DEF RemovedIsQuiet

\* The invariant holds initially.
LEMMA StopInvInit ==
    ASSUME StopAssumption, StopInit
    PROVE  StopInv
<1>1. StopTypeOK
  <2>1. queue \in Seq(Funcs) /\ calls \in [Funcs -> Nat]
      BY DEF StopInit
  <2> QED
      BY <2>1, Zenon DEF StopInit, StopTypeOK
<1> QED
    BY <1>1 DEF StopAssumption, StopInit, StopInv, RequestInv, ArgInv, QueueInv

-----------------------------------------------------------------------------
(* What the steps do to the queue.                                         *)

\* The queue without its first function.
LEMMA QueueTail ==
    ASSUME StopTypeOK, QueueInv, queue # <<>>
    PROVE  /\ Head(queue) \in Funcs /\ st[Head(queue)] = "in"
           /\ Tail(queue) \in Seq(Funcs)
           /\ \A i \in 1..Len(Tail(queue)) :
                Tail(queue)[i] # Head(queue) /\ st[Tail(queue)[i]] = "in"
           /\ \A i, j \in 1..Len(Tail(queue)) :
                Tail(queue)[i] = Tail(queue)[j] => i = j
<1>1. /\ Head(queue) = queue[1] /\ Len(queue) \in Nat /\ Len(queue) >= 1
      /\ Tail(queue) \in Seq(Funcs) /\ Len(Tail(queue)) = Len(queue) - 1
      /\ \A i \in 1..Len(Tail(queue)) : Tail(queue)[i] = queue[i + 1]
    BY DEF StopTypeOK
<1>2. \A i \in 1..Len(Tail(queue)) : i + 1 \in 1..Len(queue) /\ i + 1 # 1
    BY <1>1
<1>3. \A i \in 1..Len(queue) : queue[i] \in Funcs
    BY DEF StopTypeOK
<1> QED
    BY <1>1, <1>2, <1>3 DEF QueueInv

\* The queue with a function in front that was not registered.
LEMMA QueuePush ==
    ASSUME StopTypeOK, QueueInv, NEW f \in Funcs, st[f] # "in"
    PROVE  /\ <<f>> \o queue \in Seq(Funcs)
           /\ \A i \in 1..Len(<<f>> \o queue) :
                (<<f>> \o queue)[i] = f \/ st[(<<f>> \o queue)[i]] = "in"
           /\ \A i, j \in 1..Len(<<f>> \o queue) :
                (<<f>> \o queue)[i] = (<<f>> \o queue)[j] => i = j
<1> DEFINE q == <<f>> \o queue
<1>1. /\ q \in Seq(Funcs) /\ Len(q) = Len(queue) + 1 /\ Len(queue) \in Nat
      /\ q[1] = f /\ \A i \in 1..Len(q) : i # 1 => q[i] = queue[i - 1]
    BY DEF StopTypeOK
<1> HIDE DEF q
<1>2. \A i \in 1..Len(q) : i # 1 => i - 1 \in 1..Len(queue)
    BY <1>1
<1>3. \A i \in 1..Len(q) : i # 1 => st[q[i]] = "in"
    BY <1>1, <1>2 DEF QueueInv
<1>4. ASSUME NEW i \in 1..Len(q), NEW j \in 1..Len(q), q[i] = q[j]
      PROVE  i = j
  <2>1. CASE i = 1 \/ j = 1
      BY <1>1, <1>3, <1>4, <2>1
  <2>2. CASE i # 1 /\ j # 1
    <3>1. i - 1 = j - 1
        BY <1>1, <1>2, <1>4, <2>2 DEF QueueInv
    <3> QED
        BY <1>1, <3>1
  <2> QED
      BY <2>1, <2>2
<1> QED
    BY <1>1, <1>3, <1>4 DEF q

\* The queue from which a function has been removed.
LEMMA QueueRemove ==
    ASSUME StopTypeOK, QueueInv, NEW x
    PROVE  /\ sllist_remove(queue, x) \in Seq(Funcs)
           /\ \A i \in 1..Len(sllist_remove(queue, x)) :
                /\ sllist_remove(queue, x)[i] # x
                /\ st[sllist_remove(queue, x)[i]] = "in"
           /\ \A i, j \in 1..Len(sllist_remove(queue, x)) :
                sllist_remove(queue, x)[i] = sllist_remove(queue, x)[j] => i = j
<1>q. queue \in Seq(Funcs) /\ Len(queue) \in Nat
    BY DEF StopTypeOK
<1>1. CASE \A i \in 1..Len(queue) : queue[i] # x
    BY <1>q, <1>1 DEF sllist_remove, QueueInv
<1>2. CASE ~ \A i \in 1..Len(queue) : queue[i] # x
  <2> DEFINE k == CHOOSE i \in 1..Len(queue) : queue[i] = x
             q == [j \in 1..(Len(queue) - 1) |-> IF j < k THEN queue[j] ELSE queue[j + 1]]
             h(j) == IF j < k THEN j ELSE j + 1
  <2>1. k \in 1..Len(queue) /\ queue[k] = x
      BY <1>2
  <2>2. sllist_remove(queue, x) = q
      BY <1>2 DEF sllist_remove
  <2> HIDE DEF k
  <2>3. q \in [1..(Len(queue) - 1) -> Funcs] /\ Len(queue) - 1 \in Nat
      BY <1>q, <2>1
  <2>4. q \in Seq(Funcs) /\ Len(q) = Len(queue) - 1
      BY <2>3
  <2>5. \A j \in 1..Len(q) : h(j) \in 1..Len(queue) /\ h(j) # k /\ q[j] = queue[h(j)]
      BY <1>q, <2>1, <2>4
  <2>6. \A i, j \in 1..Len(q) : h(i) = h(j) => i = j
      BY <1>q, <2>1, <2>4
  <2> HIDE DEF q, h
  <2> QED
      BY <2>1, <2>2, <2>4, <2>5, <2>6 DEF QueueInv
<1> QED
    BY <1>1, <1>2

-----------------------------------------------------------------------------
LEMMA Inv_RequestStop ==
    ASSUME StopAssumption, StopInv, NEW t \in Threads, RequestStop(t)
    PROVE  StopInv'
<1> USE DEF RequestStop, Free, StopInv
<1>1. StopTypeOK'
    BY DEF StopTypeOK
<1>2. RequestInv'
    BY DEF StopAssumption, StopTypeOK, RequestInv
<1>3. ArgInv'
    BY DEF StopAssumption, StopTypeOK, ArgInv
<1>4. QueueInv'
    BY DEF StopTypeOK, QueueInv
<1> QED
    BY <1>1, <1>2, <1>3, <1>4

LEMMA Inv_CallbackReturns ==
    ASSUME StopAssumption, StopInv, NEW t \in Threads, CallbackReturns(t)
    PROVE  StopInv'
<1> USE DEF CallbackReturns, StopInv
<1>1. StopTypeOK'
    BY DEF StopTypeOK
<1>2. RequestInv'
    BY DEF StopAssumption, StopTypeOK, RequestInv
<1>3. ArgInv'
    BY DEF StopAssumption, StopTypeOK, ArgInv
<1>4. QueueInv'
    BY DEF StopTypeOK, QueueInv
<1> QED
    BY <1>1, <1>2, <1>3, <1>4

LEMMA Inv_OwnReturns ==
    ASSUME StopAssumption, StopInv, NEW t \in Threads, OwnReturns(t)
    PROVE  StopInv'
<1> USE DEF OwnReturns, Leave, StopInv
<1>1. StopTypeOK'
    BY DEF StopTypeOK
<1>2. RequestInv'
    BY DEF StopAssumption, StopTypeOK, RequestInv
<1>3. ArgInv'
    BY DEF StopAssumption, StopTypeOK, ArgInv
<1>4. QueueInv'
    BY DEF StopTypeOK, QueueInv
<1> QED
    BY <1>1, <1>2, <1>3, <1>4

LEMMA Inv_stop_token_insert ==
    ASSUME StopAssumption, StopInv, NEW t \in Threads, NEW f \in Funcs,
           stop_token_insert(t, f)
    PROVE  StopInv'
<1> USE DEF StopInv
<1>1. Free(t) /\ st[f] = "new" /\ UNCHANGED <<requested, thr, queue, func, at>>
    BY DEF stop_token_insert
<1>2. /\ \A u \in Threads : arg[u] # f
      /\ calls[f] = 0 /\ \A i \in 1..Len(queue) : queue[i] # f
  <2>1. ASSUME NEW u \in Threads
        PROVE  arg[u] # f
      BY <1>1 DEF StopAssumption, StopTypeOK, ArgInv
  <2> QED
      BY <1>1, <2>1 DEF StopTypeOK, QueueInv
<1>3. CASE requested
  <2>1. /\ op' = [op EXCEPT ![t] = "own"] /\ arg' = [arg EXCEPT ![t] = f]
        /\ st' = [st EXCEPT ![f] = "done"] /\ calls' = [calls EXCEPT ![f] = calls[f] + 1]
      BY <1>3 DEF stop_token_insert, Own, Enter
  <2>2. StopTypeOK'
      BY <1>1, <2>1 DEF StopTypeOK
  <2>3. RequestInv'
      BY <1>1, <2>1 DEF StopAssumption, StopTypeOK, RequestInv
  <2>4. ArgInv'
      BY <1>1, <1>2, <2>1 DEF StopAssumption, StopTypeOK, ArgInv
  <2>5. QueueInv'
      BY <1>1, <1>2, <2>1 DEF StopTypeOK, QueueInv
  <2> QED
      BY <2>2, <2>3, <2>4, <2>5
<1>4. CASE ~requested
  <2>1. /\ op' = [op EXCEPT ![t] = "ins"] /\ arg' = [arg EXCEPT ![t] = f]
        /\ st' = [st EXCEPT ![f] = "ins"] /\ calls' = calls
      BY <1>4 DEF stop_token_insert, Enter
  <2>2. StopTypeOK'
      BY <1>1, <2>1 DEF StopTypeOK
  <2>3. RequestInv'
      BY <1>1, <2>1 DEF StopAssumption, StopTypeOK, RequestInv
  <2>4. ArgInv'
      BY <1>1, <1>2, <2>1 DEF StopAssumption, StopTypeOK, ArgInv
  <2>5. QueueInv'
      BY <1>1, <1>2, <2>1 DEF StopTypeOK, QueueInv
  <2> QED
      BY <2>2, <2>3, <2>4, <2>5
<1> QED
    BY <1>3, <1>4

LEMMA Inv_stop_token_remove ==
    ASSUME StopAssumption, StopInv, NEW t \in Threads, NEW f \in Funcs, stop_token_remove(t, f)
    PROVE  StopInv'
<1> USE DEF stop_token_remove, Free, Enter, StopInv
<1>1. StopTypeOK'
    BY DEF StopTypeOK
<1>2. RequestInv'
    BY DEF StopAssumption, StopTypeOK, RequestInv
<1>3. ArgInv'
    BY DEF StopAssumption, StopTypeOK, ArgInv
<1>4. QueueInv'
    BY DEF StopTypeOK, QueueInv
<1> QED
    BY <1>1, <1>2, <1>3, <1>4

\* The thread of the request invokes the next function, or has invoked all of them.
LEMMA InvokeInv ==
    ASSUME StopAssumption, StopInv, NEW t \in Threads, Invoke(t),
           \A u \in Threads : at[u] \in {"cb", "end"} => u = t,
           thr' = t, requested' = TRUE, arg' = arg
    PROVE  /\ queue' \in Seq(Funcs) /\ func' \in Funcs \cup {None}
           /\ at' \in [Threads -> {"idle", "rq", "cb", "end"}]
           /\ st' \in [Funcs -> {"new", "ins", "in", "done", "gone", "self"}]
           /\ calls' \in [Funcs -> Nat]
           /\ RequestInv' /\ QueueInv'
           /\ \A f \in Funcs : st'[f] = st[f] \/ (st[f] = "in" /\ st'[f] = "done")
<1> USE DEF StopInv
<1>t. /\ queue \in Seq(Funcs) /\ at \in [Threads -> {"idle", "rq", "cb", "end"}]
      /\ st \in [Funcs -> {"new", "ins", "in", "done", "gone", "self"}]
      /\ calls \in [Funcs -> Nat] /\ None \notin Threads /\ None \notin Funcs
    BY DEF StopTypeOK, StopAssumption
<1>1. CASE queue = <<>>
  <2>1. /\ at' = [at EXCEPT ![t] = "idle"] /\ func' = None
        /\ queue' = queue /\ st' = st /\ calls' = calls
      BY <1>1 DEF Invoke
  <2>2. RequestInv'
      BY <1>t, <2>1 DEF RequestInv
  <2>3. QueueInv'
      BY <2>1 DEF QueueInv
  <2>4. at' \in [Threads -> {"idle", "rq", "cb", "end"}]
      BY <1>t, <2>1
  <2> QED
      BY <1>t, <2>1, <2>2, <2>3, <2>4, None \in Funcs \cup {None}, Zenon
<1>2. CASE queue # <<>>
  <2> DEFINE h == Head(queue)
             q == Tail(queue)
  <2>1. /\ h \in Funcs /\ st[h] = "in" /\ q \in Seq(Funcs)
        /\ \A i \in 1..Len(q) : q[i] # h /\ st[q[i]] = "in"
        /\ \A i, j \in 1..Len(q) : q[i] = q[j] => i = j
      BY <1>2, QueueTail
  <2>2. /\ at' = [at EXCEPT ![t] = "cb"] /\ func' = h /\ queue' = q
        /\ st' = [st EXCEPT ![h] = "done"]
        /\ calls' = [calls EXCEPT ![h] = calls[h] + 1]
      BY <1>2 DEF Invoke
  <2> HIDE DEF h, q
  <2>3. /\ st'[h] = "done" /\ \A f \in Funcs : f # h => st'[f] = st[f]
        /\ calls'[h] = calls[h] + 1
        /\ \A f \in Funcs : f # h => calls'[f] = calls[f]
        /\ at'[t] = "cb" /\ \A u \in Threads : u # t => at'[u] = at[u]
      BY <1>t, <2>1, <2>2
  <2>4. RequestInv'
      BY <1>t, <2>1, <2>2, <2>3 DEF RequestInv
  <2>5. calls[h] = 0
      BY <2>1 DEF QueueInv
  <2>6. \A i \in 1..Len(q) : q[i] \in Funcs
      BY <2>1
  <2>7. QueueInv'
      BY <1>t, <2>1, <2>2, <2>3, <2>5, <2>6 DEF QueueInv
  <2>8. /\ at' \in [Threads -> {"idle", "rq", "cb", "end"}]
        /\ st' \in [Funcs -> {"new", "ins", "in", "done", "gone", "self"}]
        /\ calls' \in [Funcs -> Nat]
      BY <1>t, <2>1, <2>2
  <2>9. queue' \in Seq(Funcs) /\ func' \in Funcs
      BY <2>1, <2>2
  <2>10. ASSUME NEW f \in Funcs
         PROVE  st'[f] = st[f] \/ (st[f] = "in" /\ st'[f] = "done")
    <3>1. CASE f = h
        BY <2>1, <2>3, <3>1
    <3>2. CASE f # h
        BY <2>3, <3>2
    <3> QED
        BY <3>1, <3>2
  <2> QED
      BY <2>4, <2>7, <2>8, <2>9, <2>10, Zenon
<1> QED
    BY <1>1, <1>2

LEMMA Inv_RequestLock ==
    ASSUME StopAssumption, StopInv, NEW t \in Threads, RequestLock(t)
    PROVE  StopInv'
<1> USE DEF StopInv
<1>1. CASE requested
  <2>1. /\ at[t] = "rq" /\ requested' = TRUE /\ at' = [at EXCEPT ![t] = "idle"]
        /\ UNCHANGED <<thr, queue, func, st, calls, op, arg>>
      BY <1>1 DEF RequestLock
  <2>2. StopTypeOK'
      BY <2>1 DEF StopTypeOK
  <2>3. RequestInv' /\ ArgInv' /\ QueueInv'
      BY <1>1, <2>1 DEF StopTypeOK, RequestInv, ArgInv, QueueInv
  <2> QED
      BY <2>2, <2>3
<1>2. CASE ~requested
  <2>1. Invoke(t) /\ thr' = t /\ requested' = TRUE /\ op' = op /\ arg' = arg
      BY <1>2 DEF RequestLock
  <2>2. \A u \in Threads : at[u] \in {"cb", "end"} => u = t
      BY <1>2 DEF RequestInv, StopAssumption
  <2>3. /\ queue' \in Seq(Funcs) /\ func' \in Funcs \cup {None}
        /\ at' \in [Threads -> {"idle", "rq", "cb", "end"}]
        /\ st' \in [Funcs -> {"new", "ins", "in", "done", "gone", "self"}]
        /\ calls' \in [Funcs -> Nat]
        /\ RequestInv' /\ QueueInv'
        /\ \A f \in Funcs : st'[f] = st[f] \/ (st[f] = "in" /\ st'[f] = "done")
      BY <2>1, <2>2, InvokeInv
  <2>4. StopTypeOK'
      BY <2>1, <2>3, Zenon DEF StopTypeOK
  <2>5. ArgInv'
      BY <2>1, <2>3 DEF ArgInv, StopTypeOK
  <2> QED
      BY <2>3, <2>4, <2>5
<1> QED
    BY <1>1, <1>2

LEMMA Inv_CallbackLock ==
    ASSUME StopAssumption, StopInv, NEW t \in Threads, CallbackLock(t)
    PROVE  StopInv'
<1> USE DEF StopInv
<1>1. /\ at[t] = "end" /\ Invoke(t) /\ UNCHANGED <<requested, thr, arg>>
      /\ \/ op' = op
         \/ \E u \in Threads : op[u] = "wait" /\ op' = [op EXCEPT ![u] = "woken"]
    BY DEF CallbackLock
<1>2. thr' = t /\ requested' = TRUE /\ \A u \in Threads : at[u] \in {"cb", "end"} => u = t
    BY <1>1 DEF RequestInv, StopTypeOK, StopAssumption
<1>3. /\ queue' \in Seq(Funcs) /\ func' \in Funcs \cup {None}
      /\ at' \in [Threads -> {"idle", "rq", "cb", "end"}]
      /\ st' \in [Funcs -> {"new", "ins", "in", "done", "gone", "self"}]
      /\ calls' \in [Funcs -> Nat]
      /\ RequestInv' /\ QueueInv'
      /\ \A f \in Funcs : st'[f] = st[f] \/ (st[f] = "in" /\ st'[f] = "done")
    BY <1>1, <1>2, InvokeInv
<1>4. /\ op' \in [Threads -> {"none", "ins", "own", "rm", "wait", "woken"}]
      /\ \A u \in Threads : op'[u] = op[u] \/ (op[u] = "wait" /\ op'[u] = "woken")
  <2>1. op \in [Threads -> {"none", "ins", "own", "rm", "wait", "woken"}]
      BY DEF StopTypeOK
  <2>2. op' \in [Threads -> {"none", "ins", "own", "rm", "wait", "woken"}]
      BY <1>1, <2>1
  <2>3. ASSUME NEW u \in Threads
        PROVE  op'[u] = op[u] \/ (op[u] = "wait" /\ op'[u] = "woken")
    <3>1. CASE op' = op
        BY <3>1
    <3>2. CASE op' # op
      <4>1. PICK w \in Threads : op[w] = "wait" /\ op' = [op EXCEPT ![w] = "woken"]
          BY <1>1, <3>2
      <4>2. CASE w = u
          BY <2>1, <4>1, <4>2
      <4>3. CASE w # u
          BY <2>1, <4>1, <4>3
      <4> QED
          BY <4>2, <4>3
    <3> QED
        BY <3>1, <3>2
  <2> QED
      BY <2>2, <2>3
<1>5. StopTypeOK'
    BY <1>1, <1>2, <1>3, <1>4, Zenon DEF StopTypeOK
<1>6. ArgInv'
    BY <1>1, <1>3, <1>4 DEF ArgInv, StopTypeOK
<1> QED
    BY <1>3, <1>5, <1>6

LEMMA Inv_InsertLock ==
    ASSUME StopAssumption, StopInv, NEW t \in Threads, InsertLock(t)
    PROVE  StopInv'
<1> USE DEF StopInv
<1>1. /\ op[t] = "ins" /\ UNCHANGED <<requested, thr, func, at>>
      /\ arg[t] \in Funcs /\ st[arg[t]] = "ins"
    BY DEF InsertLock, StopTypeOK, ArgInv
<1>2. CASE requested
  <2>1. Own(t, arg[t]) /\ queue' = queue
      BY <1>2 DEF InsertLock
  <2>2. StopTypeOK'
      BY <1>1, <2>1 DEF StopTypeOK, Own, Enter
  <2>3. RequestInv'
      BY <1>1, <2>1 DEF StopAssumption, StopTypeOK, RequestInv, Own
  <2>4. ArgInv'
      BY <1>1, <2>1 DEF StopAssumption, StopTypeOK, ArgInv, Own, Enter
  <2>5. QueueInv'
      BY <1>1, <2>1 DEF StopTypeOK, QueueInv, Own
  <2> QED
      BY <2>2, <2>3, <2>4, <2>5
<1>3. CASE ~requested
  <2> DEFINE f == arg[t]
             q == <<f>> \o queue
  <2>1. /\ queue' = q /\ st' = [st EXCEPT ![f] = "in"] /\ Leave(t) /\ calls' = calls
      BY <1>3 DEF InsertLock
  <2>2. /\ q \in Seq(Funcs) /\ \A i \in 1..Len(q) : q[i] = f \/ st[q[i]] = "in"
        /\ \A i, j \in 1..Len(q) : q[i] = q[j] => i = j
      BY <1>1, QueuePush
  <2>3. f \in Funcs /\ st[f] = "ins"
      BY <1>1
  <2> HIDE DEF q
  <2>4. StopTypeOK'
      BY <1>1, <2>1, <2>2 DEF StopTypeOK, Leave
  <2>5. RequestInv'
      BY <1>1, <2>1 DEF StopAssumption, StopTypeOK, RequestInv
  <2>6. ArgInv'
      BY <1>1, <2>1 DEF StopAssumption, StopTypeOK, ArgInv, Leave
  <2>7. QueueInv'
    <3>1. \A i \in 1..Len(q) : q[i] \in Funcs
        BY <2>2
    <3> HIDE DEF f
    <3> QED
        BY <2>1, <2>2, <2>3, <3>1 DEF StopTypeOK, QueueInv
  <2> QED
      BY <2>4, <2>5, <2>6, <2>7
<1> QED
    BY <1>2, <1>3

\* A thread leaves stop_token_remove(): the function is quiet.
LEMMA GoneInv ==
    ASSUME StopAssumption, StopInv, NEW t \in Threads, Gone(t),
           op[t] \in {"rm", "wait", "woken"}, func = arg[t] => thr = t,
           queue' \in Seq(Funcs),
           \A i \in 1..Len(queue') : queue'[i] # arg[t] /\ st[queue'[i]] = "in",
           \A i, j \in 1..Len(queue') : queue'[i] = queue'[j] => i = j,
           UNCHANGED <<requested, thr, func, at, calls>>
    PROVE  StopInv'
<1> USE DEF StopInv, Gone, Leave
<1>1. arg[t] \in Funcs /\ st[arg[t]] \in {"in", "done"}
    BY DEF StopTypeOK, ArgInv
<1>2. StopTypeOK'
    BY <1>1 DEF StopTypeOK
<1>3. RequestInv'
    BY <1>1 DEF StopAssumption, StopTypeOK, RequestInv
<1>4. ArgInv'
    BY <1>1 DEF StopAssumption, StopTypeOK, ArgInv
<1>5. QueueInv'
  <2>1. \A i \in 1..Len(queue') : queue'[i] \in Funcs
      OBVIOUS
  <2> QED
      BY <1>1, <2>1 DEF StopTypeOK, QueueInv
<1> QED
    BY <1>2, <1>3, <1>4, <1>5

LEMMA Inv_RemoveLock ==
    ASSUME StopAssumption, StopInv, NEW t \in Threads, RemoveLock(t)
    PROVE  StopInv'
<1> USE DEF StopInv
<1>1. op[t] = "rm" /\ UNCHANGED <<requested, thr, func, at, calls>>
    BY DEF RemoveLock
<1>2. arg[t] \in Funcs /\ st[arg[t]] \in {"in", "done"}
    BY <1>1 DEF StopTypeOK, ArgInv
<1>3. CASE func = arg[t] /\ thr # t
  <2>1. op' = [op EXCEPT ![t] = "wait"] /\ UNCHANGED <<arg, st, queue>>
      BY <1>3 DEF RemoveLock
  <2>2. st[arg[t]] = "done"
      BY <1>2, <1>3 DEF RequestInv, StopAssumption
  <2>3. StopTypeOK'
      BY <1>1, <2>1 DEF StopTypeOK
  <2>4. ArgInv'
      BY <1>1, <1>2, <2>1, <2>2 DEF StopAssumption, StopTypeOK, ArgInv
  <2>5. RequestInv' /\ QueueInv'
      BY <1>1, <2>1 DEF RequestInv, QueueInv
  <2> QED
      BY <2>3, <2>4, <2>5
<1>4. CASE ~(func = arg[t] /\ thr # t)
  <2>1. Gone(t) /\ queue' = IF func = arg[t] THEN queue ELSE sllist_remove(queue, arg[t])
      BY <1>4 DEF RemoveLock
  <2>2. CASE func = arg[t]
    <3>1. st[arg[t]] = "done"
        BY <1>2, <2>2 DEF RequestInv, StopAssumption
    <3>2. /\ queue' = queue /\ queue \in Seq(Funcs)
          /\ \A i \in 1..Len(queue) : queue[i] # arg[t] /\ st[queue[i]] = "in"
          /\ \A i, j \in 1..Len(queue) : queue[i] = queue[j] => i = j
        BY <2>1, <2>2, <3>1 DEF StopTypeOK, QueueInv
    <3> QED
        BY <1>1, <1>4, <2>1, <2>2, <3>2, GoneInv
  <2>3. CASE func # arg[t]
    <3>1. /\ queue' \in Seq(Funcs)
          /\ \A i \in 1..Len(queue') : queue'[i] # arg[t] /\ st[queue'[i]] = "in"
          /\ \A i, j \in 1..Len(queue') : queue'[i] = queue'[j] => i = j
        BY <2>1, <2>3, QueueRemove
    <3> QED
        BY <1>1, <2>1, <2>3, <3>1, GoneInv
  <2> QED
      BY <2>2, <2>3
<1> QED
    BY <1>3, <1>4

LEMMA Inv_RemoveWakes ==
    ASSUME StopAssumption, StopInv, NEW t \in Threads, RemoveWakes(t)
    PROVE  StopInv'
<1> USE DEF StopInv
<1>1. op[t] \in {"wait", "woken"} /\ UNCHANGED <<requested, thr, queue, func, at, calls>>
    BY DEF RemoveWakes
<1>2. arg[t] \in Funcs /\ st[arg[t]] = "done"
    BY <1>1 DEF StopTypeOK, ArgInv
<1>3. CASE func = arg[t]
  <2>1. op' = [op EXCEPT ![t] = "wait"] /\ UNCHANGED <<arg, st>>
      BY <1>3 DEF RemoveWakes
  <2>2. StopTypeOK'
      BY <1>1, <2>1 DEF StopTypeOK
  <2>3. ArgInv'
      BY <1>1, <1>2, <2>1 DEF StopAssumption, StopTypeOK, ArgInv
  <2>4. RequestInv' /\ QueueInv'
      BY <1>1, <2>1 DEF RequestInv, QueueInv
  <2> QED
      BY <2>2, <2>3, <2>4
<1>4. CASE func # arg[t]
  <2>1. Gone(t)
      BY <1>4 DEF RemoveWakes
  <2>2. /\ queue' = queue /\ queue \in Seq(Funcs)
        /\ \A i \in 1..Len(queue) : queue[i] # arg[t] /\ st[queue[i]] = "in"
        /\ \A i, j \in 1..Len(queue) : queue[i] = queue[j] => i = j
      BY <1>1, <1>2 DEF StopTypeOK, QueueInv
  <2> QED
      BY <1>1, <1>4, <2>1, <2>2, GoneInv
<1> QED
    BY <1>3, <1>4

-----------------------------------------------------------------------------
\* Every step keeps the invariant.
LEMMA StopInvStep ==
    ASSUME StopAssumption, StopInv, StopNext
    PROVE  StopInv'
<1>1. PICK t \in Threads : StopStep(t)
    BY DEF StopNext
<1> QED
    BY <1>1, Inv_RequestStop, Inv_RequestLock, Inv_CallbackReturns, Inv_CallbackLock,
       Inv_stop_token_insert, Inv_stop_token_remove, Inv_InsertLock, Inv_OwnReturns,
       Inv_RemoveLock, Inv_RemoveWakes
    DEF StopStep

LEMMA StopInvStutter ==
    ASSUME StopInv, UNCHANGED stopVars
    PROVE  StopInv'
BY DEF stopVars, StopInv, StopTypeOK, RequestInv, ArgInv, QueueInv

\* A function is invoked at most once, by stop_token_insert() or by the first
\* request, and when stop_token_remove() has returned it is not registered, and not
\* running unless it has deregistered itself.
THEOREM StopSafe ==
    ASSUME StopAssumption
    PROVE  StopSpec => [](StopTypeOK /\ CalledOnce /\ RemovedIsQuiet)
<1>1. StopInit => StopInv
    BY StopInvInit
<1>2. StopInv /\ [StopNext]_stopVars => StopInv'
    BY StopInvStep, StopInvStutter
<1>3. StopInv => StopTypeOK /\ CalledOnce /\ RemovedIsQuiet
    BY StopInvSafe DEF StopInv
<1> QED
    BY <1>1, <1>2, <1>3, PTL DEF StopSpec
=============================================================================
