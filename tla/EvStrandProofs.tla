--------------------------- MODULE EvStrandProofs ---------------------------
(***************************************************************************)
(* Proofs about EvStrand, for any number of threads and tasks: the         *)
(* invariants of the strand, and that it runs tasks one at a time in the   *)
(* order in which they were submitted (EvSerial).                          *)
(***************************************************************************)
EXTENDS EvStrand, FiniteSetTheorems, TLAPS

\* The inductive invariant.  Beyond the properties: a thread has a task exactly while
\* it submits or runs one, and once ev_strand_fini() has begun, nothing is submitted
\* or started, and it is done only when the task of the strand is not posted.
StrandInv ==
    /\ StrandTypeOK /\ OneToken
    /\ \A t \in Threads : call[t] = "lock" => arg[t] \in Tasks
    /\ \A t \in Threads : run[t] = "func" <=> cur[t] # None
    /\ fini # "no" =>
         queue = <<>> /\ \A t \in Threads : call[t] = "none" /\ run[t] # "func"
    /\ fini = "done" => ~posted

-----------------------------------------------------------------------------
\* What the move of one thread does to the number of threads at some places.
LEMMA CountMove ==
    ASSUME StrandAssumption, NEW f, NEW g, NEW S, NEW t \in Threads,
           \A u \in Threads : u # t => g[u] = f[u]
    PROVE  /\ Count(f, S) \in Nat
           /\ Count(g, S) = Count(f, S) + (IF g[t] \in S THEN 1 ELSE 0)
                                        - (IF f[t] \in S THEN 1 ELSE 0)
<1> DEFINE A == {u \in Threads : f[u] \in S}
           B == {u \in Threads : g[u] \in S}
<1>1. IsFiniteSet(A)
    BY FS_Subset DEF StrandAssumption
<1>2. Cardinality(A) \in Nat
    BY <1>1, FS_CardinalityType
<1>3. B = IF g[t] \in S THEN A \cup {t} ELSE A \ {t}
    OBVIOUS
<1>4. CASE g[t] \in S
  <2>1. Cardinality(A \cup {t})
          = IF t \in A THEN Cardinality(A) ELSE Cardinality(A) + 1
      BY <1>1, FS_AddElement
  <2> QED
      BY <1>2, <1>3, <1>4, <2>1 DEF Count
<1>5. CASE g[t] \notin S
  <2>1. Cardinality(A \ {t})
          = IF t \in A THEN Cardinality(A) - 1 ELSE Cardinality(A)
      BY <1>1, FS_RemoveElement
  <2> QED
      BY <1>2, <1>3, <1>5, <2>1 DEF Count
<1> QED
    BY <1>4, <1>5

\* What is left of a sequence without its i-th element.
LEMMA WithoutSeq ==
    ASSUME NEW S, NEW s \in Seq(S), NEW i \in 1..Len(s)
    PROVE  Without(s, i) \in Seq(S) /\ Len(Without(s, i)) = Len(s) - 1
<1>1. Len(s) - 1 \in Nat /\ Without(s, i) \in [1..(Len(s) - 1) -> S]
    BY DEF Without
<1> QED
    BY <1>1

LEMMA Inv_Submit ==
    ASSUME StrandAssumption, StrandInv, NEW t \in Threads, NEW x \in Tasks, Submit(t, x)
    PROVE  StrandInv'
<1> USE DEF Submit, StrandInv
<1>1. StrandTypeOK'
    BY DEF StrandTypeOK
<1>2. OneToken'
    BY DEF StrandAssumption, StrandTypeOK, OneToken, Holds
<1>3. \A u \in Threads : call'[u] = "lock" => arg'[u] \in Tasks
    BY DEF StrandTypeOK
<1>4. \A u \in Threads : run'[u] = "func" <=> cur'[u] # None
    BY DEF StrandAssumption, StrandTypeOK
<1>5. /\ fini' # "no" =>
           queue' = <<>> /\ \A u \in Threads : call'[u] = "none" /\ run'[u] # "func"
      /\ fini' = "done" => ~posted'
    BY DEF StrandTypeOK, OneToken, Holds
<1> QED
    BY <1>1, <1>2, <1>3, <1>4, <1>5

LEMMA Inv_Inline ==
    ASSUME StrandAssumption, StrandInv, NEW t \in Threads, Inline(t)
    PROVE  StrandInv'
<1> USE DEF Inline, StrandInv
<1>1. StrandTypeOK'
    BY DEF StrandTypeOK
<1>2. OneToken'
    BY DEF StrandAssumption, StrandTypeOK, OneToken, Holds
<1>3. \A u \in Threads : call'[u] = "lock" => arg'[u] \in Tasks
    BY DEF StrandTypeOK
<1>4. \A u \in Threads : run'[u] = "func" <=> cur'[u] # None
    BY DEF StrandAssumption, StrandTypeOK
<1>5. /\ fini' # "no" =>
           queue' = <<>> /\ \A u \in Threads : call'[u] = "none" /\ run'[u] # "func"
      /\ fini' = "done" => ~posted'
    BY DEF StrandTypeOK, OneToken, Holds
<1> QED
    BY <1>1, <1>2, <1>3, <1>4, <1>5

LEMMA Inv_Enqueue ==
    ASSUME StrandAssumption, StrandInv, NEW t \in Threads, Enqueue(t)
    PROVE  StrandInv'
<1> USE DEF Enqueue, StrandInv
<1>1. StrandTypeOK'
    BY DEF StrandTypeOK
<1>2. OneToken'
    BY DEF StrandAssumption, StrandTypeOK, OneToken, Holds
<1>3. \A u \in Threads : call'[u] = "lock" => arg'[u] \in Tasks
    BY DEF StrandTypeOK
<1>4. \A u \in Threads : run'[u] = "func" <=> cur'[u] # None
    BY DEF StrandAssumption, StrandTypeOK
<1>5. /\ fini' # "no" =>
           queue' = <<>> /\ \A u \in Threads : call'[u] = "none" /\ run'[u] # "func"
      /\ fini' = "done" => ~posted'
    BY DEF StrandTypeOK, OneToken, Holds
<1> QED
    BY <1>1, <1>2, <1>3, <1>4, <1>5

LEMMA Inv_PostCall ==
    ASSUME StrandAssumption, StrandInv, NEW t \in Threads, PostCall(t)
    PROVE  StrandInv'
<1> USE DEF PostCall, StrandInv
<1>1. StrandTypeOK'
    BY DEF StrandTypeOK
<1>2. OneToken'
    BY DEF StrandAssumption, StrandTypeOK, OneToken, Holds
<1>3. \A u \in Threads : call'[u] = "lock" => arg'[u] \in Tasks
    BY DEF StrandTypeOK
<1>4. \A u \in Threads : run'[u] = "func" <=> cur'[u] # None
    BY DEF StrandAssumption, StrandTypeOK
<1>5. /\ fini' # "no" =>
           queue' = <<>> /\ \A u \in Threads : call'[u] = "none" /\ run'[u] # "func"
      /\ fini' = "done" => ~posted'
    BY DEF StrandTypeOK, OneToken, Holds
<1> QED
    BY <1>1, <1>2, <1>3, <1>4, <1>5

LEMMA Inv_ev_strand_func ==
    ASSUME StrandAssumption, StrandInv, NEW t \in Threads, ev_strand_func(t)
    PROVE  StrandInv'
<1> USE DEF StrandInv
<1>1. /\ inner > 0 /\ run[t] = "idle" /\ call[t] = "none" /\ inner' = inner - 1
      /\ UNCHANGED <<ntasks, call, arg, fini>>
    BY DEF ev_strand_func
<1>2. inner = 1 /\ inner' = 0 /\ posted /\ thr = None /\ \A u \in Threads : ~Holds(u)
    BY <1>1 DEF StrandTypeOK, OneToken, Holds
<1>3. CASE queue = <<>>
  <2>1. posted' = FALSE /\ UNCHANGED <<queue, cur, thr, run>>
      BY <1>3 DEF ev_strand_func
  <2>2. StrandTypeOK'
      BY <1>1, <1>2, <2>1, 0 \in Nat, Zenon DEF StrandTypeOK
  <2>3. OneToken'
      BY <1>1, <1>2, <1>3, <2>1 DEF OneToken, Holds
  <2> QED
      BY <1>1, <1>3, <2>1, <2>2, <2>3
<1>4. CASE queue # <<>>
  <2>1. /\ queue' = Tail(queue) /\ cur' = [cur EXCEPT ![t] = Head(queue)]
        /\ thr' = t /\ run' = [run EXCEPT ![t] = "func"] /\ posted' = posted
      BY <1>4 DEF ev_strand_func
  <2>2. Head(queue) \in Tasks /\ Tail(queue) \in Seq(Tasks)
      BY <1>4 DEF StrandTypeOK
  <2>3. StrandTypeOK'
      BY <1>1, <1>2, <2>1, <2>2 DEF StrandTypeOK
  <2>4. OneToken'
      BY <1>1, <1>2, <2>1 DEF StrandTypeOK, OneToken, Holds
  <2>5. \A u \in Threads : run'[u] = "func" <=> cur'[u] # None
      BY <2>1, <2>2 DEF StrandAssumption, StrandTypeOK
  <2> QED
      BY <1>1, <1>4, <2>3, <2>4, <2>5
<1> QED
    BY <1>3, <1>4

LEMMA Inv_Return ==
    ASSUME StrandAssumption, StrandInv, NEW t \in Threads, Return(t)
    PROVE  StrandInv'
<1> USE DEF Return, StrandInv
<1>1. StrandTypeOK'
    BY DEF StrandTypeOK
<1>2. OneToken'
    BY DEF StrandAssumption, StrandTypeOK, OneToken, Holds
<1>3. \A u \in Threads : call'[u] = "lock" => arg'[u] \in Tasks
    BY DEF StrandTypeOK
<1>4. \A u \in Threads : run'[u] = "func" <=> cur'[u] # None
    BY DEF StrandAssumption, StrandTypeOK
<1>5. /\ fini' # "no" =>
           queue' = <<>> /\ \A u \in Threads : call'[u] = "none" /\ run'[u] # "func"
      /\ fini' = "done" => ~posted'
    BY DEF StrandTypeOK, OneToken, Holds
<1> QED
    BY <1>1, <1>2, <1>3, <1>4, <1>5

LEMMA Inv_Fini ==
    ASSUME StrandAssumption, StrandInv, NEW t \in Threads, Fini(t)
    PROVE  StrandInv'
<1> USE DEF Fini, StrandInv
<1>1. StrandTypeOK'
    BY DEF StrandTypeOK
<1>2. OneToken'
    BY DEF StrandAssumption, StrandTypeOK, OneToken, Holds
<1>3. \A u \in Threads : call'[u] = "lock" => arg'[u] \in Tasks
    BY DEF StrandTypeOK
<1>4. \A u \in Threads : run'[u] = "func" <=> cur'[u] # None
    BY DEF StrandAssumption, StrandTypeOK
<1>5. /\ fini' # "no" =>
           queue' = <<>> /\ \A u \in Threads : call'[u] = "none" /\ run'[u] # "func"
      /\ fini' = "done" => ~posted'
    BY DEF StrandTypeOK, OneToken, Holds
<1> QED
    BY <1>1, <1>2, <1>3, <1>4, <1>5

LEMMA Inv_End ==
    ASSUME StrandAssumption, StrandInv, NEW t \in Threads, End(t)
    PROVE  StrandInv'
<1> USE DEF StrandInv
<1>1. /\ run[t] = "end" /\ run' = [run EXCEPT ![t] = IF queue = <<>> THEN "idle" ELSE "post"]
      /\ thr' = None /\ posted' = (queue # <<>>)
      /\ UNCHANGED <<queue, inner, ntasks, cur, call, arg, fini>>
    BY DEF End
<1>2. StrandTypeOK'
  <2>1. run' \in [Threads -> {"idle", "func", "fini", "end", "post"}]
      BY <1>1 DEF StrandTypeOK
  <2>2. posted' \in BOOLEAN
      BY <1>1, Zenon
  <2> QED
      BY <1>1, <2>1, <2>2, Zenon DEF StrandTypeOK
<1>3. /\ Holds(t) /\ call[t] # "post" /\ inner = 0 /\ posted
      /\ \A u \in Threads : u # t => run[u] = "idle" /\ call[u] # "post"
    BY <1>1, Zenon DEF OneToken, Holds
<1>4. /\ \A u \in Threads : u # t => run'[u] = run[u]
      /\ run'[t] = IF queue = <<>> THEN "idle" ELSE "post"
    BY <1>1 DEF StrandTypeOK
<1>5. \A u \in Threads : Holds(u)' <=> u = t /\ queue # <<>>
    BY <1>1, <1>3, <1>4 DEF Holds
<1>6. OneToken'
  <2>1. \A u \in Threads : thr' # u /\ run'[u] \notin {"func", "fini", "end"}
      BY <1>1, <1>3, <1>4 DEF StrandAssumption
  <2>2. \A u \in Threads : ~(run'[u] # "idle" /\ call'[u] = "post")
      BY <1>1, <1>3, <1>4
  <2>3. posted' <=> queue # <<>>
      BY <1>1, Zenon
  <2> QED
      BY <1>1, <1>3, <1>5, <2>1, <2>2, <2>3 DEF OneToken
<1>7. \A u \in Threads : run'[u] = "func" <=> cur'[u] # None
    BY <1>1, <1>4
<1> QED
    BY <1>1, <1>2, <1>6, <1>7 DEF OneToken, Holds

LEMMA Inv_PostFunc ==
    ASSUME StrandAssumption, StrandInv, NEW t \in Threads, PostFunc(t)
    PROVE  StrandInv'
<1> USE DEF PostFunc, StrandInv
<1>1. StrandTypeOK'
    BY DEF StrandTypeOK
<1>2. OneToken'
    BY DEF StrandAssumption, StrandTypeOK, OneToken, Holds
<1>3. \A u \in Threads : call'[u] = "lock" => arg'[u] \in Tasks
    BY DEF StrandTypeOK
<1>4. \A u \in Threads : run'[u] = "func" <=> cur'[u] # None
    BY DEF StrandAssumption, StrandTypeOK
<1>5. /\ fini' # "no" =>
           queue' = <<>> /\ \A u \in Threads : call'[u] = "none" /\ run'[u] # "func"
      /\ fini' = "done" => ~posted'
    BY DEF StrandTypeOK, OneToken, Holds
<1> QED
    BY <1>1, <1>2, <1>3, <1>4, <1>5

LEMMA Inv_Abort ==
    ASSUME StrandAssumption, StrandInv, NEW i \in 1..Len(queue), Abort(i)
    PROVE  StrandInv'
<1> USE DEF Abort, StrandInv
<1>1. StrandTypeOK'
    BY WithoutSeq DEF StrandTypeOK
<1>2. OneToken'
    BY DEF StrandAssumption, StrandTypeOK, OneToken, Holds
<1>3. \A u \in Threads : call'[u] = "lock" => arg'[u] \in Tasks
    BY DEF StrandTypeOK
<1>4. \A u \in Threads : run'[u] = "func" <=> cur'[u] # None
    BY DEF StrandAssumption, StrandTypeOK
<1>5. /\ fini' # "no" =>
           queue' = <<>> /\ \A u \in Threads : call'[u] = "none" /\ run'[u] # "func"
      /\ fini' = "done" => ~posted'
    BY DEF StrandTypeOK, OneToken, Holds
<1> QED
    BY <1>1, <1>2, <1>3, <1>4, <1>5

LEMMA Inv_FiniBegin ==
    ASSUME StrandAssumption, StrandInv, FiniBegin
    PROVE  StrandInv'
<1> USE DEF FiniBegin, StrandInv
<1>1. StrandTypeOK'
    BY DEF StrandTypeOK
<1>2. OneToken'
    BY DEF StrandAssumption, StrandTypeOK, OneToken, Holds
<1>3. \A u \in Threads : call'[u] = "lock" => arg'[u] \in Tasks
    BY DEF StrandTypeOK
<1>4. \A u \in Threads : run'[u] = "func" <=> cur'[u] # None
    BY DEF StrandAssumption, StrandTypeOK
<1>5. /\ fini' # "no" =>
           queue' = <<>> /\ \A u \in Threads : call'[u] = "none" /\ run'[u] # "func"
      /\ fini' = "done" => ~posted'
    BY DEF StrandTypeOK, OneToken, Holds
<1> QED
    BY <1>1, <1>2, <1>3, <1>4, <1>5

LEMMA Inv_FiniLock ==
    ASSUME StrandAssumption, StrandInv, FiniLock
    PROVE  StrandInv'
<1>1. /\ fini = "lock" /\ UNCHANGED <<queue, thr, ntasks, run, cur, call, arg>>
      /\ \/ posted /\ inner > 0 /\ inner' = inner - 1 /\ ~posted' /\ fini' = "done"
         \/ posted /\ fini' = "wait" /\ inner' = inner /\ posted'
         \/ ~posted /\ fini' = "done" /\ inner' = inner /\ ~posted'
  <2>1. CASE posted /\ inner > 0
      BY <2>1 DEF FiniLock
  <2>2. CASE posted /\ ~(inner > 0)
      BY <2>2 DEF FiniLock
  <2>3. CASE ~posted
      BY <2>3 DEF FiniLock
  <2> QED
      BY <2>1, <2>2, <2>3
<1>2. inner' \in Nat /\ posted' \in BOOLEAN /\ fini' \in {"no", "lock", "wait", "done"}
  <2>1. posted' \in BOOLEAN
      BY DEF StrandInv, StrandTypeOK, FiniLock
  <2>2. inner' \in Nat
      BY <1>1 DEF StrandInv, StrandTypeOK
  <2> QED
      BY <1>1, <2>1, <2>2
<1>3. StrandTypeOK'
    BY <1>1, <1>2, Zenon DEF StrandInv, StrandTypeOK
<1>4. OneToken'
    BY <1>1 DEF StrandInv, StrandTypeOK, OneToken, Holds
<1> QED
    BY <1>1, <1>3, <1>4 DEF StrandInv

LEMMA Inv_FiniWait ==
    ASSUME StrandAssumption, StrandInv, FiniWait
    PROVE  StrandInv'
<1> USE DEF FiniWait, StrandInv
<1>1. StrandTypeOK'
    BY DEF StrandTypeOK
<1>2. OneToken'
    BY DEF StrandAssumption, StrandTypeOK, OneToken, Holds
<1>3. \A u \in Threads : call'[u] = "lock" => arg'[u] \in Tasks
    BY DEF StrandTypeOK
<1>4. \A u \in Threads : run'[u] = "func" <=> cur'[u] # None
    BY DEF StrandAssumption, StrandTypeOK
<1>5. /\ fini' # "no" =>
           queue' = <<>> /\ \A u \in Threads : call'[u] = "none" /\ run'[u] # "func"
      /\ fini' = "done" => ~posted'
    BY DEF StrandTypeOK, OneToken, Holds
<1> QED
    BY <1>1, <1>2, <1>3, <1>4, <1>5

\* Every step keeps the invariant.
LEMMA StrandInvStep ==
    ASSUME StrandAssumption, StrandInv, StrandNext
    PROVE  StrandInv'
<1>1. ASSUME NEW t \in Threads, StrandStep(t)
      PROVE  StrandInv'
    BY <1>1, Inv_Submit, Inv_Inline, Inv_Enqueue, Inv_PostCall,
       Inv_ev_strand_func, Inv_Return, Inv_Fini, Inv_End, Inv_PostFunc
       DEF StrandStep
<1> QED
    BY <1>1, Inv_Abort, Inv_FiniBegin, Inv_FiniLock, Inv_FiniWait
       DEF StrandNext

-----------------------------------------------------------------------------
\* Every step counts the tasks: on_task_init() and on_task_fini() are called in
\* pairs, and ev_strand_exec_abort() and ev_strand_fini() call the latter for every
\* task that they drop.
LEMMA StrandCounts ==
    ASSUME StrandAssumption, StrandInv, TasksCounted, StrandNext
    PROVE  TasksCounted'
<1> DEFINE R == Count(run, {"func", "fini"})
           C == Count(call, {"lock"})
<1>t. /\ run \in [Threads -> {"idle", "func", "fini", "end", "post"}]
      /\ call \in [Threads -> {"none", "lock", "post"}]
      /\ queue \in Seq(Tasks) /\ ntasks \in Int /\ Len(queue) \in Nat
    BY DEF StrandInv, StrandTypeOK
<1>n. ntasks = Len(queue) + R + C
    BY DEF TasksCounted
<1>r. ASSUME NEW t \in Threads, \A u \in Threads : u # t => run'[u] = run[u]
      PROVE  R' = R + (IF run'[t] \in {"func", "fini"} THEN 1 ELSE 0)
                    - (IF run[t] \in {"func", "fini"} THEN 1 ELSE 0)
  <2>1. R' = Count(run', {"func", "fini"})
      BY DEF Count
  <2> QED
      BY <1>r, <2>1, CountMove
<1>c. ASSUME NEW t \in Threads, \A u \in Threads : u # t => call'[u] = call[u]
      PROVE  C' = C + (IF call'[t] \in {"lock"} THEN 1 ELSE 0)
                    - (IF call[t] \in {"lock"} THEN 1 ELSE 0)
  <2>1. C' = Count(call', {"lock"})
      BY DEF Count
  <2> QED
      BY <1>c, <2>1, CountMove
<1>s. (run' = run => R' = R) /\ (call' = call => C' = C)
    BY DEF Count
<1>i. R \in Int /\ C \in Int
  <2>1. CASE Threads = {}
      BY <2>1, FS_EmptySet DEF Count
  <2>2. ASSUME NEW t \in Threads
        PROVE  R \in Nat /\ C \in Nat
      BY CountMove
  <2> QED
      BY <2>1, <2>2
<1>q. (ntasks' = Len(queue') + R' + C') => TasksCounted'
    BY DEF TasksCounted
<1> HIDE DEF R, C
<1>1. ASSUME NEW t \in Threads, NEW x \in Tasks, Submit(t, x)
      PROVE  TasksCounted'
  <2>1. C' = C + 1
      BY <1>1, <1>t, <1>c, <1>i DEF Submit
  <2> QED
      BY <1>1, <1>t, <1>n, <1>s, <1>i, <1>q, <2>1 DEF Submit
<1>2. ASSUME NEW t \in Threads, Inline(t)
      PROVE  TasksCounted'
  <2>1. C' = C - 1
      BY <1>2, <1>t, <1>c, <1>i DEF Inline
  <2> QED
      BY <1>2, <1>t, <1>n, <1>s, <1>i, <1>q, <2>1 DEF Inline
<1>3. ASSUME NEW t \in Threads, Enqueue(t)
      PROVE  TasksCounted'
  <2>1. C' = C - 1
      BY <1>3, <1>t, <1>c, <1>i DEF Enqueue
  <2>2. Len(queue') = Len(queue) + 1
      BY <1>3, <1>t DEF Enqueue, StrandInv, StrandTypeOK
  <2> QED
      BY <1>3, <1>t, <1>n, <1>s, <1>i, <1>q, <2>1, <2>2 DEF Enqueue
<1>4. ASSUME NEW t \in Threads, PostCall(t)
      PROVE  TasksCounted'
  <2>1. C' = C
      BY <1>4, <1>t, <1>c, <1>i DEF PostCall
  <2> QED
      BY <1>4, <1>n, <1>s, <1>q, <2>1 DEF PostCall
<1>5. ASSUME NEW t \in Threads, ev_strand_func(t)
      PROVE  TasksCounted'
  <2>1. CASE queue = <<>>
      BY <1>5, <1>n, <1>s, <1>q, <2>1 DEF ev_strand_func
  <2>2. CASE queue # <<>>
    <3>1. R' = R + 1
        BY <1>5, <1>t, <1>r, <1>i, <2>2 DEF ev_strand_func
    <3>2. Len(queue') = Len(queue) - 1
        BY <1>5, <1>t, <2>2 DEF ev_strand_func
    <3> QED
        BY <1>5, <1>t, <1>n, <1>s, <1>i, <1>q, <3>1, <3>2 DEF ev_strand_func
  <2> QED
      BY <2>1, <2>2
<1>6. ASSUME NEW t \in Threads, Return(t) \/ Fini(t)
      PROVE  TasksCounted'
  <2>1. CASE Return(t)
    <3>1. R' = R
        BY <1>t, <1>r, <1>i, <2>1 DEF Return
    <3> QED
        BY <1>n, <1>s, <1>q, <2>1, <3>1 DEF Return
  <2>2. CASE Fini(t)
    <3>1. R' = R - 1
        BY <1>t, <1>r, <1>i, <2>2 DEF Fini
    <3> QED
        BY <1>t, <1>n, <1>s, <1>i, <1>q, <2>2, <3>1 DEF Fini
  <2> QED
      BY <1>6, <2>1, <2>2
<1>7. ASSUME NEW t \in Threads, End(t) \/ PostFunc(t)
      PROVE  TasksCounted'
  <2>1. R' = R
      BY <1>7, <1>t, <1>r, <1>i DEF End, PostFunc
  <2> QED
      BY <1>7, <1>n, <1>s, <1>q, <2>1 DEF End, PostFunc
<1>8. ASSUME NEW i \in 1..Len(queue), Abort(i)
      PROVE  TasksCounted'
  <2>1. Len(queue') = Len(queue) - 1
      BY <1>8, <1>t, WithoutSeq DEF Abort
  <2> QED
      BY <1>8, <1>t, <1>n, <1>s, <1>i, <1>q, <2>1 DEF Abort
<1>9. ASSUME FiniBegin
      PROVE  TasksCounted'
    BY <1>9, <1>t, <1>n, <1>s, <1>i, <1>q DEF FiniBegin
<1>10. ASSUME FiniLock \/ FiniWait
       PROVE  TasksCounted'
    BY <1>10, <1>n, <1>s, <1>q DEF FiniLock, FiniWait
<1> QED
    BY <1>1, <1>2, <1>3, <1>4, <1>5, <1>6, <1>7, <1>8, <1>9, <1>10
    DEF StrandNext, StrandStep

-----------------------------------------------------------------------------
\* Every step of the strand is a step of EvSerial, or leaves its variables alone.
LEMMA StrandRefines ==
    ASSUME StrandAssumption, StrandInv, StrandNext
    PROVE  Serial!SerialNext \/ UNCHANGED <<queue, Running>>
<1> USE DEF StrandInv
<1>t. /\ cur \in [Threads -> Tasks \cup {None}] /\ thr \in Threads \cup {None}
      /\ queue \in Seq(Tasks) /\ None \notin Threads /\ None \notin Tasks
    BY DEF StrandTypeOK, StrandAssumption
<1>s. UNCHANGED <<thr, cur>> => UNCHANGED Running
    BY DEF Running
<1>1. ASSUME NEW t \in Threads, Enqueue(t)
      PROVE  Serial!Submit(arg[t]) /\ arg[t] \in Tasks
    BY <1>1, <1>s DEF Enqueue, Serial!Submit
<1>2. ASSUME NEW t \in Threads, ev_strand_func(t), queue # <<>>
      PROVE  Serial!Start
  <2>1. thr = None
      BY <1>2, <1>t DEF ev_strand_func, OneToken, Holds, StrandTypeOK
  <2>2. /\ thr' = t /\ cur' = [cur EXCEPT ![t] = Head(queue)] /\ queue' = Tail(queue)
      BY <1>2 DEF ev_strand_func
  <2>3. Running = None /\ Running' = Head(queue)
      BY <1>t, <2>1, <2>2 DEF Running
  <2> QED
      BY <1>2, <2>2, <2>3 DEF Serial!Start
<1>3. ASSUME NEW t \in Threads, Return(t)
      PROVE  Serial!Finish
  <2>1. thr = t /\ thr' = t /\ cur[t] # None /\ cur'[t] = None /\ queue' = queue
      BY <1>3, <1>t DEF Return, OneToken
  <2> QED
      BY <1>t, <2>1 DEF Serial!Finish, Running
<1>4. ASSUME NEW t \in Threads, End(t)
      PROVE  UNCHANGED <<queue, Running>>
  <2>1. thr = t /\ thr' = None /\ cur[t] = None /\ queue' = queue
      BY <1>4, <1>t DEF End, OneToken
  <2> QED
      BY <1>t, <2>1 DEF Running
<1>5. ASSUME NEW i \in 1..Len(queue), Abort(i)
      PROVE  Serial!Abort(i)
    BY <1>5, <1>s DEF Abort, Serial!Abort, Without, Serial!Without
<1>6. ASSUME FiniBegin
      PROVE  Serial!AbortAll
    BY <1>6, <1>s DEF FiniBegin, Serial!AbortAll
<1>7. ASSUME NEW t \in Threads,
             \/ \E x \in Tasks : Submit(t, x)
             \/ Inline(t) \/ PostCall(t) \/ Fini(t) \/ PostFunc(t)
             \/ ev_strand_func(t) /\ queue = <<>>
      PROVE  UNCHANGED <<queue, Running>>
    BY <1>7, <1>s DEF Submit, Inline, PostCall, Fini, PostFunc, ev_strand_func
<1>8. ASSUME FiniLock \/ FiniWait
      PROVE  UNCHANGED <<queue, Running>>
    BY <1>8, <1>s DEF FiniLock, FiniWait
<1> QED
    BY <1>1, <1>2, <1>3, <1>4, <1>5, <1>6, <1>7, <1>8
    DEF StrandNext, StrandStep, Serial!SerialNext

-----------------------------------------------------------------------------
\* The invariant holds initially, and so does the abstract specification's.
LEMMA StrandInvInit ==
    ASSUME StrandAssumption, StrandInit
    PROVE  StrandInv /\ TasksCounted /\ Serial!SerialInit
<1>1. StrandInv
  <2>1. StrandTypeOK
    <3>1. queue \in Seq(Tasks) /\ inner \in Nat /\ ntasks \in Int
        BY DEF StrandInit
    <3> QED
        BY <3>1, Zenon DEF StrandInit, StrandTypeOK
  <2>2. OneToken
      BY DEF StrandInit, OneToken, Holds, StrandAssumption
  <2> QED
      BY <2>1, <2>2 DEF StrandInit, StrandInv
<1>2. Count(run, {"func", "fini"}) = 0 /\ Count(call, {"lock"}) = 0
  <2>1. /\ {t \in Threads : run[t] \in {"func", "fini"}} = {}
        /\ {t \in Threads : call[t] \in {"lock"}} = {}
      BY DEF StrandInit
  <2> QED
      BY <2>1, FS_EmptySet DEF Count
<1>3. TasksCounted
    BY <1>2 DEF StrandInit, TasksCounted
<1> QED
    BY <1>1, <1>3 DEF StrandInit, Serial!SerialInit, Running

\* The invariant says that nothing is left once ev_strand_fini() has returned.
LEMMA StrandInvFini ==
    ASSUME StrandInv
    PROVE  FiniSafe
BY DEF StrandInv, StrandTypeOK, OneToken, FiniSafe, Holds

\* A step that changes nothing keeps the invariant.
LEMMA StrandInvStutter ==
    ASSUME StrandInv, TasksCounted, UNCHANGED strandVars
    PROVE  StrandInv' /\ TasksCounted' /\ UNCHANGED <<queue, Running>>
BY DEF strandVars, StrandInv, TasksCounted, StrandTypeOK, OneToken, Holds,
       Count, Running

\* The strand's own task is in one place at a time, every task is counted, and
\* nothing is left of the strand once ev_strand_fini() has returned.
THEOREM StrandSafe ==
    ASSUME StrandAssumption
    PROVE  StrandSpec => [](StrandTypeOK /\ OneToken /\ TasksCounted /\ FiniSafe)
<1>1. StrandInit => StrandInv /\ TasksCounted
    BY StrandInvInit
<1>2. StrandInv /\ TasksCounted /\ [StrandNext]_strandVars
        => (StrandInv /\ TasksCounted)'
    BY StrandInvStep, StrandCounts, StrandInvStutter
<1>3. StrandInv /\ TasksCounted
        => StrandTypeOK /\ OneToken /\ TasksCounted /\ FiniSafe
    BY StrandInvFini DEF StrandInv
<1> QED
    BY <1>1, <1>2, <1>3, PTL DEF StrandSpec

\* Tasks run one at a time, in the order in which they were submitted.
THEOREM StrandIsSerial ==
    ASSUME StrandAssumption
    PROVE  StrandSpec => ImplementsSerial
<1>1. StrandInit => StrandInv /\ TasksCounted /\ Serial!SerialInit
    BY StrandInvInit
<1>2. StrandInv /\ TasksCounted /\ [StrandNext]_strandVars
        => (StrandInv /\ TasksCounted)'
    BY StrandInvStep, StrandCounts, StrandInvStutter
<1>3. StrandInv /\ TasksCounted /\ [StrandNext]_strandVars
        => [Serial!SerialNext]_<<queue, Running>>
    BY StrandRefines, StrandInvStutter
<1> QED
    BY <1>1, <1>2, <1>3, PTL
    DEF StrandSpec, ImplementsSerial, Serial!SerialSpec
=============================================================================
