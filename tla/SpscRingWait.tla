---------------------------- MODULE SpscRingWait ----------------------------
(***************************************************************************)
(* Proofs about SpscRing: the steps keep the function of a wait, the types *)
(* of the variables of a wait and the protocol on its size.                *)
(***************************************************************************)
EXTENDS SpscRingInv, TLAPS

-----------------------------------------------------------------------------
(* What the pieces of the actions change. *)

\* What Return changes, for the thread and for the other one.
LEMMA ReturnAt ==
    ASSUME SigTypeOK, NEW t \in Side, NEW o \in Side, o # t, Return(t)
    PROVE  /\ pc'[t] = "idle" /\ pc'[o] = pc[o]
           /\ op'[t] = "none" /\ op'[o] = op[o]
           /\ psize'[o] = psize[o] /\ pfunc'[o] = pfunc[o]
           /\ size'[o] = size[o] /\ func'[o] = func[o]
BY DEF Return, SigTypeOK

\* What Goto changes.
LEMMA GotoAt ==
    ASSUME SigTypeOK, NEW t \in Side, NEW o \in Side, o # t, NEW l, Goto(t, l)
    PROVE  /\ pc'[t] = l /\ pc'[o] = pc[o]
           /\ op' = op /\ psize' = psize /\ pfunc' = pfunc
           /\ size' = size /\ func' = func
BY DEF Goto, frame, SigTypeOK

\* What the loop test of the signal functions changes.
LEMMA SigLoopAt ==
    ASSUME SigTypeOK, NEW t \in Side, NEW o \in Side, o # t, NEW s, SigLoop(t, s)
    PROVE  /\ IF s = 0
              THEN pc'[t] = "idle"
              ELSE pc'[t] = "sig_check" /\ size'[t] = s
           /\ pc'[o] = pc[o] /\ op'[o] = op[o]
           /\ psize'[o] = psize[o] /\ pfunc'[o] = pfunc[o]
           /\ size'[o] = size[o] /\ func'[o] = func[o]
BY ReturnAt DEF SigLoop, SigTypeOK

\* What the return of abort_wait changes.
LEMMA AbortReturnAt ==
    ASSUME SigTypeOK, NEW t \in Side, NEW o \in Side, o # t, AbortReturn(t)
    PROVE  /\ \/ pc'[t] = "idle"
              \/ /\ op[t] # "abort" /\ pc'[t] = "set"
                 /\ op'[t] = op[t] /\ pfunc'[t] = pfunc[t]
           /\ pc'[o] = pc[o] /\ op'[o] = op[o]
           /\ psize'[o] = psize[o] /\ pfunc'[o] = pfunc[o]
           /\ size'[o] = size[o] /\ func'[o] = func[o]
<1>1. CASE op[t] = "abort"
    BY <1>1, ReturnAt DEF AbortReturn
<1>2. CASE op[t] # "abort"
    BY <1>2, GotoAt DEF AbortReturn
<1> QED
    BY <1>1, <1>2

\* What the loop test of abort_wait changes.
LEMMA AbortLoopAt ==
    ASSUME SigTypeOK, NEW t \in Side, NEW o \in Side, o # t, NEW s,
           AbortLoop(t, s)
    PROVE  /\ \/ s = 0 /\ pc'[t] = "idle"
              \/ /\ s = 0 /\ op[t] # "abort" /\ pc'[t] = "set"
                 /\ op'[t] = op[t] /\ pfunc'[t] = pfunc[t]
              \/ /\ s # 0 /\ size'[t] = s
                 /\ pc'[t] = IF s = SIZE_MAX THEN "abort_load" ELSE "abort_cas"
                 /\ op'[t] = op[t] /\ pfunc'[t] = pfunc[t]
           /\ pc'[o] = pc[o] /\ op'[o] = op[o]
           /\ psize'[o] = psize[o] /\ pfunc'[o] = pfunc[o]
           /\ size'[o] = size[o] /\ func'[o] = func[o]
<1>1. CASE s = 0
    BY <1>1, AbortReturnAt DEF AbortLoop
<1>2. CASE s # 0
    BY <1>2 DEF AbortLoop, SigTypeOK
<1> QED
    BY <1>1, <1>2

\* What an atomic store changes, at once or in the buffer.
LEMMA StoreAt ==
    ASSUME SigTypeOK, NEW t \in Side, NEW o \in Side, o # t, o = Other(t),
           NEW l \in {"pos", "own", "other"}, NEW v,
           spscring_atomic_store(t, l, v)
    PROVE  IF StoreBuffer
           THEN /\ sbloc[t] = "none" /\ sbloc'[t] = l /\ sbval'[t] = v
                /\ sbloc'[o] = sbloc[o] /\ sbval'[o] = sbval[o]
                /\ sigsize' = sigsize
           ELSE /\ sbloc' = sbloc /\ sbval' = sbval
                /\ sigsize'[t] = IF l = "own" THEN v ELSE sigsize[t]
                /\ sigsize'[o] = IF l = "other" THEN v ELSE sigsize[o]
BY DEF spscring_atomic_store, SigTypeOK, pend

\* The values of sigsize of a wait differ from 0 and SIZE_MAX.
LEMMA WaitSizes ==
    ASSUME SigTypeOK
    PROVE  /\ 0 \notin WaitSize /\ SIZE_MAX \notin WaitSize /\ SIZE_MAX # 0
           /\ \A u \in Side :
                /\ psize[u] # 0 => psize[u] \in WaitSize
                /\ size[u] \in {0, SIZE_MAX} \/ size[u] \in WaitSize
                /\ sigsize[u] \in {0, SIZE_MAX} \/ sigsize[u] \in WaitSize
<1>1. 0 \notin WaitSize /\ SIZE_MAX \notin WaitSize /\ SIZE_MAX # 0
    BY SizeAssumption, WidthAssumption DEF WaitSize, SIZE_MAX
<1>2. \A n \in 0 .. Size : n = 0 \/ n \in WaitSize
    BY SizeAssumption DEF WaitSize
<1> QED
    BY <1>1, <1>2 DEF SigTypeOK

\* The variables are functions on the threads.
LEMMA Domains ==
    ASSUME SigTypeOK
    PROVE  /\ DOMAIN sigsize = Side /\ DOMAIN sigfunc = Side
           /\ DOMAIN sbloc = Side /\ DOMAIN sbval = Side /\ DOMAIN pc = Side
           /\ DOMAIN op = Side /\ DOMAIN psize = Side /\ DOMAIN pfunc = Side
           /\ DOMAIN size = Side /\ DOMAIN func = Side /\ DOMAIN waiting = Side
BY DEF SigTypeOK

-----------------------------------------------------------------------------
\* What a step of t does to the functions of the two waits.
FuncGoal(t, o) == FuncInvAt(t, o) /\ FuncInvAt(o, t)

\* What the function of the wait of t rests on.
FuncHyp(t, o) ==
    t \in Side /\ o \in Side /\ SigTypeOK /\ SigInvAt(t, o) /\ FuncInvAt(t, o)

\* It follows for both threads from WaitHyp.
LEMMA FuncHyps ==
    ASSUME NEW t, NEW o, WaitHyp(t, o)
    PROVE  FuncHyp(t, o) /\ FuncHyp(o, t) /\ o = Other(t) /\ o # t
BY DEF WaitHyp, FuncHyp

\* The function of a wait is kept, by each of the actions.
LEMMA Func_alloc ==
    ASSUME NEW t, NEW o, NEW n \in 1 .. W, WaitHyp(t, o), alloc(t, n)
    PROVE  FuncGoal(t, o)'
<1>1. FuncHyp(t, o) /\ o = Other(t) /\ o # t
    BY FuncHyps
<1>2. FuncHyp(o, t) /\ o = Other(t) /\ o # t
    BY FuncHyps
<1>3. FuncInvAt(t, o)'
    BY <1>1, WaitSizes, Domains, SMTT(30)
    DEF FuncHyp, alloc, pend, frame, SigInvAt, FuncInvAt, Registered
<1>4. FuncInvAt(o, t)'
    BY <1>2, WaitSizes, Domains, SMTT(30)
    DEF FuncHyp, alloc, pend, frame, SigInvAt, FuncInvAt, Registered
<1> QED
    BY <1>3, <1>4 DEF FuncGoal

\* alloc_no_wrap keeps the function of a wait.
LEMMA Func_alloc_no_wrap ==
    ASSUME NEW t, NEW o, NEW n \in 1 .. W, WaitHyp(t, o), alloc_no_wrap(t,
           n)
    PROVE  FuncGoal(t, o)'
<1>1. FuncHyp(t, o) /\ o = Other(t) /\ o # t
    BY FuncHyps
<1>2. FuncHyp(o, t) /\ o = Other(t) /\ o # t
    BY FuncHyps
<1>3. FuncInvAt(t, o)'
    BY <1>1, WaitSizes, Domains, SMTT(30)
    DEF FuncHyp, alloc_no_wrap, pend, frame, SigInvAt, FuncInvAt, Registered
<1>4. FuncInvAt(o, t)'
    BY <1>2, WaitSizes, Domains, SMTT(30)
    DEF FuncHyp, alloc_no_wrap, pend, frame, SigInvAt, FuncInvAt, Registered
<1> QED
    BY <1>3, <1>4 DEF FuncGoal

\* commit keeps the function of a wait.
LEMMA Func_commit ==
    ASSUME NEW t, NEW o, NEW n \in 0 .. Size, WaitHyp(t, o), commit(t, n)
    PROVE  FuncGoal(t, o)'
<1>1. PICK v : spscring_atomic_store(t, "pos", v)
    BY DEF commit
<1>2. /\ sbloc'[t] \in {"pos", sbloc[t]} /\ sbloc'[o] = sbloc[o]
      /\ sigsize' = sigsize /\ sbval'[o] = sbval[o]
      /\ sbloc'[t] = sbloc[t] => sbval'[t] = sbval[t]
    BY <1>1, Domains DEF WaitHyp, spscring_atomic_store, pend
<1>3. /\ pc[t] = "idle" /\ pc'[t] = "sig_load" /\ pc'[o] = pc[o]
      /\ op'[o] = op[o]
      /\ UNCHANGED <<sigfunc, psize, pfunc, size, func, waiting>>
    BY Domains DEF WaitHyp, commit
<1>4. FuncHyp(t, o) /\ o = Other(t) /\ o # t
    BY FuncHyps
<1>5. FuncHyp(o, t) /\ o = Other(t) /\ o # t
    BY FuncHyps
<1>6. FuncInvAt(t, o)'
    BY <1>4, <1>2, <1>3, SMTT(30)
    DEF FuncHyp, SigInvAt, FuncInvAt, Registered
<1>7. FuncInvAt(o, t)'
    BY <1>5, <1>2, <1>3, SMTT(30)
    DEF FuncHyp, SigInvAt, FuncInvAt, Registered
<1> QED
    BY <1>6, <1>7 DEF FuncGoal

\* submit_wait keeps the function of a wait.
LEMMA Func_submit ==
    ASSUME NEW t, NEW o, NEW n \in 0 .. Size + 1, NEW f \in Funcs,
           WaitHyp(t, o), submit_wait(t, n, f)
    PROVE  FuncGoal(t, o)'
<1>1. FuncHyp(t, o) /\ o = Other(t) /\ o # t
    BY FuncHyps
<1>2. FuncHyp(o, t) /\ o = Other(t) /\ o # t
    BY FuncHyps
<1>3. FuncInvAt(t, o)'
    BY <1>1, WaitSizes, Domains, SMTT(30)
    DEF FuncHyp, submit_wait, ctx, pend, SigInvAt, FuncInvAt, Registered
<1>4. FuncInvAt(o, t)'
    BY <1>2, WaitSizes, Domains, SMTT(30)
    DEF FuncHyp, submit_wait, ctx, pend, SigInvAt, FuncInvAt, Registered
<1> QED
    BY <1>3, <1>4 DEF FuncGoal

\* abort_wait keeps the function of a wait.
LEMMA Func_abort_wait ==
    ASSUME NEW t, NEW o, WaitHyp(t, o), abort_wait(t)
    PROVE  FuncGoal(t, o)'
<1>1. FuncHyp(t, o) /\ o = Other(t) /\ o # t
    BY FuncHyps
<1>2. FuncHyp(o, t) /\ o = Other(t) /\ o # t
    BY FuncHyps
<1>3. FuncInvAt(t, o)'
    BY <1>1, WaitSizes, Domains, SMTT(30)
    DEF FuncHyp, abort_wait, ctx, pend, SigInvAt, FuncInvAt, Registered
<1>4. FuncInvAt(o, t)'
    BY <1>2, WaitSizes, Domains, SMTT(30)
    DEF FuncHyp, abort_wait, ctx, pend, SigInvAt, FuncInvAt, Registered
<1> QED
    BY <1>3, <1>4 DEF FuncGoal

\* sig_load keeps the function of a wait.
LEMMA Func_sig_load ==
    ASSUME NEW t, NEW o, WaitHyp(t, o), sig_load(t)
    PROVE  FuncGoal(t, o)'
<1>1. FuncHyp(t, o) /\ o = Other(t) /\ o # t
    BY FuncHyps
<1>2. FuncHyp(o, t) /\ o = Other(t) /\ o # t
    BY FuncHyps
<1>3. FuncInvAt(t, o)'
    BY <1>1, WaitSizes, Domains, SigLoopAt, SMTT(30)
    DEF FuncHyp, sig_load, LoadSig, ctx, pend, SigInvAt, FuncInvAt, Registered
<1>4. FuncInvAt(o, t)'
    BY <1>2, WaitSizes, Domains, SigLoopAt, SMTT(30)
    DEF FuncHyp, sig_load, LoadSig, ctx, pend, SigInvAt, FuncInvAt, Registered
<1> QED
    BY <1>3, <1>4 DEF FuncGoal

\* sig_check keeps the function of a wait.
LEMMA Func_sig_check ==
    ASSUME NEW t, NEW o, WaitHyp(t, o), sig_check(t)
    PROVE  FuncGoal(t, o)'
<1>1. /\ Return(t) \/ Goto(t, "sig_cas")
      /\ pc[t] = "sig_check"
      /\ UNCHANGED <<sigsize, sigfunc, sbloc, sbval, waiting>>
    BY DEF sig_check, pend
<1>2. FuncHyp(t, o) /\ o = Other(t) /\ o # t
    BY FuncHyps
<1>3. FuncHyp(o, t) /\ o = Other(t) /\ o # t
    BY FuncHyps
<1>4. FuncInvAt(t, o)'
    BY <1>2, <1>1, WaitSizes, Domains, ReturnAt, GotoAt, SMTT(30)
    DEF FuncHyp, SigInvAt, FuncInvAt, Registered
<1>5. FuncInvAt(o, t)'
    BY <1>3, <1>1, WaitSizes, Domains, ReturnAt, GotoAt, SMTT(30)
    DEF FuncHyp, SigInvAt, FuncInvAt, Registered
<1> QED
    BY <1>4, <1>5 DEF FuncGoal

\* sig_cas_ok keeps the function of a wait.
LEMMA Func_sig_cas_ok ==
    ASSUME NEW t, NEW o, WaitHyp(t, o), sig_cas_ok(t)
    PROVE  FuncGoal(t, o)'
<1>1. FuncHyp(t, o) /\ o = Other(t) /\ o # t
    BY FuncHyps
<1>2. FuncHyp(o, t) /\ o = Other(t) /\ o # t
    BY FuncHyps
<1>3. FuncInvAt(t, o)'
    BY <1>1, WaitSizes, Domains, GotoAt, SMTT(30)
    DEF FuncHyp, sig_cas_ok, ctx, pend, SigInvAt, FuncInvAt, Registered
<1>4. size[t] # 0 /\ size[t] # SIZE_MAX
    BY <1>1 DEF FuncHyp, sig_cas_ok, SigInvAt
<1>5. FuncInvAt(o, t)'
    BY <1>2, <1>4, WaitSizes, Domains, GotoAt, SMTT(30)
    DEF FuncHyp, sig_cas_ok, ctx, pend, SigInvAt, FuncInvAt, Registered
<1> QED
    BY <1>3, <1>5 DEF FuncGoal

\* sig_cas_fail keeps the function of a wait.
LEMMA Func_sig_cas_fail ==
    ASSUME NEW t, NEW o, WaitHyp(t, o), sig_cas_fail(t)
    PROVE  FuncGoal(t, o)'
<1>1. FuncHyp(t, o) /\ o = Other(t) /\ o # t
    BY FuncHyps
<1>2. FuncHyp(o, t) /\ o = Other(t) /\ o # t
    BY FuncHyps
<1>3. FuncInvAt(t, o)'
    BY <1>1, WaitSizes, Domains, SigLoopAt, SMTT(30)
    DEF FuncHyp, sig_cas_fail, ctx, pend, SigInvAt, FuncInvAt, Registered
<1>4. FuncInvAt(o, t)'
    BY <1>2, WaitSizes, Domains, SigLoopAt, SMTT(30)
    DEF FuncHyp, sig_cas_fail, ctx, pend, SigInvAt, FuncInvAt, Registered
<1> QED
    BY <1>3, <1>4 DEF FuncGoal

\* sig_read keeps the function of a wait.
LEMMA Func_sig_read ==
    ASSUME NEW t, NEW o, WaitHyp(t, o), sig_read(t)
    PROVE  FuncGoal(t, o)'
<1>1. FuncHyp(t, o) /\ o = Other(t) /\ o # t
    BY FuncHyps
<1>2. FuncHyp(o, t) /\ o = Other(t) /\ o # t
    BY FuncHyps
<1>3. FuncInvAt(t, o)'
    BY <1>1, WaitSizes, Domains, SMTT(30)
    DEF FuncHyp, sig_read, ctx, pend, SigInvAt, FuncInvAt, Registered
<1>4. FuncInvAt(o, t)'
    BY <1>2, WaitSizes, Domains, SMTT(30)
    DEF FuncHyp, sig_read, ctx, pend, SigInvAt, FuncInvAt, Registered
<1> QED
    BY <1>3, <1>4 DEF FuncGoal

\* sig_clear keeps the function of a wait.
LEMMA Func_sig_clear ==
    ASSUME NEW t, NEW o, WaitHyp(t, o), sig_clear(t)
    PROVE  FuncGoal(t, o)'
<1>1. FuncHyp(t, o) /\ o = Other(t) /\ o # t
    BY FuncHyps
<1>2. FuncHyp(o, t) /\ o = Other(t) /\ o # t
    BY FuncHyps
<1>3. FuncInvAt(t, o)'
    BY <1>1, WaitSizes, Domains, GotoAt, StoreAt, SMTT(30)
    DEF FuncHyp, sig_clear, ctx, SigInvAt, FuncInvAt, Registered
<1>4. FuncInvAt(o, t)'
    BY <1>2, WaitSizes, Domains, GotoAt, StoreAt, SMTT(30)
    DEF FuncHyp, sig_clear, ctx, SigInvAt, FuncInvAt, Registered
<1> QED
    BY <1>3, <1>4 DEF FuncGoal

\* sig_call keeps the function of a wait.
LEMMA Func_sig_call ==
    ASSUME NEW t, NEW o, WaitHyp(t, o), sig_call(t)
    PROVE  FuncGoal(t, o)'
<1>1. FuncHyp(t, o) /\ o = Other(t) /\ o # t
    BY FuncHyps
<1>2. FuncHyp(o, t) /\ o = Other(t) /\ o # t
    BY FuncHyps
<1>3. FuncInvAt(t, o)'
    BY <1>1, WaitSizes, Domains, ReturnAt, SMTT(30)
    DEF FuncHyp, sig_call, ctx, pend, SigInvAt, FuncInvAt, Registered
<1>4. FuncInvAt(o, t)'
    BY <1>2, WaitSizes, Domains, ReturnAt, SMTT(30)
    DEF FuncHyp, sig_call, ctx, pend, SigInvAt, FuncInvAt, Registered
<1> QED
    BY <1>3, <1>4 DEF FuncGoal

\* abort_load keeps the function of a wait.
LEMMA Func_abort_load ==
    ASSUME NEW t, NEW o, WaitHyp(t, o), abort_load(t)
    PROVE  FuncGoal(t, o)'
<1>1. FuncHyp(t, o) /\ o = Other(t) /\ o # t
    BY FuncHyps
<1>2. FuncHyp(o, t) /\ o = Other(t) /\ o # t
    BY FuncHyps
<1>3. FuncInvAt(t, o)'
    BY <1>1, WaitSizes, Domains, AbortLoopAt, SMTT(30)
    DEF FuncHyp, abort_load, LoadSig, ctx, pend, SigInvAt, FuncInvAt,
       Registered
<1>4. FuncInvAt(o, t)'
    BY <1>2, WaitSizes, Domains, AbortLoopAt, SMTT(30)
    DEF FuncHyp, abort_load, LoadSig, ctx, pend, SigInvAt, FuncInvAt,
       Registered
<1> QED
    BY <1>3, <1>4 DEF FuncGoal

\* abort_cas_ok keeps the function of a wait.
LEMMA Func_abort_cas_ok ==
    ASSUME NEW t, NEW o, WaitHyp(t, o), abort_cas_ok(t)
    PROVE  FuncGoal(t, o)'
<1>1. FuncHyp(t, o) /\ o = Other(t) /\ o # t
    BY FuncHyps
<1>2. FuncHyp(o, t) /\ o = Other(t) /\ o # t
    BY FuncHyps
<1>3. FuncInvAt(t, o)'
    BY <1>1, WaitSizes, Domains, AbortReturnAt, SMTT(30)
    DEF FuncHyp, abort_cas_ok, ctx, pend, SigInvAt, FuncInvAt, Registered
<1>4. FuncInvAt(o, t)'
    BY <1>2, WaitSizes, Domains, AbortReturnAt, SMTT(30)
    DEF FuncHyp, abort_cas_ok, ctx, pend, SigInvAt, FuncInvAt, Registered
<1> QED
    BY <1>3, <1>4 DEF FuncGoal

\* abort_cas_fail keeps the function of a wait.
LEMMA Func_abort_cas_fail ==
    ASSUME NEW t, NEW o, WaitHyp(t, o), abort_cas_fail(t)
    PROVE  FuncGoal(t, o)'
<1>1. FuncHyp(t, o) /\ o = Other(t) /\ o # t
    BY FuncHyps
<1>2. FuncHyp(o, t) /\ o = Other(t) /\ o # t
    BY FuncHyps
<1>3. FuncInvAt(t, o)'
    BY <1>1, WaitSizes, Domains, AbortLoopAt, SMTT(30)
    DEF FuncHyp, abort_cas_fail, ctx, pend, SigInvAt, FuncInvAt, Registered
<1>4. FuncInvAt(o, t)'
    BY <1>2, WaitSizes, Domains, AbortLoopAt, SMTT(30)
    DEF FuncHyp, abort_cas_fail, ctx, pend, SigInvAt, FuncInvAt, Registered
<1> QED
    BY <1>3, <1>4 DEF FuncGoal

\* set_func keeps the function of a wait.
LEMMA Func_set_func ==
    ASSUME NEW t, NEW o, WaitHyp(t, o), set_func(t)
    PROVE  FuncGoal(t, o)'
<1>1. FuncHyp(t, o) /\ o = Other(t) /\ o # t
    BY FuncHyps
<1>2. FuncHyp(o, t) /\ o = Other(t) /\ o # t
    BY FuncHyps
<1>3. FuncInvAt(t, o)'
    BY <1>1, WaitSizes, Domains, GotoAt, SMTT(30)
    DEF FuncHyp, set_func, ctx, pend, SigInvAt, FuncInvAt, Registered
<1>4. FuncInvAt(o, t)'
    BY <1>2, WaitSizes, Domains, GotoAt, SMTT(30)
    DEF FuncHyp, set_func, ctx, pend, SigInvAt, FuncInvAt, Registered
<1> QED
    BY <1>3, <1>4 DEF FuncGoal

\* first_check keeps the function of a wait.
LEMMA Func_first_check ==
    ASSUME NEW t, NEW o, WaitHyp(t, o), first_check(t),
           NewEnd(t) - pos[t] \in 0 .. Size
    PROVE  FuncGoal(t, o)'
<1>1. Return(t) \/ (psize[t] # 0 /\ Goto(t, "register"))
    BY SizeAssumption, SMTT(30) DEF first_check
<1>2. FuncHyp(t, o) /\ o = Other(t) /\ o # t
    BY FuncHyps
<1>3. FuncHyp(o, t) /\ o = Other(t) /\ o # t
    BY FuncHyps
<1>4. FuncInvAt(t, o)'
    BY <1>2, <1>1, WaitSizes, Domains, ReturnAt, GotoAt, SMTT(30)
    DEF FuncHyp, first_check, pend, SigInvAt, FuncInvAt, Registered
<1>5. FuncInvAt(o, t)'
    BY <1>3, <1>1, WaitSizes, Domains, ReturnAt, GotoAt, SMTT(30)
    DEF FuncHyp, first_check, pend, SigInvAt, FuncInvAt, Registered
<1> QED
    BY <1>4, <1>5 DEF FuncGoal

\* register keeps the function of a wait.
LEMMA Func_register ==
    ASSUME NEW t, NEW o, WaitHyp(t, o), register(t)
    PROVE  FuncGoal(t, o)'
<1>1. FuncHyp(t, o) /\ o = Other(t) /\ o # t
    BY FuncHyps
<1>2. FuncHyp(o, t) /\ o = Other(t) /\ o # t
    BY FuncHyps
<1>3. FuncInvAt(t, o)'
    BY <1>1, WaitSizes, Domains, GotoAt, StoreAt, SMTT(30)
    DEF FuncHyp, register, ctx, SigInvAt, FuncInvAt, Registered
<1>4. FuncInvAt(o, t)'
    BY <1>2, WaitSizes, Domains, GotoAt, StoreAt, SMTT(30)
    DEF FuncHyp, register, ctx, SigInvAt, FuncInvAt, Registered
<1> QED
    BY <1>3, <1>4 DEF FuncGoal

\* second_check keeps the function of a wait.
LEMMA Func_second_check ==
    ASSUME NEW t, NEW o, WaitHyp(t, o), second_check(t)
    PROVE  FuncGoal(t, o)'
<1>1. /\ Return(t) \/ Goto(t, "cancel")
      /\ pc[t] = "recheck"
      /\ UNCHANGED <<sigsize, sigfunc, sbloc, sbval, waiting>>
    BY DEF second_check, pend
<1>2. FuncHyp(t, o) /\ o = Other(t) /\ o # t
    BY FuncHyps
<1>3. FuncHyp(o, t) /\ o = Other(t) /\ o # t
    BY FuncHyps
<1>4. FuncInvAt(t, o)'
    BY <1>2, <1>1, WaitSizes, Domains, ReturnAt, GotoAt, SMTT(30)
    DEF FuncHyp, SigInvAt, FuncInvAt, Registered
<1>5. FuncInvAt(o, t)'
    BY <1>3, <1>1, WaitSizes, Domains, ReturnAt, GotoAt, SMTT(30)
    DEF FuncHyp, SigInvAt, FuncInvAt, Registered
<1> QED
    BY <1>4, <1>5 DEF FuncGoal

\* cancel keeps the function of a wait.
LEMMA Func_cancel ==
    ASSUME NEW t, NEW o, WaitHyp(t, o), cancel(t)
    PROVE  FuncGoal(t, o)'
<1>1. FuncHyp(t, o) /\ o = Other(t) /\ o # t
    BY FuncHyps
<1>2. FuncHyp(o, t) /\ o = Other(t) /\ o # t
    BY FuncHyps
<1>3. FuncInvAt(t, o)'
    BY <1>1, WaitSizes, Domains, ReturnAt, SMTT(30)
    DEF FuncHyp, cancel, ctx, pend, SigInvAt, FuncInvAt, Registered
<1>4. FuncInvAt(o, t)'
    BY <1>2, WaitSizes, Domains, ReturnAt, SMTT(30)
    DEF FuncHyp, cancel, ctx, pend, SigInvAt, FuncInvAt, Registered
<1> QED
    BY <1>3, <1>4 DEF FuncGoal

\* Flush keeps the function of a wait.
LEMMA Func_Flush ==
    ASSUME NEW t, NEW o, WaitHyp(t, o), Flush(t)
    PROVE  FuncGoal(t, o)'
<1>1. FuncHyp(t, o) /\ o = Other(t) /\ o # t
    BY FuncHyps
<1>2. FuncHyp(o, t) /\ o = Other(t) /\ o # t
    BY FuncHyps
<1>3. FuncInvAt(t, o)'
    BY <1>1, WaitSizes, Domains, SMTT(30)
    DEF FuncHyp, Flush, ctx, frame, SigInvAt, FuncInvAt, Registered
<1>4. FuncInvAt(o, t)'
    BY <1>2, WaitSizes, Domains, SMTT(30)
    DEF FuncHyp, Flush, ctx, frame, SigInvAt, FuncInvAt, Registered
<1> QED
    BY <1>3, <1>4 DEF FuncGoal

\* Every step keeps the function of a wait.
LEMMA FuncStep ==
    ASSUME NEW t, NEW o, WaitHyp(t, o), Step(t),
           NewEnd(t) - pos[t] \in 0 .. Size
    PROVE  FuncGoal(t, o)'
BY Func_alloc, Func_alloc_no_wrap, Func_commit, Func_submit, Func_abort_wait,
   Func_sig_load, Func_sig_check, Func_sig_cas_ok, Func_sig_cas_fail,
   Func_sig_read, Func_sig_clear, Func_sig_call, Func_abort_load,
   Func_abort_cas_ok, Func_abort_cas_fail, Func_set_func, Func_first_check,
   Func_register, Func_second_check, Func_cancel, Func_Flush, SMTT(30) DEF Step

-----------------------------------------------------------------------------

\* The types of the variables of a call, and of those in memory.
SigSize == 0 .. Size \cup {SIZE_MAX}

FrameTypeOK ==
    /\ pc \in [Side -> Label]
    /\ op \in [Side -> {"none", "commit", "abort", "submit"}]
    /\ psize \in [Side -> 0 .. Size]
    /\ pfunc \in [Side -> Funcs \cup {NoFunc}]
    /\ size \in [Side -> SigSize]
    /\ func \in [Side -> Funcs \cup {NoFunc}]

MemTypeOK ==
    /\ sigsize \in [Side -> SigSize]
    /\ sigfunc \in [Side -> Funcs \cup {NoFunc}]
    /\ sbloc \in [Side -> {"none", "pos", "own", "other"}]
    /\ sbval \in [Side -> 0 .. W - 1]
    /\ waiting \in [Side -> SUBSET Funcs]

\* What the preservation of the types by t rests on.
TypeHyp(t, o) ==
    /\ t \in Side /\ o \in Side /\ o # t /\ o = Other(t)
    /\ FrameTypeOK /\ MemTypeOK
    /\ SIZE_MAX \in SigSize /\ 0 \in 0 .. Size /\ 0 .. Size \subseteq SigSize
    /\ 0 \in 0 .. W - 1 /\ 0 .. Size \subseteq 0 .. W - 1
    /\ sigsize[o] \in SigSize /\ sigsize[t] \in SigSize
    /\ LoadSig(t, t) \in SigSize /\ LoadSig(t, o) \in SigSize
    /\ sbloc[t] \in {"own", "other"} => sbval[t] \in SigSize
    /\ pc[t] = "register" => pfunc[t] \in Funcs

TypeGoal == FrameTypeOK /\ MemTypeOK

\* These facts follow from the invariant.
LEMMA TypeHypHolds ==
    ASSUME NEW t, NEW o, WaitHyp(t, o)
    PROVE  TypeHyp(t, o)
<1>1. FrameTypeOK /\ MemTypeOK
    BY DEF WaitHyp, SigTypeOK, FrameTypeOK, MemTypeOK, SigSize
<1>2. /\ SIZE_MAX \in SigSize /\ 0 \in 0 .. Size /\ 0 .. Size \subseteq SigSize
      /\ 0 \in 0 .. W - 1 /\ 0 .. Size \subseteq 0 .. W - 1
      /\ WaitSize \subseteq SigSize
    BY SizeAssumption, WidthAssumption DEF SigSize, SIZE_MAX, WaitSize
<1>3. t \in Side /\ o \in Side /\ o # t /\ o = Other(t)
    BY DEF WaitHyp
<1>4. sigsize[o] \in SigSize /\ sigsize[t] \in SigSize
    BY <1>1, <1>3 DEF MemTypeOK
<1>5. /\ sbloc[t] = "own" => sbval[t] \in SigSize
      /\ sbloc[t] = "other" => sbval[t] \in SigSize
    BY <1>2 DEF WaitHyp, SigInvAt
<1>6. LoadSig(t, t) \in SigSize /\ LoadSig(t, o) \in SigSize
    BY <1>3, <1>4, <1>5 DEF LoadSig
<1>7. pc[t] = "register" => pfunc[t] \in Funcs
    BY DEF WaitHyp, FuncInvAt
<1> QED
    BY <1>1, <1>2, <1>3, <1>4, <1>5, <1>6, <1>7 DEF TypeHyp

\* Return keeps the types of the variables it changes.
LEMMA ReturnType ==
    ASSUME NEW t, NEW o, TypeHyp(t, o), Return(t)
    PROVE  FrameTypeOK'
BY DEF TypeHyp, FrameTypeOK, Return, Label

\* Goto keeps the types of the variables it changes.
LEMMA GotoType ==
    ASSUME NEW t, NEW o, NEW l \in Label, TypeHyp(t, o), Goto(t, l)
    PROVE  FrameTypeOK'
BY DEF TypeHyp, FrameTypeOK, Goto, frame

\* SigLoop keeps the types of the variables it changes.
LEMMA SigLoopType ==
    ASSUME NEW t, NEW o, NEW s \in SigSize, TypeHyp(t, o), SigLoop(t, s)
    PROVE  FrameTypeOK'
BY ReturnType DEF TypeHyp, FrameTypeOK, SigLoop, Label

\* AbortReturn keeps the types of the variables it changes.
LEMMA AbortReturnType ==
    ASSUME NEW t, NEW o, TypeHyp(t, o), AbortReturn(t)
    PROVE  FrameTypeOK'
BY ReturnType, GotoType DEF AbortReturn, Label

\* AbortLoop keeps the types of the variables it changes.
LEMMA AbortLoopType ==
    ASSUME NEW t, NEW o, NEW s \in SigSize, TypeHyp(t, o), AbortLoop(t, s)
    PROVE  FrameTypeOK'
BY AbortReturnType DEF TypeHyp, FrameTypeOK, AbortLoop, Label

\* An atomic store keeps the types of the variables it changes.
LEMMA StoreType ==
    ASSUME NEW t, NEW o, NEW l \in {"pos", "own", "other"}, NEW v \in 0 .. W - 1,
           l # "pos" => v \in SigSize, TypeHyp(t, o),
           spscring_atomic_store(t, l, v)
    PROVE  /\ sigsize' \in [Side -> SigSize]
           /\ sbloc' \in [Side -> {"none", "pos", "own", "other"}]
           /\ sbval' \in [Side -> 0 .. W - 1]
BY DEF TypeHyp, MemTypeOK, spscring_atomic_store, pend

\* The types are kept, by each of the actions.
LEMMA Type_alloc ==
    ASSUME NEW t, NEW o, NEW n \in 1 .. W, TypeHyp(t, o), alloc(t, n)
    PROVE  TypeGoal'
BY SMTT(30)
DEF TypeHyp, alloc, pend, frame, MemTypeOK, FrameTypeOK, TypeGoal

\* alloc_no_wrap keeps the types of the wait and signal variables.
LEMMA Type_alloc_no_wrap ==
    ASSUME NEW t, NEW o, NEW n \in 1 .. W, TypeHyp(t, o), alloc_no_wrap(t,
           n)
    PROVE  TypeGoal'
BY SMTT(30)
DEF TypeHyp, alloc_no_wrap, pend, frame, MemTypeOK, FrameTypeOK, TypeGoal

\* commit keeps the types of the wait and signal variables.
LEMMA Type_commit ==
    ASSUME NEW t, NEW o, NEW n \in 0 .. Size, TypeHyp(t, o), commit(t, n),
           spscring_atomic_store(t, "pos", Latest(t)'), Latest(t)' \in 0 .. W - 1
    PROVE  TypeGoal'
<1>1. /\ sigsize' \in [Side -> SigSize]
      /\ sbloc' \in [Side -> {"none", "pos", "own", "other"}]
      /\ sbval' \in [Side -> 0 .. W - 1]
    BY StoreType
<1>2. /\ pc' = [pc EXCEPT ![t] = "sig_load"]
      /\ op' = [op EXCEPT ![t] = "commit"]
      /\ UNCHANGED <<sigfunc, psize, pfunc, size, func, waiting>>
    BY DEF commit
<1>3. MemTypeOK'
    BY <1>1, <1>2 DEF TypeHyp, MemTypeOK
<1>4. FrameTypeOK'
    BY <1>2 DEF TypeHyp, FrameTypeOK, Label
<1> QED
    BY <1>3, <1>4 DEF TypeGoal

\* submit_wait keeps the types of the wait and signal variables.
LEMMA Type_submit ==
    ASSUME NEW t, NEW o, NEW n \in 0 .. Size + 1, NEW f \in Funcs,
           TypeHyp(t, o), submit_wait(t, n, f)
    PROVE  TypeGoal'
<1>1. MIN(n, Size) \in 0 .. Size
    BY SizeAssumption DEF MIN
<1> QED
    BY <1>1, SMTT(30)
    DEF TypeHyp, TypeGoal, submit_wait, pend, MemTypeOK, FrameTypeOK, Label

\* abort_wait keeps the types of the wait and signal variables.
LEMMA Type_abort_wait ==
    ASSUME NEW t, NEW o, TypeHyp(t, o), abort_wait(t)
    PROVE  TypeGoal'
BY SMTT(30)
DEF TypeHyp, abort_wait, pend, MemTypeOK, FrameTypeOK, Label, TypeGoal

\* sig_load keeps the types of the wait and signal variables.
LEMMA Type_sig_load ==
    ASSUME NEW t, NEW o, TypeHyp(t, o), sig_load(t)
    PROVE  TypeGoal'
BY SigLoopType, SMTT(30)
DEF TypeHyp, sig_load, pend, MemTypeOK, TypeGoal

\* sig_check keeps the types of the wait and signal variables.
LEMMA Type_sig_check ==
    ASSUME NEW t, NEW o, TypeHyp(t, o), sig_check(t)
    PROVE  TypeGoal'
BY ReturnType, GotoType, SMTT(30)
DEF TypeHyp, sig_check, pend, MemTypeOK, Label, TypeGoal

\* sig_cas_ok keeps the types of the wait and signal variables.
LEMMA Type_sig_cas_ok ==
    ASSUME NEW t, NEW o, TypeHyp(t, o), sig_cas_ok(t)
    PROVE  TypeGoal'
BY GotoType, SMTT(30)
DEF TypeHyp, sig_cas_ok, pend, MemTypeOK, Label, TypeGoal

\* sig_cas_fail keeps the types of the wait and signal variables.
LEMMA Type_sig_cas_fail ==
    ASSUME NEW t, NEW o, TypeHyp(t, o), sig_cas_fail(t)
    PROVE  TypeGoal'
BY SigLoopType, SMTT(30)
DEF TypeHyp, sig_cas_fail, pend, MemTypeOK, TypeGoal

\* sig_read keeps the types of the wait and signal variables.
LEMMA Type_sig_read ==
    ASSUME NEW t, NEW o, TypeHyp(t, o), sig_read(t)
    PROVE  TypeGoal'
BY SMTT(30)
DEF TypeHyp, sig_read, pend, MemTypeOK, FrameTypeOK, Label, TypeGoal

\* sig_clear keeps the types of the wait and signal variables.
LEMMA Type_sig_clear ==
    ASSUME NEW t, NEW o, TypeHyp(t, o), sig_clear(t)
    PROVE  TypeGoal'
BY GotoType, StoreType, SMTT(30)
DEF TypeHyp, sig_clear, MemTypeOK, Label, TypeGoal

\* sig_call keeps the types of the wait and signal variables.
LEMMA Type_sig_call ==
    ASSUME NEW t, NEW o, TypeHyp(t, o), sig_call(t)
    PROVE  TypeGoal'
BY ReturnType, SMTT(30)
DEF TypeHyp, sig_call, pend, MemTypeOK, TypeGoal

\* abort_load keeps the types of the wait and signal variables.
LEMMA Type_abort_load ==
    ASSUME NEW t, NEW o, TypeHyp(t, o), abort_load(t)
    PROVE  TypeGoal'
BY AbortLoopType, SMTT(30)
DEF TypeHyp, abort_load, pend, MemTypeOK, TypeGoal

\* abort_cas_ok keeps the types of the wait and signal variables.
LEMMA Type_abort_cas_ok ==
    ASSUME NEW t, NEW o, TypeHyp(t, o), abort_cas_ok(t)
    PROVE  TypeGoal'
BY AbortReturnType, SMTT(30)
DEF TypeHyp, abort_cas_ok, pend, MemTypeOK, TypeGoal

\* abort_cas_fail keeps the types of the wait and signal variables.
LEMMA Type_abort_cas_fail ==
    ASSUME NEW t, NEW o, TypeHyp(t, o), abort_cas_fail(t)
    PROVE  TypeGoal'
BY AbortLoopType, SMTT(30)
DEF TypeHyp, abort_cas_fail, pend, MemTypeOK, TypeGoal

\* set_func keeps the types of the wait and signal variables.
LEMMA Type_set_func ==
    ASSUME NEW t, NEW o, TypeHyp(t, o), set_func(t)
    PROVE  TypeGoal'
BY GotoType, SMTT(30)
DEF TypeHyp, set_func, pend, MemTypeOK, FrameTypeOK, Label, TypeGoal

\* first_check keeps the types of the wait and signal variables.
LEMMA Type_first_check ==
    ASSUME NEW t, NEW o, TypeHyp(t, o), first_check(t)
    PROVE  TypeGoal'
BY ReturnType, GotoType, SMTT(30)
DEF TypeHyp, first_check, pend, MemTypeOK, Label, TypeGoal

\* register keeps the types of the wait and signal variables.
LEMMA Type_register ==
    ASSUME NEW t, NEW o, TypeHyp(t, o), register(t)
    PROVE  TypeGoal'
BY GotoType, StoreType, SMTT(30)
DEF TypeHyp, register, MemTypeOK, FrameTypeOK, Label, TypeGoal

\* second_check keeps the types of the wait and signal variables.
LEMMA Type_second_check ==
    ASSUME NEW t, NEW o, TypeHyp(t, o), second_check(t)
    PROVE  TypeGoal'
BY ReturnType, GotoType, SMTT(30)
DEF TypeHyp, second_check, pend, MemTypeOK, Label, TypeGoal

\* cancel keeps the types of the wait and signal variables.
LEMMA Type_cancel ==
    ASSUME NEW t, NEW o, TypeHyp(t, o), cancel(t)
    PROVE  TypeGoal'
BY ReturnType, SMTT(30)
DEF TypeHyp, cancel, pend, MemTypeOK, TypeGoal

\* Flush keeps the types of the wait and signal variables.
LEMMA Type_Flush ==
    ASSUME NEW t, NEW o, TypeHyp(t, o), Flush(t)
    PROVE  TypeGoal'
BY SMTT(30)
DEF TypeHyp, Flush, frame, MemTypeOK, FrameTypeOK, TypeGoal

SigGoal(t, o) == SigInvAt(t, o) /\ SigInvAt(o, t)

\* The protocol is kept if no size is written and t is at a label its own size
\* allows.
LEMMA SigKept ==
    ASSUME NEW t, NEW o, WaitHyp(t, o), UNCHANGED <<sigsize, sbloc, sbval>>,
           pc'[o] = pc[o], size'[o] = size[o],
           pc[t] \notin {"sig_read", "sig_clear"},
           pc'[t] \notin {"sig_read", "sig_clear"},
           pc'[t] \in {"set", "check", "register"} =>
               sigsize[t] = 0 /\ sbloc[t] # "own",
           pc'[t] \in {"sig_check", "sig_cas", "abort_cas"} => size'[t] # 0,
           pc'[t] \in {"sig_cas", "abort_cas"} => size'[t] # SIZE_MAX
    PROVE  SigGoal(t, o)'
<1>1. SigInvAt(t, o)'
    BY DEF WaitHyp, SigInvAt
<1>2. SigInvAt(o, t)'
    BY DEF WaitHyp, SigInvAt
<1> QED
    BY <1>1, <1>2 DEF SigGoal

\* The protocol on the size of a wait is kept, by each of the actions.
LEMMA Sig_alloc ==
    ASSUME NEW t, NEW o, NEW n \in 1 .. W, WaitHyp(t, o), alloc(t, n)
    PROVE  SigGoal(t, o)'
<1>1. pc[t] = "idle" /\ UNCHANGED <<sigsize, sbloc, sbval, pc, size>>
    BY DEF alloc, pend, frame
<1> QED
    BY <1>1, SigKept

\* alloc_no_wrap keeps the protocol on the size of a wait.
LEMMA Sig_alloc_no_wrap ==
    ASSUME NEW t, NEW o, NEW n \in 1 .. W, WaitHyp(t, o), alloc_no_wrap(t,
           n)
    PROVE  SigGoal(t, o)'
<1>1. pc[t] = "idle" /\ UNCHANGED <<sigsize, sbloc, sbval, pc, size>>
    BY DEF alloc_no_wrap, pend, frame
<1> QED
    BY <1>1, SigKept

\* commit keeps the protocol on the size of a wait.
LEMMA Sig_commit ==
    ASSUME NEW t, NEW o, NEW n \in 0 .. Size, WaitHyp(t, o), commit(t, n)
    PROVE  SigGoal(t, o)'
<1>1. PICK v : spscring_atomic_store(t, "pos", v)
    BY DEF commit
<1>2. /\ sbloc'[t] \in {"pos", sbloc[t]} /\ sbloc'[o] = sbloc[o]
      /\ sigsize' = sigsize /\ sbval'[o] = sbval[o]
      /\ sbloc'[t] = sbloc[t] => sbval'[t] = sbval[t]
      /\ sbloc'[t] # sbloc[t] => sbloc[t] = "none"
    BY <1>1, Domains DEF WaitHyp, spscring_atomic_store, pend
<1>3. /\ pc[t] = "idle" /\ pc'[t] = "sig_load" /\ pc'[o] = pc[o]
      /\ UNCHANGED size
    BY Domains DEF WaitHyp, commit
<1> QED
    BY <1>2, <1>3, SMTT(30) DEF WaitHyp, SigGoal, SigInvAt

\* submit_wait keeps the protocol on the size of a wait.
LEMMA Sig_submit ==
    ASSUME NEW t, NEW o, NEW n \in 0 .. Size + 1, NEW f \in Funcs,
           WaitHyp(t, o), submit_wait(t, n, f)
    PROVE  SigGoal(t, o)'
<1>1. t \in Side /\ o \in Side /\ o # t /\ o = Other(t) /\ SigTypeOK
    BY DEF WaitHyp
<1>2. /\ pc[t] = "idle" /\ pc'[t] = "abort_load" /\ pc'[o] = pc[o]
      /\ UNCHANGED <<sigsize, sbloc, sbval, size>>
    BY <1>1, Domains DEF submit_wait, pend
<1> QED
    BY <1>2, SigKept

\* abort_wait keeps the protocol on the size of a wait.
LEMMA Sig_abort_wait ==
    ASSUME NEW t, NEW o, WaitHyp(t, o), abort_wait(t)
    PROVE  SigGoal(t, o)'
<1>1. t \in Side /\ o \in Side /\ o # t /\ o = Other(t) /\ SigTypeOK
    BY DEF WaitHyp
<1>2. /\ pc[t] = "idle" /\ pc'[t] = "abort_load" /\ pc'[o] = pc[o]
      /\ UNCHANGED <<sigsize, sbloc, sbval, size>>
    BY <1>1, Domains DEF abort_wait, pend
<1> QED
    BY <1>2, SigKept

\* sig_load keeps the protocol on the size of a wait.
LEMMA Sig_sig_load ==
    ASSUME NEW t, NEW o, WaitHyp(t, o), sig_load(t)
    PROVE  SigGoal(t, o)'
<1>1. t \in Side /\ o \in Side /\ o # t /\ o = Other(t) /\ SigTypeOK
    BY DEF WaitHyp
<1>2. /\ pc[t] = "sig_load" /\ SigLoop(t, LoadSig(t, o))
      /\ UNCHANGED <<sigsize, sbloc, sbval>>
    BY <1>1 DEF sig_load, pend
<1>3. /\ pc'[o] = pc[o] /\ size'[o] = size[o]
      /\ \/ pc'[t] = "idle"
         \/ pc'[t] = "sig_check" /\ size'[t] # 0
    BY <1>1, <1>2, SigLoopAt
<1> QED
    BY <1>2, <1>3, SigKept

\* sig_check keeps the protocol on the size of a wait.
LEMMA Sig_sig_check ==
    ASSUME NEW t, NEW o, WaitHyp(t, o), sig_check(t),
           NewEnd(t) - pos[t] \in 0 .. Size
    PROVE  SigGoal(t, o)'
<1>1. t \in Side /\ o \in Side /\ o # t /\ o = Other(t) /\ SigTypeOK
    BY DEF WaitHyp
<1>2. /\ Return(t) \/ (size[t] # SIZE_MAX /\ Goto(t, "sig_cas"))
      /\ pc[t] = "sig_check"
      /\ UNCHANGED <<sigsize, sbloc, sbval>>
    BY SizeAssumption, WidthAssumption, SMTT(30) DEF sig_check, pend, SIZE_MAX
<1>3. size[t] # 0
    BY <1>2 DEF WaitHyp, SigInvAt
<1>4. /\ pc'[o] = pc[o] /\ size'[o] = size[o]
      /\ \/ pc'[t] = "idle"
         \/ pc'[t] = "sig_cas" /\ size'[t] = size[t] /\ size[t] # SIZE_MAX
    BY <1>1, <1>2, ReturnAt, GotoAt
<1> QED
    BY <1>2, <1>3, <1>4, SigKept

\* sig_cas_ok keeps the protocol on the size of a wait.
LEMMA Sig_sig_cas_ok ==
    ASSUME NEW t, NEW o, WaitHyp(t, o), sig_cas_ok(t)
    PROVE  SigGoal(t, o)'
BY WaitSizes, Domains, GotoAt, SMTT(30)
DEF WaitHyp, sig_cas_ok, ctx, pend, SigGoal, SigInvAt

\* sig_cas_fail keeps the protocol on the size of a wait.
LEMMA Sig_sig_cas_fail ==
    ASSUME NEW t, NEW o, WaitHyp(t, o), sig_cas_fail(t)
    PROVE  SigGoal(t, o)'
<1>1. t \in Side /\ o \in Side /\ o # t /\ o = Other(t) /\ SigTypeOK
    BY DEF WaitHyp
<1>2. /\ pc[t] = "sig_cas" /\ SigLoop(t, sigsize[o])
      /\ UNCHANGED <<sigsize, sbloc, sbval>>
    BY <1>1 DEF sig_cas_fail, pend
<1>3. /\ pc'[o] = pc[o] /\ size'[o] = size[o]
      /\ \/ pc'[t] = "idle"
         \/ pc'[t] = "sig_check" /\ size'[t] # 0
    BY <1>1, <1>2, SigLoopAt
<1> QED
    BY <1>2, <1>3, SigKept

\* sig_read keeps the protocol on the size of a wait.
LEMMA Sig_sig_read ==
    ASSUME NEW t, NEW o, WaitHyp(t, o), sig_read(t)
    PROVE  SigGoal(t, o)'
BY WaitSizes, Domains, SMTT(30)
DEF WaitHyp, sig_read, ctx, pend, SigGoal, SigInvAt

\* sig_clear keeps the protocol on the size of a wait.
LEMMA Sig_sig_clear ==
    ASSUME NEW t, NEW o, WaitHyp(t, o), sig_clear(t)
    PROVE  SigGoal(t, o)'
BY WaitSizes, Domains, GotoAt, StoreAt, SMTT(30)
DEF WaitHyp, sig_clear, ctx, SigGoal, SigInvAt

\* sig_call keeps the protocol on the size of a wait.
LEMMA Sig_sig_call ==
    ASSUME NEW t, NEW o, WaitHyp(t, o), sig_call(t)
    PROVE  SigGoal(t, o)'
<1>1. t \in Side /\ o \in Side /\ o # t /\ o = Other(t) /\ SigTypeOK
    BY DEF WaitHyp
<1>2. pc[t] = "sig_call" /\ Return(t) /\ UNCHANGED <<sigsize, sbloc, sbval>>
    BY DEF sig_call, pend
<1>3. pc'[t] = "idle" /\ pc'[o] = pc[o] /\ size'[o] = size[o]
    BY <1>1, <1>2, ReturnAt
<1> QED
    BY <1>2, <1>3, SigKept

\* abort_load keeps the protocol on the size of a wait.
LEMMA Sig_abort_load ==
    ASSUME NEW t, NEW o, WaitHyp(t, o), abort_load(t)
    PROVE  SigGoal(t, o)'
<1>1. t \in Side /\ o \in Side /\ o # t /\ o = Other(t) /\ SigTypeOK
    BY DEF WaitHyp
<1>2. /\ pc[t] = "abort_load" /\ AbortLoop(t, LoadSig(t, t))
      /\ UNCHANGED <<sigsize, sbloc, sbval>>
    BY DEF abort_load, pend
<1>3. /\ pc'[o] = pc[o] /\ size'[o] = size[o]
      /\ \/ pc'[t] \in {"idle", "abort_load"}
         \/ pc'[t] = "set" /\ LoadSig(t, t) = 0
         \/ pc'[t] = "abort_cas" /\ size'[t] # 0 /\ size'[t] # SIZE_MAX
    BY <1>1, <1>2, AbortLoopAt
<1>4. LoadSig(t, t) = 0 => sigsize[t] = 0 /\ sbloc[t] # "own"
    BY <1>1, WaitSizes DEF WaitHyp, SigInvAt, LoadSig
<1> QED
    BY <1>2, <1>3, <1>4, SigKept

\* abort_cas_ok keeps the protocol on the size of a wait.
LEMMA Sig_abort_cas_ok ==
    ASSUME NEW t, NEW o, WaitHyp(t, o), abort_cas_ok(t)
    PROVE  SigGoal(t, o)'
<1>1. t \in Side /\ o \in Side /\ o # t /\ SigTypeOK
    BY DEF WaitHyp
<1>2. /\ pc'[t] \in {"idle", "set"} /\ pc'[o] = pc[o] /\ size'[o] = size[o]
      /\ sigsize[t] = size[t] /\ pc[t] = "abort_cas" /\ sbloc[t] = "none"
      /\ sbloc' = sbloc /\ sbval' = sbval
    BY <1>1, AbortReturnAt DEF abort_cas_ok, pend
<1>3. sigsize'[t] = 0 /\ sigsize'[o] = sigsize[o]
    BY <1>1, Domains DEF abort_cas_ok
<1>4. size[t] # SIZE_MAX /\ SIZE_MAX # 0
    BY <1>1, <1>2, WaitSizes DEF WaitHyp, SigInvAt
<1>5. ~(sbloc[o] = "other") /\ pc[o] \notin {"sig_read", "sig_clear"}
    BY <1>2, <1>4 DEF WaitHyp, SigInvAt
<1>6. SigInvAt(t, o)'
    BY <1>2, <1>3, <1>4, <1>5 DEF SigInvAt
<1>7. SigInvAt(o, t)'
    BY <1>2, <1>3 DEF WaitHyp, SigInvAt
<1> QED
    BY <1>6, <1>7 DEF SigGoal

\* abort_cas_fail keeps the protocol on the size of a wait.
LEMMA Sig_abort_cas_fail ==
    ASSUME NEW t, NEW o, WaitHyp(t, o), abort_cas_fail(t)
    PROVE  SigGoal(t, o)'
<1>1. t \in Side /\ o \in Side /\ o # t /\ o = Other(t) /\ SigTypeOK
    BY DEF WaitHyp
<1>2. /\ pc[t] = "abort_cas" /\ AbortLoop(t, sigsize[t])
      /\ UNCHANGED <<sigsize, sbloc, sbval>> /\ sbloc[t] = "none"
    BY DEF abort_cas_fail, pend
<1>3. /\ pc'[o] = pc[o] /\ size'[o] = size[o]
      /\ \/ pc'[t] \in {"idle", "abort_load"}
         \/ pc'[t] = "set" /\ sigsize[t] = 0
         \/ pc'[t] = "abort_cas" /\ size'[t] # 0 /\ size'[t] # SIZE_MAX
    BY <1>1, <1>2, AbortLoopAt
<1>4. sigsize[t] = 0 => sigsize[t] = 0 /\ sbloc[t] # "own"
    BY <1>2
<1> QED
    BY <1>2, <1>3, <1>4, SigKept

\* set_func keeps the protocol on the size of a wait.
LEMMA Sig_set_func ==
    ASSUME NEW t, NEW o, WaitHyp(t, o), set_func(t)
    PROVE  SigGoal(t, o)'
<1>1. t \in Side /\ o \in Side /\ o # t /\ o = Other(t) /\ SigTypeOK
    BY DEF WaitHyp
<1>2. /\ pc[t] = "set" /\ Goto(t, "check") /\ UNCHANGED <<sigsize, sbloc, sbval>>
    BY DEF set_func, pend
<1>3. pc'[t] = "check" /\ pc'[o] = pc[o] /\ size'[o] = size[o]
    BY <1>1, <1>2, GotoAt
<1>4. sigsize[t] = 0 /\ sbloc[t] # "own"
    BY <1>2 DEF WaitHyp, SigInvAt
<1> QED
    BY <1>2, <1>3, <1>4, SigKept

\* first_check keeps the protocol on the size of a wait.
LEMMA Sig_first_check ==
    ASSUME NEW t, NEW o, WaitHyp(t, o), first_check(t)
    PROVE  SigGoal(t, o)'
<1>1. t \in Side /\ o \in Side /\ o # t /\ o = Other(t) /\ SigTypeOK
    BY DEF WaitHyp
<1>2. /\ Return(t) \/ Goto(t, "register")
      /\ pc[t] = "check"
      /\ UNCHANGED <<sigsize, sbloc, sbval>>
    BY DEF first_check, pend
<1>3. pc'[t] \in {"idle", "register"} /\ pc'[o] = pc[o] /\ size'[o] = size[o]
    BY <1>1, <1>2, ReturnAt, GotoAt
<1>4. sigsize[t] = 0 /\ sbloc[t] # "own"
    BY <1>2 DEF WaitHyp, SigInvAt
<1> QED
    BY <1>2, <1>3, <1>4, SigKept

\* register keeps the protocol on the size of a wait.
LEMMA Sig_register ==
    ASSUME NEW t, NEW o, WaitHyp(t, o), register(t)
    PROVE  SigGoal(t, o)'
<1>1. psize[t] \in WaitSize
    BY WaitSizes DEF WaitHyp, register, FuncInvAt
<1>2. /\ IF StoreBuffer
         THEN /\ sbloc[t] = "none"
              /\ sbloc'[t] = "own" /\ sbval'[t] = psize[t]
              /\ sbloc'[o] = sbloc[o] /\ sbval'[o] = sbval[o]
              /\ sigsize' = sigsize
         ELSE /\ sbloc' = sbloc /\ sbval' = sbval
              /\ sigsize'[t] = psize[t] /\ sigsize'[o] = sigsize[o]
      /\ pc[t] = "register" /\ pc'[t] = "recheck" /\ pc'[o] = pc[o]
      /\ size' = size
    <2>1. /\ SigTypeOK /\ t \in Side /\ o \in Side /\ o # t /\ o = Other(t)
          /\ pc[t] = "register" /\ Goto(t, "recheck") /\ spscring_atomic_store(t, "own", psize[t])
        BY Zenon DEF WaitHyp, register
    <2>2. pc'[t] = "recheck" /\ pc'[o] = pc[o] /\ size' = size
        BY <2>1, GotoAt
    <2>3. IF StoreBuffer
          THEN /\ sbloc[t] = "none" /\ sbloc'[t] = "own" /\ sbval'[t] = psize[t]
               /\ sbloc'[o] = sbloc[o] /\ sbval'[o] = sbval[o]
               /\ sigsize' = sigsize
          ELSE /\ sbloc' = sbloc /\ sbval' = sbval
               /\ sigsize'[t] = psize[t] /\ sigsize'[o] = sigsize[o]
        BY <2>1, StoreAt
    <2> QED
        BY <2>1, <2>2, <2>3
<1> QED
    BY <1>1, <1>2, WaitSizes, SMTT(30) DEF WaitHyp, SigGoal, SigInvAt

\* second_check keeps the protocol on the size of a wait.
LEMMA Sig_second_check ==
    ASSUME NEW t, NEW o, WaitHyp(t, o), second_check(t)
    PROVE  SigGoal(t, o)'
<1>1. t \in Side /\ o \in Side /\ o # t /\ o = Other(t) /\ SigTypeOK
    BY DEF WaitHyp
<1>2. /\ Return(t) \/ Goto(t, "cancel")
      /\ pc[t] = "recheck"
      /\ UNCHANGED <<sigsize, sbloc, sbval>>
    BY DEF second_check, pend
<1>3. pc'[t] \in {"idle", "cancel"} /\ pc'[o] = pc[o] /\ size'[o] = size[o]
    BY <1>1, <1>2, ReturnAt, GotoAt
<1> QED
    BY <1>2, <1>3, SigKept

\* cancel keeps the protocol on the size of a wait.
LEMMA Sig_cancel ==
    ASSUME NEW t, NEW o, WaitHyp(t, o), cancel(t)
    PROVE  SigGoal(t, o)'
<1>1. t \in Side /\ o \in Side /\ o # t /\ SigTypeOK
    BY DEF WaitHyp
<1>2. /\ pc[t] = "cancel" /\ Return(t) /\ sbloc[t] = "none"
      /\ sbloc' = sbloc /\ sbval' = sbval
      /\ \/ sigsize' = [sigsize EXCEPT ![t] = 0] /\ sigsize[t] = psize[t]
         \/ sigsize' = sigsize
    BY DEF cancel, pend
<1>3. pc'[t] = "idle" /\ pc'[o] = pc[o] /\ size'[o] = size[o]
    BY <1>1, <1>2, ReturnAt
<1>4. psize[t] # SIZE_MAX /\ SIZE_MAX # 0
    BY <1>1, WaitSizes
<1>5. /\ sigsize'[o] = sigsize[o]
      /\ sigsize'[t] # sigsize[t] =>
            sigsize'[t] = 0 /\ sigsize[t] # SIZE_MAX
    BY <1>1, <1>2, <1>4, Domains
<1>6. SigInvAt(t, o)'
    BY <1>2, <1>3, <1>4, <1>5 DEF WaitHyp, SigInvAt
<1>7. SigInvAt(o, t)'
    BY <1>2, <1>3, <1>5 DEF WaitHyp, SigInvAt
<1> QED
    BY <1>6, <1>7 DEF SigGoal

\* Flush keeps the protocol on the size of a wait.
LEMMA Sig_Flush ==
    ASSUME NEW t, NEW o, WaitHyp(t, o), Flush(t)
    PROVE  SigGoal(t, o)'
BY WaitSizes, Domains, SMTT(30)
DEF WaitHyp, Flush, ctx, frame, SigGoal, SigInvAt

\* Every step keeps the types of the wait and signal variables.
LEMMA TypeStep ==
    ASSUME NEW t, NEW o, TypeHyp(t, o), Step(t),
           \A n \in 0 .. Size : commit(t, n) =>
               spscring_atomic_store(t, "pos", Latest(t)'),
           Latest(t)' \in 0 .. W - 1
    PROVE  TypeGoal'
BY Type_alloc, Type_alloc_no_wrap, Type_commit, Type_submit, Type_abort_wait,
   Type_sig_load, Type_sig_check, Type_sig_cas_ok, Type_sig_cas_fail,
   Type_sig_read, Type_sig_clear, Type_sig_call, Type_abort_load,
   Type_abort_cas_ok, Type_abort_cas_fail, Type_set_func, Type_first_check,
   Type_register, Type_second_check, Type_cancel, Type_Flush, SMTT(30) DEF Step

\* Every step keeps the protocol on the size of a wait.
LEMMA SigStep ==
    ASSUME NEW t, NEW o, WaitHyp(t, o), Step(t),
           NewEnd(t) - pos[t] \in 0 .. Size
    PROVE  SigGoal(t, o)'
BY Sig_alloc, Sig_alloc_no_wrap, Sig_commit, Sig_submit, Sig_abort_wait,
   Sig_sig_load, Sig_sig_check, Sig_sig_cas_ok, Sig_sig_cas_fail, Sig_sig_read,
   Sig_sig_clear, Sig_sig_call, Sig_abort_load, Sig_abort_cas_ok,
   Sig_abort_cas_fail, Sig_set_func, Sig_first_check, Sig_register,
   Sig_second_check, Sig_cancel, Sig_Flush, SMTT(30) DEF Step
=============================================================================
