------------------------------ MODULE SpscRing ------------------------------
(***************************************************************************)
(* The single-producer, single-consumer ring buffer of                     *)
(* lib/util/spscring.c.  The producer "p" and the consumer "c" are         *)
(* threads; every step below is one access to shared memory together with  *)
(* the local computation up to the next one.  The two halves of the file   *)
(* are mirror images of each other, so the steps take the thread t as a    *)
(* parameter, and the functions spscring_p_* and spscring_c_* are their    *)
(* two instances.                                                          *)
(*                                                                         *)
(* size_t arithmetic is modulo W (SIZE_MAX + 1).  Slots hold the position  *)
(* at which the producer wrote them, which identifies the item.            *)
(*                                                                         *)
(* The atomics use memory_order_release stores and memory_order_acquire    *)
(* loads.  On x86 both are plain moves, so a store waits in the store      *)
(* buffer of its thread while later loads are already performed.  With     *)
(* StoreBuffer = TRUE each thread has a buffer of one store; with FALSE    *)
(* memory is sequentially consistent.                                      *)
(***************************************************************************)
EXTENDS Integers, FiniteSets

CONSTANTS
    Size,         \* the number of slots, spscring_init's size
    W,            \* SIZE_MAX + 1
    Funcs,        \* the signal functions (with their argument)
    NoFunc,       \* the null pointer
    Waiters,      \* the threads that submit waits
    StoreBuffer   \* whether stores are buffered

\* spscring_init: assert(size <= SIZE_MAX / 2 + 1); a ring of size 0 fails the
\* assertion pos < size of every operation.  size_t has at least 16 bits, so that
\* SIZE_MAX is not the size of a wait.
ASSUME SizeAssumption == Size \in Nat \ {0}
ASSUME WidthAssumption == W \in Nat /\ 2 * Size <= W /\ 4 <= W
ASSUME FuncAssumption == NoFunc \notin Funcs
ASSUME BufferAssumption == StoreBuffer \in BOOLEAN

VARIABLES
    base, pos, end,     \* ctx of each thread
    apos,               \* the atomic pos of each thread
    sigsize, sigfunc,   \* sig of each thread: atomic size, (func, arg)
    sbloc, sbval,       \* the store buffer of each thread
    pc,                 \* where each thread is
    op,                 \* the operation it is in
    psize, pfunc,       \* the parameters of submit_wait
    size, func,         \* the local variables of abort_wait and pc_signal
    slots,              \* the buffer indexed by the ring
    waiting             \* history: the functions with a wait in progress

ctx == <<base, pos, end>>
pend == <<sbloc, sbval>>
frame == <<op, psize, pfunc, size, func>>
vars == <<base, pos, end, apos, sigsize, sigfunc, sbloc, sbval, pc,
          op, psize, pfunc, size, func, slots, waiting>>

Side == {"p", "c"}
Other(t) == IF t = "p" THEN "c" ELSE "p"

SIZE_MAX == W - 1

WrapAdd(a, b) == IF a + b >= W THEN a + b - W ELSE a + b
WrapSub(a, b) == IF a >= b THEN a - b ELSE a - b + W
MIN(a, b) == IF a < b THEN a ELSE b

\* The slot of an offset with respect to base.
Slot(i) == IF i >= Size THEN i - Size ELSE i

Init ==
    /\ base = [t \in Side |-> 0]
    /\ pos = [t \in Side |-> 0]
    /\ end = [t \in Side |-> 0]
    /\ apos = [t \in Side |-> 0]
    /\ sigsize = [t \in Side |-> 0]
    /\ sigfunc = [t \in Side |-> NoFunc]
    /\ sbloc = [t \in Side |-> "none"]
    /\ sbval = [t \in Side |-> 0]
    /\ pc = [t \in Side |-> "idle"]
    /\ op = [t \in Side |-> "none"]
    /\ psize = [t \in Side |-> 0]
    /\ pfunc = [t \in Side |-> NoFunc]
    /\ size = [t \in Side |-> 0]
    /\ func = [t \in Side |-> NoFunc]
    /\ slots = [i \in 0 .. Size - 1 |-> W]
    /\ waiting = [t \in Side |-> {}]

-----------------------------------------------------------------------------
(* The atomic operations. *)

\* atomic_store(release) to apos[t] ("pos"), sigsize[t] ("own") or
\* sigsize[Other(t)] ("other").
spscring_atomic_store(t, loc, val) ==
    IF StoreBuffer
    THEN /\ sbloc[t] = "none"
         /\ sbloc' = [sbloc EXCEPT ![t] = loc]
         /\ sbval' = [sbval EXCEPT ![t] = val]
         /\ UNCHANGED <<apos, sigsize>>
    ELSE /\ apos' = IF loc = "pos" THEN [apos EXCEPT ![t] = val] ELSE apos
         /\ sigsize' = CASE loc = "own" -> [sigsize EXCEPT ![t] = val]
                         [] loc = "other" -> [sigsize EXCEPT ![Other(t)] = val]
                         [] OTHER -> sigsize
         /\ UNCHANGED pend

\* The buffered store of t reaches memory.
Flush(t) ==
    /\ sbloc[t] # "none"
    /\ sbloc' = [sbloc EXCEPT ![t] = "none"]
    /\ sbval' = [sbval EXCEPT ![t] = 0]
    /\ apos' = IF sbloc[t] = "pos"
               THEN [apos EXCEPT ![t] = sbval[t]] ELSE apos
    /\ sigsize' = CASE sbloc[t] = "own" ->
                            [sigsize EXCEPT ![t] = sbval[t]]
                    [] sbloc[t] = "other" ->
                            [sigsize EXCEPT ![Other(t)] = sbval[t]]
                    [] OTHER -> sigsize
    /\ UNCHANGED <<ctx, sigfunc, pc, frame, slots, waiting>>

\* atomic_load(acquire) of the signal size of s by t: t sees its own store.
LoadSig(t, s) ==
    IF \/ sbloc[t] = "own" /\ s = t
       \/ sbloc[t] = "other" /\ s # t
    THEN sbval[t]
    ELSE sigsize[s]

-----------------------------------------------------------------------------
(* The operations on the private context. *)

\* Mutant: one slot too many for the producer.
NewEndOffByOne(t) ==
    IF t = "p"
    THEN WrapSub(WrapAdd(apos["c"], Size + 1), base["p"])
    ELSE WrapSub(apos["p"], base["c"])

\* Mutant: the consumer computes the end as the producer does.
NewEndCopied(t) ==
    WrapSub(WrapAdd(apos[Other(t)], Size), base[t])

\* The new end after spscring_p_capacity or spscring_c_capacity.
NewEnd(t) ==
    IF t = "p"
    THEN WrapSub(WrapAdd(apos["c"], Size), base["p"])
    ELSE WrapSub(apos["p"], base["c"])

Refresh(t) == end' = [end EXCEPT ![t] = NewEnd(t)]

Return(t) ==
    /\ pc' = [pc EXCEPT ![t] = "idle"]
    /\ op' = [op EXCEPT ![t] = "none"]
    /\ psize' = [psize EXCEPT ![t] = 0]
    /\ pfunc' = [pfunc EXCEPT ![t] = NoFunc]
    /\ size' = [size EXCEPT ![t] = 0]
    /\ func' = [func EXCEPT ![t] = NoFunc]

Goto(t, l) == pc' = [pc EXCEPT ![t] = l] /\ UNCHANGED frame

\* Mutant: the request is granted without looking at the other thread.
allocUnchecked(t, n) ==
    /\ pc[t] = "idle"
    /\ n > end[t] - pos[t]
    /\ end' = [end EXCEPT ![t] = pos[t] + MIN(n, Size)]
    /\ UNCHANGED <<base, pos, apos, sigsize, sigfunc, pend, pc, frame, slots,
                   waiting>>

\* spscring_alloc and spscring_capacity: refresh the end if the request exceeds
\* what is known to be available (capacity always refreshes: request W).
alloc(t, n) ==
    /\ pc[t] = "idle"
    /\ n > end[t] - pos[t]
    /\ Refresh(t)
    /\ UNCHANGED <<base, pos, apos, sigsize, sigfunc, pend, pc, frame, slots,
                   waiting>>

\* spscring_alloc_no_wrap: the end is refreshed only if it does not reach the
\* end of the buffer yet.
alloc_no_wrap(t, n) ==
    /\ pc[t] = "idle"
    /\ n > MIN(end[t], Size) - pos[t]
    /\ end[t] < Size
    /\ Refresh(t)
    /\ UNCHANGED <<base, pos, apos, sigsize, sigfunc, pend, pc, frame, slots,
                   waiting>>

\* spscring_commit up to the store of pos: the user has filled (or read) n
\* slots.  The signal follows.
commit(t, n) ==
    LET wrap == pos[t] + n >= Size
        base1 == IF wrap THEN WrapAdd(base[t], Size) ELSE base[t]
        pos1 == IF wrap THEN pos[t] + n - Size ELSE pos[t] + n
    IN  /\ pc[t] = "idle"
        /\ n <= end[t] - pos[t]
        /\ base' = [base EXCEPT ![t] = base1]
        /\ pos' = [pos EXCEPT ![t] = pos1]
        /\ end' = [end EXCEPT ![t] = IF wrap THEN @ - Size ELSE @]
        /\ slots' =
             IF t = "p"
             THEN [i \in 0 .. Size - 1 |->
                     IF \E k \in 0 .. n - 1 : Slot(pos[t] + k) = i
                     THEN WrapAdd(base[t], IF i < pos[t] THEN i + Size ELSE i)
                     ELSE slots[i]]
             ELSE slots
        /\ spscring_atomic_store(t, "pos", WrapAdd(base1, pos1))
        /\ pc' = [pc EXCEPT ![t] = "sig_load"]
        /\ op' = [op EXCEPT ![t] = "commit"]
        /\ UNCHANGED <<sigfunc, psize, pfunc, size, func, waiting>>

-----------------------------------------------------------------------------
(* spscring_pc_signal (t = "p") and spscring_cp_signal (t = "c"). *)

\* while (size): the loop test on the value s just read.
SigLoop(t, s) ==
    IF s = 0
    THEN Return(t)
    ELSE /\ pc' = [pc EXCEPT ![t] = "sig_check"]
         /\ size' = [size EXCEPT ![t] = s]
         /\ UNCHANGED <<op, psize, pfunc, func>>

sig_load(t) ==
    /\ pc[t] = "sig_load"
    /\ SigLoop(t, LoadSig(t, Other(t)))
    /\ UNCHANGED <<ctx, apos, sigsize, sigfunc, pend, slots, waiting>>

\* Mutant: a wait for exactly the available number of slots is not signalled.
sig_checkOffByOne(t) ==
    /\ pc[t] = "sig_check"
    /\ Refresh(t)
    /\ IF size[t] >= Size - (NewEnd(t) - pos[t])
       THEN Return(t)
       ELSE Goto(t, "sig_cas")
    /\ UNCHANGED <<base, pos, apos, sigsize, sigfunc, pend, slots, waiting>>

sig_check(t) ==
    /\ pc[t] = "sig_check"
    /\ Refresh(t)
    /\ IF size[t] > Size - (NewEnd(t) - pos[t])
       THEN Return(t)
       ELSE Goto(t, "sig_cas")
    /\ UNCHANGED <<base, pos, apos, sigsize, sigfunc, pend, slots, waiting>>

\* Mutant: a plain store instead of a compare-exchange.
sig_casStore(t) ==
    /\ pc[t] = "sig_cas"
    /\ sbloc[t] = "none"
    /\ sigsize' = [sigsize EXCEPT ![Other(t)] = SIZE_MAX]
    /\ Goto(t, "sig_read")
    /\ UNCHANGED <<ctx, apos, sigfunc, pend, slots, waiting>>

sig_cas_ok(t) ==
    /\ pc[t] = "sig_cas"
    /\ sbloc[t] = "none"
    /\ sigsize[Other(t)] = size[t]
    /\ sigsize' = [sigsize EXCEPT ![Other(t)] = SIZE_MAX]
    /\ Goto(t, "sig_read")
    /\ UNCHANGED <<ctx, apos, sigfunc, pend, slots, waiting>>

\* compare_exchange_weak may fail although the values are equal.
sig_cas_fail(t) ==
    /\ pc[t] = "sig_cas"
    /\ sbloc[t] = "none"
    /\ SigLoop(t, sigsize[Other(t)])
    /\ UNCHANGED <<ctx, apos, sigsize, sigfunc, pend, slots, waiting>>

sig_read(t) ==
    /\ pc[t] = "sig_read"
    /\ func' = [func EXCEPT ![t] = sigfunc[Other(t)]]
    /\ pc' = [pc EXCEPT ![t] = "sig_clear"]
    /\ UNCHANGED <<op, psize, pfunc, size, ctx, apos, sigsize, sigfunc, pend,
                   slots, waiting>>

\* Mutant: the wait is not released after the function was read.
sig_clearForgotten(t) ==
    /\ pc[t] = "sig_clear"
    /\ Goto(t, "sig_call")
    /\ UNCHANGED <<ctx, apos, sigsize, sigfunc, pend, slots, waiting>>

sig_clear(t) ==
    /\ pc[t] = "sig_clear"
    /\ spscring_atomic_store(t, "other", 0)
    /\ Goto(t, "sig_call")
    /\ UNCHANGED <<ctx, sigfunc, slots, waiting>>

sig_call(t) ==
    /\ pc[t] = "sig_call"
    /\ waiting' = [waiting EXCEPT ![Other(t)] = @ \ {func[t]}]
    /\ Return(t)
    /\ UNCHANGED <<ctx, apos, sigsize, sigfunc, pend, slots>>

-----------------------------------------------------------------------------
(* spscring_abort_wait and spscring_submit_wait. *)

\* The call of abort_wait by the user.
abort_wait(t) ==
    /\ pc[t] = "idle"
    /\ t \in Waiters
    /\ pc' = [pc EXCEPT ![t] = "abort_load"]
    /\ op' = [op EXCEPT ![t] = "abort"]
    /\ UNCHANGED <<psize, pfunc, size, func, ctx, apos, sigsize, sigfunc, pend,
                   slots, waiting>>

\* The call of submit_wait by the user, with a signal function that is not
\* waiting: size = MIN(size, ctx->size), then abort the previous wait.
submit_wait(t, n, f) ==
    /\ pc[t] = "idle"
    /\ t \in Waiters
    /\ f \notin waiting[t]
    /\ pc' = [pc EXCEPT ![t] = "abort_load"]
    /\ op' = [op EXCEPT ![t] = "submit"]
    /\ psize' = [psize EXCEPT ![t] = MIN(n, Size)]
    /\ pfunc' = [pfunc EXCEPT ![t] = f]
    /\ UNCHANGED <<size, func, ctx, apos, sigsize, sigfunc, pend, slots,
                   waiting>>

\* abort_wait returns, to the user or to submit_wait.
AbortReturn(t) ==
    IF op[t] = "abort" THEN Return(t) ELSE Goto(t, "set")

\* Mutant: abort_wait does not wait for the other thread at SIZE_MAX.
AbortLoopNoWait(t, s) ==
    IF s \in {0, SIZE_MAX}
    THEN AbortReturn(t)
    ELSE /\ pc' = [pc EXCEPT ![t] = "abort_cas"]
         /\ size' = [size EXCEPT ![t] = s]
         /\ UNCHANGED <<op, psize, pfunc, func>>

\* while (size) of abort_wait: 0 ends it, SIZE_MAX is read again.
AbortLoop(t, s) ==
    IF s = 0
    THEN AbortReturn(t)
    ELSE /\ pc' = [pc EXCEPT ![t] =
                     IF s = SIZE_MAX THEN "abort_load" ELSE "abort_cas"]
         /\ size' = [size EXCEPT ![t] = s]
         /\ UNCHANGED <<op, psize, pfunc, func>>

abort_load(t) ==
    /\ pc[t] = "abort_load"
    /\ AbortLoop(t, LoadSig(t, t))
    /\ UNCHANGED <<ctx, apos, sigsize, sigfunc, pend, slots, waiting>>

abort_cas_ok(t) ==
    /\ pc[t] = "abort_cas"
    /\ sbloc[t] = "none"
    /\ sigsize[t] = size[t]
    /\ sigsize' = [sigsize EXCEPT ![t] = 0]
    /\ waiting' = [waiting EXCEPT ![t] = @ \ {sigfunc[t]}]
    /\ AbortReturn(t)
    /\ UNCHANGED <<ctx, apos, sigfunc, pend, slots>>

abort_cas_fail(t) ==
    /\ pc[t] = "abort_cas"
    /\ sbloc[t] = "none"
    /\ AbortLoop(t, sigsize[t])
    /\ UNCHANGED <<ctx, apos, sigsize, sigfunc, pend, slots, waiting>>

\* sig->func = func; sig->arg = arg;
set_func(t) ==
    /\ pc[t] = "set"
    /\ sigfunc' = [sigfunc EXCEPT ![t] = pfunc[t]]
    /\ Goto(t, "check")
    /\ UNCHANGED <<ctx, apos, sigsize, pend, slots, waiting>>

\* Check if the wait condition is already satisfied.
first_check(t) ==
    /\ pc[t] = "check"
    /\ Refresh(t)
    /\ IF psize[t] <= NewEnd(t) - pos[t]
       THEN Return(t)
       ELSE Goto(t, "register")
    /\ UNCHANGED <<base, pos, apos, sigsize, sigfunc, pend, slots, waiting>>

\* Register the wait with the other thread.
register(t) ==
    /\ pc[t] = "register"
    /\ spscring_atomic_store(t, "own", psize[t])
    /\ waiting' = [waiting EXCEPT ![t] = @ \cup {pfunc[t]}]
    /\ Goto(t, "recheck")
    /\ UNCHANGED <<ctx, sigfunc, slots>>

\* Mutant: submit_wait returns without checking again.
second_checkForgotten(t) ==
    /\ pc[t] = "recheck"
    /\ Return(t)
    /\ UNCHANGED <<ctx, apos, sigsize, sigfunc, pend, slots, waiting>>

\* Check if the other thread has already satisfied the wait condition.
second_check(t) ==
    /\ pc[t] = "recheck"
    /\ Refresh(t)
    /\ IF psize[t] <= NewEnd(t) - pos[t]
       THEN Goto(t, "cancel")
       ELSE Return(t)
    /\ UNCHANGED <<base, pos, apos, sigsize, sigfunc, pend, slots, waiting>>

\* compare_exchange_strong(&sig->size, &size, 0): 0 if it succeeds, else 1.
cancel(t) ==
    /\ pc[t] = "cancel"
    /\ sbloc[t] = "none"
    /\ IF sigsize[t] = psize[t]
       THEN /\ sigsize' = [sigsize EXCEPT ![t] = 0]
            /\ waiting' = [waiting EXCEPT ![t] = @ \ {pfunc[t]}]
       ELSE UNCHANGED <<sigsize, waiting>>
    /\ Return(t)
    /\ UNCHANGED <<ctx, apos, sigfunc, pend, slots>>

-----------------------------------------------------------------------------
(* The interface functions, and the steps of a call that has begun. *)

spscring_p_alloc == \E n \in 1 .. W : alloc("p", n)
spscring_c_alloc == \E n \in 1 .. W : alloc("c", n)
spscring_p_alloc_no_wrap == \E n \in 1 .. W : alloc_no_wrap("p", n)
spscring_c_alloc_no_wrap == \E n \in 1 .. W : alloc_no_wrap("c", n)
spscring_p_commit == \E n \in 0 .. Size : commit("p", n)
spscring_c_commit == \E n \in 0 .. Size : commit("c", n)
spscring_p_submit_wait ==
    \E n \in 0 .. Size + 1, f \in Funcs : submit_wait("p", n, f)
spscring_c_submit_wait ==
    \E n \in 0 .. Size + 1, f \in Funcs : submit_wait("c", n, f)
spscring_p_abort_wait == abort_wait("p")
spscring_c_abort_wait == abort_wait("c")

Signal(t) ==
    \/ sig_load(t) \/ sig_check(t) \/ sig_cas_ok(t) \/ sig_cas_fail(t)
    \/ sig_read(t) \/ sig_clear(t) \/ sig_call(t)

spscring_pc_signal == Signal("p")
spscring_cp_signal == Signal("c")

Wait(t) ==
    \/ abort_load(t) \/ abort_cas_ok(t) \/ abort_cas_fail(t)
    \/ set_func(t) \/ first_check(t) \/ register(t) \/ second_check(t)
    \/ cancel(t)

Next ==
    \/ spscring_p_alloc \/ spscring_c_alloc
    \/ spscring_p_alloc_no_wrap \/ spscring_c_alloc_no_wrap
    \/ spscring_p_commit \/ spscring_c_commit
    \/ spscring_p_submit_wait \/ spscring_c_submit_wait
    \/ spscring_p_abort_wait \/ spscring_c_abort_wait
    \/ spscring_pc_signal \/ spscring_cp_signal
    \/ Wait("p") \/ Wait("c")
    \/ Flush("p") \/ Flush("c")

Spec == Init /\ [][Next]_vars

\* A thread that has begun a call runs on, a weak compare-exchange does not
\* fail for ever, and a buffered store reaches memory.
Fairness ==
    \A t \in Side :
        /\ WF_vars(Signal(t) \/ Wait(t))
        /\ SF_vars(sig_cas_ok(t))
        /\ SF_vars(abort_cas_ok(t))
        /\ WF_vars(Flush(t))

FairSpec == Spec /\ Fairness

-----------------------------------------------------------------------------
(* Properties. *)

\* The position of t as t knows it, and the number of slots t could claim.
Latest(t) == WrapAdd(base[t], pos[t])
Used == WrapSub(Latest("p"), Latest("c"))
Avail(t) == IF t = "p" THEN Size - Used ELSE Used

\* The slots t may access: what alloc returns lies in pos .. end - 1.
Region(t) == {Slot(pos[t] + k) : k \in 0 .. end[t] - pos[t] - 1}

Label ==
    {"idle", "sig_load", "sig_check", "sig_cas", "sig_read", "sig_clear",
     "sig_call", "abort_load", "abort_cas", "set", "check", "register",
     "recheck", "cancel"}

CtxTypeOK ==
    /\ base \in [Side -> 0 .. W - 1]
    /\ pos \in [Side -> 0 .. Size - 1]
    /\ end \in [Side -> 0 .. 2 * Size - 1]
    /\ apos \in [Side -> 0 .. W - 1]

SigTypeOK ==
    /\ sigsize \in [Side -> 0 .. Size \cup {SIZE_MAX}]
    /\ sigfunc \in [Side -> Funcs \cup {NoFunc}]
    /\ sbloc \in [Side -> {"none", "pos", "own", "other"}]
    /\ sbval \in [Side -> 0 .. W - 1]
    /\ pc \in [Side -> Label]
    /\ op \in [Side -> {"none", "commit", "abort", "submit"}]
    /\ psize \in [Side -> 0 .. Size]
    /\ pfunc \in [Side -> Funcs \cup {NoFunc}]
    /\ size \in [Side -> 0 .. Size \cup {SIZE_MAX}]
    /\ func \in [Side -> Funcs \cup {NoFunc}]
    /\ waiting \in [Side -> SUBSET Funcs]

\* The variables have the types of struct spscring: positions are size_t, the
\* requested size of a wait is 0, a number of slots or SIZE_MAX.
TypeOK == CtxTypeOK /\ SigTypeOK /\ slots \in [0 .. Size - 1 -> 0 .. W]

\* No slot is in the hands of both threads: whatever the producer may still
\* write, from its possibly stale copy of the position of the consumer, the
\* consumer may not read, and conversely.
RegionsDisjoint == Region("p") \cap Region("c") = {}

\* The assertions at the head of every operation, and those of the capacity
\* functions on the end they are about to compute.
CtxAsserts ==
    \A t \in Side :
        /\ pos[t] < Size
        /\ pos[t] <= end[t] /\ end[t] - pos[t] <= Size
        /\ pos[t] <= NewEnd(t) /\ NewEnd(t) - pos[t] <= Size

\* The function pointer and its argument are not written by their owner while
\* the other thread is reading them (SIZE_MAX keeps the owner in abort_wait).
FuncArgExclusive ==
    \A t \in Side : ~(pc[t] = "set" /\ pc[Other(t)] = "sig_read")

\* A signal function is invoked only for a wait that was submitted, and neither
\* cancelled by abort_wait nor answered with 0 by submit_wait.
SignalOnlyWaiting ==
    \A t \in Side :
        pc[t] = "sig_call" =>
            func[t] \in waiting[Other(t)]

\* assert(size == 0 || size == SIZE_MAX) after the failed compare-exchange of
\* submit_wait.
CancelAssert ==
    \A t \in Side :
        pc[t] = "cancel" /\ sbloc[t] = "none" =>
            sigsize[t] \in {psize[t], 0, SIZE_MAX}

\* Without a store buffer, a registered wait whose condition holds is about to
\* be noticed: by its owner, who has still to check again, or by the other
\* thread, which is on its way to signal it.
WakeupPending ==
    ~StoreBuffer =>
        \A t \in Side :
            /\ sigsize[t] \in 1 .. Size
            /\ sigsize[t] <= Avail(t)
            => \/ pc[t] \in {"recheck", "cancel"}
               \/ pc[Other(t)] \in {"sig_load", "sig_check", "sig_cas"}

\* spscring.h: submit_wait "registers a signal function to be invoked once the
\* requested range becomes available": no wait stays registered for ever while
\* its condition is satisfied.
SatisfiedWaitIsSignalled ==
    \A t \in Side :
        (sigsize[t] \in 1 .. Size /\ sigsize[t] <= Avail(t))
            ~> ~(sigsize[t] \in 1 .. Size /\ sigsize[t] <= Avail(t))

\* Every call of submit_wait, abort_wait and commit returns (the functions are
\* "lock-free" and "MAY busy-wait" on SIZE_MAX only while the other reads).
CallsReturn == \A t \in Side : pc[t] # "idle" ~> pc[t] = "idle"

\* The ring implements a bounded FIFO queue.
Fifo == INSTANCE BoundedFifo WITH
            Capacity <- Size, Modulus <- W,
            queue <- [i \in 1 .. Used |-> slots[Slot(pos["c"] + i - 1)]],
            put <- Latest("p")

\* The producer's commit appends the items to the queue and the consumer's
\* removes them from its front; nothing else changes the queue.
ImplementsFifo == Fifo!Spec
=============================================================================
