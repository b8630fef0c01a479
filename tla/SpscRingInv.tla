---------------------------- MODULE SpscRingInv -----------------------------
(***************************************************************************)
(* The inductive invariant IInv of SpscRing, as a conjunction of one part  *)
(* for each concern.  PosInv: the two contexts agree on the positions.     *)
(* StoreInv: what a store buffer may hold.  SigInv and FuncInv: the        *)
(* protocol on the size and on the function of a wait.  WakeInv: somebody  *)
(* is about to notice a satisfied wait.                                    *)
(***************************************************************************)
EXTENDS SpscRing

(***************************************************************************)
(* The inductive invariant.  PosInv relates the two contexts: the producer *)
(* is in the same lap as the consumer (d = 0) or one lap ahead (d = Size), *)
(* what either side believes about the other is out of date only in the    *)
(* safe direction.                                                         *)
(***************************************************************************)
PosInvAt(d) ==
    /\ base["p"] = WrapAdd(base["c"], d)
    /\ pos["c"] <= end["c"] /\ end["c"] <= NewEnd("c")
    /\ NewEnd("c") <= pos["p"] + d
    /\ pos["p"] <= end["p"] /\ end["p"] <= NewEnd("p")
    /\ NewEnd("p") <= pos["c"] + Size - d

PosInv == PosInvAt(0) \/ PosInvAt(Size)

\* The atomic position is the position of the context unless the store is
\* still in the buffer.
StoreInv ==
    \A t \in Side :
        /\ ~StoreBuffer => sbloc[t] = "none"
        /\ sbloc[t] = "pos" => sbval[t] = Latest(t)
        /\ sbloc[t] # "pos" => apos[t] = Latest(t)

\* The sizes of a wait in progress.
WaitSize == 1 .. Size

\* sigsize is SIZE_MAX exactly while the other thread reads the function.
SigInvAt(t, o) ==
    /\ sbloc[o] = "other" => sbval[o] = 0 /\ sigsize[t] = SIZE_MAX
    /\ pc[o] \in {"sig_read", "sig_clear"} =>
          sigsize[t] = SIZE_MAX /\ sbloc[o] = "none"
    /\ sigsize[t] = SIZE_MAX =>
          pc[o] \in {"sig_read", "sig_clear"} \/ sbloc[o] = "other"
    /\ sbloc[t] = "own" => sbval[t] \in WaitSize /\ sigsize[t] = 0
    /\ pc[t] \in {"set", "check", "register"} =>
          sigsize[t] = 0 /\ sbloc[t] # "own"
    /\ pc[t] \in {"sig_check", "sig_cas", "abort_cas"} => size[t] # 0
    /\ pc[t] \in {"sig_cas", "abort_cas"} => size[t] # SIZE_MAX

SigInv == \A t \in Side : SigInvAt(t, Other(t))

\* A wait in progress.
Registered(t) == sigsize[t] \in WaitSize \/ sbloc[t] = "own"

\* The function of a wait in progress is the one submitted, and is not that of
\* an earlier wait whose signal is being delivered.
FuncInvAt(t, o) ==
    /\ Registered(t) \/ pc[o] \in {"sig_read", "sig_clear"} =>
          sigfunc[t] \in waiting[t]
    /\ pc[o] \in {"sig_clear", "sig_call"} => func[o] \in waiting[t]
    /\ pc[o] = "sig_clear" => func[o] = sigfunc[t]
    /\ pc[o] = "sig_call" /\ Registered(t) => func[o] # sigfunc[t]
    /\ pc[t] \in {"set", "check", "register", "recheck", "cancel"} =>
          op[t] = "submit"
    /\ pc[t] \in {"abort_load", "abort_cas"} => op[t] \in {"abort", "submit"}
    /\ /\ pc[t] \in {"abort_load", "abort_cas", "set", "check", "register"}
       /\ op[t] = "submit"
       => pfunc[t] \in Funcs \ waiting[t]
    /\ pc[t] \in {"check", "register", "recheck", "cancel"} =>
          pfunc[t] = sigfunc[t]
    /\ pc[t] \in {"register", "recheck", "cancel"} => psize[t] # 0
    /\ pc[t] \in {"recheck", "cancel"} =>
          IF sbloc[t] = "own"
          THEN sbval[t] = psize[t]
          ELSE sigsize[t] \in {psize[t], 0, SIZE_MAX}

FuncInv == \A t \in Side : FuncInvAt(t, Other(t))

\* The other thread carries the size of the wait it is about to notice.
WakeInvAt(t, o) ==
    sigsize[t] \in WaitSize /\ sigsize[t] <= Avail(t) =>
        \/ pc[t] \in {"recheck", "cancel"}
        \/ pc[o] = "sig_load"
        \/ pc[o] \in {"sig_check", "sig_cas"} /\ size[o] = sigsize[t]

WakeInv == ~StoreBuffer => \A t \in Side : WakeInvAt(t, Other(t))

IInv == TypeOK /\ PosInv /\ StoreInv /\ SigInv /\ FuncInv /\ WakeInv

\* Every step is a step of one of the threads.
Step(t) ==
    \/ \E n \in 1 .. W : alloc(t, n)
    \/ \E n \in 1 .. W : alloc_no_wrap(t, n)
    \/ \E n \in 0 .. Size : commit(t, n)
    \/ \E n \in 0 .. Size + 1, f \in Funcs : submit_wait(t, n, f)
    \/ abort_wait(t)
    \/ sig_load(t) \/ sig_check(t) \/ sig_cas_ok(t) \/ sig_cas_fail(t)
    \/ sig_read(t) \/ sig_clear(t) \/ sig_call(t)
    \/ abort_load(t) \/ abort_cas_ok(t) \/ abort_cas_fail(t)
    \/ set_func(t) \/ first_check(t) \/ register(t) \/ second_check(t)
    \/ cancel(t)
    \/ Flush(t)

\* What a step of t does to the wait and signal variables rests on SigInv and
\* FuncInv for both threads.
WaitHyp(t, o) ==
    /\ t \in Side /\ o \in Side /\ o # t /\ o = Other(t)
    /\ SigTypeOK
    /\ SigInvAt(t, o) /\ SigInvAt(o, t)
    /\ FuncInvAt(t, o) /\ FuncInvAt(o, t)
=============================================================================
