------------------------------ MODULE IoCanNet ------------------------------
(***************************************************************************)
(* The CAN network interface of lib/io2/can_net.c: it connects the network *)
(* of lib/can/net.c (CanNet) to a CAN channel and to a timer queue         *)
(* (TQueue), by four operations: the wait for the next timer, the wait for *)
(* the confirmation of a frame that is written, the read and the write.    *)
(* The function of a completed operation is executed by some thread of     *)
(* Crew; the application is another thread.                                *)
(*                                                                         *)
(* Everything in s is protected by net->mtx, which the application has to  *)
(* lock as well when it uses the network.  A step is a section under that  *)
(* lock, or what a function does after it.                                 *)
(***************************************************************************)
EXTENDS Integers, Sequences, FiniteSets

CONSTANTS
    Crew,       \* the threads that execute tasks
    App,        \* the thread of the application
    Nets        \* the length of the transmit queue; whether a write has a timeout; the threads that execute tasks;
                \* whether the application uses the network before io_can_net_start()
                \* and while they do; bounds: the number of frames and the last time

VARIABLES
    conf,       \* one of Nets
    now,        \* the clock
    s,          \* struct io_can_net, its timers, and where its operations are
    at          \* where each thread is after an unlock

iovars == <<conf, now, s, at>>

NetThreads == Crew \cup {App}
Ops == {"next", "confirm", "read", "write"}

IoAssumption ==
    /\ App \notin Crew
    /\ \A c \in Nets : /\ c.txlen \in Nat \ {0} /\ c.timeout \in BOOLEAN /\ c.early \in BOOLEAN /\ c.uses \in BOOLEAN
                      /\ c.crew \subseteq Crew /\ c.max_frames \in Nat /\ c.max_time \in Nat

\* op: an operation is submitted to the channel or the timer queue, or its task has
\* been posted; sub: the flags.  sent, out and lost are histories of the frames that
\* were accepted, that left, and that were discarded; errc is the result of the write
\* whose task has been posted; cfor is the frame whose
\* confirmation is waited for.
IoInit ==
    /\ conf \in Nets
    /\ now = 0
    /\ s = [started |-> FALSE, shutdown |-> FALSE, op |-> [o \in Ops |-> "idle"], sub |-> [o \in Ops |-> FALSE],
            next |-> 0, time |-> 0, value |-> 0, timers |-> {}, ring |-> <<>>, wait |-> FALSE, msg |-> 0,
            errc |-> "ok", busoff |-> FALSE, sent |-> 0, out |-> <<>>, lost |-> {}, cfor |-> 0]
    /\ at = [t \in NetThreads |-> [pc |-> "idle", for |-> 0]]

-----------------------------------------------------------------------------
(***************************************************************************)
(* The functions that are called with the mutex locked.                    *)
(***************************************************************************)
Submit(x, o) == [x EXCEPT !.op[o] = "sub", !.sub[o] = TRUE]

\* io_tqueue_abort_wait(), io_can_chan_abort_read() and ..._write() succeed if the
\* operation has not been completed (external).
Abortable(x, o) == x.op[o] = "sub"

\* io_can_chan_cancel_write() (external): the task of a pending write is posted.
io_can_chan_cancel_write(x) ==
    IF x.op["write"] = "sub" THEN [x EXCEPT !.op["write"] = "posted", !.errc = "canceled"] ELSE x

io_can_net_next_func(x, tp) ==
    LET y == [x EXCEPT !.next = tp]
    IN  IF x.next = tp THEN x
        ELSE IF ~x.shutdown /\ (~x.sub["next"] \/ Abortable(x, "next")) THEN [Submit(y, "next") EXCEPT !.value = tp]
        ELSE y

\* can_net_set_next(), can_net_set_time(), can_timer_start() and can_timer_stop()
\* of lib/can/net.c, with timers that are set once (see CanNet)
First(S) == CHOOSE n \in S : \A m \in S : n <= m
can_net_set_next(x) == IF x.timers = {} THEN x ELSE io_can_net_next_func(x, First(x.timers))
SetTimers(x, S) == can_net_set_next([x EXCEPT !.timers = S])
io_can_net_set_time(x) == SetTimers([x EXCEPT !.time = now], {n \in x.timers : n > now})

\* io_can_net_do_wait(): the ring either has a frame or calls back when it has.
io_can_net_do_wait(x) == IF x.ring = <<>> THEN [x EXCEPT !.wait = TRUE] ELSE [x EXCEPT !.msg = Head(x.ring)]

io_can_net_do_write(x) ==
    LET y == Submit(x, "write")
    IN  IF conf.timeout /\ (~x.sub["confirm"] \/ Abortable(x, "confirm"))
        THEN [Submit(y, "confirm") EXCEPT !.cfor = x.msg]
        ELSE y

\* io_can_net_c_wait_func(), and the end of io_can_net_write_func()
WriteNext(x) == LET y == io_can_net_do_wait(x) IN IF x.ring = <<>> THEN y ELSE io_can_net_do_write(y)

io_can_net_send_func(x) ==
    LET y == [x EXCEPT !.ring = Append(@, x.sent + 1), !.sent = @ + 1]
    IN  IF Len(x.ring) = conf.txlen THEN x
        ELSE IF x.wait THEN WriteNext([y EXCEPT !.wait = FALSE])
        ELSE y

\* What a user of the network does: it sends a frame, starts a timer or stops one.
Uses(x) ==
    {x} \cup {io_can_net_send_func(x) : i \in {i \in {1} : x.sent < conf.max_frames}}
        \cup {SetTimers(x, x.timers \cup {n}) : n \in (x.time + 1)..conf.max_time}
        \cup {SetTimers(x, x.timers \ {n}) : n \in x.timers}

-----------------------------------------------------------------------------
(***************************************************************************)
(* The application.                                                        *)
(***************************************************************************)
AppIdle == at[App].pc = "idle"
Goto(t, pc) == at' = [at EXCEPT ![t] = [pc |-> pc, for |-> 0]]

io_can_net_start ==
    /\ AppIdle /\ ~s.started /\ ~s.shutdown
    /\ s' = Submit(io_can_net_do_wait([s EXCEPT !.started = TRUE]), "read")
    /\ UNCHANGED <<conf, now, at>>

Use ==
    /\ AppIdle /\ ~s.shutdown
    /\ s' \in Uses(s) \cup {io_can_net_set_time(s)} /\ s' # s
    /\ IF s.started THEN conf.uses ELSE conf.early
    /\ UNCHANGED <<conf, now, at>>

\* io_can_net_svc_shutdown(), of io_can_net_fini() or of the I/O context, then
\* spscring_c_abort_wait() after the unlock
io_can_net_svc_shutdown ==
    /\ AppIdle /\ ~s.shutdown
    /\ s' = [s EXCEPT !.shutdown = TRUE]
    /\ Goto(App, "abort_wait")
    /\ UNCHANGED <<conf, now>>

AbortWait ==
    /\ at[App].pc = "abort_wait"
    /\ s' = [s EXCEPT !.wait = FALSE]
    /\ Goto(App, "fini")
    /\ UNCHANGED <<conf, now>>

\* The loop of io_can_net_fini(), with io_can_net_do_abort_tasks()
io_can_net_fini ==
    LET done == {o \in Ops : s.sub[o] /\ Abortable(s, o)}
    IN  /\ at[App].pc = "fini"
        /\ IF \A o \in Ops : ~s.sub[o] THEN Goto(App, "freed") /\ UNCHANGED s
           ELSE /\ done # {}
                /\ s' = [s EXCEPT !.op = [o \in Ops |-> IF o \in done THEN "idle" ELSE @[o]],
                                  !.sub = [o \in Ops |-> @[o] /\ o \notin done]]
                /\ UNCHANGED at
        /\ UNCHANGED <<conf, now>>

-----------------------------------------------------------------------------
(***************************************************************************)
(* The functions of the completed operations.                              *)
(***************************************************************************)
Runs(t, o) == t \in conf.crew /\ at[t].pc = "idle" /\ s.op[o] = "posted"
Ran(o) == [s EXCEPT !.op[o] = "idle"]

io_can_net_wait_next_func(t) ==
    /\ Runs(t, "next")
    /\ \E x \in Uses(io_can_net_set_time(Ran("next"))) :
          LET submit == ~x.shutdown /\ x.time < x.next
          IN  /\ s' = [x EXCEPT !.sub["next"] = submit, !.value = IF submit THEN x.next ELSE @]
              /\ Goto(t, IF submit THEN "submit_next" ELSE "idle")
    /\ UNCHANGED <<conf, now>>

io_can_net_wait_confirm_func(t) ==
    /\ Runs(t, "confirm")
    /\ s' = [Ran("confirm") EXCEPT !.sub["confirm"] = FALSE]
    /\ at' = [at EXCEPT ![t] = [pc |-> "cancel", for |-> s.cfor]]
    /\ UNCHANGED <<conf, now>>

\* A frame, nothing or an error of the read, or an error frame with a new state of
\* the bus
io_can_net_read_func(t) ==
    /\ Runs(t, "read")
    /\ \E x \in Uses(io_can_net_set_time(Ran("read"))) \cup {Ran("read")}
                \cup {[IF s.busoff THEN io_can_chan_cancel_write(Ran("read")) ELSE Ran("read") EXCEPT !.busoff = ~@]} :
          s' = [x EXCEPT !.sub["read"] = ~x.shutdown]
    /\ Goto(t, IF s.shutdown THEN "idle" ELSE "submit_read")
    /\ UNCHANGED <<conf, now>>

\* The frame leaves the transmit queue; all of them do when the write was canceled.
Commit(x) ==
    LET n == IF x.errc = "canceled" THEN Len(x.ring) ELSE 1
    IN  [x EXCEPT !.ring = SubSeq(@, n + 1, Len(@)),
                  !.out = IF x.errc = "ok" THEN Append(@, x.msg) ELSE @,
                  !.lost = IF x.errc = "ok" THEN @ ELSE @ \cup {x.ring[i] : i \in 1..n},
                  !.errc = "ok"]

\* Mutant: the flag is cleared although the task of the timeout has been posted.
StopConfirmAlways(x) ==
    [x EXCEPT !.sub["confirm"] = FALSE, !.op["confirm"] = IF @ = "sub" THEN "idle" ELSE @]

\* The timeout is stopped, unless its task has been posted.
StopConfirm(x) ==
    IF x.sub["confirm"] /\ Abortable(x, "confirm")
    THEN [x EXCEPT !.sub["confirm"] = FALSE, !.op["confirm"] = "idle"] ELSE x

io_can_net_write_func(t) ==
    /\ Runs(t, "write")
    /\ LET x == [StopConfirm(Commit(Ran("write"))) EXCEPT !.sub["write"] = FALSE]
       IN  s' = IF x.shutdown THEN x ELSE WriteNext(x)
    /\ UNCHANGED <<conf, now, at>>

\* What the functions do after the unlock
AfterUnlock(t) ==
    /\ at[t].pc \in {"submit_next", "submit_read", "cancel"}
    /\ s' = IF at[t].pc = "cancel" THEN io_can_chan_cancel_write(s)
            ELSE [s EXCEPT !.op[IF at[t].pc = "submit_next" THEN "next" ELSE "read"] = "sub"]
    /\ Goto(t, "idle")
    /\ UNCHANGED <<conf, now>>

-----------------------------------------------------------------------------
(***************************************************************************)
(* The channel, the timer queue and the clock (external).                  *)
(***************************************************************************)
Completes(o) ==
    /\ s.op[o] = "sub" /\ (o = "next" => s.value <= now)
    /\ \E e \in IF o = "write" THEN {"ok", "err"} ELSE {s.errc} :
          s' = [s EXCEPT !.op[o] = "posted", !.errc = e]
    /\ UNCHANGED <<conf, now, at>>

Tick == now < conf.max_time /\ now' = now + 1 /\ UNCHANGED <<conf, s, at>>

Works(t) ==
    \/ io_can_net_wait_next_func(t) \/ io_can_net_wait_confirm_func(t) \/ io_can_net_read_func(t)
    \/ io_can_net_write_func(t) \/ AfterUnlock(t)

IoNext ==
    \/ io_can_net_start \/ Use \/ io_can_net_svc_shutdown \/ AbortWait \/ io_can_net_fini
    \/ \E t \in Crew : Works(t)
    \/ \E o \in Ops : Completes(o)
    \/ Tick

-----------------------------------------------------------------------------
IoTypeOK ==
    /\ conf \in Nets /\ now \in 0..conf.max_time
    /\ s.started \in BOOLEAN /\ s.shutdown \in BOOLEAN /\ s.wait \in BOOLEAN /\ s.busoff \in BOOLEAN
    /\ s.op \in [Ops -> {"idle", "sub", "posted"}] /\ s.sub \in [Ops -> BOOLEAN]
    /\ {s.next, s.time, s.value} \cup s.timers \subseteq 0..conf.max_time
    /\ Len(s.ring) <= conf.txlen /\ {s.msg, s.sent, s.cfor} \cup s.lost \subseteq 0..conf.max_frames
    /\ s.errc \in {"ok", "err", "canceled"}
    /\ \A t \in NetThreads : at[t].pc \in {"idle", "submit_next", "submit_read", "cancel", "abort_wait", "fini", "freed"}

\* The flag of an operation says whether it is somewhere: no operation is submitted
\* while it is in a queue, in that of the executor, or about to be submitted.
About(pc) == {t \in NetThreads : at[t].pc = pc}
Submitting(o) == IF o = "next" THEN About("submit_next") ELSE IF o = "read" THEN About("submit_read") ELSE {}

FlagsRight ==
    \A o \in Ops : /\ s.sub[o] <=> s.op[o] # "idle" \/ Submitting(o) # {}
                   /\ Submitting(o) # {} => s.op[o] = "idle" /\ Cardinality(Submitting(o)) = 1

\* Frames leave in the order in which they were sent, each is in the queue, has left
\* or was discarded, and the one that is written is the first of the queue.
FramesInOrder ==
    /\ \A i, j \in 1..Len(s.out) : i < j => s.out[i] < s.out[j]
    /\ \A i \in 1..Len(s.ring) : s.ring[i] = s.sent - Len(s.ring) + i
    /\ {s.out[i] : i \in 1..Len(s.out)} \cup s.lost = 1..(s.sent - Len(s.ring))
    /\ {s.out[i] : i \in 1..Len(s.out)} \cap s.lost = {}
    /\ s.sub["write"] => s.ring # <<>> /\ s.msg = Head(s.ring)

\* A frame in the queue is being written and an empty queue waits for a frame,
\* unless frames were sent before io_can_net_start(), which does not write them; and
\* a write that is not confirmed has a timeout.
QueueMoves ==
    /\ s.started /\ ~s.shutdown /\ ~conf.early => IF s.ring = <<>> THEN s.wait ELSE s.sub["write"]
    /\ s.wait => s.ring = <<>>
    /\ conf.timeout /\ s.op["write"] = "sub" /\ at[App].pc # "fini" => s.sub["confirm"] \/ About("cancel") # {}

\* No timer of the network is earlier than the wait for it, as long as one thread
\* uses the network: another one may set a timer when io_can_net_wait_next_func()
\* has unlocked the mutex and is about to wait for a later time.
NextCovers ==
    ~s.shutdown /\ ~conf.uses /\ Cardinality(conf.crew) = 1 =>
        \A n \in s.timers : s.op["next"] = "posted" \/ (s.sub["next"] /\ s.value <= n)

\* After io_can_net_fini() no operation is left, and nothing uses the network but
\* io_can_net_wait_confirm_func(), which clears its flag before it is done.
IoFiniSafe ==
    at[App].pc = "freed" => /\ \A o \in Ops : s.op[o] = "idle"
                            /\ \A t \in Crew : at[t].pc \in {"idle", "cancel"}

\* A frame that was accepted is in the queue of a network that writes its frames, and
\* gives up when they are not confirmed.
Queued(f) == f <= s.sent /\ f > s.sent - Len(s.ring) /\ s.started /\ ~s.shutdown /\ ~conf.early /\ conf.timeout
IoFinishing == at[App].pc \in {"abort_wait", "fini"}

=============================================================================
