------------------------------- MODULE CanNet -------------------------------
(***************************************************************************)
(* The CAN network interface (src/lib/can/net.c): the timers and the CAN   *)
(* frame receivers that every CANopen service registers, and the two       *)
(* functions that run their callbacks, can_net_set_time() and              *)
(* can_net_recv().  Callbacks start and stop timers and receivers, their   *)
(* own and those of others, while these functions are iterating.           *)
(*                                                                         *)
(* The timers are a set: which of several timers with the same trigger     *)
(* time comes first depends on the shape of the heap and is left open.     *)
(***************************************************************************)
EXTENDS CanRecv, Integers, FiniteSetsExt

CONSTANTS
    Timers,         \* the timers of the services
    Delays,         \* the delays with which timers are started
    Intervals,      \* the intervals of periodic timers; 0 is a one-shot timer
    Errcs,          \* the native error codes
    InCallback,     \* what receiver callbacks do, see RecvOp
    MaxTime,        \* bound on the time
    MaxOps          \* bound on the operations of one callback

CanNetAssumption ==
    /\ Null \notin Timers
    /\ Delays \subseteq Nat /\ Intervals \subseteq Nat /\ MaxTime \in Nat /\ MaxOps \in Nat

VARIABLES
    time,    \* net->time
    next,    \* net->next, the time of the last call of next_func
    timer,   \* the fields net (registered or not), start and interval
    list,    \* the receivers of each key
    call,    \* the function of the network interface that is running
    errc,    \* the native error code of the thread
    ops,     \* the number of operations of the running callback
    ghost    \* what has happened to timers and receivers, for the properties

vars == <<time, next, timer, list, call, errc, ops, ghost>>

NoCall == [fn |-> "none"]

\* The time at which a timer was started to trigger first, and how often it has
\* triggered since; the receivers invoked for the frame, those invoked twice, those
\* invoked while not registered for it, and those registered for it all the time;
\* the error codes at the call and of the failed callbacks.
NoGhost == [first |-> [t \in Timers |-> 0], fired |-> [t \in Timers |-> 0],
            invoked |-> {}, twice |-> {}, stray |-> {}, stable |-> {}, errs |-> <<>>]

Init ==
    /\ time = 0 /\ next = 0
    /\ timer = [t \in Timers |-> [net |-> FALSE, start |-> 0, interval |-> 0]]
    /\ list = [k \in Keys |-> <<>>]
    /\ call = NoCall /\ errc \in Errcs /\ ops = 0 /\ ghost = NoGhost

-----------------------------------------------------------------------------
(* Timers.                                                                 *)

Heap(tm) == {t \in Timers : tm[t].net}

\* Mutant: the heap is not ordered.
pheap_firstAny(tm) == Heap(tm)

\* The timers that pheap_first() may return.
pheap_first(tm) == {t \in Heap(tm) : \A u \in Heap(tm) : tm[t].start <= tm[u].start}

can_net_set_next(tm) ==
    next' = IF Heap(tm) = {} THEN next ELSE Min({tm[t].start : t \in Heap(tm)})

\* can_timer_start() with the absolute time start.  can_timer_stop() is part
\* of it; its call of next_func is followed by that of the new timer.
StartTimer(t, start, interval) ==
    /\ timer' = [timer EXCEPT ![t] = [net |-> TRUE, start |-> start, interval |-> interval]]
    /\ can_net_set_next(timer')
    /\ ghost' = [ghost EXCEPT !.first[t] = start, !.fired[t] = 0]

can_timer_start(t, start, interval) ==
    /\ StartTimer(t, start, interval)
    /\ UNCHANGED <<time, list, call, errc>>

\* Without a start time, the interval gives the first trigger.
can_timer_start_interval(t, interval) ==
    /\ StartTimer(t, time + interval, interval)
    /\ UNCHANGED <<time, list, call, errc>>

can_timer_stop(t) ==
    /\ timer[t].net
    /\ timer' = [timer EXCEPT ![t].net = FALSE]
    /\ can_net_set_next(timer')
    /\ UNCHANGED <<time, list, call, errc, ghost>>

\* can_timer_timeout() with a negative timeout is can_timer_stop().
can_timer_timeout(t, timeout) == can_timer_start(t, time + timeout, 0)

TimerOp ==
    \E t \in Timers :
        \/ \E d \in Delays, i \in Intervals : can_timer_start(t, time + d, i)
        \/ \E i \in Intervals \ {0} : can_timer_start_interval(t, i)
        \/ \E d \in Delays : can_timer_timeout(t, d)
        \/ can_timer_stop(t)

\* The timer that triggers is taken from the heap and, if it is periodic,
\* put back before its callback is invoked.
requeue(tm, t) ==
    [tm EXCEPT ![t].net = @ /\ tm[t].interval # 0,
               ![t].start = @ + tm[t].interval]

\* A due timer that may be the first one.
due(tm, now) == {t \in pheap_first(tm) : tm[t].start <= now}

\* One iteration of the loop of can_net_set_time(), from the test of the first
\* timer to the call of its callback, or to the end of the function.
process(c, g, now, e) ==
    \/ \E t \in due(timer, now) :
        /\ timer' = requeue(timer, t)
        /\ call' = [c EXCEPT !.timer = t, !.tick = timer[t].start]
        /\ ghost' = [g EXCEPT !.fired[t] = Min({@ + 1, MaxTime + 2})]
        /\ errc' = e
        /\ UNCHANGED next
    \/ /\ due(timer, now) = {}
       /\ can_net_set_next(timer)
       /\ call' = NoCall /\ errc' = c.errc /\ ghost' = g
       /\ UNCHANGED timer

can_net_set_time(tp) ==
    /\ call = NoCall
    /\ time' = tp /\ ops' = 0
    /\ process([fn |-> "can_net_set_time", timer |-> Null, tick |-> 0, errc |-> errc, result |-> 0],
               [ghost EXCEPT !.errs = <<errc>>], tp, errc)
    /\ UNCHANGED list

\* The first error is kept.
check_result(c, result, e) ==
    IF result # 0 /\ c.result = 0 THEN [c EXCEPT !.errc = e, !.result = -1] ELSE c

\* The error codes of the first two callbacks that fail are remembered.
note_result(g, result, e) ==
    IF result # 0 /\ Len(g.errs) < 3 THEN [g EXCEPT !.errs = Append(@, e)] ELSE g

\* The callback of a timer returns, with whatever error code it leaves behind.
timer_func_return(result, e) ==
    /\ call.fn = "can_net_set_time"
    /\ ops' = 0
    /\ process(check_result(call, result, e), note_result(ghost, result, e), time, e)
    /\ UNCHANGED <<time, list>>

-----------------------------------------------------------------------------
(* Receivers.                                                              *)

\* What the callback of a receiver may do: stop itself, stop others, start new
\* receivers, start again those that already have the frame, or restart others.
\* Nothing limits timer callbacks.
may_stop(r) ==
    call.fn = "can_net_recv" => (IF r = call.node THEN "stop_self" ELSE "stop_other") \in InCallback

may_start(r) ==
    call.fn = "can_net_recv" => \/ "start_again" \in InCallback /\ r \in ghost.invoked
                                \/ "start_new" \in InCallback /\ r \notin ghost.invoked \cup Active(list)
                                \/ "restart_other" \in InCallback /\ r \in Active(list) \ ghost.invoked

touch(r) ==
    /\ ghost' = [ghost EXCEPT !.stable = @ \ {r}]
    /\ UNCHANGED <<time, next, timer, call, errc>>

RecvOp ==
    \E r \in Recvs :
        \/ r \in Active(list) /\ may_stop(r) /\ list' = can_recv_stop(list, r) /\ touch(r)
        \/ \E k \in Keys : may_start(r) /\ list' = can_recv_start(list, r, k) /\ touch(r)

\* The call of the callback of receiver r; dlnode_foreach has already loaded
\* the pointer to the next element.
invoke(c, g, r) ==
    /\ call' = [c EXCEPT !.node = r, !.next = list_next(list, r)]
    /\ ghost' = [g EXCEPT !.invoked = @ \cup {r},
                          !.twice = IF r \in g.invoked THEN @ \cup {r} ELSE @,
                          !.stray = IF r \in ToSet(list[c.key]) THEN @ ELSE @ \cup {r}]

can_net_recv(k) ==
    /\ call = NoCall /\ list[k] # <<>>
    /\ invoke([fn |-> "can_net_recv", key |-> k, node |-> Null, next |-> Null, errc |-> errc, result |-> 0],
              [ghost EXCEPT !.invoked = {}, !.twice = {}, !.stray = {}, !.stable = ToSet(list[k]), !.errs = <<errc>>],
              Head(list[k]))
    /\ ops' = 0
    /\ UNCHANGED <<time, next, timer, list, errc>>

\* Mutant: the next element is looked up after the callback.
recv_func_returnLate(result, e) ==
    /\ call.fn = "can_net_recv"
    /\ ops' = 0
    /\ LET c == [check_result(call, result, e) EXCEPT !.next = list_next(list, call.node)]
           g == note_result(ghost, result, e) IN
       \/ c.next # Null /\ invoke(c, g, c.next) /\ errc' = e
       \/ c.next = Null /\ call' = NoCall /\ errc' = c.errc /\ ghost' = g
    /\ UNCHANGED <<time, next, timer, list>>

\* The callback of a receiver returns, with whatever error code it leaves behind.
recv_func_return(result, e) ==
    /\ call.fn = "can_net_recv"
    /\ ops' = 0
    /\ LET c == check_result(call, result, e) g == note_result(ghost, result, e) IN
       \/ c.next # Null /\ invoke(c, g, c.next) /\ errc' = e
       \/ c.next = Null /\ call' = NoCall /\ errc' = c.errc /\ ghost' = g
    /\ UNCHANGED <<time, next, timer, list>>

-----------------------------------------------------------------------------
\* Operations of the program, or of the callback that is running.
Op ==
    /\ call # NoCall => ops < MaxOps
    /\ ops' = IF call = NoCall THEN 0 ELSE ops + 1
    /\ TimerOp \/ RecvOp

Return == \E result \in {0, -1}, e \in Errcs : timer_func_return(result, e) \/ recv_func_return(result, e)

Next ==
    \/ Op
    \/ \E tp \in time..MaxTime : can_net_set_time(tp)
    \/ \E k \in Keys : can_net_recv(k)
    \/ Return

\* Callbacks return.
Fairness == WF_vars(Return)

Spec == Init /\ [][Next]_vars /\ Fairness

-----------------------------------------------------------------------------
(* Properties.                                                             *)

\* The fields have their types, and no receiver is in two lists or twice in one.
CanNetTypeOK ==
    /\ time \in Nat /\ next \in Nat /\ ops \in 0..MaxOps /\ errc \in Errcs
    /\ \A t \in Timers : timer[t] \in [net : BOOLEAN, start : Nat, interval : Intervals]
    /\ \A r \in Recvs : Cardinality({<<k, i>> \in Keys \X (1..Cardinality(Recvs)) :
                                        i <= Len(list[k]) /\ list[k][i] = r}) <= 1

\* Whoever drives the network interface knows when to call can_net_set_time()
\* again: outside can_net_set_time(), the time last passed to next_func is that of
\* the first timer, whatever has been started and stopped in callbacks.
NextIsFirst ==
    call.fn # "can_net_set_time" /\ Heap(timer) # {} =>
        next = Min({timer[t].start : t \in Heap(timer)})

\* When can_net_set_time() has returned, every timer that was due has triggered,
\* and a periodic timer has triggered once for each of its periods, also if the
\* time was advanced by several of them at once.
ticks(t) ==
    LET f == ghost.first[t] i == timer[t].interval IN
    CASE time < f -> 0
      [] i = 0 -> 1
      [] OTHER -> ((time - f) \div i) + 1

NoTickLost ==
    call.fn = "none" => \A t \in Heap(timer) : timer[t].start > time /\ ghost.fired[t] = ticks(t)

\* The callbacks of one call of can_net_set_time() are invoked in the order of the
\* times at which the timers were to trigger.
TicksInOrderStep ==
    call.fn = "can_net_set_time" /\ call'.fn = "can_net_set_time" => call'.tick >= call.tick

\* The functions leave the error code of the first callback that failed, or else
\* the error code from before the call, however callbacks change it.
FirstErrorKeptStep ==
    call.fn # "none" /\ call'.fn = "none" => errc' = ghost'.errs[IF Len(ghost'.errs) = 1 THEN 1 ELSE 2]

\* A frame is passed to every receiver that is registered for it from before
\* to after its processing (@see can_net_recv()).
AllReceiversServedStep ==
    call.fn = "can_net_recv" /\ call'.fn = "none" => ghost'.stable \subseteq ghost'.invoked

\* A receiver that is stopped or that has been started for another key no longer
\* processes the frame (@see can_recv_stop()).
OnlyReceiversServed == ghost.stray = {}

\* No receiver is invoked twice for a frame.
ServedOnce == ghost.twice = {}

\* Both functions return.
NetCallsReturn == (call.fn # "none") ~> (call.fn = "none")
=============================================================================
