-------------------------------- MODULE Emcy --------------------------------
(***************************************************************************)
(* The emergency (EMCY) service (lib/co/emcy.c): a device with a stack of  *)
(* errors, its error register (object 1001) and pre-defined error field    *)
(* (object 1003), and a consumer.  Time goes in ticks; the inhibit time    *)
(* and the timer are ticks to go, an error register is a set of bits.      *)
(***************************************************************************)
EXTENDS Integers, Sequences, FiniteSets

CONSTANTS
    Eecs,           \* emergency error codes
    Bits,           \* the bits of the error register other than bit 0
    Sizes,          \* numbers of sub-objects of 1003 that hold an error
    Inhibits,       \* inhibit times (object 1015)
    MaxErrors,      \* bound on the stack; below 256, where the count of 1003 wraps
    MaxBuf,         \* bound on the messages that wait for the inhibit time
    MaxEmcyFaults   \* bound on frames that cannot be sent or buffered

EmcyAssumption ==
    /\ Sizes \subseteq 0..254 /\ Inhibits \subseteq Nat /\ MaxErrors \in 1..255 /\ MaxBuf \in Nat \ {0} /\ MaxEmcyFaults \in Nat
    /\ 0 \notin Bits /\ Eecs \subseteq Nat \ {0}

VARIABLES
    cfg,        \* size, the sub-objects of 1003; inhibit, the inhibit time
    emcy,       \* stopped, msgs, inhibit, timer and buf of the service
    od,         \* objects 1001, 1003 and whether the COB-ID of 1014 is valid
    peer,       \* on, its receiver is started (object 1028); er, what it was told last
    lost,       \* the number of faults
    watch       \* gap, the ticks since a message was sent; own, the bits of the errors on
                \* the stack; the parts of the device that do not (yet) show the stack:
                \* register, field, peer

emcyvars == <<cfg, emcy, od, peer, lost, watch>>

Off == -1
Parts == {"register", "field", "peer"}
MaxGap == CHOOSE k \in Inhibits : \A i \in Inhibits : i <= k
Smaller(a, b) == IF a < b THEN a ELSE b

\* co_emcy_start() of a new service
Emcy == [stopped |-> FALSE, msgs |-> <<>>, inhibit |-> 0, timer |-> Off, buf |-> <<>>]

EmcyInit ==
    /\ cfg \in [size : Sizes, inhibit : Inhibits]
    /\ emcy = Emcy
    /\ od = [er |-> {}, ef |-> <<>>, valid |-> TRUE]
    /\ peer = [on |-> TRUE, er |-> {}]
    /\ lost = 0
    /\ watch = [gap |-> MaxGap, own |-> <<>>, stale |-> {}]

\* co_emcy_set_1003(): the newest errors
co_emcy_set_1003(msgs) ==
    [i \in 1..Smaller(Len(msgs) % 256, cfg.size) |-> msgs[i].eec]

\* co_emcy_flush(): x is the service, the peer and the gaps seen.  A frame is sent
\* in order, or lost if that fails; a timer is left for the others.
RECURSIVE co_emcy_flush(_, _)
co_emcy_flush(x, fail) ==
    IF x.e.buf = <<>> THEN x
    ELSE IF x.e.inhibit > 0 THEN [x EXCEPT !.e.timer = x.e.inhibit]
    ELSE LET ok == fail # "send"
         IN  co_emcy_flush([x EXCEPT !.e.buf = Tail(@), !.e.inhibit = cfg.inhibit,
                                     !.gap = IF ok THEN 0 ELSE @, !.early = @ \/ (ok /\ x.gap < cfg.inhibit),
                                     !.told = IF ok THEN <<Head(x.e.buf)>> ELSE @, !.missed = ~ok], fail)

Fault(fail) ==
    /\ fail = "none" \/ lost < MaxEmcyFaults
    /\ lost' = IF fail = "none" THEN lost ELSE lost + 1

\* The effect of a flush of service e: co_emcy_node_recv() at the peer, which misses
\* the state of the device if it does not get the last message
Flushes(e, stale, own, fail) ==
    LET x == co_emcy_flush([e |-> e, gap |-> watch.gap, early |-> FALSE, told |-> <<>>, missed |-> FALSE], fail)
        s == x.e.buf = <<>> /\ (x.missed \/ (x.told # <<>> /\ ~peer.on))
    IN  /\ emcy' = x.e
        /\ peer' = IF x.told # <<>> /\ peer.on THEN [peer EXCEPT !.er = x.told[1].er] ELSE peer
        /\ watch' = [gap |-> IF x.early THEN Off ELSE x.gap, own |-> own,
                     stale |-> IF s THEN stale \cup {"peer"} ELSE stale]

\* co_emcy_send(), with the stack msgs and what it shows: a frame cannot be added
\* to the buffer ("buf") or sent ("send").
co_emcy_send(msgs, own, eec, er, fail) ==
    LET e == [emcy EXCEPT !.msgs = msgs]
        f == [eec |-> eec, er |-> er]
    IN  /\ Fault(fail)
        /\ od' = [od EXCEPT !.er = er, !.ef = co_emcy_set_1003(msgs)]
        /\ IF ~od.valid \/ fail = "buf"
           THEN /\ emcy' = e /\ UNCHANGED peer
                /\ watch' = [watch EXCEPT !.own = own, !.stale = {"peer"}]
           ELSE Flushes([e EXCEPT !.buf = Append(@, f)], {}, own, fail)
        /\ UNCHANGED cfg

CanSend == ~emcy.stopped /\ Len(emcy.buf) < MaxBuf
Top(msgs) == IF msgs = <<>> THEN {} ELSE Head(msgs).er

\* Mutant: the bits of the earlier errors are not kept.
co_emcy_pushAlone(eec, er, fail) ==
    /\ CanSend /\ Len(emcy.msgs) < MaxErrors
    /\ LET all == er \cup {0}
       IN  co_emcy_send(<<[eec |-> eec, er |-> all]>> \o emcy.msgs, <<er \cup {0}>> \o watch.own, eec, all, fail)

\* Bit 0 is set with any error.
co_emcy_push(eec, er, fail) ==
    /\ CanSend /\ Len(emcy.msgs) < MaxErrors
    /\ LET all == er \cup {0} \cup Top(emcy.msgs)
       IN  co_emcy_send(<<[eec |-> eec, er |-> all]>> \o emcy.msgs, <<er \cup {0}>> \o watch.own, eec, all, fail)

co_emcy_pop(fail) ==
    /\ CanSend /\ emcy.msgs # <<>>
    /\ LET rest == Tail(emcy.msgs)
       IN  co_emcy_send(rest, Tail(watch.own), 0, Top(rest), fail)

co_emcy_clear(fail) ==
    /\ CanSend /\ emcy.msgs # <<>>
    /\ co_emcy_send(<<>>, <<>>, 0, {}, fail)

\* Mutant: a failure to send ends the flush.
co_emcy_timerStops(fail) ==
    /\ emcy.timer = 0 /\ Fault(fail)
    /\ IF fail = "send" THEN emcy' = [emcy EXCEPT !.timer = Off] /\ UNCHANGED <<peer, watch>>
       ELSE Flushes([emcy EXCEPT !.timer = Off], watch.stale, watch.own, fail)
    /\ UNCHANGED <<cfg, od>>

co_emcy_timer(fail) ==
    /\ emcy.timer = 0 /\ Fault(fail)
    /\ Flushes([emcy EXCEPT !.timer = Off], watch.stale, watch.own, fail)
    /\ UNCHANGED <<cfg, od>>

\* co_1003_dn_ind(): the value 0 empties the stack and the field only.
co_1003_dn_ind ==
    /\ ~emcy.stopped
    /\ emcy' = [emcy EXCEPT !.msgs = <<>>]
    /\ od' = [od EXCEPT !.ef = co_emcy_set_1003(<<>>)]
    /\ watch' = [watch EXCEPT !.own = <<>>, !.stale = (@ \ {"field"}) \cup {"register", "peer"}]
    /\ UNCHANGED <<cfg, peer, lost>>

co_1014_dn_ind ==
    /\ ~emcy.stopped
    /\ od' = [od EXCEPT !.valid = ~@]
    /\ UNCHANGED <<cfg, emcy, peer, lost, watch>>

\* co_1028_dn_ind() of the peer
co_1028_dn_ind ==
    /\ peer' = [peer EXCEPT !.on = ~@]
    /\ UNCHANGED <<cfg, emcy, od, lost, watch>>

\* co_nmt_srv_set(): the service is stopped and destroyed, or created and started;
\* the objects keep their values.
co_emcy_stop ==
    /\ ~emcy.stopped
    /\ emcy' = [Emcy EXCEPT !.stopped = TRUE]
    /\ watch' = [watch EXCEPT !.own = <<>>, !.stale = Parts, !.gap = MaxGap]
    /\ UNCHANGED <<cfg, od, peer, lost>>

co_emcy_start ==
    /\ emcy.stopped
    /\ emcy' = Emcy
    /\ watch' = [watch EXCEPT !.gap = MaxGap]
    /\ UNCHANGED <<cfg, od, peer, lost>>

EmcyTick ==
    /\ emcy.timer # 0 /\ (emcy.inhibit > 0 \/ emcy.timer > 0 \/ watch.gap \in 0..(MaxGap - 1))
    /\ emcy' = [emcy EXCEPT !.inhibit = IF @ > 0 THEN @ - 1 ELSE @, !.timer = IF @ > 0 THEN @ - 1 ELSE @]
    /\ watch' = [watch EXCEPT !.gap = IF @ \in 0..(MaxGap - 1) THEN @ + 1 ELSE @]
    /\ UNCHANGED <<cfg, od, peer, lost>>

EmcyNext ==
    \/ \E fail \in {"none", "buf", "send"} :
          \/ \E eec \in Eecs, er \in {{}} \cup {{b} : b \in Bits} : co_emcy_push(eec, er, fail)
          \/ co_emcy_pop(fail) \/ co_emcy_clear(fail)
    \/ \E fail \in {"none", "send"} : co_emcy_timer(fail)
    \/ co_1003_dn_ind \/ co_1014_dn_ind \/ co_1028_dn_ind \/ co_emcy_stop \/ co_emcy_start \/ EmcyTick

\* can_net_set_time() is called again and again.
Proceeds == (\E fail \in {"none", "send"} : co_emcy_timer(fail)) \/ EmcyTick
EmcyFairness == WF_emcyvars(Proceeds)

EmcySpec == EmcyInit /\ [][EmcyNext]_emcyvars /\ EmcyFairness

-----------------------------------------------------------------------------
\* The error register has exactly the bits of the errors that are still on the
\* stack, although co_emcy_pop() takes the register of the next error as it was
\* when that one was pushed; the error field has the newest of them.  Not so after
\* the field was written, or the service restarted, until the next error.
ShowsStack ==
    /\ "register" \notin watch.stale => od.er = UNION {watch.own[i] : i \in DOMAIN watch.own}
    /\ "field" \notin watch.stale =>
          /\ Len(od.ef) = Smaller(Len(watch.own), cfg.size)
          /\ \A i \in DOMAIN od.ef : od.ef[i] = emcy.msgs[i].eec

\* Once nothing is left in the buffer, a consumer that missed no message knows the
\* error register: the messages that the inhibit time held back are sent in order
\* (co_emcy_flush()), at least the inhibit time apart.
PeerTold ==
    /\ emcy.buf = <<>> /\ "peer" \notin watch.stale => peer.er = od.er
    /\ watch.gap # Off

\* The next message that waits for the inhibit time is sent, unless the service is
\* stopped (co_emcy_flush() leaves a timer, co_emcy_timer()).
HeldBack == emcy.buf # <<>> /\ watch.gap > 0
EmcySent == HeldBack ~> ~HeldBack
=============================================================================
