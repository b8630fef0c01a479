-------------------------------- MODULE Pdo --------------------------------
(***************************************************************************)
(* The SYNC service (lib/co/sync.c), the Transmit-PDO (lib/co/tpdo.c) and  *)
(* the Receive-PDO (lib/co/rpdo.c) of two nodes that send to each other;   *)
(* node a produces the SYNC objects.  Time goes in ticks; a timer is the   *)
(* number of ticks until it expires, or Off.                               *)
(***************************************************************************)
EXTENDS Integers, Sequences

CONSTANTS
    Scenes,     \* the configurations that are looked at, see scene
    Cycle,      \* a multiple of all SYNC periods
    MaxQueue    \* bound on the frames on their way to a node

Node == {"a", "b"}
Other(n) == IF n = "a" THEN "b" ELSE "a"
Off == -1
Empty == -2
Nothing == <<>>

\* Transmission types: 0 is synchronous acyclic, 1 to 240 are synchronous cyclic.
RtrSync == \hfc
RtrOnly == \hfd
EventDriven == \hfe
Synchronous(trans) == trans <= \hf0

PdoAssumption ==
    /\ {Cycle, MaxQueue} \subseteq Nat \ {0}
    /\ \A c \in Scenes :
          /\ \A n \in Node : /\ c.tx[n].trans \in 0..240 \cup {RtrSync, RtrOnly, EventDriven}
                             /\ {c.tx[n].inhibit, c.tx[n].event, c.tx[n].start, c.swnd[n]} \subseteq Nat
                             /\ c.tx[n].inhibit + c.tx[n].event < c.max_age /\ c.swnd[n] < c.max_age
                             /\ c.rx[n].trans \in 0..240 \cup {EventDriven} /\ c.rx[n].event \in Nat
                             /\ {c.tx[n].valid, c.rx[n].valid} \subseteq BOOLEAN
          /\ {c.max_age, c.max_sync} \subseteq Nat \ {0} /\ c.max_faults \in Nat
          /\ c.us \in Nat \ {0} /\ Cycle % c.us = 0 /\ c.max_cnt \in {0} \cup 2..240
          /\ {c.later, c.fast} \subseteq BOOLEAN
          /\ c.does \subseteq {"1005", "1006", "1019", "1800", "1400", "stop", "rtr", "event", "lock"}

VARIABLES
    scene,      \* tx, rx: the communication parameters of the PDOs; swnd: the synchronous
                \* windows (object 1007); us, max_cnt: of the SYNC producer; later: the
                \* samples of a are ready later; fast: a frame takes less than a tick;
                \* does: what the users and the masters do; bounds on the ticks that are
                \* counted (max_age) and on the samples that cannot be read and frames
                \* that cannot be sent (max_faults), modulus of the number of a SYNC (max_sync)
    now,        \* the time, modulo Cycle
    sync,       \* the SYNC service of a
    tpdo,       \* node |-> its Transmit-PDO
    rpdo,       \* node |-> its Receive-PDO
    hold,       \* tpdo_event_wait and tpdo_event_mask of the NMT service of a
    val,        \* the object that b receives and sends; a sends the number of the SYNC
    air,        \* node |-> the frames on their way to it
    faults,     \* the number of faults
    seen        \* node |-> what an observer has seen of it

pdovars == <<scene, now, sync, tpdo, rpdo, hold, val, air, faults, seen>>

\* co_tpdo_start(), after co_tpdo_init()
Tpdo(c) ==
    [stopped |-> FALSE, valid |-> c.valid, event |-> FALSE, swnd |-> TRUE, sync |-> c.start, cnt |-> 0, inhibit |-> 0,
     tevent |-> IF c.valid /\ c.trans >= EventDriven /\ c.event > 0 THEN c.event ELSE Off, tswnd |-> Off,
     msg |-> Nothing, pend |-> FALSE]

\* co_rpdo_start()
Rpdo(valid) ==
    [stopped |-> FALSE, valid |-> valid, sync |-> FALSE, msg |-> Nothing, swnd |-> FALSE, tevent |-> Off, tswnd |-> Off]

\* co_sync_update(): the next multiple of the period
co_sync_update(y) ==
    [y EXCEPT !.cnt = 1, !.timer = IF y.producer /\ y.us > 0 THEN y.us - (now % y.us) ELSE Off]

\* The observer: el, the ticks since the SYNC; gap, since the last event-driven
\* PDO; age, since that or the activation of the PDO; n, the number of the SYNC;
\* from, the SYNCs since the first that counts for a cyclic PDO; event, an event
\* waits for the SYNC; held, one waits for the end of the lock; due, one was there
\* at the SYNC; sent and read, what was sent and read in this tick.
Observer == [el |-> scene.max_age, gap |-> scene.max_age, age |-> 0, n |-> 0, from |-> Off,
             event |-> FALSE, held |-> FALSE, due |-> FALSE, sent |-> Nothing, read |-> Nothing]

\* The PDO of node n starts.
Activated(o) == [Observer EXCEPT !.n = o.n, !.held = o.held]

PdoInit ==
    /\ scene \in Scenes
    /\ now = 0
    /\ sync = [stopped |-> FALSE, producer |-> TRUE, us |-> scene.us, max_cnt |-> scene.max_cnt,
               cnt |-> 1, timer |-> scene.us]
    /\ tpdo = [n \in Node |-> Tpdo(scene.tx[n])]
    /\ rpdo = [n \in Node |-> Rpdo(scene.rx[n].valid)]
    /\ hold = [wait |-> 0, mask |-> FALSE]
    /\ val = Off
    /\ air = [n \in Node |-> <<>>]
    /\ faults = 0
    /\ seen = [n \in Node |-> Observer]

-----------------------------------------------------------------------------
(***************************************************************************)
(* A Transmit-PDO.  An operator takes and returns a record x with the PDO  *)
(* p, its node n, the frames out that it sends, the error fail that it     *)
(* meets ("none", "sample" or "send"), its result ret and the object v.    *)
(***************************************************************************)
Tx(n, fail) ==
    [p |-> tpdo[n], n |-> n, v |-> IF n = "a" THEN seen[n].n ELSE val, out |-> <<>>, fail |-> fail, ret |-> 0,
     kind |-> "none"]

\* co_tpdo_init_timer_event(), co_tpdo_init_timer_swnd()
TimerEvent(x) ==
    LET c == scene.tx[x.n]
    IN  [x EXCEPT !.p.tevent = IF x.p.valid /\ c.trans >= EventDriven /\ c.event > 0 THEN c.event ELSE Off]
TimerSwnd(n) == IF scene.swnd[n] > 0 THEN scene.swnd[n] ELSE Off

\* co_tpdo_init_frame(), co_tpdo_send_frame(): a frame without data if it cannot be read
InitFrame(x) ==
    IF x.fail = "sample" THEN [x EXCEPT !.p.msg = <<Empty>>, !.ret = -1] ELSE [x EXCEPT !.p.msg = <<x.v>>]
SendFrame(x, kind) ==
    IF x.fail = "send" THEN [x EXCEPT !.ret = -1] ELSE [x EXCEPT !.out = Append(@, x.p.msg), !.kind = kind]
InitSend(x, kind) == LET y == InitFrame(x) IN IF y.ret = -1 THEN y ELSE SendFrame(y, kind)

co_tpdo_event(x) ==
    LET c == scene.tx[x.n]
    IN  IF ~x.p.valid THEN x
        ELSE CASE c.trans = 0 -> TimerEvent([x EXCEPT !.p.event = TRUE])
               [] c.trans = RtrOnly -> LET y == InitFrame(x) IN IF y.ret = -1 THEN y ELSE TimerEvent(y)
               [] c.trans = EventDriven ->
                     IF c.inhibit > 0 /\ x.p.inhibit > 0 THEN [x EXCEPT !.ret = -1]
                     ELSE LET y == InitSend(x, "event")
                          IN  IF y.ret = -1 THEN y ELSE TimerEvent([y EXCEPT !.p.inhibit = c.inhibit])
               [] OTHER -> x

\* co_tpdo_sample_res() with the abort code, or FALSE
co_tpdo_sample_res(x, ac) ==
    LET c == scene.tx[x.n]
    IN  IF ~x.p.valid \/ c.trans = EventDriven \/ ac \/ (c.trans # RtrOnly /\ x.p.swnd) THEN x
        ELSE IF c.trans = RtrSync THEN InitFrame(x) ELSE InitSend(x, IF c.trans = RtrOnly THEN "rtr" ELSE "sync")

\* The sampling indication: the default one, or one of a user who calls
\* co_tpdo_sample_res() later
sample_ind(x) == IF scene.later /\ x.n = "a" THEN [x EXCEPT !.p.pend = TRUE] ELSE co_tpdo_sample_res(x, FALSE)

co_tpdo_sync(x, cnt) ==
    LET c     == scene.tx[x.n]
        waits == x.p.sync # 0 /\ cnt # 0
        y     == [x EXCEPT !.p.sync = IF waits THEN 0 ELSE @, !.p.cnt = IF waits THEN 0 ELSE @,
                           !.p.swnd = FALSE, !.p.tswnd = TimerSwnd(x.n)]
    IN  IF ~x.p.valid \/ ~(Synchronous(c.trans) \/ c.trans = RtrSync) \/ (waits /\ x.p.sync # cnt) THEN x
        ELSE IF c.trans = 0 THEN IF y.p.event THEN sample_ind([y EXCEPT !.p.event = FALSE]) ELSE y
        ELSE IF c.trans = RtrSync THEN sample_ind(y)
        ELSE IF y.p.cnt + 1 < c.trans THEN [y EXCEPT !.p.cnt = @ + 1]
        ELSE sample_ind([y EXCEPT !.p.cnt = 0])

\* co_tpdo_recv(): a remote frame
co_tpdo_recv(x) ==
    CASE scene.tx[x.n].trans = RtrSync /\ x.p.msg # Nothing -> SendFrame(x, "rtr")
      [] scene.tx[x.n].trans = RtrOnly -> sample_ind(x)
      [] OTHER -> x

\* co_1800_dn_ind(), sub-index 1: the PDO becomes valid or invalid.
co_1800_dn_ind(p, c) ==
    [p EXCEPT !.valid = ~@, !.inhibit = IF p.valid THEN @ ELSE 0, !.sync = IF p.valid THEN @ ELSE c.start,
              !.cnt = IF p.valid THEN @ ELSE 0, !.msg = Nothing, !.event = FALSE, !.swnd = TRUE, !.tswnd = Off,
              !.tevent = IF ~p.valid /\ c.trans >= EventDriven /\ c.event > 0 THEN c.event ELSE Off]

-----------------------------------------------------------------------------
(* A Receive-PDO r of node n                                               *)

\* co_rpdo_init_timer_event()
RTimerEvent(r, n) == [r EXCEPT !.tevent = IF r.valid /\ scene.rx[n].event > 0 THEN scene.rx[n].event ELSE Off]

\* co_rpdo_sync(); the frame that waits for it is read, see Read.
co_rpdo_sync(r, n) ==
    IF ~r.valid \/ ~Synchronous(scene.rx[n].trans) THEN r
    ELSE [r EXCEPT !.swnd = FALSE, !.tswnd = TimerSwnd(n), !.sync = FALSE]

Reads(r, n) == r.valid /\ Synchronous(scene.rx[n].trans) /\ r.sync

\* co_rpdo_recv() of a frame, el ticks after the SYNC; see Read for event-driven ones.
co_rpdo_recv(r, n, msg, el) ==
    LET s == RTimerEvent(r, n)
    IN  IF Synchronous(scene.rx[n].trans) /\ ~r.swnd THEN [s EXCEPT !.sync = TRUE, !.msg = msg \o <<el>>] ELSE s

\* co_1400_dn_ind(), sub-index 1
co_1400_dn_ind(r, n) ==
    RTimerEvent([r EXCEPT !.valid = ~@, !.sync = FALSE, !.swnd = FALSE, !.tswnd = Off], n)

-----------------------------------------------------------------------------
(***************************************************************************)
(* The steps of the two nodes.  Timers that are due come before anything   *)
(* else, as in can_net_set_time().                                         *)
(***************************************************************************)
Due == 0 \in {sync.timer} \cup UNION {{tpdo[n].tevent, tpdo[n].tswnd, rpdo[n].tevent, rpdo[n].tswnd} : n \in Node}

\* What node n sends, after the frames of air0
Sees(o, x) ==
    IF x.out = <<>> THEN o
    ELSE [o EXCEPT !.sent = <<[kind |-> x.kind, msg |-> Head(x.out)[1], el |-> o.el, gap |-> o.gap]>>,
                   !.gap = IF x.kind = "event" THEN 0 ELSE @, !.age = IF x.kind = "event" THEN 0 ELSE @]
Sends(n, x, o, air0) ==
    /\ tpdo' = [tpdo EXCEPT ![n] = x.p]
    /\ air' = [air0 EXCEPT ![Other(n)] = @ \o [i \in 1..Len(x.out) |-> [type |-> "pdo", msg |-> x.out[i], cnt |-> 0]]]
    /\ seen' = [seen EXCEPT ![n] = Sees(o, x)]

Fault(fail) ==
    /\ fail = "none" \/ faults < scene.max_faults
    /\ faults' = IF fail = "none" THEN faults ELSE faults + 1

\* co_rpdo_read_frame(): the object is not written if the frame is too short.
Read(o, by, msg) ==
    IF msg[1] = Empty THEN o ELSE [o EXCEPT !.read = <<[by |-> by, msg |-> msg[1], el |-> msg[2]]>>]
Written(o, n) == IF n = "b" /\ o.read # Nothing THEN o.read[1].msg ELSE val

\* What an observer sees of a SYNC with this counter
SeesSync(n, cnt) ==
    LET o     == seen[n]
        c     == scene.tx[n]
        live  == tpdo[n].valid /\ ~tpdo[n].stopped
    IN  [o EXCEPT !.el = 0, !.n = (@ + 1) % scene.max_sync, !.sent = Nothing, !.read = Nothing,
                  !.due = live /\ o.event, !.event = @ /\ ~live,
                  !.from = IF ~live \/ c.trans \notin 1..240 THEN @
                           ELSE IF @ # Off THEN (@ % c.trans) + 1
                           ELSE IF c.start = 0 \/ cnt \in {0, c.start} THEN 1 ELSE Off]

\* Mutant: the Receive-PDO before the Transmit-PDO
co_nmt_on_syncRead(n, cnt, fail, air0) ==
    LET r == rpdo[n]
        o == SeesSync(n, cnt)
        q == IF Reads(r, n) THEN Read(o, "sync", r.msg) ELSE o
        x == [Tx(n, fail) EXCEPT !.v = IF n = "a" THEN o.n ELSE Written(q, n)]
    IN  /\ Sends(n, co_tpdo_sync(x, cnt), q, air0)
        /\ rpdo' = [rpdo EXCEPT ![n] = co_rpdo_sync(r, n)]
        /\ val' = Written(q, n)

\* co_nmt_on_sync(): the Transmit-PDO before the Receive-PDO
co_nmt_on_sync(n, cnt, fail, air0) ==
    LET r == rpdo[n]
        o == SeesSync(n, cnt)
        q == IF Reads(r, n) THEN Read(o, "sync", r.msg) ELSE o
        x == [Tx(n, fail) EXCEPT !.v = IF n = "a" THEN o.n ELSE val]
    IN  /\ Sends(n, co_tpdo_sync(x, cnt), q, air0)
        /\ rpdo' = [rpdo EXCEPT ![n] = co_rpdo_sync(r, n)]
        /\ val' = Written(q, n)

\* co_sync_timer(); a SYNC that cannot be sent counts for the node itself.
co_sync_timer(fail) ==
    /\ sync.timer = 0 /\ Fault(fail)
    /\ LET cnt == IF sync.max_cnt > 0 THEN sync.cnt ELSE 0
           f   == [type |-> "sync", msg |-> Nothing, cnt |-> cnt]
       IN  /\ sync' = [sync EXCEPT !.timer = sync.us,
                                   !.cnt = IF cnt = 0 THEN @ ELSE IF @ < sync.max_cnt THEN @ + 1 ELSE 1]
           /\ co_nmt_on_sync("a", cnt, fail, IF fail = "sync" THEN air ELSE [air EXCEPT !["b"] = Append(@, f)])
    /\ UNCHANGED <<scene, now, hold>>

co_tpdo_timer_event(n, fail) ==
    /\ tpdo[n].tevent = 0 /\ Fault(fail)
    /\ LET x == co_tpdo_event([Tx(n, fail) EXCEPT !.p.tevent = Off])
       IN  Sends(n, IF x.ret = -1 THEN TimerEvent(x) ELSE x, seen[n], air)
    /\ UNCHANGED <<scene, now, sync, rpdo, hold, val>>

co_tpdo_timer_swnd(n) ==
    /\ tpdo[n].tswnd = 0
    /\ tpdo' = [tpdo EXCEPT ![n].swnd = TRUE, ![n].tswnd = Off]
    /\ UNCHANGED <<scene, now, sync, rpdo, hold, val, air, faults, seen>>

\* co_rpdo_timer_event(): the user is told.
co_rpdo_timer_event(n) ==
    /\ rpdo[n].tevent = 0
    /\ rpdo' = [rpdo EXCEPT ![n].tevent = Off]
    /\ UNCHANGED <<scene, now, sync, tpdo, hold, val, air, faults, seen>>

co_rpdo_timer_swnd(n) ==
    /\ rpdo[n].tswnd = 0
    /\ rpdo' = [rpdo EXCEPT ![n].swnd = TRUE, ![n].tswnd = Off]
    /\ UNCHANGED <<scene, now, sync, tpdo, hold, val, air, faults, seen>>

Older(k) == IF k < scene.max_age THEN k + 1 ELSE k
Nearer(k) == IF k > 0 THEN k - 1 ELSE k

Tick ==
    /\ ~Due
    /\ \A n \in Node : IF scene.fast THEN air[n] = <<>> ELSE Len(air[n]) < MaxQueue
    /\ now' = (now + 1) % Cycle
    /\ sync' = [sync EXCEPT !.timer = Nearer(@)]
    /\ tpdo' = [n \in Node |-> [tpdo[n] EXCEPT !.tevent = Nearer(@), !.tswnd = Nearer(@), !.inhibit = Nearer(@)]]
    /\ rpdo' = [n \in Node |-> [rpdo[n] EXCEPT !.tevent = Nearer(@), !.tswnd = Nearer(@)]]
    /\ seen' = [n \in Node |-> [seen[n] EXCEPT !.el = Older(@), !.gap = Older(@), !.age = Older(@),
                                               !.sent = Nothing, !.read = Nothing]]
    /\ UNCHANGED <<scene, hold, val, air, faults>>

\* A frame arrives: co_sync_recv() at b; co_tpdo_recv() or co_rpdo_recv(), if the
\* receiver was started.
Recv(n, fail) ==
    /\ ~Due /\ air[n] # <<>> /\ Fault(fail)
    /\ LET f    == Head(air[n])
           rest == [air EXCEPT ![n] = Tail(@)]
           r    == rpdo[n]
           o    == Read(seen[n], "recv", f.msg \o <<seen[n].el>>)
           read == scene.rx[n].trans >= EventDriven
       IN  CASE f.type = "sync" -> co_nmt_on_sync(n, IF scene.max_cnt > 0 THEN f.cnt ELSE 0, fail, rest)
             [] f.type = "rtr" /\ tpdo[n].valid /\ ~tpdo[n].stopped ->
                   Sends(n, co_tpdo_recv(Tx(n, fail)), seen[n], rest) /\ UNCHANGED <<rpdo, val>>
             [] f.type = "pdo" /\ r.valid /\ ~r.stopped ->
                   /\ rpdo' = [rpdo EXCEPT ![n] = co_rpdo_recv(r, n, f.msg, seen[n].el)]
                   /\ seen' = IF read THEN [seen EXCEPT ![n] = o] ELSE seen
                   /\ val' = IF read THEN Written(o, n) ELSE val
                   /\ air' = rest /\ UNCHANGED tpdo
             [] OTHER -> air' = rest /\ UNCHANGED <<tpdo, rpdo, val, seen>>
    /\ UNCHANGED <<scene, now, sync, hold>>

Does(what) == ~Due /\ what \in scene.does /\ \A n \in Node : Len(air[n]) < MaxQueue

\* The user has the samples ready, or failed: co_tpdo_sample_res().
SampleRes(ac, fail) ==
    /\ ~Due /\ tpdo["a"].pend /\ Len(air["b"]) < MaxQueue /\ Fault(fail)
    /\ Sends("a", co_tpdo_sample_res([Tx("a", fail) EXCEPT !.p.pend = FALSE], ac), seen["a"], air)
    /\ UNCHANGED <<scene, now, sync, rpdo, hold, val>>

\* co_tpdo_event() at a, with the observer o
Event(fail, o) == Sends("a", co_tpdo_event(Tx("a", fail)), o, air) /\ Fault(fail)

co_nmt_on_tpdo_event(fail) ==
    /\ Does("event") /\ ~tpdo["a"].stopped
    /\ IF hold.wait > 0
       THEN /\ hold' = [hold EXCEPT !.mask = TRUE] /\ fail = "none"
            /\ seen' = [seen EXCEPT !["a"].held = TRUE]
            /\ UNCHANGED <<tpdo, air, faults>>
       ELSE Event(fail, [seen["a"] EXCEPT !.event = @ \/ tpdo["a"].valid]) /\ UNCHANGED hold
    /\ UNCHANGED <<scene, now, sync, rpdo, val>>

co_nmt_on_tpdo_event_lock ==
    /\ Does("lock") /\ hold.wait < 2
    /\ hold' = [hold EXCEPT !.wait = @ + 1]
    /\ UNCHANGED <<scene, now, sync, tpdo, rpdo, val, air, faults, seen>>

co_nmt_on_tpdo_event_unlock(fail) ==
    /\ Does("lock") /\ hold.wait > 0
    /\ LET last == hold.wait = 1
           o    == [seen["a"] EXCEPT !.event = @ \/ (tpdo["a"].valid /\ seen["a"].held), !.held = FALSE]
       IN  /\ hold' = [wait |-> hold.wait - 1, mask |-> hold.mask /\ ~last]
           /\ IF last /\ hold.mask /\ ~tpdo["a"].stopped THEN Event(fail, o)
              ELSE /\ fail = "none" /\ UNCHANGED <<tpdo, air, faults>>
                   /\ seen' = IF last THEN [seen EXCEPT !["a"] = o] ELSE seen
    /\ UNCHANGED <<scene, now, sync, rpdo, val>>

co_rpdo_rtr ==
    /\ Does("rtr") /\ rpdo["b"].valid
    /\ air' = [air EXCEPT !["a"] = Append(@, [type |-> "rtr", msg |-> Nothing, cnt |-> 0])]
    /\ UNCHANGED <<scene, now, sync, tpdo, rpdo, hold, val, faults, seen>>

\* The SYNC service of a: a write to 1005 makes it a producer or a consumer, to
\* 1006 changes the period, to 1019 the counter.
Sync(y) == sync' = co_sync_update(y) /\ UNCHANGED <<scene, now, tpdo, rpdo, hold, val, air, faults, seen>>

co_1005_dn_ind == Does("1005") /\ ~sync.stopped /\ Sync([sync EXCEPT !.producer = ~@])
co_1006_dn_ind == Does("1006") /\ ~sync.stopped /\ Sync([sync EXCEPT !.us = scene.us - @])
co_1019_dn_ind ==
    Does("1019") /\ ~sync.stopped /\ sync.us = 0 /\ Sync([sync EXCEPT !.max_cnt = scene.max_cnt - @])

Tpdo_1800 ==
    /\ Does("1800") /\ ~tpdo["a"].stopped
    /\ tpdo' = [tpdo EXCEPT !["a"] = co_1800_dn_ind(@, scene.tx["a"])]
    /\ seen' = [seen EXCEPT !["a"] = Activated(@)]
    /\ UNCHANGED <<scene, now, sync, rpdo, hold, val, air, faults>>

Rpdo_1400 ==
    /\ Does("1400") /\ ~rpdo["b"].stopped
    /\ rpdo' = [rpdo EXCEPT !["b"] = co_1400_dn_ind(@, "b")]
    /\ seen' = [seen EXCEPT !["b"] = Activated(@)]
    /\ UNCHANGED <<scene, now, sync, tpdo, hold, val, air, faults>>

\* co_nmt_srv_set(): the SYNC service and the PDOs of a are stopped and destroyed,
\* or created and started.
Stop ==
    /\ Does("stop") /\ ~sync.stopped
    /\ sync' = [sync EXCEPT !.stopped = TRUE, !.timer = Off]
    /\ tpdo' = [tpdo EXCEPT !["a"] = [Tpdo(scene.tx["a"]) EXCEPT !.stopped = TRUE, !.valid = tpdo["a"].valid,
                                                                 !.tevent = Off]]
    /\ rpdo' = [rpdo EXCEPT !["a"] = [Rpdo(@.valid) EXCEPT !.stopped = TRUE]]
    /\ UNCHANGED <<scene, now, hold, val, air, faults, seen>>

Start ==
    /\ Does("stop") /\ sync.stopped
    /\ sync' = co_sync_update([sync EXCEPT !.stopped = FALSE])
    /\ tpdo' = [tpdo EXCEPT !["a"] = Tpdo([scene.tx["a"] EXCEPT !.valid = tpdo["a"].valid])]
    /\ rpdo' = [rpdo EXCEPT !["a"] = Rpdo(@.valid)]
    /\ seen' = [seen EXCEPT !["a"] = Activated(@)]
    /\ UNCHANGED <<scene, now, hold, val, air, faults>>

Fails == {"none", "sample", "send"}

PdoNext ==
    \/ \E fail \in Fails \cup {"sync"} : co_sync_timer(fail)
    \/ \E n \in Node : \/ co_tpdo_timer_swnd(n) \/ co_rpdo_timer_event(n) \/ co_rpdo_timer_swnd(n)
                        \/ \E fail \in Fails : co_tpdo_timer_event(n, fail) \/ Recv(n, fail)
    \/ Tick
    \/ \E fail \in Fails : \/ co_nmt_on_tpdo_event(fail) \/ co_nmt_on_tpdo_event_unlock(fail)
                            \/ \E ac \in BOOLEAN : SampleRes(ac, fail)
    \/ co_nmt_on_tpdo_event_lock \/ co_rpdo_rtr
    \/ co_1005_dn_ind \/ co_1006_dn_ind \/ co_1019_dn_ind \/ Tpdo_1800 \/ Rpdo_1400 \/ Stop \/ Start

PdoSpec == PdoInit /\ [][PdoNext]_pdovars

-----------------------------------------------------------------------------
Sent(n) == {seen[n].sent[i] : i \in 1..Len(seen[n].sent)}
Got(n) == {seen[n].read[i] : i \in 1..Len(seen[n].read)}
Live(n) == tpdo[n].valid /\ ~tpdo[n].stopped

\* A synchronous PDO is sent, and the frame that a synchronous Receive-PDO acts
\* upon at the SYNC has arrived, in the synchronous window of a SYNC (or before
\* the first one), whenever the samples are ready (co_tpdo_sample_res(),
\* co_rpdo_recv() and their timers).
InWindow ==
    \A n \in Node : scene.swnd[n] > 0 =>
        /\ \A f \in Sent(n) : f.kind = "sync" => f.el < scene.swnd[n]
        /\ \A f \in Got(n) : f.by = "sync" => f.el < scene.swnd[n] \/ f.el = scene.max_age

\* Event-driven PDOs are at least the inhibit time apart, and at most the inhibit
\* time and the event time, whoever triggers them and although failures to send
\* do not restart the inhibit time (co_tpdo_event(), co_tpdo_timer_event()).
EventsSpaced ==
    \A n \in Node : scene.tx[n].trans >= EventDriven =>
        /\ \A f \in Sent(n) : f.gap >= scene.tx[n].inhibit
        /\ Live(n) /\ scene.tx[n].event > 0 /\ faults = 0 =>
              seen[n].age <= scene.tx[n].inhibit + scene.tx[n].event

\* At a SYNC a cyclic PDO is sent exactly if it is the n-th one, counted from the
\* one with the start value, and an acyclic PDO exactly if there was an event that
\* is not held back (co_tpdo_sync(), co_nmt_on_tpdo_event_unlock()).
NthSync ==
    \A n \in Node :
        LET c == scene.tx[n]
        IN  Live(n) /\ Synchronous(c.trans) /\ faults = 0 /\ seen[n].el = 0 /\ ~(scene.later /\ n = "a") =>
                ((seen[n].sent # Nothing) <=> IF c.trans = 0 THEN seen[n].due ELSE seen[n].from = c.trans)

\* The pipeline of synchronous PDOs of every SYNC: b acts upon the value of the
\* SYNC before, and sends the one of the SYNC before that, although both are the
\* same object (co_nmt_on_sync(), "we transmit the value from the previous
\* synchronous window before updating it with a received PDO").  A remote frame
\* is answered with the value of the last SYNC (co_tpdo_recv()).
Pipeline ==
    faults = 0 =>
    /\ scene.fast /\ scene.does = {} /\ scene.tx["a"].trans = 1 /\ scene.rx["b"].trans = 0 /\ ~scene.later =>
        /\ \A f \in Got("b") : f.msg = (seen["b"].n - 1) % scene.max_sync
        /\ \A f \in Sent("b") : f.msg \in {Off, (seen["b"].n - 2) % scene.max_sync}
    /\ scene.tx["a"].trans = RtrSync /\ ~scene.later => \A f \in Sent("a") : f.msg = seen["a"].n
=============================================================================
