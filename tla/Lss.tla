-------------------------------- MODULE Lss --------------------------------
(***************************************************************************)
(* The layer setting services (lib/co/lss.c): a master that finds,         *)
(* switches, configures and inquires slaves by their LSS addresses, and    *)
(* the slaves.  A request reaches every slave in the step that sends it;   *)
(* what the slaves answer is on the bus until the master receives it or it *)
(* is lost.                                                                *)
(***************************************************************************)
EXTENDS Integers, Sequences, FiniteSets

CONSTANTS
    Slaves,
    None,
    NBits,      \* the number of bits of an LSS number (32 in the code)
    Scenes,     \* the situations that are looked at, see scene
    MaxLate,    \* bound on the answers of a slave that are late for their request
    MaxFaults   \* bound on lost answers and frames that cannot be sent

Number == 0..(2^NBits - 1)
Address == [1..4 -> Number]     \* vendor-ID, product-code, revision and serial number
NoId == 255                     \* the node-ID of a slave that has none
Rates == {0, 1}                 \* the baud rates that a slave supports

LssAssumption ==
    /\ NBits \in Nat \ {0} /\ MaxLate \in Nat /\ MaxFaults \in Nat
    /\ \A c \in Scenes :
          /\ c.slaves \in [Slaves -> Address] /\ c.booted \in [Slaves -> BOOLEAN] /\ c.merged \in BOOLEAN
          /\ c.stops \in BOOLEAN /\ c.store \in 0..2
          /\ c.ids \subseteq Address /\ c.ranges \subseteq Address \X Address /\ c.known \subseteq 0..4
          /\ c.reqs \subseteq {"slowscan", "fastscan", "switch_sel", "identify", "configure", "inquire"}

VARIABLES
    scene,      \* slaves: their addresses; booted: the slaves that have a node-ID and run;
                \* merged: slaves answer at the same time, and equal answers are one frame;
                \* stops: is the master stopped; store: what storing a configuration gives;
                \* reqs: the kinds of requests; ids, ranges, known: what they are about
    m,          \* the master
    slave,      \* slave |-> its state
    bus,        \* slave |-> what it has sent and the master has not received
    faults,     \* the number of faults
    last        \* the last request, what is known of it and its indication

lssvars == <<scene, m, slave, bus, faults, last>>

\* The states of a master that handle a frame and a timeout
HasOnRecv == {"cs", "err", "lssid", "nid", "slowscan_init", "slowscan_scan", "slowscan_wait",
              "slowscan_switch", "fastscan_init", "fastscan_scan", "fastscan_wait"}
HasOnTime == HasOnRecv \cup {"switch_sel", "id_slave"}

Zero == [i \in 1..4 |-> 0]
Frame(cs, val) == [cs |-> cs, val |-> val, bitchk |-> 0, lsssub |-> 0, lssnext |-> 0]

Start(state, timer, recv) ==
    [state |-> state, timer |-> timer, recv |-> recv, cs |-> 0, next |-> 0, lo |-> Zero, hi |-> Zero, id |-> Zero,
     mask |-> [i \in 1..4 |-> {}], bitchk |-> 0, lsssub |-> 0, val |-> 0,
     to |-> None, tx |-> None, ok |-> TRUE, ind |-> None]

LssInit ==
    /\ scene \in Scenes
    /\ m = Start("wait", "off", FALSE)
    /\ slave = [s \in Slaves |-> [state |-> "wait", cs |-> 0, lsspos |-> 0, rate |-> 0, stored |-> None,
                                  id |-> IF scene.booted[s] THEN 1 ELSE NoId]]
    /\ bus = [s \in Slaves |-> <<>>]
    /\ faults = 0
    /\ last = [req |-> "none", arg |-> <<>>, want |-> {}, clean |-> TRUE, ind |-> None, val |-> None]

-----------------------------------------------------------------------------
(***************************************************************************)
(* Slave s: the pair of its state v and its answers to frame f.            *)
(***************************************************************************)
Answer(v, cs, val) == <<v, <<[cs |-> cs, val |-> val]>>>>
Silent(v) == <<v, <<>>>>

\* co_lss_switch_sel(): the four numbers one after the other
co_lss_switch_sel(v, s, f) ==
    LET a     == scene.slaves[s]
        i     == f.cs - \h3f
        right == (i = 1 \/ v.cs = f.cs) /\ f.val = a[i]
    IN  IF right /\ i = 4 THEN Answer([v EXCEPT !.cs = 0, !.state = "cfg"], \h44, 0)
        ELSE Silent([v EXCEPT !.cs = IF right THEN f.cs + 1 ELSE 0])

\* co_lss_id_slave(): two numbers and two ranges
co_lss_id_slave(v, s, f) ==
    LET a     == scene.slaves[s]
        right == /\ f.cs = \h46 \/ v.cs = f.cs
                 /\ CASE f.cs = \h46 -> f.val = a[1]
                      [] f.cs = \h47 -> f.val = a[2]
                      [] f.cs = \h48 -> f.val <= a[3]
                      [] f.cs = \h49 -> f.val >= a[3]
                      [] f.cs = \h4a -> f.val <= a[4]
                      [] f.cs = \h4b -> f.val >= a[4]
    IN  IF right /\ f.cs = \h4b THEN Answer([v EXCEPT !.cs = 0], \h4f, 0)
        ELSE Silent([v EXCEPT !.cs = IF right THEN f.cs + 1 ELSE 0])

\* co_lss_id_non_cfg_slave(): neither an active nor a pending node-ID.  A slave
\* without active node-ID is in the NMT state Initialization.
co_lss_id_non_cfg_slave(v, s) ==
    IF v.id = NoId /\ ~scene.booted[s] THEN Answer(v, \h50, 0) ELSE Silent(v)

\* co_lss_fastscan(); the reset request has bit 0x80.
co_lss_fastscan(v, s, f) ==
    LET a       == scene.slaves[s]
        matches == f.val \div 2^f.bitchk = a[v.lsspos + 1] \div 2^f.bitchk
        final   == f.bitchk = 0 /\ f.lssnext < f.lsssub
    IN  IF f.bitchk = \h80 THEN Answer([v EXCEPT !.lsspos = 0], \h4f, 0)
        ELSE IF v.lsspos = f.lsssub /\ matches
        THEN Answer([v EXCEPT !.lsspos = f.lssnext, !.state = IF final THEN "cfg" ELSE @], \h4f, 0)
        ELSE Silent(v)

\* Switch state global.  The waiting state is entered anew.
switch_global(v, f) ==
    Silent(IF f.val = 0 THEN [v EXCEPT !.state = "wait", !.cs = 0, !.lsspos = 0] ELSE [v EXCEPT !.state = "cfg"])

\* co_lss_wait_slave_on_recv()
co_lss_wait_slave_on_recv(v, s, f) ==
    CASE f.cs = \h04 -> switch_global(v, f)
      [] f.cs \in \h40..\h43 -> co_lss_switch_sel(v, s, f)
      [] f.cs \in \h46..\h4b -> co_lss_id_slave(v, s, f)
      [] f.cs = \h4c -> co_lss_id_non_cfg_slave(v, s)
      [] f.cs = \h51 -> co_lss_fastscan(v, s, f)
      [] OTHER -> Silent(v)

\* co_nmt_set_id(), of the pending node-ID
ValidId(id) == id \in 1..127 \cup {255}

\* co_lss_cfg_on_recv()
co_lss_cfg_on_recv(v, s, f) ==
    CASE f.cs = \h04 -> switch_global(v, f)
      [] f.cs = \h11 -> IF ValidId(f.val) THEN Answer([v EXCEPT !.id = f.val], f.cs, 0)
                        ELSE Answer(v, f.cs, 1)
      [] f.cs = \h13 -> IF f.val \in Rates THEN Answer([v EXCEPT !.rate = f.val], f.cs, 0)
                        ELSE Answer(v, f.cs, 1)
      [] f.cs = \h17 -> Answer(IF scene.store = 0 THEN [v EXCEPT !.stored = <<v.id, v.rate>>] ELSE v, f.cs, scene.store)
      [] f.cs \in \h46..\h4b -> co_lss_id_slave(v, s, f)
      [] f.cs = \h4c -> co_lss_id_non_cfg_slave(v, s)
      [] f.cs \in \h5a..\h5d -> Answer(v, f.cs, scene.slaves[s][f.cs - \h59])
      [] f.cs = \h5e -> Answer(v, f.cs, IF scene.booted[s] THEN 1 ELSE v.id)
      [] OTHER -> Silent(v)

SlaveRecv(s, f) ==
    IF slave[s].state = "wait" THEN co_lss_wait_slave_on_recv(slave[s], s, f) ELSE co_lss_cfg_on_recv(slave[s], s, f)

-----------------------------------------------------------------------------
(***************************************************************************)
(* The master.  A handler takes and returns its state with, in fields, to  *)
(* (the state to enter, or None), tx (the frame that is sent, or None), ok *)
(* (can a frame be sent) and ind (the indication, or None).                *)
(***************************************************************************)
\* Op(r), with r evaluated once
At(r, Op(_)) == CHOOSE y \in {Op(x) : x \in {r}} : TRUE

To(x, state) == [x EXCEPT !.to = state]
Fails(x, state) == [x EXCEPT !.cs = 0, !.to = state]
Send(x, f) == [x EXCEPT !.tx = IF x.ok THEN f ELSE None]

\* co_lss_init_ind()
co_lss_init_ind(x, cs) == [x EXCEPT !.cs = cs, !.val = 0, !.recv = TRUE, !.timer = "timeout"]

\* One frame of several, and the inhibit time or the wait for the answer
SendNext(x, f, n, cs) ==
    LET y == [Send(x, f) EXCEPT !.next = @ + 1]
    IN  IF ~x.ok THEN x
        ELSE IF y.next < n THEN [y EXCEPT !.recv = FALSE, !.timer = "inhibit"] ELSE co_lss_init_ind(y, cs)

co_lss_send_switch_sel_req(x, id) == SendNext(x, Frame(\h40 + x.next, id[x.next + 1]), 4, \h44)

co_lss_send_id_slave_req(x, lo, hi) ==
    SendNext(x, Frame(\h46 + x.next, <<lo[1], lo[2], lo[3], hi[3], lo[4], hi[4]>>[x.next + 1]), 6, \h4f)

\* Mutant: the number after the midpoint is skipped.
co_lss_slowscan_scan_on_resSkips(x, timeout) ==
    IF x.lo[3] = x.hi[3] /\ x.lo[4] = x.hi[4]
    THEN IF timeout THEN Fails(x, "slowscan_fini") ELSE To(co_lss_init_ind(x, \h44), "slowscan_switch")
    ELSE To(IF ~timeout THEN [x EXCEPT !.hi = x.id]
            ELSE IF x.id[3] < x.hi[3] THEN [x EXCEPT !.lo[3] = x.hi[3]]
            ELSE [x EXCEPT !.lo[4] = x.hi[4]], "slowscan_scan")

\* co_lss_slowscan_scan_on_res()
co_lss_slowscan_scan_on_res(x, timeout) ==
    IF x.lo[3] = x.hi[3] /\ x.lo[4] = x.hi[4]
    THEN IF timeout THEN Fails(x, "slowscan_fini") ELSE To(co_lss_init_ind(x, \h44), "slowscan_switch")
    ELSE To(IF ~timeout THEN [x EXCEPT !.hi = x.id]
            ELSE IF x.id[3] < x.hi[3] THEN [x EXCEPT !.lo[3] = x.id[3] + 1]
            ELSE [x EXCEPT !.lo[4] = x.id[4] + 1], "slowscan_scan")

\* The complete number is known.
Complete(x) == x.bitchk = 0 /\ 0 \in x.mask[x.lsssub + 1]

\* co_lss_fastscan_scan_on_res()
co_lss_fastscan_scan_on_res(x, timeout) ==
    LET i == x.lsssub + 1
        b == x.bitchk
    IN  IF Complete(x)
        THEN IF timeout THEN Fails(x, "fastscan_fini")
             ELSE IF i = 4 THEN To([x EXCEPT !.lsssub = 4], "fastscan_fini")
             ELSE To([x EXCEPT !.lsssub = i, !.bitchk = NBits - 1], "fastscan_scan")
        ELSE To([x EXCEPT !.id[i] = IF timeout THEN @ + 2^b ELSE @, !.mask[i] = @ \cup {b}], "fastscan_scan")

\* The on_time() functions
on_time(x) ==
    CASE x.state = "cs" -> Fails(x, "cs_fini")
      [] x.state \in {"err", "lssid", "nid"} -> Fails(x, "wait")
      [] x.state = "switch_sel" ->
            LET y == co_lss_send_switch_sel_req(x, x.id)
            IN  IF ~x.ok THEN Fails(x, "cs_fini") ELSE IF y.cs = \h44 THEN To(y, "cs") ELSE y
      [] x.state = "id_slave" ->
            LET y == co_lss_send_id_slave_req(x, x.lo, x.hi)
            IN  IF ~x.ok THEN Fails(x, "cs_fini") ELSE IF y.cs = \h4f THEN To(y, "cs") ELSE y
      [] x.state = "slowscan_init" ->
            IF x.cs = \h4f \/ ~x.ok THEN Fails(x, "slowscan_fini") ELSE co_lss_send_id_slave_req(x, x.lo, x.hi)
      [] x.state = "slowscan_scan" ->
            IF x.cs = \h4f THEN co_lss_slowscan_scan_on_res(x, TRUE)
            ELSE IF ~x.ok THEN Fails(x, "slowscan_fini") ELSE co_lss_send_id_slave_req(x, x.lo, x.id)
      [] x.state = "slowscan_wait" -> co_lss_slowscan_scan_on_res(x, FALSE)
      [] x.state = "slowscan_switch" ->
            IF x.cs = \h44 \/ ~x.ok THEN Fails(x, "slowscan_fini") ELSE co_lss_send_switch_sel_req(x, x.id)
      [] x.state = "fastscan_init" -> Fails(x, "fastscan_fini")
      [] x.state = "fastscan_scan" -> co_lss_fastscan_scan_on_res(x, TRUE)
      [] x.state = "fastscan_wait" -> co_lss_fastscan_scan_on_res(x, FALSE)

\* The on_recv() functions
on_recv(x, f) ==
    CASE x.state = "slowscan_wait" \/ x.state = "fastscan_wait" \/ f.cs # x.cs -> x
      [] f.cs = x.cs /\ x.state = "cs" -> To(x, "cs_fini")
      [] f.cs = x.cs /\ x.state \in {"err", "lssid", "nid"} -> To([x EXCEPT !.val = f.val], "wait")
      [] f.cs = x.cs /\ x.state = "slowscan_init" -> To(x, "slowscan_scan")
      [] f.cs = x.cs /\ x.state = "slowscan_scan" -> To(x, "slowscan_wait")
      [] f.cs = x.cs /\ x.state = "slowscan_switch" -> To(x, "slowscan_fini")
      [] f.cs = x.cs /\ x.state = "fastscan_init" -> To([x EXCEPT !.bitchk = NBits - 1], "fastscan_scan")
      [] f.cs = x.cs /\ x.state = "fastscan_scan" -> To(x, "fastscan_wait")

\* co_lss_slowscan_scan_on_enter(): the midpoint
Midpoint(x) ==
    LET mid(i) == x.lo[i] + (x.hi[i] - x.lo[i]) \div 2
    IN  IF x.lo[3] < x.hi[3] THEN [x.lo EXCEPT ![3] = mid(3), ![4] = x.hi[4]] ELSE [x.lo EXCEPT ![4] = mid(4)]

\* co_lss_fastscan_scan_on_enter()
co_lss_fastscan_scan_on_enter(x) ==
    LET i       == x.lsssub + 1
        unknown == {b \in 0..x.bitchk : b \notin x.mask[i]}
        y       == [x EXCEPT !.bitchk = IF unknown = {} THEN 0 ELSE CHOOSE b \in unknown : \A c \in unknown : c <= b]
        f       == [cs |-> \h51, val |-> x.id[i], bitchk |-> y.bitchk, lsssub |-> x.lsssub,
                    lssnext |-> IF Complete(y) THEN i % 4 ELSE x.lsssub]
    IN  IF ~x.ok THEN Fails(y, "fastscan_fini") ELSE [Send(y, f) EXCEPT !.timer = "timeout"]

\* The on_enter() functions
on_enter(x) ==
    CASE x.state \in {"cs_fini", "slowscan_fini", "fastscan_fini"} -> To(x, "wait")
      [] x.state \in {"switch_sel", "id_slave", "slowscan_init", "slowscan_scan", "slowscan_switch"} ->
            At([x EXCEPT !.next = 0, !.cs = 0, !.id = IF x.state = "slowscan_scan" THEN Midpoint(x) ELSE @], on_time)
      [] x.state = "fastscan_scan" -> co_lss_fastscan_scan_on_enter(x)
      [] OTHER -> x

\* The on_leave() functions: the user is told.
on_leave(x, prev) ==
    IF prev \in {"cs_fini", "err", "lssid", "nid", "slowscan_fini", "fastscan_fini"}
    THEN [x EXCEPT !.timer = "off", !.recv = FALSE, !.ind = x.cs] ELSE x

RECURSIVE co_lss_enter(_)
co_lss_enter(r) ==
    At(r, LAMBDA x : IF x.to = None THEN x
                     ELSE co_lss_enter(At(on_leave([x EXCEPT !.state = x.to, !.to = None], x.state), on_enter)))

-----------------------------------------------------------------------------
(***************************************************************************)
(* The steps.  What the master sends is handled by the slaves, and the     *)
(* user learns of the result.                                              *)
(***************************************************************************)
Master(ok) == [m EXCEPT !.ok = ok]

\* Slaves that answer at the same time send equal answers as one frame.
Sent(f) ==
    LET answers == [s \in Slaves |-> SlaveRecv(s, f)[2]]
    IN  [s \in Slaves |-> IF scene.merged /\ s # (CHOOSE r \in Slaves : answers[r] = answers[s]) THEN <<>>
                          ELSE answers[s]]

\* What a request leaves behind in the master is not read by the next one.
Becomes(r, b, l) ==
    \E x \in {r} :
        /\ m' = IF x.state \in {"wait", "stopped"} THEN Start(x.state, x.timer, x.recv)
                ELSE [x EXCEPT !.tx = None, !.ok = TRUE, !.ind = None]
        /\ slave' = IF x.tx = None THEN slave ELSE [s \in Slaves |-> SlaveRecv(s, x.tx)[1]]
        /\ bus' = IF x.tx = None THEN b ELSE [s \in Slaves |-> b[s] \o Sent(x.tx)[s]]
        /\ last' = IF x.ind = None THEN l
                   ELSE [l EXCEPT !.ind = x.ind,
                                  !.val = IF l.req \in {"slowscan", "fastscan"} THEN x.id ELSE <<x.val>>]
        /\ UNCHANGED scene

Idle == m.state = "wait"
Accepts == Idle /\ \A s \in Slaves : Len(bus[s]) <= MaxLate
Quiet == \A s \in Slaves : bus[s] = <<>>

\* A frame that has to be sent cannot be sent: one of the faults.
Faulty(ok) ==
    /\ ok \/ faults < MaxFaults
    /\ faults' = IF ok THEN faults ELSE faults + 1

\* The timer.  An answer takes less time than the timeout.
co_lss_timer(ok) ==
    /\ m.timer # "off" /\ (m.timer = "timeout" => Quiet)
    /\ Faulty(ok)
    /\ Becomes(co_lss_enter(At([Master(ok) EXCEPT !.timer = "off"], on_time)), bus, [last EXCEPT !.clean = @ /\ ok])

co_lss_recv(s, ok) ==
    /\ bus[s] # <<>> /\ Faulty(ok)
    /\ Becomes(IF m.recv THEN co_lss_enter(on_recv(Master(ok), Head(bus[s]))) ELSE Master(ok),
               [bus EXCEPT ![s] = Tail(@)], [last EXCEPT !.clean = @ /\ ok])

\* An answer is lost.
LoseAnswer(s) ==
    /\ bus[s] # <<>> /\ faults < MaxFaults
    /\ bus' = [bus EXCEPT ![s] = Tail(@)]
    /\ faults' = faults + 1
    /\ last' = [last EXCEPT !.clean = FALSE]
    /\ UNCHANGED <<scene, m, slave>>

-----------------------------------------------------------------------------
(***************************************************************************)
(* The requests of the user, who has one at a time.                        *)
(***************************************************************************)
\* arg holds the value, or the bounds on the addresses, that the request is about.
Requested(req, arg, want) ==
    [req |-> req, arg |-> arg, want |-> want, clean |-> Quiet, ind |-> None, val |-> None]

\* A request of one frame and, if there is an answer, the state that waits for it
Request(req, f, cs, state, want) ==
    /\ Accepts
    /\ LET x == Send(Master(TRUE), f)
       IN  Becomes(IF state = None THEN x ELSE co_lss_enter(To(co_lss_init_ind(x, cs), state)), bus,
                   Requested(req, <<f.val>>, want))
    /\ UNCHANGED faults

co_lss_switch_req(mode) == Request("switch", Frame(\h04, mode), 0, None, {})
co_lss_set_id_req(id) == ValidId(id) /\ Request("set_id", Frame(\h11, id), \h11, "err", {})
co_lss_set_rate_req(rate) == Request("set_rate", Frame(\h13, rate), \h13, "err", {})
co_lss_switch_rate_req == Request("switch_rate", Frame(\h15, 0), 0, None, {})
co_lss_store_req == Request("store", Frame(\h17, 0), \h17, "err", {})
co_lss_get_lssid_req(i) == Request("get_lssid", Frame(\h59 + i, i), \h59 + i, "lssid", {})
co_lss_get_id_req == Request("get_id", Frame(\h5e, 0), \h5e, "nid", {})
co_lss_id_non_cfg_slave_req == Request("id_non_cfg", Frame(\h4c, 0), \h50, "cs", {})

\* The first, in lexicographic order, of a set of addresses; None if there is none
Before(a, b) == \E i \in 1..4 : a[i] < b[i] /\ \A j \in 1..(i - 1) : a[j] = b[j]
First(as) == IF as = {} THEN None ELSE CHOOSE a \in as : \A b \in as \ {a} : Before(a, b)

\* The addresses of which each number is within bounds
Within(as, lo, hi) == {a \in as : \A i \in 1..4 : a[i] \in lo[i]..hi[i]}
Addresses(ss) == {scene.slaves[s] : s \in ss}

\* What a scan finds; empty if that is left open, as slaves that are not waiting,
\* or answer one after the other, mislead it.
Wanted(lo, hi) ==
    IF (\A s \in Slaves : slave[s].state = "wait") /\ (scene.merged \/ Cardinality(Slaves) = 1)
    THEN {First(Within(Addresses(Slaves), lo, hi))} ELSE {}

ValidRange(lo, hi) == lo[1] = hi[1] /\ lo[2] = hi[2] /\ lo[3] <= hi[3] /\ lo[4] <= hi[4]

\* A request of several frames
Enter(x, l) ==
    /\ Accepts
    /\ Becomes(co_lss_enter(x), bus, l)

co_lss_switch_sel_req(id, ok) ==
    /\ Faulty(ok)
    /\ Enter(To([Master(ok) EXCEPT !.id = id], "switch_sel"), Requested("switch_sel", <<id, id>>, {}))

co_lss_id_slave_req(lo, hi, ok) ==
    /\ ValidRange(lo, hi) /\ Faulty(ok)
    /\ Enter(To([Master(ok) EXCEPT !.lo = lo, !.hi = hi], "id_slave"), Requested("id_slave", <<lo, hi>>, {}))

co_lss_slowscan_req(lo, hi, ok) ==
    /\ ValidRange(lo, hi) /\ Faulty(ok)
    /\ Enter(To([Master(ok) EXCEPT !.lo = lo, !.hi = hi, !.id = Zero], "slowscan_init"),
             [Requested("slowscan", <<lo, hi>>, Wanted(lo, hi)) EXCEPT !.clean = @ /\ ok])

\* A fastscan of which the first k numbers are known
co_lss_fastscan_req(id, k) ==
    /\ Accepts
    /\ LET lo == [i \in 1..4 |-> IF i <= k THEN id[i] ELSE 0]
           hi == [i \in 1..4 |-> IF i <= k THEN id[i] ELSE 2^NBits - 1]
           x  == [Master(TRUE) EXCEPT !.id = lo, !.mask = [i \in 1..4 |-> IF i <= k THEN 0..(NBits - 1) ELSE {}],
                                      !.bitchk = \h80, !.lsssub = 0]
           f  == [Frame(\h51, 0) EXCEPT !.bitchk = \h80]
       IN  Becomes(co_lss_enter(To(co_lss_init_ind(Send(x, f), \h4f), "fastscan_init")), bus,
                   Requested("fastscan", <<lo, hi>>, Wanted(lo, hi)))
    /\ UNCHANGED faults

\* co_lss_stop() and co_lss_start(), of the master
co_lss_stop ==
    /\ scene.stops /\ m.state # "stopped"
    /\ Becomes(co_lss_enter(To([Master(TRUE) EXCEPT !.timer = "off", !.recv = FALSE], "stopped")), bus,
               [last EXCEPT !.clean = FALSE])
    /\ UNCHANGED faults

co_lss_start ==
    /\ m.state = "stopped"
    /\ Becomes(co_lss_enter(To(Master(TRUE), "wait")), bus, last)
    /\ UNCHANGED faults

Requests ==
    \/ \E mode \in 0..1 : co_lss_switch_req(mode)
    \/ /\ "switch_sel" \in scene.reqs
       /\ \E id \in scene.ids, ok \in BOOLEAN : co_lss_switch_sel_req(id, ok)
    \/ /\ "slowscan" \in scene.reqs
       /\ \E r \in scene.ranges, ok \in BOOLEAN : co_lss_slowscan_req(r[1], r[2], ok)
    \/ /\ "fastscan" \in scene.reqs
       /\ \E id \in scene.ids, k \in scene.known : co_lss_fastscan_req(id, k)
    \/ /\ "identify" \in scene.reqs
       /\ \/ \E r \in scene.ranges, ok \in BOOLEAN : co_lss_id_slave_req(r[1], r[2], ok)
          \/ co_lss_id_non_cfg_slave_req
    \/ /\ "configure" \in scene.reqs
       /\ \/ \E id \in {1, NoId} : co_lss_set_id_req(id)
          \/ \E rate \in 0..2 : co_lss_set_rate_req(rate)
          \/ co_lss_switch_rate_req
          \/ co_lss_store_req
    \/ /\ "inquire" \in scene.reqs
       /\ \/ \E i \in 1..4 : co_lss_get_lssid_req(i)
          \/ co_lss_get_id_req

LssNext ==
    \/ Requests
    \/ \E ok \in BOOLEAN : co_lss_timer(ok)
    \/ \E s \in Slaves, ok \in BOOLEAN : co_lss_recv(s, ok)
    \/ \E s \in Slaves : LoseAnswer(s)
    \/ co_lss_stop
    \/ co_lss_start

\* Timers expire and frames are received.
Proceeds == \E ok \in BOOLEAN : co_lss_timer(ok) \/ \E s \in Slaves : co_lss_recv(s, ok)
LssFairness == WF_lssvars(Proceeds)

LssSpec == LssInit /\ [][LssNext]_lssvars /\ LssFairness

-----------------------------------------------------------------------------
(***************************************************************************)
(* Properties                                                              *)
(***************************************************************************)
\* A timer that runs and a receiver that is started find a state that handles
\* them, as co_lss_emit_time() and co_lss_emit_recv() assert, and a request is
\* never left without the timer that ends it.
LssHandled ==
    /\ m.timer # "off" <=> m.state \in HasOnTime
    /\ m.recv => m.state \in HasOnRecv

Cfg == {s \in Slaves : slave[s].state = "cfg"}

\* What an indication that reports success tells the user of the slaves
Honest ==
    LET l == last
    IN  CASE l.req = "switch_sel" -> l.arg[1] \in Addresses(Cfg)
          [] l.req = "id_slave" -> Within(Addresses(Slaves), l.arg[1], l.arg[2]) # {}
          [] l.req \in {"slowscan", "fastscan"} -> l.val \in Within(Addresses(Cfg), l.arg[1], l.arg[2])
          [] l.req = "set_id" -> l.val = <<0>> => Cfg # {} /\ \A s \in Cfg : <<slave[s].id>> = l.arg
          [] l.req = "set_rate" -> IF l.val = <<0>> THEN Cfg # {} /\ \A s \in Cfg : <<slave[s].rate>> = l.arg
                                   ELSE l.arg[1] \notin Rates
          [] l.req = "store" -> l.val = <<0>> => \A s \in Cfg : slave[s].stored = <<slave[s].id, slave[s].rate>>
          [] l.req = "get_lssid" -> \E s \in Cfg : l.val = <<scene.slaves[s][l.arg[1]]>>
          [] l.req = "get_id" -> \E s \in Cfg : l.val = <<IF scene.booted[s] THEN 1 ELSE slave[s].id>>
          [] l.req = "id_non_cfg" -> \E s \in Slaves : slave[s].id = NoId
          [] OTHER -> TRUE

\* An indication that reports success is true of the slaves: they are in the
\* configuration state, have the node-ID, the bit rate or the number that the
\* user is told of; provided that no answer to an earlier request was on the bus
\* and the master was not stopped.
IndHonest == Idle /\ last.clean /\ last.ind \notin {None, 0} => Honest

\* A scan that no fault disturbs, of waiting slaves that answer at the same time,
\* finds the slave with the lowest address of those looked for, and reports that
\* there is none only if there is none.
FoundLowest ==
    Idle /\ last.clean /\ last.ind # None /\ last.want # {}
        => last.want = {IF last.ind = 0 THEN None ELSE last.val}

\* Every request ends: the inhibit and timeout timers always lead back to the
\* state in which the next request is accepted.
Unfinished == ~Idle /\ m.state # "stopped"
RequestsEnd == Unfinished ~> ~Unfinished
=============================================================================
