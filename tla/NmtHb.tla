------------------------------- MODULE NmtHb -------------------------------
(***************************************************************************)
(* The heartbeat consumers of an NMT service (src/lib/co/nmt_hb.c) and the *)
(* parts of src/lib/co/nmt.c that configure them: object 1016, and the     *)
(* 'boot slave' and 'configuration request' processes of a master, during  *)
(* which the consumer of the node is disabled.                             *)
(*                                                                         *)
(* On a master, the frames of a node are received by the heartbeat         *)
(* consumer and by the receiver for boot-up messages.  Both are in one     *)
(* list of the network interface, and the callback of the one stops and    *)
(* starts the other while the list is processed.                           *)
(*                                                                         *)
(* Times are in units of one tick; a timer is the number of ticks left.    *)
(***************************************************************************)
EXTENDS Integers, Sequences, FiniteSets, FiniteSetsExt, SequencesExt

CONSTANTS
    Nodes,      \* the node-IDs of the other nodes
    Slots,      \* the sub-indices of object 1016
    Entries,    \* the values <<node-ID, heartbeat time>> of its sub-objects
    Initial1016,\* the initial values
    Master,     \* is this node the master?
    AppWrites,  \* do the indication functions of the application write object 1016?
    Aborts,     \* can a process fail to start, or be ended by the master itself?
    Off, Null

Receivers == {<<"hb", s>> : s \in Slots} \cup {<<"slave", id>> : id \in Nodes}
CAN == INSTANCE CanRecv WITH Keys <- Nodes, Recvs <- Receivers

CO_NMT_ST_BOOTUP == 0
CO_NMT_ST_START == 5
CO_NMT_ST_PREOP == 127
StatesOfNode == {CO_NMT_ST_BOOTUP, CO_NMT_ST_START, CO_NMT_ST_PREOP}

MaxMs == Max({e[2] : e \in Entries} \cup {0})

NmtHbAssumption ==
    /\ Nodes \subseteq 1..127 /\ Entries \subseteq (0..255) \X Nat
    /\ Initial1016 \in [Slots -> Entries]
    /\ Master \in BOOLEAN /\ AppWrites \in BOOLEAN /\ Aborts \in BOOLEAN

(***************************************************************************)
(* n is the state of the service: object 1016 (od), the consumers (hb),    *)
(* their timers, the lists of receivers, the slaves that are booting or    *)
(* being configured.  told and quiet are for the properties: what the      *)
(* application has last been told of a heartbeat timeout of a consumer,    *)
(* and for how long there has been no heartbeat since the consumer was     *)
(* armed.  cur is the frame that is being processed.                       *)
(***************************************************************************)
VARIABLES n, cur

vars == <<n, cur>>

Idle == [node |-> Null]

NoConsumer == [id |-> 0, st |-> 0, ms |-> 0, state |-> "RESOLVED"]

-----------------------------------------------------------------------------
(* src/lib/co/nmt_hb.c                                                     *)

Valid(id, ms) == id \in 1..127 /\ ms # 0

co_nmt_hb_set_1016(m, s, id, ms) ==
    LET stopped == CAN!can_recv_stop(m.list, <<"hb", s>>) IN
    [m EXCEPT !.hb[s] = [id |-> id, st |-> 0, ms |-> ms, state |-> "RESOLVED"],
              !.timer[s] = Off,
              !.list = IF Valid(id, ms) /\ id \in Nodes
                       THEN CAN!can_recv_start(stopped, <<"hb", s>>, id) ELSE stopped,
              !.told[s] = "RESOLVED", !.quiet[s] = Off]

\* Mutant: only a timer that is running is started again.
co_nmt_hb_set_stRunning(m, s, st) ==
    IF Valid(m.hb[s].id, m.hb[s].ms) /\ m.timer[s] # Off
    THEN [m EXCEPT !.hb[s].st = st, !.hb[s].state = "RESOLVED", !.timer[s] = m.hb[s].ms]
    ELSE [m EXCEPT !.hb[s].st = st]

co_nmt_hb_set_st(m, s, st) ==
    IF Valid(m.hb[s].id, m.hb[s].ms)
    THEN [m EXCEPT !.hb[s].st = st, !.hb[s].state = "RESOLVED", !.timer[s] = m.hb[s].ms]
    ELSE m

\* co_nmt_hb_ind() tells the application of a heartbeat timeout.
co_nmt_hb_ind(m, s, state) ==
    [m EXCEPT !.told[s] = state, !.again = @ \/ m.told[s] = state]

-----------------------------------------------------------------------------
(* src/lib/co/nmt.c                                                        *)

\* The first entry for the node, whether or not it is in use.
co_nmt_hb_find(m, id) == {s \in Slots : m.od[s][1] = id /\ \A u \in Slots : u < s => m.od[u][1] # id}

\* The same operation on the consumer that co_nmt_hb_find() returns, if any.
OnFound(m, id, Op(_, _)) ==
    IF co_nmt_hb_find(m, id) = {} THEN m
    ELSE Op(m, CHOOSE s \in co_nmt_hb_find(m, id) : TRUE)

\* co_nmt_hb_set_1016() with a zero heartbeat time, and with that of object 1016.
Disable(m, id) == OnFound(m, id, LAMBDA x, s : co_nmt_hb_set_1016(x, s, id, 0))
Enable(m, id) == OnFound(m, id, LAMBDA x, s : co_nmt_hb_set_1016(x, s, id, x.od[s][2]))

\* A boot request for a slave that is booting is refused.
co_nmt_boot_req(m, id) ==
    IF ~Master \/ id \in m.booting THEN m
    ELSE [Disable(m, id) EXCEPT !.booting = @ \cup {id}]

\* quiet is reset with the timer: the heartbeat is expected from here on.
Armed(m, s) == IF m.timer[s] = Off THEN m ELSE [m EXCEPT !.quiet[s] = 0]

\* Mutant: the consumer is not enabled.
co_nmt_boot_conOff(m, id, st, es) ==
    LET e == [m EXCEPT !.booting = @ \ {id}] IN
    IF es THEN OnFound(e, id, LAMBDA x, s : Armed(co_nmt_hb_set_st(x, s, st), s)) ELSE e

\* The end of the 'boot slave' process; es tells if error control was started.
co_nmt_boot_con(m, id, st, es) ==
    LET e == Enable([m EXCEPT !.booting = @ \ {id}], id) IN
    IF es THEN OnFound(e, id, LAMBDA x, s : Armed(co_nmt_hb_set_st(x, s, st), s)) ELSE e

co_nmt_cfg_req(m, id) ==
    IF ~Master \/ id \in m.configuring THEN m
    ELSE [Disable(m, id) EXCEPT !.configuring = @ \cup {id}]

co_nmt_cfg_con(m, id) ==
    LET c == [m EXCEPT !.configuring = @ \ {id}] IN
    IF id \in m.booting THEN c ELSE Enable(c, id)

\* Two active consumers for one node are refused.
Duplicate(m, s, id) == \E u \in Slots \ {s} : m.od[u][1] = id /\ m.od[u][2] # 0

\* A download to sub-index s of object 1016.
co_1016_dn_ind(m, s, id, ms) ==
    IF m.od[s] = <<id, ms>> \/ (Valid(id, ms) /\ Duplicate(m, s, id)) THEN m
    ELSE co_nmt_hb_set_1016([m EXCEPT !.od[s] = <<id, ms>>], s, id,
                            IF id \in m.booting \cup m.configuring THEN 0 ELSE ms)

\* The default state change indication of a master boots a node that reports
\* its boot-up.
co_nmt_on_st(m, id, st) == IF st = CO_NMT_ST_BOOTUP THEN co_nmt_boot_req(m, id) ELSE m

\* The receiver for boot-up messages of a master (without node guarding).
co_nmt_recv_700(m, id, f) ==
    IF f.len >= 1 /\ ~f.toggle /\ f.st = CO_NMT_ST_BOOTUP THEN co_nmt_on_st(m, id, f.st) ELSE m

\* The callback of consumer s, with the assertions on the frame as a flag.
co_nmt_hb_recv(m, s, id, f) ==
    LET h == m.hb[s]
        a == [m EXCEPT !.assert = @ /\ h.id = id]
        b == co_nmt_hb_set_st(a, s, f.st)
        c == IF h.state = "OCCURRED" THEN co_nmt_hb_ind(b, s, "RESOLVED") ELSE b
    IN  IF f.len < 1 \/ f.toggle \/ h.ms = 0 THEN a
        ELSE IF f.st # h.st THEN co_nmt_on_st(c, h.id, f.st) ELSE c

co_nmt_hb_timer(m, s) ==
    co_nmt_hb_ind([m EXCEPT !.hb[s].state = "OCCURRED", !.timer[s] = Off], s, "OCCURRED")

-----------------------------------------------------------------------------
(* co_nmt_hb_init() and co_nmt_slaves_init(), at the start.                *)

Empty ==
    [od |-> Initial1016, hb |-> [s \in Slots |-> NoConsumer], timer |-> [s \in Slots |-> Off],
     list |-> [id \in Nodes |-> <<>>], booting |-> {}, configuring |-> {},
     told |-> [s \in Slots |-> "RESOLVED"], quiet |-> [s \in Slots |-> Off],
     again |-> FALSE, assert |-> TRUE]

co_nmt_hb_init(m) ==
    FoldLeft(LAMBDA x, s : co_nmt_hb_set_1016(x, s, x.od[s][1], x.od[s][2]), m, SetToSortSeq(Slots, <))

co_nmt_slaves_fini(m) ==
    [m EXCEPT !.list = [id \in Nodes |-> SelectSeq(@[id], LAMBDA r : r[1] # "slave")],
              !.booting = {}, !.configuring = {}]

co_nmt_slaves_init(m) ==
    IF ~Master THEN m
    ELSE [m EXCEPT !.list = FoldSet(LAMBDA id, l : CAN!can_recv_start(l, <<"slave", id>>, id), @, Nodes)]

Init == n = co_nmt_slaves_init(co_nmt_hb_init(Empty)) /\ cur = Idle

-----------------------------------------------------------------------------
(* Steps.                                                                  *)

\* A heartbeat of the node ends the silence of its consumer.
Heard(m, id, f) ==
    IF f.len < 1 \/ f.toggle THEN m
    ELSE [m EXCEPT !.quiet = [s \in Slots |->
              IF m.hb[s].id = id /\ m.hb[s].ms # 0 /\ <<"hb", s>> \in ToSet(m.list[id]) THEN 0 ELSE @[s]]]

\* can_net_recv() with a frame of node id.
Recv(id, f) ==
    /\ cur = Idle /\ n.list[id] # <<>>
    /\ n' = Heard(n, id, f)
    /\ LET r == Head(n.list[id]) IN
       cur' = [node |-> r, next |-> CAN!list_next(n.list, r), id |-> id, f |-> f]

\* Does the callback of receiver r call an indication function?
Indicates(r, f) ==
    /\ f.len >= 1 /\ ~f.toggle
    /\ \/ r[1] = "slave" /\ f.st = CO_NMT_ST_BOOTUP
       \/ /\ r[1] = "hb" /\ n.hb[r[2]].ms # 0
          /\ n.hb[r[2]].state = "OCCURRED" \/ n.hb[r[2]].st # f.st

\* What the indication function of the application may do besides.
InCallback(m, r, f) ==
    {m} \cup (IF AppWrites /\ Indicates(r, f)
              THEN {co_1016_dn_ind(m, s, e[1], e[2]) : s \in Slots, e \in Entries} ELSE {})

\* The callback of the next receiver, to its end.
Callback ==
    /\ cur # Idle
    /\ LET r == cur.node IN
       n' \in InCallback(IF r[1] = "slave" THEN co_nmt_recv_700(n, cur.id, cur.f)
                         ELSE co_nmt_hb_recv(n, r[2], cur.id, cur.f), r, cur.f)
    /\ cur' = IF cur.next = Null THEN Idle
              ELSE [cur EXCEPT !.node = cur.next, !.next = CAN!list_next(n'.list, cur.next)]

\* Requests of the application and the ends of the processes.
Request ==
    /\ cur = Idle
    /\ \/ \E s \in Slots, e \in Entries : n' = co_1016_dn_ind(n, s, e[1], e[2])
       \/ \E id \in Nodes : n' = co_nmt_boot_req(n, id)
       \/ \E id \in Nodes : n' = co_nmt_cfg_req(n, id)
    /\ UNCHANGED cur

BootCon ==
    /\ cur = Idle
    /\ \E id \in n.booting, st \in StatesOfNode, es \in BOOLEAN : n' = co_nmt_boot_con(n, id, st, es)
    /\ UNCHANGED cur

CfgCon ==
    /\ cur = Idle
    /\ \E id \in n.configuring : n' = co_nmt_cfg_con(n, id)
    /\ UNCHANGED cur

\* A request that fails after the consumer is disabled, for lack of memory.
ReqFails ==
    /\ Aborts /\ Master /\ cur = Idle
    /\ \E id \in Nodes \ (n.booting \cap n.configuring) : n' = Disable(n, id)
    /\ UNCHANGED cur

\* The master enters the pre-operational state: co_nmt_slaves_fini() ends all
\* processes, co_nmt_slaves_init() starts the receivers again.
EnterPreop ==
    /\ Aborts /\ Master /\ cur = Idle
    /\ n' = co_nmt_slaves_init(co_nmt_slaves_fini(n))
    /\ UNCHANGED cur

\* A reset of the node's communication, which restores object 1016.
ResetComm ==
    /\ cur = Idle
    /\ n' = co_nmt_slaves_init(co_nmt_hb_init([Empty EXCEPT !.again = n.again, !.assert = n.assert]))
    /\ UNCHANGED cur

Timer ==
    /\ cur = Idle
    /\ \E s \in Slots : n.timer[s] = 0 /\ n' = co_nmt_hb_timer(n, s)
    /\ UNCHANGED cur

\* The time of a consumer, or how long it has been quiet, after one more tick.
Left(t) == IF t = Off THEN Off ELSE t - 1
Longer(q) == IF q = Off THEN Off ELSE Min({q + 1, MaxMs + 1})

Tick ==
    /\ cur = Idle /\ \A s \in Slots : n.timer[s] # 0
    /\ n' = [n EXCEPT !.timer = [s \in Slots |-> Left(@[s])], !.quiet = [s \in Slots |-> Longer(@[s])]]
    /\ UNCHANGED cur

Frames == [len : {1}, st : StatesOfNode, toggle : BOOLEAN] \cup {[len |-> 0, st |-> 0, toggle |-> FALSE]}

Next ==
    \/ \E id \in Nodes, f \in Frames : Recv(id, f)
    \/ Callback \/ Request \/ BootCon \/ CfgCon \/ ReqFails \/ EnterPreop \/ ResetComm \/ Timer \/ Tick

Spec == Init /\ [][Next]_vars

-----------------------------------------------------------------------------
(* Properties.                                                             *)

NmtHbTypeOK ==
    /\ n.od \in [Slots -> Entries] /\ n.booting \subseteq Nodes /\ n.configuring \subseteq Nodes
    /\ \A s \in Slots : /\ n.hb[s].ms \in 0..MaxMs /\ n.hb[s].st \in StatesOfNode
                        /\ n.hb[s].state \in {"RESOLVED", "OCCURRED"}
                        /\ n.timer[s] \in (0..MaxMs) \cup {Off} /\ n.quiet[s] \in (0..MaxMs + 1) \cup {Off}
    /\ \A id \in Nodes : /\ IsInjective(n.list[id])
                         /\ \A r \in ToSet(n.list[id]) :
                                r = <<"slave", id>> \/ (r[1] = "hb" /\ n.hb[r[2]].id = id /\ n.hb[r[2]].ms # 0)
    /\ cur # Idle => cur.node \in Receivers /\ cur.next \in Receivers \cup {Null}

\* Does consumer s process the heartbeats of its node?
Listening(s) == \E id \in Nodes : <<"hb", s>> \in ToSet(n.list[id])

\* co_nmt_hb_ind() is called once when a heartbeat timeout occurs and once
\* when it is resolved, alternately: what the application has last been told
\* is the state of the consumer.
AppToldTruth == ~n.again /\ \A s \in Slots : n.told[s] = n.hb[s].state

\* A consumer only reports a timeout when there has been no heartbeat for the
\* heartbeat time, whatever was received, booted and configured in between.
NoFalseAlarm ==
    cur = Idle => \A s \in Slots : n.hb[s].state = "OCCURRED" => n.quiet[s] # Off /\ n.quiet[s] >= n.hb[s].ms

\* Silence is detected: once a consumer has been armed by a heartbeat or by the
\* end of the 'boot slave' process, it is not quiet for longer than the
\* heartbeat time without the timeout having occurred.
SilenceDetected ==
    \A s \in Slots : Listening(s) /\ n.quiet[s] # Off /\ n.quiet[s] > n.hb[s].ms => n.hb[s].state = "OCCURRED"

\* "Disable the heartbeat consumer during the 'boot slave' process": while a
\* slave boots, no consumer can report a timeout of it.
OffWhileBooting == \A s \in Slots : n.hb[s].id \in n.booting => ~Listening(s) /\ n.timer[s] = Off

\* "Disable the heartbeat consumer during a configuration request".
OffWhileConfiguring == \A s \in Slots : n.hb[s].id \in n.configuring => ~Listening(s) /\ n.timer[s] = Off

\* Outside of those processes every entry of object 1016 that is in use has a
\* consumer that listens to the node, with the time of the entry.
ConsumersRun ==
    \A s \in Slots : Valid(n.od[s][1], n.od[s][2]) /\ n.od[s][1] \notin n.booting \cup n.configuring
        => Listening(s) /\ n.hb[s].id = n.od[s][1] /\ n.hb[s].ms = n.od[s][2]

\* The assertions of co_nmt_hb_recv(): a consumer that is invoked has a node
\* and the frame is a frame of that node.
RecvAssertions == n.assert
=============================================================================
