------------------------------ MODULE NmtHbNet ------------------------------
(***************************************************************************)
(* A master with heartbeat consumers (NmtHb) and the nodes that produce    *)
(* the heartbeats (the error control services of src/lib/co/nmt.c), on a   *)
(* bus that delivers the frames of a node in order and within MaxDelay     *)
(* ticks.  Nodes crash and reboot; frames are lost.                        *)
(***************************************************************************)
EXTENDS NmtHb

CONSTANTS
    Producer,   \* the producer heartbeat time of the nodes, object 1017
    MaxDelay,   \* how long a frame takes at most
    MaxFaults   \* bound on the number of crashes and lost frames

NmtHbNetAssumption ==
    /\ Producer \in Nat \ {0} /\ MaxDelay \in 0..(Producer - 1) /\ MaxFaults \in Nat
    /\ \A e \in Entries : Valid(e[1], e[2]) => e[2] > Producer + MaxDelay

(***************************************************************************)
(* node[id] is the producer: its state and the ticks to the next           *)
(* heartbeat, Off if the node is dead.  bus[id] is the sequence of frames  *)
(* of the node on the bus.                                                 *)
(***************************************************************************)
VARIABLES node, bus, faults

netvars == <<n, cur, node, bus, faults>>

Alive(id) == node[id].timer # Off

NetInit ==
    /\ Init /\ faults = 0
    /\ node = [id \in Nodes |-> [st |-> CO_NMT_ST_PREOP, timer |-> Producer]]
    /\ bus = [id \in Nodes |-> <<>>]

-----------------------------------------------------------------------------
(* The nodes.                                                              *)

co_nmt_ec_send_res(id, st) == bus' = [bus EXCEPT ![id] = Append(@, [st |-> st, age |-> 0])]

\* co_nmt_ec_timer(), a periodic timer.
co_nmt_ec_timer(id) ==
    /\ node[id].timer = 0
    /\ co_nmt_ec_send_res(id, node[id].st)
    /\ node' = [node EXCEPT ![id].timer = Producer]
    /\ UNCHANGED <<n, cur, faults>>

\* The node executes an NMT command.
ChangeState(id) ==
    /\ Alive(id)
    /\ \E st \in StatesOfNode \ {CO_NMT_ST_BOOTUP} : node' = [node EXCEPT ![id].st = st]
    /\ UNCHANGED <<n, cur, bus, faults>>

Crash(id) ==
    /\ Alive(id) /\ faults < MaxFaults /\ faults' = faults + 1
    /\ node' = [node EXCEPT ![id].timer = Off]
    /\ UNCHANGED <<n, cur, bus>>

\* co_nmt_bootup_on_enter(): the timer is started, then the boot-up message sent.
Reboot(id) ==
    /\ ~Alive(id)
    /\ node' = [node EXCEPT ![id] = [st |-> CO_NMT_ST_PREOP, timer |-> Producer]]
    /\ co_nmt_ec_send_res(id, CO_NMT_ST_BOOTUP)
    /\ UNCHANGED <<n, cur, faults>>

-----------------------------------------------------------------------------
(* The bus.                                                                *)

Deliver(id) ==
    /\ bus[id] # <<>>
    /\ Recv(id, [len |-> 1, st |-> Head(bus[id]).st, toggle |-> FALSE])
    /\ bus' = [bus EXCEPT ![id] = Tail(@)]
    /\ UNCHANGED <<node, faults>>

Lose(id) ==
    /\ bus[id] # <<>> /\ faults < MaxFaults /\ faults' = faults + 1
    /\ bus' = [bus EXCEPT ![id] = Tail(@)]
    /\ UNCHANGED <<n, cur, node>>

-----------------------------------------------------------------------------
(* The master: its 'boot slave' process ends with the state of the node,   *)
(* if it is there.                                                         *)

MasterBootCon ==
    /\ cur = Idle
    /\ \E id \in n.booting : n' = co_nmt_boot_con(n, id, node[id].st, Alive(id))
    /\ UNCHANGED <<cur, node, bus, faults>>

MasterCallback == Callback /\ UNCHANGED <<node, bus, faults>>
MasterTimer == Timer /\ UNCHANGED <<node, bus, faults>>

NetTick ==
    /\ Tick
    /\ \A id \in Nodes : node[id].timer # 0 /\ \A i \in 1..Len(bus[id]) : bus[id][i].age < MaxDelay
    /\ node' = [id \in Nodes |-> [node[id] EXCEPT !.timer = Left(@)]]
    /\ bus' = [id \in Nodes |-> [i \in 1..Len(bus[id]) |-> [bus[id][i] EXCEPT !.age = @ + 1]]]
    /\ UNCHANGED faults

NetNext ==
    \/ \E id \in Nodes : \/ co_nmt_ec_timer(id) \/ ChangeState(id) \/ Crash(id) \/ Reboot(id)
                         \/ Deliver(id) \/ Lose(id)
    \/ MasterBootCon \/ MasterCallback \/ MasterTimer \/ NetTick

(***************************************************************************)
(* Time passes, timers are processed when they are due and frames that are *)
(* not lost arrive; the 'boot slave' process ends, because every step of   *)
(* it has a timeout that runs out between two frames (hence strong         *)
(* fairness).  Nothing is assumed of crashes and reboots.                  *)
(***************************************************************************)
NetFairness ==
    /\ WF_netvars(NetTick) /\ WF_netvars(MasterCallback)
    /\ WF_netvars(MasterTimer) /\ SF_netvars(MasterBootCon)
    /\ \A id \in Nodes : WF_netvars(co_nmt_ec_timer(id)) /\ WF_netvars(Deliver(id))

NetSpec == NetInit /\ [][NetNext]_netvars /\ NetFairness

-----------------------------------------------------------------------------
(* Properties.                                                             *)

NetTypeOK ==
    /\ NmtHbTypeOK /\ faults \in 0..MaxFaults
    /\ \A id \in Nodes : /\ node[id].timer \in (0..Producer) \cup {Off}
                         /\ Len(bus[id]) <= 2 + MaxFaults

\* As long as no node crashes and no frame is lost, a heartbeat time greater
\* than the producer's time plus the delay of the bus never runs out.
NoAlarmWithoutFault == faults = 0 => \A s \in Slots : n.told[s] = "RESOLVED"

\* A node that dies while its consumer is armed is reported to the application,
\* unless it comes back or is booted again.
Died(id, s) == ~Alive(id) /\ n.hb[s].id = id /\ n.timer[s] # Off
Reported(id, s) == n.told[s] = "OCCURRED" \/ Alive(id) \/ id \in n.booting
CrashReported == \A id \in Nodes, s \in Slots : Died(id, s) ~> Reported(id, s)

\* When all nodes stay alive, every timeout is resolved for good: no lost
\* frame, crash or reboot leaves the application with a false report.
AllAlive == \A id \in Nodes : Alive(id)
Resolved == \A s \in Slots : n.told[s] = "RESOLVED"
AllResolved == <>[]AllAlive => <>[]Resolved

\* A node that reboots is booted by the master and monitored again: while it
\* stays alive and its boot-up message is not lost, its consumer gets armed.
Rebooted(id, s) == id \in n.booting /\ n.od[s][1] = id
Monitored(id, s) == ~Alive(id) \/ n.timer[s] # Off
RebootMonitored == \A id \in Nodes, s \in Slots : Rebooted(id, s) ~> Monitored(id, s)
=============================================================================
