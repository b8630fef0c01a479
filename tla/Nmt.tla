--------------------------------- MODULE Nmt ---------------------------------
(***************************************************************************)
(* The state machine of an NMT service (src/lib/co/nmt.c): the NMT states  *)
(* of a node, the startup of the network by a master, the slaves that it   *)
(* boots and starts, and its buffer of NMT commands with the inhibit time. *)
(*                                                                         *)
(* A 'boot slave' process (NmtBoot) is represented by its beginning and    *)
(* its end.  No node has a heartbeat consumer (NmtHb), and the guarding    *)
(* of the nodes is left out (NmtGuard).                                    *)
(***************************************************************************)
EXTENDS Integers, Sequences, FiniteSets, SequencesExt

CONSTANTS
    Slaves,     \* the node-IDs of the slaves
    Configs,    \* the configurations of the node
    SdoAborts,  \* is a process always aborted during an SDO request?
    BootFails,  \* can a 'boot slave' process fail?
    MaxBuf,     \* bound on the number of buffered commands for further requests
    MaxEvents   \* bound on the number of boot-up messages and failures of the network

(***************************************************************************)
(* A configuration has the bits of object 1F80 that are set (startup),     *)
(* those of object 1F81 for every slave (asg), whether there is a function *)
(* for LSS requests, an inhibit time (102A), what 1029:01 asks for on a    *)
(* communication error, and the functions that the application calls.      *)
(***************************************************************************)
StartupBits == {"master", "all", "noself", "noslaves", "reset", "stop"}  \* bits 0..4 and 6
SlaveBits == {"list", "boot", "mand", "keep"}                            \* bits 0, 2, 3, 4

NmtAssumption ==
    /\ Slaves \subseteq 1..127 /\ MaxBuf \in Nat /\ MaxEvents \in Nat
    /\ {SdoAborts, BootFails} \subseteq BOOLEAN
    /\ \A c \in Configs : /\ c.startup \subseteq StartupBits
                          /\ c.asg \in [Slaves -> SUBSET SlaveBits]
                          /\ {c.lss, c.inhibit} \subseteq BOOLEAN /\ c.err \in 0..2
                          /\ c.calls \subseteq {"cs_ind", "cs_req", "boot_req", "cfg_req", "node_err",
                                               "comm_err", "set_id", "write"}

CO_NMT_ST_BOOTUP == 0
CO_NMT_ST_STOP == 4
CO_NMT_ST_START == 5
CO_NMT_ST_RESET_NODE == 6
CO_NMT_ST_RESET_COMM == 7
CO_NMT_ST_PREOP == 127

Cs == {"START", "STOP", "ENTER_PREOP", "RESET_NODE", "RESET_COMM"}

(***************************************************************************)
(* d is the configuration and n the struct co_nmt.  sl[id] is the struct   *)
(* co_nmt_slave; buf holds pairs of a command and a node-ID, 0 for all     *)
(* nodes; timer says that the timer for the buffer runs, inhibit that the  *)
(* inhibit time has not elapsed, and up that can_net_send() succeeds.      *)
(* ret is the state that the current entry function returns, and failed    *)
(* says that co_nmt_cs_timer() has ended because a frame was not sent.     *)
(*                                                                         *)
(* bad collects what the properties are about: failed assertions and       *)
(* steps that contradict a comment.                                        *)
(***************************************************************************)
VARIABLES d, n, events

vars == <<d, n, events>>

master == "master" \in d.startup

NoSlave == [asg |-> {}, est |-> 0, es |-> "0", booting |-> FALSE, booted |-> FALSE,
            boot |-> FALSE, cfg |-> FALSE]

Bad(x, b) == [x EXCEPT !.bad = @ \cup {b}]

-----------------------------------------------------------------------------
(* The commands to the slaves.                                             *)

\* The expected state after a command; 0 if it is not known.
StateAfter(cs) ==
    CASE cs = "START" -> CO_NMT_ST_START
      [] cs = "STOP" -> CO_NMT_ST_STOP
      [] cs = "ENTER_PREOP" -> CO_NMT_ST_PREOP
      [] OTHER -> 0

\* A command has been sent.
Expect(x, f) ==
    [x EXCEPT !.sl = [id \in Slaves |->
        IF f[2] \in {0, id} /\ @[id].est # 0 THEN [@[id] EXCEPT !.est = StateAfter(f[1])] ELSE @[id]]]

\* co_nmt_cs_timer().  The loop ends when the buffer is empty, the inhibit time
\* runs, or a frame cannot be sent, and then the timer is not running.
co_nmt_cs_timer(x) ==
    IF x.buf = <<>> \/ x.inhibit \/ ~x.up
    THEN [x EXCEPT !.timer = x.inhibit /\ x.buf # <<>>, !.failed = ~x.inhibit /\ x.buf # <<>>]
    ELSE IF ~d.inhibit THEN [FoldLeft(Expect, x, x.buf) EXCEPT !.timer = FALSE, !.buf = <<>>]
    ELSE [Expect(x, Head(x.buf)) EXCEPT !.buf = Tail(@), !.inhibit = TRUE, !.timer = Len(x.buf) > 1]

\* co_nmt_cs_req() for a node-ID other than that of the master itself.
co_nmt_cs_req(x, cs, id) ==
    IF ~master THEN x ELSE co_nmt_cs_timer([x EXCEPT !.buf = Append(@, <<cs, id>>)])

RECURSIVE ForEach(_, _, _)
ForEach(Op(_, _), x, ids) == IF ids = <<>> THEN x ELSE ForEach(Op, Op(x, Head(ids)), Tail(ids))

InOrder == SetToSortSeq(Slaves, LAMBDA a, b : a < b)

-----------------------------------------------------------------------------
(* The states.  An entry function returns the next state in ret.           *)

Return(x, s) == [x EXCEPT !.ret = s]

\* co_nmt_enter(), below: the next state is entered, and so on.
RECURSIVE co_nmt_enter(_)

Listed(x) == {id \in Slaves : "list" \in x.sl[id].asg}
Mandatory(x) == {id \in Slaves : {"list", "mand"} \subseteq x.sl[id].asg}
BootedOK(x, id) == x.sl[id].booted /\ x.sl[id].es \in {"0", "L"}

\* "Check if the slave finished booting successfully and can be started by the
\* master": all at once, or those that can be started one by one.
StartSlaves(x) ==
    IF \A id \in Listed(x) : BootedOK(x, id) /\ "boot" \notin x.sl[id].asg
    THEN co_nmt_cs_req(IF \E id \in Listed(x) : "boot" \notin x.sl[id].asg THEN Bad(x, "broadcast") ELSE x, "START", 0)
    ELSE ForEach(LAMBDA y, id : IF /\ {"list", "boot"} \subseteq y.sl[id].asg
                                   /\ BootedOK(y, id) /\ y.sl[id].est # CO_NMT_ST_START
                                THEN co_nmt_cs_req(y, "START", id) ELSE y,
                 x, InOrder)

co_nmt_start_on_enter(x) ==
    LET y == [x EXCEPT !.srv = "START", !.st = CO_NMT_ST_START]
    IN  Return(IF master /\ "noslaves" \notin d.startup /\ "all" \in d.startup THEN StartSlaves(y) ELSE y, "none")

co_nmt_stop_on_enter(x) == Return([x EXCEPT !.srv = "STOP", !.st = CO_NMT_ST_STOP], "none")

\* The master starts itself: bad if a mandatory slave has not booted.
co_nmt_startup_slave(x) ==
    IF "noself" \in d.startup THEN Return(x, "none")
    ELSE Return(IF \A id \in Mandatory(x) : BootedOK(x, id) /\ ~x.sl[id].booting THEN x ELSE Bad(x, "early"), "start")

\* Mutant: all slaves are waited for, not only those with a process.
co_nmt_preop_on_bootAll(x, id, es) ==
    LET y == [x EXCEPT !.halt = @ \/ (id \in Mandatory(x) /\ es \notin {"0", "L"})]
    IN  IF y.halt \/ \E i \in Listed(y) : ~y.sl[i].booted THEN Return(y, "none") ELSE co_nmt_startup_slave(y)

co_nmt_preop_on_boot(x, id, es) ==
    LET y == [x EXCEPT !.halt = @ \/ (id \in Mandatory(x) /\ es \notin {"0", "L"})]
    IN  IF y.halt \/ \E i \in Mandatory(y) : y.sl[i].boot THEN Return(y, "none") ELSE co_nmt_startup_slave(y)

\* The assertion that the state has a transition function for this event.
co_nmt_emit_boot(x, id, es) ==
    IF x.state \in {"start", "stop"} THEN x
    ELSE IF x.state # "preop" THEN Bad(x, "on_boot")
    ELSE co_nmt_enter(co_nmt_preop_on_boot(x, id, es))

\* Mutant: a slave that boots while the master is operational is not started.
co_nmt_boot_conAll(x, id, st, es) ==
    LET y == [x EXCEPT !.sl[id] =
                 [@ EXCEPT !.asg = x.od81[id], !.es = es, !.booting = FALSE, !.booted = TRUE, !.boot = FALSE,
                           !.est = IF st = 0 /\ es \in {"0", "L"} THEN CO_NMT_ST_PREOP ELSE st]]
        z == IF /\ es = "0" /\ {"list", "boot"} \subseteq y.sl[id].asg
                /\ "noslaves" \notin d.startup /\ "all" \notin d.startup
             THEN co_nmt_cs_req(y, "START", id) ELSE y
    IN  co_nmt_emit_boot(z, id, es)

\* co_nmt_boot_con(): the process is destroyed, the slave is started if it has to
\* be started individually or the master is operational, and the state machine is
\* told.
co_nmt_boot_con(x, id, st, es) ==
    LET y == [x EXCEPT !.sl[id] =
                 [@ EXCEPT !.asg = x.od81[id], !.es = es, !.booting = FALSE, !.booted = TRUE, !.boot = FALSE,
                           !.est = IF st = 0 /\ es \in {"0", "L"} THEN CO_NMT_ST_PREOP ELSE st]]
        z == IF /\ es = "0" /\ {"list", "boot"} \subseteq y.sl[id].asg
                /\ "noslaves" \notin d.startup
                /\ "all" \notin d.startup \/ y.st = CO_NMT_ST_START
             THEN co_nmt_cs_req(y, "START", id) ELSE y
    IN  co_nmt_emit_boot(z, id, es)

\* co_nmt_boot_req().  The process ends at once if the slave is not in the network
\* list, or is not to be booted (bit 2) and not monitored by its heartbeat.
co_nmt_boot_req(x, id) ==
    LET y == [x EXCEPT !.sl[id].booting = TRUE, !.sl[id].boot = TRUE]
    IN  IF ~master \/ x.sl[id].booting THEN x
        ELSE IF "list" \notin x.od81[id] THEN co_nmt_boot_con(y, id, 0, "A")
        ELSE IF "boot" \notin x.od81[id] THEN co_nmt_boot_con(y, id, 0, "0")
        ELSE y

\* co_nmt_slaves_fini() for one slave.  The abort of a process during an SDO
\* request confirms the request, which ends the process.
FiniSlave(x, id) ==
    LET y == [x EXCEPT !.sl[id] = [NoSlave EXCEPT !.boot = x.sl[id].boot, !.cfg = x.sl[id].cfg]]
        z == IF y.sl[id].boot /\ SdoAborts THEN co_nmt_boot_con(y, id, 0, "D") ELSE y
    IN  [z EXCEPT !.sl[id].boot = FALSE, !.sl[id].cfg = FALSE, !.sl[id].booting = FALSE]

co_nmt_slaves_fini(x) == ForEach(FiniSlave, [x EXCEPT !.recv = FALSE], InOrder)

co_nmt_slaves_init(x) ==
    LET y == co_nmt_slaves_fini(x)
    IN  [y EXCEPT !.recv = TRUE, !.sl = [id \in Slaves |-> [@[id] EXCEPT !.asg = y.od81[id]]]]

\* co_nmt_slaves_boot().  (It cannot fail for lack of memory here.)  The slaves
\* with a process to start; then whether any slave is mandatory.
co_nmt_slaves_boot(x) ==
    ForEach(LAMBDA y, id : IF /\ "list" \in y.sl[id].asg /\ {"mand", "keep"} \cap y.sl[id].asg # {}
                           THEN co_nmt_boot_req(y, id) ELSE y,
            x, InOrder)

\* All slaves that are not to be kept alive are reset.
ResetSlaves(x) ==
    LET kept == {id \in Slaves : {"list", "keep"} \subseteq x.sl[id].asg}
    IN  IF kept = {} THEN co_nmt_cs_req(x, "RESET_COMM", 0)
        ELSE ForEach(LAMBDA y, id : IF id \in kept THEN y ELSE co_nmt_cs_req(y, "RESET_COMM", id), x, InOrder)

co_nmt_startup_master(x) ==
    LET y == ResetSlaves(co_nmt_slaves_init(x))
        z == co_nmt_slaves_boot(y)
    IN  IF Mandatory(y) # {} THEN Return(z, "none") ELSE co_nmt_startup_slave(z)

\* Mutant: the services and the NMT state are set after the startup of the network.
co_nmt_preop_on_enterLate(x) ==
    LET y == [co_nmt_slaves_fini(x) EXCEPT !.halt = FALSE]
        z == IF master THEN co_nmt_startup_master(y) ELSE co_nmt_startup_slave(y)
    IN  [z EXCEPT !.srv = "PREOP", !.st = CO_NMT_ST_PREOP]

co_nmt_preop_on_enter(x) ==
    LET y == [co_nmt_slaves_fini(x) EXCEPT !.halt = FALSE, !.srv = "PREOP", !.st = CO_NMT_ST_PREOP]
    IN  IF master THEN co_nmt_startup_master(y) ELSE co_nmt_startup_slave(y)

\* A node without a node-ID stays in this state.
co_nmt_bootup_on_enter(x) ==
    IF x.id = "none" THEN Return(x, "none") ELSE Return([x EXCEPT !.ec = TRUE], "preop")

\* The entry functions of both reset states disable all services.
Disable(x) == [co_nmt_slaves_fini(x) EXCEPT !.halt = FALSE, !.srv = "none", !.ec = FALSE, !.recv000 = FALSE]

\* The objects are restored, and the pending node-ID is used.
co_nmt_reset_comm_on_enter(x) ==
    Return([x EXCEPT !.od81 = d.asg, !.id = x.pending,
                     !.st = CO_NMT_ST_RESET_COMM, !.recv000 = ~master, !.srv = "LSS"],
           IF master /\ d.lss THEN "none" ELSE "bootup")

co_nmt_reset_node_on_enter(x) == Return([x EXCEPT !.st = CO_NMT_ST_RESET_NODE], "reset_comm")

on_enter(x) ==
    CASE x.state = "start" -> co_nmt_start_on_enter(x)
      [] x.state = "stop" -> co_nmt_stop_on_enter(x)
      [] x.state = "preop" -> co_nmt_preop_on_enter(x)
      [] x.state = "bootup" -> co_nmt_bootup_on_enter(x)
      [] OTHER -> LET y == Disable(x)
                  IN  IF y.state = "reset_comm" THEN co_nmt_reset_comm_on_enter(y)
                      ELSE co_nmt_reset_node_on_enter(y)

co_nmt_enter(x) == IF x.ret = "none" THEN x ELSE co_nmt_enter(on_enter([x EXCEPT !.state = x.ret]))

\* The commands that each state accepts.
OnCs ==
    [init |-> {"RESET_NODE"},
     reset_comm |-> {"RESET_NODE", "RESET_COMM"}, bootup |-> {"RESET_NODE", "RESET_COMM"},
     preop |-> Cs \ {"ENTER_PREOP"}, start |-> Cs \ {"START"}, stop |-> Cs \ {"STOP"}]

NextState == [START |-> "start", STOP |-> "stop", ENTER_PREOP |-> "preop",
              RESET_NODE |-> "reset_node", RESET_COMM |-> "reset_comm"]

co_nmt_emit_cs(x, cs) ==
    IF cs \notin OnCs[x.state] THEN x ELSE co_nmt_enter(Return(x, NextState[cs]))

-----------------------------------------------------------------------------
(* Events.                                                                 *)

Init ==
    /\ d \in Configs /\ events = 0
    /\ n = [state |-> "init", st |-> CO_NMT_ST_BOOTUP, srv |-> "none", ec |-> FALSE, recv |-> FALSE,
            recv000 |-> FALSE, halt |-> FALSE, id |-> "own", pending |-> "own", od81 |-> d.asg,
            sl |-> [id \in Slaves |-> NoSlave], buf |-> <<>>, timer |-> FALSE, inhibit |-> FALSE,
            up |-> TRUE, failed |-> FALSE, ret |-> "none", bad |-> {}]

\* Bounds the buffer: the events that send commands wait for room in it.
Room == Len(n.buf) < MaxBuf

Running == n.state \in {"preop", "start", "stop"}

\* co_nmt_cs_ind(): the application starts or commands the node, or a slave receives
\* a command from its master (co_nmt_recv_000()).
co_nmt_cs_ind(cs) ==
    /\ IF n.state = "init" THEN cs = "RESET_NODE" ELSE "cs_ind" \in d.calls \/ n.recv000
    /\ Room /\ n' = co_nmt_emit_cs(n, cs) /\ UNCHANGED <<d, events>>

CsReq ==
    /\ "cs_req" \in d.calls /\ Room
    /\ \E cs \in Cs, id \in Slaves \cup {0} : n' = co_nmt_cs_req(n, cs, id)
    /\ UNCHANGED <<d, events>>

\* A boot-up message; the default indication function (co_nmt_on_st()) boots the slave.
RecvBootup(id) ==
    /\ n.recv /\ Room /\ events < MaxEvents /\ events' = events + 1
    /\ n' = co_nmt_boot_req([n EXCEPT !.sl[id].est = CO_NMT_ST_PREOP], id)
    /\ UNCHANGED d

\* The application requests it for a network that is running: see OnBootDefined.
BootReq(id) ==
    /\ "boot_req" \in d.calls /\ Running /\ Room
    /\ n' = co_nmt_boot_req(n, id) /\ UNCHANGED <<d, events>>

\* The process ends with the state of the slave, if known, and the error status.
BootEnd(id) ==
    /\ n.sl[id].boot
    /\ \E r \in {<<CO_NMT_ST_PREOP, "0">>, <<0, "0">>, <<CO_NMT_ST_START, "L">>}
                \cup (IF BootFails THEN {<<0, "D">>} ELSE {}) :
            n' = co_nmt_boot_con(n, id, r[1], r[2])
    /\ UNCHANGED <<d, events>>

CfgReq(id) ==
    /\ "cfg_req" \in d.calls /\ Running /\ master /\ ~n.sl[id].cfg
    /\ n' = [n EXCEPT !.sl[id].cfg = TRUE] /\ UNCHANGED <<d, events>>

CfgCon(id) == n.sl[id].cfg /\ n' = [n EXCEPT !.sl[id].cfg = FALSE] /\ UNCHANGED <<d, events>>

\* co_nmt_node_err_ind(), called by the default heartbeat and node guarding
\* indication functions.
co_nmt_node_err_ind(id) ==
    /\ "node_err" \in d.calls /\ master /\ Running /\ Room
    /\ "list" \in n.od81[id]
    /\ LET mandatory == "mand" \in n.od81[id]
           all == IF "stop" \in d.startup THEN "STOP" ELSE "RESET_NODE"
       IN  n' = IF mandatory /\ {"stop", "reset"} \cap d.startup # {}
                THEN co_nmt_emit_cs(co_nmt_cs_req(n, all, 0), all)
                ELSE co_nmt_cs_req(n, "RESET_NODE", id)
    /\ UNCHANGED <<d, events>>

co_nmt_comm_err_ind ==
    /\ "comm_err" \in d.calls /\ Room /\ n.state # "init"
    /\ \/ d.err = 0 /\ n.st = CO_NMT_ST_START /\ n' = co_nmt_emit_cs(n, "ENTER_PREOP")
       \/ d.err = 2 /\ n' = co_nmt_emit_cs(n, "STOP")
    /\ UNCHANGED <<d, events>>

\* The LSS requests of the application are done.
co_nmt_lss_con ==
    /\ master /\ n.state = "reset_comm"
    /\ n' = co_nmt_enter(Return(n, "bootup")) /\ UNCHANGED <<d, events>>

\* The node-ID, or its absence, takes effect at the next reset.
co_nmt_set_id ==
    /\ "set_id" \in d.calls
    /\ \E id \in {"own", "none"} \ {n.pending} : n' = [n EXCEPT !.pending = id]
    /\ UNCHANGED <<d, events>>

\* Slaves cannot be put into the network list unless both processes exist.
co_1f81_dn_ind(id) ==
    /\ "write" \in d.calls /\ n.state # "init"
    /\ \E a \in {{}, d.asg[id]} \ {n.od81[id]} :
        /\ "list" \in a => n.sl[id].boot /\ n.sl[id].cfg
        /\ n' = [n EXCEPT !.od81[id] = a]
    /\ UNCHANGED <<d, events>>

\* The inhibit time has elapsed, and with it the timer, if it was started.
Elapse ==
    /\ n.inhibit
    /\ LET x == [n EXCEPT !.inhibit = FALSE] IN n' = IF n.timer THEN co_nmt_cs_timer(x) ELSE x
    /\ UNCHANGED <<d, events>>

\* The CAN bus cannot be written to, or can be again.
NetDown == n.up /\ events < MaxEvents /\ events' = events + 1 /\ n' = [n EXCEPT !.up = FALSE] /\ UNCHANGED d
NetUp == ~n.up /\ n' = [n EXCEPT !.up = TRUE] /\ UNCHANGED <<d, events>>

\* A failed assertion ends the program.
Next ==
    /\ "on_boot" \notin n.bad
    /\ \/ \E cs \in Cs : co_nmt_cs_ind(cs)
       \/ \E id \in Slaves : \/ RecvBootup(id) \/ BootReq(id) \/ BootEnd(id) \/ CfgReq(id) \/ CfgCon(id)
                             \/ co_nmt_node_err_ind(id) \/ co_1f81_dn_ind(id)
       \/ CsReq \/ co_nmt_comm_err_ind \/ co_nmt_lss_con \/ co_nmt_set_id \/ Elapse \/ NetDown \/ NetUp

Spec == Init /\ [][Next]_vars

Started == n.state # "init"
LssDone == master => n.state # "reset_comm"
Elapsed == ~n.inhibit
BootEnded(id) == ~n.sl[id].boot

\* The application starts the node and ends its LSS requests; the inhibit time
\* elapses; every process has timeouts and ends.
Fairness == []<>Started /\ []<>LssDone /\ []<>Elapsed /\ \A id \in Slaves : []<>BootEnded(id)

FairSpec == Spec /\ Fairness

-----------------------------------------------------------------------------
(* Properties.                                                             *)

NmtTypeOK ==
    /\ n.state \in DOMAIN OnCs /\ n.srv \in {"none", "LSS", "PREOP", "START", "STOP"}
    /\ n.ret \in {"none", "start"} /\ n.bad \subseteq {"on_boot", "early", "broadcast"}
    /\ \A id \in Slaves : n.sl[id].est \in {0, CO_NMT_ST_STOP, CO_NMT_ST_START, CO_NMT_ST_PREOP}
    /\ Len(n.buf) <= MaxBuf + 2 * Cardinality(Slaves) + 2

\* However the entry functions of the states nest (a 'boot slave' process may end,
\* and start the network, while the pre-operational state is being entered), in the
\* end the NMT state that is sent and the services are those of the state, a master
\* manages its slaves and a slave listens to its master.
StateConsistent ==
    /\ <<n.state, n.st, n.srv>> \in
            {<<"init", CO_NMT_ST_BOOTUP, "none">>, <<"reset_comm", CO_NMT_ST_RESET_COMM, "LSS">>,
             <<"bootup", CO_NMT_ST_RESET_COMM, "LSS">>, <<"preop", CO_NMT_ST_PREOP, "PREOP">>,
             <<"start", CO_NMT_ST_START, "START">>, <<"stop", CO_NMT_ST_STOP, "STOP">>}
    /\ n.ec <=> Running
    /\ n.recv <=> (master /\ Running)
    /\ n.recv000 <=> (~master /\ n.state # "init")

\* "Wait for all mandatory slaves to finish booting": the master does not enter the
\* operational state by itself before every mandatory slave has been booted
\* successfully, if all of them have a 'boot slave' process that takes time
\* (co_nmt_startup_master(), co_nmt_preop_on_boot()).
MandatoryFirst ==
    (\A id \in Slaves : "mand" \in d.asg[id] => "boot" \in d.asg[id]) => "early" \notin n.bad

\* A master that starts its slaves forgets none: once it is operational, a slave
\* that it is to start and that has booted is operational, or is about to get the
\* command, as long as the application sends no commands of its own
\* (co_nmt_boot_con(), co_nmt_start_on_enter()).
NoSlaveForgotten ==
    n.state = "start" /\ "noslaves" \notin d.startup /\ "cs_req" \notin d.calls =>
        \A id \in Slaves :
            /\ master /\ {"list", "boot"} \subseteq n.sl[id].asg /\ BootedOK(n, id) /\ ~n.sl[id].booting
            /\ n.sl[id].est = CO_NMT_ST_PREOP
            => \E i \in {0, id} : <<"START", i>> \in ToSet(n.buf)

\* A reset ends the processes of the slaves: none goes on in a network that is
\* not running (co_nmt_slaves_fini()).
ProcessesEnded == ~Running => \A id \in Slaves : ~n.sl[id].boot /\ ~n.sl[id].cfg /\ ~n.sl[id].booting

\* A buffered command is not forgotten: the timer runs that sends it after the
\* inhibit time, unless the attempt to send it has failed (co_nmt_cs_timer()).
BufferedIsTimed == n.buf # <<>> => n.timer \/ n.failed

\* A state that can see the end of a 'boot slave' process handles it:
\* `assert(nmt->state->on_boot);` (co_nmt_emit_boot()).
OnBootDefined == "on_boot" \notin n.bad

\* The network is started: when its slaves boot successfully and the application
\* does not intervene, a master that may start itself becomes operational.
NetworkStarts == <>("noself" \in d.startup \/ n.state = "start")
=============================================================================
