------------------------------ MODULE NmtBoot ------------------------------
(***************************************************************************)
(* The 'boot slave' process of an NMT master for one slave                 *)
(* (src/lib/co/nmt_boot.c), with the parts of src/lib/co/nmt.c that create *)
(* it, are told of its end, and abort it.                                  *)
(*                                                                         *)
(* The process is a state machine driven by four kinds of events: the      *)
(* confirmations of its SDO requests, the end of the configuration         *)
(* request, the frames of the slave with the error control CAN-ID, and one *)
(* timer that is used for five different purposes.  An event for which the *)
(* current state has no handler is a failed assertion.                     *)
(*                                                                         *)
(* The slave and the Client-SDO are the environment: an SDO request ends   *)
(* with any result, frames arrive at any time, and a timer that has been   *)
(* started expires at any time unless it is stopped.                       *)
(***************************************************************************)
EXTENDS Integers, Sequences

CONSTANTS
    Configs,    \* the configurations of the slave in the master's dictionary
    SdoRetry,   \* LELY_CO_NMT_BOOT_SDO_RETRY
    Resets      \* can the master end the processes of its slaves?

\* The objects 1F84 to 1F88, in the order in which they are checked.
Identity == <<"type", "vendor", "product", "revision", "serial">>
IdentityES == <<"C", "D", "M", "N", "O">>
IdentityState == <<"chk_device_type", "chk_vendor_id", "chk_product_code",
                   "chk_revision", "chk_serial_nr">>

(***************************************************************************)
(* A configuration: the bits of the slave assignment (object 1F81), is the *)
(* slave in the heartbeat consumer list (ms), and which of the objects     *)
(* with the expected values (id: 1F84 to 1F88, sw_id: 1F55, prog: 1F58,    *)
(* cfg_date: 1F26 and 1F27, boot_time: 1F89) are not 0.                    *)
(***************************************************************************)
Config == [listed : BOOLEAN, boot : BOOLEAN, mandatory : BOOLEAN, keep_alive : BOOLEAN,
           chk_sw : BOOLEAN, up_sw : BOOLEAN, ms : BOOLEAN,
           id : SUBSET {Identity[i] : i \in 1..5},
           sw_id : BOOLEAN, prog : BOOLEAN, cfg_date : BOOLEAN, boot_time : BOOLEAN]

NmtBootAssumption ==
    /\ Configs \subseteq Config /\ SdoRetry \in Nat /\ Resets \in BOOLEAN

(***************************************************************************)
(* The result of an SDO request.  A value that was uploaded is the         *)
(* expected one (0 for 1F57, 0 or 1 for 1F51), another one, or unusable;   *)
(* for the flash status (1F57), "unusable" stands for 'busy' as well.      *)
(***************************************************************************)
Values == {"match", "differ", "unusable"}
Failures == {"timeout", "abort"}
Frames == {"bootup", "start", "other", "empty"}

\* What the process has found out about the slave.
Facts == {Identity[i] : i \in 1..5} \cup {"answer", "sw", "cfg", "oper", "reset", "bootup", "hb"}

States == {"none", "wait", "chk_node", "reset_comm", "chk_sw", "stop_prog", "clear_prog",
           "blk_dn_prog", "dn_prog", "wait_flash", "chk_prog", "start_prog", "wait_prog",
           "chk_cfg_date", "chk_cfg_time", "up_cfg", "ec"}
          \cup {IdentityState[i] : i \in 1..5}
TimerStates == {"wait", "chk_node", "reset_comm", "wait_flash", "wait_prog", "ec"}
RecvStates == {"chk_node", "reset_comm", "ec"}

(***************************************************************************)
(* d is the configuration.  late: the boot time of object 1F89 has         *)
(* elapsed.  b is the process: state ("none" when it does not exist), es,  *)
(* st, retry, is its receiver started (recv), the state that started the   *)
(* timer (timer), the request its Client-SDO is executing (sdo), and who   *)
(* has requested the configuration of the slave (cfg).  For the            *)
(* properties: facts, what has been established since the process last     *)
(* started with the device type; ended, the error statuses reported for    *)
(* the present boot request; bad, the ways in which the code has gone      *)
(* wrong.                                                                  *)
(***************************************************************************)
VARIABLES d, late, b

vars == <<d, late, b>>

NoBoot == [state |-> "none", es |-> "0", st |-> "none", retry |-> 0, recv |-> FALSE,
           timer |-> "off", sdo |-> "stopped", cfg |-> "none",
           facts |-> {}, ended |-> <<>>, bad |-> {}]

Init == d \in Configs /\ late = FALSE /\ b = NoBoot

-----------------------------------------------------------------------------
(* The end of the process.                                                 *)

\* An assertion of the code fails, and the program ends.
Broken(m, what) == [m EXCEPT !.bad = @ \cup {what}]

(***************************************************************************)
(* co_nmt_boot_error_on_leave() and co_nmt_boot_con(): the result is       *)
(* reported and the process is destroyed.                                  *)
(***************************************************************************)
co_nmt_boot_con(m) ==
    [m EXCEPT !.state = "none", !.recv = FALSE, !.timer = "off", !.sdo = "stopped",
              !.ended = Append(@, [es |-> m.es, st |-> m.st])]

\* Mutant: the boot time is not checked.
MayWaitAlways == TRUE

MayWait == ~d.mandatory \/ ~d.boot_time \/ ~late

(***************************************************************************)
(* co_csdo_stop() as it is called by the process itself: it would confirm  *)
(* a request that is being executed, and neither the abort nor the error   *)
(* control state has a handler for that.                                   *)
(***************************************************************************)
co_csdo_stop(m) ==
    LET c == [m EXCEPT !.sdo = "stopped"] IN
    IF m.sdo \in {"up", "dn"} THEN Broken(c, "con") ELSE c

abort_on_enter(m) ==
    LET c == [co_csdo_stop(m) EXCEPT !.recv = FALSE, !.timer = "off", !.state = "wait",
                !.es = IF @ = "0" /\ m.st = "start" THEN "L" ELSE @] IN
    IF c.es = "B" /\ MayWait THEN [c EXCEPT !.timer = "wait"] ELSE co_nmt_boot_con(c)

\* An SDO request made in state s.
request(m, s, kind) ==
    IF m.sdo = "idle" THEN [m EXCEPT !.state = s, !.sdo = kind]
    ELSE abort_on_enter([m EXCEPT !.bad = @ \cup {"busy"}])

co_nmt_boot_up(m, s) == request(m, s, "up")
co_nmt_boot_dn(m, s) == request(m, s, "dn")

\* The handlers that repeat the request after a timeout.
Retries(m, ac) == ac = "timeout" /\ m.retry > 0
Again(m) == [m EXCEPT !.retry = @ - 1]
FirstTry(m) == [m EXCEPT !.retry = SdoRetry]

-----------------------------------------------------------------------------
(* Start error control.                                                    *)

ec_on_enter(m) ==
    IF d.ms THEN [co_csdo_stop(m) EXCEPT !.state = "ec", !.es = "K", !.recv = TRUE, !.timer = "ec"]
    ELSE abort_on_enter([co_csdo_stop(m) EXCEPT !.es = "0"])

ec_on_recv(m, f) ==
    CASE f = "bootup" -> m
      [] f = "empty" -> abort_on_enter(m)
      [] f \in {"start", "other"} ->
            abort_on_enter([m EXCEPT !.st = f, !.es = "0", !.facts = @ \cup {"hb"}])

ec_on_time(m) == abort_on_enter(m)

-----------------------------------------------------------------------------
(* Check and update the configuration.                                     *)

\* co_nmt_cfg_req() fails when the slave is already being configured.
up_cfg_on_enter(m) ==
    LET c == [m EXCEPT !.es = "J", !.state = "up_cfg"] IN
    IF m.cfg # "none" THEN abort_on_enter(c) ELSE [c EXCEPT !.cfg = "boot"]

up_cfg_on_cfg_con(m, ac) ==
    IF ac # "0" THEN abort_on_enter(m)
    ELSE ec_on_enter([m EXCEPT !.facts = @ \cup {"cfg"}])

chk_cfg_time_on_up_con(m, ac) ==
    IF ac # "match" THEN up_cfg_on_enter(m)
    ELSE ec_on_enter([m EXCEPT !.facts = @ \cup {"cfg"}])

chk_cfg_date_on_up_con(m, ac) ==
    CASE Retries(m, ac) -> co_nmt_boot_up(Again(m), "chk_cfg_date")
      [] ~Retries(m, ac) /\ ac # "match" -> up_cfg_on_enter(m)
      [] ac = "match" -> co_nmt_boot_up(m, "chk_cfg_time")

chk_cfg_date_on_enter(m) ==
    LET c == [m EXCEPT !.es = "J"] IN
    IF ~d.cfg_date THEN up_cfg_on_enter(c) ELSE co_nmt_boot_up(FirstTry(c), "chk_cfg_date")

-----------------------------------------------------------------------------
(* Check and update the program of the slave.  The update ends with the    *)
(* process starting again at the device type.                              *)

(***************************************************************************)
(* Read the device type (object 1000).  The wait state and the end of a    *)
(* program update lead here.                                               *)
(***************************************************************************)
chk_device_type_on_enter(m) ==
    co_nmt_boot_up([FirstTry(m) EXCEPT !.es = "B", !.facts = {}], "chk_device_type")

wait_prog_on_enter(m) == [m EXCEPT !.state = "wait_prog", !.timer = "wait_prog"]

wait_prog_on_time(m) == co_nmt_boot_up(FirstTry([m EXCEPT !.timer = "off"]), "wait_prog")

wait_prog_on_up_con(m, ac) ==
    CASE Retries(m, ac) -> co_nmt_boot_up(Again(m), "wait_prog")
      [] ~Retries(m, ac) /\ ac \in Failures -> abort_on_enter(m)
      [] ac \in {"differ", "unusable"} -> wait_prog_on_enter(m)
      [] ac = "match" -> chk_device_type_on_enter(m)

start_prog_on_dn_con(m, ac) == IF ac # "0" THEN abort_on_enter(m) ELSE wait_prog_on_enter(m)

chk_prog_on_up_con(m, ac) ==
    IF ac # "match" THEN abort_on_enter(m) ELSE co_nmt_boot_dn(m, "start_prog")

wait_flash_on_enter(m) == [m EXCEPT !.state = "wait_flash", !.timer = "wait_flash"]

wait_flash_on_time(m) == co_nmt_boot_up([m EXCEPT !.timer = "off"], "wait_flash")

\* The abort code is not looked at: a failed upload has no value.
wait_flash_on_up_con(m, ac) ==
    CASE ac = "match" -> co_nmt_boot_up(m, "chk_prog")
      [] ac = "differ" -> abort_on_enter(m)
      [] ac \in Failures \cup {"unusable"} -> wait_flash_on_enter(m)

dn_prog_on_dn_con(m, ac) ==
    CASE Retries(m, ac) -> co_nmt_boot_dn(Again(m), "dn_prog")
      [] ~Retries(m, ac) /\ ac # "0" -> abort_on_enter(m)
      [] ac = "0" -> wait_flash_on_enter(m)

blk_dn_prog_on_dn_con(m, ac) ==
    CASE Retries(m, ac) -> co_nmt_boot_dn(Again(m), "blk_dn_prog")
      [] ~Retries(m, ac) /\ ac # "0" -> co_nmt_boot_dn(FirstTry(m), "dn_prog")
      [] ac = "0" -> wait_flash_on_enter(m)

blk_dn_prog_on_enter(m) ==
    IF ~d.prog THEN abort_on_enter(m) ELSE co_nmt_boot_dn(FirstTry(m), "blk_dn_prog")

clear_prog_on_dn_con(m, ac) ==
    CASE Retries(m, ac) -> co_nmt_boot_dn(Again(m), "clear_prog")
      [] ~Retries(m, ac) /\ ac # "0" -> abort_on_enter(m)
      [] ac = "0" -> blk_dn_prog_on_enter(m)

clear_prog_on_enter(m) == co_nmt_boot_dn(FirstTry(m), "clear_prog")

stop_prog_on_dn_con(m, ac) ==
    IF ac \notin {"0", "timeout"} THEN abort_on_enter(m) ELSE clear_prog_on_enter(m)

\* The program is stopped unless it already is.
stop_prog_on_up_con(m, ac) ==
    IF ac = "match" THEN clear_prog_on_enter(m) ELSE co_nmt_boot_dn(m, "stop_prog")

chk_sw_on_up_con(m, ac) ==
    CASE Retries(m, ac) -> co_nmt_boot_up(Again(m), "chk_sw")
      [] ~Retries(m, ac) /\ ac \in Failures -> abort_on_enter(m)
      [] ac = "match" -> chk_cfg_date_on_enter([m EXCEPT !.facts = @ \cup {"sw"}])
      [] ac \in {"differ", "unusable"} ->
            IF d.up_sw /\ ~d.keep_alive THEN co_nmt_boot_up([m EXCEPT !.es = "I"], "stop_prog")
            ELSE abort_on_enter([m EXCEPT !.es = "H"])

chk_sw_on_enter(m) ==
    LET c == [m EXCEPT !.es = "G"] IN
    CASE ~d.chk_sw -> chk_cfg_date_on_enter(m)
      [] d.chk_sw /\ ~d.sw_id -> abort_on_enter(c)
      [] d.chk_sw /\ d.sw_id -> co_nmt_boot_up(FirstTry(c), "chk_sw")

-----------------------------------------------------------------------------
(* Check the node state.                                                   *)

reset_comm_on_enter(m) ==
    [m EXCEPT !.state = "reset_comm", !.recv = TRUE, !.timer = "reset_comm"]

(***************************************************************************)
(* Any frame is accepted, and the timer is not stopped.                    *)
(***************************************************************************)
reset_comm_on_recv(m, f) ==
    chk_sw_on_enter([m EXCEPT !.recv = FALSE,
                              !.facts = @ \cup (IF f = "bootup" THEN {"bootup"} ELSE {})])

reset_comm_on_time(m) == abort_on_enter(m)

chk_node_on_enter(m) ==
    IF ~d.keep_alive THEN chk_sw_on_enter(m)
    ELSE [m EXCEPT !.state = "chk_node", !.es = IF d.ms THEN "E" ELSE "F",
                   !.recv = TRUE, !.timer = "chk_node"]

\* Mutant: the timer is not stopped when the slave answers.
chk_node_on_recvKeepTimer(m, f) ==
    LET c == [m EXCEPT !.recv = FALSE] IN
    IF f = "start" THEN ec_on_enter([c EXCEPT !.st = "start", !.facts = @ \cup {"oper"}])
    ELSE [c EXCEPT !.st = "none", !.facts = @ \cup {"reset"}, !.state = "reset_comm", !.recv = TRUE]

chk_node_on_recv(m, f) ==
    LET c == [m EXCEPT !.timer = "off", !.recv = FALSE] IN
    IF f = "start" THEN ec_on_enter([c EXCEPT !.st = "start", !.facts = @ \cup {"oper"}])
    ELSE reset_comm_on_enter([c EXCEPT !.st = "none", !.facts = @ \cup {"reset"}])

chk_node_on_time(m) == abort_on_enter(m)

-----------------------------------------------------------------------------
(* Check the identity of the slave, and the start of the process.          *)

\* Mutant: the check of the serial number is left out.
chk_id_on_enterSkip(m, i) ==
    LET rest == {j \in i..4 : Identity[j] \in d.id} IN
    IF rest = {} THEN chk_node_on_enter(m)
    ELSE LET j == CHOOSE k \in rest : \A l \in rest : k <= l IN
         co_nmt_boot_up([m EXCEPT !.es = IdentityES[j]], IdentityState[j])

\* The entry functions of the checks of object 1018: one that is not configured is skipped.
chk_id_on_enter(m, i) ==
    LET rest == {j \in i..5 : Identity[j] \in d.id} IN
    IF rest = {} THEN chk_node_on_enter(m)
    ELSE LET j == CHOOSE k \in rest : \A l \in rest : k <= l IN
         co_nmt_boot_up([m EXCEPT !.es = IdentityES[j]], IdentityState[j])

chk_id_on_up_con(m, i, ac) ==
    IF ac # "match" THEN abort_on_enter(m)
    ELSE chk_id_on_enter([m EXCEPT !.facts = @ \cup {Identity[i]}], i + 1)

chk_device_type_on_up_con(m, ac) ==
    CASE Retries(m, ac) -> co_nmt_boot_up(Again(m), "chk_device_type")
      [] ~Retries(m, ac) /\ ac \in Failures -> abort_on_enter(m)
      [] ac \in Values ->
            IF "type" \in d.id /\ ac # "match"
            THEN abort_on_enter([m EXCEPT !.es = "C", !.facts = @ \cup {"answer"}])
            ELSE chk_id_on_enter([m EXCEPT !.recv = FALSE,
                                    !.facts = @ \cup {"answer"} \cup (IF ac = "match" THEN {"type"} ELSE {})], 2)

wait_on_time(m) ==
    LET c == [m EXCEPT !.st = "none", !.es = "0", !.facts = {}] IN
    CASE ~d.listed -> abort_on_enter([c EXCEPT !.es = "A"])
      [] d.listed /\ ~d.boot -> ec_on_enter(c)
      [] d.listed /\ d.boot -> chk_device_type_on_enter([c EXCEPT !.sdo = "idle"])

-----------------------------------------------------------------------------
(* The events.                                                             *)

on_up_con(m, ac) ==
    CASE m.state = "chk_device_type" -> chk_device_type_on_up_con(m, ac)
      [] \E i \in 2..5 : m.state = IdentityState[i] ->
            chk_id_on_up_con(m, CHOOSE i \in 2..5 : m.state = IdentityState[i], ac)
      [] m.state = "chk_sw" -> chk_sw_on_up_con(m, ac)
      [] m.state = "stop_prog" -> stop_prog_on_up_con(m, ac)
      [] m.state = "wait_flash" -> wait_flash_on_up_con(m, ac)
      [] m.state = "chk_prog" -> chk_prog_on_up_con(m, ac)
      [] m.state = "wait_prog" -> wait_prog_on_up_con(m, ac)
      [] m.state = "chk_cfg_date" -> chk_cfg_date_on_up_con(m, ac)
      [] m.state = "chk_cfg_time" -> chk_cfg_time_on_up_con(m, ac)
      [] OTHER -> Broken(m, "con")

on_dn_con(m, ac) ==
    CASE m.state = "stop_prog" -> stop_prog_on_dn_con(m, ac)
      [] m.state = "clear_prog" -> clear_prog_on_dn_con(m, ac)
      [] m.state = "blk_dn_prog" -> blk_dn_prog_on_dn_con(m, ac)
      [] m.state = "dn_prog" -> dn_prog_on_dn_con(m, ac)
      [] m.state = "start_prog" -> start_prog_on_dn_con(m, ac)
      [] OTHER -> Broken(m, "con")

on_recv(m, f) ==
    CASE m.state = "chk_node" -> chk_node_on_recv(m, f)
      [] m.state = "reset_comm" -> reset_comm_on_recv(m, f)
      [] m.state = "ec" -> ec_on_recv(m, f)
      [] OTHER -> Broken(m, "recv")

on_time(m) ==
    CASE m.state = "wait" -> wait_on_time(m)
      [] m.state = "chk_node" -> chk_node_on_time(m)
      [] m.state = "reset_comm" -> reset_comm_on_time(m)
      [] m.state = "wait_flash" -> wait_flash_on_time(m)
      [] m.state = "wait_prog" -> wait_prog_on_time(m)
      [] m.state = "ec" -> ec_on_time(m)
      [] OTHER -> Broken(m, "time")

Running == b.bad = {}

\* co_nmt_boot_req(): the process is created, and started by simulating a timeout.
BootReq ==
    /\ Running /\ b.state = "none"
    /\ b' = wait_on_time([NoBoot EXCEPT !.state = "wait", !.cfg = b.cfg])
    /\ late' = FALSE /\ UNCHANGED d

UpCon(ac) ==
    /\ Running /\ b.sdo = "up"
    /\ b' = on_up_con([b EXCEPT !.sdo = "idle"], ac)
    /\ UNCHANGED <<d, late>>

DnCon(ac) ==
    /\ Running /\ b.sdo = "dn"
    /\ b' = on_dn_con([b EXCEPT !.sdo = "idle"], ac)
    /\ UNCHANGED <<d, late>>

\* co_nmt_cfg_con(), for the request of the process.
CfgCon(ac) ==
    /\ Running /\ b.cfg = "boot"
    /\ LET m == [b EXCEPT !.cfg = "none"] IN
       b' = IF b.state = "up_cfg" THEN up_cfg_on_cfg_con(m, ac) ELSE Broken(m, "cfg_con")
    /\ UNCHANGED <<d, late>>

Recv(f) ==
    /\ Running /\ b.recv
    /\ b' = on_recv(b, f)
    /\ UNCHANGED <<d, late>>

Timer ==
    /\ Running /\ b.timer # "off"
    /\ b' = on_time([b EXCEPT !.timer = "off"])
    /\ UNCHANGED <<d, late>>

\* Time passes: the boot time since the process was created elapses.
BootTimeElapses ==
    /\ Running /\ b.state # "none" /\ d.boot_time /\ ~late
    /\ late' = TRUE /\ UNCHANGED <<d, b>>

\* A configuration request of the application, or of a write to object 1F25, and its end.
OtherCfgReq ==
    /\ Running /\ b.cfg = "none"
    /\ b' = [b EXCEPT !.cfg = "other"] /\ UNCHANGED <<d, late>>

OtherCfgCon ==
    /\ Running /\ b.cfg = "other"
    /\ b' = [b EXCEPT !.cfg = "none"] /\ UNCHANGED <<d, late>>

(***************************************************************************)
(* co_nmt_boot_abort_req(): stopping the Client-SDO confirms the request   *)
(* it is executing, and the confirmation runs the handler of the present   *)
(* state.  If that ends the process, the process has been freed when       *)
(* co_csdo_stop() and co_nmt_boot_abort_req() go on with it.               *)
(***************************************************************************)
co_nmt_boot_abort_req(m) ==
    LET s == [m EXCEPT !.recv = FALSE, !.timer = "off"]
        r == CASE s.sdo = "up" -> on_up_con([s EXCEPT !.sdo = "idle"], "abort")
               [] s.sdo = "dn" -> on_dn_con([s EXCEPT !.sdo = "idle"], "abort")
               [] OTHER -> s
    IN CASE m.state = "wait" -> m
         [] m.state # "wait" /\ r.state = "none" -> Broken(r, "freed")
         [] m.state # "wait" /\ r.state # "none" -> [r EXCEPT !.state = "wait", !.sdo = "stopped"]

(***************************************************************************)
(* co_nmt_slaves_fini(), when the master is reset or enters the            *)
(* pre-operational state: the process is aborted and destroyed, and then   *)
(* the configuration request, which confirms to the process if it is       *)
(* executing an SDO request of its own (pending).                          *)
(***************************************************************************)
SlavesFini(pending) ==
    /\ Running /\ Resets /\ b.state # "none"
    /\ LET r == co_nmt_boot_abort_req(b) IN
       b' = [r EXCEPT !.state = "none", !.recv = FALSE, !.timer = "off", !.sdo = "stopped",
                      !.cfg = "none",
                      !.bad = @ \cup (IF r.cfg = "boot" /\ pending THEN {"freed"} ELSE {})]
    /\ UNCHANGED <<d, late>>

UpEnds == \E ac \in Values \cup Failures : UpCon(ac)
DnEnds == \E ac \in {"0"} \cup Failures : DnCon(ac)
CfgEnds == \E ac \in {"0"} \cup Failures : CfgCon(ac)

Next ==
    \/ BootReq \/ Timer \/ BootTimeElapses \/ OtherCfgReq \/ OtherCfgCon
    \/ UpEnds \/ DnEnds \/ CfgEnds
    \/ \E f \in Frames : Recv(f)
    \/ \E pending \in BOOLEAN : SlavesFini(pending)

Spec == Init /\ [][Next]_vars

(***************************************************************************)
(* An SDO request is answered or times out, a configuration request ends,  *)
(* timers expire, and time passes.                                         *)
(***************************************************************************)
Fairness ==
    /\ WF_vars(UpEnds) /\ WF_vars(DnEnds) /\ WF_vars(CfgEnds)
    /\ WF_vars(Timer) /\ WF_vars(BootTimeElapses)

FairSpec == Spec /\ Fairness

-----------------------------------------------------------------------------
(* Properties.                                                             *)

BootTypeOK ==
    /\ d \in Configs /\ late \in BOOLEAN
    /\ b.state \in States /\ b.timer \in TimerStates \cup {"off"}
    /\ b.es \in {"0", "A", "B", "C", "D", "E", "F", "G", "H", "I", "J", "K", "L", "M", "N", "O"}
    /\ b.st \in {"none", "start", "other"} /\ b.retry \in 0..SdoRetry
    /\ b.sdo \in {"stopped", "idle", "up", "dn"} /\ b.cfg \in {"none", "boot", "other"}
    /\ b.recv \in BOOLEAN /\ b.facts \subseteq Facts
    /\ b.bad \subseteq {"con", "busy", "recv", "time", "cfg_con", "freed"}
    /\ Len(b.ended) <= 1

(***************************************************************************)
(* The assertions of co_nmt_boot_emit_recv(), _dn_con(), _up_con() and     *)
(* _cfg_con() hold: the receiver is only started, and an SDO or            *)
(* configuration request is only being executed, in a state with a handler *)
(* for its result.  Nor is an SDO request made while another one is being  *)
(* executed.  The timer is only running in the state that started it,      *)
(* except for the one that waits for the boot-up message.                  *)
(***************************************************************************)
EventsHandled ==
    /\ b.bad \subseteq {"time", "freed"}
    /\ b.recv => b.state \in RecvStates
    /\ b.cfg = "boot" => b.state = "up_cfg"
    /\ b.timer \notin {"off", "reset_comm"} => b.state = b.timer
    /\ b.sdo \in {"up", "dn"} => b.state \notin {"none", "wait", "ec", "up_cfg"}

Ended == b.ended # <<>>
EndES == b.ended[1].es
Successful == Ended /\ EndES \in {"0", "L"}

(***************************************************************************)
(* A slave is only reported as booted (error status 0 or L) when every     *)
(* value of the identity object that is configured has been compared since *)
(* the process last read the device type; its program, if it is to be      *)
(* checked, and its configuration have been verified or updated, unless    *)
(* the slave was found to be operational; and a heartbeat that is not a    *)
(* boot-up message has been received if the master consumes it.            *)
(***************************************************************************)
SuccessIsEarned ==
    Successful =>
        /\ d.listed
        /\ d.boot => /\ d.id \subseteq b.facts
                     /\ \/ "oper" \in b.facts
                        \/ "cfg" \in b.facts /\ (d.chk_sw => "sw" \in b.facts)
        /\ d.ms => "hb" \in b.facts

\* The steps that precede the one with error status es.
Before(es) ==
    CASE es \in {"A", "B"} -> {}
      [] es = "C" -> {"answer"}
      [] es \in {"D", "M", "N", "O"} ->
            LET i == CHOOSE j \in 1..5 : IdentityES[j] = es IN d.id \cap {Identity[j] : j \in 1..(i - 1)}
      [] es \in {"E", "F", "G", "H", "I"} -> d.id
      [] es = "J" -> d.id \cup (IF d.chk_sw THEN {"sw"} ELSE {})
      [] es \in {"K", "L", "0"} -> {}

\* The fact that the step with error status es establishes.
Missing(es) ==
    CASE es \in {"D", "M", "N", "O"} -> {Identity[CHOOSE j \in 1..5 : IdentityES[j] = es]}
      [] es = "B" -> {"answer"}
      [] es = "C" -> {"type"}
      [] es \in {"E", "F"} -> {"oper"}
      [] es \in {"G", "H", "I"} -> {"sw"}
      [] es = "J" -> {"cfg"}
      [] es = "K" -> {"hb"}
      [] es \in {"A", "L", "0"} -> {}

(***************************************************************************)
(* The error status reported for a slave names the step that failed, as    *)
(* co_nmt_es2str() describes it: the steps before it have succeeded, and   *)
(* the step itself has not.  B is only reported for a mandatory slave, and *)
(* only after the boot time has elapsed.                                   *)
(***************************************************************************)
ErrorNamesTheStep ==
    Ended => /\ Before(EndES) \subseteq b.facts
             /\ Missing(EndES) \cap b.facts = {}
             /\ EndES = "C" => "type" \in d.id
             /\ EndES = "B" => d.mandatory /\ d.boot_time /\ late
             /\ EndES = "A" <=> ~d.listed

ProgramStates == {"stop_prog", "clear_prog", "blk_dn_prog", "dn_prog", "wait_flash",
                  "chk_prog", "start_prog", "wait_prog"}

(***************************************************************************)
(* The program of a slave with the keep-alive bit is never stopped or      *)
(* replaced, and a slave that was found to be operational is neither reset *)
(* nor configured.                                                         *)
(***************************************************************************)
KeptAlive ==
    /\ d.keep_alive => b.state \notin ProgramStates
    /\ "oper" \in b.facts => "reset" \notin b.facts /\ b.state \in {"ec", "none"} /\ b.cfg # "boot"

(***************************************************************************)
(* The process for a mandatory slave ends, whatever the slave does, when   *)
(* there is a boot time.                                                   *)
(***************************************************************************)
BootingMandatory == d.mandatory /\ d.boot_time /\ b.state # "none"
MandatoryEnds == BootingMandatory ~> ~BootingMandatory

(***************************************************************************)
(* The assertion of co_nmt_boot_emit_time(): the timer only expires in a   *)
(* state that has a handler for it.                                        *)
(***************************************************************************)
TimeHandled == b.timer # "off" => b.state \in TimerStates

(***************************************************************************)
(* After a 'reset communication' command the process only goes on once the *)
(* slave has sent a boot-up message.                                       *)
(***************************************************************************)
BootupAwaited ==
    "reset" \in b.facts /\ b.state \notin {"reset_comm", "none"} => "bootup" \in b.facts

(***************************************************************************)
(* A slave that was found to be operational and that the process did not   *)
(* configure is reported with error status L, not with 0.                  *)
(***************************************************************************)
InitiallyOperational == Successful /\ "oper" \in b.facts => EndES = "L"

(***************************************************************************)
(* The process is not used after it has been destroyed when the master     *)
(* ends it.                                                                *)
(***************************************************************************)
NoUseAfterFree == "freed" \notin b.bad
=============================================================================
