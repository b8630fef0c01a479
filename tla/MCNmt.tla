------------------------------- MODULE MCNmt -------------------------------
(***************************************************************************)
(* Each part of the NMT service in an environment that does whatever the   *)
(* code allows for: the state machine and the slaves of a master (Nmt),    *)
(* the 'boot slave' (NmtBoot) and 'configuration request' (NmtCfg)         *)
(* processes, the heartbeat consumers (NmtHb) and node guarding            *)
(* (NmtGuard).  A behaviour is one of one part.                            *)
(***************************************************************************)
EXTENDS Integers, Sequences, FiniteSets

CONSTANTS Off, Null

(***************************************************************************)
(* The part, and its variables: its configuration (or the slave, for node  *)
(* guarding), its state, and the rest.                                     *)
(***************************************************************************)
VARIABLES part, conf, state, aux

vars == <<part, conf, state, aux>>

-----------------------------------------------------------------------------
(* The state machine, with two slaves.                                     *)

Assignments ==
    {<<{"list", "boot"}, {"list", "boot", "mand"}>>, <<{"list", "boot", "mand"}, {"list", "boot", "mand"}>>,
     <<{"list", "mand"}, {"list", "boot", "keep"}>>, <<{"list", "keep"}, {"list", "boot"}>>}

Startups ==
    {{"master"}, {"master", "all"}, {"master", "all", "noself", "stop"}, {"master", "noslaves", "reset"}}

Masters ==
    {[startup |-> s, asg |-> a, lss |-> FALSE, inhibit |-> "noself" \in s, err |-> IF "all" \in s THEN 0 ELSE 2,
      calls |-> c] :
        s \in Startups, a \in Assignments,
        c \in {{"cs_ind"}, {"node_err", "comm_err"}, {"boot_req", "cfg_req", "write"}}}

\* A slave, and a master that assigns node-IDs first.
Others ==
    {[startup |-> {}, asg |-> <<{}, {}>>, lss |-> FALSE, inhibit |-> FALSE, err |-> 0,
      calls |-> {"set_id", "comm_err"}],
     [startup |-> {"master", "all"}, asg |-> <<{"list", "boot", "mand"}, {}>>, lss |-> TRUE, inhibit |-> TRUE,
      err |-> 0, calls |-> {"cs_ind", "cs_req", "set_id"}]}

Node == INSTANCE Nmt WITH Slaves <- {1, 2}, Configs <- Masters \cup Others, SdoAborts <- FALSE, BootFails <- TRUE,
                          MaxBuf <- 2, MaxEvents <- 1, d <- conf, n <- state, events <- aux

ASSUME Node!NmtAssumption

\* Every 'boot slave' process is in an SDO request when it is aborted.
Abort == INSTANCE Nmt WITH Slaves <- {1, 2}, Configs <- Masters, SdoAborts <- TRUE, BootFails <- TRUE,
                           MaxBuf <- 2, MaxEvents <- 1, d <- conf, n <- state, events <- aux

-----------------------------------------------------------------------------
(* The 'boot slave' process.                                               *)

Plain == [listed |-> TRUE, boot |-> TRUE, mandatory |-> TRUE, keep_alive |-> FALSE,
          chk_sw |-> FALSE, up_sw |-> FALSE, ms |-> TRUE, id |-> {"type", "serial"},
          sw_id |-> TRUE, prog |-> TRUE, cfg_date |-> TRUE, boot_time |-> TRUE]

\* Slaves that are not listed or not booted, and all combinations of the identity checks.
IdConfigs ==
    {[Plain EXCEPT !.listed = l, !.boot = o, !.id = i, !.ms = h] :
        l \in BOOLEAN, o \in BOOLEAN, h \in BOOLEAN,
        i \in SUBSET {"type", "vendor", "product", "revision", "serial"}}

\* All combinations of the steps that follow the identity checks.
StepConfigs ==
    {[Plain EXCEPT !.mandatory = a, !.keep_alive = k, !.chk_sw = c, !.up_sw = u, !.ms = h,
                   !.sw_id = s, !.prog = p, !.cfg_date = t] :
        a \in BOOLEAN, k \in BOOLEAN, c \in BOOLEAN, u \in BOOLEAN, h \in BOOLEAN,
        s \in BOOLEAN, p \in BOOLEAN, t \in BOOLEAN}

Boot == INSTANCE NmtBoot WITH Configs <- IdConfigs \cup StepConfigs, SdoRetry <- 3, Resets <- TRUE,
                              d <- conf, b <- state, late <- aux

ASSUME Boot!NmtBootAssumption

-----------------------------------------------------------------------------
(* The 'configuration request' process.                                    *)

Dcfs == {<<>>, <<"ro">>, <<"write">>, <<"ro", "write">>, <<"write", "default">>,
         <<"write", "write">>, <<"write", "file", "write">>, <<"ro", "write", "write", "default">>}

CfgConfigs == INSTANCE NmtCfg WITH Configs <- {}, Dcfs <- Dcfs, Resets <- TRUE, d <- conf, c <- state

Cfg == INSTANCE NmtCfg WITH Configs <- CfgConfigs!Config, Dcfs <- Dcfs, Resets <- TRUE, d <- conf, c <- state

ASSUME Cfg!NmtCfgAssumption

-----------------------------------------------------------------------------
(* The heartbeat consumers: two nodes, two sub-objects of object 1016,     *)
(* every entry either empty or in use.                                     *)

EntriesInUse == {<<0, 0>>, <<1, 1>>, <<1, 2>>, <<2, 1>>}

Hb == INSTANCE NmtHb WITH Nodes <- {1, 2}, Slots <- {1, 2}, Entries <- EntriesInUse,
                          Initial1016 <- <<<<1, 1>>, <<2, 1>>>>, Master <- TRUE, AppWrites <- FALSE,
                          Aborts <- TRUE, n <- state, cur <- aux

\* No request fails, and the master does not end processes.
HbRun == INSTANCE NmtHb WITH Nodes <- {1, 2}, Slots <- {1, 2}, Entries <- EntriesInUse,
                             Initial1016 <- <<<<1, 1>>, <<2, 1>>>>, Master <- TRUE, AppWrites <- FALSE,
                             Aborts <- FALSE, n <- state, cur <- aux

ASSUME Hb!NmtHbAssumption

-----------------------------------------------------------------------------
(* Node guarding: frames are lost; or requests and commands of the         *)
(* application, with the default indication function.                      *)

Loss == INSTANCE NmtGuard WITH Gt <- 3, Ltf <- 4, MaxDelay <- 1, MaxFaults <- 2, Crashes <- FALSE,
                               Commands <- TRUE, Requests <- {}, OnNg <- FALSE, Writes <- FALSE,
                               m <- state, s <- conf, faults <- aux

Requested == INSTANCE NmtGuard WITH Gt <- 3, Ltf <- 1, MaxDelay <- 1, MaxFaults <- 1, Crashes <- TRUE,
                                    Commands <- FALSE, Requests <- {"ng", "boot", "cfg"}, OnNg <- TRUE,
                                    Writes <- TRUE, m <- state, s <- conf, faults <- aux

ASSUME Loss!NmtGuardAssumption /\ Requested!NmtGuardAssumption

-----------------------------------------------------------------------------
None == "none"

Init ==
    \/ part = "nmt" /\ Node!Init
    \/ part = "boot" /\ Boot!Init
    \/ part = "cfg" /\ Cfg!Init /\ aux = None
    \/ part = "hb" /\ Hb!Init /\ conf = None
    \/ part = "hb_run" /\ HbRun!Init /\ conf = None
    \/ part = "loss" /\ Loss!Init
    \/ part = "requested" /\ Requested!Init

Next ==
    \/ part = "nmt" /\ Node!Next /\ UNCHANGED part
    \/ part = "boot" /\ Boot!Next /\ UNCHANGED part
    \/ part = "cfg" /\ Cfg!Next /\ UNCHANGED <<part, aux>>
    \/ part = "hb" /\ Hb!Next /\ UNCHANGED <<part, conf>>
    \/ part = "hb_run" /\ HbRun!Next /\ UNCHANGED <<part, conf>>
    \/ part = "loss" /\ Loss!Next /\ UNCHANGED part
    \/ part = "requested" /\ Requested!Next /\ UNCHANGED part

Spec == Init /\ [][Next]_vars

AbortSpec == part = "nmt" /\ Abort!Init /\ [][Abort!Next /\ UNCHANGED part]_vars

-----------------------------------------------------------------------------
(* The properties of the parts, stated in their modules.                   *)

\* However the entry functions of the NMT states nest, in the end the services and
\* the receivers are those of the state (co_nmt_enter()), and a command that waits
\* for the inhibit time is sent after it (co_nmt_cs_timer()).
MasterConsistent ==
    part = "nmt" => Node!NmtTypeOK /\ Node!StateConsistent /\ Node!BufferedIsTimed

\* The master does not start itself before all mandatory slaves have been booted
\* (co_nmt_preop_on_boot()), it starts every slave that it is to start and that has
\* booted (co_nmt_boot_con(), co_nmt_start_on_enter()), and no process of a slave
\* outlives a reset of the master (co_nmt_slaves_fini()).
StartupInOrder ==
    part = "nmt" => Node!MandatoryFirst /\ Node!NoSlaveForgotten /\ Node!ProcessesEnded

\* `assert(nmt->state->on_boot);' (co_nmt_emit_boot()).
OnBootDefined == Abort!OnBootDefined

\* The assertions of the processes and consumers hold: those of co_nmt_boot_emit_*(),
\* co_nmt_cfg_emit_*(), co_nmt_hb_recv(), co_nmt_recv_700() and co_nmt_ng_timer();
\* no SDO request is made while another one is being executed, and the DCF is in
\* memory exactly while it is being written.
EventsHandled ==
    /\ part = "boot" => Boot!BootTypeOK /\ Boot!EventsHandled
    /\ part = "cfg" => Cfg!CfgTypeOK /\ Cfg!CfgEventsHandled
    /\ part = "hb" => Hb!NmtHbTypeOK /\ Hb!RecvAssertions
    /\ part = "requested" => Requested!GuardTypeOK /\ Requested!GuardAssertions

\* A slave is only reported as booted when every check that is configured has been
\* made since its device type was last read (co_nmt_boot_leave()); otherwise the
\* error status names the step that failed, as co_nmt_es2str() describes it; and a
\* slave with the keep-alive bit is not disturbed (co_nmt_boot_chk_node_on_enter()).
\* The configuration of a slave is only reported as successful when all of it has
\* been done, once and in order (co_nmt_cfg_cfg_req() and what follows).
BootIsHonest ==
    /\ part = "boot" => Boot!SuccessIsEarned /\ Boot!ErrorNamesTheStep /\ Boot!KeptAlive
    /\ part = "cfg" => Cfg!SuccessIsComplete

\* A heartbeat consumer reports a timeout after a silence of the heartbeat time and
\* only then, alternately with its resolution (co_nmt_hb_timer(), co_nmt_hb_recv());
\* it is disabled during the 'boot slave' process (co_nmt_boot_req()), and outside of
\* the processes of the slave it listens, with the time of object 1016
\* (co_nmt_boot_con(), co_nmt_cfg_con()).
HeartbeatsJudged ==
    /\ part = "hb" => /\ Hb!AppToldTruth /\ Hb!NoFalseAlarm
                      /\ Hb!SilenceDetected /\ Hb!OffWhileBooting
    /\ part = "hb_run" => HbRun!ConsumersRun

\* Neither the master (co_nmt_ng_timer()) nor a slave that is polled
\* (co_nmt_ec_timer()) reports an error for the frames that the lifetime factor
\* allows to be lost.
LossTolerated ==
    part = "loss" => Loss!GuardTypeOK /\ Loss!LossTolerated /\ Loss!NoFalseLifeAlarm
=============================================================================
