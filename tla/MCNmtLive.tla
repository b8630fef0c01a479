----------------------------- MODULE MCNmtLive -----------------------------
(***************************************************************************)
(* What the parts of the NMT service bring about: the network is started   *)
(* (Nmt), processes end (NmtBoot, NmtCfg), and nodes are monitored by      *)
(* their heartbeats (NmtHbNet) or by node guarding (NmtGuard) on a bus     *)
(* that loses frames, while they crash and reboot.  A behaviour is one of  *)
(* one part.                                                               *)
(***************************************************************************)
EXTENDS Integers, Sequences, FiniteSets

CONSTANTS Off, Null

(***************************************************************************)
(* The part, and its variables: its configuration (or the nodes of the     *)
(* network), its state, the bus, the number of faults, and the rest.       *)
(***************************************************************************)
VARIABLES part, conf, state, bus, faults, aux

vars == <<part, conf, state, bus, faults, aux>>

-----------------------------------------------------------------------------
\* Masters that start themselves and their slaves, with or without LSS requests first.
Masters ==
    [startup : {{"master"}, {"master", "all"}, {"master", "noslaves"}, {"master", "all", "noself"}},
     asg : {<<{"list", "boot"}, {"list", "boot", "mand"}>>, <<{"list", "boot", "mand"}, {"list", "boot", "mand", "keep"}>>,
            <<{"list", "mand"}, {"list", "boot", "keep"}>>, <<{}, {}>>},
     lss : BOOLEAN, inhibit : BOOLEAN, err : {0}, calls : {{}}]

Node == INSTANCE Nmt WITH Slaves <- {1, 2}, Configs <- Masters, SdoAborts <- FALSE, BootFails <- FALSE,
                          MaxBuf <- 2, MaxEvents <- 1, d <- conf, n <- state, events <- aux

\* No program update, and no keep-alive bit.
BootConfigs ==
    [listed : {TRUE}, boot : {TRUE}, mandatory : BOOLEAN, keep_alive : {FALSE}, chk_sw : BOOLEAN, up_sw : {FALSE},
     ms : BOOLEAN, id : {{"type", "serial"}}, sw_id : BOOLEAN, prog : {TRUE}, cfg_date : BOOLEAN, boot_time : {TRUE}]

Boot == INSTANCE NmtBoot WITH Configs <- BootConfigs, SdoRetry <- 3, Resets <- FALSE,
                              d <- conf, b <- state, late <- aux

Dcfs == {<<>>, <<"ro">>, <<"write">>, <<"ro", "write">>, <<"write", "default">>,
         <<"write", "write">>, <<"write", "file", "write">>, <<"ro", "write", "write", "default">>}

\* The slave is not reset.
CfgConfigs ==
    [listed : {TRUE}, reset : {FALSE}, subidx : {0}, ind : BOOLEAN,
     dcf : {<<"ok", s>> : s \in Dcfs}, cdcf : {"absent", "partial", "empty", "fails", "invalid", "none", "ok"}]

Cfg == INSTANCE NmtCfg WITH Configs <- CfgConfigs, Dcfs <- Dcfs, Resets <- FALSE, d <- conf, c <- state

\* One node whose heartbeat time is the smallest that the delay of the bus allows for.
Hb == INSTANCE NmtHbNet WITH Nodes <- {1}, Slots <- {1}, Entries <- {<<1, 4>>}, Initial1016 <- <<<<1, 4>>>>,
                             Master <- TRUE, AppWrites <- FALSE, Aborts <- FALSE, Producer <- 2,
                             MaxDelay <- 1, MaxFaults <- 3, n <- state, cur <- aux, node <- conf

Guard == INSTANCE NmtGuard WITH Gt <- 3, Ltf <- 2, MaxDelay <- 1, MaxFaults <- 2, Crashes <- TRUE,
                                Commands <- TRUE, Requests <- {}, OnNg <- FALSE, Writes <- FALSE,
                                m <- state, s <- conf

ASSUME
    /\ Node!NmtAssumption /\ Boot!NmtBootAssumption /\ Cfg!NmtCfgAssumption
    /\ Hb!NmtHbAssumption /\ Hb!NmtHbNetAssumption /\ Guard!NmtGuardAssumption

-----------------------------------------------------------------------------
None == "none"

Init ==
    \/ part = "nmt" /\ Node!Init /\ bus = None /\ faults = None
    \/ part = "boot" /\ Boot!Init /\ bus = None /\ faults = None
    \/ part = "cfg" /\ Cfg!Init /\ bus = None /\ faults = None /\ aux = None
    \/ part = "hb" /\ Hb!NetInit
    \/ part = "guard" /\ Guard!Init /\ bus = None /\ aux = None

NodeStep(A) == part = "nmt" /\ A /\ UNCHANGED <<part, bus, faults>>
BootStep(A) == part = "boot" /\ A /\ UNCHANGED <<part, bus, faults>>
CfgStep(A) == part = "cfg" /\ A /\ UNCHANGED <<part, bus, faults, aux>>
HbStep(A) == part = "hb" /\ A /\ UNCHANGED part
GuardStep(A) == part = "guard" /\ A /\ UNCHANGED <<part, bus, aux>>

Next ==
    NodeStep(Node!Next) \/ BootStep(Boot!Next) \/ CfgStep(Cfg!Next) \/ HbStep(Hb!NetNext) \/ GuardStep(Guard!Next)

(***************************************************************************)
(* The fairness conditions of the modules, side by side: as no behaviour   *)
(* has steps of two parts, each conjunct is a condition on one action or   *)
(* predicate of the part.                                                  *)
(***************************************************************************)
Fairness ==
    /\ WF_vars(\/ BootStep(Boot!UpEnds) \/ CfgStep(Cfg!DnEnds)
               \/ HbStep(Hb!NetTick) \/ GuardStep(Guard!Tick))
    /\ WF_vars(\/ BootStep(Boot!DnEnds) \/ CfgStep(Cfg!Timer)
               \/ HbStep(Hb!MasterCallback) \/ GuardStep(Guard!NgTimer))
    /\ WF_vars(\/ BootStep(Boot!CfgEnds) \/ CfgStep(Cfg!UserEnds)
               \/ HbStep(Hb!MasterTimer) \/ GuardStep(Guard!LgTimer))
    /\ WF_vars(\/ BootStep(Boot!Timer)
               \/ HbStep(Hb!co_nmt_ec_timer(1)) \/ GuardStep(Guard!DeliverToMaster))
    /\ WF_vars(\/ BootStep(Boot!BootTimeElapses)
               \/ HbStep(Hb!Deliver(1)) \/ GuardStep(Guard!DeliverToSlave))
    /\ WF_vars(GuardStep(Guard!BootCon))
    /\ SF_vars(HbStep(Hb!MasterBootCon))
    /\ []<>(part = "nmt" => Node!Started) /\ []<>(part = "nmt" => Node!LssDone)
    /\ []<>(part = "nmt" => Node!Elapsed)
    /\ []<>(part = "nmt" => Node!BootEnded(1)) /\ []<>(part = "nmt" => Node!BootEnded(2))

Spec == Init /\ [][Next]_vars /\ Fairness

-----------------------------------------------------------------------------
(* The properties of the parts, stated in their modules.                   *)

\* A master whose slaves boot becomes operational (co_nmt_startup()).
NetworkStarts == <>(part = "nmt" => "noself" \in conf.startup \/ state.state = "start")

\* The 'boot slave' process of a mandatory slave ends when there is a boot time
\* (co_nmt_boot_chk_timeout()), and a configuration request ends if the application
\* responds (co_nmt_cfg_cfg_req()).
ProcessesEnd ==
    /\ (part = "boot" /\ Boot!BootingMandatory) ~> (part = "boot" /\ ~Boot!BootingMandatory)
    /\ (part = "cfg" /\ Cfg!Configuring) ~> (part = "cfg" /\ ~Cfg!Configuring)

\* A heartbeat time greater than the producer's time and the delay of the bus never
\* runs out without a fault; a node that dies while its heartbeats are consumed is
\* reported (co_nmt_hb_timer()); when all nodes stay alive, every timeout is resolved
\* for good (co_nmt_hb_recv()); and a node that has been booted is monitored again
\* (co_nmt_boot_con()).
DeadNodesReported ==
    /\ [](part = "hb" => Hb!NetTypeOK /\ Hb!NoAlarmWithoutFault)
    /\ (part = "hb" /\ Hb!Died(1, 1)) ~> (part = "hb" /\ Hb!Reported(1, 1))
    /\ <>[](part = "hb" /\ Hb!AllAlive) => <>[](part = "hb" /\ Hb!Resolved)
    /\ (part = "hb" /\ Hb!Rebooted(1, 1)) ~> (part = "hb" /\ Hb!Monitored(1, 1))

\* A guarded slave that dies is reported, once (co_nmt_ng_timer()); without a fault
\* none is reported in an unexpected state, and a change of state only when there is
\* one (co_nmt_recv_700()); a slave that stays alive ends up as one that answers,
\* whatever the toggle bits, and its life guarding error ends.
GuardingConverges ==
    /\ [](part = "guard" => /\ Guard!GuardTypeOK /\ Guard!NoFalseState
                            /\ Guard!NotifiedOnce /\ Guard!ChangeIsChange)
    /\ (part = "guard" /\ Guard!GuardedDied) ~> (part = "guard" /\ Guard!DeathKnown)
    /\ <>[](part = "guard" /\ Guard!StaysAlive) => <>[](part = "guard" /\ Guard!NoTimeout)
    /\ <>[](part = "guard" /\ Guard!StaysGuarded) => <>[](part = "guard" /\ Guard!NoLifeError)
=============================================================================
