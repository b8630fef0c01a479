------------------------------- MODULE NmtCfg -------------------------------
(***************************************************************************)
(* The 'configuration request' process of an NMT master for one slave      *)
(* (src/lib/co/nmt_cfg.c), with the parts of src/lib/co/nmt.c that create  *)
(* it, are told of its end, and abort it.                                  *)
(*                                                                         *)
(* The process restores the parameters of the slave and resets it, writes  *)
(* the values of a DCF (object 1F20) one after the other, writes a concise *)
(* DCF (object 1F22), and lets the application finish the configuration.   *)
(* The slave, the Client-SDO and the application are the environment.      *)
(***************************************************************************)
EXTENDS Integers, Sequences, SequencesExt

CONSTANTS
    Configs,    \* the configurations of the slave in the master's dictionary
    Dcfs,       \* the DCFs: sequences of the kinds of their sub-objects
    Resets      \* can the master end the processes of its slaves?

\* A sub-object of a DCF is to be written, or skipped for one of three reasons.
Kinds == {"write", "ro", "file", "default"}

(***************************************************************************)
(* A configuration: is the slave in the network list (bit 0 of 1F81), is   *)
(* it to be reset (bit 7), the sub-index of object 1011 (1F8A), the DCF    *)
(* and the concise DCF (absent, one that cannot be used, is empty, cannot  *)
(* be read or cannot be parsed, or the list of its entries), and has the   *)
(* application registered an indication function (ind).                    *)
(***************************************************************************)
Unusable == {"absent", "partial", "empty", "fails", "invalid"}
Config == [listed : BOOLEAN, reset : BOOLEAN, subidx : 0..2, ind : BOOLEAN,
           dcf : {<<u>> : u \in Unusable} \cup {<<"ok", s>> : s \in Dcfs},
           cdcf : {"absent", "partial", "empty", "fails", "invalid", "none", "ok"}]

NmtCfgAssumption ==
    /\ Configs \subseteq Config /\ Dcfs \subseteq Seq(Kinds) /\ Resets \in BOOLEAN

(***************************************************************************)
(* d is the configuration.  c is the process: its state ("none" when it    *)
(* does not exist), ac, are its receiver and its timer started, the        *)
(* request its Client-SDO is executing (sdo), the sub-object of the DCF    *)
(* that is being written (sub), is the parsed DCF in memory (dev).  For    *)
(* the properties: done, the steps that have been completed; ended, the    *)
(* results reported; bad, the ways in which the code has gone wrong.       *)
(***************************************************************************)
VARIABLES d, c

vars == <<d, c>>

NoCfg == [state |-> "none", ac |-> "0", recv |-> FALSE, timer |-> FALSE, sdo |-> "stopped",
          sub |-> 0, dev |-> FALSE, done |-> <<>>, ended |-> <<>>, bad |-> {}]

Init == d \in Configs /\ c = NoCfg

Broken(m, what) == [m EXCEPT !.bad = @ \cup {what}]

Did(m, step) == [m EXCEPT !.done = Append(@, step)]

-----------------------------------------------------------------------------
(* The end of the process, and the step of the application.                *)

(***************************************************************************)
(* Everything is stopped, co_nmt_cfg_con() reports the abort code, and the *)
(* process is destroyed.  Leaving the state in which the DCF is written    *)
(* frees the DCF.                                                          *)
(***************************************************************************)
abort_on_enter(m) ==
    [m EXCEPT !.state = "none", !.recv = FALSE, !.timer = FALSE, !.sdo = "stopped", !.dev = FALSE,
              !.ended = Append(@, m.ac)]

Fails(m, ac) == abort_on_enter([m EXCEPT !.ac = ac])

user_on_res(m, ac) == Fails(IF ac = "0" THEN Did(m, <<"user">>) ELSE m, ac)

\* Without an indication function the response is immediate.
user_on_enter(m) ==
    LET u == [m EXCEPT !.state = "user"] IN
    IF d.ind THEN u ELSE user_on_res(u, "0")

-----------------------------------------------------------------------------
(* The DCF and the concise DCF.                                            *)

\* A request to write a value: it fails unless the Client-SDO is idle.
dn(m, s) ==
    IF m.sdo = "idle" THEN [m EXCEPT !.state = s, !.sdo = "dn"]
    ELSE Fails(Broken(m, "busy"), "error")

store_1f22_on_dn_con(m, ac) ==
    IF ac # "0" THEN Fails(m, ac) ELSE user_on_enter(Did(m, <<"1f22">>))

\* A concise DCF without entries, or an invalid one, is confirmed at once.
store_1f22_on_enter(m) ==
    CASE d.cdcf \in {"absent", "partial", "empty"} -> user_on_enter(m)
      [] d.cdcf = "fails" -> Fails(m, "error")
      [] d.cdcf = "invalid" -> store_1f22_on_dn_con(m, "error")
      [] d.cdcf = "none" -> store_1f22_on_dn_con(m, "0")
      [] d.cdcf = "ok" -> dn(m, "store_1f22")

Dcf == IF d.dcf[1] = "ok" THEN d.dcf[2] ELSE <<>>

\* The sub-objects after i that are to be written.
Rest(i) == {j \in (i + 1)..Len(Dcf) : Dcf[j] = "write"}

store_1f20_on_dn_con(m, ac) ==
    LET n == IF m.sub > 0 THEN Did(m, <<"1f20", m.sub>>) ELSE m
        rest == Rest(m.sub)
    IN CASE ac # "0" -> Fails(m, ac)
         [] ac = "0" /\ rest = {} -> store_1f22_on_enter([n EXCEPT !.dev = FALSE])
         [] ac = "0" /\ rest # {} ->
               dn([n EXCEPT !.sub = CHOOSE j \in rest : \A k \in rest : j <= k], "store_1f20")

store_1f20_on_enter(m) ==
    CASE d.dcf[1] \in {"absent", "partial", "empty"} -> store_1f22_on_enter(m)
      [] d.dcf[1] \in {"fails", "invalid"} -> Fails(m, "error")
      [] d.dcf[1] = "ok" -> store_1f20_on_dn_con([m EXCEPT !.dev = TRUE, !.sub = 0], "0")

-----------------------------------------------------------------------------
(* Restore the parameters and reset the slave.                             *)

reset_on_enter(m) == [m EXCEPT !.state = "reset", !.recv = TRUE, !.timer = TRUE]

\* Any frame is accepted, and the timer is not stopped.
reset_on_recv(m, f) ==
    store_1f20_on_enter([(IF f = "bootup" THEN Did(m, <<"bootup">>) ELSE m) EXCEPT !.recv = FALSE])

reset_on_time(m) == Fails(m, "timeout")

restore_on_dn_con(m, ac) ==
    IF ac # "0" THEN Fails(m, ac) ELSE reset_on_enter(Did(m, <<"reset">>))

restore_on_enter(m) ==
    CASE ~d.listed -> abort_on_enter([m EXCEPT !.ac = "0"])
      [] d.listed /\ (~d.reset \/ d.subidx = 0) -> store_1f20_on_enter([m EXCEPT !.ac = "0"])
      [] d.listed /\ d.reset /\ d.subidx # 0 -> dn([m EXCEPT !.ac = "0"], "restore")

-----------------------------------------------------------------------------
(* The events.                                                             *)

Running == c.bad = {}

on_dn_con(m, ac) ==
    CASE m.state = "restore" -> restore_on_dn_con(m, ac)
      [] m.state = "store_1f20" -> store_1f20_on_dn_con(m, ac)
      [] m.state = "store_1f22" -> store_1f22_on_dn_con(m, ac)
      [] OTHER -> Broken(m, "con")

\* co_nmt_cfg_req()
CfgReq ==
    /\ Running /\ c.state = "none"
    /\ c' = restore_on_enter([NoCfg EXCEPT !.sdo = "idle"])
    /\ UNCHANGED d

DnCon(ac) ==
    /\ Running /\ c.sdo = "dn"
    /\ c' = on_dn_con([c EXCEPT !.sdo = "idle"], ac)
    /\ UNCHANGED d

Recv(f) ==
    /\ Running /\ c.recv
    /\ c' = IF c.state = "reset" THEN reset_on_recv(c, f) ELSE Broken(c, "recv")
    /\ UNCHANGED d

Timer ==
    /\ Running /\ c.timer
    /\ LET m == [c EXCEPT !.timer = FALSE] IN
       c' = IF c.state = "reset" THEN reset_on_time(m) ELSE Broken(m, "time")
    /\ UNCHANGED d

\* The application uses the Client-SDO of the process, and reports the result.
UserReq ==
    /\ Running /\ d.ind /\ c.state = "user" /\ c.sdo = "idle"
    /\ c' = [c EXCEPT !.sdo = "user"] /\ UNCHANGED d

UserRes(ac) ==
    /\ Running /\ d.ind /\ c.state = "user"
    /\ c' = user_on_res([c EXCEPT !.sdo = "idle"], ac) /\ UNCHANGED d

(***************************************************************************)
(* co_nmt_cfg_abort_req(), when the master is reset or enters the          *)
(* pre-operational state.  Stopping the Client-SDO confirms the request it *)
(* is executing; the confirmation ends the process (the application        *)
(* responds to the failure of its own request), which has then been freed  *)
(* when co_csdo_stop() and co_nmt_cfg_abort_req() go on with it.           *)
(***************************************************************************)
co_nmt_cfg_abort_req(m) ==
    LET s == [m EXCEPT !.recv = FALSE, !.timer = FALSE, !.sdo = "idle"]
        r == CASE m.sdo = "dn" -> on_dn_con(s, "abort")
               [] m.sdo = "user" -> user_on_res(s, "abort")
               [] OTHER -> s
    IN IF r.state = "none" THEN Broken(r, "freed") ELSE r

CfgAbort ==
    /\ Running /\ Resets /\ c.state # "none"
    /\ c' = [co_nmt_cfg_abort_req(c) EXCEPT !.state = "none", !.sdo = "stopped", !.dev = FALSE]
    /\ UNCHANGED d

Results == {"0", "abort", "timeout"}
Frames == {"bootup", "other"}

DnEnds == \E ac \in Results : DnCon(ac)
UserEnds == \E ac \in Results : UserRes(ac)

Next ==
    \/ CfgReq \/ Timer \/ UserReq \/ CfgAbort
    \/ DnEnds \/ UserEnds
    \/ \E f \in Frames : Recv(f)

Spec == Init /\ [][Next]_vars

\* An SDO request ends, the timer expires, and the application responds.
Fairness == WF_vars(DnEnds) /\ WF_vars(Timer) /\ WF_vars(UserEnds)

FairSpec == Spec /\ Fairness

-----------------------------------------------------------------------------
(* Properties.                                                             *)

CfgTypeOK ==
    /\ d \in Configs
    /\ c.state \in {"none", "restore", "reset", "store_1f20", "store_1f22", "user"}
    /\ c.ac \in Results \cup {"error"} /\ c.recv \in BOOLEAN /\ c.timer \in BOOLEAN
    /\ c.sdo \in {"stopped", "idle", "dn", "user"} /\ c.sub \in 0..Len(Dcf) /\ c.dev \in BOOLEAN
    /\ c.bad \subseteq {"con", "busy", "recv", "time", "freed"}
    /\ Len(c.ended) <= 1

(***************************************************************************)
(* The assertions of co_nmt_cfg_emit_recv() and _dn_con() hold, as do the  *)
(* ones on the DCF: it is in memory exactly while it is being written, and *)
(* there is one sub-object to go on from.  No SDO request is made while    *)
(* another one is being executed.                                          *)
(***************************************************************************)
CfgEventsHandled ==
    /\ c.bad \subseteq {"time", "freed"}
    /\ c.recv <=> c.state = "reset"
    /\ c.sdo = "dn" <=> c.state \in {"restore", "store_1f20", "store_1f22"}
    /\ c.dev <=> c.state = "store_1f20"
    /\ c.state = "store_1f20" => Dcf[c.sub] = "write"
    /\ c.state = "reset" => c.timer

Successful == c.ended = <<"0">>

\* What is to be written from the DCF.
Written == SelectSeq([i \in 1..Len(Dcf) |-> <<"1f20", i>>], LAMBDA x : Dcf[x[2]] = "write")

(***************************************************************************)
(* The configuration of a slave in the network list is only reported as    *)
(* successful when all of it has been done, once and in order: the slave   *)
(* has been reset if it had to be, then every value of the DCF that is     *)
(* neither read-only, nor a file, nor the default has been written, then   *)
(* the concise DCF, and then the application has agreed.                   *)
(***************************************************************************)
SuccessIsComplete ==
    Successful /\ d.listed =>
        SelectSeq(c.done, LAMBDA x : x # <<"bootup">>) =
            (IF d.reset /\ d.subidx # 0 THEN <<<<"reset">>>> ELSE <<>>)
            \o Written
            \o (IF d.cdcf \in {"none", "ok"} THEN <<<<"1f22">>>> ELSE <<>>)
            \o <<<<"user">>>>

(***************************************************************************)
(* The process ends, if the application responds.                          *)
(***************************************************************************)
Configuring == c.state # "none"
Ends == Configuring ~> ~Configuring

(***************************************************************************)
(* The assertion of co_nmt_cfg_emit_time(): the timer only expires in the  *)
(* state that has a handler for it.                                        *)
(***************************************************************************)
CfgTimeHandled == c.timer => c.state = "reset"

(***************************************************************************)
(* After the reset the process only goes on once the slave has sent a      *)
(* boot-up message.                                                        *)
(***************************************************************************)
CfgBootupAwaited ==
    Contains(c.done, <<"reset">>) /\ c.state \notin {"reset", "none"} => Contains(c.done, <<"bootup">>)

(***************************************************************************)
(* An aborted request is not reported as successful.                       *)
(***************************************************************************)
SuccessIsListed == Successful => d.listed

(***************************************************************************)
(* The process is not used after it has been destroyed when the master     *)
(* ends it.                                                                *)
(***************************************************************************)
CfgNoUseAfterFree == "freed" \notin c.bad
=============================================================================
