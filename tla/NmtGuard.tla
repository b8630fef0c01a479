------------------------------ MODULE NmtGuard ------------------------------
(***************************************************************************)
(* Node guarding by a master and life guarding by its slave                *)
(* (src/lib/co/nmt.c).  Every guard time the master asks the slave for its *)
(* state with a remote frame (RTR); the slave answers with its state and a *)
(* toggle bit.  The two are connected by a bus that loses frames and       *)
(* delivers the others in order and within MaxDelay ticks.                 *)
(*                                                                         *)
(* The slave is in the network list, is not mandatory and has no heartbeat *)
(* consumer.  A timer is the number of ticks left.                         *)
(***************************************************************************)
EXTENDS Integers, Sequences

CONSTANTS
    Gt, Ltf,    \* the guard time and the lifetime factor, on either side
    MaxDelay,   \* how long a frame takes at most
    MaxFaults,  \* bound on the number of lost frames and crashes of the slave
    Crashes,    \* can the slave crash?
    Commands,   \* does the master send commands to the running slave?
    Requests,   \* what the application of the master requests for the running slave
    OnNg,       \* is the default node guarding indication function used?
    Writes,     \* does the application of the slave write its guard time?
    Off

NmtGuardAssumption ==
    /\ Gt \in Nat \ {0} /\ Ltf \in 1..255 /\ MaxFaults \in Nat
    /\ MaxDelay \in Nat /\ 2 * MaxDelay < Gt
    /\ {Crashes, Commands, OnNg, Writes} \subseteq BOOLEAN /\ Requests \subseteq {"ng", "boot", "cfg"}

CO_NMT_ST_BOOTUP == 0
CO_NMT_ST_START == 5
CO_NMT_ST_PREOP == 127

\* The states that the commands lead to; the expected state after a reset is 0.
StateAfter == [START |-> CO_NMT_ST_START, ENTER_PREOP |-> CO_NMT_ST_PREOP, RESET_NODE |-> 0]

(***************************************************************************)
(* m is the struct co_nmt_slave of the master, with the frames it has sent *)
(* (out).  told and again are for the properties: what the application was *)
(* last told for each reason, and whether it was told the same twice.      *)
(* unanswered counts the RTRs since the last answer of the slave reached   *)
(* the master, up to Ltf + 1; sawst is the state last indicated, and same  *)
(* says whether a state was indicated twice.                               *)
(*                                                                         *)
(* s is the slave: its state with the toggle bit, its receiver for RTRs    *)
(* (recv), its timer with the interval at which it is restarted, and the   *)
(* frames it has sent.  polled: has it received an RTR since it started?   *)
(***************************************************************************)
VARIABLES m, s, faults

vars == <<m, s, faults>>

Frame(f) == [what |-> f, age |-> 0]

-----------------------------------------------------------------------------
(* The master.                                                             *)

send(x, what) == [x EXCEPT !.out = Append(@, Frame(what))]

\* co_nmt_cs_req() with no inhibit time: the frame is sent at once.
co_nmt_cs_req(x, cs) == send([x EXCEPT !.est = IF @ = 0 THEN 0 ELSE StateAfter[cs]], cs)

\* The indication; the default function resets the node, whatever the reason.
ng_ind(x, state, reason) ==
    LET y == [x EXCEPT !.told[reason] = state, !.again = @ \/ x.told[reason] = state]
    IN  IF OnNg /\ state = "OCCURRED" THEN co_nmt_cs_req(y, "RESET_NODE") ELSE y

sendRTR(x) == send([x EXCEPT !.unanswered = IF @ > Ltf THEN @ ELSE @ + 1], "RTR")

\* A request ends what was reported before.
co_nmt_ng_req(x, gt, ltf) ==
    IF gt = 0 \/ ltf = 0
    THEN [x EXCEPT !.timer = Off, !.gt = 0, !.ltf = 0, !.rtr = 0, !.told["TIMEOUT"] = "RESOLVED"]
    ELSE [x EXCEPT !.timer = gt, !.gt = gt, !.ltf = ltf, !.rtr = 0, !.told["TIMEOUT"] = "RESOLVED"]

\* Mutant: the timer is only restarted for the next RTR.
co_nmt_ng_timerStop(x) ==
    LET c == IF x.rtr <= x.ltf THEN [x EXCEPT !.rtr = (@ + 1) % 256] ELSE x
    IN  IF ~x.booted THEN [x EXCEPT !.timer = x.gt]
        ELSE IF x.rtr <= x.ltf /\ c.rtr = x.ltf THEN ng_ind([c EXCEPT !.timer = Off], "OCCURRED", "TIMEOUT")
        ELSE sendRTR([c EXCEPT !.timer = x.gt])

\* rtr is an 8-bit counter.  At the expiry that reports the timeout, no RTR is sent.
co_nmt_ng_timer(x) ==
    LET t == [x EXCEPT !.timer = x.gt]
        count == t.rtr <= t.ltf
        c == IF count THEN [t EXCEPT !.rtr = (@ + 1) % 256] ELSE t
    IN  IF ~t.booted THEN t
        ELSE IF count /\ c.rtr = t.ltf THEN ng_ind(c, "OCCURRED", "TIMEOUT")
        ELSE sendRTR(c)

co_nmt_boot_req(x) == IF x.booting THEN x ELSE [x EXCEPT !.booting = TRUE]

\* co_nmt_st_ind() with the default indication function, which boots the slave
\* after a boot-up event.
co_nmt_st_ind(x, st, toggle) ==
    LET y == [x EXCEPT !.rst = st, !.rtoggle = toggle, !.same = @ \/ (st # 0 /\ x.sawst = st), !.sawst = st]
    IN  IF st = CO_NMT_ST_BOOTUP THEN co_nmt_boot_req(y) ELSE y

\* The timeout is resolved, the state is compared with the expected one, and a
\* state change is indicated.
GuardTimeout(x) ==
    [(IF x.rtr >= x.ltf THEN ng_ind(x, "RESOLVED", "TIMEOUT") ELSE x) EXCEPT !.rtr = 0]

GuardState(x, st) ==
    IF x.est # st /\ x.ng_state = "RESOLVED"
    THEN ng_ind([x EXCEPT !.ng_state = "OCCURRED"], "OCCURRED", "STATE")
    ELSE IF x.est = st /\ x.ng_state = "OCCURRED"
    THEN ng_ind([x EXCEPT !.ng_state = "RESOLVED"], "RESOLVED", "STATE")
    ELSE x

\* What follows the check of the toggle bit.  (rst has been flipped when st is
\* compared with it.)
Guard(x, st, toggle) ==
    LET y == GuardState(GuardTimeout([x EXCEPT !.rtoggle = toggle]), st)
    IN  IF st # x.rst THEN co_nmt_st_ind(y, st, toggle) ELSE y

\* Mutant: the toggle bit has to be that of the last answer.
Accepts700Same(x, toggle) == x.gt # 0 /\ x.ltf # 0 /\ toggle = x.rtoggle

Accepts700(x, toggle) == x.gt # 0 /\ x.ltf # 0 /\ toggle # x.rtoggle

\* co_nmt_recv_700() for a frame that is not an RTR.
co_nmt_recv_700(x, f) ==
    IF f.st = CO_NMT_ST_BOOTUP
    THEN co_nmt_st_ind([x EXCEPT !.est = CO_NMT_ST_PREOP, !.unanswered = 0], f.st, FALSE)
    ELSE LET y == [x EXCEPT !.unanswered = 0]
         IN  IF ~x.booting /\ ~x.configuring /\ Accepts700(x, f.toggle)
             THEN Guard(y, f.st, f.toggle) ELSE y

\* The end of the 'boot slave' process: co_nmt_boot_ec_on_enter() sends an RTR if
\* the slave booted, then co_nmt_boot_con() is called.  No state was received.
\* Only a slave that booted is started, and guarded.
co_nmt_boot_con(x, ok) ==
    LET r == IF ok THEN sendRTR(x) ELSE x
        y == [r EXCEPT !.est = IF ok THEN CO_NMT_ST_PREOP ELSE 0,
                       !.rst = 0, !.rtoggle = FALSE, !.booting = FALSE, !.booted = TRUE]
    IN  IF ok THEN co_nmt_ng_req(co_nmt_cs_req(y, "START"), Gt, Ltf) ELSE y

-----------------------------------------------------------------------------
(* The slave.                                                              *)

\* The heartbeat producer time is 0.  The timer for life guarding is periodic.
co_nmt_ec_update(x) ==
    LET lt == x.gt * Ltf IN
    IF lt # 0 THEN [x EXCEPT !.recv = TRUE, !.timer = lt, !.interval = lt]
    ELSE [x EXCEPT !.recv = FALSE, !.timer = Off, !.interval = Off]

co_nmt_ec_init(x) == co_nmt_ec_update([x EXCEPT !.gt = Gt, !.lg_state = "RESOLVED"])

co_nmt_ec_fini(x) == co_nmt_ec_update([x EXCEPT !.gt = 0, !.lg_state = "RESOLVED"])

co_nmt_ec_send_res(x, st, toggle) == [x EXCEPT !.out = Append(@, [st |-> st, toggle |-> toggle, age |-> 0])]

\* co_nmt_reset_node_on_enter() to co_nmt_preop_on_enter(): the toggle bit is
\* cleared, and a boot-up message is sent.
Boot(x) ==
    LET f == [co_nmt_ec_fini(x) EXCEPT !.st = CO_NMT_ST_PREOP, !.toggle = FALSE, !.polled = FALSE]
    IN  co_nmt_ec_send_res(co_nmt_ec_init(f), CO_NMT_ST_BOOTUP, FALSE)

\* co_nmt_recv_000()
co_nmt_recv_000(x, cs) == IF cs = "RESET_NODE" THEN Boot(x) ELSE [x EXCEPT !.st = StateAfter[cs]]

\* co_nmt_recv_700() for an RTR: the timer is restarted for one expiry.
recv_rtr(x) ==
    [co_nmt_ec_send_res(x, x.st, x.toggle)
        EXCEPT !.toggle = ~@, !.timer = x.gt * Ltf, !.interval = Off,
               !.lg_state = "RESOLVED", !.polled = TRUE]

\* co_nmt_ec_timer()
co_nmt_ec_timer(x) == [x EXCEPT !.timer = x.interval, !.lg_state = "OCCURRED"]

-----------------------------------------------------------------------------
(* The steps.                                                              *)

NewSlave == [on |-> TRUE, st |-> CO_NMT_ST_PREOP, toggle |-> FALSE, gt |-> 0, recv |-> FALSE,
             timer |-> Off, interval |-> Off, lg_state |-> "RESOLVED", out |-> <<>>, polled |-> FALSE]

\* The master has just been started, and the slave boots.
Init ==
    /\ m = [booting |-> FALSE, booted |-> FALSE, configuring |-> FALSE, est |-> 0, rst |-> 0,
            rtoggle |-> FALSE, gt |-> 0, ltf |-> 0, rtr |-> 0, ng_state |-> "RESOLVED",
            timer |-> Off, out |-> <<>>, told |-> [r \in {"TIMEOUT", "STATE"} |-> "RESOLVED"],
            again |-> FALSE, same |-> FALSE, sawst |-> 0, unanswered |-> 0]
    /\ s = Boot(NewSlave)
    /\ faults = 0

Quiet == m.out = <<>> /\ s.out = <<>>

NgTimer == m.timer = 0 /\ m' = co_nmt_ng_timer(m) /\ UNCHANGED <<s, faults>>

\* A boot process succeeds if the slave is there.
BootCon == m.booting /\ m' = co_nmt_boot_con(m, s.on) /\ UNCHANGED <<s, faults>>

Command ==
    /\ Commands /\ Quiet /\ m.booted /\ ~m.booting
    /\ \E cs \in {"START", "ENTER_PREOP"} : m' = co_nmt_cs_req(m, cs)
    /\ UNCHANGED <<s, faults>>

NgReq ==
    /\ "ng" \in Requests /\ Quiet /\ m.booted
    /\ \E gt \in {0, Gt} : m' = co_nmt_ng_req(m, gt, Ltf)
    /\ UNCHANGED <<s, faults>>

BootReq == "boot" \in Requests /\ Quiet /\ ~m.booting /\ m' = co_nmt_boot_req(m) /\ UNCHANGED <<s, faults>>

CfgReq == "cfg" \in Requests /\ Quiet /\ ~m.configuring /\ m' = [m EXCEPT !.configuring = TRUE] /\ UNCHANGED <<s, faults>>

CfgCon == m.configuring /\ m' = [m EXCEPT !.configuring = FALSE] /\ UNCHANGED <<s, faults>>

\* A slave that does not listen for RTRs does not answer them.
DeliverToSlave ==
    /\ m.out # <<>> /\ m' = [m EXCEPT !.out = Tail(@)]
    /\ LET f == Head(m.out).what IN
       s' = IF ~s.on \/ (f = "RTR" /\ ~s.recv) THEN s
            ELSE IF f = "RTR" THEN recv_rtr(s) ELSE co_nmt_recv_000(s, f)
    /\ UNCHANGED faults

DeliverToMaster ==
    /\ s.out # <<>> /\ s' = [s EXCEPT !.out = Tail(@)]
    /\ m' = co_nmt_recv_700(m, Head(s.out))
    /\ UNCHANGED faults

LgTimer == s.timer = 0 /\ s' = co_nmt_ec_timer(s) /\ UNCHANGED <<m, faults>>

\* co_100c_dn_ind()
co_100c_dn_ind ==
    /\ Writes /\ s.on
    /\ \E gt \in {0, Gt} \ {s.gt} : s' = co_nmt_ec_update([s EXCEPT !.gt = gt])
    /\ UNCHANGED <<m, faults>>

Fault == faults < MaxFaults /\ faults' = faults + 1
LoseRequest == Fault /\ m.out # <<>> /\ m' = [m EXCEPT !.out = Tail(@)] /\ UNCHANGED s
LoseAnswer == Fault /\ s.out # <<>> /\ s' = [s EXCEPT !.out = Tail(@)] /\ UNCHANGED m
Crash == Crashes /\ Fault /\ s.on /\ s' = [co_nmt_ec_fini(s) EXCEPT !.on = FALSE] /\ UNCHANGED m
Restart == ~s.on /\ s' = Boot([s EXCEPT !.on = TRUE]) /\ UNCHANGED <<m, faults>>

Left(t) == IF t = Off THEN Off ELSE t - 1
Older(q) == [i \in DOMAIN q |-> [q[i] EXCEPT !.age = @ + 1]]

Tick ==
    /\ m.timer # 0 /\ s.timer # 0
    /\ \A q \in {m.out, s.out} : \A i \in DOMAIN q : q[i].age < MaxDelay
    /\ m' = [m EXCEPT !.timer = Left(@), !.out = Older(@)]
    /\ s' = [s EXCEPT !.timer = Left(@), !.out = Older(@)]
    /\ UNCHANGED faults

Next ==
    \/ NgTimer \/ BootCon \/ Command \/ NgReq \/ BootReq \/ CfgReq \/ CfgCon \/ DeliverToMaster
    \/ DeliverToSlave \/ LgTimer \/ co_100c_dn_ind
    \/ LoseRequest \/ LoseAnswer \/ Crash \/ Restart
    \/ Tick

\* Time passes, timers are processed, frames that are not lost arrive, and a
\* boot process ends, as each of its steps has a timeout.
Fairness ==
    /\ WF_vars(Tick) /\ WF_vars(NgTimer) /\ WF_vars(LgTimer)
    /\ WF_vars(DeliverToMaster) /\ WF_vars(DeliverToSlave) /\ WF_vars(BootCon)

Spec == Init /\ [][Next]_vars /\ Fairness

-----------------------------------------------------------------------------
(* Properties.                                                             *)

GuardTypeOK ==
    /\ m.rtr \in 0..255 /\ m.gt \in {0, Gt} /\ m.ltf \in {0, Ltf} /\ m.timer \in (0..Gt) \cup {Off}
    /\ {m.est, m.rst, s.st} \subseteq {CO_NMT_ST_BOOTUP, CO_NMT_ST_START, CO_NMT_ST_PREOP}
    /\ s.timer \in (0..(Gt * Ltf)) \cup {Off} /\ s.gt \in {0, Gt}
    /\ {m.ng_state, s.lg_state} \subseteq {"RESOLVED", "OCCURRED"}

\* A lost frame costs at most two guard times, as the toggle bit of the next
\* answer can be the wrong one: with a lifetime factor that allows for the lost
\* frames, the master reports no timeout (co_nmt_ng_timer(), co_nmt_recv_700()).
LossTolerated == (Ltf >= 2 * faults + 2) => m.told["TIMEOUT"] = "RESOLVED"

\* As long as no frame is lost and the slave does not crash, the master reports
\* no unexpected state: the answer that crosses the 'start' command at the end
\* of the boot process has the wrong toggle bit (co_nmt_recv_700(),
\* co_nmt_boot_con()).
NoFalseState == faults = 0 => m.told["STATE"] = "RESOLVED"

\* A slave that has been polled reports no life guarding error, unless more
\* frames are lost than its lifetime factor allows for (co_nmt_ec_timer()).
NoFalseLifeAlarm == (s.polled /\ Ltf >= faults + 2) => s.lg_state = "RESOLVED"

\* The assertions of co_nmt_recv_700() for an RTR and of co_nmt_ng_timer() hold:
\* whoever listens for RTRs, or has a timer for them, has a guard time.
GuardAssertions == (s.recv => s.gt # 0) /\ (m.timer # Off => m.gt # 0 /\ m.ltf # 0)

\* "Notify the application once of the occurrence of a node guarding timeout"
\* (co_nmt_ng_timer()), and once of its end: no report is repeated.
NotifiedOnce == ~m.again

\* A state change is indicated only when the state has changed
\* (co_nmt_recv_700(): "Notify the application of the occurrence of a state change").
ChangeIsChange == ~m.same

\* A timeout is reported only of a slave that has left an RTR unanswered, as rtr
\* is "the number of unanswered node guarding RTRs" (struct co_nmt_slave).
TimeoutIsUnanswered ==
    [][m'.told["TIMEOUT"] = "OCCURRED" /\ m.told["TIMEOUT"] = "RESOLVED" => m.unanswered > 0]_vars

\* "Do not send node guarding RTRs to slaves that have not finished booting"
\* (co_nmt_ng_timer()).
GuardsOnlyBooted == [][NgTimer => (m'.out = m.out \/ ~m.booting)]_vars

\* A slave that dies while it is guarded is reported, unless it comes back or the
\* guarding is ended by a request.
GuardedDied == m.booted /\ m.timer # Off /\ ~s.on
DeathKnown == m.told["TIMEOUT"] = "OCCURRED" \/ s.on \/ m.booting \/ m.timer = Off
DeathReported == GuardedDied ~> DeathKnown

\* However the toggle bits of the two sides come to differ, a slave that stays
\* alive and is guarded ends up as one that answers.
StaysAlive == s.on /\ ~m.booting
NoTimeout == m.told["TIMEOUT"] = "RESOLVED"
TimeoutResolved == <>[]StaysAlive => <>[]NoTimeout

\* A life guarding error ends if the master goes on guarding the slave.
StaysGuarded == s.on /\ m.booted /\ m.timer # Off
NoLifeError == s.lg_state = "RESOLVED"
LifeResolved == <>[]StaysGuarded => <>[]NoLifeError
=============================================================================
