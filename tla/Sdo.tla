-------------------------------- MODULE Sdo --------------------------------
(***************************************************************************)
(* An SDO client and an SDO server on a CAN bus that keeps frames in order *)
(* but may lose some of them or deliver one twice.  c_tx and s_tx hold the *)
(* frames that were sent and not yet received.                             *)
(***************************************************************************)
EXTENDS Ssdo, Csdo

CONSTANTS
    MaxRequests,   \* the number of requests of the application
    MaxLoss,       \* the number of frames that may be lost
    Lossy,         \* the command specifiers of the frames that may be lost
    MaxDup,        \* the number of frames that may be delivered twice
    EarlyTimeout   \* may a timer expire while frames are on their way?

VARIABLES lost, duped

vars == <<s_vars, c_vars, lost, duped>>

\* Both services have been started, with valid COB-IDs and a timeout.
Init ==
    /\ SsdoStarted
    /\ CsdoStarted
    /\ lost = 0
    /\ duped = 0

(***************************************************************************)
(* The application and the timers.                                         *)
(***************************************************************************)
Request ==
    /\ Len(accepted) < MaxRequests
    /\ \/ \E r \in Requests : co_csdo_req(r)
       \/ \E entries \in Dcfs : co_csdo_dn_dcf_req(entries)
    /\ UNCHANGED <<s_vars, lost, duped>>

Quiet == c_tx = <<>> /\ s_tx = <<>>

ClientTimeout ==
    /\ EarlyTimeout \/ Quiet
    /\ co_csdo_timer
    /\ UNCHANGED <<s_vars, lost, duped>>

ServerTimeout ==
    /\ EarlyTimeout \/ Quiet
    /\ co_ssdo_timer
    /\ UNCHANGED <<c_vars, lost, duped>>

(***************************************************************************)
(* The bus.  A frame stays where it is when it will be delivered again.    *)
(***************************************************************************)
s_rest == <<s_state, s_valid, s_recv, s_timeout, s_timer, ssdo, od, app>>

c_rest == <<c_state, c_valid, c_recv, c_timeout, c_timer, csdo, con, dcf, accepted, confirmed>>

Take(tx, again) == IF again THEN tx ELSE Tail(tx)

ToServer(again) ==
    /\ c_tx # <<>>
    /\ again => duped < MaxDup
    /\ duped' = IF again THEN duped + 1 ELSE duped
    /\ co_ssdo_recv(Head(c_tx))
    /\ c_tx' = Take(c_tx, again)
    /\ UNCHANGED <<c_rest, lost>>

\* The frames the client sends follow those on their way.
ToClient(again) ==
    /\ s_tx # <<>>
    /\ again => duped < MaxDup
    /\ duped' = IF again THEN duped + 1 ELSE duped
    /\ co_csdo_recv(Head(s_tx))
    /\ s_tx' = Take(s_tx, again)
    /\ UNCHANGED <<s_rest, lost>>

Lose ==
    /\ lost < MaxLoss
    /\ lost' = lost + 1
    /\ \/ /\ c_tx # <<>> /\ Head(c_tx).cs \in Lossy
          /\ c_tx' = Tail(c_tx)
          /\ UNCHANGED s_tx
       \/ /\ s_tx # <<>> /\ Head(s_tx).cs \in Lossy
          /\ s_tx' = Tail(s_tx)
          /\ UNCHANGED c_tx
    /\ UNCHANGED <<s_rest, c_rest, duped>>

\* Nothing is left to do.
Done ==
    /\ Len(accepted) = MaxRequests
    /\ Quiet /\ ~s_timer /\ ~c_timer
    /\ UNCHANGED vars

Next ==
    \/ Request
    \/ ClientTimeout
    \/ ServerTimeout
    \/ \E again \in BOOLEAN : ToServer(again) \/ ToClient(again)
    \/ Lose
    \/ Done

\* A frame does not stay on the bus, and the clock of the network advances: a
\* timer that keeps running expires.  The actions say just that of a step.
Fairness ==
    /\ WF_c_tx(c_tx # <<>> /\ c_tx' = Tail(c_tx))
    /\ WF_s_tx(s_tx # <<>> /\ s_tx' = Tail(s_tx))
    /\ WF_c_timer((EarlyTimeout \/ Quiet) /\ c_timer /\ c_timer' = FALSE)
    /\ WF_s_timer((EarlyTimeout \/ Quiet) /\ s_timer /\ s_timer' = FALSE)

Spec == Init /\ [][Next]_vars /\ Fairness

(***************************************************************************)
(* What is promised.                                                       *)
(***************************************************************************)
\* A download changes an object as a whole and before it is confirmed as a
\* success, an upload returns the value the object has, and every request is
\* confirmed once and in order, whatever the client and the server do when
\* frames are lost or delivered twice.
Service ==
    INSTANCE SdoService WITH
        Demands <- {<<r>> : r \in Requests} \cup Dcfs

ImplementsService == Service!Spec

\* Every request is confirmed: neither the state machine of co_csdo_recv() nor
\* its timer can leave the application waiting.
EveryRequestConfirmed == con # "none" ~> con = "none"

\* The server does not stay in a transfer that its client has given up.
ServerReturns == s_state \in Transfer ~> s_state = "wait"

\* Every transfer succeeds: the two state machines agree on toggle bits, sizes,
\* sequence numbers and the number of bytes in the last segment.
AllSucceed == \A i \in DOMAIN confirmed : confirmed[i].ac = "0"

\* Segments that are lost are sent again, as the comments in
\* co_ssdo_blk_dn_sub_on_recv() and co_csdo_blk_up_sub_on_recv() say.
LossIsRepaired == lost > 0 => AllSucceed

\* An expedited response carries as many bytes as it announces, 1 to 4: the
\* assertions in co_ssdo_send_up_exp_res().
ExpeditedAssert ==
    \A i \in DOMAIN s_tx :
        LET m == s_tx[i]
        IN  Command(m.cs) = CO_SDO_SCS_UP_INI_RES /\ Has(m.cs, CO_SDO_INI_SIZE_EXP)
              => CO_SDO_INI_SIZE_EXP_GET(m.cs) = m.data.n

\* The application knows of a block download that is aborted at its end: the
\* assertion in co_ssdo_blk_dn_end_on_recv().
BlkDnEndAssert ==
    s_state = "blk_dn_end" /\ c_tx # <<>> =>
        (Command(Head(c_tx).cs) = CO_SDO_CS_ABORT => ssdo.dn_ind)
=============================================================================
