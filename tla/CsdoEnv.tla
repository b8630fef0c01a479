------------------------------ MODULE CsdoEnv ------------------------------
(***************************************************************************)
(* The SDO client between a bus from which any sequence of frames may      *)
(* arrive, a clock and an application that submits and aborts requests and *)
(* starts, stops and reconfigures the service.  Frames that are sent leave *)
(* before anything else happens.                                           *)
(***************************************************************************)
EXTENDS Csdo

CONSTANTS
    CsdoFrames,    \* the frames that may be received
    MaxRequests    \* the number of requests of the application

ASSUME CsdoEnvAssumption ==
    /\ Operations \cup {"none", "torn"} \subseteq STRING
    /\ CsdoFrames \subseteq [cs : 0 .. 255, len : 0 .. 8, obj : STRING, n : Nat, ac : STRING,
                             b : (0 .. 255) \X (0 .. 255), data : Bytes]

CsdoSent ==
    /\ c_tx # <<>>
    /\ c_tx' = <<>>
    /\ UNCHANGED <<c_state, c_valid, c_recv, c_timeout, c_timer, csdo, con, dcf,
                   accepted, confirmed>>

Submit ==
    /\ Len(accepted) < MaxRequests
    /\ \/ \E r \in Requests : co_csdo_req(r)
       \/ \E entries \in Dcfs : co_csdo_dn_dcf_req(entries)

\* A request that is submitted while another is withdrawn counts as well.
MayWithdraw == Resubmitted = {} \/ Len(accepted) < MaxRequests

Administer ==
    \/ \E valid \in BOOLEAN : co_csdo_start(valid)
    \/ \E valid \in BOOLEAN : MayWithdraw /\ co_1280_dn_ind(valid)
    \/ MayWithdraw /\ co_csdo_stop
    \/ \E timeout \in BOOLEAN : co_csdo_set_timeout(timeout)

CsdoNext ==
    \/ CsdoSent
    \/ /\ c_tx = <<>>
       /\ \/ Submit
          \/ co_csdo_abort_req("ERROR")
          \/ \E m \in CsdoFrames : co_csdo_recv(m)
          \/ co_csdo_timer
          \/ Administer

CsdoSpec == CsdoInit /\ [][CsdoNext]_c_vars

(***************************************************************************)
(* Invariants.                                                             *)
(***************************************************************************)
CsdoXfer ==
    [op : STRING, obj : STRING, value : Bytes, size : Nat, cur : Nat, up : Bytes,
     toggle : {0, CO_SDO_SEG_TOGGLE}, ackseq : 0 .. 127, crc : BOOLEAN, blksize : 0 .. 127]

CsdoTypeOK ==
    /\ c_state \in Busy \cup {"stopped", "wait"}
    /\ {c_valid, c_recv, c_timeout, c_timer} \subseteq BOOLEAN
    /\ csdo \in CsdoXfer
    /\ con \in {"user", "dcf", "none"}

\* The timer only runs during a transfer: the waiting and the stopped state have
\* no on_time handler for co_csdo_emit_time().
CsdoTimerHasHandler == c_timer => c_state \in Busy

\* Frames are only received while the client runs with valid COB-IDs: the
\* stopped state has no on_recv handler for co_csdo_emit_recv().
CsdoRecvHasHandler == c_recv <=> c_valid /\ c_state # "stopped"

\* Every accepted request is confirmed exactly once, when its transfer ends: at
\* any time all requests but the one that is going on have been confirmed, also
\* when the transfer is aborted by the application, by a timeout, by a frame, by
\* a change of the COB-IDs or by co_csdo_stop().
ConfirmedOnce ==
    Len(accepted) = Len(confirmed) + (IF c_state \in Busy THEN 1 ELSE 0)

\* No request is confirmed twice, also when the confirmation function of one
\* that is withdrawn submits another.
NeverConfirmedTwice ==
    Len(accepted) >= Len(confirmed) + (IF con = "none" THEN 0 ELSE 1)

\* The indication of the next entry of a concise DCF needs valid COB-IDs: the
\* assertion in co_csdo_dn_dcf_dn_con(), which is called whenever a download of
\* a chain ends.
ChainIsValid == [][con = "dcf" /\ con' = "none" => c_valid']_c_vars

\* The assertion in co_csdo_blk_dn_sub_on_recv(): what was sent is at least the
\* last block, so that going back to the first segment that was not received
\* stays within the value.
RewindStaysInside ==
    c_state = "blk_dn_sub" =>
        /\ csdo.cur <= csdo.size
        /\ (csdo.cur + 6) \div 7 >= csdo.blksize

\* The upload buffer never holds more than the server announced: the assertions
\* in co_csdo_up_seg_on_recv() and co_csdo_blk_up_sub_on_recv().
UploadFits ==
    c_state \in {"up_seg", "blk_up_sub", "blk_up_end"} => csdo.up.n <= csdo.size
=============================================================================
