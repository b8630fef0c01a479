------------------------------ MODULE SsdoEnv ------------------------------
(***************************************************************************)
(* The SDO server between a bus from which any sequence of frames may      *)
(* arrive, a clock and an application that starts, stops and reconfigures  *)
(* it.  Frames that are sent leave before anything else happens.               *)
(***************************************************************************)
EXTENDS Ssdo

CONSTANT SsdoFrames   \* the frames that may be received

\* A CAN frame holds up to 8 bytes; the objects have names and values.  (That
\* the literals of the model are strings is unknown to the prover's backends.)
ASSUME SsdoEnvAssumption ==
    /\ {"none", "torn", "cobid", "no cobid"} \subseteq STRING
    /\ Objects \subseteq STRING
    /\ InitialOd \in [Objects -> Bytes]
    /\ SsdoFrames \subseteq [cs : 0 .. 255, len : 0 .. 8, obj : STRING, n : Nat, ac : STRING,
                         b : (0 .. 255) \X (0 .. 255), data : Bytes]

SsdoSent ==
    /\ s_tx # <<>>
    /\ s_tx' = <<>>
    /\ UNCHANGED <<s_state, s_valid, s_recv, s_timeout, s_timer, ssdo, od, app>>

SsdoNext ==
    \/ SsdoSent
    \/ /\ s_tx = <<>>
       /\ \/ \E m \in SsdoFrames : co_ssdo_recv(m)
          \/ co_ssdo_timer
          \/ \E valid \in BOOLEAN : co_ssdo_start(valid) \/ co_1200_dn_ind(valid)
          \/ co_ssdo_stop
          \/ \E timeout \in BOOLEAN : co_ssdo_set_timeout(timeout)

SsdoSpec == SsdoInit /\ [][SsdoNext]_s_vars

(***************************************************************************)
(* Invariants.                                                             *)
(***************************************************************************)
Xfer ==
    [obj : STRING, toggle : {0, CO_SDO_SEG_TOGGLE}, blksize : 0 .. 127,
     ackseq : 0 .. 127, crc : Bytes, gencrc : BOOLEAN, dn_ind : BOOLEAN,
     size : Nat, offset : Nat, nbyte : Nat, data : Bytes, membuf : Bytes,
     buf : Bytes, pos : Nat]

SsdoTypeOK ==
    /\ s_state \in Transfer \cup {"stopped", "wait"}
    /\ {s_valid, s_recv, s_timeout, s_timer} \subseteq BOOLEAN
    /\ ssdo \in Xfer
    /\ od \in [Objects -> Bytes]
    /\ app \in {"idle", "open"}

\* The timer only runs during a transfer.  The waiting state has no on_time
\* handler, so a timer that survived the end of a transfer would fail the
\* assertion in co_ssdo_emit_time().
SsdoTimerHasHandler == s_timer => s_timeout /\ s_state \in Transfer

\* Frames are only received while the server runs with valid COB-IDs: the
\* stopped state has no on_recv handler for co_ssdo_emit_recv().
SsdoRecvHasHandler == s_recv <=> s_valid /\ s_state # "stopped"

\* Nothing of a transfer is left when it ends, however it ends, and the
\* application is not left waiting for the rest of a value.
CleanBetweenTransfers == s_state \notin Transfer => ssdo = NoXfer /\ app = "idle"

\* The application only waits for an object it can have been asked about, and
\* the server remembers that it has to be told (dn_ind).
OpenIsKnown ==
    app = "open" =>
        /\ ssdo.dn_ind
        /\ ssdo.obj \in Objects \ ReadOnly

\* No more bytes are accepted than the client announced: the assertion in
\* co_ssdo_blk_dn_sub_on_recv(), and what the length check at the end of a
\* block download and co_sdo_req_last() rest on.
SizeRespected == ssdo.offset + ssdo.nbyte <= ssdo.size

\* The window of a block download: at most blksize segments are acknowledged,
\* and fewer while segments are expected (or no segment could be accepted).
WindowOpen ==
    s_state = "blk_dn_sub" => ssdo.ackseq < ssdo.blksize /\ ssdo.blksize = CO_SSDO_MAX_SEQNO

\* An upload never holds more than a block of bytes, nor bytes that are not the
\* next ones of the value.
UploadWindow ==
    s_state \in {"up_seg", "blk_up_sub", "blk_up_end"} =>
        /\ ssdo.pos <= ssdo.nbyte /\ ssdo.nbyte = ssdo.size
        /\ ssdo.buf.n <= ssdo.pos
        /\ ssdo.buf = Part(ssdo.data, ssdo.pos - ssdo.buf.n, ssdo.buf.n)

\* The server reads and writes inside the buffers of its request, whatever sizes,
\* segments and acknowledgements the client sends: both of the above.
ServerInBuffers == SizeRespected /\ UploadWindow
=============================================================================
