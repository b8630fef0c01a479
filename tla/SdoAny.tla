------------------------------- MODULE SdoAny -------------------------------
(***************************************************************************)
(* The SDO server and the SDO client, each against any sequence of frames, *)
(* timeouts and administrative calls.  part tells which of them is         *)
(* explored; the other one stays as it was initialised.                    *)
(***************************************************************************)
EXTENDS SsdoEnv, CsdoEnv

VARIABLE part

\* The service that is not explored is initialised in one way.
Fixed(valid, timeout) == ~valid /\ ~timeout

Init ==
    /\ SsdoInit /\ CsdoInit
    /\ \/ part = "server" /\ Fixed(c_valid, c_timeout)
       \/ part = "client" /\ Fixed(s_valid, s_timeout)

Next ==
    \/ part = "server" /\ SsdoNext /\ UNCHANGED <<c_vars, part>>
    \/ part = "client" /\ CsdoNext /\ UNCHANGED <<s_vars, part>>

Spec == Init /\ [][Next]_<<s_vars, c_vars, part>>

-----------------------------------------------------------------------------

\* Whatever came before, a running timer and a frame meet a state that handles them
\* (co_ssdo_emit_time(), co_ssdo_emit_recv() and those of the client); the
\* application waits only for an object it was asked about, and a block download
\* that expects segments has room in its window.
EveryEventHandled ==
    /\ SsdoTypeOK /\ SsdoTimerHasHandler /\ SsdoRecvHasHandler
    /\ OpenIsKnown /\ WindowOpen
    /\ CsdoTypeOK /\ CsdoTimerHasHandler /\ CsdoRecvHasHandler

\* The client reads and writes inside the buffers of its request: an
\* acknowledgement never rewinds a block download past its start
\* (co_csdo_blk_dn_sub_on_recv()), and no upload is longer than was announced.
ClientInBuffers == RewindStaysInside /\ UploadFits
=============================================================================
