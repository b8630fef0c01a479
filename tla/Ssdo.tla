-------------------------------- MODULE Ssdo --------------------------------
(***************************************************************************)
(* The SDO server of lib/co/ssdo.c, with the download requests of          *)
(* lib/co/sdo.c and the default indication functions of lib/co/obj.c, as   *)
(* far as the server uses them.                                            *)
(***************************************************************************)
EXTENDS SdoFrame

CONSTANTS
    Objects,    \* the sub-objects in the object dictionary
    ReadOnly,   \* those of them that cannot be written
    ParObject,  \* the COB-IDs in the parameter record (1200) of this server
    CO_SSDO_MAX_SEQNO,  \* the number of segments per block, 127 by default
    Refusals,   \* may an indication function refuse a request?
    InitialOd   \* the values at the start

ASSUME SsdoAssumption ==
    /\ ReadOnly \subseteq Objects
    /\ CO_SSDO_MAX_SEQNO \in 1 .. 127
    /\ Refusals \subseteq BOOLEAN
    /\ FALSE \in Refusals

VARIABLES
    s_state,    \* the current state
    s_valid,    \* are both COB-IDs valid?
    s_recv,     \* is the frame receiver registered?
    s_timeout,  \* is the timeout non-zero?
    s_timer,    \* is the timer running?
    ssdo,       \* the ongoing transfer
    od,         \* the values in the object dictionary
    app,        \* "open": a download indication function waits for more data
    s_tx        \* the frames sent, in order

s_vars == <<s_state, s_valid, s_recv, s_timeout, s_timer, ssdo, od, app, s_tx>>

Transfer == {"dn_seg", "up_seg", "blk_dn_sub", "blk_dn_end", "blk_up_sub", "blk_up_end"}

\* The fields of struct co_ssdo and struct co_sdo_req when no transfer is going
\* on.  data is the content of req.buf and membuf that of req.membuf; buf holds
\* the bytes of an upload that are not acknowledged and pos is sdo->nbyte.
NoXfer ==
    [obj |-> "none", toggle |-> 0, blksize |-> 0, ackseq |-> 0, crc |-> NoBytes,
     gencrc |-> FALSE, dn_ind |-> FALSE, size |-> 0, offset |-> 0, nbyte |-> 0,
     data |-> NoBytes, membuf |-> NoBytes, buf |-> NoBytes, pos |-> 0]

SsdoInit ==
    /\ s_state = "stopped"
    /\ s_valid \in BOOLEAN
    /\ s_recv = FALSE
    /\ s_timeout \in BOOLEAN
    /\ s_timer = FALSE
    /\ ssdo = NoXfer
    /\ od = InitialOd
    /\ app = "idle"
    /\ s_tx = <<>>

\* The server once it has been started with valid COB-IDs and a timeout.
SsdoStarted ==
    /\ s_state = "wait"
    /\ s_valid = TRUE /\ s_recv = TRUE
    /\ s_timeout = TRUE /\ s_timer = FALSE
    /\ ssdo = NoXfer
    /\ od = InitialOd
    /\ app = "idle"
    /\ s_tx = <<>>

(***************************************************************************)
(* Download requests.                                                      *)
(***************************************************************************)
co_sdo_req_first(s) == s.offset = 0

co_sdo_req_last(s) == s.offset + s.nbyte >= s.size

\* Mutant: only the last segment is used.
co_sdo_req_dn_bufLast(s) ==
    [ok |-> TRUE, membuf |-> s.membuf, value |-> Part(s.data, 0, s.size)]

\* The buffer after the next segment, which may overlap what is there but not
\* leave a gap, and the value once it is complete.
co_sdo_req_dn_buf(s) ==
    LET kept == IF co_sdo_req_first(s) THEN NoBytes ELSE Part(s.membuf, 0, s.offset)
        membuf == Cat(kept, Part(s.data, 0, s.nbyte))
    IN  IF co_sdo_req_first(s) /\ co_sdo_req_last(s)
        THEN [ok |-> TRUE, membuf |-> s.membuf, value |-> Part(s.data, 0, s.size)]
        ELSE IF ~co_sdo_req_first(s) /\ s.offset > s.membuf.n
        THEN [ok |-> FALSE, membuf |-> s.membuf, value |-> NoBytes]
        ELSE [ok |-> TRUE, membuf |-> membuf, value |-> Part(membuf, 0, s.size)]

\* The state after an indication: the abort code or "0", the transfer, the
\* object dictionary and what became of the parameter record.
Indicated(ac, s, a) ==
    [ac |-> ac, sdo |-> s, app |-> a, od |-> od, valid |-> s_valid,
     recv |-> s_recv, out |-> <<>>]

\* A download of the COB-IDs that is not the value they already have makes
\* co_1200_dn_ind() call co_ssdo_update(), which aborts the very transfer that
\* is being served unless the server is still in the waiting state.
co_1200_updated(r, valid) ==
    [r EXCEPT
        !.valid = valid, !.recv = valid,
        !.sdo = IF s_state \in Transfer THEN NoXfer ELSE @,
        !.out = IF s_state \in Transfer
                THEN <<AbortFrame(r.sdo.obj, "NO_SDO")>> ELSE <<>>]

\* The indication function of the sub-object.  A complete value is stored.
co_sub_dn_ind(s, refuse, par) ==
    LET req == co_sdo_req_dn_buf(s)
        t == [s EXCEPT !.membuf = req.membuf]
        stored == [Indicated("0", t, "idle") EXCEPT !.od[s.obj] = req.value]
    IN  IF s.obj \in ReadOnly THEN Indicated("NO_WRITE", s, app)
        ELSE IF refuse THEN Indicated("PARAM_VAL", s, "idle")
        ELSE IF ~req.ok THEN Indicated("ERROR", s, "idle")
        ELSE IF ~co_sdo_req_last(s) THEN Indicated("0", t, "open")
        ELSE IF s.obj = ParObject /\ par # "same"
             THEN co_1200_updated(stored, par = "valid")
        ELSE stored

co_ssdo_dn_ind(s, refuse, par) ==
    IF s.obj \notin Objects THEN Indicated("NO_OBJ", s, app)
    ELSE co_sub_dn_ind([s EXCEPT !.dn_ind = TRUE], refuse, par)

\* What a download may do to the parameter record.
ParWrite == {"same", "valid", "invalid"}

\* Mutant: the application is not told.
ToldNothing(s, a) == a

\* The download indication with an abort code: the application is told, if it
\* knows of the transfer.
Told(s, a) == IF s.dn_ind THEN "idle" ELSE a

(***************************************************************************)
(* The end of a transfer.                                                  *)
(***************************************************************************)
Send(frames) == s_tx' = s_tx \o frames

\* Mutant: the timer is not started.
StartNoTimer == UNCHANGED s_timer

StartTimer == s_timer' = (s_timer \/ s_timeout)

\* Mutant: the timer is not stopped.
co_ssdo_abort_indTimed ==
    /\ s_state' = "wait"
    /\ UNCHANGED s_timer
    /\ ssdo' = NoXfer

co_ssdo_abort_ind ==
    /\ s_state' = "wait"
    /\ s_timer' = (s_timer /\ ~s_timeout)
    /\ ssdo' = NoXfer

co_ssdo_abort_res(obj, ac) ==
    /\ Send(<<AbortFrame(obj, ac)>>)
    /\ co_ssdo_abort_ind

Same == UNCHANGED <<s_valid, s_recv, s_timeout, od>>

\* An error in a download: the application is told and so is the client.
co_ssdo_abort_dn_res(ac) ==
    /\ app' = Told(ssdo, app)
    /\ co_ssdo_abort_res(ssdo.obj, ac)
    /\ Same

\* An error in an upload.  The default indication function has provided the
\* whole value at once and need not be told.
co_ssdo_abort_up_res(ac) ==
    /\ co_ssdo_abort_res(ssdo.obj, ac)
    /\ UNCHANGED app
    /\ Same

\* The result of an indication that succeeded.
Apply(r) ==
    /\ od' = r.od
    /\ app' = r.app
    /\ s_valid' = r.valid
    /\ s_recv' = r.recv
    /\ UNCHANGED s_timeout

\* The result of an indication that failed.
Refuse(r) ==
    /\ co_ssdo_abort_res(r.sdo.obj, r.ac)
    /\ Apply(r)

\* The client aborts a download.
AbortedDn ==
    /\ app' = Told(ssdo, app)
    /\ co_ssdo_abort_ind
    /\ UNCHANGED s_tx
    /\ Same

(***************************************************************************)
(* Requests in the waiting state.                                          *)
(***************************************************************************)
\* A request frame that is too short to name an object.
TooShort(m) ==
    /\ m.len < 4
    /\ co_ssdo_abort_res("none", IF m.len < 3 THEN "NO_OBJ" ELSE "NO_SUB")
    /\ UNCHANGED app
    /\ Same

\* An expedited download.
dn_ini_exp(m) ==
    /\ Has(m.cs, CO_SDO_INI_SIZE_EXP)
    /\ \E refuse \in Refusals, par \in ParWrite :
         LET n == IF Has(m.cs, CO_SDO_INI_SIZE_IND)
                  THEN CO_SDO_INI_SIZE_EXP_GET(m.cs) ELSE m.len - 4
             req == [NoXfer EXCEPT !.obj = m.obj, !.size = n, !.nbyte = n,
                                   !.data = Part(m.data, 0, n)]
             r == co_ssdo_dn_ind(req, refuse, par)
         IN  \/ /\ r.ac # "0"
                /\ Refuse(r)
             \/ /\ r.ac = "0"
                /\ Apply(r)
                /\ Send(<<Frame(CO_SDO_SCS_DN_INI_RES, m.obj)>>)
                /\ co_ssdo_abort_ind

dn_ini_seg(m) ==
    /\ ~Has(m.cs, CO_SDO_INI_SIZE_EXP)
    /\ ssdo' = [NoXfer EXCEPT
                  !.obj = m.obj,
                  !.size = IF Has(m.cs, CO_SDO_INI_SIZE_IND) THEN m.n ELSE 0]
    /\ Send(<<Frame(CO_SDO_SCS_DN_INI_RES, m.obj)>>)
    /\ StartTimer
    /\ s_state' = "dn_seg"
    /\ UNCHANGED app
    /\ Same

co_ssdo_dn_ini_on_recv(m) ==
    /\ Command(m.cs) = CO_SDO_CCS_DN_INI_REQ
    /\ TooShort(m) \/ (m.len >= 4 /\ (dn_ini_exp(m) \/ dn_ini_seg(m)))

\* The upload indication: the abort code or "0".
co_ssdo_up_ind(obj, refuse) ==
    IF obj \notin Objects THEN "NO_OBJ" ELSE IF refuse THEN "NO_READ" ELSE "0"

\* The request after the upload indication: it holds the whole value.
Uploaded(m) ==
    LET value == od[m.obj]
    IN  [NoXfer EXCEPT !.obj = m.obj, !.size = value.n, !.nbyte = value.n, !.data = value]

\* The next n bytes of the value are moved to the buffer.
co_ssdo_up_buf(s, n) ==
    LET k == MinOf(n, s.nbyte - s.pos)
        src == Part(s.data, s.pos, k)
    IN  [s EXCEPT !.buf = Cat(@, src), !.pos = @ + k,
                  !.crc = IF s.gencrc THEN Cat(@, src) ELSE @]

\* The command specifier of an expedited response for n bytes.  The code
\* asserts that n is not 0; without assertions 0 bytes are sent as 4.
co_ssdo_send_up_exp_res(s) ==
    [Frame(CO_SDO_SCS_UP_INI_RES + CO_SDO_INI_SIZE_EXP_SET(s.buf.n), s.obj)
        EXCEPT !.data = s.buf]

co_ssdo_send_up_ini_res(s) ==
    [Frame(CO_SDO_SCS_UP_INI_RES + CO_SDO_INI_SIZE_IND, s.obj) EXCEPT !.n = s.size]

up_exp(s) ==
    /\ Send(<<co_ssdo_send_up_exp_res(co_ssdo_up_buf(s, s.size))>>)
    /\ co_ssdo_abort_ind

up_seg(s) ==
    /\ Send(<<co_ssdo_send_up_ini_res(s)>>)
    /\ StartTimer
    /\ s_state' = "up_seg"
    /\ ssdo' = s

co_ssdo_up_ini_on_recv(m) ==
    /\ Command(m.cs) = CO_SDO_CCS_UP_INI_REQ
    /\ \/ TooShort(m)
       \/ /\ m.len >= 4
          /\ \E refuse \in Refusals :
               LET ac == co_ssdo_up_ind(m.obj, refuse)
               IN  \/ ac # "0" /\ co_ssdo_abort_res(m.obj, ac)
                   \/ ac = "0" /\ od[m.obj].n \in 1 .. 4 /\ up_exp(Uploaded(m))
                   \/ ac = "0" /\ od[m.obj].n \notin 1 .. 4 /\ up_seg(Uploaded(m))
          /\ UNCHANGED app
          /\ Same

co_ssdo_blk_dn_ini_on_recv(m) ==
    /\ Command(m.cs) = CO_SDO_CCS_BLK_DN_REQ
    /\ \/ /\ m.cs % 2 # CO_SDO_SC_INI_BLK
          /\ co_ssdo_abort_res("none", "NO_CS")
          /\ UNCHANGED app
          /\ Same
       \/ m.cs % 2 = CO_SDO_SC_INI_BLK /\ TooShort(m)
       \/ /\ m.cs % 2 = CO_SDO_SC_INI_BLK
          /\ m.len >= 4
          /\ ssdo' = [NoXfer EXCEPT
                        !.obj = m.obj,
                        !.gencrc = Has(m.cs, CO_SDO_BLK_CRC),
                        !.size = IF Has(m.cs, CO_SDO_BLK_SIZE_IND) THEN m.n ELSE 0,
                        !.blksize = CO_SSDO_MAX_SEQNO]
          /\ Send(<<[Frame(CO_SDO_SCS_BLK_DN_RES + CO_SDO_BLK_CRC, m.obj)
                        EXCEPT !.b = <<CO_SSDO_MAX_SEQNO, 0>>]>>)
          /\ StartTimer
          /\ s_state' = "blk_dn_sub"
          /\ UNCHANGED app
          /\ Same

ValidBlkSize(n) == n \in 1 .. CO_SSDO_MAX_SEQNO

\* A block upload, unless the value is so small that the client prefers the
\* other upload protocol.
blk_up_ini(m) ==
    LET s == [Uploaded(m) EXCEPT !.gencrc = Has(m.cs, CO_SDO_BLK_CRC), !.blksize = m.b[1]]
        pst == IF m.len > 5 THEN m.b[2] ELSE 0
        switch == pst > 0 /\ s.size <= pst
    IN  \/ switch /\ s.size <= 4 /\ up_exp(s)
        \/ switch /\ s.size > 4 /\ up_seg(s)
        \/ /\ ~switch
           /\ Send(<<[Frame(CO_SDO_SCS_BLK_UP_RES + CO_SDO_BLK_CRC + CO_SDO_BLK_SIZE_IND, m.obj)
                        EXCEPT !.n = s.size]>>)
           /\ StartTimer
           /\ s_state' = "blk_up_sub"
           /\ ssdo' = s

co_ssdo_blk_up_ini_on_recv(m) ==
    /\ Command(m.cs) = CO_SDO_CCS_BLK_UP_REQ
    /\ \/ Subcommand(m.cs) # CO_SDO_SC_INI_BLK /\ co_ssdo_abort_res("none", "NO_CS")
       \/ /\ Subcommand(m.cs) = CO_SDO_SC_INI_BLK
          /\ \/ /\ m.len < 4
                /\ co_ssdo_abort_res("none", IF m.len < 3 THEN "NO_OBJ" ELSE "NO_SUB")
             \/ /\ m.len >= 4
                /\ m.len < 5 \/ ~ValidBlkSize(m.b[1])
                /\ co_ssdo_abort_res(m.obj, "BLK_SIZE")
             \/ /\ m.len >= 5 /\ ValidBlkSize(m.b[1])
                /\ \E refuse \in Refusals :
                     LET ac == co_ssdo_up_ind(m.obj, refuse)
                     IN  \/ ac # "0" /\ co_ssdo_abort_res(m.obj, ac)
                         \/ ac = "0" /\ blk_up_ini(m)
    /\ UNCHANGED app
    /\ Same

Initiate ==
    {CO_SDO_CCS_DN_INI_REQ, CO_SDO_CCS_UP_INI_REQ, CO_SDO_CCS_BLK_DN_REQ, CO_SDO_CCS_BLK_UP_REQ}

co_ssdo_wait_on_recv(m) ==
    /\ s_state = "wait"
    /\ \/ /\ m.len < 1 \/ Command(m.cs) \notin Initiate \cup {CO_SDO_CS_ABORT}
          /\ co_ssdo_abort_res("none", "NO_CS")
          /\ UNCHANGED app
          /\ Same
       \/ /\ m.len >= 1
          /\ Command(m.cs) = CO_SDO_CS_ABORT
          /\ UNCHANGED s_vars
       \/ /\ m.len >= 1
          /\ \/ co_ssdo_dn_ini_on_recv(m)
             \/ co_ssdo_up_ini_on_recv(m)
             \/ co_ssdo_blk_dn_ini_on_recv(m)
             \/ co_ssdo_blk_up_ini_on_recv(m)

(***************************************************************************)
(* Segmented transfers.                                                    *)
(***************************************************************************)
\* Mutant: the bytes of the previous segment are not counted.
TooLongOffset(s, n) == s.offset + n > s.size

\* Does a segment of n bytes exceed the announced size?
TooLong(s, n) == s.offset + s.nbyte + n > s.size

\* Does the segment have the expected toggle bit?
Toggled(m) == Has(m.cs, CO_SDO_SEG_TOGGLE) = (ssdo.toggle # 0)

\* A segment with the expected toggle bit.
dn_seg_accept(m) ==
    LET n == CO_SDO_SEG_SIZE_GET(m.cs)
        last == Has(m.cs, CO_SDO_SEG_LAST)
        s == [ssdo EXCEPT !.data = Part(m.data, 0, n), !.offset = @ + ssdo.nbyte, !.nbyte = n]
    IN  \/ /\ m.len < 1 + n
           /\ co_ssdo_abort_dn_res("NO_CS")
        \/ /\ m.len >= 1 + n
           /\ TooLong(ssdo, n)
           /\ co_ssdo_abort_dn_res("TYPE_LEN_HI")
        \/ /\ m.len >= 1 + n
           /\ ~TooLong(ssdo, n)
           /\ last /\ ~co_sdo_req_last(s)
           /\ co_ssdo_abort_dn_res("TYPE_LEN_LO")
        \/ /\ m.len >= 1 + n
           /\ ~TooLong(ssdo, n)
           /\ last => co_sdo_req_last(s)
           /\ \E refuse \in Refusals, par \in ParWrite :
                LET r == co_ssdo_dn_ind(s, refuse, par)
                IN  \/ /\ r.ac # "0"
                       /\ Refuse(r)
                    \/ /\ r.ac = "0"
                       /\ Apply(r)
                       /\ Send(Append(r.out, SegFrame(CO_SDO_SCS_DN_SEG_RES + r.sdo.toggle)))
                       /\ IF last THEN co_ssdo_abort_ind
                          ELSE /\ s_state' = "dn_seg"
                               /\ StartTimer
                               /\ ssdo' = [r.sdo EXCEPT !.toggle = Flip(@)]

co_ssdo_dn_seg_on_recv(m) ==
    /\ s_state = "dn_seg"
    /\ \/ /\ m.len < 1 \/ Command(m.cs) \notin {CO_SDO_CCS_DN_SEG_REQ, CO_SDO_CS_ABORT}
          /\ co_ssdo_abort_dn_res("NO_CS")
       \/ /\ m.len >= 1
          /\ Command(m.cs) = CO_SDO_CS_ABORT
          /\ AbortedDn
       \/ /\ m.len >= 1
          /\ Command(m.cs) = CO_SDO_CCS_DN_SEG_REQ
          /\ IF Toggled(m) THEN dn_seg_accept(m) ELSE UNCHANGED s_vars

co_ssdo_send_up_seg_res(s, last) ==
    [SegFrame(CO_SDO_SCS_UP_SEG_RES + s.toggle + CO_SDO_SEG_SIZE_SET(s.buf.n)
                + (IF last THEN CO_SDO_SEG_LAST ELSE 0))
        EXCEPT !.data = s.buf]

up_seg_next ==
    LET s == co_ssdo_up_buf([ssdo EXCEPT !.buf = NoBytes], 7)
        last == co_sdo_req_last(s) /\ s.pos = s.nbyte
    IN  /\ Send(<<co_ssdo_send_up_seg_res(s, last)>>)
        /\ IF last THEN co_ssdo_abort_ind
           ELSE /\ s_state' = "up_seg"
                /\ StartTimer
                /\ ssdo' = [s EXCEPT !.toggle = Flip(@)]
        /\ UNCHANGED app
        /\ Same

\* The client aborts an upload.
AbortedUp ==
    /\ co_ssdo_abort_ind
    /\ UNCHANGED <<app, s_tx>>
    /\ Same

co_ssdo_up_seg_on_recv(m) ==
    /\ s_state = "up_seg"
    /\ \/ /\ m.len < 1 \/ Command(m.cs) \notin {CO_SDO_CCS_UP_SEG_REQ, CO_SDO_CS_ABORT}
          /\ co_ssdo_abort_up_res("NO_CS")
       \/ /\ m.len >= 1
          /\ Command(m.cs) = CO_SDO_CS_ABORT
          /\ AbortedUp
       \/ /\ m.len >= 1
          /\ Command(m.cs) = CO_SDO_CCS_UP_SEG_REQ
          /\ IF Toggled(m) THEN up_seg_next ELSE co_ssdo_abort_up_res("TOGGLE")

(***************************************************************************)
(* Block downloads.  Every segment is acknowledged before the application  *)
(* gets it: the indication is always for the previous segment.             *)
(***************************************************************************)
co_ssdo_send_blk_dn_sub_res(s) ==
    [SegFrame(CO_SDO_SCS_BLK_DN_RES + CO_SDO_SC_BLK_RES) EXCEPT !.b = <<s.ackseq, s.blksize>>]

\* The confirmation at the end of a block, and the wait for the next segment or
\* for the end of the transfer.
blk_dn_sub_done(s, seqno, last, out) ==
    LET confirm == seqno = s.blksize \/ last
    IN  /\ Send(IF confirm THEN Append(out, co_ssdo_send_blk_dn_sub_res(s)) ELSE out)
        /\ ssdo' = IF confirm THEN [s EXCEPT !.ackseq = 0] ELSE s
        /\ StartTimer
        /\ s_state' = IF last THEN "blk_dn_end" ELSE "blk_dn_sub"

\* The transfer when the next segment of the block has arrived.
blk_dn_sub_ack ==
    [ssdo EXCEPT
        !.ackseq = @ + 1,
        !.crc = IF ssdo.gencrc THEN Cat(@, Part(ssdo.data, 0, ssdo.nbyte)) ELSE @]

\* The segment is kept once the previous one has been indicated, with result r.
\* Reserving 0 bytes in the buffer fails when it has never been used.
blk_dn_sub_keep(r, m, seqno, last) ==
    LET n == MinOf(r.sdo.size - r.sdo.offset - r.sdo.nbyte, 7)
    IN  \/ /\ ~last /\ n < 7
           /\ Apply([r EXCEPT !.app = Told(r.sdo, @)])
           /\ Send(Append(r.out, AbortFrame(r.sdo.obj, "TYPE_LEN_HI")))
           /\ co_ssdo_abort_ind
        \/ /\ last /\ n = 0
           /\ Apply([r EXCEPT !.app = Told(r.sdo, @)])
           /\ Send(Append(r.out, AbortFrame(r.sdo.obj, "NO_MEM")))
           /\ co_ssdo_abort_ind
        \/ /\ last \/ n = 7
           /\ Apply(r)
           /\ blk_dn_sub_done(
                [r.sdo EXCEPT !.data = Part(m.data, 0, n),
                              !.offset = @ + r.sdo.nbyte, !.nbyte = n],
                seqno, last, r.out)

\* The next segment of the block: the previous one goes to the application.
blk_dn_sub_next(m, seqno, last) ==
    \E refuse \in Refusals, par \in ParWrite :
        LET r == co_ssdo_dn_ind(blk_dn_sub_ack, refuse, par)
        IN  \/ r.ac # "0" /\ Refuse(r)
            \/ r.ac = "0" /\ blk_dn_sub_keep(r, m, seqno, last)

\* A segment that is not the next one.
blk_dn_sub_skip(seqno, last) ==
    /\ blk_dn_sub_done(ssdo, seqno, last, <<>>)
    /\ UNCHANGED app
    /\ Same

co_ssdo_blk_dn_sub_on_recv(m) ==
    LET seqno == m.cs % CO_SDO_SEQ_LAST
        last == m.cs >= CO_SDO_SEQ_LAST
    IN  /\ s_state = "blk_dn_sub"
        /\ \/ m.len < 1 /\ co_ssdo_abort_dn_res("NO_CS")
           \/ /\ m.len >= 1
              /\ m.cs = CO_SDO_CS_ABORT
              /\ AbortedDn
           \/ /\ m.len >= 1
              /\ m.cs # CO_SDO_CS_ABORT
              /\ seqno = 0 \/ seqno > ssdo.blksize
              /\ co_ssdo_abort_dn_res("BLK_SEQ")
           \/ /\ m.len >= 1
              /\ seqno \in 1 .. ssdo.blksize
              /\ IF seqno = ssdo.ackseq + 1
                 THEN blk_dn_sub_next(m, seqno, last)
                 ELSE blk_dn_sub_skip(seqno, last)

\* The errors in the last frame of a block download, in the order in which they
\* are looked for, or "0".
blk_dn_end_error(m) ==
    IF Subcommand(m.cs) # CO_SDO_SC_END_BLK THEN "NO_CS"
    ELSE IF ssdo.size # ssdo.offset + ssdo.nbyte THEN "TYPE_LEN_LO"
    ELSE IF CO_SDO_BLK_SIZE_GET(m.cs) # LastSize(ssdo.size) THEN "NO_CS"
    ELSE IF ssdo.gencrc /\ m.data # Cat(ssdo.crc, Part(ssdo.data, 0, ssdo.nbyte)) THEN "BLK_CRC"
    ELSE "0"

blk_dn_end_store ==
    \E refuse \in Refusals, par \in ParWrite :
        LET r == co_ssdo_dn_ind(ssdo, refuse, par)
        IN  \/ /\ r.ac # "0"
               /\ Refuse(r)
            \/ /\ r.ac = "0"
               /\ Apply(r)
               /\ Send(Append(r.out, SegFrame(CO_SDO_SCS_BLK_DN_RES + CO_SDO_SC_END_BLK)))
               /\ co_ssdo_abort_ind

co_ssdo_blk_dn_end_on_recv(m) ==
    /\ s_state = "blk_dn_end"
    /\ \/ /\ m.len < 1 \/ Command(m.cs) \notin {CO_SDO_CCS_BLK_DN_REQ, CO_SDO_CS_ABORT}
          /\ co_ssdo_abort_dn_res("NO_CS")
       \/ /\ m.len >= 1
          /\ Command(m.cs) = CO_SDO_CS_ABORT
          /\ AbortedDn
       \/ /\ m.len >= 1
          /\ Command(m.cs) = CO_SDO_CCS_BLK_DN_REQ
          /\ \/ blk_dn_end_error(m) # "0" /\ co_ssdo_abort_dn_res(blk_dn_end_error(m))
             \/ blk_dn_end_error(m) = "0" /\ blk_dn_end_store

(***************************************************************************)
(* Block uploads.                                                          *)
(***************************************************************************)
\* Nothing has been sent yet.
NotStarted(s) == co_sdo_req_first(s) /\ s.pos = 0

\* The acknowledged segments are removed from the buffer.
Flushed(s, ackseq) ==
    LET k == MinOf(7 * ackseq, s.buf.n)
    IN  [s EXCEPT !.buf = Part(@, k, s.buf.n - k)]

\* The buffer is filled up to the size of the block.
Filled(s) ==
    IF 7 * s.blksize > s.buf.n
    THEN LET t == co_ssdo_up_buf(s, 7 * s.blksize - s.buf.n)
         IN  [t EXCEPT !.blksize = (t.buf.n + 6) \div 7]
    ELSE s

\* The segments of a block or, when nothing is left, the end of the transfer.
blk_up_sub_send(s) ==
    LET complete == co_sdo_req_last(s) /\ s.pos = s.nbyte
        end == CO_SDO_SCS_BLK_UP_RES + CO_SDO_SC_END_BLK + CO_SDO_BLK_SIZE_SET(LastSize(s.size))
    IN  /\ StartTimer
        /\ ssdo' = s
        /\ IF s.blksize > 0
           THEN /\ Send([k \in 1 .. s.blksize |-> BlkSegment(s.buf, k, complete)])
                /\ s_state' = "blk_up_sub"
           ELSE /\ Send(<<[SegFrame(end) EXCEPT !.data = s.crc]>>)
                /\ s_state' = "blk_up_end"
        /\ UNCHANGED app
        /\ Same

co_ssdo_blk_up_sub_on_recv(m) ==
    LET up == m.len >= 1 /\ Command(m.cs) = CO_SDO_CCS_BLK_UP_REQ
        ack == up /\ Subcommand(m.cs) = CO_SDO_SC_BLK_RES
        start == up /\ Subcommand(m.cs) = CO_SDO_SC_START_UP
        flushed == [Flushed(ssdo, m.b[1]) EXCEPT !.blksize = m.b[2]]
    IN  /\ s_state = "blk_up_sub"
        /\ \/ /\ m.len >= 1
              /\ Command(m.cs) = CO_SDO_CS_ABORT
              /\ AbortedUp
           \/ /\ ~(m.len >= 1 /\ Command(m.cs) = CO_SDO_CS_ABORT)
              /\ ack => NotStarted(ssdo)
              /\ start => ~NotStarted(ssdo)
              /\ co_ssdo_abort_up_res("NO_CS")
           \/ /\ ack /\ ~NotStarted(ssdo)
              /\ m.len < 3
              /\ co_ssdo_abort_up_res("BLK_SEQ")
           \/ /\ ack /\ ~NotStarted(ssdo)
              /\ m.len >= 3
              /\ IF ValidBlkSize(m.b[2]) THEN blk_up_sub_send(Filled(flushed))
                 ELSE co_ssdo_abort_up_res("BLK_SIZE")
           \/ /\ start /\ NotStarted(ssdo)
              /\ blk_up_sub_send(Filled(ssdo))

co_ssdo_blk_up_end_on_recv(m) ==
    LET up == m.len >= 1 /\ Command(m.cs) = CO_SDO_CCS_BLK_UP_REQ
        abort == m.len >= 1 /\ Command(m.cs) = CO_SDO_CS_ABORT
    IN  /\ s_state = "blk_up_end"
        /\ \/ /\ abort \/ (up /\ Subcommand(m.cs) = CO_SDO_SC_END_BLK)
              /\ AbortedUp
           \/ /\ ~abort
              /\ up => Subcommand(m.cs) # CO_SDO_SC_END_BLK
              /\ co_ssdo_abort_up_res("NO_CS")

(***************************************************************************)
(* The service.                                                            *)
(***************************************************************************)
co_ssdo_recv(m) ==
    /\ s_recv
    /\ \/ co_ssdo_wait_on_recv(m)
       \/ co_ssdo_dn_seg_on_recv(m)
       \/ co_ssdo_up_seg_on_recv(m)
       \/ co_ssdo_blk_dn_sub_on_recv(m)
       \/ co_ssdo_blk_dn_end_on_recv(m)
       \/ co_ssdo_blk_up_sub_on_recv(m)
       \/ co_ssdo_blk_up_end_on_recv(m)

\* The timer has been removed from the network when its callback is called.
co_ssdo_timer ==
    /\ s_timer
    /\ s_state \in Transfer
    /\ app' = Told(ssdo, app)
    /\ Send(<<AbortFrame(ssdo.obj, "TIMEOUT")>>)
    /\ s_state' = "wait"
    /\ s_timer' = FALSE
    /\ ssdo' = NoXfer
    /\ Same

\* Any ongoing transfer is aborted.
co_ssdo_emit_abort ==
    /\ ssdo' = NoXfer
    /\ IF s_state \in Transfer
       THEN /\ app' = Told(ssdo, app)
            /\ Send(<<AbortFrame(ssdo.obj, "NO_SDO")>>)
       ELSE UNCHANGED <<app, s_tx>>

co_ssdo_start(valid) ==
    /\ s_state = "stopped"
    /\ s_state' = "wait"
    /\ s_valid' = valid
    /\ s_recv' = valid
    /\ UNCHANGED <<s_timeout, s_timer, ssdo, od, app, s_tx>>

co_ssdo_stop ==
    /\ s_state # "stopped"
    /\ co_ssdo_emit_abort
    /\ s_state' = "stopped"
    /\ s_timer' = FALSE
    /\ s_recv' = FALSE
    /\ UNCHANGED <<s_valid, s_timeout, od>>

co_ssdo_set_timeout(timeout) ==
    /\ s_timer' = (s_timer /\ (timeout \/ ~s_timeout))
    /\ s_timeout' = timeout
    /\ UNCHANGED <<s_state, s_valid, s_recv, ssdo, od, app, s_tx>>

\* The COB-IDs are changed by somebody else than a client of this server, to a
\* value that is valid or not.
LocalPar(valid) == Whole(IF valid THEN "cobid" ELSE "no cobid", 4)

co_1200_dn_ind(valid) ==
    /\ s_state # "stopped"
    /\ co_ssdo_emit_abort
    /\ s_state' = "wait"
    /\ s_timer' = (s_timer /\ ~(s_timeout /\ s_state \in Transfer))
    /\ s_valid' = valid
    /\ s_recv' = valid
    /\ od' = [o \in Objects |-> IF o = ParObject THEN LocalPar(valid) ELSE od[o]]
    /\ UNCHANGED s_timeout
=============================================================================
