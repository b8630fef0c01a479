-------------------------------- MODULE Csdo --------------------------------
(***************************************************************************)
(* The SDO client of lib/co/csdo.c: one request at a time, and chains of   *)
(* download requests read from a concise DCF.                              *)
(***************************************************************************)
EXTENDS SdoFrame

CONSTANTS
    Requests,          \* the transfers the application may ask for
    Resubmitted,       \* those it may ask for when another is withdrawn
    Dcfs,              \* the concise DCFs, sequences of downloads
    CO_SDO_MAX_SEQNO   \* the maximum number of segments per block, 127

Operations == {"dn", "up", "blk_dn", "blk_up"}

\* An entry of a concise DCF that cannot be read.
Malformed == [op |-> "malformed", obj |-> "none", value |-> NoBytes, pst |-> 0]

\* A request for one of the operations ops.
IsRequest(r, ops) == r.op \in ops /\ r.obj \in STRING /\ r.value \in Bytes

\* A sequence of entries, each of which is a download or cannot be read.
IsDcf(entries) ==
    /\ entries \in Seq({entries[i] : i \in DOMAIN entries})
    /\ \A i \in DOMAIN entries : entries[i] = Malformed \/ IsRequest(entries[i], {"dn"})

ASSUME CsdoAssumption ==
    /\ CO_SDO_MAX_SEQNO \in 1 .. 127
    /\ \A r \in Requests \cup Resubmitted : IsRequest(r, Operations)
    /\ \A entries \in Dcfs : IsDcf(entries)

VARIABLES
    c_state,    \* the current state
    c_valid,    \* are both COB-IDs valid?
    c_recv,     \* is the frame receiver registered?
    c_timeout,  \* is the timeout non-zero?
    c_timer,    \* is the timer running?
    csdo,       \* the ongoing transfer
    con,        \* who is to be confirmed: "user", "dcf" or "none"
    dcf,        \* the rest of the concise DCF
    accepted,   \* the transfers of each request that was accepted, in order
    confirmed,  \* the calls of confirmation functions, in order
    c_tx        \* the frames sent, in order

c_vars == <<c_state, c_valid, c_recv, c_timeout, c_timer, csdo, con, dcf,
            accepted, confirmed, c_tx>>

Busy == {"dn_ini", "dn_seg", "up_ini", "up_seg", "blk_dn_ini", "blk_dn_sub",
         "blk_dn_end", "blk_up_ini", "blk_up_sub", "blk_up_end"}

\* The fields of struct co_csdo at the start of a transfer.  value is what is
\* downloaded, cur the number of its bytes that were sent, and up the content
\* of the upload buffer.
NewXfer(r) ==
    [op |-> r.op, obj |-> r.obj, value |-> r.value, size |-> r.value.n, cur |-> 0,
     up |-> NoBytes, toggle |-> 0, ackseq |-> 0, crc |-> FALSE,
     blksize |-> IF r.op = "blk_up" THEN CO_SDO_MAX_SEQNO ELSE 0]

NoRequest == [op |-> "none", obj |-> "none", value |-> NoBytes, pst |-> 0]

CsdoInit ==
    /\ c_state = "stopped"
    /\ c_valid \in BOOLEAN
    /\ c_recv = FALSE
    /\ c_timeout \in BOOLEAN
    /\ c_timer = FALSE
    /\ csdo = NewXfer(NoRequest)
    /\ con = "none"
    /\ dcf = <<>>
    /\ accepted = <<>>
    /\ confirmed = <<>>
    /\ c_tx = <<>>

\* The client once it has been started with valid COB-IDs and a timeout.
CsdoStarted ==
    /\ c_state = "wait"
    /\ c_valid = TRUE /\ c_recv = TRUE
    /\ c_timeout = TRUE /\ c_timer = FALSE
    /\ csdo = NewXfer(NoRequest)
    /\ con = "none"
    /\ dcf = <<>>
    /\ accepted = <<>>
    /\ confirmed = <<>>
    /\ c_tx = <<>>

(***************************************************************************)
(* Requests.                                                               *)
(***************************************************************************)
co_csdo_is_idle == c_state = "wait"

\* The state in which a request starts, and its first frame.
Opening(r) ==
    [dn |-> "dn_ini", up |-> "up_ini", blk_dn |-> "blk_dn_ini", blk_up |-> "blk_up_ini"][r.op]

OpeningFrame(r) ==
    CASE r.op = "dn" /\ r.value.n \in 1 .. 4 ->
           [Frame(CO_SDO_CCS_DN_INI_REQ + CO_SDO_INI_SIZE_EXP_SET(r.value.n), r.obj)
                EXCEPT !.data = r.value]
      [] r.op = "dn" /\ r.value.n \notin 1 .. 4 ->
           [Frame(CO_SDO_CCS_DN_INI_REQ + CO_SDO_INI_SIZE_IND, r.obj) EXCEPT !.n = r.value.n]
      [] r.op = "up" -> Frame(CO_SDO_CCS_UP_INI_REQ, r.obj)
      [] r.op = "blk_dn" ->
           [Frame(CO_SDO_CCS_BLK_DN_REQ + CO_SDO_BLK_CRC + CO_SDO_BLK_SIZE_IND, r.obj)
                EXCEPT !.n = r.value.n]
      [] r.op = "blk_up" ->
           [Frame(CO_SDO_CCS_BLK_UP_REQ + CO_SDO_BLK_CRC, r.obj)
                EXCEPT !.b = <<CO_SDO_MAX_SEQNO, r.pst>>]

Opened(r) == [NewXfer(r) EXCEPT !.cur = IF r.op = "dn" /\ r.value.n \in 1 .. 4 THEN r.value.n ELSE 0]

\* The transfer r starts, on behalf of who, after the frames out.
Begin(r, who, out) ==
    /\ c_state' = Opening(r)
    /\ csdo' = Opened(r)
    /\ con' = who
    /\ c_tx' = c_tx \o Append(out, OpeningFrame(r))

StartTimer_c == c_timer' = (c_timer \/ c_timeout)

Same_c == UNCHANGED <<c_valid, c_recv, c_timeout>>

\* co_csdo_dn_req(), co_csdo_up_req(), co_csdo_blk_dn_req() and
\* co_csdo_blk_up_req(); a request that is not accepted changes nothing.
co_csdo_req(r) ==
    /\ c_valid /\ co_csdo_is_idle
    /\ Begin(r, "user", <<>>)
    /\ StartTimer_c
    /\ accepted' = Append(accepted, <<r>>)
    /\ UNCHANGED <<dcf, confirmed>>
    /\ Same_c

\* The call of the user's confirmation function.
Confirmation(ac, s) ==
    [op |-> IF con = "dcf" THEN "dcf" ELSE s.op, obj |-> s.obj, ac |-> ac,
     value |-> IF s.op \in {"dn", "blk_dn"} THEN s.value
               ELSE IF ac = "0" THEN s.up ELSE NoBytes]

\* The next entry of a concise DCF is downloaded, unless the last one failed or
\* the next one cannot be read.
NextEntry(ac, entries) == ac = "0" /\ entries # <<>> /\ Head(entries) # Malformed

DcfCode(ac, entries) == IF ac = "0" /\ entries # <<>> THEN "TYPE_LEN_LO" ELSE ac

\* The first download of a concise DCF.  An empty one is confirmed at once.
co_csdo_dn_dcf_req(entries) ==
    /\ c_valid /\ co_csdo_is_idle
    /\ accepted' = Append(accepted, entries)
    /\ \/ /\ NextEntry("0", entries)
          /\ Begin(Head(entries), "dcf", <<>>)
          /\ StartTimer_c
          /\ dcf' = Tail(entries)
          /\ UNCHANGED confirmed
       \/ /\ ~NextEntry("0", entries)
          /\ confirmed' = Append(confirmed,
               [op |-> "dcf", obj |-> "none", ac |-> DcfCode("0", entries), value |-> NoBytes])
          /\ UNCHANGED <<c_state, csdo, con, c_timer, c_tx, dcf>>
    /\ Same_c

co_csdo_abort_on_enter == c_timer' = FALSE

\* Mutant: the confirmation function is not called.
FinishSilently(ac, s, out) ==
    /\ c_state' = "wait"
    /\ co_csdo_abort_on_enter
    /\ c_tx' = c_tx \o out
    /\ csdo' = s
    /\ UNCHANGED <<con, dcf, accepted, confirmed>>

(***************************************************************************)
(* The end of a transfer: the abort state is entered and left again, the   *)
(* timer is stopped, and the confirmation function is called while the     *)
(* client is in the waiting state.  A chain goes on with its next download.*)
(***************************************************************************)
Finish(ac, s, out) ==
    LET more == con = "dcf" /\ NextEntry(ac, dcf)
        code == IF con = "dcf" THEN DcfCode(ac, dcf) ELSE ac
    IN  \/ /\ more
           /\ Begin(Head(dcf), "dcf", out)
           /\ c_timer' = c_timeout
           /\ dcf' = Tail(dcf)
           /\ UNCHANGED <<accepted, confirmed>>
        \/ /\ ~more
           /\ c_state' = "wait"
           /\ co_csdo_abort_on_enter
           /\ con' = "none"
           /\ dcf' = <<>>
           /\ confirmed' = IF con = "none" THEN confirmed
                           ELSE Append(confirmed, Confirmation(code, s))
           /\ c_tx' = c_tx \o out
           /\ csdo' = s
           /\ UNCHANGED accepted

co_csdo_abort_ind(ac) == Finish(ac, csdo, <<>>) /\ Same_c

\* The transfer succeeds after the frames out.
Complete(s, out) == Finish("0", s, out) /\ Same_c

co_csdo_abort_res(ac) ==
    /\ Finish(ac, csdo, <<AbortFrame(csdo.obj, ac)>>)
    /\ Same_c

\* The transfer goes on in another state.
Continue(state, s, out) ==
    /\ c_state' = state
    /\ csdo' = s
    /\ StartTimer_c
    /\ c_tx' = c_tx \o out
    /\ UNCHANGED <<con, dcf, accepted, confirmed>>
    /\ Same_c

(***************************************************************************)
(* Received frames.  Every state but the block upload of segments expects  *)
(* one command specifier or an abort.                                      *)
(***************************************************************************)
IsAbort(m) == m.len >= 1 /\ Command(m.cs) = CO_SDO_CS_ABORT

Is(m, cs) == m.len >= 1 /\ Command(m.cs) = cs

AbortCode(m) == IF m.len < 8 THEN "ERROR" ELSE m.ac

Unexpected(m, expected) ==
    \/ /\ IsAbort(m)
       /\ co_csdo_abort_ind(AbortCode(m))
    \/ /\ m.len < 1 \/ Command(m.cs) \notin expected \cup {CO_SDO_CS_ABORT}
       /\ co_csdo_abort_res("NO_CS")

\* Does the frame name the object of the request?
SameObject(m) == m.len >= 4 /\ m.obj = csdo.obj

co_csdo_wait_on_recv(m) ==
    /\ c_state = "wait"
    /\ \/ m.len < 1 /\ co_csdo_abort_res("NO_CS")
       \/ IsAbort(m) /\ co_csdo_abort_ind(AbortCode(m))
       \/ m.len >= 1 /\ ~IsAbort(m) /\ UNCHANGED c_vars

\* The next segment, of which there is at least one, or the end.
co_csdo_dn_seg_on_enter ==
    LET n == csdo.size - csdo.cur
        k == MinOf(n, 7)
        cs == CO_SDO_CCS_DN_SEG_REQ + csdo.toggle + CO_SDO_SEG_SIZE_SET(k)
                + (IF n <= 7 THEN CO_SDO_SEG_LAST ELSE 0)
        more == n > 0 \/ (csdo.size = 0 /\ csdo.toggle = 0)
    IN  \/ /\ more
           /\ Continue("dn_seg", [csdo EXCEPT !.cur = @ + k, !.toggle = Flip(@)],
                <<[SegFrame(cs) EXCEPT !.data = Part(csdo.value, csdo.cur, k)]>>)
        \/ ~more /\ co_csdo_abort_ind("0")

co_csdo_dn_ini_on_recv(m) ==
    /\ c_state = "dn_ini"
    /\ \/ Unexpected(m, {CO_SDO_SCS_DN_INI_RES})
       \/ /\ Is(m, CO_SDO_SCS_DN_INI_RES)
          /\ IF SameObject(m) THEN co_csdo_dn_seg_on_enter ELSE co_csdo_abort_res("ERROR")

co_csdo_dn_seg_on_recv(m) ==
    /\ c_state = "dn_seg"
    /\ \/ Unexpected(m, {CO_SDO_SCS_DN_SEG_RES})
       \/ /\ Is(m, CO_SDO_SCS_DN_SEG_RES)
          /\ IF Has(m.cs, CO_SDO_SEG_TOGGLE) = (csdo.toggle # 0)
             THEN co_csdo_abort_res("TOGGLE") ELSE co_csdo_dn_seg_on_enter

co_csdo_send_up_seg_req(s) ==
    Continue("up_seg", [s EXCEPT !.toggle = Flip(@)],
        <<SegFrame(CO_SDO_CCS_UP_SEG_REQ + s.toggle)>>)

\* The response to an upload request; also to a block upload request when the
\* server prefers this protocol.
up_ini(m) ==
    LET exp == Has(m.cs, CO_SDO_INI_SIZE_EXP)
        ind == Has(m.cs, CO_SDO_INI_SIZE_IND)
        size == IF exp THEN (IF ind THEN CO_SDO_INI_SIZE_EXP_GET(m.cs) ELSE m.len - 4)
                ELSE IF ind THEN m.n ELSE 0
        s == [csdo EXCEPT !.size = size]
    IN  IF ~SameObject(m) THEN co_csdo_abort_res("ERROR")
        ELSE IF exp THEN Complete([s EXCEPT !.up = Cat(@, Part(m.data, 0, size))], <<>>)
        ELSE co_csdo_send_up_seg_req(s)

co_csdo_up_ini_on_recv(m) ==
    /\ c_state = "up_ini"
    /\ \/ Unexpected(m, {CO_SDO_SCS_UP_INI_RES})
       \/ Is(m, CO_SDO_SCS_UP_INI_RES) /\ up_ini(m)

\* The error in an upload segment that completes the value s.up, or "0".
up_seg_error(m, s) ==
    IF m.len < 1 + CO_SDO_SEG_SIZE_GET(m.cs) THEN "NO_CS"
    ELSE IF s.up.n > s.size THEN "TYPE_LEN_HI"
    ELSE IF Has(m.cs, CO_SDO_SEG_LAST) /\ s.size > 0 /\ s.up.n # s.size THEN "TYPE_LEN_LO"
    ELSE "0"

\* Does the segment have the toggle bit of the last request?
Toggled_c(m) == Has(m.cs, CO_SDO_SEG_TOGGLE) # (csdo.toggle # 0)

co_csdo_up_seg_on_recv(m) ==
    LET s == [csdo EXCEPT !.up = Cat(@, Part(m.data, 0, CO_SDO_SEG_SIZE_GET(m.cs)))]
        error == up_seg_error(m, s)
        last == Has(m.cs, CO_SDO_SEG_LAST)
    IN  /\ c_state = "up_seg"
        /\ \/ Unexpected(m, {CO_SDO_SCS_UP_SEG_RES})
           \/ /\ Is(m, CO_SDO_SCS_UP_SEG_RES)
              /\ \/ ~Toggled_c(m) /\ UNCHANGED c_vars
                 \/ Toggled_c(m) /\ error # "0" /\ co_csdo_abort_res(error)
                 \/ Toggled_c(m) /\ error = "0" /\ last /\ Complete(s, <<>>)
                 \/ Toggled_c(m) /\ error = "0" /\ ~last /\ co_csdo_send_up_seg_req(s)

\* Mutant: the block is not limited to what is left of the value.
BlockOfServer(n, blksize) == blksize

\* The number of segments in a block when n bytes are left.
Block(n, blksize) == MinOf((n + 6) \div 7, blksize)

\* All segments of the next block or, when all bytes were sent, the last frame.
co_csdo_blk_dn_sub_on_enter(s) ==
    LET n == s.size - s.cur
        blksize == Block(n, s.blksize)
        end == CO_SDO_CCS_BLK_DN_REQ + CO_SDO_SC_END_BLK + CO_SDO_BLK_SIZE_SET(LastSize(s.size))
        invalid == (n > 0 /\ s.blksize = 0) \/ s.blksize > CO_SDO_MAX_SEQNO
    IN  \/ invalid /\ co_csdo_abort_res("BLK_SIZE")
        \/ /\ ~invalid /\ n > 0
           /\ Continue("blk_dn_sub",
                [s EXCEPT !.blksize = blksize, !.cur = @ + MinOf(7 * blksize, n)],
                [k \in 1 .. blksize |-> BlkSegment(Part(s.value, s.cur, n), k, TRUE)])
        \/ /\ ~invalid /\ n = 0
           /\ Continue("blk_dn_end", [s EXCEPT !.blksize = blksize],
                <<[SegFrame(end) EXCEPT !.data = IF s.crc THEN s.value ELSE NoBytes]>>)

co_csdo_blk_dn_ini_on_recv(m) ==
    /\ c_state = "blk_dn_ini"
    /\ \/ Unexpected(m, {CO_SDO_SCS_BLK_DN_RES})
       \/ /\ Is(m, CO_SDO_SCS_BLK_DN_RES)
          /\ IF Subcommand(m.cs) # CO_SDO_SC_INI_BLK THEN co_csdo_abort_res("NO_CS")
             ELSE IF ~SameObject(m) THEN co_csdo_abort_res("ERROR")
             ELSE IF m.len < 5 THEN co_csdo_abort_res("BLK_SIZE")
             ELSE co_csdo_blk_dn_sub_on_enter(
                    [csdo EXCEPT !.crc = Has(m.cs, CO_SDO_BLK_CRC), !.blksize = m.b[1]])

\* Mutant: nothing is sent again.
NotRewound(ackseq) == csdo.cur

\* The position of the first segment that the server did not acknowledge.
Rewound(ackseq) ==
    IF ackseq < csdo.blksize
    THEN 7 * ((csdo.cur + 6) \div 7 - (csdo.blksize - ackseq))
    ELSE csdo.cur

co_csdo_blk_dn_sub_on_recv(m) ==
    /\ c_state = "blk_dn_sub"
    /\ \/ Unexpected(m, {CO_SDO_SCS_BLK_DN_RES})
       \/ /\ Is(m, CO_SDO_SCS_BLK_DN_RES)
          /\ IF Subcommand(m.cs) # CO_SDO_SC_BLK_RES THEN co_csdo_abort_res("NO_CS")
             ELSE IF m.len < 2 THEN co_csdo_abort_res("BLK_SEQ")
             ELSE IF m.len < 3 THEN co_csdo_abort_res("BLK_SIZE")
             ELSE co_csdo_blk_dn_sub_on_enter(
                    [csdo EXCEPT !.cur = Rewound(m.b[1]), !.blksize = m.b[2]])

co_csdo_blk_dn_end_on_recv(m) ==
    /\ c_state = "blk_dn_end"
    /\ \/ Unexpected(m, {CO_SDO_SCS_BLK_DN_RES})
       \/ /\ Is(m, CO_SDO_SCS_BLK_DN_RES)
          /\ IF Subcommand(m.cs) # CO_SDO_SC_END_BLK THEN co_csdo_abort_res("NO_CS")
             ELSE co_csdo_abort_ind("0")

co_csdo_blk_up_ini_on_recv(m) ==
    /\ c_state = "blk_up_ini"
    /\ \/ Unexpected(m, {CO_SDO_SCS_UP_INI_RES, CO_SDO_SCS_BLK_UP_RES})
       \/ Is(m, CO_SDO_SCS_UP_INI_RES) /\ up_ini(m)
       \/ /\ Is(m, CO_SDO_SCS_BLK_UP_RES)
          /\ IF m.cs % 2 # CO_SDO_SC_INI_BLK THEN co_csdo_abort_res("NO_CS")
             ELSE IF ~SameObject(m) THEN co_csdo_abort_res("ERROR")
             ELSE Continue("blk_up_sub",
                    [csdo EXCEPT
                        !.crc = Has(m.cs, CO_SDO_BLK_CRC), !.ackseq = 0,
                        !.size = IF Has(m.cs, CO_SDO_BLK_SIZE_IND) THEN m.n ELSE 0],
                    <<SegFrame(CO_SDO_CCS_BLK_UP_REQ + CO_SDO_SC_START_UP)>>)

\* A segment of a block: only the next one is accepted, and the last one of the
\* block is confirmed.
blk_up_sub(m) ==
    LET seqno == m.cs % CO_SDO_SEQ_LAST
        last == m.cs >= CO_SDO_SEQ_LAST
        next == seqno = csdo.ackseq + 1
        n == MinOf(csdo.size - csdo.up.n, 7)
        s == IF next
             THEN [csdo EXCEPT !.ackseq = @ + 1, !.up = Cat(@, Part(m.data, 0, n))]
             ELSE csdo
        confirm == seqno = s.blksize \/ last
        res == [SegFrame(CO_SDO_CCS_BLK_UP_REQ + CO_SDO_SC_BLK_RES)
                    EXCEPT !.b = <<s.ackseq, s.blksize>>]
    IN  IF next /\ ~last /\ n < 7 THEN co_csdo_abort_res("TYPE_LEN_HI")
        ELSE Continue(IF last THEN "blk_up_end" ELSE "blk_up_sub",
                IF confirm THEN [s EXCEPT !.ackseq = 0] ELSE s,
                IF confirm THEN <<res>> ELSE <<>>)

co_csdo_blk_up_sub_on_recv(m) ==
    /\ c_state = "blk_up_sub"
    /\ \/ m.len < 1 /\ co_csdo_abort_res("NO_CS")
       \/ m.len >= 1 /\ m.cs = CO_SDO_CS_ABORT /\ co_csdo_abort_ind(AbortCode(m))
       \/ m.len >= 1 /\ m.cs # CO_SDO_CS_ABORT /\ blk_up_sub(m)

\* The error in the last frame of a block upload, or "0".
blk_up_end_error(m) ==
    IF Subcommand(m.cs) # CO_SDO_SC_END_BLK THEN "NO_CS"
    ELSE IF csdo.size > 0 /\ csdo.up.n # csdo.size THEN "TYPE_LEN_LO"
    ELSE IF CO_SDO_BLK_SIZE_GET(m.cs) # LastSize(csdo.size) THEN "NO_CS"
    ELSE IF csdo.crc /\ m.data # csdo.up THEN "BLK_CRC"
    ELSE "0"

co_csdo_blk_up_end_on_recv(m) ==
    /\ c_state = "blk_up_end"
    /\ \/ Unexpected(m, {CO_SDO_SCS_BLK_UP_RES})
       \/ /\ Is(m, CO_SDO_SCS_BLK_UP_RES)
          /\ IF blk_up_end_error(m) # "0" THEN co_csdo_abort_res(blk_up_end_error(m))
             ELSE Complete(csdo, <<SegFrame(CO_SDO_CCS_BLK_UP_REQ + CO_SDO_SC_END_BLK)>>)

(***************************************************************************)
(* The service.                                                            *)
(***************************************************************************)
co_csdo_recv(m) ==
    /\ c_recv
    /\ \/ co_csdo_wait_on_recv(m)
       \/ co_csdo_dn_ini_on_recv(m)
       \/ co_csdo_dn_seg_on_recv(m)
       \/ co_csdo_up_ini_on_recv(m)
       \/ co_csdo_up_seg_on_recv(m)
       \/ co_csdo_blk_dn_ini_on_recv(m)
       \/ co_csdo_blk_dn_sub_on_recv(m)
       \/ co_csdo_blk_dn_end_on_recv(m)
       \/ co_csdo_blk_up_ini_on_recv(m)
       \/ co_csdo_blk_up_sub_on_recv(m)
       \/ co_csdo_blk_up_end_on_recv(m)

\* The timer callback: the transfer is aborted.
co_csdo_timer ==
    /\ c_timer
    /\ c_state \in Busy
    /\ co_csdo_abort_res("TIMEOUT")

\* The application aborts the transfer.
co_csdo_abort_req(ac) ==
    /\ c_state \in Busy
    /\ co_csdo_abort_res(ac)

co_csdo_start(valid) ==
    /\ c_state = "stopped"
    /\ c_state' = "wait"
    /\ c_valid' = valid
    /\ c_recv' = valid
    /\ UNCHANGED <<c_timeout, c_timer, csdo, con, dcf, accepted, confirmed, c_tx>>

co_csdo_set_timeout(timeout) ==
    /\ c_timer' = (c_timer /\ (timeout \/ ~c_timeout))
    /\ c_timeout' = timeout
    /\ UNCHANGED <<c_state, c_valid, c_recv, csdo, con, dcf, accepted, confirmed, c_tx>>

\* The ongoing transfer is aborted because the service becomes unavailable.  Its
\* confirmation function may submit another request, again, which is accepted as
\* long as the COB-IDs are valid: the client is in the waiting state.
Again(valid) == {NoRequest} \cup (IF valid /\ c_state \in Busy THEN Resubmitted ELSE {})

\* Mutant: the transfer is abandoned without a confirmation.
WithdrawSilently(again) ==
    /\ con' = "none"
    /\ dcf' = <<>>
    /\ UNCHANGED <<csdo, accepted, confirmed, c_tx>>

Withdraw(again) ==
    \/ /\ c_state \notin Busy
       /\ UNCHANGED <<csdo, con, dcf, accepted, confirmed, c_tx>>
    \/ /\ c_state \in Busy
       /\ confirmed' = Append(confirmed, Confirmation("NO_SDO", csdo))
       /\ dcf' = <<>>
       /\ \/ /\ again = NoRequest
             /\ con' = "none"
             /\ c_tx' = Append(c_tx, AbortFrame(csdo.obj, "NO_SDO"))
             /\ UNCHANGED <<csdo, accepted>>
          \/ /\ again # NoRequest
             /\ con' = "user"
             /\ c_tx' = c_tx \o <<AbortFrame(csdo.obj, "NO_SDO"), OpeningFrame(again)>>
             /\ csdo' = Opened(again)
             /\ accepted' = Append(accepted, <<again>>)

\* The COB-IDs are changed; the transfer is aborted with the new ones.
co_1280_dn_ind(valid) ==
    /\ c_state # "stopped"
    /\ \E again \in Again(valid) :
         /\ Withdraw(again)
         /\ c_state' = IF again = NoRequest THEN "wait" ELSE Opening(again)
         /\ c_timer' = (again # NoRequest /\ c_timeout)
    /\ c_valid' = valid
    /\ c_recv' = valid
    /\ UNCHANGED c_timeout

\* The stopped state is entered from whatever state the client is in after the
\* transfer was aborted.
co_csdo_stop ==
    /\ c_state # "stopped"
    /\ \E again \in Again(c_valid) : Withdraw(again)
    /\ c_state' = "stopped"
    /\ c_timer' = FALSE
    /\ c_recv' = FALSE
    /\ UNCHANGED <<c_valid, c_timeout>>
=============================================================================
