----------------------------- MODULE SsdoProofs -----------------------------
(***************************************************************************)
(* Proofs about the SDO server: whatever frames arrive and whenever timers *)
(* expire, it never accepts more bytes than a client announced, never waits*)
(* for an event that its state cannot handle, and never leaves anything of *)
(* a transfer behind.                                                      *)
(***************************************************************************)
EXTENDS SsdoEnv, TLAPS

Downloading == {"dn_seg", "blk_dn_sub", "blk_dn_end"}

Uploading == {"up_seg", "blk_up_sub", "blk_up_end"}

\* The transfer s in the state st, when the application is in the state a.
Good(st, s, a) ==
    /\ s \in Xfer
    /\ a \in {"idle", "open"}
    /\ st \notin Transfer => s = NoXfer /\ a = "idle"
    /\ a = "open" => st \in Downloading /\ s.dn_ind /\ s.obj \in Objects \ ReadOnly
    /\ s.offset + s.nbyte <= s.size
    /\ st = "blk_dn_sub" => s.ackseq < s.blksize /\ s.blksize = CO_SSDO_MAX_SEQNO
    /\ st \in Uploading =>
         /\ s.pos <= s.nbyte /\ s.nbyte = s.size /\ s.data.n = s.nbyte
         /\ s.offset = 0
         /\ s.buf.n <= s.pos
         /\ s.buf = Part(s.data, s.pos - s.buf.n, s.buf.n)

\* The inductive invariant.
ServerInv ==
    /\ s_state \in Transfer \cup {"stopped", "wait"}
    /\ s_valid \in BOOLEAN /\ s_recv \in BOOLEAN
    /\ s_timeout \in BOOLEAN /\ s_timer \in BOOLEAN
    /\ od \in [Objects -> Bytes]
    /\ SsdoTimerHasHandler
    /\ SsdoRecvHasHandler
    /\ Good(s_state, ssdo, app)

\* What every handler leaves behind, apart from the transfer.
Around ==
    /\ s_timeout' = s_timeout
    /\ s_valid' \in BOOLEAN
    /\ s_recv' = s_valid'
    /\ od' \in [Objects -> Bytes]

Ended ==
    /\ Around
    /\ co_ssdo_abort_ind
    /\ app' = "idle"

Continued ==
    /\ Around
    /\ s_state' \in Transfer
    /\ s_timer' = (s_timer \/ s_timeout)
    /\ Good(s_state', ssdo', app')

Handling == s_state # "stopped" /\ (UNCHANGED s_vars \/ Ended \/ Continued)

-----------------------------------------------------------------------------
(***************************************************************************)
(* Bytes.                                                                  *)
(***************************************************************************)

\* The contents of buffers.
LEMMA SomeBytes ==
    "none" \in STRING /\ NoBytes \in Bytes /\ \A n \in Nat : Torn(n) \in Bytes
<1>1. "none" \in STRING /\ "torn" \in STRING
  BY SsdoEnvAssumption
<1> QED
  BY <1>1 DEF NoBytes, Torn, Bytes

\* A part of a value.
LEMMA PartBytes ==
    ASSUME NEW b \in Bytes, NEW lo \in Nat, NEW n \in Nat
    PROVE  Part(b, lo, n) \in Bytes /\ Part(b, lo, n).n = n
<1>1. Part(b, lo, n) \in Bytes
  BY SomeBytes DEF Bytes, Part
<1>2. Part(b, lo, n).n = n
  BY DEF Part, NoBytes, Torn
<1> QED
  BY <1>1, <1>2

\* Two parts of values.
LEMMA CatBytes ==
    ASSUME NEW a \in Bytes, NEW b \in Bytes
    PROVE  Cat(a, b) \in Bytes /\ Cat(a, b).n = a.n + b.n
<1>0. a.n \in Nat /\ b.n \in Nat
  BY DEF Bytes
<1>1. CASE a.n = 0 \/ b.n = 0
  BY <1>0, <1>1 DEF Cat
<1>2. CASE a.n # 0 /\ b.n # 0 /\ a.v # "torn" /\ b.v = a.v /\ b.lo = a.lo + a.n
  BY <1>0, <1>2 DEF Cat, Bytes
<1>3. CASE a.n # 0 /\ b.n # 0 /\ ~(a.v # "torn" /\ b.v = a.v /\ b.lo = a.lo + a.n)
  <2>1. Cat(a, b) = Torn(a.n + b.n)
    BY <1>3 DEF Cat
  <2> QED
    BY <1>0, <2>1, SomeBytes DEF Torn
<1> QED
  BY <1>1, <1>2, <1>3

\* Two consecutive parts of the same value are one part of it.
LEMMA PartCat ==
    ASSUME NEW b \in Bytes, NEW lo \in Nat, NEW k \in Nat, NEW n \in Nat, lo + k + n <= b.n
    PROVE  Cat(Part(b, lo, k), Part(b, lo + k, n)) = Part(b, lo, k + n)
<1>1. CASE k = 0 \/ n = 0
  BY <1>1 DEF Bytes, Part, Cat, NoBytes, Torn
<1>2. CASE k # 0 /\ n # 0 /\ b.v = "torn"
  BY <1>2 DEF Bytes, Part, Cat, NoBytes, Torn
<1>3. CASE k # 0 /\ n # 0 /\ b.v # "torn"
  BY <1>3 DEF Bytes, Part, Cat, NoBytes, Torn
<1> QED
  BY <1>1, <1>2, <1>3

\* The end of a part of a value is a part of it.
LEMMA PartPart ==
    ASSUME NEW b \in Bytes, NEW lo \in Nat, NEW n \in Nat, NEW k \in Nat,
           lo + n <= b.n, k <= n
    PROVE  Part(Part(b, lo, n), k, n - k) = Part(b, lo + k, n - k)
<1>1. CASE n - k = 0
  BY <1>1 DEF Part
<1>2. CASE n - k # 0
  BY <1>2 DEF Bytes, Part, NoBytes, Torn
<1> QED
  BY <1>1, <1>2

-----------------------------------------------------------------------------
(***************************************************************************)
(* The end of a transfer and its continuation.                             *)
(***************************************************************************)

\* A server without a transfer.
LEMMA NoXferGood ==
    ASSUME NEW st \in {"stopped", "wait"}
    PROVE  Good(st, NoXfer, "idle")
<1>1. NoXfer \in Xfer
  BY SomeBytes DEF NoXfer, Xfer, CO_SDO_SEG_TOGGLE
<1> QED
  BY <1>1 DEF Good, NoXfer, Transfer, Uploading

\* What a handler does keeps the invariant.
LEMMA HandlingSafe ==
    ASSUME ServerInv, Handling
    PROVE  ServerInv'
<1>1. CASE UNCHANGED s_vars
  BY <1>1 DEF s_vars, ServerInv, Good, SsdoTimerHasHandler, SsdoRecvHasHandler
<1>2. CASE Ended
  <2>1. Good(s_state', ssdo', app')
    BY <1>2, NoXferGood DEF Ended, co_ssdo_abort_ind
  <2> QED
    BY <1>2, <2>1 DEF Ended, co_ssdo_abort_ind, Around, ServerInv, SsdoTimerHasHandler, SsdoRecvHasHandler, Good
<1>3. CASE Continued
  <2>1. s_state' # "stopped"
    BY <1>3 DEF Continued, Transfer
  <2> QED
    BY <1>3, <2>1 DEF Continued, Around, ServerInv, SsdoTimerHasHandler, SsdoRecvHasHandler, Good
<1> QED
  BY <1>1, <1>2, <1>3 DEF Handling

-----------------------------------------------------------------------------
(***************************************************************************)
(* The download indication.                                                *)
(***************************************************************************)

\* The buffer of a download.
LEMMA ReqBytes ==
    ASSUME NEW s \in Xfer
    PROVE  co_sdo_req_dn_buf(s).membuf \in Bytes /\ co_sdo_req_dn_buf(s).value \in Bytes
<1> DEFINE kept == IF co_sdo_req_first(s) THEN NoBytes ELSE Part(s.membuf, 0, s.offset)
           membuf == Cat(kept, Part(s.data, 0, s.nbyte))
<1>1. /\ s.membuf \in Bytes /\ s.data \in Bytes
      /\ s.offset \in Nat /\ s.nbyte \in Nat /\ s.size \in Nat
  BY DEF Xfer
<1>2. kept \in Bytes
  BY <1>1, SomeBytes, PartBytes
<1>3. membuf \in Bytes
  BY <1>1, <1>2, PartBytes, CatBytes
<1>4. Part(membuf, 0, s.size) \in Bytes /\ Part(s.data, 0, s.size) \in Bytes
  BY <1>1, <1>3, PartBytes
<1> HIDE DEF membuf
<1>5. \/ co_sdo_req_dn_buf(s) = [ok |-> TRUE, membuf |-> s.membuf, value |-> Part(s.data, 0, s.size)]
      \/ co_sdo_req_dn_buf(s) = [ok |-> FALSE, membuf |-> s.membuf, value |-> NoBytes]
      \/ co_sdo_req_dn_buf(s) = [ok |-> TRUE, membuf |-> membuf, value |-> Part(membuf, 0, s.size)]
  BY DEF co_sdo_req_dn_buf, membuf
<1> QED
  BY <1>1, <1>3, <1>4, <1>5, SomeBytes

\* The result r of an indication for the transfer s.
IndicatedFor(r, s) ==
    /\ r.sdo \in Xfer
    /\ r.od \in [Objects -> Bytes]
    /\ r.valid \in BOOLEAN /\ r.recv = r.valid
    /\ r.app \in {"idle", "open"}
    /\ r.ac # "0" \/ co_sdo_req_last(s) => r.app = "idle"
    /\ \/ r.sdo = NoXfer /\ co_sdo_req_last(s) /\ r.app = "idle"
       \/ /\ r.sdo.obj = s.obj /\ r.sdo.size = s.size
          /\ r.sdo.offset = s.offset /\ r.sdo.nbyte = s.nbyte
          /\ r.sdo.ackseq = s.ackseq /\ r.sdo.blksize = s.blksize
    /\ r.app = "open" => r.sdo.dn_ind /\ r.sdo.obj \in Objects \ ReadOnly

\* What the indication does, for an application that is only waiting for the rest
\* of this very value.
LEMMA DnInd ==
    ASSUME ServerInv, s_state # "stopped",
           NEW s \in Xfer, app = "open" => s.obj \in Objects \ ReadOnly,
           NEW refuse \in Refusals, NEW par \in ParWrite
    PROVE  IndicatedFor(co_ssdo_dn_ind(s, refuse, par), s)
<1> DEFINE u == [s EXCEPT !.dn_ind = TRUE]
           req == co_sdo_req_dn_buf(u)
           t == [u EXCEPT !.membuf = req.membuf]
           stored == [Indicated("0", t, "idle") EXCEPT !.od[u.obj] = req.value]
<1>0. /\ od \in [Objects -> Bytes] /\ s_valid \in BOOLEAN /\ s_recv = s_valid
      /\ app \in {"idle", "open"}
  BY DEF ServerInv, SsdoRecvHasHandler, Good
<1>1. /\ u \in Xfer /\ u.dn_ind = TRUE /\ u.obj = s.obj /\ u.size = s.size
      /\ u.offset = s.offset /\ u.nbyte = s.nbyte
      /\ u.ackseq = s.ackseq /\ u.blksize = s.blksize
  BY DEF Xfer
<1>2. req.membuf \in Bytes /\ req.value \in Bytes
  BY <1>1, ReqBytes
<1> HIDE DEF u, req
<1>3. /\ t \in Xfer /\ t.dn_ind = TRUE /\ t.obj = s.obj /\ t.size = s.size
      /\ t.offset = s.offset /\ t.nbyte = s.nbyte
      /\ t.ackseq = s.ackseq /\ t.blksize = s.blksize
  BY <1>1, <1>2 DEF Xfer
<1>4. co_sdo_req_last(u) <=> co_sdo_req_last(s)
  BY <1>1 DEF co_sdo_req_last
<1> HIDE DEF t
<1>5. CASE s.obj \notin Objects
  BY <1>0, <1>5 DEF co_ssdo_dn_ind, Indicated, IndicatedFor
<1>6. CASE s.obj \in Objects
  <2>1. co_ssdo_dn_ind(s, refuse, par) = co_sub_dn_ind(u, refuse, par)
    BY <1>6 DEF co_ssdo_dn_ind, u
  <2>2. CASE s.obj \in ReadOnly
    <3>1. co_sub_dn_ind(u, refuse, par) = Indicated("NO_WRITE", u, app)
      BY <1>1, <2>2 DEF co_sub_dn_ind
    <3> QED
      BY <1>0, <1>1, <2>1, <2>2, <3>1 DEF Indicated, IndicatedFor
  <2>3. CASE s.obj \notin ReadOnly /\ (refuse \/ ~req.ok)
    <3>1. \E ac : ac # "0" /\ co_sub_dn_ind(u, refuse, par) = Indicated(ac, u, "idle")
      BY <1>1, <2>3 DEF co_sub_dn_ind, req
    <3> QED
      BY <1>0, <1>1, <2>1, <3>1 DEF Indicated, IndicatedFor
  <2>4. CASE s.obj \notin ReadOnly /\ ~refuse /\ req.ok /\ ~co_sdo_req_last(s)
    <3>1. co_sub_dn_ind(u, refuse, par) = Indicated("0", t, "open")
      BY <1>1, <1>4, <2>4 DEF co_sub_dn_ind, req, t
    <3> QED
      BY <1>0, <1>3, <1>6, <2>1, <2>4, <3>1 DEF Indicated, IndicatedFor
  <2>5. CASE s.obj \notin ReadOnly /\ ~refuse /\ req.ok /\ co_sdo_req_last(s)
    <3>1. \/ co_sub_dn_ind(u, refuse, par) = stored
          \/ co_sub_dn_ind(u, refuse, par) = co_1200_updated(stored, par = "valid")
      BY <1>1, <1>4, <2>5 DEF co_sub_dn_ind, req, t
    <3>2. /\ stored.sdo = t /\ stored.ac = "0" /\ stored.app = "idle"
          /\ stored.valid = s_valid /\ stored.recv = s_recv
          /\ stored.od \in [Objects -> Bytes]
      BY <1>0, <1>1, <1>2, <1>6 DEF Indicated
    <3>3. LET r == co_1200_updated(stored, par = "valid")
          IN  /\ r.ac = "0" /\ r.app = "idle" /\ r.od = stored.od
              /\ r.valid \in BOOLEAN /\ r.recv = r.valid
              /\ r.sdo = t \/ r.sdo = NoXfer
      BY <3>2 DEF co_1200_updated, Indicated
    <3>4. NoXfer \in Xfer
      BY NoXferGood DEF Good
    <3> HIDE DEF stored
    <3> QED
      BY <1>0, <1>3, <2>1, <2>5, <3>1, <3>2, <3>3, <3>4 DEF IndicatedFor
  <2> QED
    BY <2>2, <2>3, <2>4, <2>5
<1> QED
  BY <1>5, <1>6

-----------------------------------------------------------------------------
(***************************************************************************)
(* The ends of a transfer.                                                 *)
(***************************************************************************)

\* A handler that leaves the object dictionary and the COB-IDs alone.
LEMMA SameAround ==
    ASSUME ServerInv, s_state # "stopped", Same
    PROVE  Around
BY DEF ServerInv, SsdoRecvHasHandler, Same, Around

\* The result of an indication is applied.
LEMMA ApplyAround ==
    ASSUME NEW r, NEW s, IndicatedFor(r, s), Apply(r)
    PROVE  Around /\ app' = r.app
BY DEF IndicatedFor, Apply, Around

\* A download that fails or is aborted.
LEMMA DnEnds ==
    ASSUME ServerInv, s_state \in Downloading
    PROVE  /\ \A ac : co_ssdo_abort_dn_res(ac) => Handling
           /\ AbortedDn => Handling
<1>1. s_state # "stopped" /\ Told(ssdo, app) = "idle"
  BY DEF Downloading, Told, ServerInv, Good
<1>2. ASSUME NEW ac, co_ssdo_abort_dn_res(ac) PROVE Ended
  BY <1>1, <1>2, SameAround DEF co_ssdo_abort_dn_res, co_ssdo_abort_res, Ended
<1>3. ASSUME AbortedDn PROVE Ended
  BY <1>1, <1>3, SameAround DEF AbortedDn, Ended
<1> QED
  BY <1>1, <1>2, <1>3 DEF Handling

\* A request that is refused, and an upload that fails, is aborted or is complete.
LEMMA UpEnds ==
    ASSUME ServerInv, s_state \in Uploading \cup {"wait"}
    PROVE  /\ \A obj, ac : co_ssdo_abort_res(obj, ac) /\ UNCHANGED app /\ Same => Handling
           /\ \A ac : co_ssdo_abort_up_res(ac) => Handling
           /\ AbortedUp => Handling
           /\ co_ssdo_abort_ind /\ UNCHANGED app /\ Same => Handling
<1>1. s_state # "stopped" /\ app = "idle"
  BY DEF Uploading, Downloading, ServerInv, Good
<1>2. ASSUME co_ssdo_abort_ind, UNCHANGED app, Same PROVE Handling
  BY <1>1, <1>2, SameAround DEF Ended, Handling
<1> QED
  BY <1>2 DEF co_ssdo_abort_res, co_ssdo_abort_up_res, AbortedUp

\* An indication that fails or is the last one.
LEMMA IndicationEnds ==
    ASSUME ServerInv, s_state # "stopped", NEW r, NEW s, IndicatedFor(r, s)
    PROVE  /\ r.ac # "0" /\ Refuse(r) => Handling
           /\ co_sdo_req_last(s) /\ Apply(r) /\ co_ssdo_abort_ind => Handling
<1>1. ASSUME r.ac # "0", Refuse(r) PROVE Ended
  BY <1>1, ApplyAround DEF Refuse, co_ssdo_abort_res, Ended, IndicatedFor
<1>2. ASSUME co_sdo_req_last(s), Apply(r), co_ssdo_abort_ind PROVE Ended
  BY <1>2, ApplyAround DEF Ended, IndicatedFor
<1> QED
  BY <1>1, <1>2 DEF Handling

-----------------------------------------------------------------------------
(***************************************************************************)
(* Requests in the waiting state.                                          *)
(***************************************************************************)

\* A frame that the server receives.
IsFrame(m) ==
    m \in [cs : 0 .. 255, len : 0 .. 8, obj : STRING, n : Nat, ac : STRING,
          b : (0 .. 255) \X (0 .. 255), data : Bytes]

\* Its fields.
LEMMA FrameFields ==
    ASSUME NEW m, IsFrame(m)
    PROVE  /\ m.cs \in 0 .. 255 /\ m.len \in 0 .. 8 /\ m.obj \in STRING /\ m.n \in Nat
           /\ m.b[1] \in 0 .. 255 /\ m.b[2] \in 0 .. 255 /\ m.data \in Bytes
BY DEF IsFrame

\* The fields of a transfer that has not started.
LEMMA NoXferFields ==
    /\ NoXfer \in Xfer
    /\ NoXfer.offset = 0 /\ NoXfer.nbyte = 0 /\ NoXfer.size = 0
    /\ NoXfer.ackseq = 0 /\ NoXfer.pos = 0 /\ NoXfer.buf = NoBytes
BY NoXferGood DEF Good, NoXfer

\* A download before the first segment.
LEMMA FreshDownload ==
    ASSUME NEW st \in Downloading, NEW s \in Xfer, s.offset = 0, s.nbyte = 0, s.ackseq = 0,
           st = "blk_dn_sub" => s.blksize = CO_SSDO_MAX_SEQNO
    PROVE  Good(st, s, "idle")
<1>1. CO_SSDO_MAX_SEQNO \in 1 .. 127 /\ s.size \in Nat
  BY SsdoAssumption DEF Xfer
<1> QED
  BY <1>1 DEF Good, Downloading, Uploading, Transfer

\* A request for a download.
LEMMA DnIniStep ==
    ASSUME ServerInv, s_state = "wait", NEW m, IsFrame(m), co_ssdo_dn_ini_on_recv(m)
    PROVE  Handling
<1>0. app = "idle" /\ NoXfer \in Xfer
  BY NoXferGood DEF ServerInv, Good, Downloading
<1>4. /\ m.cs \in 0 .. 255 /\ m.len \in 0 .. 8 /\ m.obj \in STRING /\ m.n \in Nat
      /\ m.data \in Bytes
  BY FrameFields
<1>1. CASE TooShort(m)
  BY <1>1, UpEnds DEF TooShort
<1>2. CASE m.len >= 4 /\ dn_ini_exp(m)
  <2> DEFINE n == IF Has(m.cs, CO_SDO_INI_SIZE_IND)
                  THEN CO_SDO_INI_SIZE_EXP_GET(m.cs) ELSE m.len - 4
             req == [NoXfer EXCEPT !.obj = m.obj, !.size = n, !.nbyte = n,
                                   !.data = Part(m.data, 0, n)]
  <2>1. PICK refuse \in Refusals, par \in ParWrite :
            LET r == co_ssdo_dn_ind(req, refuse, par)
            IN  \/ r.ac # "0" /\ Refuse(r)
                \/ r.ac = "0" /\ Apply(r) /\ co_ssdo_abort_ind
    BY <1>2 DEF dn_ini_exp
  <2>2. n \in Nat
    BY <1>2, <1>4 DEF CO_SDO_INI_SIZE_EXP_GET
  <2>3. Part(m.data, 0, n) \in Bytes
    BY <1>4, <2>2, PartBytes
  <2>4. req \in Xfer /\ req.offset = 0 /\ req.nbyte = n /\ req.size = n
    <3>1. PICK obj \in STRING, k \in Nat, data \in Bytes :
              obj = m.obj /\ k = n /\ data = Part(m.data, 0, n)
      BY <1>4, <2>2, <2>3
    <3>2. LET x == [NoXfer EXCEPT !.obj = obj, !.size = k, !.nbyte = k, !.data = data]
          IN  x \in Xfer /\ x.offset = 0 /\ x.nbyte = k /\ x.size = k
      BY NoXferFields, ZenonT(30) DEF Xfer
    <3> HIDE DEF n
    <3> QED
      BY <3>1, <3>2
  <2> HIDE DEF req, n
  <2>5. co_sdo_req_last(req)
    BY <2>2, <2>4 DEF co_sdo_req_last
  <2>6. IndicatedFor(co_ssdo_dn_ind(req, refuse, par), req)
    BY <1>0, <2>4, DnInd
  <2> QED
    BY <2>1, <2>5, <2>6, IndicationEnds
<1>3. CASE m.len >= 4 /\ dn_ini_seg(m)
  <2> DEFINE s == [NoXfer EXCEPT
                      !.obj = m.obj,
                      !.size = IF Has(m.cs, CO_SDO_INI_SIZE_IND) THEN m.n ELSE 0]
  <2>1. s \in Xfer /\ s.offset = 0 /\ s.nbyte = 0 /\ s.ackseq = 0
    <3>1. PICK obj \in STRING, k \in Nat :
              obj = m.obj /\ k = IF Has(m.cs, CO_SDO_INI_SIZE_IND) THEN m.n ELSE 0
      BY <1>4
    <3>2. LET x == [NoXfer EXCEPT !.obj = obj, !.size = k]
          IN  x \in Xfer /\ x.offset = 0 /\ x.nbyte = 0 /\ x.ackseq = 0
      BY NoXferFields, ZenonT(30) DEF Xfer
    <3> QED
      BY <3>1, <3>2
  <2>2. ssdo' = s
    BY <1>3 DEF dn_ini_seg
  <2> HIDE DEF s
  <2>3. Good("dn_seg", ssdo', "idle")
    BY <2>1, <2>2, FreshDownload DEF Downloading
  <2> QED
    BY <1>0, <1>3, <2>3, SameAround DEF dn_ini_seg, StartTimer, Handling, Continued, Transfer
<1> QED
  BY <1>1, <1>2, <1>3 DEF co_ssdo_dn_ini_on_recv

\* A request for a block download.
LEMMA BlkDnIniStep ==
    ASSUME ServerInv, s_state = "wait", NEW m, IsFrame(m), co_ssdo_blk_dn_ini_on_recv(m)
    PROVE  Handling
<1>0. app = "idle"
  BY DEF ServerInv, Good, Downloading
<1>4. /\ m.cs \in 0 .. 255 /\ m.len \in 0 .. 8 /\ m.obj \in STRING /\ m.n \in Nat
      /\ m.data \in Bytes
  BY FrameFields
<1>1. CASE TooShort(m)
  BY <1>1, UpEnds DEF TooShort
<1>2. CASE co_ssdo_abort_res("none", "NO_CS") /\ UNCHANGED app /\ Same
  BY <1>2, UpEnds
<1>3. CASE ~TooShort(m) /\ ~(co_ssdo_abort_res("none", "NO_CS") /\ UNCHANGED app /\ Same)
  <2> DEFINE s == [NoXfer EXCEPT
                      !.obj = m.obj,
                      !.gencrc = Has(m.cs, CO_SDO_BLK_CRC),
                      !.size = IF Has(m.cs, CO_SDO_BLK_SIZE_IND) THEN m.n ELSE 0,
                      !.blksize = CO_SSDO_MAX_SEQNO]
  <2>1. /\ s \in Xfer /\ s.offset = 0 /\ s.nbyte = 0 /\ s.ackseq = 0
        /\ s.blksize = CO_SSDO_MAX_SEQNO
    <3>1. PICK obj \in STRING, k \in Nat, gencrc \in BOOLEAN, b \in 0 .. 127 :
              /\ obj = m.obj /\ k = IF Has(m.cs, CO_SDO_BLK_SIZE_IND) THEN m.n ELSE 0
              /\ gencrc = Has(m.cs, CO_SDO_BLK_CRC) /\ b = CO_SSDO_MAX_SEQNO
      <4>1. Has(m.cs, CO_SDO_BLK_CRC) \in BOOLEAN
        BY DEF Has
      <4>2. (IF Has(m.cs, CO_SDO_BLK_SIZE_IND) THEN m.n ELSE 0) \in Nat
        BY <1>4
      <4>3. CO_SSDO_MAX_SEQNO \in 0 .. 127
        BY SsdoAssumption
      <4> QED
        BY <1>4, <4>1, <4>2, <4>3, Zenon
    <3>2. LET x == [NoXfer EXCEPT !.obj = obj, !.gencrc = gencrc, !.size = k, !.blksize = b]
          IN  /\ x \in Xfer /\ x.offset = 0 /\ x.nbyte = 0 /\ x.ackseq = 0
              /\ x.blksize = b
      BY NoXferFields, ZenonT(30) DEF Xfer
    <3> QED
      BY <3>1, <3>2
  <2>2. ssdo' = s /\ StartTimer /\ s_state' = "blk_dn_sub" /\ UNCHANGED app /\ Same
    BY <1>3 DEF co_ssdo_blk_dn_ini_on_recv
  <2> HIDE DEF s
  <2>3. Good("blk_dn_sub", ssdo', "idle")
    BY <2>1, <2>2, FreshDownload DEF Downloading
  <2> QED
    BY <1>0, <2>2, <2>3, SameAround DEF StartTimer, Handling, Continued, Transfer
<1> QED
  BY <1>1, <1>2, <1>3

\* An upload before the first segment.
FreshUpload(s) ==
    /\ s \in Xfer
    /\ s.offset = 0 /\ s.nbyte = s.size /\ s.data.n = s.nbyte
    /\ s.pos = 0 /\ s.buf = NoBytes

\* It is a good one.
LEMMA FreshUploadGood ==
    ASSUME NEW st \in Uploading, NEW s, FreshUpload(s)
    PROVE  Good(st, s, "idle")
<1>1. s.size \in Nat /\ s.nbyte \in Nat /\ s.buf.n = 0
  BY DEF FreshUpload, Xfer, NoBytes
<1>2. s.buf = Part(s.data, s.pos - s.buf.n, s.buf.n)
  BY <1>1 DEF FreshUpload, Part
<1> QED
  BY <1>1, <1>2 DEF FreshUpload, Good, Uploading, Transfer

\* The upload indication provides the whole value.
LEMMA UploadedFresh ==
    ASSUME ServerInv, NEW m, IsFrame(m), m.obj \in Objects
    PROVE  FreshUpload(Uploaded(m))
<1>1. PICK obj \in STRING, value \in Bytes : obj = m.obj /\ value = od[m.obj]
  BY FrameFields DEF ServerInv
<1>2. value.n \in Nat
  BY DEF Bytes
<1>3. FreshUpload([NoXfer EXCEPT !.obj = obj, !.size = value.n, !.nbyte = value.n, !.data = value])
  BY <1>2, NoXferFields, ZenonT(30) DEF FreshUpload, Xfer
<1> QED
  BY <1>1, <1>3 DEF Uploaded

\* The answer to a request for an upload.
LEMMA UploadStarts ==
    ASSUME ServerInv, s_state = "wait", UNCHANGED app, Same, NEW s, FreshUpload(s)
    PROVE  /\ up_exp(s) => Handling
           /\ up_seg(s) => Handling
           /\ StartTimer /\ s_state' = "blk_up_sub" /\ ssdo' = s => Handling
<1>0. app' = "idle" /\ Around
  BY SameAround DEF ServerInv, Good, Downloading
<1>1. ASSUME NEW st \in Uploading, StartTimer, s_state' = st, ssdo' = s
      PROVE  Handling
  BY <1>0, <1>1, FreshUploadGood DEF StartTimer, Handling, Continued, Uploading, Transfer
<1>2. ASSUME up_exp(s) PROVE Handling
  BY <1>2, UpEnds DEF up_exp
<1> QED
  BY <1>1, <1>2 DEF up_seg, Uploading

\* A request for an upload.
LEMMA UpIniStep ==
    ASSUME ServerInv, s_state = "wait", NEW m, IsFrame(m), co_ssdo_up_ini_on_recv(m)
    PROVE  Handling
<1>1. CASE TooShort(m)
  BY <1>1, UpEnds DEF TooShort
<1>2. CASE ~TooShort(m)
  <2>1. UNCHANGED app /\ Same
    BY <1>2 DEF co_ssdo_up_ini_on_recv
  <2>2. PICK refuse \in Refusals :
            LET ac == co_ssdo_up_ind(m.obj, refuse)
            IN  \/ ac # "0" /\ co_ssdo_abort_res(m.obj, ac)
                \/ ac = "0" /\ up_exp(Uploaded(m))
                \/ ac = "0" /\ up_seg(Uploaded(m))
    BY <1>2 DEF co_ssdo_up_ini_on_recv
  <2>3. co_ssdo_up_ind(m.obj, refuse) = "0" => m.obj \in Objects
    BY DEF co_ssdo_up_ind
  <2> QED
    BY <2>1, <2>2, <2>3, UpEnds, UploadedFresh, UploadStarts
<1> QED
  BY <1>1, <1>2

\* A request for a block upload.
LEMMA BlkUpIniStep ==
    ASSUME ServerInv, s_state = "wait", NEW m, IsFrame(m), co_ssdo_blk_up_ini_on_recv(m)
    PROVE  Handling
<1>1. UNCHANGED app /\ Same
  BY DEF co_ssdo_blk_up_ini_on_recv
<1>2. CASE \E obj, ac : co_ssdo_abort_res(obj, ac)
  BY <1>1, <1>2, UpEnds
<1>3. CASE ~\E obj, ac : co_ssdo_abort_res(obj, ac)
  <2>1. /\ blk_up_ini(m) /\ ValidBlkSize(m.b[1])
        /\ \E refuse \in Refusals : co_ssdo_up_ind(m.obj, refuse) = "0"
    BY <1>3 DEF co_ssdo_blk_up_ini_on_recv
  <2>2. m.obj \in Objects
    BY <2>1 DEF co_ssdo_up_ind
  <2> DEFINE s == [Uploaded(m) EXCEPT !.gencrc = Has(m.cs, CO_SDO_BLK_CRC), !.blksize = m.b[1]]
  <2>3. FreshUpload(s)
    <3>1. Has(m.cs, CO_SDO_BLK_CRC) \in BOOLEAN
      BY DEF Has
    <3>2. m.b[1] \in 0 .. 127
      BY <2>1, SsdoAssumption DEF ValidBlkSize
    <3>3. PICK g \in BOOLEAN, b \in 0 .. 127 :
              g = Has(m.cs, CO_SDO_BLK_CRC) /\ b = m.b[1]
      BY <3>1, <3>2, Zenon
    <3> DEFINE u == Uploaded(m)
    <3>4. FreshUpload(u)
      BY <2>2, <3>3, UploadedFresh
    <3> HIDE DEF u
    <3>5. FreshUpload([u EXCEPT !.gencrc = g, !.blksize = b])
      BY <3>4 DEF FreshUpload, Xfer
    <3> QED
      BY <3>3, <3>5 DEF u
  <2>4. \/ up_exp(s) \/ up_seg(s)
        \/ StartTimer /\ s_state' = "blk_up_sub" /\ ssdo' = s
    BY <2>1 DEF blk_up_ini
  <2> HIDE DEF s
  <2> QED
    BY <1>1, <2>3, <2>4, UploadStarts
<1> QED
  BY <1>2, <1>3

\* Every frame in the waiting state.
LEMMA WaitStep ==
    ASSUME ServerInv, NEW m, IsFrame(m), co_ssdo_wait_on_recv(m)
    PROVE  Handling
BY DnIniStep, UpIniStep, BlkDnIniStep, BlkUpIniStep, UpEnds DEF co_ssdo_wait_on_recv, Handling

-----------------------------------------------------------------------------
(***************************************************************************)
(* Segmented transfers.                                                    *)
(***************************************************************************)

\* The next segment of a download is accepted.
LEMMA SegmentAccepted ==
    ASSUME ServerInv, s_state = "dn_seg", NEW m, IsFrame(m), dn_seg_accept(m)
    PROVE  Handling
<1> DEFINE n == CO_SDO_SEG_SIZE_GET(m.cs)
           last == Has(m.cs, CO_SDO_SEG_LAST)
           s == [ssdo EXCEPT !.data = Part(m.data, 0, n), !.offset = @ + ssdo.nbyte, !.nbyte = n]
<1>0. ssdo \in Xfer /\ (app = "open" => ssdo.obj \in Objects \ ReadOnly)
  BY DEF ServerInv, Good
<1>1. CASE \E ac : co_ssdo_abort_dn_res(ac)
  BY <1>1, DnEnds DEF Downloading
<1>2. CASE ~\E ac : co_ssdo_abort_dn_res(ac)
  <2>1. /\ ~TooLong(ssdo, n)
        /\ last => co_sdo_req_last(s)
        /\ \E refuse \in Refusals, par \in ParWrite :
             LET r == co_ssdo_dn_ind(s, refuse, par)
             IN  \/ r.ac # "0" /\ Refuse(r)
                 \/ /\ r.ac = "0" /\ Apply(r)
                    /\ IF last THEN co_ssdo_abort_ind
                       ELSE /\ s_state' = "dn_seg"
                            /\ StartTimer
                            /\ ssdo' = [r.sdo EXCEPT !.toggle = Flip(@)]
    BY <1>2 DEF dn_seg_accept
  <2>2. n \in Nat
    BY FrameFields DEF CO_SDO_SEG_SIZE_GET
  <2>3. PICK data \in Bytes : data = Part(m.data, 0, n)
    BY <2>2, FrameFields, PartBytes
  <2> HIDE DEF n, last
  <2>4. /\ s \in Xfer /\ s.obj = ssdo.obj /\ s.size = ssdo.size /\ s.nbyte = n
        /\ s.offset = ssdo.offset + ssdo.nbyte
    <3>1. PICK o \in Nat, k \in Nat : o = ssdo.offset + ssdo.nbyte /\ k = n
      BY <1>0, <2>2 DEF Xfer
    <3>2. LET x == [ssdo EXCEPT !.data = data, !.offset = o, !.nbyte = k]
          IN  x \in Xfer /\ x.obj = ssdo.obj /\ x.size = ssdo.size /\ x.nbyte = k /\ x.offset = o
      BY <1>0 DEF Xfer
    <3> QED
      BY <2>3, <3>1, <3>2
  <2>5. s.offset + s.nbyte <= s.size
    BY <1>0, <2>1, <2>2, <2>4 DEF TooLong, Xfer
  <2> HIDE DEF s
  <2>6. PICK refuse \in Refusals, par \in ParWrite :
             LET r == co_ssdo_dn_ind(s, refuse, par)
             IN  \/ r.ac # "0" /\ Refuse(r)
                 \/ /\ r.ac = "0" /\ Apply(r)
                    /\ IF last THEN co_ssdo_abort_ind
                       ELSE /\ s_state' = "dn_seg"
                            /\ StartTimer
                            /\ ssdo' = [r.sdo EXCEPT !.toggle = Flip(@)]
    BY <2>1
  <2> DEFINE r == co_ssdo_dn_ind(s, refuse, par)
  <2>7. IndicatedFor(r, s)
    BY <1>0, <2>4, DnInd
  <2> HIDE DEF r
  <2>8. CASE r.ac # "0" /\ Refuse(r)
    BY <2>7, <2>8, IndicationEnds
  <2>9. CASE Apply(r) /\ last /\ co_ssdo_abort_ind
    BY <2>1, <2>7, <2>9, IndicationEnds
  <2>10. CASE /\ Apply(r) /\ s_state' = "dn_seg" /\ StartTimer
              /\ ssdo' = [r.sdo EXCEPT !.toggle = Flip(@)]
    <3>1. Around /\ app' = r.app
      BY <2>7, <2>10, ApplyAround
    <3>2. r.sdo \in Xfer
      BY <2>7 DEF IndicatedFor
    <3>3. /\ ssdo' \in Xfer /\ ssdo'.obj = r.sdo.obj /\ ssdo'.dn_ind = r.sdo.dn_ind
          /\ ssdo'.offset = r.sdo.offset /\ ssdo'.nbyte = r.sdo.nbyte /\ ssdo'.size = r.sdo.size
      BY <2>10, <3>2 DEF Xfer, Flip, CO_SDO_SEG_TOGGLE
    <3>4. r.sdo.offset + r.sdo.nbyte <= r.sdo.size
      BY <2>5, <2>7, NoXferFields DEF IndicatedFor
    <3>5. Good("dn_seg", ssdo', app')
      BY <2>7, <3>1, <3>3, <3>4 DEF Good, IndicatedFor, Transfer, Downloading, Uploading
    <3> QED
      BY <2>10, <3>1, <3>5 DEF StartTimer, Continued, Handling, Transfer
  <2> QED
    BY <2>6, <2>8, <2>9, <2>10 DEF r
<1> QED
  BY <1>1, <1>2

\* Every frame in a segmented download.
LEMMA DnSegStep ==
    ASSUME ServerInv, NEW m, IsFrame(m), co_ssdo_dn_seg_on_recv(m)
    PROVE  Handling
BY SegmentAccepted, DnEnds DEF co_ssdo_dn_seg_on_recv, Handling, Downloading

\* The next n bytes of a value are moved to the buffer.
LEMMA UpBuf ==
    ASSUME NEW st \in Uploading, NEW s, Good(st, s, "idle"), NEW n \in Nat
    PROVE  /\ Good(st, co_ssdo_up_buf(s, n), "idle")
           /\ co_ssdo_up_buf(s, n).buf.n <= s.buf.n + n
<1> DEFINE k == MinOf(n, s.nbyte - s.pos)
           src == Part(s.data, s.pos, k)
           crc == IF s.gencrc THEN Cat(s.crc, src) ELSE s.crc
           t == co_ssdo_up_buf(s, n)
<1>1. /\ s \in Xfer /\ s.pos \in Nat /\ s.nbyte \in Nat /\ s.buf \in Bytes /\ s.buf.n \in Nat
      /\ s.crc \in Bytes /\ s.data \in Bytes /\ s.data.n = s.nbyte
      /\ s.pos <= s.nbyte /\ s.nbyte = s.size /\ s.offset = 0 /\ s.buf.n <= s.pos
      /\ s.buf = Part(s.data, s.pos - s.buf.n, s.buf.n)
  BY DEF Good, Xfer, Bytes
<1>2. k \in Nat /\ k <= n /\ s.pos + k <= s.nbyte
  BY <1>1 DEF MinOf
<1> HIDE DEF k
<1>3. src \in Bytes /\ src.n = k
  BY <1>1, <1>2, PartBytes
<1>4. Cat(s.buf, src) \in Bytes /\ Cat(s.buf, src).n = s.buf.n + k /\ crc \in Bytes
  BY <1>1, <1>3, CatBytes
<1>5. Cat(s.buf, src) = Part(s.data, s.pos - s.buf.n, s.buf.n + k)
  <2>1. s.pos - s.buf.n \in Nat /\ (s.pos - s.buf.n) + s.buf.n = s.pos
    BY <1>1
  <2> QED
    BY <1>1, <1>2, <2>1, PartCat
<1>6. t = [s EXCEPT !.buf = Cat(s.buf, src), !.pos = s.pos + k, !.crc = crc]
  BY <1>1 DEF co_ssdo_up_buf, k, Xfer
<1> HIDE DEF src, crc, t
<1>7. PICK b \in Bytes, c \in Bytes, p \in Nat : b = Cat(s.buf, src) /\ c = crc /\ p = s.pos + k
  BY <1>1, <1>2, <1>4
<1>8. /\ t \in Xfer /\ t.buf = b /\ t.pos = p /\ t.data = s.data /\ t.nbyte = s.nbyte
      /\ t.size = s.size /\ t.offset = s.offset
  <2>0. s \in Xfer
    BY <1>1
  <2>1. LET x == [s EXCEPT !.buf = b, !.pos = p, !.crc = c]
        IN  /\ x \in Xfer /\ x.buf = b /\ x.pos = p /\ x.data = s.data /\ x.nbyte = s.nbyte
            /\ x.size = s.size /\ x.offset = s.offset
    BY <2>0 DEF Xfer
  <2>2. t = [s EXCEPT !.buf = b, !.pos = p, !.crc = c]
    BY <1>6, <1>7, Zenon
  <2> QED
    BY <2>1, <2>2
<1>9. t.buf.n <= t.pos /\ t.buf.n <= s.buf.n + n /\ t.pos - t.buf.n = s.pos - s.buf.n
      /\ t.buf.n = s.buf.n + k
  BY <1>1, <1>2, <1>4, <1>7, <1>8
<1>10. Good(st, t, "idle")
  BY <1>1, <1>2, <1>5, <1>7, <1>8, <1>9 DEF Good, Uploading, Transfer
<1> QED
  BY <1>9, <1>10 DEF t

\* The next segment of an upload.
LEMMA SegmentSent ==
    ASSUME ServerInv, s_state = "up_seg", up_seg_next
    PROVE  Handling
<1> DEFINE e == [ssdo EXCEPT !.buf = NoBytes]
           s == co_ssdo_up_buf(e, 7)
<1>0. UNCHANGED app /\ Same /\ app = "idle"
  BY DEF up_seg_next, ServerInv, Good, Downloading
<1>1. Good("up_seg", e, "idle")
  <2>1. ssdo \in Xfer /\ NoBytes \in Bytes
    BY SomeBytes DEF ServerInv, Good
  <2>2. /\ e \in Xfer /\ e.buf = NoBytes /\ e.pos = ssdo.pos /\ e.data = ssdo.data
        /\ e.nbyte = ssdo.nbyte /\ e.size = ssdo.size /\ e.offset = ssdo.offset
    BY <2>1 DEF Xfer
  <2>3. e.buf.n = 0 /\ e.buf = Part(e.data, e.pos - e.buf.n, e.buf.n) /\ e.pos \in Nat
    BY <2>1, <2>2 DEF NoBytes, Part, Xfer
  <2> HIDE DEF e
  <2> QED
    BY <2>2, <2>3 DEF ServerInv, Good, Uploading, Downloading, Transfer
<1>2. Good("up_seg", s, "idle")
  BY <1>1, UpBuf DEF Uploading
<1>3. CASE co_ssdo_abort_ind
  BY <1>0, <1>3, UpEnds DEF Uploading
<1>4. CASE s_state' = "up_seg" /\ StartTimer /\ ssdo' = [s EXCEPT !.toggle = Flip(@)]
  <2> HIDE DEF s
  <2>1. s \in Xfer
    BY <1>2 DEF Good
  <2>2. /\ ssdo' \in Xfer /\ ssdo'.buf = s.buf /\ ssdo'.pos = s.pos /\ ssdo'.data = s.data
        /\ ssdo'.nbyte = s.nbyte /\ ssdo'.size = s.size /\ ssdo'.offset = s.offset
    BY <1>4, <2>1 DEF Xfer, Flip, CO_SDO_SEG_TOGGLE
  <2>3. Good("up_seg", ssdo', "idle")
    BY <1>2, <2>2 DEF Good, Uploading, Downloading, Transfer
  <2> QED
    BY <1>0, <1>4, <2>3, SameAround DEF StartTimer, Continued, Handling, Transfer
<1> QED
  BY <1>3, <1>4 DEF up_seg_next

\* Every frame in a segmented upload.
LEMMA UpSegStep ==
    ASSUME ServerInv, NEW m, co_ssdo_up_seg_on_recv(m)
    PROVE  Handling
BY SegmentSent, UpEnds DEF co_ssdo_up_seg_on_recv, Handling, Uploading

-----------------------------------------------------------------------------
(***************************************************************************)
(* Block downloads.                                                        *)
(***************************************************************************)

\* After a segment, whether or not it is the last one of its block, the window
\* is open again.
LEMMA SubDone ==
    ASSUME NEW s \in Xfer, s.offset + s.nbyte <= s.size, NEW seqno, NEW last \in BOOLEAN,
           ~last => /\ s.blksize = CO_SSDO_MAX_SEQNO
                    /\ s.ackseq < s.blksize \/ (s.ackseq = s.blksize /\ seqno = s.blksize),
           NEW out, blk_dn_sub_done(s, seqno, last, out),
           app' \in {"idle", "open"},
           app' = "open" => s.dn_ind /\ s.obj \in Objects \ ReadOnly
    PROVE  /\ s_state' \in Transfer
           /\ s_timer' = (s_timer \/ s_timeout)
           /\ Good(s_state', ssdo', app')
<1>1. CO_SSDO_MAX_SEQNO \in 1 .. 127
  BY SsdoAssumption
<1>2. /\ s_state' = (IF last THEN "blk_dn_end" ELSE "blk_dn_sub")
      /\ s_timer' = (s_timer \/ s_timeout)
  BY DEF blk_dn_sub_done, StartTimer
<1>3. /\ ssdo' \in Xfer /\ ssdo'.obj = s.obj /\ ssdo'.dn_ind = s.dn_ind /\ ssdo'.offset = s.offset
      /\ ssdo'.nbyte = s.nbyte /\ ssdo'.size = s.size /\ ssdo'.blksize = s.blksize
      /\ ~last => ssdo'.ackseq < ssdo'.blksize
  <2>1. CASE ssdo' = [s EXCEPT !.ackseq = 0]
    BY <1>1, <2>1 DEF Xfer
  <2>2. CASE ssdo' = s /\ seqno # s.blksize
    BY <2>2 DEF Xfer
  <2> QED
    BY <2>1, <2>2 DEF blk_dn_sub_done
<1>4. Good(s_state', ssdo', app')
  BY <1>2, <1>3 DEF Good, Downloading, Uploading, Transfer
<1> QED
  BY <1>2, <1>4 DEF Transfer

\* The next segment of the block.
LEMMA SubNext ==
    ASSUME ServerInv, s_state = "blk_dn_sub", NEW m, IsFrame(m),
           NEW seqno \in 1 .. ssdo.blksize, seqno = ssdo.ackseq + 1,
           NEW last \in BOOLEAN, blk_dn_sub_next(m, seqno, last)
    PROVE  Handling
<1> DEFINE s == blk_dn_sub_ack
<1>0. /\ ssdo \in Xfer /\ ssdo.offset + ssdo.nbyte <= ssdo.size
      /\ ssdo.ackseq < ssdo.blksize /\ ssdo.blksize = CO_SSDO_MAX_SEQNO
      /\ app = "open" => ssdo.obj \in Objects \ ReadOnly
  BY DEF ServerInv, Good
<1>1. /\ s \in Xfer /\ s.obj = ssdo.obj /\ s.size = ssdo.size /\ s.offset = ssdo.offset
      /\ s.nbyte = ssdo.nbyte /\ s.ackseq = seqno /\ s.blksize = ssdo.blksize
  <2>1. /\ ssdo.crc \in Bytes /\ ssdo.data \in Bytes /\ ssdo.nbyte \in Nat
        /\ ssdo.ackseq \in 0 .. 127 /\ ssdo.blksize \in 0 .. 127
    BY <1>0 DEF Xfer
  <2>2. Cat(ssdo.crc, Part(ssdo.data, 0, ssdo.nbyte)) \in Bytes
    BY <2>1, PartBytes, CatBytes
  <2>3. PICK a \in 0 .. 127, c \in Bytes :
            /\ a = ssdo.ackseq + 1
            /\ c = IF ssdo.gencrc THEN Cat(ssdo.crc, Part(ssdo.data, 0, ssdo.nbyte)) ELSE ssdo.crc
    BY <2>1, <2>2
  <2>4. ssdo \in Xfer
    BY <1>0
  <2>5. LET x == [ssdo EXCEPT !.ackseq = a, !.crc = c]
        IN  /\ x \in Xfer /\ x.obj = ssdo.obj /\ x.size = ssdo.size /\ x.offset = ssdo.offset
            /\ x.nbyte = ssdo.nbyte /\ x.ackseq = a /\ x.blksize = ssdo.blksize
    BY <2>4 DEF Xfer
  <2>6. s = [ssdo EXCEPT !.ackseq = a, !.crc = c]
    BY <2>3, <2>4 DEF Xfer, blk_dn_sub_ack
  <2> HIDE DEF s
  <2> QED
    BY <2>3, <2>5, <2>6
<1>2. PICK refuse \in Refusals, par \in ParWrite :
        LET r == co_ssdo_dn_ind(s, refuse, par)
        IN  \/ r.ac # "0" /\ Refuse(r)
            \/ r.ac = "0" /\ blk_dn_sub_keep(r, m, seqno, last)
  BY DEF blk_dn_sub_next
<1> HIDE DEF s
<1> DEFINE r == co_ssdo_dn_ind(s, refuse, par)
           n == MinOf(r.sdo.size - r.sdo.offset - r.sdo.nbyte, 7)
           t == [r.sdo EXCEPT !.data = Part(m.data, 0, n), !.offset = @ + r.sdo.nbyte, !.nbyte = n]
<1>3. IndicatedFor(r, s)
  BY <1>0, <1>1, DnInd
<1>4. /\ r.sdo \in Xfer /\ r.sdo.offset \in Nat /\ r.sdo.nbyte \in Nat /\ r.sdo.size \in Nat
      /\ r.sdo.offset + r.sdo.nbyte <= r.sdo.size
  <2>1. s.offset \in Nat /\ s.nbyte \in Nat /\ s.size \in Nat
    BY <1>1 DEF Xfer
  <2>2. r.sdo \in Xfer
    BY <1>3 DEF IndicatedFor
  <2>3. CASE r.sdo = NoXfer
    BY <2>2, <2>3, NoXferFields
  <2>4. CASE r.sdo # NoXfer
    BY <1>0, <1>1, <1>3, <2>1, <2>2, <2>4 DEF IndicatedFor
  <2> QED
    BY <2>3, <2>4
<1> HIDE DEF r
<1>5. n \in Nat /\ r.sdo.offset + r.sdo.nbyte + n <= r.sdo.size
  BY <1>4 DEF MinOf
<1>6. n = 7 => r.sdo.ackseq = seqno /\ r.sdo.blksize = CO_SSDO_MAX_SEQNO
  BY <1>0, <1>1, <1>3, NoXferFields DEF IndicatedFor, MinOf
<1> HIDE DEF n
<1>7. CASE r.ac # "0" /\ Refuse(r)
  BY <1>3, <1>7, IndicationEnds
<1>8. CASE Apply([r EXCEPT !.app = Told(r.sdo, @)]) /\ co_ssdo_abort_ind
  <2>1. Told(r.sdo, r.app) = "idle"
    BY <1>3 DEF Told, IndicatedFor
  <2>2. Around /\ app' = "idle"
    BY <1>3, <1>8, <2>1 DEF Apply, Around, IndicatedFor
  <2> QED
    BY <1>8, <2>2 DEF Ended, Handling
<1>9. CASE (last \/ n = 7) /\ Apply(r) /\ blk_dn_sub_done(t, seqno, last, r.out)
  <2>1. Around /\ app' = r.app
    BY <1>3, <1>9, ApplyAround
  <2>2. /\ t \in Xfer /\ t.obj = r.sdo.obj /\ t.dn_ind = r.sdo.dn_ind /\ t.size = r.sdo.size
        /\ t.offset = r.sdo.offset + r.sdo.nbyte /\ t.nbyte = n
        /\ t.ackseq = r.sdo.ackseq /\ t.blksize = r.sdo.blksize
    <3>1. Part(m.data, 0, n) \in Bytes
      BY <1>5, PartBytes, FrameFields
    <3>2. PICK d \in Bytes, o \in Nat, k \in Nat :
              d = Part(m.data, 0, n) /\ o = r.sdo.offset + r.sdo.nbyte /\ k = n
      BY <1>4, <1>5, <3>1
    <3>3. r.sdo \in Xfer
      BY <1>4
    <3>4. LET x == [r.sdo EXCEPT !.data = d, !.offset = o, !.nbyte = k]
          IN  /\ x \in Xfer /\ x.obj = r.sdo.obj /\ x.dn_ind = r.sdo.dn_ind /\ x.size = r.sdo.size
              /\ x.offset = o /\ x.nbyte = k
              /\ x.ackseq = r.sdo.ackseq /\ x.blksize = r.sdo.blksize
      BY <3>3 DEF Xfer
    <3>5. t = [r.sdo EXCEPT !.data = d, !.offset = o, !.nbyte = k]
      BY <3>2, <3>3 DEF Xfer
    <3> HIDE DEF t
    <3> QED
      BY <3>2, <3>4, <3>5
  <2> HIDE DEF t
  <2>3. t.offset + t.nbyte <= t.size
    BY <1>5, <2>2
  <2>4. ~last => /\ t.blksize = CO_SSDO_MAX_SEQNO
                 /\ t.ackseq < t.blksize \/ (t.ackseq = t.blksize /\ seqno = t.blksize)
    BY <1>0, <1>6, <1>9, <2>2 DEF Xfer
  <2>5. /\ app' \in {"idle", "open"}
        /\ app' = "open" => t.dn_ind /\ t.obj \in Objects \ ReadOnly
    BY <1>3, <2>1, <2>2 DEF IndicatedFor
  <2>6. /\ s_state' \in Transfer
        /\ s_timer' = (s_timer \/ s_timeout)
        /\ Good(s_state', ssdo', app')
    BY <1>9, <2>2, <2>3, <2>4, <2>5, SubDone
  <2> QED
    BY <2>1, <2>6 DEF Continued, Handling
<1> QED
  BY <1>2, <1>7, <1>8, <1>9 DEF r, n, blk_dn_sub_keep

\* Every frame in the middle of a block download.
LEMMA BlkDnSubStep ==
    ASSUME ServerInv, NEW m, IsFrame(m), co_ssdo_blk_dn_sub_on_recv(m)
    PROVE  Handling
<1> DEFINE seqno == m.cs % CO_SDO_SEQ_LAST
           last == m.cs >= CO_SDO_SEQ_LAST
<1>0. s_state = "blk_dn_sub" /\ last \in BOOLEAN
  BY DEF co_ssdo_blk_dn_sub_on_recv
<1>1. CASE AbortedDn \/ \E ac : co_ssdo_abort_dn_res(ac)
  BY <1>0, <1>1, DnEnds DEF Downloading
<1>2. CASE /\ seqno \in 1 .. ssdo.blksize /\ seqno = ssdo.ackseq + 1
           /\ blk_dn_sub_next(m, seqno, last)
  BY <1>0, <1>2, SubNext
<1>3. CASE blk_dn_sub_skip(seqno, last)
  <2>1. /\ blk_dn_sub_done(ssdo, seqno, last, <<>>)
        /\ UNCHANGED app /\ Same
    BY <1>3 DEF blk_dn_sub_skip
  <2>2. /\ ssdo \in Xfer /\ ssdo.offset + ssdo.nbyte <= ssdo.size
        /\ ssdo.blksize = CO_SSDO_MAX_SEQNO /\ ssdo.ackseq < ssdo.blksize
        /\ app \in {"idle", "open"}
        /\ app = "open" => ssdo.dn_ind /\ ssdo.obj \in Objects \ ReadOnly
    BY <1>0 DEF ServerInv, Good
  <2>3. /\ s_state' \in Transfer
        /\ s_timer' = (s_timer \/ s_timeout)
        /\ Good(s_state', ssdo', app')
    <3> HIDE DEF seqno, last
    <3> QED
      BY <1>0, <2>1, <2>2, SubDone
  <2> QED
    BY <1>0, <2>1, <2>3, SameAround DEF Continued, Handling
<1> QED
  BY <1>1, <1>2, <1>3 DEF co_ssdo_blk_dn_sub_on_recv

\* Every frame at the end of a block download.
LEMMA BlkDnEndStep ==
    ASSUME ServerInv, NEW m, co_ssdo_blk_dn_end_on_recv(m)
    PROVE  Handling
<1>0. s_state = "blk_dn_end"
  BY DEF co_ssdo_blk_dn_end_on_recv
<1>1. CASE AbortedDn \/ \E ac : co_ssdo_abort_dn_res(ac)
  BY <1>0, <1>1, DnEnds DEF Downloading
<1>2. CASE blk_dn_end_error(m) = "0" /\ blk_dn_end_store
  <2>1. ssdo \in Xfer /\ (app = "open" => ssdo.obj \in Objects \ ReadOnly)
    BY DEF ServerInv, Good
  <2>2. ssdo.size = ssdo.offset + ssdo.nbyte
    BY <1>2 DEF blk_dn_end_error
  <2>3. co_sdo_req_last(ssdo)
    BY <2>1, <2>2 DEF co_sdo_req_last, Xfer
  <2>4. PICK refuse \in Refusals, par \in ParWrite :
            LET r == co_ssdo_dn_ind(ssdo, refuse, par)
            IN  (r.ac # "0" /\ Refuse(r)) \/ (Apply(r) /\ co_ssdo_abort_ind)
    BY <1>2 DEF blk_dn_end_store
  <2>5. IndicatedFor(co_ssdo_dn_ind(ssdo, refuse, par), ssdo)
    BY <1>0, <2>1, DnInd
  <2> QED
    BY <1>0, <2>3, <2>4, <2>5, IndicationEnds
<1> QED
  BY <1>1, <1>2 DEF co_ssdo_blk_dn_end_on_recv

-----------------------------------------------------------------------------
(***************************************************************************)
(* Block uploads.                                                          *)
(***************************************************************************)

\* A block is sent, or the end of the transfer.
LEMMA BlockSent ==
    ASSUME ServerInv, s_state = "blk_up_sub", NEW s, Good("blk_up_sub", s, "idle"), blk_up_sub_send(s)
    PROVE  Handling
<1>1. /\ s_state' \in {"blk_up_sub", "blk_up_end"} /\ s_timer' = (s_timer \/ s_timeout)
      /\ ssdo' = s /\ UNCHANGED app /\ Same
  BY DEF blk_up_sub_send, StartTimer
<1>2. app' = "idle"
  BY <1>1 DEF ServerInv, Good, Downloading
<1>3. Good(s_state', ssdo', app')
  BY <1>1, <1>2 DEF Good, Uploading, Downloading, Transfer
<1> QED
  BY <1>1, <1>3, SameAround DEF Continued, Handling, Transfer

\* The number of segments in a block.
LEMMA BlkSizeKept ==
    ASSUME NEW st \in Uploading, NEW s, Good(st, s, "idle"), NEW blksize \in 0 .. 127
    PROVE  /\ Good(st, [s EXCEPT !.blksize = blksize], "idle")
           /\ [s EXCEPT !.blksize = blksize].blksize = blksize
           /\ [s EXCEPT !.blksize = blksize].buf = s.buf
<1> DEFINE t == [s EXCEPT !.blksize = blksize]
<1>1. s \in Xfer
  BY DEF Good
<1>2. /\ t \in Xfer /\ t.buf = s.buf /\ t.pos = s.pos /\ t.data = s.data /\ t.nbyte = s.nbyte
      /\ t.size = s.size /\ t.offset = s.offset /\ t.blksize = blksize
  BY <1>1 DEF Xfer
<1> HIDE DEF t
<1>3. Good(st, t, "idle")
  BY <1>2 DEF Good, Uploading, Transfer
<1> QED
  BY <1>2, <1>3 DEF t

\* The buffer is filled up.
LEMMA FilledGood ==
    ASSUME NEW st \in Uploading, NEW s, Good(st, s, "idle")
    PROVE  Good(st, Filled(s), "idle")
<1>1. s.blksize \in 0 .. 127 /\ s.buf.n \in Nat
  BY DEF Good, Xfer, Bytes
<1>2. CASE 7 * s.blksize > s.buf.n
  <2> DEFINE n == 7 * s.blksize - s.buf.n
             t == co_ssdo_up_buf(s, n)
  <2>1. n \in Nat /\ s.buf.n + n = 7 * s.blksize
    BY <1>1, <1>2
  <2>2. Good(st, t, "idle") /\ t.buf.n <= 7 * s.blksize
    <3> HIDE DEF n
    <3> QED
      BY <2>1, UpBuf
  <2>3. Filled(s) = [t EXCEPT !.blksize = (t.buf.n + 6) \div 7]
    BY <1>2 DEF Filled
  <2> HIDE DEF t
  <2>4. t.buf.n \in Nat
    BY <2>2 DEF Good, Xfer, Bytes
  <2>5. (t.buf.n + 6) \div 7 \in 0 .. 127
    <3>1. PICK x \in Nat, y \in 0 .. 127 : x = t.buf.n /\ y = s.blksize
      BY <1>1, <2>4
    <3>2. x <= 7 * y
      BY <2>2, <3>1
    <3>3. (x + 6) \div 7 \in 0 .. 127
      BY <3>2, SMTT(30)
    <3> QED
      BY <3>1, <3>3
  <2>6. PICK b \in 0 .. 127 : b = (t.buf.n + 6) \div 7
    BY <2>5
  <2>7. Filled(s) = [t EXCEPT !.blksize = b]
    BY <2>3, <2>6, Zenon
  <2>8. Good(st, t, "idle")
    BY <2>2
  <2>9. Good(st, [t EXCEPT !.blksize = b], "idle")
    BY <2>8, BlkSizeKept
  <2> QED
    BY <2>7, <2>9
<1>3. CASE ~(7 * s.blksize > s.buf.n)
  BY <1>3 DEF Filled
<1> QED
  BY <1>2, <1>3

\* The acknowledged segments are removed.
LEMMA FlushedGood ==
    ASSUME NEW st \in Uploading, NEW s, Good(st, s, "idle"), NEW ackseq \in Nat
    PROVE  Good(st, Flushed(s, ackseq), "idle")
<1> DEFINE k == MinOf(7 * ackseq, s.buf.n)
           t == Flushed(s, ackseq)
<1>1. /\ s \in Xfer /\ s.pos \in Nat /\ s.nbyte \in Nat /\ s.buf \in Bytes /\ s.buf.n \in Nat
      /\ s.data \in Bytes /\ s.data.n = s.nbyte
      /\ s.pos <= s.nbyte /\ s.nbyte = s.size /\ s.offset = 0 /\ s.buf.n <= s.pos
      /\ s.buf = Part(s.data, s.pos - s.buf.n, s.buf.n)
  BY DEF Good, Xfer, Bytes
<1>2. k \in Nat /\ k <= s.buf.n
  BY <1>1 DEF MinOf
<1>3. t = [s EXCEPT !.buf = Part(s.buf, k, s.buf.n - k)]
  BY <1>1 DEF Flushed, Xfer
<1> HIDE DEF k, t
<1>4. PICK n \in Nat, lo \in Nat : n = s.buf.n - k /\ lo = s.pos - s.buf.n
  BY <1>1, <1>2
<1>5. Part(s.buf, k, n) = Part(s.data, lo + k, n)
  BY <1>1, <1>2, <1>4, PartPart
<1>6. PICK b \in Bytes : b = Part(s.buf, k, n) /\ b.n = n
  <2>1. s.buf \in Bytes /\ k \in Nat
    BY <1>1, <1>2
  <2>2. Part(s.buf, k, n) \in Bytes /\ Part(s.buf, k, n).n = n
    BY <2>1, PartBytes
  <2> QED
    BY <2>2
<1>7. t = [s EXCEPT !.buf = b]
  BY <1>3, <1>4, <1>6, Zenon
<1>8. s \in Xfer
  BY <1>1
<1>9. /\ t \in Xfer /\ t.buf = b /\ t.pos = s.pos /\ t.data = s.data /\ t.nbyte = s.nbyte
      /\ t.size = s.size /\ t.offset = s.offset
  BY <1>7, <1>8 DEF Xfer
<1>10. t.buf.n <= t.pos /\ t.pos - t.buf.n = lo + k
  BY <1>1, <1>2, <1>4, <1>6, <1>9
<1>11. Good(st, t, "idle")
  BY <1>1, <1>5, <1>6, <1>9, <1>10 DEF Good, Uploading, Transfer
<1> QED
  BY <1>11 DEF t

\* Every frame in the middle of a block upload.
LEMMA BlkUpSubStep ==
    ASSUME ServerInv, NEW m, IsFrame(m), co_ssdo_blk_up_sub_on_recv(m)
    PROVE  Handling
<1> DEFINE flushed == [Flushed(ssdo, m.b[1]) EXCEPT !.blksize = m.b[2]]
<1>0. s_state = "blk_up_sub"
  BY DEF co_ssdo_blk_up_sub_on_recv
<1>1. Good("blk_up_sub", ssdo, "idle")
  BY <1>0 DEF ServerInv, Good, Downloading
<1>2. CASE AbortedUp \/ \E ac : co_ssdo_abort_up_res(ac)
  BY <1>0, <1>2, UpEnds DEF Uploading
<1>3. CASE blk_up_sub_send(Filled(ssdo))
  BY <1>0, <1>1, <1>3, FilledGood, BlockSent DEF Uploading
<1>4. CASE ValidBlkSize(m.b[2]) /\ blk_up_sub_send(Filled(flushed))
  <2>1. m.b[1] \in Nat /\ m.b[2] \in 0 .. 127
    <3>1. m.b[1] \in 0 .. 255
      BY FrameFields
    <3>2. m.b[2] \in 1 .. CO_SSDO_MAX_SEQNO
      BY <1>4 DEF ValidBlkSize
    <3> QED
      BY <3>1, <3>2, SsdoAssumption
  <2>2. Good("blk_up_sub", Flushed(ssdo, m.b[1]), "idle")
    BY <1>1, <2>1, FlushedGood DEF Uploading
  <2>3. Good("blk_up_sub", flushed, "idle")
    BY <2>1, <2>2, BlkSizeKept DEF Uploading
  <2> HIDE DEF flushed
  <2> QED
    BY <1>0, <1>4, <2>3, FilledGood, BlockSent DEF Uploading
<1> QED
  BY <1>2, <1>3, <1>4 DEF co_ssdo_blk_up_sub_on_recv

\* Every frame at the end of a block upload.
LEMMA BlkUpEndStep ==
    ASSUME ServerInv, NEW m, co_ssdo_blk_up_end_on_recv(m)
    PROVE  Handling
BY UpEnds DEF co_ssdo_blk_up_end_on_recv, Uploading

-----------------------------------------------------------------------------
(***************************************************************************)
(* The service and the theorems.                                           *)
(***************************************************************************)

\* Every frame and every timeout.
LEMMA EventStep ==
    ASSUME ServerInv
    PROVE  /\ \A m \in SsdoFrames : co_ssdo_recv(m) => Handling
           /\ co_ssdo_timer => Handling
<1>1. ASSUME NEW m \in SsdoFrames, co_ssdo_recv(m) PROVE Handling
  <2>1. IsFrame(m)
    BY SsdoEnvAssumption DEF IsFrame
  <2> QED
    BY <1>1, <2>1, WaitStep, DnSegStep, UpSegStep, BlkDnSubStep, BlkDnEndStep, BlkUpSubStep,
       BlkUpEndStep DEF co_ssdo_recv
<1>2. ASSUME co_ssdo_timer PROVE Handling
  <2>1. s_state # "stopped" /\ Told(ssdo, app) = "idle" /\ s_timer /\ s_timeout
    BY <1>2 DEF co_ssdo_timer, Transfer, Told, ServerInv, Good, SsdoTimerHasHandler
  <2>2. co_ssdo_abort_ind
    BY <1>2, <2>1 DEF co_ssdo_timer, co_ssdo_abort_ind
  <2> QED
    BY <1>2, <2>1, <2>2, SameAround DEF co_ssdo_timer, Ended, Handling
<1> QED
  BY <1>1, <1>2

\* The application starts, stops or reconfigures the server.
LEMMA AdministerSafe ==
    ASSUME ServerInv
    PROVE  /\ \A valid \in BOOLEAN : co_ssdo_start(valid) => ServerInv'
           /\ \A valid \in BOOLEAN : co_1200_dn_ind(valid) => ServerInv'
           /\ co_ssdo_stop => ServerInv'
           /\ \A timeout \in BOOLEAN : co_ssdo_set_timeout(timeout) => ServerInv'
<1>0. ASSUME co_ssdo_emit_abort PROVE ssdo' = NoXfer /\ app' = "idle"
  BY <1>0 DEF co_ssdo_emit_abort, Told, ServerInv, Good, Downloading
<1>1. ASSUME NEW valid \in BOOLEAN, co_ssdo_start(valid) PROVE ServerInv'
  <2>1. ssdo = NoXfer /\ app = "idle" /\ s_timer = FALSE
    BY <1>1 DEF co_ssdo_start, ServerInv, Good, SsdoTimerHasHandler, Transfer
  <2>2. Good(s_state', ssdo', app')
    BY <1>1, <2>1, NoXferGood DEF co_ssdo_start
  <2> QED
    BY <1>1, <2>1, <2>2 DEF co_ssdo_start, ServerInv, Good, SsdoTimerHasHandler, SsdoRecvHasHandler
<1>2. ASSUME NEW valid \in BOOLEAN, co_1200_dn_ind(valid) PROVE ServerInv'
  <2>1. Good(s_state', ssdo', app')
    BY <1>0, <1>2, NoXferGood DEF co_1200_dn_ind
  <2>2. od' \in [Objects -> Bytes]
    <3>1. LocalPar(valid) \in Bytes
      <4>1. "cobid" \in STRING /\ "no cobid" \in STRING
        BY SsdoEnvAssumption
      <4>2. /\ [v |-> "cobid", lo |-> 0, n |-> 4] \in Bytes
            /\ [v |-> "no cobid", lo |-> 0, n |-> 4] \in Bytes
        BY <4>1 DEF Bytes
      <4>3. \A v : Whole(v, 4) = [v |-> v, lo |-> 0, n |-> 4]
        BY DEF Whole
      <4>4. LocalPar(valid) = Whole("cobid", 4) \/ LocalPar(valid) = Whole("no cobid", 4)
        BY DEF LocalPar
      <4> QED
        BY <4>2, <4>3, <4>4, Zenon
    <3> QED
      BY <1>2, <3>1 DEF co_1200_dn_ind, ServerInv
  <2>3. s_timer' = FALSE
    BY <1>2 DEF co_1200_dn_ind, ServerInv, SsdoTimerHasHandler
  <2> QED
    BY <1>2, <2>1, <2>2, <2>3 DEF co_1200_dn_ind, ServerInv, Good, SsdoTimerHasHandler, SsdoRecvHasHandler
<1>3. ASSUME co_ssdo_stop PROVE ServerInv'
  <2>1. Good(s_state', ssdo', app')
    BY <1>0, <1>3, NoXferGood DEF co_ssdo_stop
  <2> QED
    BY <1>3, <2>1 DEF co_ssdo_stop, ServerInv, Good, SsdoTimerHasHandler, SsdoRecvHasHandler
<1>4. ASSUME NEW timeout \in BOOLEAN, co_ssdo_set_timeout(timeout) PROVE ServerInv'
  BY <1>4 DEF co_ssdo_set_timeout, ServerInv, Good, SsdoTimerHasHandler, SsdoRecvHasHandler
<1> QED
  BY <1>1, <1>2, <1>3, <1>4

\* The invariant holds at first.
LEMMA InitSafe == SsdoInit => ServerInv
<1> SUFFICES ASSUME SsdoInit PROVE ServerInv
  OBVIOUS
<1>1. Good(s_state, ssdo, app)
  BY NoXferGood DEF SsdoInit
<1> QED
  BY <1>1, SsdoEnvAssumption DEF SsdoInit, ServerInv, SsdoTimerHasHandler, SsdoRecvHasHandler

\* Every step keeps it.
LEMMA StepSafe ==
    ASSUME ServerInv, [SsdoNext]_s_vars
    PROVE  ServerInv'
<1>1. CASE SsdoSent \/ UNCHANGED s_vars
  BY <1>1 DEF SsdoSent, s_vars, ServerInv, Good, SsdoTimerHasHandler, SsdoRecvHasHandler
<1>2. CASE (\E m \in SsdoFrames : co_ssdo_recv(m)) \/ co_ssdo_timer
  BY <1>2, EventStep, HandlingSafe
<1>3. CASE \/ \E valid \in BOOLEAN : co_ssdo_start(valid) \/ co_1200_dn_ind(valid)
           \/ co_ssdo_stop
           \/ \E timeout \in BOOLEAN : co_ssdo_set_timeout(timeout)
  BY <1>3, AdministerSafe
<1> QED
  BY <1>1, <1>2, <1>3 DEF SsdoNext

\* The inductive invariant of the server holds whatever frames arrive, whenever
\* the timer expires and however the service is started, stopped and
\* reconfigured in the meantime.
THEOREM Invariance == SsdoSpec => []ServerInv
<1>1. SsdoInit => ServerInv
  BY InitSafe
<1>2. ServerInv /\ [SsdoNext]_s_vars => ServerInv'
  BY StepSafe
<1> QED
  BY <1>1, <1>2, PTL DEF SsdoSpec

\* All fields of the server keep their types.
THEOREM TypeCorrect == SsdoSpec => []SsdoTypeOK
<1>1. ServerInv => SsdoTypeOK
  BY DEF ServerInv, Good, SsdoTypeOK
<1> QED
  BY <1>1, Invariance, PTL

\* The timer and the receiver are only active in states that have a handler for
\* them, so that co_ssdo_emit_time() and co_ssdo_emit_recv() always find one.
THEOREM EventsHaveHandlers == SsdoSpec => [](SsdoTimerHasHandler /\ SsdoRecvHasHandler)
<1>1. ServerInv => SsdoTimerHasHandler /\ SsdoRecvHasHandler
  BY DEF ServerInv
<1> QED
  BY <1>1, Invariance, PTL

\* However a transfer ends, nothing of it is left and the application is not
\* left waiting for the rest of a value.
THEOREM NothingLeftBehind == SsdoSpec => [](CleanBetweenTransfers /\ OpenIsKnown)
<1>1. ServerInv => CleanBetweenTransfers /\ OpenIsKnown
  BY DEF ServerInv, Good, CleanBetweenTransfers, OpenIsKnown
<1> QED
  BY <1>1, Invariance, PTL

\* Whatever segments arrive, the server never accepts more bytes than the client
\* announced, and always has a segment left to accept in its window.
THEOREM SizeAndWindowRespected == SsdoSpec => [](SizeRespected /\ WindowOpen)
<1>1. ServerInv => SizeRespected /\ WindowOpen
  BY DEF ServerInv, Good, SizeRespected, WindowOpen
<1> QED
  BY <1>1, Invariance, PTL

\* Whatever is acknowledged, what an upload has sent and not flushed are the very
\* bytes of the value before the current position.
THEOREM UploadIsContiguous == SsdoSpec => []UploadWindow
<1>1. ServerInv => UploadWindow
  BY DEF ServerInv, Good, UploadWindow, Uploading
<1> QED
  BY <1>1, Invariance, PTL

\* The server stays inside the buffers of its request, in both directions.
THEOREM ServerStaysInBuffers == SsdoSpec => []ServerInBuffers
<1>1. SizeRespected /\ WindowOpen /\ UploadWindow => ServerInBuffers
  BY DEF ServerInBuffers
<1> QED
  BY <1>1, SizeAndWindowRespected, UploadIsContiguous, PTL
=============================================================================
