------------------------------ MODULE SdoFrame ------------------------------
(***************************************************************************)
(* The CAN frames of the SDO protocols (lib/co/sdo.h): the command         *)
(* specifier is kept as the byte the code sends, everything else as far as *)
(* the server and the client tell it apart.                                *)
(***************************************************************************)
EXTENDS Integers, Sequences

(***************************************************************************)
(* Bytes of a value.  A buffer holds n consecutive bytes of the value v,   *)
(* starting at its byte lo; "torn" stands for anything else.               *)
(***************************************************************************)
Bytes == [v : STRING, lo : Nat, n : Nat]

NoBytes == [v |-> "none", lo |-> 0, n |-> 0]

Torn(n) == [v |-> "torn", lo |-> 0, n |-> n]

\* The complete value v of n bytes.
Whole(v, n) == IF n = 0 THEN NoBytes ELSE [v |-> v, lo |-> 0, n |-> n]

\* n bytes of b, from offset lo.
Part(b, lo, n) ==
    IF n = 0 THEN NoBytes
    ELSE IF b.v = "torn" \/ lo + n > b.n THEN Torn(n)
    ELSE [v |-> b.v, lo |-> b.lo + lo, n |-> n]

\* The bytes of a, followed by those of b.
Cat(a, b) ==
    IF a.n = 0 THEN b
    ELSE IF b.n = 0 THEN a
    ELSE IF a.v # "torn" /\ b.v = a.v /\ b.lo = a.lo + a.n
         THEN [a EXCEPT !.n = a.n + b.n]
    ELSE Torn(a.n + b.n)

MinOf(a, b) == IF a <= b THEN a ELSE b

(***************************************************************************)
(* Command specifiers.                                                     *)
(***************************************************************************)
CO_SDO_CS_ABORT == 128

CO_SDO_SCS_DN_INI_RES == 96
CO_SDO_SCS_DN_SEG_RES == 32
CO_SDO_SCS_UP_INI_RES == 64
CO_SDO_SCS_UP_SEG_RES == 0
CO_SDO_SCS_BLK_DN_RES == 160
CO_SDO_SCS_BLK_UP_RES == 192

CO_SDO_CCS_DN_INI_REQ == 32
CO_SDO_CCS_DN_SEG_REQ == 0
CO_SDO_CCS_UP_INI_REQ == 64
CO_SDO_CCS_UP_SEG_REQ == 96
CO_SDO_CCS_BLK_DN_REQ == 192
CO_SDO_CCS_BLK_UP_REQ == 160

CO_SDO_SC_INI_BLK == 0
CO_SDO_SC_END_BLK == 1
CO_SDO_SC_BLK_RES == 2
CO_SDO_SC_START_UP == 3

CO_SDO_INI_SIZE_IND == 1
CO_SDO_INI_SIZE_EXP == 2
CO_SDO_SEG_LAST == 1
CO_SDO_SEG_TOGGLE == 16
CO_SDO_BLK_SIZE_IND == 2
CO_SDO_BLK_CRC == 4
CO_SDO_SEQ_LAST == 128

\* cs & CO_SDO_CS_MASK and cs & CO_SDO_SC_MASK.
Command(cs) == 32 * (cs \div 32)

Subcommand(cs) == cs % 4

\* !!(cs & bit), for a single bit.
Has(cs, bit) == (cs \div bit) % 2 = 1

CO_SDO_INI_SIZE_EXP_GET(cs) == 4 - (cs % 16) \div 4
CO_SDO_INI_SIZE_EXP_SET(n) == (4 * (4 - n) + 3) % 16
CO_SDO_SEG_SIZE_GET(cs) == 7 - (cs % 16) \div 2
CO_SDO_SEG_SIZE_SET(n) == 2 * (7 - n)
CO_SDO_BLK_SIZE_GET(cs) == 7 - (cs % 32) \div 4
CO_SDO_BLK_SIZE_SET(n) == 4 * (7 - n)

\* The number of bytes in the last segment of a block transfer.
LastSize(size) == IF size = 0 THEN 0 ELSE ((size - 1) % 7) + 1

Flip(toggle) == CO_SDO_SEG_TOGGLE - toggle

(***************************************************************************)
(* Frames.  obj is the index and sub-index in bytes 1 to 3, n the integer  *)
(* in bytes 4 to 7 and ac the abort code in the same bytes; b holds the    *)
(* two block parameters (ackseq and blksize in bytes 1 and 2, or blksize   *)
(* and pst in bytes 4 and 5); data is the value bytes or, in the last      *)
(* frame of a block transfer, the bytes the CRC was computed from.  Bytes  *)
(* that are not an abort code read as the non-zero code "data".            *)
(***************************************************************************)
Frame(cs, obj) ==
    [cs |-> cs, len |-> 8, obj |-> obj, n |-> 0, ac |-> "data",
     b |-> <<0, 0>>, data |-> NoBytes]

SegFrame(cs) == Frame(cs, "none")

AbortFrame(obj, ac) == [Frame(CO_SDO_CS_ABORT, obj) EXCEPT !.ac = ac]

\* The k-th of the segments of a block that starts with the bytes buf; the
\* last one is marked when it completes the value.
BlkSegment(buf, k, complete) ==
    LET rest == buf.n - 7 * (k - 1)
        last == complete /\ rest <= 7
    IN  [SegFrame(k + (IF last THEN CO_SDO_SEQ_LAST ELSE 0))
            EXCEPT !.data = Part(buf, 7 * (k - 1), MinOf(rest, 7))]
=============================================================================
