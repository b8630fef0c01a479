----------------------------- MODULE MCSdoAny -----------------------------
(***************************************************************************)
(* The objects, the requests and the frames for SdoAny.                    *)
(***************************************************************************)
EXTENDS SdoAny

-----------------------------------------------------------------------------
(* The server.                                                             *)

\* A value that takes several segments, one that fits a frame, one that cannot
\* be written, and the COB-IDs of the server.
Od == [o \in {"a", "ro", "par"} |-> IF o = "a" THEN Whole("i", 17) ELSE Whole("j", 4)]

\* The requests of a client.
OpeningRequests ==
    {[Frame(32 + 3, o) EXCEPT !.data = Whole("v", 4)] : o \in {"ro", "par", "x"}} \cup
    {[Frame(32 + 2, "par") EXCEPT !.data = Whole("v", 4)]} \cup
    {[Frame(32 + 1, o) EXCEPT !.n = 9] : o \in {"a", "ro", "par", "x"}} \cup
    {Frame(32, "a")} \cup
    {Frame(64, o) : o \in {"a", "ro", "x"}} \cup
    {[Frame(192 + crc + 2, "a") EXCEPT !.n = n] : crc \in {0, 4}, n \in {7, 16}} \cup
    {[Frame(192 + 6, "par") EXCEPT !.n = 9]} \cup
    {Frame(192, "a"), Frame(192 + 6, "ro"), Frame(192 + 6, "x"), Frame(193, "a")} \cup
    {[Frame(160 + crc, "a") EXCEPT !.b = <<k, pst>>] : crc \in {0, 4}, k \in {0, 2, 3}, pst \in {0, 20}} \cup
    {[Frame(160 + 4, o) EXCEPT !.b = <<2, 20>>] : o \in {"ro", "x"}}

\* The frames within a transfer; the bytes are those of a value of 14 bytes.
FollowingRequests ==
    {[SegFrame(toggle + 2 * (7 - n) + last) EXCEPT !.data = Part(Whole("v", 14), 7 * (toggle \div 16), n)] :
        toggle \in {0, 16}, n \in {0, 2, 7}, last \in {0, 1}} \cup
    {SegFrame(96), SegFrame(96 + 16)} \cup
    {[SegFrame(seqno + last) EXCEPT !.data = Part(Whole("v", 14), 7 * (seqno - 1), 7)] :
        seqno \in {1, 2}, last \in {0, 128}} \cup
    {SegFrame(3)} \cup
    {[SegFrame(193 + 4 * (7 - LastSize(n))) EXCEPT !.data = Whole("v", n)] : n \in {7, 9}} \cup
    {[SegFrame(160 + 2) EXCEPT !.b = <<ackseq, k>>] : ackseq \in 0 .. 2, k \in {0, 1, 2}} \cup
    {SegFrame(160 + 3), SegFrame(160 + 1), AbortFrame("a", "ERROR")}

\* Frames that are too short, and one that is of no protocol.
ShortRequests ==
    {[f EXCEPT !.len = len] : f \in {Frame(35, "a"), Frame(64, "a"), Frame(198, "a"),
                                     [Frame(164, "a") EXCEPT !.b = <<2, 0>>],
                                     SegFrame(1), SegFrame(162)},
                              len \in {0, 1, 3, 4}} \cup
    {SegFrame(224)}

ServerFrames == OpeningRequests \cup FollowingRequests \cup ShortRequests

-----------------------------------------------------------------------------
(* The client.                                                             *)

Dn(op, n) == [op |-> op, obj |-> "a", value |-> Whole("v", n), pst |-> 0]

Up(op) == [op |-> op, obj |-> "a", value |-> NoBytes, pst |-> 0]

Transfers == {Dn("dn", 4), Dn("dn", 9), Dn("dn", 0), Dn("blk_dn", 4), Dn("blk_dn", 16),
               Up("up"), Up("blk_up")}

ConciseDcfs == {<<>>, <<Dn("dn", 4), Dn("dn", 9)>>, <<Dn("dn", 4), Malformed>>}

\* The responses of a server.
Responses ==
    {Frame(96, "a"), Frame(96, "x"), SegFrame(32), SegFrame(32 + 16)} \cup
    {[Frame(64 + 3, "a") EXCEPT !.data = Whole("w", 4)], [Frame(64 + 2, "a") EXCEPT !.data = Whole("w", 4)],
     [Frame(64 + 1, "a") EXCEPT !.n = 9], Frame(64, "a"), Frame(64, "x")} \cup
    {[SegFrame(toggle + 2 * (7 - n) + last) EXCEPT !.data = Part(Whole("w", 14), 7 * (toggle \div 16), n)] :
        toggle \in {0, 16}, n \in {2, 7}, last \in {0, 1}} \cup
    {[Frame(160 + crc, "a") EXCEPT !.b = <<k, 0>>] : crc \in {0, 4}, k \in {0, 2, 3}} \cup
    {Frame(160, "x"), SegFrame(161)} \cup
    {[SegFrame(162) EXCEPT !.b = <<ackseq, k>>] : ackseq \in 0 .. 2, k \in {0, 1, 2, 3}} \cup
    {[Frame(192 + crc + 2, "a") EXCEPT !.n = 9] : crc \in {0, 4}} \cup
    {Frame(192, "a"), Frame(194, "x")} \cup
    {[SegFrame(seqno + last) EXCEPT !.data = Part(Whole("w", 14), 7 * (seqno - 1), 7)] :
        seqno \in {1, 2}, last \in {0, 128}} \cup
    {[SegFrame(193 + 4 * (7 - n)) EXCEPT !.data = Whole("w", 9)] : n \in {0, 2, 7}} \cup
    {AbortFrame("a", "ERROR"), SegFrame(224)}

ShortResponses ==
    {[f EXCEPT !.len = len] : f \in {Frame(96, "a"), Frame(67, "a"), SegFrame(2), Frame(164, "a"),
                                     SegFrame(162), Frame(198, "a"), AbortFrame("a", "TIMEOUT")},
                              len \in {0, 1, 2, 4}}

ClientFrames == Responses \cup ShortResponses
=============================================================================
