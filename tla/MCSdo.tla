------------------------------- MODULE MCSdo -------------------------------
(***************************************************************************)
(* Four kinds of bus between an SDO client and an SDO server, and a client *)
(* whose application submits requests while others are withdrawn.  kind    *)
(* tells which of them is explored.                                        *)
(***************************************************************************)
EXTENDS SdoFrame

VARIABLES s_state, s_valid, s_recv, s_timeout, s_timer, ssdo, od, app, s_tx,
          c_state, c_valid, c_recv, c_timeout, c_timer, csdo, con, dcf, accepted, confirmed, c_tx,
          lost, duped, kind

bus == <<lost, duped, kind>>
server == <<s_state, s_valid, s_recv, s_timeout, s_timer, ssdo, od, app, s_tx>>
client == <<c_state, c_valid, c_recv, c_timeout, c_timer, csdo, con, dcf, accepted, confirmed, c_tx>>

\* A long value, a short one and an empty one.
ShortOd ==
    [o \in {"a", "b", "e"} |->
        IF o = "a" THEN Whole("i", 17) ELSE IF o = "b" THEN Whole("j", 3) ELSE NoBytes]

Dn(op, obj, value) == [op |-> op, obj |-> obj, value |-> value, pst |-> 0]

Up(op, obj, pst) == [op |-> op, obj |-> obj, value |-> NoBytes, pst |-> pst]

\* Every protocol, with values of no byte, of one frame, of one segment, of
\* several segments and of several blocks, as far as each supports them.
AllRequests ==
    {Dn("dn", "a", Whole("v", n)) : n \in {4, 7, 15}} \cup
    {Dn("blk_dn", "b", Whole("w", n)) : n \in {1, 7, 14, 30}} \cup
    {Dn("dn", "e", NoBytes)} \cup
    {Up("up", o, 0) : o \in {"a", "b", "e"}} \cup
    {Up("blk_up", o, pst) : o \in {"a", "b"}, pst \in {0, 20}}

Malformed == [op |-> "malformed", obj |-> "none", value |-> NoBytes, pst |-> 0]

AllDcfs == {<<>>, <<Malformed>>, <<Dn("dn", "a", Whole("x", 2)), Dn("dn", "b", Whole("y", 9))>>}

GoodDcfs == {<<>>, <<Dn("dn", "a", Whole("x", 2)), Dn("dn", "b", Whole("y", 9))>>}

\* One request of every protocol, each for more than one segment.
SomeRequests ==
    {Dn("dn", "a", Whole("v", 9)), Dn("blk_dn", "b", Whole("w", 20)),
     Up("up", "a", 0), Up("blk_up", "a", 0)}

\* Two values for one object, by both download protocols, uploads of it, and
\* expedited transfers of other objects.
LateRequests ==
    {Dn(op, "a", Whole(v, 9)) : op \in {"dn", "blk_dn"}, v \in {"v", "w"}} \cup
    {Up("up", "a", 0), Up("blk_up", "a", 0), Dn("dn", "b", Whole("y", 4)), Up("up", "b", 0)} \cup
    {Dn("dn", "e", Whole("z", 2))}

\* A block of 127 segments and a block of one.
LongOd == [o \in {"a", "b", "e"} |-> Whole("i", 890)]

LongRequests == {Dn("blk_dn", "b", Whole("w", 890)), Up("blk_up", "a", 0)}

AllFrames == 0 .. 255

\* The segments of a block of 127 but the last one.
NotLastOfBlock == 1 .. 126

\* Enough to end a request with success, and by an abort.
FewResponses ==
    {Frame(96, "a"), [Frame(67, "a") EXCEPT !.data = Whole("w", 4)], AbortFrame("a", "ERROR")}

-----------------------------------------------------------------------------

\* Nothing is lost.
Clean == INSTANCE Sdo WITH
    Objects <- {"a", "b", "e"}, ReadOnly <- {}, ParObject <- "none", Refusals <- {FALSE},
    CO_SSDO_MAX_SEQNO <- 2, CO_SDO_MAX_SEQNO <- 2, InitialOd <- ShortOd,
    Requests <- AllRequests, Resubmitted <- {}, Dcfs <- GoodDcfs, MaxRequests <- 2,
    MaxLoss <- 0, Lossy <- {}, MaxDup <- 0, EarlyTimeout <- FALSE

\* Any two frames are lost and any one is delivered twice.
Loss == INSTANCE Sdo WITH
    Objects <- {"a", "b", "e"}, ReadOnly <- {}, ParObject <- "none", Refusals <- {FALSE},
    CO_SSDO_MAX_SEQNO <- 2, CO_SDO_MAX_SEQNO <- 2, InitialOd <- ShortOd,
    Requests <- SomeRequests, Resubmitted <- {}, Dcfs <- AllDcfs, MaxRequests <- 2,
    MaxLoss <- 2, Lossy <- AllFrames, MaxDup <- 1, EarlyTimeout <- FALSE

\* Timers expire while answers are on their way.
Early == INSTANCE Sdo WITH
    Objects <- {"a", "b", "e"}, ReadOnly <- {}, ParObject <- "none", Refusals <- {FALSE},
    CO_SSDO_MAX_SEQNO <- 2, CO_SDO_MAX_SEQNO <- 2, InitialOd <- ShortOd,
    Requests <- LateRequests, Resubmitted <- {}, Dcfs <- {}, MaxRequests <- 2,
    MaxLoss <- 0, Lossy <- {}, MaxDup <- 1, EarlyTimeout <- TRUE

\* Blocks of the real size, one segment of which is lost.
Resend == INSTANCE Sdo WITH
    Objects <- {"a", "b", "e"}, ReadOnly <- {}, ParObject <- "none", Refusals <- {FALSE},
    CO_SSDO_MAX_SEQNO <- 127, CO_SDO_MAX_SEQNO <- 127, InitialOd <- LongOd,
    Requests <- LongRequests, Resubmitted <- {}, Dcfs <- {}, MaxRequests <- 1,
    MaxLoss <- 1, Lossy <- NotLastOfBlock, MaxDup <- 0, EarlyTimeout <- FALSE

\* The first of two segments, which are the last block, is lost.
LastBlock == INSTANCE Sdo WITH
    Objects <- {"a", "b", "e"}, ReadOnly <- {}, ParObject <- "none", Refusals <- {FALSE},
    CO_SSDO_MAX_SEQNO <- 127, CO_SDO_MAX_SEQNO <- 127, InitialOd <- ShortOd,
    Requests <- {Dn("blk_dn", "a", Whole("w", 14))}, Resubmitted <- {}, Dcfs <- {}, MaxRequests <- 1,
    MaxLoss <- 1, Lossy <- {1}, MaxDup <- 0, EarlyTimeout <- FALSE

\* Confirmation functions submit a request when another is withdrawn.
Withdraw == INSTANCE CsdoEnv WITH
    Requests <- {Dn("dn", "a", Whole("v", 4)), Up("up", "a", 0)},
    Resubmitted <- {Dn("dn", "a", Whole("v", 4))}, Dcfs <- GoodDcfs, MaxRequests <- 3,
    CO_SDO_MAX_SEQNO <- 2, CsdoFrames <- FewResponses

Init ==
    \/ kind \in {"clean", "loss", "early"} /\ Clean!Init
    \/ kind = "resend" /\ Resend!Init
    \/ kind = "withdraw" /\ Clean!SsdoStarted /\ Withdraw!CsdoInit /\ lost = 0 /\ duped = 0

Next ==
    \/ kind = "clean" /\ Clean!Next /\ UNCHANGED kind
    \/ kind = "loss" /\ Loss!Next /\ UNCHANGED kind
    \/ kind = "early" /\ Early!Next /\ UNCHANGED kind
    \/ kind = "resend" /\ Resend!Next /\ UNCHANGED kind
    \/ kind = "withdraw" /\ Withdraw!CsdoNext /\ UNCHANGED <<server, bus>>

\* Fairness is assumed where it matters, see Sdo.
Spec == Init /\ [][Next]_<<server, client, bus>> /\ (kind \in {"clean", "loss"} => Loss!Fairness)

LastBlockSpec ==
    /\ kind = "last_block" /\ LastBlock!Init
    /\ [][LastBlock!Next /\ UNCHANGED kind]_<<server, client, bus>>

-----------------------------------------------------------------------------

Service == INSTANCE SdoService WITH
    Demands <- {<<r>> : r \in AllRequests \cup SomeRequests \cup LateRequests \cup LongRequests
                                \cup {Dn("dn", "a", Whole("v", 4))}}
               \cup AllDcfs

\* A download changes an object as a whole and before it is confirmed as a
\* success, an upload returns the value the object has, and every request is
\* confirmed once and in order, whatever co_csdo_recv() and co_ssdo_recv() do
\* when frames are lost, late or delivered twice; also when the confirmation
\* function of a request that co_csdo_stop() or a change of the COB-IDs withdraws
\* submits another one.
ImplementsService ==
    /\ Service!Init
    /\ [][kind # "withdraw" => Service!Next]_<<od, accepted, confirmed>>
    /\ [](kind = "withdraw" => Withdraw!NeverConfirmedTwice)

\* Every request is confirmed: neither the state machine of co_csdo_recv() nor
\* its timer can leave the application waiting.
EveryRequestConfirmed == kind \in {"clean", "loss"} => Loss!EveryRequestConfirmed

\* The server does not stay in a transfer that its client has given up.
ServerReturns == kind \in {"clean", "loss"} => Loss!ServerReturns

\* On a bus that loses nothing every transfer succeeds: the two state machines
\* agree on toggle bits, sizes, sequence numbers and the last segment.  And a
\* segment lost from a full block is sent again, as the comments in
\* co_ssdo_blk_dn_sub_on_recv() and co_csdo_blk_up_sub_on_recv() say.
TransfersSucceed ==
    /\ kind = "clean" => Clean!AllSucceed
    /\ kind = "resend" => Resend!LossIsRepaired

\* "Only accept sequential segments. Dropped segments will be resent after the
\* confirmation message." (co_ssdo_blk_dn_sub_on_recv()), here of the last block.
LastBlockIsRepaired == LastBlock!LossIsRepaired
=============================================================================
