----------------------------- MODULE MCServices -----------------------------
(***************************************************************************)
(* The CAN network interface (CanNet) and three services on top of it:     *)
(* layer setting (Lss), process data with SYNC (Pdo) and emergency (Emcy). *)
(* A behaviour is one of one part; of the network interface it uses either *)
(* the timers or the receivers, which share no state but the running call  *)
(* and the error code.                                                     *)
(***************************************************************************)
EXTENDS Integers, Sequences, TLC

CONSTANTS t1, t2, r1, r2, r3, k1, k2, e1, e2, s1, s2, None

\* The part, and its variables, in the order of its module.
VARIABLES part, v1, v2, v3, v4, v5, v6, v7, v8, v9, v10

vars == <<part, v1, v2, v3, v4, v5, v6, v7, v8, v9, v10>>

-----------------------------------------------------------------------------
(* Two timers; three receivers with two keys.                              *)

MaxTimerOps == 1    \* bound on the operations of a timer callback

Net == INSTANCE CanNet WITH
    Timers <- {t1, t2}, Delays <- {1, 2}, Intervals <- 0..2, Errcs <- {e1, e2}, Recvs <- {r1, r2, r3}, Keys <- {k1, k2},
    Null <- None, InCallback <- {"stop_self", "start_new"}, MaxTime <- 3, MaxOps <- 2,
    time <- v1, next <- v2, timer <- v3, list <- v4, call <- v5, errc <- v6, ops <- v7, ghost <- v8

ASSUME Net!CanNetAssumption /\ Net!CanRecvAssumption

-----------------------------------------------------------------------------
(* A master and two slaves, LSS addresses of four numbers of two bits.     *)

Address(rev, ser) == <<0, 1, rev, ser>>
LssScene(slaves, reqs) ==
    [slaves |-> slaves, booted |-> [s \in {s1, s2} |-> FALSE], merged |-> TRUE, stops |-> FALSE, store |-> 0,
     reqs |-> reqs, ids |-> {Address(2, 1)},
     ranges |-> {<<Address(0, 0), Address(3, 3)>>, <<Address(1, 0), Address(3, 2)>>}, known |-> {0, 1, 3, 4}]

\* Scans for every address of s1; and two slaves for the other requests.
Addresses == {Address(rev, ser) : rev \in 0..3, ser \in 0..3}
Scans == {LssScene(s1 :> a @@ s2 :> b, {scan}) :
              a \in Addresses, b \in {Address(2, 1)}, scan \in {"slowscan", "fastscan"}}
    \cup {LssScene(s1 :> Address(2, ser) @@ s2 :> <<1, 1, 2, 1>>, {scan}) :
              ser \in 0..3, scan \in {"slowscan", "fastscan"}}
Few == [LssScene(s1 :> Address(1, 2) @@ s2 :> Address(1, 0), {})
            EXCEPT !.ids = {Address(1, 2)}, !.ranges = {<<Address(0, 0), Address(1, 2)>>}, !.known = {2}]
LssScenes ==
    Scans \cup {[Few EXCEPT !.merged = FALSE, !.reqs = {scan}] : scan \in {"slowscan", "fastscan"}}
          \cup {[Few EXCEPT !.merged = b, !.stops = TRUE, !.reqs = {"switch_sel", "identify"}] : b \in BOOLEAN}
          \cup {[Few EXCEPT !.merged = FALSE, !.booted[s2] = TRUE, !.stops = b, !.reqs = {"inquire"}] : b \in BOOLEAN}
          \cup {[Few EXCEPT !.booted[s2] = TRUE, !.reqs = {"configure"}, !.store = v] : v \in {0, 2}}

Layer == INSTANCE Lss WITH Slaves <- {s1, s2}, NBits <- 2, Scenes <- LssScenes, MaxLate <- 1, MaxFaults <- 1,
    scene <- v1, m <- v2, slave <- v3, bus <- v4, faults <- v5, last <- v6

ASSUME Layer!LssAssumption

-----------------------------------------------------------------------------
(* A SYNC every three ticks; PDOs of every transmission type.              *)

Tpar(trans, inhibit, event, start) ==
    [valid |-> TRUE, trans |-> trans, inhibit |-> inhibit, event |-> event, start |-> start]
Rpar(trans, event) == [valid |-> TRUE, trans |-> trans, event |-> event]
Cyclic(trans) == Tpar(trans, 0, 0, 0)
Sync0 == Rpar(0, 0)
NoPdo == [Cyclic(0) EXCEPT !.valid = FALSE]
Rtr == \hfc
RtrEvent == \hfd
Event == \hfe

\* From a to b.
Way(tx, rx, swnd, does) ==
    [tx |-> [n \in {"a", "b"} |-> IF n = "a" THEN tx ELSE NoPdo],
     rx |-> [n \in {"a", "b"} |-> IF n = "a" THEN [Sync0 EXCEPT !.valid = FALSE] ELSE rx],
     swnd |-> [n \in {"a", "b"} |-> swnd], us |-> 3, max_cnt |-> 0, later |-> FALSE, fast |-> TRUE, does |-> does,
     max_age |-> 4, max_sync |-> 1, max_faults |-> 0]

PdoScenes ==
    {[Way(Cyclic(1), Sync0, 2, {}) EXCEPT !.tx["b"] = Cyclic(1), !.rx["a"] = Sync0, !.max_sync = 4],
     [Way(Cyclic(1), Rpar(0, 2), 2, {"1400"}) EXCEPT !.fast = FALSE],
     [Way(Cyclic(1), Rpar(0, 2), 2, {"1800"}) EXCEPT !.later = TRUE],
     [Way(Cyclic(1), Rpar(0, 2), 1, {"stop"}) EXCEPT !.later = TRUE, !.max_faults = 1],
     [Way(Tpar(2, 0, 0, 2), Rpar(Event, 0), 0, {"1005", "1006", "1800"}) EXCEPT !.max_cnt = 3],
     [Way(Cyclic(2), Rpar(Event, 0), 0, {"1006", "1019"}) EXCEPT !.max_cnt = 3],
     [Way(Tpar(2, 0, 0, 2), Rpar(Event, 0), 0, {"stop"}) EXCEPT !.max_cnt = 3],
     Way(Cyclic(0), Sync0, 2, {"event", "lock", "1800"}),
     [Way(Tpar(Event, 2, 1, 0), Rpar(Event, 2), 0, {"event", "stop", "1800"}) EXCEPT !.max_faults = 1],
     [Way(Tpar(Event, 1, 2, 0), Rpar(Event, 2), 0, {"event", "lock"}) EXCEPT !.fast = FALSE],
     [Way(Cyclic(Rtr), Rpar(Event, 0), 2, {"rtr", "1800"}) EXCEPT !.max_sync = 3],
     [Way(Cyclic(RtrEvent), Rpar(Event, 0), 0, {"rtr", "event"}) EXCEPT !.later = TRUE]}

Process == INSTANCE Pdo WITH Scenes <- PdoScenes, Cycle <- 3, MaxQueue <- 3,
    scene <- v1, now <- v2, sync <- v3, tpdo <- v4, rpdo <- v5, hold <- v6, val <- v7, air <- v8, faults <- v9, seen <- v10

ASSUME Process!PdoAssumption

-----------------------------------------------------------------------------
(* Two errors, with and without an inhibit time.                           *)

Emergency == INSTANCE Emcy WITH Eecs <- {1}, Bits <- {1, 2}, Sizes <- {1}, Inhibits <- {0, 2},
    MaxErrors <- 2, MaxBuf <- 2, MaxEmcyFaults <- 1,
    cfg <- v1, emcy <- v2, od <- v3, peer <- v4, lost <- v5, watch <- v6

ASSUME Emergency!EmcyAssumption

-----------------------------------------------------------------------------
Unused == v7 = None /\ v8 = None /\ v9 = None /\ v10 = None
OfNet == part \in {"timers", "recvs"}

Init ==
    \/ OfNet /\ Net!Init /\ v9 = None /\ v10 = None
    \/ part = "lss" /\ Layer!LssInit /\ Unused
    \/ part = "pdo" /\ Process!PdoInit
    \/ part = "emcy" /\ Emergency!EmcyInit /\ Unused

Next ==
    \/ part = "timers" /\ Net!Next /\ v4' = v4 /\ v7' <= MaxTimerOps /\ UNCHANGED <<part, v9, v10>>
    \/ part = "recvs" /\ Net!Next /\ v3' = v3 /\ v1' = v1 /\ UNCHANGED <<part, v9, v10>>
    \/ part = "lss" /\ Layer!LssNext /\ UNCHANGED <<part, v7, v8, v9, v10>>
    \/ part = "pdo" /\ Process!PdoNext /\ UNCHANGED part
    \/ part = "emcy" /\ Emergency!EmcyNext /\ UNCHANGED <<part, v7, v8, v9, v10>>

\* The fairness of the parts, each in its own module.
Proceeds ==
    \/ part = "timers" /\ Net!Return /\ v4' = v4 /\ UNCHANGED <<part, v9, v10>>
    \/ part = "recvs" /\ Net!Return /\ v3' = v3 /\ UNCHANGED <<part, v9, v10>>
    \/ part = "lss" /\ Layer!Proceeds /\ UNCHANGED <<part, v7, v8, v9, v10>>
    \/ part = "emcy" /\ Emergency!Proceeds /\ UNCHANGED <<part, v7, v8, v9, v10>>

Spec == Init /\ [][Next]_vars /\ WF_vars(Proceeds)

-----------------------------------------------------------------------------
(* The properties of the parts, stated in their modules.                   *)

\* can_net_set_time() triggers every timer that is due, a periodic one once for each
\* of its periods, in the order of the times, whatever callbacks start and stop;
\* whoever drives the interface knows when to call it again, and the lists stay
\* well-formed: no receiver is in two of them (CanNet).
TicksRight ==
    /\ [](part = "timers" => Net!NoTickLost)
    /\ [](OfNet => Net!CanNetTypeOK /\ Net!NextIsFirst)
    /\ [][OfNet => Net!TicksInOrderStep]_vars

\* can_net_recv() passes a frame once to every receiver that is registered for it
\* all along, and to no other; it and can_net_set_time() keep the error code of the
\* first callback that fails.  The callback of a receiver stops at most itself and
\* starts receivers that are not registered.
FramesServed ==
    /\ [][OfNet => Net!AllReceiversServedStep /\ Net!FirstErrorKeptStep]_vars
    /\ [](OfNet => Net!ServedOnce /\ Net!OnlyReceiversServed)

\* The timer and the receiver of an LSS master are always in a state that handles
\* them, a request that reports success is true of the slaves, and a scan finds
\* the slave with the lowest address (Lss).
LssRight == part = "lss" => Layer!LssHandled /\ Layer!IndHonest /\ Layer!FoundLowest

\* PDOs are sent and acted upon at the right SYNC, in its window, spaced, and with
\* the right value (Pdo).
PdoRight == part = "pdo" => /\ Process!InWindow /\ Process!EventsSpaced
                            /\ Process!NthSync /\ Process!Pipeline

\* The error register, the error field and, once all messages are sent, the
\* consumers show the errors of the device (Emcy).
EmcyRight == part = "emcy" => Emergency!ShowsStack /\ Emergency!PeerTold

Owed ==
    \/ OfNet /\ v5.fn # "none"
    \/ part = "lss" /\ Layer!Unfinished
    \/ part = "emcy" /\ Emergency!HeldBack

\* What must happen happens: calls of the network interface return, every LSS
\* request ends, and emergency messages that the inhibit time holds back are sent.
ServicesProceed == Owed ~> ~Owed
=============================================================================
