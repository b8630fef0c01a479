----------------------------- MODULE SdoService -----------------------------
(***************************************************************************)
(* What an SDO client and an SDO server promise together: a download       *)
(* replaces the value of an object as a whole or not at all, an upload     *)
(* returns a value the object has, and a request that is reported to have  *)
(* succeeded did what it says.  Requests are confirmed in order, once.     *)
(***************************************************************************)
EXTENDS Sequences, Naturals

CONSTANT Demands   \* the sequences of transfers that may be requested

VARIABLES od, accepted, confirmed

vars == <<od, accepted, confirmed>>

Init ==
    /\ accepted = <<>>
    /\ confirmed = <<>>

Download(t) == t.op \in {"dn", "blk_dn"}

Accept ==
    /\ Len(accepted) = Len(confirmed)
    /\ \E demand \in Demands : accepted' = Append(accepted, demand)
    /\ UNCHANGED <<od, confirmed>>

\* A download takes effect: also one that was given up, as long as no later
\* request has been confirmed as a success.
Store ==
    /\ \E k \in DOMAIN accepted :
         /\ \A j \in k .. Len(confirmed) : confirmed[j].ac = "0" => accepted[j] = <<>>
         /\ \E i \in DOMAIN accepted[k] :
              LET t == accepted[k][i]
              IN  Download(t) /\ od' = [od EXCEPT ![t.obj] = t.value]
    /\ UNCHANGED <<accepted, confirmed>>

\* The results in a confirmation c agree with what is stored.
Truthful(demand, c) ==
    \A i \in DOMAIN demand :
        IF Download(demand[i]) THEN od[demand[i].obj] = demand[i].value
        ELSE c.value = od[demand[i].obj]

Confirm ==
    /\ Len(confirmed) < Len(accepted)
    /\ Len(confirmed') = Len(confirmed) + 1
    /\ SubSeq(confirmed', 1, Len(confirmed)) = confirmed
    /\ LET c == confirmed'[Len(confirmed')]
       IN  c.ac = "0" => Truthful(accepted[Len(accepted)], c)
    /\ UNCHANGED <<od, accepted>>

\* A request without transfers, or whose transfers cannot be read, is confirmed
\* as soon as it is accepted.
AcceptAndConfirm ==
    /\ Len(accepted) = Len(confirmed)
    /\ \E demand \in Demands :
         /\ accepted' = Append(accepted, demand)
         /\ Len(confirmed') = Len(confirmed) + 1
         /\ confirmed'[Len(confirmed')].ac = "0" => demand = <<>>
    /\ SubSeq(confirmed', 1, Len(confirmed)) = confirmed
    /\ UNCHANGED od

Next == Accept \/ Store \/ Confirm \/ AcceptAndConfirm

Spec == Init /\ [][Next]_vars
=============================================================================
