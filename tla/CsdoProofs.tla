----------------------------- MODULE CsdoProofs -----------------------------
(***************************************************************************)
(* Proofs about the SDO client: whatever frames arrive and whenever timers *)
(* expire, it never waits for an event that its state cannot handle, and   *)
(* every request is confirmed exactly once.                                *)
(*                                                                         *)
(* Every handler does one of three things: nothing, end the transfer or    *)
(* continue it in another state.  The invariant is proved for these three, *)
(* and the handlers are shown to do no more.                               *)
(***************************************************************************)
EXTENDS SdoAny, SsdoProofs, SequenceTheorems

IsSeq(s) == \E S : s \in Seq(S)

\* What is left of a concise DCF.
IsRest(s) == \E S : s \in Seq(S) /\ \A e \in S : e = Malformed \/ IsRequest(e, {"dn"})

\* The part that also holds when requests are submitted while another is
\* withdrawn.
Handled ==
    /\ c_state \in Busy \cup {"stopped", "wait"}
    /\ c_valid \in BOOLEAN /\ c_recv \in BOOLEAN
    /\ c_timeout \in BOOLEAN /\ c_timer \in BOOLEAN
    /\ CsdoTimerHasHandler
    /\ CsdoRecvHasHandler
    /\ IsRest(dcf)
    /\ IsSeq(accepted) /\ IsSeq(confirmed)
    /\ c_state \in Busy => con # "none"
    /\ NeverConfirmedTwice

\* The part that needs all requests to be submitted by a client that is not
\* about to be stopped.
Answered ==
    /\ con # "none" => c_state \in Busy
    /\ ConfirmedOnce

Finished == \E ac, s, out : Finish(ac, s, out) /\ Same_c

GoesOn == c_state \in Busy /\ \E state \in Busy : \E s, out : Continue(state, s, out)

Serving == c_state # "stopped" /\ (UNCHANGED c_vars \/ Finished \/ GoesOn)

-----------------------------------------------------------------------------
(***************************************************************************)
(* Sequences.                                                              *)
(***************************************************************************)

\* A log, such as the list of confirmations, has a length, and appending to it
\* gives a log that is one longer.
LEMMA Logged ==
    ASSUME NEW s, IsSeq(s)
    PROVE  /\ Len(s) \in Nat
           /\ \A e : IsSeq(Append(s, e)) /\ Len(Append(s, e)) = Len(s) + 1
<1>1. PICK S : s \in Seq(S)
  BY DEF IsSeq
<1>2. Len(s) \in Nat
  BY <1>1
<1>3. ASSUME NEW e
      PROVE  IsSeq(Append(s, e)) /\ Len(Append(s, e)) = Len(s) + 1
  <2>1. s \in Seq(S \cup {e})
    BY <1>1, SeqMonotonic
  <2>2. Append(s, e) \in Seq(S \cup {e}) /\ Len(Append(s, e)) = Len(s) + 1
    BY <2>1
  <2> QED
    BY <2>2 DEF IsSeq
<1> QED
  BY <1>2, <1>3

\* The rest of a concise DCF.
LEMMA TailRest ==
    ASSUME NEW s, IsRest(s), s # <<>>
    PROVE  IsRest(Tail(s)) /\ (Head(s) = Malformed \/ IsRequest(Head(s), {"dn"}))
<1>1. PICK S : s \in Seq(S) /\ \A e \in S : e = Malformed \/ IsRequest(e, {"dn"})
  BY DEF IsRest
<1>2. Head(s) \in S /\ Tail(s) \in Seq(S)
  BY <1>1, HeadTailProperties
<1> QED
  BY <1>1, <1>2 DEF IsRest

\* A concise DCF that is submitted.
LEMMA DcfRest ==
    ASSUME NEW s, IsDcf(s)
    PROVE  IsRest(s)
BY DEF IsDcf, IsRest

\* Empty logs.
LEMMA NothingYet == IsRest(<<>>) /\ IsSeq(<<>>) /\ Len(<<>>) = 0
<1>1. <<>> \in Seq({}) /\ Len(<<>>) = 0
  OBVIOUS
<1>2. IsSeq(<<>>)
  BY <1>1 DEF IsSeq
<1>3. IsRest(<<>>)
  <2> DEFINE none == <<>>
             E == {Malformed}
  <2>1. none \in Seq(E) /\ \A e \in E : e = Malformed
    OBVIOUS
  <2> HIDE DEF none, E
  <2>2. IsRest(none)
    BY <2>1 DEF IsRest
  <2> QED
    BY <2>2 DEF none
<1> QED
  BY <1>1, <1>2, <1>3

\* A request starts in a state that waits for the answer.
LEMMA OpeningBusy ==
    ASSUME NEW r, IsRequest(r, Operations) \/ IsRequest(r, {"dn"})
    PROVE  Opening(r) \in Busy
BY DEF IsRequest, Opening, Operations, Busy

-----------------------------------------------------------------------------
(***************************************************************************)
(* The end of a transfer and its continuation.                             *)
(***************************************************************************)

\* A transfer that ends, also one of a chain that goes on with the next entry,
\* leaves no timer running and is confirmed at most once.
LEMMA FinishedHandled ==
    ASSUME Handled, c_state # "stopped", Finished
    PROVE  Handled'
<1>1. PICK ac, s, out : Finish(ac, s, out) /\ Same_c
  BY DEF Finished
<1>2. CASE con = "dcf" /\ NextEntry(ac, dcf)
  <2>1. dcf # <<>> /\ Head(dcf) # Malformed
    BY <1>2 DEF NextEntry
  <2>2. IsRest(Tail(dcf)) /\ Opening(Head(dcf)) \in Busy
    BY <2>1, TailRest, OpeningBusy DEF Handled
  <2>3. /\ c_state' = Opening(Head(dcf)) /\ con' = "dcf" /\ c_timer' = c_timeout
        /\ dcf' = Tail(dcf) /\ UNCHANGED <<accepted, confirmed, c_valid, c_recv, c_timeout>>
    BY <1>1, <1>2 DEF Finish, Begin, Same_c
  <2> QED
    BY <1>2, <2>2, <2>3 DEF Handled, CsdoTimerHasHandler, CsdoRecvHasHandler, NeverConfirmedTwice, Busy
<1>3. CASE ~(con = "dcf" /\ NextEntry(ac, dcf))
  <2>1. /\ c_state' = "wait" /\ con' = "none" /\ c_timer' = FALSE /\ dcf' = <<>>
        /\ UNCHANGED <<accepted, c_valid, c_recv, c_timeout>>
    BY <1>1, <1>3 DEF Finish, Same_c, co_csdo_abort_on_enter
  <2>2. \/ con = "none" /\ confirmed' = confirmed
        \/ con # "none" /\ \E e : confirmed' = Append(confirmed, e)
    BY <1>1, <1>3 DEF Finish
  <2>3. IsSeq(confirmed') /\ Len(confirmed') = Len(confirmed) + (IF con = "none" THEN 0 ELSE 1)
    <3>1. CASE con = "none"
      BY <2>2, <3>1, Logged DEF Handled
    <3>2. CASE con # "none"
      <4>1. PICK e : confirmed' = Append(confirmed, e)
        BY <2>2, <3>2
      <4> QED
        BY <4>1, <3>2, Logged DEF Handled
    <3> QED
      BY <3>1, <3>2
  <2>4. Len(confirmed) \in Nat /\ Len(accepted) \in Nat
    BY Logged DEF Handled
  <2>5. NeverConfirmedTwice'
    BY <2>1, <2>3, <2>4 DEF Handled, NeverConfirmedTwice
  <2> QED
    BY <2>1, <2>3, <2>5, NothingYet DEF Handled, CsdoTimerHasHandler, CsdoRecvHasHandler, Busy
<1> QED
  BY <1>2, <1>3

\* The same when every request has been submitted by a running client: the
\* number of confirmations keeps up with that of requests.
LEMMA FinishedAnswered ==
    ASSUME Handled, Answered, c_state # "stopped", Finished
    PROVE  Answered'
<1>1. PICK ac, s, out : Finish(ac, s, out) /\ Same_c
  BY DEF Finished
<1>2. CASE con = "dcf" /\ NextEntry(ac, dcf)
  <2>1. dcf # <<>> /\ Head(dcf) # Malformed
    BY <1>2 DEF NextEntry
  <2>2. Opening(Head(dcf)) \in Busy
    BY <2>1, TailRest, OpeningBusy DEF Handled
  <2>3. c_state' = Opening(Head(dcf)) /\ UNCHANGED <<accepted, confirmed>>
    BY <1>1, <1>2 DEF Finish, Begin
  <2> QED
    BY <1>2, <2>2, <2>3 DEF Answered, ConfirmedOnce
<1>3. CASE ~(con = "dcf" /\ NextEntry(ac, dcf))
  <2>1. c_state' = "wait" /\ con' = "none" /\ UNCHANGED accepted
    BY <1>1, <1>3 DEF Finish
  <2>2. \/ con = "none" /\ confirmed' = confirmed
        \/ con # "none" /\ \E e : confirmed' = Append(confirmed, e)
    BY <1>1, <1>3 DEF Finish
  <2>3. Len(confirmed) \in Nat /\ \A e : Len(Append(confirmed, e)) = Len(confirmed) + 1
    BY Logged DEF Handled
  <2>4. con = "none" <=> c_state \notin Busy
    BY DEF Handled, Answered
  <2> QED
    BY <2>1, <2>2, <2>3, <2>4 DEF Answered, ConfirmedOnce, Busy
<1> QED
  BY <1>2, <1>3

\* A transfer that goes on.
LEMMA GoesOnHandled ==
    ASSUME Handled, GoesOn
    PROVE  Handled' /\ (Answered => Answered')
<1>1. PICK state \in Busy : \E s, out : Continue(state, s, out)
  BY DEF GoesOn
<1>2. /\ c_state' \in Busy /\ c_state \in Busy
      /\ c_timer' = (c_timer \/ c_timeout)
      /\ UNCHANGED <<con, dcf, accepted, confirmed, c_valid, c_recv, c_timeout>>
  BY <1>1 DEF Continue, GoesOn, StartTimer_c, Same_c
<1> QED
  BY <1>2 DEF Handled, Answered, ConfirmedOnce, NeverConfirmedTwice, CsdoTimerHasHandler, CsdoRecvHasHandler, Busy

\* Whatever a handler does.
LEMMA ServingSafe ==
    ASSUME Handled, Serving
    PROVE  Handled' /\ (Answered => Answered')
<1>1. CASE UNCHANGED c_vars
  BY <1>1 DEF c_vars, Handled, Answered, ConfirmedOnce, NeverConfirmedTwice, CsdoTimerHasHandler, CsdoRecvHasHandler
<1>2. CASE Finished
  BY <1>2, FinishedHandled, FinishedAnswered DEF Serving
<1>3. CASE GoesOn
  BY <1>3, GoesOnHandled
<1> QED
  BY <1>1, <1>2, <1>3 DEF Serving

-----------------------------------------------------------------------------
(***************************************************************************)
(* The handlers do nothing else.                                           *)
(***************************************************************************)

\* The functions with which every handler ends: abort_ind, abort_res and the
\* success of a transfer end it, everything else continues it.
LEMMA Endings ==
    /\ \A ac : co_csdo_abort_ind(ac) => Finished
    /\ \A ac : co_csdo_abort_res(ac) => Finished
    /\ \A s, out : Complete(s, out) => Finished
<1>1. ASSUME NEW ac, co_csdo_abort_ind(ac) PROVE Finished
  BY <1>1 DEF co_csdo_abort_ind, Finished
<1>2. ASSUME NEW ac, co_csdo_abort_res(ac) PROVE Finished
  BY <1>2 DEF co_csdo_abort_res, Finished
<1>3. ASSUME NEW s, NEW out, Complete(s, out) PROVE Finished
  BY <1>3 DEF Complete, Finished
<1> QED
  BY <1>1, <1>2, <1>3

\* A frame that the state does not expect ends the transfer.
LEMMA UnexpectedEnds ==
    ASSUME NEW m, NEW expected, Unexpected(m, expected)
    PROVE  Finished
BY Endings DEF Unexpected

\* The two continuations of segmented transfers.
LEMMA SegmentStep ==
    ASSUME c_state \in Busy
    PROVE  /\ co_csdo_dn_seg_on_enter => Finished \/ GoesOn
           /\ \A s : co_csdo_send_up_seg_req(s) => GoesOn
           /\ \A s : co_csdo_blk_dn_sub_on_enter(s) => Finished \/ GoesOn
<1>1. ASSUME co_csdo_dn_seg_on_enter PROVE Finished \/ GoesOn
  <2>1. \/ \E s, out : Continue("dn_seg", s, out)
        \/ co_csdo_abort_ind("0")
    BY <1>1 DEF co_csdo_dn_seg_on_enter
  <2> QED
    BY <2>1, Endings DEF GoesOn, Busy
<1>2. ASSUME NEW s, co_csdo_send_up_seg_req(s) PROVE GoesOn
  <2>1. \E t, out : Continue("up_seg", t, out)
    BY <1>2 DEF co_csdo_send_up_seg_req
  <2> QED
    BY <2>1 DEF GoesOn, Busy
<1>3. ASSUME NEW s, co_csdo_blk_dn_sub_on_enter(s) PROVE Finished \/ GoesOn
  <2>1. \/ co_csdo_abort_res("BLK_SIZE")
        \/ \E t, out : Continue("blk_dn_sub", t, out)
        \/ \E t, out : Continue("blk_dn_end", t, out)
    BY <1>3 DEF co_csdo_blk_dn_sub_on_enter
  <2> QED
    BY <2>1, Endings DEF GoesOn, Busy
<1> QED
  BY <1>1, <1>2, <1>3

\* The frames of downloads.
LEMMA DownloadStep ==
    ASSUME NEW m
    PROVE  /\ co_csdo_dn_ini_on_recv(m) => Serving
           /\ co_csdo_dn_seg_on_recv(m) => Serving
           /\ co_csdo_blk_dn_ini_on_recv(m) => Serving
           /\ co_csdo_blk_dn_sub_on_recv(m) => Serving
           /\ co_csdo_blk_dn_end_on_recv(m) => Serving
<1>1. co_csdo_dn_ini_on_recv(m) => Serving
  BY UnexpectedEnds, Endings, SegmentStep DEF co_csdo_dn_ini_on_recv, Serving, Busy
<1>2. co_csdo_dn_seg_on_recv(m) => Serving
  BY UnexpectedEnds, Endings, SegmentStep DEF co_csdo_dn_seg_on_recv, Serving, Busy
<1>3. co_csdo_blk_dn_ini_on_recv(m) => Serving
  BY UnexpectedEnds, Endings, SegmentStep DEF co_csdo_blk_dn_ini_on_recv, Serving, Busy
<1>4. co_csdo_blk_dn_sub_on_recv(m) => Serving
  BY UnexpectedEnds, Endings, SegmentStep DEF co_csdo_blk_dn_sub_on_recv, Serving, Busy
<1>5. co_csdo_blk_dn_end_on_recv(m) => Serving
  BY UnexpectedEnds, Endings, SegmentStep DEF co_csdo_blk_dn_end_on_recv, Serving, Busy
<1> QED
  BY <1>1, <1>2, <1>3, <1>4, <1>5

\* The frames of uploads.
LEMMA UploadStep ==
    ASSUME NEW m
    PROVE  /\ co_csdo_up_ini_on_recv(m) => Serving
           /\ co_csdo_up_seg_on_recv(m) => Serving
           /\ co_csdo_blk_up_ini_on_recv(m) => Serving
           /\ co_csdo_blk_up_sub_on_recv(m) => Serving
           /\ co_csdo_blk_up_end_on_recv(m) => Serving
<1>1. c_state \in Busy /\ up_ini(m) => Finished \/ GoesOn
  BY Endings, SegmentStep DEF up_ini
<1>2. co_csdo_up_ini_on_recv(m) => Serving
  BY <1>1, UnexpectedEnds DEF co_csdo_up_ini_on_recv, Serving, Busy
<1>3. co_csdo_up_seg_on_recv(m) => Serving
  BY UnexpectedEnds, Endings, SegmentStep DEF co_csdo_up_seg_on_recv, Serving, Busy
<1>4. co_csdo_blk_up_ini_on_recv(m) => Serving
  <2> SUFFICES ASSUME co_csdo_blk_up_ini_on_recv(m) PROVE Serving
    OBVIOUS
  <2>1. /\ c_state = "blk_up_ini"
        /\ \/ Unexpected(m, {CO_SDO_SCS_UP_INI_RES, CO_SDO_SCS_BLK_UP_RES})
           \/ up_ini(m)
           \/ co_csdo_abort_res("NO_CS")
           \/ co_csdo_abort_res("ERROR")
           \/ \E s, out : Continue("blk_up_sub", s, out)
    BY DEF co_csdo_blk_up_ini_on_recv
  <2> QED
    BY <1>1, <2>1, UnexpectedEnds, Endings DEF Serving, GoesOn, Busy
<1>5. co_csdo_blk_up_sub_on_recv(m) => Serving
  <2>1. c_state = "blk_up_sub" /\ blk_up_sub(m) => Finished \/ GoesOn
    <3> SUFFICES ASSUME c_state = "blk_up_sub", blk_up_sub(m) PROVE Finished \/ GoesOn
      OBVIOUS
    <3>1. \/ co_csdo_abort_res("TYPE_LEN_HI")
          \/ \E s, out : Continue("blk_up_sub", s, out)
          \/ \E s, out : Continue("blk_up_end", s, out)
      BY DEF blk_up_sub
    <3> QED
      BY <3>1, Endings DEF GoesOn, Busy
  <2> QED
    BY <2>1, Endings DEF co_csdo_blk_up_sub_on_recv, Serving
<1>6. co_csdo_blk_up_end_on_recv(m) => Serving
  BY UnexpectedEnds, Endings DEF co_csdo_blk_up_end_on_recv, Serving
<1> QED
  BY <1>2, <1>3, <1>4, <1>5, <1>6

\* Any frame, the timer and an abort by the application.
LEMMA ClientEventStep ==
    /\ \A m : co_csdo_recv(m) => Serving
    /\ co_csdo_timer => Serving
    /\ \A ac : co_csdo_abort_req(ac) => Serving
<1>1. ASSUME NEW m, co_csdo_recv(m) PROVE Serving
  <2>1. co_csdo_wait_on_recv(m) => Serving
    BY Endings DEF co_csdo_wait_on_recv, Serving
  <2> QED
    BY <1>1, <2>1, DownloadStep, UploadStep DEF co_csdo_recv
<1>2. co_csdo_timer => Serving
  BY Endings DEF co_csdo_timer, Serving, Busy
<1>3. ASSUME NEW ac, co_csdo_abort_req(ac) PROVE Serving
  BY <1>3, Endings DEF co_csdo_abort_req, Serving, Busy
<1> QED
  BY <1>1, <1>2, <1>3

-----------------------------------------------------------------------------
(***************************************************************************)
(* The application.                                                        *)
(***************************************************************************)

\* A request that is accepted is one more to be confirmed; an empty concise DCF
\* is confirmed at once.
LEMMA SubmitSafe ==
    ASSUME Handled, Submit
    PROVE  Handled' /\ (Answered => Answered')
<1> USE DEF Same_c
<1>0. /\ Len(accepted) \in Nat /\ Len(confirmed) \in Nat
      /\ \A e : IsSeq(Append(accepted, e)) /\ Len(Append(accepted, e)) = Len(accepted) + 1
      /\ \A e : IsSeq(Append(confirmed, e)) /\ Len(Append(confirmed, e)) = Len(confirmed) + 1
  BY Logged DEF Handled
<1>1. ASSUME NEW r \in Requests, co_csdo_req(r)
      PROVE  Handled' /\ (Answered => Answered')
  <2>1. Opening(r) \in Busy
    BY CsdoAssumption, OpeningBusy
  <2>2. /\ c_state = "wait" /\ c_state' = Opening(r) /\ con' = "user"
        /\ c_timer' = (c_timer \/ c_timeout) /\ accepted' = Append(accepted, <<r>>)
        /\ UNCHANGED <<dcf, confirmed, c_valid, c_recv, c_timeout>>
    BY <1>1 DEF co_csdo_req, co_csdo_is_idle, Begin, StartTimer_c
  <2>3. NeverConfirmedTwice'
    BY <1>0, <2>2 DEF Handled, NeverConfirmedTwice
  <2>4. Handled'
    BY <1>0, <2>1, <2>2, <2>3 DEF Handled, CsdoTimerHasHandler, CsdoRecvHasHandler, Busy
  <2>5. Answered => Answered'
    BY <1>0, <2>1, <2>2 DEF Answered, ConfirmedOnce, Busy
  <2> QED
    BY <2>4, <2>5
<1>2. ASSUME NEW entries \in Dcfs, co_csdo_dn_dcf_req(entries), NextEntry("0", entries)
      PROVE  Handled' /\ (Answered => Answered')
  <2>1. entries # <<>> /\ Head(entries) # Malformed
    BY <1>2 DEF NextEntry
  <2>2. IsRest(entries)
    BY CsdoAssumption, DcfRest
  <2>3. IsRest(Tail(entries)) /\ Opening(Head(entries)) \in Busy
    BY <2>1, <2>2, TailRest, OpeningBusy
  <2>4. /\ c_state = "wait" /\ c_state' = Opening(Head(entries)) /\ con' = "dcf"
        /\ c_timer' = (c_timer \/ c_timeout) /\ accepted' = Append(accepted, entries)
        /\ dcf' = Tail(entries)
        /\ UNCHANGED <<confirmed, c_valid, c_recv, c_timeout>>
    BY <1>2 DEF co_csdo_dn_dcf_req, co_csdo_is_idle, Begin, StartTimer_c
  <2>5. NeverConfirmedTwice'
    BY <1>0, <2>4 DEF Handled, NeverConfirmedTwice
  <2>6. Handled'
    BY <1>0, <2>3, <2>4, <2>5 DEF Handled, CsdoTimerHasHandler, CsdoRecvHasHandler, Busy
  <2>7. Answered => Answered'
    BY <1>0, <2>3, <2>4 DEF Answered, ConfirmedOnce, Busy
  <2> QED
    BY <2>6, <2>7
<1>3. ASSUME NEW entries \in Dcfs, co_csdo_dn_dcf_req(entries), ~NextEntry("0", entries)
      PROVE  Handled' /\ (Answered => Answered')
  <2>1. /\ c_state = "wait" /\ accepted' = Append(accepted, entries)
        /\ \E e : confirmed' = Append(confirmed, e)
        /\ UNCHANGED <<c_state, con, c_timer, dcf, c_valid, c_recv, c_timeout>>
    BY <1>3 DEF co_csdo_dn_dcf_req, co_csdo_is_idle
  <2>2. NeverConfirmedTwice'
    BY <1>0, <2>1 DEF Handled, NeverConfirmedTwice
  <2>3. Handled'
    BY <1>0, <2>1, <2>2 DEF Handled, CsdoTimerHasHandler, CsdoRecvHasHandler
  <2>4. Answered => Answered'
    BY <1>0, <2>1 DEF Answered, ConfirmedOnce
  <2> QED
    BY <2>3, <2>4
<1> QED
  BY <1>1, <1>2, <1>3 DEF Submit

\* A transfer that is withdrawn is confirmed; the request that replaces it is one
\* more to be confirmed.
LEMMA Withdrawn ==
    ASSUME Handled, NEW again, Withdraw(again)
    PROVE  /\ IsRest(dcf)' /\ IsSeq(accepted)' /\ IsSeq(confirmed)'
           /\ NeverConfirmedTwice'
           /\ again # NoRequest /\ c_state \in Busy => con' = "user"
           /\ Answered /\ again = NoRequest =>
                /\ con' = "none"
                /\ Len(accepted)' = Len(confirmed)'
<1>0. /\ Len(accepted) \in Nat /\ Len(confirmed) \in Nat
      /\ \A e : IsSeq(Append(accepted, e)) /\ Len(Append(accepted, e)) = Len(accepted) + 1
      /\ \A e : IsSeq(Append(confirmed, e)) /\ Len(Append(confirmed, e)) = Len(confirmed) + 1
  BY Logged DEF Handled
<1>1. CASE c_state \notin Busy
  <2>1. UNCHANGED <<con, dcf, accepted, confirmed>>
    BY <1>1 DEF Withdraw
  <2> QED
    BY <1>0, <1>1, <2>1 DEF Handled, NeverConfirmedTwice, Answered, ConfirmedOnce
<1>2. CASE c_state \in Busy
  <2>1. /\ dcf' = <<>>
        /\ \E e : confirmed' = Append(confirmed, e)
        /\ \/ again = NoRequest /\ con' = "none" /\ accepted' = accepted
           \/ /\ again # NoRequest /\ con' = "user"
              /\ \E e : accepted' = Append(accepted, e)
    BY <1>2 DEF Withdraw
  <2>2. IsRest(dcf)'
    BY <2>1, NothingYet
  <2>3. NeverConfirmedTwice'
    BY <1>0, <1>2, <2>1 DEF Handled, NeverConfirmedTwice
  <2>4. IsSeq(accepted)' /\ IsSeq(confirmed)'
    BY <1>0, <2>1 DEF Handled
  <2>5. Answered /\ again = NoRequest => con' = "none" /\ Len(accepted)' = Len(confirmed)'
    BY <1>0, <1>2, <2>1 DEF Answered, ConfirmedOnce
  <2> QED
    BY <2>1, <2>2, <2>3, <2>4, <2>5
<1> QED
  BY <1>1, <1>2

\* The application starts, stops or reconfigures the client.
LEMMA ClientAdministerSafe ==
    ASSUME Handled, Administer
    PROVE  Handled' /\ (Answered /\ Resubmitted = {} => Answered')
<1>1. ASSUME NEW valid \in BOOLEAN, co_csdo_start(valid)
      PROVE  Handled' /\ (Answered => Answered')
  BY <1>1 DEF co_csdo_start, Handled, Answered, ConfirmedOnce, NeverConfirmedTwice,
              CsdoTimerHasHandler, CsdoRecvHasHandler, Busy
<1>2. ASSUME NEW timeout \in BOOLEAN, co_csdo_set_timeout(timeout)
      PROVE  Handled' /\ (Answered => Answered')
  BY <1>2 DEF co_csdo_set_timeout, Handled, Answered, ConfirmedOnce, NeverConfirmedTwice,
              CsdoTimerHasHandler, CsdoRecvHasHandler
<1>3. ASSUME NEW valid \in BOOLEAN, co_1280_dn_ind(valid)
      PROVE  Handled' /\ (Answered /\ Resubmitted = {} => Answered')
  <2>1. PICK again \in Again(valid) :
            /\ Withdraw(again)
            /\ c_state' = IF again = NoRequest THEN "wait" ELSE Opening(again)
            /\ c_timer' = (again # NoRequest /\ c_timeout)
    BY <1>3 DEF co_1280_dn_ind
  <2>2. c_valid' = valid /\ c_recv' = valid /\ c_timeout' = c_timeout
    BY <1>3 DEF co_1280_dn_ind
  <2>3. again # NoRequest => again \in Resubmitted /\ c_state \in Busy
    BY DEF Again
  <2>4. again # NoRequest => Opening(again) \in Busy
    BY <2>3, CsdoAssumption, OpeningBusy
  <2>5. /\ c_state' \in Busy \cup {"wait"}
        /\ c_state' \in Busy <=> again # NoRequest
    BY <2>1, <2>4 DEF Busy
  <2>6. Handled'
    BY <2>1, <2>2, <2>3, <2>5, Withdrawn DEF Handled, CsdoTimerHasHandler, CsdoRecvHasHandler, Busy
  <2>7. ASSUME Answered, Resubmitted = {} PROVE Answered'
    BY <2>1, <2>3, <2>5, <2>6, <2>7, Withdrawn, Logged DEF Answered, ConfirmedOnce, Handled
  <2> QED
    BY <2>6, <2>7
<1>4. ASSUME co_csdo_stop
      PROVE  Handled' /\ (Answered /\ Resubmitted = {} => Answered')
  <2>1. PICK again \in Again(c_valid) : Withdraw(again)
    BY <1>4 DEF co_csdo_stop
  <2>2. /\ c_state' = "stopped" /\ c_timer' = FALSE /\ c_recv' = FALSE
        /\ UNCHANGED <<c_valid, c_timeout>>
    BY <1>4 DEF co_csdo_stop
  <2>3. Handled'
    BY <2>1, <2>2, Withdrawn DEF Handled, CsdoTimerHasHandler, CsdoRecvHasHandler, Busy
  <2>4. ASSUME Answered, Resubmitted = {} PROVE Answered'
    <3>1. again = NoRequest
      BY <2>4 DEF Again
    <3> QED
      BY <2>1, <2>2, <2>3, <2>4, <3>1, Withdrawn, Logged DEF Answered, ConfirmedOnce, Handled, Busy
  <2> QED
    BY <2>3, <2>4
<1> QED
  BY <1>1, <1>2, <1>3, <1>4 DEF Administer

-----------------------------------------------------------------------------
(***************************************************************************)
(* The fields of a transfer.                                               *)
(***************************************************************************)

\* The transfer s in the state st: a download has not sent more than there is
\* and, in a block, at least the segments of that block; an upload starts with
\* an empty buffer and does not outgrow the size that was announced.
Fits(st, s) ==
    /\ s \in CsdoXfer
    /\ st \in {"dn_ini", "dn_seg", "blk_dn_ini", "blk_dn_sub"} => s.cur <= s.size
    /\ st = "blk_dn_sub" => (s.cur + 6) \div 7 >= s.blksize
    /\ st \in {"up_ini", "blk_up_ini"} => s.up.n = 0
    /\ st \in {"up_seg", "blk_up_sub", "blk_up_end"} => s.up.n <= s.size

FitsInv == Fits(c_state, csdo) /\ con \in {"user", "dcf", "none"}

\* The fields of a transfer that fits.
LEMMA XferFields ==
    ASSUME NEW s \in CsdoXfer
    PROVE  /\ s.size \in Nat /\ s.cur \in Nat /\ s.up \in Bytes /\ s.up.n \in Nat
           /\ s.value \in Bytes /\ s.toggle \in {0, 16} /\ s.ackseq \in 0 .. 127
           /\ s.blksize \in 0 .. 127 /\ Flip(s.toggle) \in {0, 16}
BY DEF CsdoXfer, Bytes, Flip, CO_SDO_SEG_TOGGLE

\* The first state of a transfer, in which nothing was sent or received.
LEMMA OpenedFits ==
    ASSUME NEW r, IsRequest(r, Operations) \/ IsRequest(r, {"dn"})
    PROVE  Fits(Opening(r), Opened(r)) /\ Opened(r) \in CsdoXfer
<1>1. /\ r.op \in Operations /\ r.op \in STRING /\ r.obj \in STRING
      /\ r.value \in Bytes /\ r.value.n \in Nat
  BY CsdoEnvAssumption DEF IsRequest, Operations, Bytes
<1>2. PICK op \in STRING, obj \in STRING, value \in Bytes :
          op = r.op /\ obj = r.obj /\ value = r.value
  BY <1>1
<1>3. /\ NoBytes \in Bytes /\ NoBytes.n = 0 /\ value.n \in Nat
      /\ CO_SDO_MAX_SEQNO \in 0 .. 127
  BY <1>1, <1>2, SomeBytes, CsdoAssumption DEF NoBytes
<1> DEFINE cur == IF r.op = "dn" /\ r.value.n \in 1 .. 4 THEN r.value.n ELSE 0
           blksize == IF r.op = "blk_up" THEN CO_SDO_MAX_SEQNO ELSE 0
<1>4. /\ cur \in Nat /\ cur <= value.n /\ blksize \in 0 .. 127
      /\ Opened(r) = [op |-> op, obj |-> obj, value |-> value, size |-> value.n,
                      cur |-> cur, up |-> NoBytes, toggle |-> 0, ackseq |-> 0,
                      crc |-> FALSE, blksize |-> blksize]
  <2>1. cur \in Nat /\ cur <= value.n /\ blksize \in 0 .. 127
    BY <1>2, <1>3
  <2>2. Opened(r) = [op |-> op, obj |-> obj, value |-> value, size |-> value.n,
                     cur |-> cur, up |-> NoBytes, toggle |-> 0, ackseq |-> 0,
                     crc |-> FALSE, blksize |-> blksize]
    <3> HIDE DEF cur
    <3>1. Opened(r) = [NewXfer(r) EXCEPT !.cur = cur]
      BY DEF Opened, cur
    <3> QED
      BY <1>2, <3>1 DEF NewXfer
  <2> QED
    BY <2>1, <2>2
<1> HIDE DEF cur, blksize
<1>5. Opened(r) \in CsdoXfer
  BY <1>3, <1>4 DEF CsdoXfer, CO_SDO_SEG_TOGGLE
<1>6. Opened(r).cur <= Opened(r).size /\ Opened(r).up.n = 0
  BY <1>3, <1>4
<1>7. Opening(r) \in {"dn_ini", "up_ini", "blk_dn_ini", "blk_up_ini"}
  BY <1>1 DEF Opening, Operations
<1> QED
  BY <1>5, <1>6, <1>7 DEF Fits

\* A transfer that ends, whether it is the last one of a chain or not.
LEMMA FinishFits ==
    ASSUME Handled, FitsInv, NEW ac, NEW s \in CsdoXfer, NEW out, Finish(ac, s, out)
    PROVE  FitsInv'
<1>1. CASE con = "dcf" /\ NextEntry(ac, dcf)
  <2>1. dcf # <<>> /\ Head(dcf) # Malformed
    BY <1>1 DEF NextEntry
  <2>2. IsRequest(Head(dcf), {"dn"})
    BY <2>1, TailRest DEF Handled
  <2>3. c_state' = Opening(Head(dcf)) /\ csdo' = Opened(Head(dcf)) /\ con' = "dcf"
    BY <1>1 DEF Finish, Begin
  <2> QED
    BY <2>2, <2>3, OpenedFits DEF FitsInv
<1>2. CASE ~(con = "dcf" /\ NextEntry(ac, dcf))
  <2>1. c_state' = "wait" /\ csdo' = s /\ con' = "none"
    BY <1>2 DEF Finish
  <2> QED
    BY <2>1 DEF FitsInv, Fits
<1> QED
  BY <1>1, <1>2

\* The functions with which the handlers end.
LEMMA EndingsFit ==
    ASSUME Handled, FitsInv
    PROVE  /\ \A ac : co_csdo_abort_ind(ac) => FitsInv'
           /\ \A ac : co_csdo_abort_res(ac) => FitsInv'
           /\ \A m, expected : Unexpected(m, expected) => FitsInv'
           /\ \A s \in CsdoXfer : \A out : Complete(s, out) => FitsInv'
           /\ \A st, s, out : Fits(st, s) /\ Continue(st, s, out) => FitsInv'
           /\ UNCHANGED c_vars => FitsInv'
<1>0. csdo \in CsdoXfer
  BY DEF FitsInv, Fits
<1>1. \A ac : co_csdo_abort_ind(ac) => FitsInv'
  BY <1>0, FinishFits DEF co_csdo_abort_ind
<1>2. \A ac : co_csdo_abort_res(ac) => FitsInv'
  BY <1>0, FinishFits DEF co_csdo_abort_res
<1>3. \A m, expected : Unexpected(m, expected) => FitsInv'
  BY <1>1, <1>2 DEF Unexpected
<1>4. \A s \in CsdoXfer : \A out : Complete(s, out) => FitsInv'
  BY FinishFits DEF Complete
<1>5. \A st, s, out : Fits(st, s) /\ Continue(st, s, out) => FitsInv'
  BY DEF Continue, FitsInv
<1>6. UNCHANGED c_vars => FitsInv'
  BY DEF c_vars, FitsInv, Fits
<1> QED
  BY <1>1, <1>2, <1>3, <1>4, <1>5, <1>6

\* The next segment of a download: the last one completes the value.
LEMMA DnSegFits ==
    ASSUME Handled, FitsInv, c_state \in {"dn_ini", "dn_seg"}, co_csdo_dn_seg_on_enter
    PROVE  FitsInv'
<1> DEFINE k == MinOf(csdo.size - csdo.cur, 7)
           s == [csdo EXCEPT !.cur = @ + k, !.toggle = Flip(@)]
<1>1. csdo \in CsdoXfer /\ csdo.cur <= csdo.size
  BY DEF FitsInv, Fits
<1>2. \/ \E out : Continue("dn_seg", s, out)
      \/ co_csdo_abort_ind("0")
  BY DEF co_csdo_dn_seg_on_enter
<1>3. csdo.size \in Nat /\ csdo.cur \in Nat /\ Flip(csdo.toggle) \in {0, 16}
  BY <1>1, XferFields
<1>4. csdo.cur + k \in Nat /\ csdo.cur + k <= csdo.size
  BY <1>1, <1>3 DEF MinOf
<1>5. s \in CsdoXfer /\ s.cur = csdo.cur + k /\ s.size = csdo.size
  BY <1>1, <1>3, <1>4 DEF CsdoXfer, CO_SDO_SEG_TOGGLE
<1>6. Fits("dn_seg", s)
  BY <1>4, <1>5 DEF Fits
<1> HIDE DEF s, k
<1> QED
  BY <1>2, <1>6, EndingsFit

\* The next block of a download, of which the last segment may be short: what
\* was sent then includes all of its segments.
LEMMA BlockFits ==
    ASSUME NEW cur \in Nat, NEW size \in Nat, NEW max \in Nat, cur < size
    PROVE  LET blk == Block(size - cur, max)
               next == cur + MinOf(7 * blk, size - cur)
           IN  /\ blk \in Nat /\ blk <= max
               /\ next \in Nat /\ next <= size /\ (next + 6) \div 7 >= blk
<1> DEFINE n == size - cur
           c == (n + 6) \div 7
           blk == Block(n, max)
           next == cur + MinOf(7 * blk, n)
<1>1. n \in Nat /\ n > 0 /\ c \in Nat /\ n <= 7 * c /\ 7 * c <= n + 6
  OBVIOUS
<1>2. blk \in Nat /\ blk <= c /\ blk <= max
  BY <1>1 DEF Block, MinOf
<1>3. 7 * blk <= n + 6
  BY <1>1, <1>2
<1>4. next \in Nat /\ next <= size /\ next + 6 >= 7 * blk
  BY <1>1, <1>2, <1>3 DEF MinOf
<1>5. (next + 6) \div 7 >= blk
  <2> HIDE DEF next, blk
  <2> QED
    BY <1>2, <1>4
<1> QED
  BY <1>2, <1>4, <1>5

\* Entering the block download of the transfer s.
LEMMA BlkDnEnterFits ==
    ASSUME Handled, FitsInv, NEW s, co_csdo_blk_dn_sub_on_enter(s),
           NEW b \in Nat, s.blksize = b,
           NEW x \in CsdoXfer, s = [x EXCEPT !.blksize = b], x.cur <= x.size
    PROVE  FitsInv'
<1> DEFINE n == x.size - x.cur
           blk == Block(n, b)
           t == [s EXCEPT !.blksize = blk, !.cur = @ + MinOf(7 * blk, n)]
           u == [s EXCEPT !.blksize = blk]
<1>1. x.size \in Nat /\ x.cur \in Nat /\ s.size = x.size /\ s.cur = x.cur
  BY XferFields DEF CsdoXfer
<1>2. \/ co_csdo_abort_res("BLK_SIZE")
      \/ n > 0 /\ ~(b > CO_SDO_MAX_SEQNO) /\ \E out : Continue("blk_dn_sub", t, out)
      \/ n = 0 /\ ~(b > CO_SDO_MAX_SEQNO) /\ \E out : Continue("blk_dn_end", u, out)
  BY <1>1 DEF co_csdo_blk_dn_sub_on_enter
<1>3. CASE n > 0 /\ ~(b > CO_SDO_MAX_SEQNO)
  <2>1. /\ blk \in 0 .. 127
        /\ x.cur + MinOf(7 * blk, n) \in Nat /\ x.cur + MinOf(7 * blk, n) <= x.size
        /\ (x.cur + MinOf(7 * blk, n) + 6) \div 7 >= blk
    BY <1>1, <1>3, BlockFits, CsdoAssumption
  <2>2. PICK next \in Nat, k \in 0 .. 127 :
            next = x.cur + MinOf(7 * blk, n) /\ k = blk
    BY <2>1
  <2>3. t = [x EXCEPT !.blksize = k, !.cur = next]
    BY <1>1, <2>2 DEF CsdoXfer
  <2>4. t \in CsdoXfer /\ t.cur = next /\ t.size = x.size /\ t.blksize = k
    BY <2>3 DEF CsdoXfer
  <2>5. Fits("blk_dn_sub", t)
    BY <2>1, <2>2, <2>4 DEF Fits
  <2> HIDE DEF t, u, n
  <2> QED
    BY <1>2, <1>3, <2>5, EndingsFit
<1>4. CASE n = 0 /\ ~(b > CO_SDO_MAX_SEQNO)
  <2>1. blk \in 0 .. 127
    BY <1>4, CsdoAssumption DEF Block, MinOf
  <2>2. u = [x EXCEPT !.blksize = blk]
    BY DEF CsdoXfer
  <2>3. u \in CsdoXfer
    BY <2>1, <2>2 DEF CsdoXfer
  <2>4. Fits("blk_dn_end", u)
    BY <2>3 DEF Fits
  <2> HIDE DEF t, u, n
  <2> QED
    BY <1>2, <1>4, <2>4, EndingsFit
<1> HIDE DEF t, u, n
<1> QED
  BY <1>2, <1>3, <1>4, EndingsFit

\* The frames of segmented downloads.
LEMMA DownloadFits ==
    ASSUME Handled, FitsInv, NEW m
    PROVE  /\ co_csdo_dn_ini_on_recv(m) => FitsInv'
           /\ co_csdo_dn_seg_on_recv(m) => FitsInv'
           /\ co_csdo_blk_dn_end_on_recv(m) => FitsInv'
<1>1. co_csdo_dn_ini_on_recv(m) => FitsInv'
  BY EndingsFit, DnSegFits DEF co_csdo_dn_ini_on_recv
<1>2. co_csdo_dn_seg_on_recv(m) => FitsInv'
  BY EndingsFit, DnSegFits DEF co_csdo_dn_seg_on_recv
<1>3. co_csdo_blk_dn_end_on_recv(m) => FitsInv'
  BY EndingsFit DEF co_csdo_blk_dn_end_on_recv
<1> QED
  BY <1>1, <1>2, <1>3

\* The server accepts a block download.
LEMMA BlkDnIniFits ==
    ASSUME Handled, FitsInv, NEW m, IsFrame(m), co_csdo_blk_dn_ini_on_recv(m)
    PROVE  FitsInv'
<1> DEFINE x == [csdo EXCEPT !.crc = Has(m.cs, CO_SDO_BLK_CRC)]
           s == [csdo EXCEPT !.crc = Has(m.cs, CO_SDO_BLK_CRC), !.blksize = m.b[1]]
<1>1. c_state = "blk_dn_ini" /\ csdo \in CsdoXfer /\ csdo.cur <= csdo.size
  BY DEF co_csdo_blk_dn_ini_on_recv, FitsInv, Fits
<1>2. \/ Unexpected(m, {CO_SDO_SCS_BLK_DN_RES})
      \/ \E ac : co_csdo_abort_res(ac)
      \/ co_csdo_blk_dn_sub_on_enter(s)
  BY DEF co_csdo_blk_dn_ini_on_recv
<1>3. m.b[1] \in Nat
  BY FrameFields
<1>4. PICK crc \in BOOLEAN : crc = Has(m.cs, CO_SDO_BLK_CRC)
  BY DEF Has
<1>5. x \in CsdoXfer /\ x.cur = csdo.cur /\ x.size = csdo.size
  BY <1>1, <1>4 DEF CsdoXfer
<1>6. s = [x EXCEPT !.blksize = m.b[1]] /\ s.blksize = m.b[1]
  BY <1>1 DEF CsdoXfer
<1>7. x.cur <= x.size
  BY <1>1, <1>5
<1> HIDE DEF s, x
<1>8. co_csdo_blk_dn_sub_on_enter(s) => FitsInv'
  BY <1>3, <1>5, <1>6, <1>7, BlkDnEnterFits
<1> QED
  BY <1>2, <1>8, EndingsFit

\* The server acknowledges a block: the first segment that it did not receive is
\* one of those sent.
LEMMA BlkDnSubFits ==
    ASSUME Handled, FitsInv, NEW m, IsFrame(m), co_csdo_blk_dn_sub_on_recv(m)
    PROVE  FitsInv'
<1> DEFINE x == [csdo EXCEPT !.cur = Rewound(m.b[1])]
           s == [csdo EXCEPT !.cur = Rewound(m.b[1]), !.blksize = m.b[2]]
<1>1. /\ c_state = "blk_dn_sub" /\ csdo \in CsdoXfer /\ csdo.cur <= csdo.size
      /\ (csdo.cur + 6) \div 7 >= csdo.blksize
  BY DEF co_csdo_blk_dn_sub_on_recv, FitsInv, Fits
<1>2. \/ Unexpected(m, {CO_SDO_SCS_BLK_DN_RES})
      \/ \E ac : co_csdo_abort_res(ac)
      \/ co_csdo_blk_dn_sub_on_enter(s)
  BY DEF co_csdo_blk_dn_sub_on_recv
<1>3. m.b[1] \in Nat /\ m.b[2] \in Nat
  <2>1. m.b[1] \in 0 .. 255 /\ m.b[2] \in 0 .. 255
    BY FrameFields
  <2> QED
    BY <2>1
<1>4. csdo.cur \in Nat /\ csdo.size \in Nat /\ csdo.blksize \in Nat
  BY <1>1, XferFields
<1>5. Rewound(m.b[1]) \in Nat /\ Rewound(m.b[1]) <= csdo.size
  <2>1. PICK k \in Nat : k = (csdo.cur + 6) \div 7
    BY <1>4
  <2>2. 7 * k <= csdo.cur + 6 /\ k >= csdo.blksize
    BY <1>1, <1>4, <2>1
  <2>3. CASE m.b[1] < csdo.blksize
    <3>1. Rewound(m.b[1]) = 7 * (k - (csdo.blksize - m.b[1]))
      BY <2>1, <2>3 DEF Rewound
    <3>2. k - (csdo.blksize - m.b[1]) \in Nat /\ k - (csdo.blksize - m.b[1]) <= k - 1
      BY <1>3, <1>4, <2>2, <2>3
    <3> QED
      BY <1>1, <1>4, <2>2, <3>1, <3>2
  <2>4. CASE ~(m.b[1] < csdo.blksize)
    BY <1>1, <1>4, <2>4 DEF Rewound
  <2> QED
    BY <2>3, <2>4
<1>6. PICK cur \in Nat : cur = Rewound(m.b[1]) /\ cur <= csdo.size
  BY <1>5
<1>7. x \in CsdoXfer /\ x.cur = cur /\ x.size = csdo.size
  BY <1>1, <1>6 DEF CsdoXfer
<1>8. s = [x EXCEPT !.blksize = m.b[2]] /\ s.blksize = m.b[2]
  BY <1>1 DEF CsdoXfer
<1>9. x.cur <= x.size
  BY <1>6, <1>7
<1> HIDE DEF s, x
<1>10. co_csdo_blk_dn_sub_on_enter(s) => FitsInv'
  BY <1>3, <1>7, <1>8, <1>9, BlkDnEnterFits
<1> QED
  BY <1>2, <1>10, EndingsFit

\* The request for the next segment of an upload, when s holds what was received.
LEMMA UpSegFits ==
    ASSUME Handled, FitsInv, NEW s \in CsdoXfer, s.up.n <= s.size, co_csdo_send_up_seg_req(s)
    PROVE  FitsInv'
<1> DEFINE t == [s EXCEPT !.toggle = Flip(@)]
<1>1. t \in CsdoXfer /\ t.up = s.up /\ t.size = s.size
  BY XferFields DEF CsdoXfer, CO_SDO_SEG_TOGGLE
<1>2. Fits("up_seg", t)
  BY <1>1 DEF Fits
<1>3. \E out : Continue("up_seg", t, out)
  BY DEF co_csdo_send_up_seg_req
<1> HIDE DEF t
<1> QED
  BY <1>2, <1>3, EndingsFit

\* The response to an upload request: an expedited one holds the whole value, and
\* nothing has been received otherwise.
LEMMA UpIniFits ==
    ASSUME Handled, FitsInv, c_state \in {"up_ini", "blk_up_ini"}, NEW m, IsFrame(m), up_ini(m)
    PROVE  FitsInv'
<1> DEFINE exp == Has(m.cs, CO_SDO_INI_SIZE_EXP)
           ind == Has(m.cs, CO_SDO_INI_SIZE_IND)
           size == IF exp THEN (IF ind THEN CO_SDO_INI_SIZE_EXP_GET(m.cs) ELSE m.len - 4)
                   ELSE IF ind THEN m.n ELSE 0
           s == [csdo EXCEPT !.size = size]
           t == [s EXCEPT !.up = Cat(@, Part(m.data, 0, size))]
<1>0. /\ m.cs \in 0 .. 255 /\ m.len \in 0 .. 8 /\ m.n \in Nat /\ m.data \in Bytes
  BY FrameFields
<1>1. csdo \in CsdoXfer /\ csdo.up \in Bytes /\ csdo.up.n = 0
  BY XferFields DEF FitsInv, Fits
<1>2. \/ co_csdo_abort_res("ERROR")
      \/ SameObject(m) /\ Complete(t, <<>>)
      \/ SameObject(m) /\ co_csdo_send_up_seg_req(s)
  BY DEF up_ini
<1>3. CASE SameObject(m)
  <2>1. CO_SDO_INI_SIZE_EXP_GET(m.cs) \in Nat
    BY <1>0 DEF CO_SDO_INI_SIZE_EXP_GET
  <2>2. m.len - 4 \in Nat
    BY <1>0, <1>3 DEF SameObject
  <2>3. size \in Nat
    <3> HIDE DEF exp, ind
    <3> QED
      BY <1>0, <2>1, <2>2
  <2> HIDE DEF size
  <2>4. s \in CsdoXfer /\ s.up = csdo.up /\ s.size = size
    BY <1>1, <2>3 DEF CsdoXfer
  <2>5. Part(m.data, 0, size) \in Bytes
    BY <1>0, <2>3, PartBytes
  <2>6. PICK up \in Bytes : up = Cat(s.up, Part(m.data, 0, size))
    BY <1>1, <2>4, <2>5, CatBytes
  <2>7. t \in CsdoXfer
    BY <2>4, <2>6 DEF CsdoXfer
  <2>8. s.up.n <= s.size
    BY <1>1, <2>3, <2>4
  <2> HIDE DEF s, t
  <2> QED
    BY <1>2, <2>4, <2>7, <2>8, EndingsFit, UpSegFits
<1> HIDE DEF s, t
<1> QED
  BY <1>2, <1>3, EndingsFit

\* A segment of an upload that is longer than what was announced aborts it.
LEMMA UpSegRecvFits ==
    ASSUME Handled, FitsInv, NEW m, IsFrame(m), co_csdo_up_seg_on_recv(m)
    PROVE  FitsInv'
<1> DEFINE n == CO_SDO_SEG_SIZE_GET(m.cs)
           s == [csdo EXCEPT !.up = Cat(@, Part(m.data, 0, n))]
<1>0. m.cs \in 0 .. 255 /\ m.data \in Bytes
  BY FrameFields
<1>1. csdo \in CsdoXfer /\ csdo.up \in Bytes
  BY XferFields DEF FitsInv, Fits
<1>2. n \in Nat
  BY <1>0 DEF CO_SDO_SEG_SIZE_GET
<1>3. Part(m.data, 0, n) \in Bytes
  BY <1>0, <1>2, PartBytes
<1>4. PICK up \in Bytes : up = Cat(csdo.up, Part(m.data, 0, n))
  BY <1>1, <1>3, CatBytes
<1>5. s \in CsdoXfer /\ s.up = up /\ s.size = csdo.size
  BY <1>1, <1>4 DEF CsdoXfer
<1>6. up_seg_error(m, s) = "0" => s.up.n <= s.size
  <2>1. up_seg_error(m, s) = "0" => ~(s.up.n > s.size)
    <3> HIDE DEF s
    <3> QED
      BY DEF up_seg_error
  <2>2. s.up.n \in Nat /\ s.size \in Nat
    BY <1>5, XferFields
  <2> QED
    BY <2>1, <2>2
<1>7. \/ Unexpected(m, {CO_SDO_SCS_UP_SEG_RES})
      \/ UNCHANGED c_vars
      \/ \E ac : co_csdo_abort_res(ac)
      \/ Complete(s, <<>>)
      \/ up_seg_error(m, s) = "0" /\ co_csdo_send_up_seg_req(s)
  BY DEF co_csdo_up_seg_on_recv
<1> HIDE DEF s
<1> QED
  BY <1>5, <1>6, <1>7, EndingsFit, UpSegFits

\* The response to a block upload request.
LEMMA BlkUpIniFits ==
    ASSUME Handled, FitsInv, NEW m, IsFrame(m), co_csdo_blk_up_ini_on_recv(m)
    PROVE  FitsInv'
<1> DEFINE size == IF Has(m.cs, CO_SDO_BLK_SIZE_IND) THEN m.n ELSE 0
           s == [csdo EXCEPT !.crc = Has(m.cs, CO_SDO_BLK_CRC), !.ackseq = 0,
                    !.size = IF Has(m.cs, CO_SDO_BLK_SIZE_IND) THEN m.n ELSE 0]
<1>1. c_state = "blk_up_ini" /\ csdo \in CsdoXfer /\ csdo.up.n = 0
  BY DEF co_csdo_blk_up_ini_on_recv, FitsInv, Fits
<1>2. size \in Nat
  BY FrameFields
<1>3. PICK crc \in BOOLEAN : crc = Has(m.cs, CO_SDO_BLK_CRC)
  BY DEF Has
<1>4. s = [csdo EXCEPT !.crc = Has(m.cs, CO_SDO_BLK_CRC), !.ackseq = 0, !.size = size]
  OBVIOUS
<1> HIDE DEF size, s
<1>5. s \in CsdoXfer /\ s.up = csdo.up /\ s.size = size
  <2> DEFINE x == [csdo EXCEPT !.crc = Has(m.cs, CO_SDO_BLK_CRC)]
  <2>1. x \in CsdoXfer /\ x.up = csdo.up
    BY <1>1, <1>3 DEF CsdoXfer
  <2>2. s = [x EXCEPT !.ackseq = 0, !.size = size]
    BY <1>1, <1>4 DEF CsdoXfer
  <2> HIDE DEF x
  <2> DEFINE y == [x EXCEPT !.size = size]
  <2>3. y \in CsdoXfer /\ y.up = csdo.up /\ y.size = size
    BY <1>2, <2>1 DEF CsdoXfer
  <2>4. s = [y EXCEPT !.ackseq = 0]
    BY <2>1, <2>2 DEF CsdoXfer
  <2> HIDE DEF y
  <2>5. 0 \in 0 .. 127
    OBVIOUS
  <2>6. s \in CsdoXfer
    BY <2>3, <2>4, <2>5 DEF CsdoXfer
  <2>7. s.up = csdo.up /\ s.size = size
    BY <2>3, <2>4 DEF CsdoXfer
  <2> QED
    BY <2>6, <2>7
<1>6. Fits("blk_up_sub", s)
  BY <1>1, <1>2, <1>5 DEF Fits
<1>7. \/ Unexpected(m, {CO_SDO_SCS_UP_INI_RES, CO_SDO_SCS_BLK_UP_RES})
      \/ up_ini(m)
      \/ \E ac : co_csdo_abort_res(ac)
      \/ \E out : Continue("blk_up_sub", s, out)
  BY DEF co_csdo_blk_up_ini_on_recv, s
<1> QED
  BY <1>1, <1>6, <1>7, EndingsFit, UpIniFits

\* A segment of a block upload: only as many of its bytes are kept as are missing.
LEMMA BlkUpSubFits ==
    ASSUME Handled, FitsInv, NEW m, IsFrame(m), c_state = "blk_up_sub", blk_up_sub(m)
    PROVE  FitsInv'
<1> DEFINE seqno == m.cs % CO_SDO_SEQ_LAST
           last == m.cs >= CO_SDO_SEQ_LAST
           next == seqno = csdo.ackseq + 1
           n == MinOf(csdo.size - csdo.up.n, 7)
           s == IF next
                THEN [csdo EXCEPT !.ackseq = @ + 1, !.up = Cat(@, Part(m.data, 0, n))]
                ELSE csdo
           t == [s EXCEPT !.ackseq = 0]
<1>0. m.cs \in 0 .. 255 /\ m.data \in Bytes
  BY FrameFields
<1>1. /\ csdo \in CsdoXfer /\ csdo.up \in Bytes /\ csdo.up.n <= csdo.size
      /\ csdo.size \in Nat /\ csdo.up.n \in Nat /\ csdo.ackseq \in 0 .. 127
  BY XferFields DEF FitsInv, Fits
<1>2. n \in Nat /\ csdo.up.n + n <= csdo.size
  BY <1>1 DEF MinOf
<1>3. Part(m.data, 0, n) \in Bytes /\ Part(m.data, 0, n).n = n
  BY <1>0, <1>2, PartBytes
<1>4. PICK up \in Bytes : up = Cat(csdo.up, Part(m.data, 0, n)) /\ up.n = csdo.up.n + n
  BY <1>1, <1>3, CatBytes
<1>5. s \in CsdoXfer /\ s.up.n <= s.size
  <2>1. CASE next
    <3>1. csdo.ackseq + 1 \in 0 .. 127
      BY <1>0, <1>1, <2>1 DEF CO_SDO_SEQ_LAST
    <3>2. s = [csdo EXCEPT !.ackseq = @ + 1, !.up = up]
      BY <1>4, <2>1
    <3> HIDE DEF s
    <3>3. s \in CsdoXfer /\ s.up = up /\ s.size = csdo.size
      BY <1>1, <3>1, <3>2 DEF CsdoXfer
    <3> QED
      BY <1>2, <1>4, <3>3
  <2>2. CASE ~next
    BY <1>1, <2>2
  <2> QED
    BY <2>1, <2>2
<1>6. \/ co_csdo_abort_res("TYPE_LEN_HI")
      \/ \E st \in {"blk_up_sub", "blk_up_end"} : \E out :
             Continue(st, s, out) \/ Continue(st, t, out)
  BY DEF blk_up_sub
<1> HIDE DEF s
<1>7. t \in CsdoXfer /\ t.up = s.up /\ t.size = s.size
  BY <1>5 DEF CsdoXfer
<1> HIDE DEF t
<1>8. \A st \in {"blk_up_sub", "blk_up_end"} : Fits(st, s) /\ Fits(st, t)
  BY <1>5, <1>7 DEF Fits
<1> QED
  BY <1>6, <1>8, EndingsFit

\* Any frame.
LEMMA RecvFits ==
    ASSUME Handled, FitsInv, NEW m \in CsdoFrames, co_csdo_recv(m)
    PROVE  FitsInv'
<1>0. IsFrame(m)
  BY CsdoEnvAssumption DEF IsFrame
<1>1. co_csdo_wait_on_recv(m) => FitsInv'
  BY EndingsFit DEF co_csdo_wait_on_recv
<1>2. co_csdo_up_ini_on_recv(m) => FitsInv'
  BY <1>0, EndingsFit, UpIniFits DEF co_csdo_up_ini_on_recv
<1>3. co_csdo_blk_up_sub_on_recv(m) => FitsInv'
  BY <1>0, EndingsFit, BlkUpSubFits DEF co_csdo_blk_up_sub_on_recv
<1>4. co_csdo_blk_up_end_on_recv(m) => FitsInv'
  <2>1. csdo \in CsdoXfer
    BY DEF FitsInv, Fits
  <2> QED
    BY <2>1, EndingsFit DEF co_csdo_blk_up_end_on_recv
<1> QED
  BY <1>0, <1>1, <1>2, <1>3, <1>4, DownloadFits, BlkDnIniFits, BlkDnSubFits, UpSegRecvFits,
     BlkUpIniFits DEF co_csdo_recv

\* A new request, or a concise DCF.
LEMMA SubmitFits ==
    ASSUME Handled, FitsInv, Submit
    PROVE  FitsInv'
<1>1. ASSUME NEW r \in Requests, co_csdo_req(r)
      PROVE  FitsInv'
  <2>1. c_state' = Opening(r) /\ csdo' = Opened(r) /\ con' = "user"
    BY <1>1 DEF co_csdo_req, Begin
  <2> QED
    BY <2>1, CsdoAssumption, OpenedFits DEF FitsInv
<1>2. ASSUME NEW entries \in Dcfs, co_csdo_dn_dcf_req(entries), NextEntry("0", entries)
      PROVE  FitsInv'
  <2>1. IsRequest(Head(entries), {"dn"})
    BY <1>2, CsdoAssumption, DcfRest, TailRest DEF NextEntry
  <2>2. /\ c_state' = Opening(Head(entries)) /\ csdo' = Opened(Head(entries))
        /\ con' = "dcf"
    BY <1>2 DEF co_csdo_dn_dcf_req, Begin
  <2> QED
    BY <2>1, <2>2, OpenedFits DEF FitsInv
<1>3. ASSUME NEW entries \in Dcfs, co_csdo_dn_dcf_req(entries), ~NextEntry("0", entries)
      PROVE  FitsInv'
  BY <1>3 DEF co_csdo_dn_dcf_req, FitsInv
<1> QED
  BY <1>1, <1>2, <1>3 DEF Submit

\* The application starts, stops or reconfigures the client.
LEMMA AdministerFits ==
    ASSUME Handled, FitsInv, Administer
    PROVE  FitsInv'
<1>1. ASSUME NEW valid \in BOOLEAN, co_csdo_start(valid)
      PROVE  FitsInv'
  BY <1>1 DEF co_csdo_start, FitsInv, Fits
<1>2. ASSUME NEW timeout \in BOOLEAN, co_csdo_set_timeout(timeout)
      PROVE  FitsInv'
  BY <1>2 DEF co_csdo_set_timeout, FitsInv
<1>3. ASSUME NEW valid, NEW again \in Again(valid), Withdraw(again)
      PROVE  /\ csdo' \in CsdoXfer /\ con' \in {"user", "dcf", "none"}
             /\ again # NoRequest => Fits(Opening(again), csdo')
  <2>1. again # NoRequest => again \in Resubmitted /\ c_state \in Busy
    BY <1>3 DEF Again
  <2>2. again # NoRequest =>
            Fits(Opening(again), Opened(again)) /\ Opened(again) \in CsdoXfer
    BY <2>1, CsdoAssumption, OpenedFits
  <2>3. \/ again = NoRequest /\ csdo' = csdo /\ con' \in {con, "none"}
        \/ again # NoRequest /\ csdo' = Opened(again) /\ con' = "user"
    BY <1>3, <2>1 DEF Withdraw
  <2> QED
    BY <2>2, <2>3 DEF FitsInv, Fits
<1>4. ASSUME NEW valid \in BOOLEAN, co_1280_dn_ind(valid)
      PROVE  FitsInv'
  <2>1. PICK again \in Again(valid) :
            /\ Withdraw(again)
            /\ c_state' = IF again = NoRequest THEN "wait" ELSE Opening(again)
    BY <1>4 DEF co_1280_dn_ind
  <2> QED
    BY <1>3, <2>1 DEF FitsInv, Fits
<1>5. ASSUME co_csdo_stop
      PROVE  FitsInv'
  <2>1. c_state' = "stopped" /\ \E again \in Again(c_valid) : Withdraw(again)
    BY <1>5 DEF co_csdo_stop
  <2> QED
    BY <1>3, <2>1 DEF FitsInv, Fits
<1> QED
  BY <1>1, <1>2, <1>4, <1>5 DEF Administer

\* Nothing has been requested at first.
LEMMA InitFits == CsdoInit => FitsInv
<1> SUFFICES ASSUME CsdoInit PROVE FitsInv
  OBVIOUS
<1>1. "none" \in STRING /\ NoBytes \in Bytes /\ NoBytes.n = 0
  BY SomeBytes DEF NoBytes
<1>2. NewXfer(NoRequest) \in CsdoXfer
  BY <1>1 DEF NewXfer, NoRequest, CsdoXfer, CO_SDO_SEG_TOGGLE
<1> QED
  BY <1>2 DEF CsdoInit, FitsInv, Fits

\* Every step of the application, the bus and the clock.
LEMMA StepFits ==
    ASSUME Handled, FitsInv, [CsdoNext]_c_vars
    PROVE  FitsInv'
<1>1. CASE CsdoSent
  BY <1>1 DEF CsdoSent, FitsInv
<1>2. CASE co_csdo_abort_req("ERROR") \/ co_csdo_timer \/ UNCHANGED c_vars
  BY <1>2, EndingsFit DEF co_csdo_abort_req, co_csdo_timer
<1> QED
  BY <1>1, <1>2, SubmitFits, RecvFits, AdministerFits DEF CsdoNext

-----------------------------------------------------------------------------
(***************************************************************************)
(* The theorems.                                                           *)
(***************************************************************************)

\* At first nothing has been submitted and nothing is awaited.
LEMMA ClientInitSafe == CsdoInit => Handled /\ Answered
<1> SUFFICES ASSUME CsdoInit PROVE Handled /\ Answered
  OBVIOUS
<1>1. IsRest(dcf) /\ IsSeq(accepted) /\ IsSeq(confirmed) /\ Len(accepted) = 0 /\ Len(confirmed) = 0
  BY NothingYet DEF CsdoInit
<1>2. NeverConfirmedTwice /\ ConfirmedOnce
  BY <1>1 DEF CsdoInit, NeverConfirmedTwice, ConfirmedOnce, Busy
<1> QED
  BY <1>1, <1>2 DEF CsdoInit, Handled, Answered, CsdoTimerHasHandler, CsdoRecvHasHandler, Busy

\* Every step of the application, the bus and the clock.
LEMMA ClientStepSafe ==
    ASSUME Handled, [CsdoNext]_c_vars
    PROVE  Handled' /\ (Answered /\ Resubmitted = {} => Answered')
<1> USE DEF c_vars
<1>1. CASE CsdoSent \/ UNCHANGED c_vars
  BY <1>1 DEF CsdoSent, Handled, Answered, ConfirmedOnce, NeverConfirmedTwice,
              CsdoTimerHasHandler, CsdoRecvHasHandler
<1>2. CASE Submit
  BY <1>2, SubmitSafe
<1>3. CASE co_csdo_abort_req("ERROR") \/ (\E m \in CsdoFrames : co_csdo_recv(m)) \/ co_csdo_timer
  BY <1>3, ClientEventStep, ServingSafe
<1>4. CASE Administer
  BY <1>4, ClientAdministerSafe
<1> QED
  BY <1>1, <1>2, <1>3, <1>4 DEF CsdoNext

\* Whatever frames arrive and whenever the service is started, stopped or
\* reconfigured: the timer only runs in states that have an on_time handler, and
\* frames are only received in states that have an on_recv handler, so that
\* co_csdo_emit_time() and co_csdo_emit_recv() never call a null pointer.
THEOREM ClientEventsHaveHandlers == CsdoSpec => [](CsdoTimerHasHandler /\ CsdoRecvHasHandler)
<1>1. CsdoInit => Handled
  BY ClientInitSafe
<1>2. Handled /\ [CsdoNext]_c_vars => Handled'
  BY ClientStepSafe
<1>3. Handled => CsdoTimerHasHandler /\ CsdoRecvHasHandler
  BY DEF Handled
<1> QED
  BY <1>1, <1>2, <1>3, PTL DEF CsdoSpec

\* No request is confirmed twice, also when confirmation functions submit
\* requests while the service goes away.
THEOREM NoSecondConfirmation == CsdoSpec => []NeverConfirmedTwice
<1>1. CsdoInit => Handled
  BY ClientInitSafe
<1>2. Handled /\ [CsdoNext]_c_vars => Handled'
  BY ClientStepSafe
<1>3. Handled => NeverConfirmedTwice
  BY DEF Handled
<1> QED
  BY <1>1, <1>2, <1>3, PTL DEF CsdoSpec

\* Every request is confirmed exactly once, when its transfer ends, provided that
\* no confirmation function submits another request to a client that is about to
\* be stopped.
THEOREM EveryRequestConfirmedOnce ==
    ASSUME Resubmitted = {}
    PROVE  CsdoSpec => []ConfirmedOnce
<1> DEFINE I == Handled /\ Answered
<1>1. CsdoInit => I
  BY ClientInitSafe
<1>2. I /\ [CsdoNext]_c_vars => I'
  BY ClientStepSafe
<1>3. I => ConfirmedOnce
  BY DEF Answered
<1> QED
  BY <1>1, <1>2, <1>3, PTL DEF CsdoSpec

\* The client reads and writes inside the buffers of its request: the assertions
\* of co_csdo_blk_dn_sub_on_recv() and of the uploads hold, whatever sequence
\* numbers, block sizes and lengths the frames name.
THEOREM ClientStaysInBuffers == CsdoSpec => []ClientInBuffers
<1> DEFINE I == Handled /\ FitsInv
<1>1. CsdoInit => I
  BY ClientInitSafe, InitFits
<1>2. I /\ [CsdoNext]_c_vars => I'
  BY ClientStepSafe, StepFits
<1>3. I => ClientInBuffers
  BY DEF FitsInv, Fits, ClientInBuffers, RewindStaysInside, UploadFits
<1> QED
  BY <1>1, <1>2, <1>3, PTL DEF CsdoSpec

-----------------------------------------------------------------------------
(***************************************************************************)
(* The server and the client of SdoAny: the one that is not explored keeps *)
(* its invariant because it does not move.                                 *)
(***************************************************************************)

\* The inductive invariant of both services.
BothInv == ServerInv /\ Handled /\ FitsInv

LEMMA BothInit == Init => BothInv
BY InitSafe, ClientInitSafe, InitFits DEF Init, BothInv

LEMMA BothStep ==
    ASSUME BothInv, [Next]_<<s_vars, c_vars, part>>
    PROVE  BothInv'
<1>1. [SsdoNext]_s_vars /\ [CsdoNext]_c_vars
  BY DEF Next
<1> QED
  BY <1>1, StepSafe, ClientStepSafe, StepFits DEF BothInv

\* Whatever frames arrive, whenever timers expire and however the services are
\* administered, a running timer and a registered receiver of either service meet
\* a state with a handler for them, and all fields keep their types.
THEOREM BothHandleEveryEvent == Spec => []EveryEventHandled
<1>1. BothInv => EveryEventHandled
  <2> SUFFICES ASSUME BothInv PROVE EveryEventHandled
    OBVIOUS
  <2>1. SsdoTypeOK /\ SsdoTimerHasHandler /\ SsdoRecvHasHandler /\ OpenIsKnown /\ WindowOpen
    BY DEF BothInv, ServerInv, Good, SsdoTypeOK, OpenIsKnown, WindowOpen
  <2>2. CsdoTypeOK /\ CsdoTimerHasHandler /\ CsdoRecvHasHandler
    BY DEF BothInv, Handled, FitsInv, Fits, CsdoTypeOK
  <2> QED
    BY <2>1, <2>2 DEF EveryEventHandled
<1> QED
  BY <1>1, BothInit, BothStep, PTL DEF Spec

\* Both services stay inside their buffers, and a transfer leaves nothing behind,
\* however it ends.
THEOREM BothStayInBuffers ==
    Spec => [](ServerInBuffers /\ ClientInBuffers /\ CleanBetweenTransfers)
<1>1. BothInv => ServerInBuffers /\ CleanBetweenTransfers
  BY DEF BothInv, ServerInv, Good, ServerInBuffers, SizeRespected, WindowOpen, UploadWindow,
         Uploading, CleanBetweenTransfers
<1>2. BothInv => ClientInBuffers
  BY DEF BothInv, FitsInv, Fits, ClientInBuffers, RewindStaysInside, UploadFits
<1> QED
  BY <1>1, <1>2, BothInit, BothStep, PTL DEF Spec
=============================================================================
