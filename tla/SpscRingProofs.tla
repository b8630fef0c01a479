--------------------------- MODULE SpscRingProofs ---------------------------
(***************************************************************************)
(* Proofs about SpscRing: the steps keep the positions and what the store  *)
(* buffers hold; a satisfied wait is not missed when memory is             *)
(* sequentially consistent; the invariant and the theorems; the ring is a  *)
(* bounded FIFO queue.                                                     *)
(***************************************************************************)
EXTENDS SpscRingWait, Sequences, TLAPS

-----------------------------------------------------------------------------
\* The invariant holds initially: the ring is empty and nobody waits.
LEMMA InitIInv == Init => IInv
<1> SUFFICES ASSUME Init PROVE IInv
    OBVIOUS
<1> USE SizeAssumption, WidthAssumption, BufferAssumption, FuncAssumption
<1>1. TypeOK
    BY DEF Init, TypeOK, CtxTypeOK, SigTypeOK, Side, SIZE_MAX, Label
<1>2. PosInvAt(0)
    BY DEF Init, PosInvAt, NewEnd, WrapAdd, WrapSub, Side
<1>3. StoreInv
    BY DEF Init, StoreInv, Latest, WrapAdd, Side
<1>4. SigInv
    BY DEF Init, SigInv, SigInvAt, Side, Other, SIZE_MAX
<1>5. FuncInv
    BY DEF Init, FuncInv, FuncInvAt, Registered, WaitSize, Side, Other
<1>6. WakeInv
    BY DEF Init, WakeInv, WakeInvAt, WaitSize, Side
<1> QED
    BY <1>1, <1>2, <1>3, <1>4, <1>5, <1>6 DEF IInv, PosInv

\* The indices of the two contexts are numbers.
LEMMA CtxTypes ==
    ASSUME CtxTypeOK
    PROVE  /\ base["p"] \in 0 .. W - 1 /\ base["c"] \in 0 .. W - 1
           /\ pos["p"] \in 0 .. Size - 1 /\ pos["c"] \in 0 .. Size - 1
           /\ end["p"] \in 0 .. 2 * Size - 1 /\ end["c"] \in 0 .. 2 * Size - 1
           /\ apos["p"] \in 0 .. W - 1 /\ apos["c"] \in 0 .. W - 1
BY DEF CtxTypeOK, Side

\* The sum and the difference of two size_t are size_t.
LEMMA WrapTypes ==
    ASSUME NEW a \in 0 .. W - 1, NEW b \in 0 .. W - 1
    PROVE  WrapAdd(a, b) \in 0 .. W - 1 /\ WrapSub(a, b) \in 0 .. W - 1
BY WidthAssumption DEF WrapAdd, WrapSub

\* The end read from the position of the other thread is a size_t.
LEMMA NewEndType ==
    ASSUME CtxTypeOK
    PROVE  NewEnd("p") \in 0 .. W - 1 /\ NewEnd("c") \in 0 .. W - 1
<1>1. Size \in 0 .. W - 1
    BY SizeAssumption, WidthAssumption
<1> QED
    BY <1>1, CtxTypes, WrapTypes DEF NewEnd

\* Reading the position of the other thread keeps the contexts consistent.
LEMMA RefreshPos ==
    ASSUME CtxTypeOK, PosInv, NEW t \in Side,
           Refresh(t), UNCHANGED <<base, pos, apos>>
    PROVE  CtxTypeOK' /\ PosInv'
<1> USE SizeAssumption, WidthAssumption
<1>1. \A d \in {0, Size} : PosInvAt(d) => CtxTypeOK' /\ PosInvAt(d)'
  <2> SUFFICES ASSUME NEW d \in {0, Size}, PosInvAt(d)
               PROVE  CtxTypeOK' /\ PosInvAt(d)'
      OBVIOUS
  <2>1. NewEnd("p")' = NewEnd("p") /\ NewEnd("c")' = NewEnd("c")
      BY DEF NewEnd
  <2>2. /\ NewEnd("p") \in 0 .. 2 * Size - 1
        /\ NewEnd("c") \in 0 .. 2 * Size - 1
      BY CtxTypes, NewEndType DEF PosInvAt
  <2>3. end' = [end EXCEPT ![t] = NewEnd(t)]
      BY DEF Refresh
  <2>4. t = "p" \/ t = "c"
      BY DEF Side
  <2>5. CtxTypeOK'
      BY <2>2, <2>3, <2>4 DEF CtxTypeOK, Side
  <2>6. /\ end'["p"] \in {end["p"], NewEnd("p")}
        /\ end'["c"] \in {end["c"], NewEnd("c")}
      BY <2>3, <2>4 DEF CtxTypeOK, Side
  <2>7. PosInvAt(d)'
      BY <2>1, <2>2, <2>6, CtxTypes DEF PosInvAt
  <2> QED
      BY <2>5, <2>7
<1> QED
    BY <1>1 DEF PosInv

\* Modular arithmetic: offsets from a common origin.
LEMMA WrapOffset ==
    ASSUME NEW a \in 0 .. W - 1, NEW x \in 0 .. W - 1, NEW y \in 0 .. W - 1,
           NEW z \in 0 .. W - 1, x + y - z \in 0 .. W - 1
    PROVE  WrapSub(WrapAdd(WrapAdd(a, x), y), WrapAdd(a, z)) = x + y - z
BY WidthAssumption DEF WrapAdd, WrapSub

\* Moving the origin forward by s.
LEMMA WrapShift ==
    ASSUME NEW a \in 0 .. W - 1, NEW b \in 0 .. W - 1, NEW s \in 0 .. W - 1,
           s <= WrapSub(a, b)
    PROVE  WrapSub(a, WrapAdd(b, s)) = WrapSub(a, b) - s
BY WidthAssumption DEF WrapAdd, WrapSub

\* Adding 0 to a size_t.
LEMMA WrapZero ==
    ASSUME NEW a \in 0 .. W - 1
    PROVE  WrapAdd(a, 0) = a
BY WidthAssumption DEF WrapAdd

\* What a commit of the producer does to the context and to its position.
LEMMA CommitPosP ==
    ASSUME CtxTypeOK, PosInv, NEW n \in 0 .. Size, commit("p", n)
    PROVE  CtxTypeOK' /\ PosInv'
<1> USE SizeAssumption, WidthAssumption
<1> DEFINE wrap == pos["p"] + n >= Size
           base1 == IF wrap THEN WrapAdd(base["p"], Size) ELSE base["p"]
           pos1 == IF wrap THEN pos["p"] + n - Size ELSE pos["p"] + n
           end1 == IF wrap THEN end["p"] - Size ELSE end["p"]
<1>1. n <= end["p"] - pos["p"]
    BY DEF commit
<1>2. /\ base' = [base EXCEPT !["p"] = base1]
      /\ pos' = [pos EXCEPT !["p"] = pos1]
      /\ end' = [end EXCEPT !["p"] = end1]
      /\ apos' = apos \/ apos' = [apos EXCEPT !["p"] = WrapAdd(base1, pos1)]
    BY DEF commit, spscring_atomic_store, CtxTypeOK, Side
<1>3. /\ base'["p"] = base1 /\ base'["c"] = base["c"]
      /\ pos'["p"] = pos1 /\ pos'["c"] = pos["c"]
      /\ end'["p"] = end1 /\ end'["c"] = end["c"]
      /\ apos'["p"] \in {apos["p"], WrapAdd(base1, pos1)}
      /\ apos'["c"] = apos["c"]
    BY <1>2 DEF CtxTypeOK, Side
<1>4. Size \in 0 .. W - 1
    OBVIOUS
<1>5. /\ pos1 \in 0 .. Size - 1 /\ end1 \in 0 .. 2 * Size - 1
      /\ pos1 \in 0 .. W - 1 /\ base1 \in 0 .. W - 1
  <2>1. WrapAdd(base["p"], Size) \in 0 .. W - 1
      BY <1>4, CtxTypes, WrapTypes
  <2>2. /\ pos["p"] \in 0 .. Size - 1 /\ end["p"] \in 0 .. 2 * Size - 1
        /\ base["p"] \in 0 .. W - 1
      BY CtxTypes
  <2> QED
      BY <1>1, <2>1, <2>2
<1>f. \/ /\ wrap /\ base1 = WrapAdd(base["p"], Size)
         /\ pos1 = pos["p"] + n - Size /\ end1 = end["p"] - Size
      \/ /\ ~wrap /\ base1 = base["p"]
         /\ pos1 = pos["p"] + n /\ end1 = end["p"]
    OBVIOUS
<1> HIDE DEF base1, pos1, end1
<1>6. WrapAdd(base1, pos1) \in 0 .. W - 1
    BY <1>5, WrapTypes
<1>7. CtxTypeOK'
    BY <1>2, <1>5, <1>6 DEF CtxTypeOK, Side
<1>8. ASSUME NEW d \in {0, Size}, PosInvAt(d)
      PROVE  PosInv'
  <2> DEFINE d1 == IF wrap THEN d + Size ELSE d
  <2>1. d1 \in {0, Size} /\ (wrap => d = 0 /\ d1 = Size)
      BY <1>1, <1>8, CtxTypes, NewEndType DEF PosInvAt
  <2>2. base1 = WrapAdd(base["c"], d1)
      BY <1>8, <1>f, <2>1, WrapZero, CtxTypes DEF PosInvAt
  <2>3. NewEnd("p")' = IF wrap THEN NewEnd("p") - Size ELSE NewEnd("p")
    <3>1. NewEnd("p")' = WrapSub(WrapAdd(apos["c"], Size), base1)
        BY <1>3 DEF NewEnd
    <3>2. NewEnd("p") = WrapSub(WrapAdd(apos["c"], Size), base["p"])
        BY DEF NewEnd
    <3>3. CASE wrap
      <4>1. Size <= NewEnd("p")
          BY <1>1, <1>8, <3>3, CtxTypes, NewEndType DEF PosInvAt
      <4>2. WrapAdd(apos["c"], Size) \in 0 .. W - 1
          BY <1>4, CtxTypes, WrapTypes
      <4> QED
          BY <1>4, <1>f, <3>1, <3>2, <3>3, <4>1, <4>2, WrapShift, CtxTypes
    <3>4. CASE ~wrap
        BY <1>f, <3>1, <3>2, <3>4
    <3> QED
        BY <3>3, <3>4
  <2>4. WrapSub(WrapAdd(base1, pos1), base["c"]) = pos1 + d1
    <3>1. /\ d1 \in 0 .. W - 1 /\ pos1 \in 0 .. W - 1 /\ 0 \in 0 .. W - 1
          /\ d1 + pos1 - 0 \in 0 .. W - 1 /\ base["c"] \in 0 .. W - 1
        BY <1>5, <2>1, CtxTypes
    <3> HIDE DEF d1
    <3>2. WrapSub(WrapAdd(WrapAdd(base["c"], d1), pos1), WrapAdd(base["c"], 0))
             = d1 + pos1 - 0
        BY <3>1, WrapOffset
    <3> QED
        BY <1>5, <2>1, <2>2, <3>2, WrapZero, CtxTypes
  <2>5. NewEnd("c")' \in {NewEnd("c"), pos1 + d1}
      BY <1>3, <2>4 DEF NewEnd
  <2>6. d1 + pos1 = d + pos["p"] + n
      BY <1>f, <2>1, CtxTypes
  <2>7. (wrap => d1 = d + Size) /\ (~wrap => d1 = d)
      OBVIOUS
  <2> HIDE DEF d1
  <2>8. PICK e \in {0, Size} : e = d1
      BY <2>1
  <2>9. PosInvAt(e)'
    <3>1. base'["p"] = WrapAdd(base'["c"], e)
        BY <1>3, <2>2, <2>8
    <3>2. /\ pos'["c"] <= end'["c"] /\ end'["c"] <= NewEnd("c")'
          /\ NewEnd("c")' <= pos'["p"] + e
        BY <1>3, <1>5, <1>8, <2>1, <2>5, <2>6, <2>8, CtxTypes, NewEndType
        DEF PosInvAt
    <3>3. pos'["p"] <= end'["p"] /\ end'["p"] <= NewEnd("p")'
        BY <1>1, <1>3, <1>8, <1>f, <2>3, CtxTypes, NewEndType DEF PosInvAt
    <3>4. NewEnd("p")' <= pos'["c"] + Size - e
        BY <1>3, <1>8, <2>1, <2>3, <2>7, <2>8, CtxTypes, NewEndType
        DEF PosInvAt
    <3> QED
        BY <3>1, <3>2, <3>3, <3>4 DEF PosInvAt
  <2> QED
      BY <2>9 DEF PosInv
<1> QED
    BY <1>7, <1>8 DEF PosInv

\* The same for a commit of the consumer.
LEMMA CommitPosC ==
    ASSUME CtxTypeOK, PosInv, NEW n \in 0 .. Size, commit("c", n)
    PROVE  CtxTypeOK' /\ PosInv'
<1> USE SizeAssumption, WidthAssumption
<1> DEFINE wrap == pos["c"] + n >= Size
           base1 == IF wrap THEN WrapAdd(base["c"], Size) ELSE base["c"]
           pos1 == IF wrap THEN pos["c"] + n - Size ELSE pos["c"] + n
           end1 == IF wrap THEN end["c"] - Size ELSE end["c"]
<1>1. n <= end["c"] - pos["c"]
    BY DEF commit
<1>2. /\ base' = [base EXCEPT !["c"] = base1]
      /\ pos' = [pos EXCEPT !["c"] = pos1]
      /\ end' = [end EXCEPT !["c"] = end1]
      /\ apos' = apos \/ apos' = [apos EXCEPT !["c"] = WrapAdd(base1, pos1)]
    BY DEF commit, spscring_atomic_store, CtxTypeOK, Side
<1>3. /\ base'["c"] = base1 /\ base'["p"] = base["p"]
      /\ pos'["c"] = pos1 /\ pos'["p"] = pos["p"]
      /\ end'["c"] = end1 /\ end'["p"] = end["p"]
      /\ apos'["c"] \in {apos["c"], WrapAdd(base1, pos1)}
      /\ apos'["p"] = apos["p"]
    BY <1>2 DEF CtxTypeOK, Side
<1>4. Size \in 0 .. W - 1
    OBVIOUS
<1>5. /\ pos1 \in 0 .. Size - 1 /\ end1 \in 0 .. 2 * Size - 1
      /\ pos1 \in 0 .. W - 1 /\ base1 \in 0 .. W - 1
  <2>1. WrapAdd(base["c"], Size) \in 0 .. W - 1
      BY <1>4, CtxTypes, WrapTypes
  <2>2. /\ pos["c"] \in 0 .. Size - 1 /\ end["c"] \in 0 .. 2 * Size - 1
        /\ base["c"] \in 0 .. W - 1
      BY CtxTypes
  <2> QED
      BY <1>1, <2>1, <2>2
<1>f. \/ /\ wrap /\ base1 = WrapAdd(base["c"], Size)
         /\ pos1 = pos["c"] + n - Size /\ end1 = end["c"] - Size
      \/ /\ ~wrap /\ base1 = base["c"]
         /\ pos1 = pos["c"] + n /\ end1 = end["c"]
    OBVIOUS
<1> HIDE DEF base1, pos1, end1
<1>6. WrapAdd(base1, pos1) \in 0 .. W - 1
    BY <1>5, WrapTypes
<1>7. CtxTypeOK'
    BY <1>2, <1>5, <1>6 DEF CtxTypeOK, Side
<1>8. ASSUME NEW d \in {0, Size}, PosInvAt(d)
      PROVE  PosInv'
  <2>1. PICK e \in {0, Size} : IF wrap THEN d = Size /\ e = 0 ELSE e = d
      BY <1>1, <1>8, CtxTypes, NewEndType DEF PosInvAt
  <2>2. base["p"] = WrapAdd(base1, e)
      BY <1>5, <1>8, <1>f, <2>1, WrapZero DEF PosInvAt
  <2>3. NewEnd("c")' = IF wrap THEN NewEnd("c") - Size ELSE NewEnd("c")
    <3>1. NewEnd("c")' = WrapSub(apos["p"], base1)
        BY <1>3 DEF NewEnd
    <3>2. NewEnd("c") = WrapSub(apos["p"], base["c"])
        BY DEF NewEnd
    <3>3. CASE wrap
      <4>1. Size <= NewEnd("c")
          BY <1>1, <1>8, <3>3, CtxTypes, NewEndType DEF PosInvAt
      <4> QED
          BY <1>4, <1>f, <3>1, <3>2, <3>3, <4>1, WrapShift, CtxTypes
    <3>4. CASE ~wrap
        BY <1>f, <3>1, <3>2, <3>4
    <3> QED
        BY <3>3, <3>4
  <2>4. WrapSub(WrapAdd(WrapAdd(base1, pos1), Size), base["p"])
           = pos1 + Size - e
    <3>1. e \in 0 .. W - 1 /\ pos1 + Size - e \in 0 .. W - 1
        BY <1>5
    <3> QED
        BY <1>4, <1>5, <2>2, <3>1, WrapOffset
  <2>5. NewEnd("p")' \in {NewEnd("p"), pos1 + Size - e}
      BY <1>3, <2>4 DEF NewEnd
  <2>6. pos1 - e = pos["c"] + n - d
      BY <1>f, <2>1, CtxTypes
  <2>7. PosInvAt(e)'
    <3>1. base'["p"] = WrapAdd(base'["c"], e)
        BY <1>3, <2>2
    <3>2. /\ pos'["p"] <= end'["p"] /\ end'["p"] <= NewEnd("p")'
          /\ NewEnd("p")' <= pos'["c"] + Size - e
        BY <1>3, <1>5, <1>8, <2>5, <2>6, CtxTypes, NewEndType
        DEF PosInvAt
    <3>3. pos'["c"] <= end'["c"] /\ end'["c"] <= NewEnd("c")'
        BY <1>1, <1>3, <1>8, <1>f, <2>3, CtxTypes, NewEndType DEF PosInvAt
    <3>4. NewEnd("c")' <= pos'["p"] + e
        BY <1>3, <1>8, <2>1, <2>3, CtxTypes, NewEndType DEF PosInvAt
    <3> QED
        BY <3>1, <3>2, <3>3, <3>4 DEF PosInvAt
  <2> QED
      BY <2>7 DEF PosInv
<1> QED
    BY <1>7, <1>8 DEF PosInv

\* When a buffered position reaches memory, the other thread may see all of it.
LEMMA FlushPos ==
    ASSUME CtxTypeOK, PosInv, StoreInv, NEW t \in Side,
           UNCHANGED ctx, apos' \in {apos, [apos EXCEPT ![t] = Latest(t)]}
    PROVE  CtxTypeOK' /\ PosInv'
<1> USE SizeAssumption, WidthAssumption
<1>1. base' = base /\ pos' = pos /\ end' = end
    BY DEF ctx
<1>2. t = "p" \/ t = "c"
    BY DEF Side
<1>3. Size \in 0 .. W - 1 /\ 0 \in 0 .. W - 1
    OBVIOUS
<1>4. Latest("p") \in 0 .. W - 1 /\ Latest("c") \in 0 .. W - 1
  <2>1. pos["p"] \in 0 .. W - 1 /\ pos["c"] \in 0 .. W - 1
      BY CtxTypes
  <2> QED
      BY <2>1, CtxTypes, WrapTypes DEF Latest
<1>5. CtxTypeOK'
    BY <1>1, <1>2, <1>4 DEF CtxTypeOK, Side
<1>6. /\ apos'["p"] \in {apos["p"], Latest("p")}
      /\ apos'["c"] \in {apos["c"], Latest("c")}
    BY <1>2 DEF CtxTypeOK, Side
<1>7. ASSUME NEW d \in {0, Size}, PosInvAt(d)
      PROVE  PosInv'
  <2>1. base["p"] = WrapAdd(base["c"], d)
      BY <1>7 DEF PosInvAt
  <2>2. WrapSub(Latest("p"), base["c"]) = pos["p"] + d
    <3>1. /\ d \in 0 .. W - 1 /\ pos["p"] \in 0 .. W - 1
          /\ d + pos["p"] - 0 \in 0 .. W - 1 /\ base["c"] \in 0 .. W - 1
        BY CtxTypes
    <3>2. ASSUME NEW a \in 0 .. W - 1, NEW x \in 0 .. W - 1,
                 d + x - 0 \in 0 .. W - 1
          PROVE  WrapSub(WrapAdd(WrapAdd(a, d), x), a) = d + x - 0
      <4>1. WrapSub(WrapAdd(WrapAdd(a, d), x), WrapAdd(a, 0)) = d + x - 0
          BY <1>3, <3>1, <3>2, WrapOffset
      <4> QED
          BY <4>1, WrapZero
    <3> QED
        BY <2>1, <3>1, <3>2 DEF Latest
  <2>3. WrapSub(WrapAdd(Latest("c"), Size), base["p"]) = pos["c"] + Size - d
    <3>1. /\ d \in 0 .. W - 1 /\ pos["c"] \in 0 .. W - 1
          /\ pos["c"] + Size - d \in 0 .. W - 1 /\ base["c"] \in 0 .. W - 1
        BY CtxTypes
    <3>2. ASSUME NEW a \in 0 .. W - 1, NEW x \in 0 .. W - 1,
                 x + Size - d \in 0 .. W - 1
          PROVE  WrapSub(WrapAdd(WrapAdd(a, x), Size), WrapAdd(a, d))
                    = x + Size - d
        BY <1>3, <3>1, <3>2, WrapOffset
    <3> QED
        BY <2>1, <3>1, <3>2 DEF Latest
  <2>4. /\ NewEnd("c")' \in {NewEnd("c"), pos["p"] + d}
        /\ NewEnd("p")' \in {NewEnd("p"), pos["c"] + Size - d}
      BY <1>1, <1>6, <2>2, <2>3 DEF NewEnd
  <2>5. PosInvAt(d)'
      BY <1>1, <1>7, <2>4, CtxTypes, NewEndType DEF PosInvAt
  <2> QED
      BY <2>5 DEF PosInv
<1> QED
    BY <1>5, <1>7 DEF PosInv

-----------------------------------------------------------------------------
\* Every step is a step of one of the two threads.
LEMMA NextIsStep ==
    ASSUME Next
    PROVE  \E t \in Side : Step(t)
BY DEF Next, Step, Side, Signal, Wait, spscring_p_alloc, spscring_c_alloc,
       spscring_p_alloc_no_wrap, spscring_c_alloc_no_wrap, spscring_p_commit,
       spscring_c_commit, spscring_p_submit_wait, spscring_c_submit_wait,
       spscring_p_abort_wait, spscring_c_abort_wait, spscring_pc_signal,
       spscring_cp_signal

\* Every step keeps the contexts consistent.
LEMMA StepPos ==
    ASSUME IInv, NEW t \in Side, Step(t)
    PROVE  CtxTypeOK' /\ PosInv'
<1>t. CtxTypeOK /\ PosInv /\ StoreInv
    BY DEF IInv, TypeOK
<1>1. ASSUME Refresh(t), UNCHANGED <<base, pos, apos>>
      PROVE  CtxTypeOK' /\ PosInv'
    BY <1>1, <1>t, RefreshPos
<1>2. ASSUME UNCHANGED <<base, pos, end, apos>>
      PROVE  CtxTypeOK' /\ PosInv'
    BY <1>2, <1>t DEF CtxTypeOK, PosInv, PosInvAt, NewEnd
<1>3. CASE \E n \in 1 .. W : alloc(t, n) \/ alloc_no_wrap(t, n)
  <2>1. Refresh(t) /\ UNCHANGED <<base, pos, apos>>
      BY <1>3 DEF alloc, alloc_no_wrap
  <2> QED
      BY <1>1, <2>1
<1>4. CASE \E n \in 0 .. Size : commit(t, n)
    BY <1>4, <1>t, CommitPosP, CommitPosC, Zenon DEF Side
<1>5. CASE Flush(t)
  <2>1. apos' \in {apos, [apos EXCEPT ![t] = Latest(t)]}
      BY <1>5, <1>t DEF Flush, StoreInv
  <2> QED
      BY <1>5, <1>t, <2>1, FlushPos DEF Flush
<1>6. CASE sig_check(t) \/ first_check(t) \/ second_check(t)
  <2>1. Refresh(t) /\ UNCHANGED <<base, pos, apos>>
      BY <1>6 DEF sig_check, first_check, second_check
  <2> QED
      BY <1>1, <2>1
<1>7. CASE \/ \E n \in 0 .. Size + 1, f \in Funcs : submit_wait(t, n, f)
           \/ abort_wait(t)
    BY <1>2, <1>7 DEF submit_wait, abort_wait, ctx
<1>8. CASE \/ sig_load(t) \/ sig_cas_ok(t) \/ sig_cas_fail(t) \/ sig_read(t)
           \/ sig_call(t)
    BY <1>2, <1>8
    DEF sig_load, sig_cas_ok, sig_cas_fail, sig_read, sig_call, ctx
<1>9. CASE sig_clear(t) \/ register(t)
    BY <1>2, <1>9 DEF sig_clear, register, spscring_atomic_store, ctx
<1>10. CASE \/ abort_load(t) \/ abort_cas_ok(t) \/ abort_cas_fail(t)
            \/ set_func(t) \/ cancel(t)
    BY <1>2, <1>10
    DEF abort_load, abort_cas_ok, abort_cas_fail, set_func, cancel, ctx
<1> QED
    BY <1>3, <1>4, <1>5, <1>6, <1>7, <1>8, <1>9, <1>10 DEF Step

\* The position of a thread is a size_t.
LEMMA LatestType ==
    ASSUME CtxTypeOK, NEW u \in Side
    PROVE  Latest(u) \in 0 .. W - 1
<1>1. base[u] \in 0 .. W - 1 /\ pos[u] \in 0 .. W - 1
    BY SizeAssumption, WidthAssumption DEF CtxTypeOK
<1> QED
    BY <1>1, WrapTypes DEF Latest

\* The value a commit stores is the new position of its thread.
LEMMA CommitStores ==
    ASSUME CtxTypeOK, NEW t \in Side, NEW n \in 0 .. Size, commit(t, n)
    PROVE  spscring_atomic_store(t, "pos", Latest(t)')
BY DEF commit, Latest, CtxTypeOK

\* A buffered position is the position of its thread, and nothing is buffered
\* without a store buffer.
LEMMA StepStore ==
    ASSUME IInv, NEW t \in Side, Step(t)
    PROVE  StoreInv'
<1>t. /\ CtxTypeOK /\ StoreInv
      /\ sbloc \in [Side -> {"none", "pos", "own", "other"}]
      /\ sbval \in [Side -> 0 .. W - 1] /\ apos \in [Side -> 0 .. W - 1]
    BY DEF IInv, TypeOK, SigTypeOK, CtxTypeOK
<1>a. \A u \in Side :
        base'[u] = base[u] /\ pos'[u] = pos[u] => Latest(u)' = Latest(u)
    BY DEF Latest
<1>b. ASSUME UNCHANGED <<base, pos, apos, sbloc, sbval>>
      PROVE  StoreInv'
    BY <1>a, <1>b, <1>t DEF StoreInv
<1>1. CASE \E n \in 0 .. Size : commit(t, n)
  <2>1. PICK n \in 0 .. Size : commit(t, n)
      BY <1>1
  <2>2. spscring_atomic_store(t, "pos", Latest(t)')
      BY <1>t, <2>1, CommitStores
  <2>3. \A u \in Side : u # t => base'[u] = base[u] /\ pos'[u] = pos[u]
      BY <1>t, <2>1 DEF commit, CtxTypeOK
  <2>4. \A u \in Side : u # t =>
           Latest(u)' = Latest(u) /\ sbloc'[u] = sbloc[u]
           /\ sbval'[u] = sbval[u] /\ apos'[u] = apos[u]
      BY <1>a, <1>t, <2>2, <2>3 DEF spscring_atomic_store, pend
  <2>5. /\ ~StoreBuffer => sbloc'[t] = "none" /\ apos'[t] = Latest(t)'
        /\ StoreBuffer => sbloc'[t] = "pos" /\ sbval'[t] = Latest(t)'
      BY <1>t, <2>2 DEF spscring_atomic_store, pend, StoreInv
  <2> QED
      BY <1>t, <2>4, <2>5 DEF StoreInv
<1>2. CASE sig_clear(t) \/ register(t)
  <2>1. \E l \in {"own", "other"} : \E v : spscring_atomic_store(t, l, v)
      BY <1>2 DEF sig_clear, register
  <2>2. UNCHANGED <<base, pos>>
      BY <1>2 DEF sig_clear, register, ctx
  <2>3. CASE StoreBuffer
      BY <1>a, <1>t, <2>1, <2>2, <2>3 DEF spscring_atomic_store, StoreInv
  <2>4. CASE ~StoreBuffer
      BY <1>a, <1>t, <2>1, <2>2, <2>4 DEF spscring_atomic_store, StoreInv, pend
  <2> QED
      BY <2>3, <2>4
<1>3. CASE Flush(t)
    BY <1>a, <1>t, <1>3 DEF Flush, StoreInv, ctx
<1>4. CASE \/ \E n \in 1 .. W : alloc(t, n)
           \/ \E n \in 1 .. W : alloc_no_wrap(t, n)
           \/ \E n \in 0 .. Size + 1, f \in Funcs : submit_wait(t, n, f)
           \/ abort_wait(t)
    BY <1>b, <1>4 DEF alloc, alloc_no_wrap, submit_wait, abort_wait, ctx, pend
<1>5. CASE \/ sig_load(t) \/ sig_check(t) \/ sig_cas_ok(t) \/ sig_cas_fail(t)
           \/ sig_read(t) \/ sig_call(t)
    BY <1>b, <1>5 DEF sig_load, sig_check, sig_cas_ok, sig_cas_fail, sig_read,
       sig_call, ctx, pend
<1>6. CASE \/ abort_load(t) \/ abort_cas_ok(t) \/ abort_cas_fail(t)
           \/ set_func(t) \/ first_check(t) \/ second_check(t) \/ cancel(t)
    BY <1>b, <1>6 DEF abort_load, abort_cas_ok, abort_cas_fail, set_func,
       first_check, second_check, cancel, ctx, pend
<1> QED
    BY <1>1, <1>2, <1>3, <1>4, <1>5, <1>6 DEF Step

\* The assertions of the operations follow from the consistency of the contexts.
LEMMA PosInvAsserts ==
    ASSUME CtxTypeOK, PosInv
    PROVE  CtxAsserts
<1> USE SizeAssumption, WidthAssumption
<1>1. ASSUME NEW d \in {0, Size}, PosInvAt(d)
      PROVE  CtxAsserts
  <2>1. /\ pos["p"] < Size /\ pos["p"] <= end["p"]
        /\ end["p"] - pos["p"] <= Size
        /\ pos["p"] <= NewEnd("p") /\ NewEnd("p") - pos["p"] <= Size
      BY <1>1, CtxTypes, NewEndType DEF PosInvAt
  <2>2. /\ pos["c"] < Size /\ pos["c"] <= end["c"]
        /\ end["c"] - pos["c"] <= Size
        /\ pos["c"] <= NewEnd("c") /\ NewEnd("c") - pos["c"] <= Size
      BY <1>1, CtxTypes, NewEndType DEF PosInvAt
  <2> QED
      BY <2>1, <2>2 DEF CtxAsserts, Side
<1> QED
    BY <1>1 DEF PosInv
\* The number of slots in use, and what either thread would find if it looked,
\* when the base of the producer is d ahead of the one of the consumer.
LEMMA UsedAt ==
    ASSUME CtxTypeOK, NEW d \in {0, Size}, PosInvAt(d)
    PROVE  /\ Used = d + pos["p"] - pos["c"]
           /\ apos["p"] = Latest("p") => NewEnd("c") = pos["p"] + d
           /\ apos["c"] = Latest("c") => NewEnd("p") = pos["c"] + Size - d
<1> USE SizeAssumption, WidthAssumption
<1>1. ASSUME NEW a \in 0 .. W - 1, NEW x \in 0 .. Size - 1,
             NEW y \in 0 .. Size - 1, y <= x + d, x + d <= y + Size
      PROVE  /\ WrapSub(WrapAdd(WrapAdd(a, d), x), WrapAdd(a, y))
                   = d + x - y
             /\ WrapSub(WrapAdd(WrapAdd(a, d), x), a) = x + d
             /\ WrapSub(WrapAdd(WrapAdd(a, y), Size), WrapAdd(a, d))
                   = y + Size - d
  <2>1. /\ d \in 0 .. W - 1 /\ x \in 0 .. W - 1 /\ y \in 0 .. W - 1
        /\ Size \in 0 .. W - 1 /\ 0 \in 0 .. W - 1
        /\ d + x - y \in 0 .. W - 1 /\ d + x - 0 \in 0 .. W - 1
        /\ y + Size - d \in 0 .. W - 1
      BY <1>1
  <2>2. WrapSub(WrapAdd(WrapAdd(a, d), x), WrapAdd(a, y)) = d + x - y
      BY <2>1, WrapOffset
  <2>3. WrapSub(WrapAdd(WrapAdd(a, d), x), WrapAdd(a, 0)) = d + x - 0
      BY <2>1, WrapOffset
  <2>4. WrapSub(WrapAdd(WrapAdd(a, y), Size), WrapAdd(a, d)) = y + Size - d
      BY <2>1, WrapOffset
  <2> QED
      BY <2>2, <2>3, <2>4, WrapZero
<1>2. /\ pos["c"] <= pos["p"] + d /\ pos["p"] + d <= pos["c"] + Size
      /\ base["p"] = WrapAdd(base["c"], d)
    BY CtxTypes, NewEndType DEF PosInvAt
<1>3. /\ base["c"] \in 0 .. W - 1
      /\ pos["p"] \in 0 .. Size - 1 /\ pos["c"] \in 0 .. Size - 1
    BY CtxTypes
<1> DEFINE a == base["c"]
           x == pos["p"]
           y == pos["c"]
<1> HIDE DEF a, x, y
<1>4. /\ a \in 0 .. W - 1 /\ x \in 0 .. Size - 1 /\ y \in 0 .. Size - 1
      /\ y <= x + d /\ x + d <= y + Size
    BY <1>2, <1>3 DEF a, x, y
<1>5. /\ WrapSub(WrapAdd(WrapAdd(a, d), x), WrapAdd(a, y)) = d + x - y
      /\ WrapSub(WrapAdd(WrapAdd(a, d), x), a) = x + d
      /\ WrapSub(WrapAdd(WrapAdd(a, y), Size), WrapAdd(a, d))
           = y + Size - d
    BY <1>1, <1>4
<1> QED
    BY <1>2, <1>5 DEF Used, Latest, NewEnd, a, x, y

\* The number of slots in use, and what either thread would find if it looked.
LEMMA UsedBounds ==
    ASSUME CtxTypeOK, PosInv
    PROVE  /\ Used \in 0 .. Size
           /\ end["c"] - pos["c"] <= Used
           /\ end["p"] - pos["p"] <= Size - Used
           /\ apos["p"] = Latest("p") => NewEnd("c") - pos["c"] = Used
           /\ apos["c"] = Latest("c") => NewEnd("p") - pos["p"] = Size - Used
<1> USE SizeAssumption, WidthAssumption
<1>1. ASSUME NEW d \in {0, Size}, PosInvAt(d)
      PROVE  /\ Used \in 0 .. Size
             /\ end["c"] - pos["c"] <= Used
             /\ end["p"] - pos["p"] <= Size - Used
             /\ apos["p"] = Latest("p") => NewEnd("c") - pos["c"] = Used
             /\ apos["c"] = Latest("c") =>
                  NewEnd("p") - pos["p"] = Size - Used
    BY <1>1, CtxTypes, NewEndType, UsedAt DEF PosInvAt
<1> QED
    BY <1>1 DEF PosInv

\* A commit moves the position of its thread by the number of slots.
LEMMA CommitUsed ==
    ASSUME CtxTypeOK, PosInv, NEW t \in Side, NEW n \in 0 .. Size,
           commit(t, n)
    PROVE  /\ Latest(t)' = WrapAdd(Latest(t), n)
           /\ \A u \in Side : u # t => Latest(u)' = Latest(u)
           /\ Used' = IF t = "p" THEN Used + n ELSE Used - n
<1> USE SizeAssumption, WidthAssumption
<1>1. ASSUME NEW b \in 0 .. W - 1, NEW x \in 0 .. Size - 1
      PROVE  WrapAdd(IF x + n >= Size THEN WrapAdd(b, Size) ELSE b,
                     IF x + n >= Size THEN x + n - Size ELSE x + n)
               = WrapAdd(WrapAdd(b, x), n)
    BY DEF WrapAdd
<1>2. base[t] \in 0 .. W - 1 /\ pos[t] \in 0 .. Size - 1
    BY DEF CtxTypeOK
<1>3. Latest(t)' = WrapAdd(Latest(t), n)
    BY <1>1, <1>2 DEF commit, Latest, CtxTypeOK
<1>4. \A u \in Side : u # t => Latest(u)' = Latest(u)
    BY DEF commit, Latest, CtxTypeOK
<1>5. n <= end[t] - pos[t]
    BY DEF commit
<1>6. Latest("p") \in 0 .. W - 1 /\ Latest("c") \in 0 .. W - 1
    BY LatestType DEF Side
<1>7. n \in 0 .. W - 1
    OBVIOUS
<1>8. ASSUME t = "p" PROVE Used' = Used + n
  <2>1. Used' = WrapSub(WrapAdd(Latest("p"), n), Latest("c"))
      BY <1>3, <1>4, <1>8 DEF Used, Side
  <2>2. Used + n \in 0 .. Size
      BY <1>5, <1>8, UsedBounds, CtxTypes
  <2>3. ASSUME NEW a \in 0 .. W - 1, NEW b \in 0 .. W - 1,
               WrapSub(a, b) + n \in 0 .. Size
        PROVE  WrapSub(WrapAdd(a, n), b) = WrapSub(a, b) + n
      BY <2>3 DEF WrapSub, WrapAdd
  <2> QED
      BY <1>6, <1>8, <2>1, <2>2, <2>3 DEF Used
<1>9. ASSUME t = "c" PROVE Used' = Used - n
  <2>1. Used' = WrapSub(Latest("p"), WrapAdd(Latest("c"), n))
      BY <1>3, <1>4, <1>9 DEF Used, Side
  <2>2. n <= Used
      BY <1>5, <1>9, UsedBounds, CtxTypes
  <2> QED
      BY <1>6, <1>7, <1>9, <2>1, <2>2, WrapShift DEF Used
<1> QED
    BY <1>3, <1>4, <1>8, <1>9 DEF Side

-----------------------------------------------------------------------------
\* Every step keeps the types of the wait and signal variables, the protocol
\* on the size of a wait and the function of a wait.
LEMMA StepWait ==
    ASSUME IInv, NEW t \in Side, Step(t)
    PROVE  SigTypeOK' /\ SigInv' /\ FuncInv'
<1> DEFINE o == Other(t)
<1>1. o \in Side /\ o # t /\ \A u \in Side : u = t \/ u = o
    BY DEF Side, Other
<1>2. WaitHyp(t, o)
    BY <1>1, SMTT(30) DEF IInv, TypeOK, SigInv, FuncInv, WaitHyp, Side, Other
<1>3. NewEnd(t) - pos[t] \in 0 .. Size
  <2>1. NewEnd(t) \in 0 .. W - 1 /\ pos[t] \in 0 .. Size - 1
      BY NewEndType, CtxTypes, SMTT(30) DEF IInv, TypeOK, Side
  <2>2. pos[t] <= NewEnd(t) /\ NewEnd(t) - pos[t] <= Size
      BY PosInvAsserts DEF IInv, TypeOK, CtxAsserts
  <2> QED
      BY <2>1, <2>2, SizeAssumption, WidthAssumption, SMTT(30)
<1>4. Latest(t)' \in 0 .. W - 1
  <2>1. base'[t] \in 0 .. W - 1 /\ pos'[t] \in 0 .. W - 1
      BY StepPos, SizeAssumption, WidthAssumption, SMTT(30) DEF CtxTypeOK
  <2> QED
      BY <2>1, WrapTypes DEF Latest
<1>5. \A n \in 0 .. Size : commit(t, n) =>
        spscring_atomic_store(t, "pos", Latest(t)')
    BY CommitStores DEF IInv, TypeOK
<1>6. TypeHyp(t, o)
    BY <1>2, TypeHypHolds
<1> HIDE DEF o
<1>7. TypeGoal'
    BY <1>4, <1>5, <1>6, TypeStep
<1>8. SigGoal(t, o)'
    BY <1>2, <1>3, SigStep
<1>9. FuncGoal(t, o)'
    BY <1>2, <1>3, FuncStep
<1>10. SigTypeOK'
    BY <1>7, SMTT(30) DEF TypeGoal, FrameTypeOK, MemTypeOK, SigSize, SigTypeOK
<1>11. SigInv'
    BY <1>8, SMTT(30) DEF SigGoal, SigInv, o, Side, Other
<1>12. FuncInv'
    BY <1>9, SMTT(30) DEF FuncGoal, FuncInv, o, Side, Other
<1> QED
    BY <1>10, <1>11, <1>12

\* What the preservation of WakeInv by t rests on.
WakeHyp(t, o) ==
    /\ WaitHyp(t, o)
    /\ WakeInvAt(t, o) /\ WakeInvAt(o, t)
    /\ ~StoreBuffer /\ sbloc[t] = "none" /\ sbloc[o] = "none"
    /\ NewEnd(t) - pos[t] = Avail(t) /\ Size - Avail(t) = Avail(o)
    /\ Avail(t) \in 0 .. Size /\ Avail(o) \in 0 .. Size

WakeGoal(t, o) == WakeInvAt(t, o) /\ WakeInvAt(o, t)

\* The facts about waits that WakeInv needs.
LEMMA WakeFacts ==
    ASSUME NEW t, NEW o, WakeHyp(t, o)
    PROVE  /\ t \in Side /\ o \in Side /\ o # t /\ o = Other(t) /\ SigTypeOK
           /\ pc[t] \in {"set", "check", "register"} => sigsize[t] = 0
           /\ pc[t] \in {"recheck", "cancel"} =>
                 sigsize[t] \in {psize[t], 0, SIZE_MAX}
<1>1. t \in Side /\ o \in Side /\ o # t /\ o = Other(t) /\ SigTypeOK
    BY DEF WakeHyp, WaitHyp
<1>2. SigInvAt(t, o) /\ FuncInvAt(t, o) /\ sbloc[t] = "none"
    BY DEF WakeHyp, WaitHyp
<1>3. pc[t] \in {"set", "check", "register"} => sigsize[t] = 0
    BY <1>2 DEF SigInvAt
<1>4. pc[t] \in {"recheck", "cancel"} => sigsize[t] \in {psize[t], 0, SIZE_MAX}
    BY <1>2 DEF FuncInvAt
<1> QED
    BY <1>1, <1>3, <1>4

\* What is available changes with the positions only.
LEMMA AvailSame ==
    ASSUME UNCHANGED <<base, pos>>
    PROVE  \A u : Avail(u)' = Avail(u)
BY DEF Avail, Used, Latest

\* A satisfied wait stays about to be noticed if t is neither signalling nor in
\* the second half of submit_wait, and no wait begins.
LEMMA WakeKept ==
    ASSUME NEW t, NEW o, WakeHyp(t, o), UNCHANGED <<base, pos>>,
           pc'[o] = pc[o], size'[o] = size[o],
           sigsize'[t] \in WaitSize => sigsize'[t] = sigsize[t],
           sigsize'[o] \in WaitSize => sigsize'[o] = sigsize[o],
           pc[t] \notin {"recheck", "cancel", "sig_load", "sig_check", "sig_cas"}
    PROVE  WakeGoal(t, o)'
<1>1. WakeInvAt(t, o)'
    BY AvailSame DEF WakeHyp, WakeInvAt
<1>2. WakeInvAt(o, t)'
    BY AvailSame DEF WakeHyp, WakeInvAt
<1> QED
    BY <1>1, <1>2 DEF WakeGoal

\* It stays so if t reads the size of the wait of o in its loop.
LEMMA WakeLoop ==
    ASSUME NEW t, NEW o, WakeHyp(t, o), UNCHANGED <<base, pos, sigsize>>,
           SigLoop(t, sigsize[o]), pc[t] \in {"sig_load", "sig_cas"}
    PROVE  WakeGoal(t, o)'
<1>1. t \in Side /\ o \in Side /\ o # t /\ o = Other(t) /\ SigTypeOK
    BY WakeFacts
<1>2. /\ pc'[o] = pc[o] /\ size'[o] = size[o]
      /\ sigsize[o] # 0 => pc'[t] = "sig_check" /\ size'[t] = sigsize[o]
    BY <1>1, SigLoopAt
<1>3. 0 \notin WaitSize
    BY <1>1, WaitSizes
<1>4. WakeInvAt(t, o)'
    BY <1>2, AvailSame DEF WakeHyp, WakeInvAt
<1>5. WakeInvAt(o, t)'
    BY <1>2, <1>3, AvailSame DEF WakeInvAt
<1> QED
    BY <1>4, <1>5 DEF WakeGoal

\* A satisfied wait stays about to be noticed, by each of the actions.
LEMMA Wake_alloc ==
    ASSUME NEW t, NEW o, NEW n \in 1 .. W, WakeHyp(t, o), alloc(t, n)
    PROVE  WakeGoal(t, o)'
<1>1. /\ pc[t] = "idle"
      /\ UNCHANGED <<base, pos, sigsize, pc, size>>
    BY DEF alloc, frame
<1> QED
    BY <1>1, WakeKept

\* alloc_no_wrap keeps a satisfied wait about to be noticed.
LEMMA Wake_alloc_no_wrap ==
    ASSUME NEW t, NEW o, NEW n \in 1 .. W, WakeHyp(t, o), alloc_no_wrap(t,
           n)
    PROVE  WakeGoal(t, o)'
<1>1. /\ pc[t] = "idle"
      /\ UNCHANGED <<base, pos, sigsize, pc, size>>
    BY DEF alloc_no_wrap, frame
<1> QED
    BY <1>1, WakeKept

\* commit keeps a satisfied wait about to be noticed.
LEMMA Wake_commit ==
    ASSUME NEW t, NEW o, NEW n \in 0 .. Size, WakeHyp(t, o), commit(t, n),
           Avail(t)' \in Int, Avail(t)' <= Avail(t)
    PROVE  WakeGoal(t, o)'
<1>1. /\ sigsize' = sigsize /\ size' = size
      /\ pc[t] = "idle" /\ pc'[t] = "sig_load" /\ pc'[o] = pc[o]
    BY WakeFacts, Domains DEF WakeHyp, commit, spscring_atomic_store
<1>2. sigsize[t] \in WaitSize /\ sigsize[t] <= Avail(t)' =>
          sigsize[t] <= Avail(t)
    BY SizeAssumption, SMTT(30) DEF WakeHyp, WaitSize
<1> QED
    BY <1>1, <1>2, SMTT(30) DEF WakeHyp, WakeGoal, WakeInvAt

\* submit_wait keeps a satisfied wait about to be noticed.
LEMMA Wake_submit ==
    ASSUME NEW t, NEW o, NEW n \in 0 .. Size + 1, NEW f \in Funcs,
           WakeHyp(t, o), submit_wait(t, n, f)
    PROVE  WakeGoal(t, o)'
<1>1. t \in Side /\ o \in Side /\ o # t /\ o = Other(t) /\ SigTypeOK
    BY WakeFacts
<1>2. /\ pc[t] = "idle" /\ pc'[o] = pc[o]
      /\ UNCHANGED <<base, pos, sigsize, size>>
    BY <1>1, Domains DEF submit_wait, ctx
<1> QED
    BY <1>2, WakeKept

\* abort_wait keeps a satisfied wait about to be noticed.
LEMMA Wake_abort_wait ==
    ASSUME NEW t, NEW o, WakeHyp(t, o), abort_wait(t)
    PROVE  WakeGoal(t, o)'
<1>1. t \in Side /\ o \in Side /\ o # t /\ o = Other(t) /\ SigTypeOK
    BY WakeFacts
<1>2. /\ pc[t] = "idle" /\ pc'[o] = pc[o]
      /\ UNCHANGED <<base, pos, sigsize, size>>
    BY <1>1, Domains DEF abort_wait, ctx
<1> QED
    BY <1>2, WakeKept

\* sig_load keeps a satisfied wait about to be noticed.
LEMMA Wake_sig_load ==
    ASSUME NEW t, NEW o, WakeHyp(t, o), sig_load(t)
    PROVE  WakeGoal(t, o)'
<1>1. t \in Side /\ o \in Side /\ o # t /\ o = Other(t) /\ SigTypeOK
    BY WakeFacts
<1>2. LoadSig(t, o) = sigsize[o]
    BY DEF WakeHyp, LoadSig
<1>3. /\ pc[t] = "sig_load" /\ SigLoop(t, LoadSig(t, o))
      /\ UNCHANGED <<base, pos, sigsize>>
    BY <1>1 DEF sig_load, ctx
<1> QED
    BY <1>2, <1>3, WakeLoop

\* sig_check keeps a satisfied wait about to be noticed.
LEMMA Wake_sig_check ==
    ASSUME NEW t, NEW o, WakeHyp(t, o), sig_check(t)
    PROVE  WakeGoal(t, o)'
<1>1. t \in Side /\ o \in Side /\ o # t /\ SigTypeOK
    BY WakeFacts
<1>2. /\ \/ Return(t) /\ size[t] > Avail(o)
         \/ Goto(t, "sig_cas")
      /\ pc[t] = "sig_check"
      /\ UNCHANGED <<base, pos, sigsize>>
    BY DEF WakeHyp, sig_check
<1>3. size[t] > Avail(o) /\ size[t] = sigsize[o] /\ sigsize[o] \in WaitSize =>
          ~(sigsize[o] <= Avail(o))
    BY SizeAssumption, SMTT(30) DEF WakeHyp, WaitSize
<1>4. /\ \/ pc'[t] = "idle" /\ size[t] > Avail(o)
         \/ pc'[t] = "sig_cas" /\ size'[t] = size[t]
      /\ pc'[o] = pc[o] /\ size'[o] = size[o]
    BY <1>1, <1>2, ReturnAt, GotoAt
<1>5. WakeInvAt(t, o)'
    BY <1>2, <1>4, AvailSame DEF WakeHyp, WakeInvAt
<1>6. WakeInvAt(o, t)'
    BY <1>2, <1>3, <1>4, AvailSame DEF WakeHyp, WakeInvAt
<1> QED
    BY <1>5, <1>6 DEF WakeGoal

\* sig_cas_ok keeps a satisfied wait about to be noticed.
LEMMA Wake_sig_cas_ok ==
    ASSUME NEW t, NEW o, WakeHyp(t, o), sig_cas_ok(t)
    PROVE  WakeGoal(t, o)'
<1>1. t \in Side /\ o \in Side /\ o # t /\ o = Other(t) /\ SigTypeOK
    BY WakeFacts
<1>2. /\ pc[t] = "sig_cas" /\ Goto(t, "sig_read")
      /\ sigsize' = [sigsize EXCEPT ![o] = SIZE_MAX]
      /\ UNCHANGED <<base, pos>>
    BY <1>1 DEF sig_cas_ok, ctx
<1>3. pc'[o] = pc[o] /\ size'[o] = size[o]
    BY <1>1, <1>2, GotoAt
<1>4. sigsize'[t] = sigsize[t] /\ sigsize'[o] = SIZE_MAX
    BY <1>1, <1>2, Domains
<1>5. SIZE_MAX \notin WaitSize
    BY <1>1, WaitSizes
<1>6. WakeInvAt(t, o)'
    BY <1>2, <1>3, <1>4, AvailSame DEF WakeHyp, WakeInvAt
<1>7. WakeInvAt(o, t)'
    BY <1>4, <1>5 DEF WakeInvAt
<1> QED
    BY <1>6, <1>7 DEF WakeGoal

\* sig_cas_fail keeps a satisfied wait about to be noticed.
LEMMA Wake_sig_cas_fail ==
    ASSUME NEW t, NEW o, WakeHyp(t, o), sig_cas_fail(t)
    PROVE  WakeGoal(t, o)'
<1>1. t \in Side /\ o \in Side /\ o # t /\ o = Other(t) /\ SigTypeOK
    BY WakeFacts
<1>2. /\ pc[t] = "sig_cas" /\ SigLoop(t, sigsize[o])
      /\ UNCHANGED <<base, pos, sigsize>>
    BY <1>1 DEF sig_cas_fail, ctx
<1> QED
    BY <1>2, WakeLoop

\* sig_read keeps a satisfied wait about to be noticed.
LEMMA Wake_sig_read ==
    ASSUME NEW t, NEW o, WakeHyp(t, o), sig_read(t)
    PROVE  WakeGoal(t, o)'
<1>1. t \in Side /\ o \in Side /\ o # t /\ o = Other(t) /\ SigTypeOK
    BY WakeFacts
<1>2. /\ pc[t] = "sig_read" /\ pc'[o] = pc[o]
      /\ UNCHANGED <<base, pos, sigsize, size>>
    BY <1>1, Domains DEF sig_read, ctx
<1> QED
    BY <1>2, WakeKept

\* sig_clear keeps a satisfied wait about to be noticed.
LEMMA Wake_sig_clear ==
    ASSUME NEW t, NEW o, WakeHyp(t, o), sig_clear(t)
    PROVE  WakeGoal(t, o)'
<1>1. t \in Side /\ o \in Side /\ o # t /\ o = Other(t) /\ SigTypeOK
    BY WakeFacts
<1>2. /\ pc[t] = "sig_clear" /\ Goto(t, "sig_call")
      /\ spscring_atomic_store(t, "other", 0)
      /\ UNCHANGED <<base, pos>>
    BY DEF sig_clear, ctx
<1>3. pc'[o] = pc[o] /\ size'[o] = size[o]
    BY <1>1, <1>2, GotoAt
<1>4. sigsize'[t] = sigsize[t] /\ sigsize'[o] = 0
    BY <1>1, <1>2, StoreAt DEF WakeHyp
<1>5. 0 \notin WaitSize
    BY <1>1, WaitSizes
<1> QED
    BY <1>2, <1>3, <1>4, <1>5, WakeKept

\* sig_call keeps a satisfied wait about to be noticed.
LEMMA Wake_sig_call ==
    ASSUME NEW t, NEW o, WakeHyp(t, o), sig_call(t)
    PROVE  WakeGoal(t, o)'
<1>1. t \in Side /\ o \in Side /\ o # t /\ o = Other(t) /\ SigTypeOK
    BY WakeFacts
<1>2. /\ pc[t] = "sig_call" /\ pc'[o] = pc[o] /\ size'[o] = size[o]
      /\ UNCHANGED <<base, pos, sigsize>>
    BY <1>1, ReturnAt DEF sig_call, ctx
<1> QED
    BY <1>2, WakeKept

\* abort_load keeps a satisfied wait about to be noticed.
LEMMA Wake_abort_load ==
    ASSUME NEW t, NEW o, WakeHyp(t, o), abort_load(t)
    PROVE  WakeGoal(t, o)'
<1>1. t \in Side /\ o \in Side /\ o # t /\ o = Other(t) /\ SigTypeOK
    BY WakeFacts
<1>2. /\ pc[t] = "abort_load" /\ pc'[o] = pc[o] /\ size'[o] = size[o]
      /\ UNCHANGED <<base, pos, sigsize>>
    BY <1>1, AbortLoopAt DEF abort_load, ctx
<1> QED
    BY <1>2, WakeKept

\* abort_cas_ok keeps a satisfied wait about to be noticed.
LEMMA Wake_abort_cas_ok ==
    ASSUME NEW t, NEW o, WakeHyp(t, o), abort_cas_ok(t)
    PROVE  WakeGoal(t, o)'
<1>1. t \in Side /\ o \in Side /\ o # t /\ o = Other(t) /\ SigTypeOK
    BY WakeFacts
<1>2. /\ pc[t] = "abort_cas" /\ AbortReturn(t)
      /\ sigsize' = [sigsize EXCEPT ![t] = 0]
      /\ UNCHANGED <<base, pos>>
    BY DEF abort_cas_ok, ctx
<1>3. pc'[o] = pc[o] /\ size'[o] = size[o]
    BY <1>1, <1>2, AbortReturnAt
<1>4. sigsize'[t] = 0 /\ sigsize'[o] = sigsize[o]
    BY <1>1, <1>2, Domains
<1>5. 0 \notin WaitSize
    BY <1>1, WaitSizes
<1> QED
    BY <1>2, <1>3, <1>4, <1>5, WakeKept

\* abort_cas_fail keeps a satisfied wait about to be noticed.
LEMMA Wake_abort_cas_fail ==
    ASSUME NEW t, NEW o, WakeHyp(t, o), abort_cas_fail(t)
    PROVE  WakeGoal(t, o)'
<1>1. t \in Side /\ o \in Side /\ o # t /\ o = Other(t) /\ SigTypeOK
    BY WakeFacts
<1>2. /\ pc[t] = "abort_cas" /\ pc'[o] = pc[o] /\ size'[o] = size[o]
      /\ UNCHANGED <<base, pos, sigsize>>
    BY <1>1, AbortLoopAt DEF abort_cas_fail, ctx
<1> QED
    BY <1>2, WakeKept

\* set_func keeps a satisfied wait about to be noticed.
LEMMA Wake_set_func ==
    ASSUME NEW t, NEW o, WakeHyp(t, o), set_func(t)
    PROVE  WakeGoal(t, o)'
<1>1. t \in Side /\ o \in Side /\ o # t /\ o = Other(t) /\ SigTypeOK
    BY WakeFacts
<1>2. /\ pc[t] = "set" /\ pc'[o] = pc[o] /\ size'[o] = size[o]
      /\ UNCHANGED <<base, pos, sigsize>>
    BY <1>1, GotoAt DEF set_func, ctx
<1> QED
    BY <1>2, WakeKept

\* first_check keeps a satisfied wait about to be noticed.
LEMMA Wake_first_check ==
    ASSUME NEW t, NEW o, WakeHyp(t, o), first_check(t)
    PROVE  WakeGoal(t, o)'
<1>1. t \in Side /\ o \in Side /\ o # t /\ o = Other(t) /\ SigTypeOK
    BY WakeFacts
<1>2. /\ Return(t) \/ Goto(t, "register")
      /\ pc[t] = "check"
      /\ UNCHANGED <<base, pos, sigsize>>
    BY DEF first_check
<1>3. pc'[o] = pc[o] /\ size'[o] = size[o]
    BY <1>1, <1>2, ReturnAt, GotoAt
<1> QED
    BY <1>2, <1>3, WakeKept

\* register keeps a satisfied wait about to be noticed.
LEMMA Wake_register ==
    ASSUME NEW t, NEW o, WakeHyp(t, o), register(t)
    PROVE  WakeGoal(t, o)'
<1>1. t \in Side /\ o \in Side /\ o # t /\ o = Other(t) /\ SigTypeOK
    BY WakeFacts
<1>2. /\ pc[t] = "register" /\ Goto(t, "recheck")
      /\ spscring_atomic_store(t, "own", psize[t])
      /\ UNCHANGED <<base, pos>>
    BY DEF register, ctx
<1>3. pc'[t] = "recheck" /\ pc'[o] = pc[o] /\ size' = size
    BY <1>1, <1>2, GotoAt
<1>4. sigsize'[o] = sigsize[o]
    BY <1>1, <1>2, StoreAt DEF WakeHyp
<1> QED
    BY <1>2, <1>3, <1>4, AvailSame DEF WakeHyp, WakeGoal, WakeInvAt

\* second_check keeps a satisfied wait about to be noticed.
LEMMA Wake_second_check ==
    ASSUME NEW t, NEW o, WakeHyp(t, o), second_check(t)
    PROVE  WakeGoal(t, o)'
<1>1. t \in Side /\ o \in Side /\ o # t /\ SigTypeOK
    BY WakeFacts
<1>2. /\ \/ Return(t) /\ ~(psize[t] <= Avail(t))
         \/ Goto(t, "cancel")
      /\ pc[t] = "recheck"
      /\ UNCHANGED <<base, pos, sigsize>>
    BY DEF WakeHyp, second_check
<1>3. sigsize[t] \in {psize[t], 0, SIZE_MAX}
    BY <1>2, WakeFacts
<1>4. /\ \/ pc'[t] = "idle" /\ ~(psize[t] <= Avail(t))
         \/ pc'[t] = "cancel"
      /\ pc'[o] = pc[o] /\ size'[o] = size[o]
    BY <1>1, <1>2, ReturnAt, GotoAt
<1>5. 0 \notin WaitSize /\ SIZE_MAX \notin WaitSize
    BY <1>1, WaitSizes
<1>6. WakeInvAt(t, o)'
    BY <1>2, <1>3, <1>4, <1>5, AvailSame DEF WakeInvAt
<1>7. WakeInvAt(o, t)'
    BY <1>2, <1>4, AvailSame DEF WakeHyp, WakeInvAt
<1> QED
    BY <1>6, <1>7 DEF WakeGoal

\* cancel keeps a satisfied wait about to be noticed.
LEMMA Wake_cancel ==
    ASSUME NEW t, NEW o, WakeHyp(t, o), cancel(t)
    PROVE  WakeGoal(t, o)'
<1>1. t \in Side /\ o \in Side /\ o # t /\ o = Other(t) /\ SigTypeOK
    BY WakeFacts
<1>2. /\ pc[t] = "cancel" /\ Return(t) /\ UNCHANGED <<base, pos>>
      /\ \/ sigsize' = [sigsize EXCEPT ![t] = 0]
         \/ sigsize' = sigsize /\ sigsize[t] # psize[t]
    BY DEF cancel, ctx
<1>3. pc'[o] = pc[o] /\ size'[o] = size[o]
    BY <1>1, <1>2, ReturnAt
<1>4. sigsize'[o] = sigsize[o] /\ sigsize'[t] \in {0, SIZE_MAX}
    BY <1>1, <1>2, Domains, WakeFacts
<1>5. 0 \notin WaitSize /\ SIZE_MAX \notin WaitSize
    BY <1>1, WaitSizes
<1>6. WakeInvAt(t, o)'
    BY <1>4, <1>5 DEF WakeInvAt
<1>7. WakeInvAt(o, t)'
    BY <1>2, <1>3, <1>4, AvailSame DEF WakeHyp, WakeInvAt
<1> QED
    BY <1>6, <1>7 DEF WakeGoal

\* Flush keeps a satisfied wait about to be noticed.
LEMMA Wake_Flush ==
    ASSUME NEW t, NEW o, WakeHyp(t, o), Flush(t)
    PROVE  WakeGoal(t, o)'
BY WaitSizes, Domains, WakeFacts, AvailSame, SMTT(30)
DEF WakeHyp, Flush, WakeGoal, WakeInvAt

\* Without store buffers, every step keeps a satisfied wait about to be noticed.
LEMMA StepWake ==
    ASSUME IInv, NEW t \in Side, Step(t)
    PROVE  WakeInv'
<1> USE SMTT(30)
<1> SUFFICES ASSUME ~StoreBuffer PROVE WakeInv'
    BY DEF WakeInv
<1> DEFINE o == Other(t)
<1>1. o \in Side /\ o # t /\ \A u \in Side : u = t \/ u = o
    BY DEF Side, Other
<1>2. WaitHyp(t, o) /\ WakeInvAt(t, o) /\ WakeInvAt(o, t)
    BY <1>1 DEF IInv, TypeOK, SigInv, FuncInv, WaitHyp, WakeInv, Side, Other
<1>3. /\ sbloc[t] = "none" /\ sbloc[o] = "none"
      /\ NewEnd(t) - pos[t] = Avail(t) /\ Size - Avail(t) = Avail(o)
      /\ Avail(t) \in 0 .. Size /\ Avail(o) \in 0 .. Size
  <2>1. \A u \in Side : sbloc[u] = "none" /\ apos[u] = Latest(u)
      BY DEF IInv, StoreInv
  <2>2. /\ Used \in 0 .. Size /\ NewEnd("c") - pos["c"] = Used
        /\ NewEnd("p") - pos["p"] = Size - Used
      BY <2>1, UsedBounds DEF IInv, TypeOK, Side
  <2>3. \A u \in Side : /\ NewEnd(u) - pos[u] = Avail(u)
                        /\ Avail(u) \in 0 .. Size
      BY <2>2, SizeAssumption DEF Avail, Side
  <2>4. Size - Avail(t) = Avail(o)
      BY <2>2, SizeAssumption DEF Avail, Side, Other
  <2> QED
      BY <1>1, <2>1, <2>3, <2>4
<1>4. \A n \in 0 .. Size : commit(t, n) =>
          Avail(t)' \in Int /\ Avail(t)' <= Avail(t)
    BY CommitUsed, UsedBounds, SizeAssumption DEF IInv, TypeOK, Avail, Side
<1>5. WakeHyp(t, o)
    BY <1>2, <1>3 DEF WakeHyp
<1> HIDE DEF o
<1>6. WakeGoal(t, o)'
    BY <1>4, <1>5, Wake_alloc, Wake_alloc_no_wrap, Wake_commit, Wake_submit,
       Wake_abort_wait, Wake_sig_load, Wake_sig_check, Wake_sig_cas_ok,
       Wake_sig_cas_fail, Wake_sig_read, Wake_sig_clear, Wake_sig_call,
       Wake_abort_load, Wake_abort_cas_ok, Wake_abort_cas_fail, Wake_set_func,
       Wake_first_check, Wake_register, Wake_second_check, Wake_cancel,
       Wake_Flush DEF Step
<1>7. WakeInvAt(t, Other(t))' /\ WakeInvAt(Other(t), Other(Other(t)))'
    BY <1>6 DEF WakeGoal, o, Side, Other
<1> QED
    BY <1>7 DEF WakeInv, Side, Other

\* A commit of the producer writes positions into the slots.
LEMMA StepSlots ==
    ASSUME IInv, NEW t \in Side, Step(t)
    PROVE  slots' \in [0 .. Size - 1 -> 0 .. W]
<1> USE SizeAssumption, WidthAssumption
<1>1. slots \in [0 .. Size - 1 -> 0 .. W]
    BY DEF IInv, TypeOK
<1>2. CASE \E n \in 0 .. Size : commit(t, n)
  <2>1. base[t] \in 0 .. W - 1 /\ pos[t] \in 0 .. Size - 1
      BY DEF IInv, TypeOK, CtxTypeOK
  <2>2. \A i \in 0 .. Size - 1 :
          WrapAdd(base[t], IF i < pos[t] THEN i + Size ELSE i) \in 0 .. W
      BY <2>1, SMTT(30) DEF WrapAdd
  <2> QED
      BY <1>1, <1>2, <2>2 DEF commit
<1>3. CASE UNCHANGED slots
    BY <1>1, <1>3
<1> QED
    BY <1>2, <1>3 DEF Step, alloc, alloc_no_wrap, submit_wait, abort_wait,
       sig_load, sig_check, sig_cas_ok, sig_cas_fail, sig_read, sig_clear,
       sig_call, abort_load, abort_cas_ok, abort_cas_fail, set_func,
       first_check, register, second_check, cancel, Flush

\* IInv is an invariant.
THEOREM Invariance == Spec => []IInv
<1>1. Init => IInv
    BY InitIInv
<1>2. IInv /\ [Next]_vars => IInv'
  <2> SUFFICES ASSUME IInv, [Next]_vars PROVE IInv'
      OBVIOUS
  <2>1. CASE Next
    <3>1. PICK t \in Side : Step(t)
        BY <2>1, NextIsStep
    <3> QED
        BY <3>1, StepPos, StepSlots, StepStore, StepWait, StepWake
        DEF IInv, TypeOK
  <2>2. CASE UNCHANGED vars
      BY <2>2, Zenon DEF vars, IInv, TypeOK, CtxTypeOK, SigTypeOK, PosInv, PosInvAt,
         NewEnd, StoreInv, Latest, SigInv, SigInvAt, FuncInv, FuncInvAt,
         Registered, WakeInv, WakeInvAt, Avail, Used
  <2> QED
      BY <2>1, <2>2
<1> QED
    BY <1>1, <1>2, PTL DEF Spec

-----------------------------------------------------------------------------
(* The theorems. *)

\* Positions stay within the width of size_t and of the ring, whatever the
\* interleaving of the two threads.
THEOREM TypeCorrect == Spec => []TypeOK
<1>1. IInv => TypeOK
    BY DEF IInv
<1> QED
    BY <1>1, Invariance, PTL

\* No assertion of spscring_p_* and spscring_c_* on the contexts fails.
THEOREM AssertionsHold == Spec => []CtxAsserts
<1>1. IInv => CtxAsserts
    BY PosInvAsserts DEF IInv, TypeOK
<1> QED
    BY <1>1, Invariance, PTL

\* The producer and the consumer never access the same slot.
THEOREM MutualExclusion == Spec => []RegionsDisjoint
<1>1. IInv => RegionsDisjoint
  <2> USE SizeAssumption, WidthAssumption
  <2>1. ASSUME IInv, NEW d \in {0, Size}, PosInvAt(d),
               NEW i \in 0 .. end["p"] - pos["p"] - 1,
               NEW j \in 0 .. end["c"] - pos["c"] - 1
        PROVE  Slot(pos["p"] + i) # Slot(pos["c"] + j)
    <3>1. CtxTypeOK
        BY <2>1 DEF IInv, TypeOK
    <3>2. /\ pos["p"] \in 0 .. Size - 1 /\ pos["c"] \in 0 .. Size - 1
          /\ end["p"] \in 0 .. 2 * Size - 1 /\ end["c"] \in 0 .. 2 * Size - 1
          /\ NewEnd("p") \in Int /\ NewEnd("c") \in Int
        BY <3>1, CtxTypes, NewEndType
    <3>3. end["c"] <= pos["p"] + d /\ end["p"] <= pos["c"] + Size - d
        BY <2>1, <3>2 DEF PosInvAt
    <3> QED
        BY <3>2, <3>3 DEF Slot
  <2> QED
      BY <2>1 DEF IInv, PosInv, RegionsDisjoint, Region
<1> QED
    BY <1>1, Invariance, PTL

\* The function pointer and argument of a wait are never read and written at
\* the same time.
THEOREM NoFuncArgRace == Spec => []FuncArgExclusive
<1>1. IInv => FuncArgExclusive
    BY SizeAssumption, WidthAssumption
    DEF IInv, SigInv, SigInvAt, FuncArgExclusive, SIZE_MAX
<1> QED
    BY <1>1, Invariance, PTL

\* The signal function of a wait that was cancelled, or that submit_wait
\* answered with 0, is not invoked.
THEOREM SignalsAreWanted == Spec => []SignalOnlyWaiting
<1>1. IInv => SignalOnlyWaiting
    BY DEF IInv, FuncInv, FuncInvAt, SignalOnlyWaiting, Side, Other
<1> QED
    BY <1>1, Invariance, PTL

\* The assertion of submit_wait holds when the wait cannot be withdrawn.
THEOREM CancelAssertHolds == Spec => []CancelAssert
<1>1. IInv => CancelAssert
    BY DEF IInv, FuncInv, FuncInvAt, CancelAssert
<1> QED
    BY <1>1, Invariance, PTL

\* With sequentially consistent atomics no wakeup is lost.
THEOREM NoLostWakeup == Spec => []WakeupPending
<1>1. IInv => WakeupPending
    BY DEF IInv, WakeInv, WakeInvAt, WakeupPending, WaitSize
<1> QED
    BY <1>1, Invariance, PTL

-----------------------------------------------------------------------------
\* The addition of the code is the addition modulo W.
LEMMA WrapAddMod ==
    ASSUME NEW a \in 0 .. W - 1, NEW b \in 0 .. W - 1
    PROVE  (a + b) % W = WrapAdd(a, b)
BY WidthAssumption, SizeAssumption, SMTT(30) DEF WrapAdd

\* The number the producer gives to its k-th next slot.
LEMMA PutNumber ==
    ASSUME NEW b \in 0 .. W - 1, NEW x \in 0 .. Size - 1,
           NEW k \in 0 .. Size - 1
    PROVE  WrapAdd(b, x + k) = (WrapAdd(b, x) + k) % W
<1> USE SizeAssumption, WidthAssumption
<1>1. k \in 0 .. W - 1 /\ WrapAdd(b, x) \in 0 .. W - 1
    BY DEF WrapAdd
<1>2. (WrapAdd(b, x) + k) % W = WrapAdd(WrapAdd(b, x), k)
    BY <1>1, WrapAddMod
<1>3. WrapAdd(WrapAdd(b, x), k) = WrapAdd(b, x + k)
    BY DEF WrapAdd
<1> QED
    BY <1>2, <1>3

\* A function on 1 .. n is a sequence of length n.
LEMMA FunctionIsSeq ==
    ASSUME NEW S, NEW n \in Nat, NEW f \in [1 .. n -> S]
    PROVE  f \in Seq(S) /\ Len(f) = n
OBVIOUS

\* A commit of the producer appends the items it wrote: the slots in use keep
\* their contents (they are not the ones the producer may write), and the k-th
\* slot after them now holds the k-th number not yet put.
LEMMA PutRefines ==
    ASSUME IInv, NEW n \in 0 .. Size, commit("p", n)
    PROVE  Fifo!Put(n)
<1> USE SizeAssumption, WidthAssumption
<1>t. CtxTypeOK /\ PosInv
    BY DEF IInv, TypeOK
<1> DEFINE At(i) == Slot(pos["c"] + i - 1)
           Q == [i \in 1 .. Used |-> slots[At(i)]]
           A == [i \in 1 .. n |-> (Latest("p") + i - 1) % W]
<1>1. /\ n <= end["p"] - pos["p"]
      /\ slots' = [i \in 0 .. Size - 1 |->
                     IF \E k \in 0 .. n - 1 : Slot(pos["p"] + k) = i
                     THEN WrapAdd(base["p"],
                                  IF i < pos["p"] THEN i + Size ELSE i)
                     ELSE slots[i]]
    BY DEF commit
<1>2. pos'["c"] = pos["c"]
    BY <1>t DEF commit, CtxTypeOK, Side
<1>3. /\ Used \in 0 .. Size /\ Used + n <= Size
      /\ Used' = Used + n /\ Latest("p")' = WrapAdd(Latest("p"), n)
    BY <1>1, <1>t, UsedBounds, CommitUsed, CtxTypes DEF Side
<1>4. /\ pos["p"] \in 0 .. Size - 1 /\ pos["c"] \in 0 .. Size - 1
      /\ base["p"] \in 0 .. W - 1 /\ Latest("p") \in 0 .. W - 1
    BY <1>t, CtxTypes, LatestType DEF Side
<1>5. PICK d \in {0, Size} : Used = d + pos["p"] - pos["c"]
    BY <1>t, UsedAt DEF PosInv
<1>6. ASSUME NEW i \in 1 .. Used
      PROVE  slots'[At(i)] = slots[At(i)]
  <2>1. /\ At(i) \in 0 .. Size - 1
        /\ ~ \E k \in 0 .. n - 1 : Slot(pos["p"] + k) = At(i)
      BY <1>3, <1>4, <1>5 DEF Slot
  <2> QED
      BY <1>1, <2>1
<1>7. ASSUME NEW k \in 0 .. n - 1
      PROVE  slots'[At(Used + 1 + k)] = (Latest("p") + k) % W
  <2>1. At(Used + 1 + k) = Slot(pos["p"] + k)
      BY <1>3, <1>4, <1>5 DEF Slot
  <2>2. /\ Slot(pos["p"] + k) \in 0 .. Size - 1
        /\ (IF Slot(pos["p"] + k) < pos["p"] THEN Slot(pos["p"] + k) + Size
                                             ELSE Slot(pos["p"] + k))
              = pos["p"] + k
      BY <1>3, <1>4 DEF Slot
  <2>3. slots'[Slot(pos["p"] + k)] = WrapAdd(base["p"], pos["p"] + k)
      BY <1>1, <2>2
  <2> QED
      BY <1>3, <1>4, <2>1, <2>3, PutNumber DEF Latest
<1>8. Q \in Seq(0 .. W) /\ Len(Q) = Used
  <2>1. \A i \in 1 .. Used : At(i) \in 0 .. Size - 1
      BY <1>3, <1>4 DEF Slot
  <2>2. Q \in [1 .. Used -> 0 .. W]
      BY <2>1 DEF IInv, TypeOK
  <2> QED
      BY <1>3, <2>2, FunctionIsSeq
<1>9. A \in Seq(0 .. W) /\ Len(A) = n
  <2>1. \A i \in 1 .. n : (Latest("p") + i - 1) % W \in 0 .. W
      BY <1>4
  <2>2. A \in [1 .. n -> 0 .. W]
      BY <2>1
  <2> QED
      BY <2>2, FunctionIsSeq
<1>10. Q \o A = [i \in 1 .. Used + n |->
                  IF i <= Used THEN slots[At(i)]
                               ELSE (Latest("p") + (i - Used) - 1) % W]
    BY <1>3, <1>8, <1>9
<1>11. [i \in 1 .. Used |-> slots[Slot(pos["c"] + i - 1)]]' = Q \o A
  <2>1. [i \in 1 .. Used |-> slots[Slot(pos["c"] + i - 1)]]'
          = [i \in 1 .. Used + n |-> slots'[At(i)]]
      BY <1>2, <1>3
  <2>2. ASSUME NEW i \in 1 .. Used + n
        PROVE  slots'[At(i)] = IF i <= Used THEN slots[At(i)]
                               ELSE (Latest("p") + (i - Used) - 1) % W
    <3>1. CASE i <= Used
        BY <1>3, <1>6, <3>1
    <3>2. CASE i > Used
      <4>1. PICK k \in 0 .. n - 1 : k = i - Used - 1
          BY <1>3, <3>2
      <4>2. At(i) = At(Used + 1 + k)
          BY <1>3, <4>1
      <4> QED
          BY <1>3, <1>4, <1>7, <3>2, <4>1, <4>2
    <3> QED
        BY <1>3, <3>1, <3>2
  <2> QED
      BY <1>10, <2>1, <2>2
<1>12. Latest("p")' = (Latest("p") + n) % W
    BY <1>3, <1>4, WrapAddMod
<1> QED
    BY <1>3, <1>8, <1>11, <1>12 DEF Fifo!Put

\* A commit of the consumer drops the oldest items: the first slot in use moves
\* on by n, and no slot changes.
LEMMA GetRefines ==
    ASSUME IInv, NEW n \in 0 .. Size, commit("c", n)
    PROVE  Fifo!Get(n)
<1> USE SizeAssumption, WidthAssumption
<1>t. CtxTypeOK /\ PosInv
    BY DEF IInv, TypeOK
<1> DEFINE At(i) == Slot(pos["c"] + i - 1)
           Q == [i \in 1 .. Used |-> slots[At(i)]]
<1>1. /\ n <= end["c"] - pos["c"] /\ slots' = slots
      /\ pos'["c"] = IF pos["c"] + n >= Size THEN pos["c"] + n - Size
                                             ELSE pos["c"] + n
    BY <1>t DEF commit, CtxTypeOK, Side
<1>2. /\ Used \in 0 .. Size /\ n <= Used
      /\ Used' = Used - n /\ Latest("p")' = Latest("p")
    BY <1>1, <1>t, UsedBounds, CommitUsed, CtxTypes DEF Side
<1>3. pos["c"] \in 0 .. Size - 1
    BY <1>t, CtxTypes
<1>4. Q \in Seq(0 .. W) /\ Len(Q) = Used
  <2>1. \A i \in 1 .. Used : At(i) \in 0 .. Size - 1
      BY <1>2, <1>3 DEF Slot
  <2>2. Q \in [1 .. Used -> 0 .. W]
      BY <2>1 DEF IInv, TypeOK
  <2> QED
      BY <1>2, <2>2, FunctionIsSeq
<1>5. ASSUME NEW i \in 1 .. Used - n
      PROVE  Slot(pos'["c"] + i - 1) = At(i + n)
    BY <1>1, <1>2, <1>3 DEF Slot
<1>6. SubSeq(Q, n + 1, Used) = [i \in 1 .. Used - n |-> Q[i + n]]
    BY <1>2, <1>4
<1>7. [i \in 1 .. Used |-> slots[Slot(pos["c"] + i - 1)]]'
        = [i \in 1 .. Used - n |-> slots[At(i + n)]]
    BY <1>1, <1>2, <1>5
<1>8. [i \in 1 .. Used - n |-> Q[i + n]]
        = [i \in 1 .. Used - n |-> slots[At(i + n)]]
  <2>1. \A i \in 1 .. Used - n : i + n \in 1 .. Used
      BY <1>2
  <2> QED
      BY <2>1
<1>9. [i \in 1 .. Used |-> slots[Slot(pos["c"] + i - 1)]]'
        = SubSeq(Q, n + 1, Len(Q))
    BY <1>4, <1>6, <1>7, <1>8, Zenon
<1>10. n <= Len(Q) /\ Latest("p")' = Latest("p")
    BY <1>2, <1>4
<1> QED
    BY <1>9, <1>10, Zenon DEF Fifo!Get

\* The queue and the number of items put depend on the positions and the slots
\* only.
LEMMA OtherSteps ==
    ASSUME UNCHANGED <<base, pos, slots>>
    PROVE  UNCHANGED <<[i \in 1 .. Used |-> slots[Slot(pos["c"] + i - 1)]],
                       Latest("p")>>
BY DEF Used, Latest

\* No other step moves a position or writes a slot.
LEMMA StepQueue ==
    ASSUME NEW t \in Side, Step(t),
           ~ \E n \in 0 .. Size : commit(t, n)
    PROVE  UNCHANGED <<base, pos, slots>>
<1>1. CASE \/ \E n \in 1 .. W : alloc(t, n)
           \/ \E n \in 1 .. W : alloc_no_wrap(t, n)
           \/ \E n \in 0 .. Size + 1, f \in Funcs : submit_wait(t, n, f)
           \/ abort_wait(t)
    BY <1>1 DEF alloc, alloc_no_wrap, submit_wait, abort_wait, ctx
<1>2. CASE \/ sig_load(t) \/ sig_check(t) \/ sig_cas_ok(t) \/ sig_cas_fail(t)
           \/ sig_read(t) \/ sig_clear(t) \/ sig_call(t)
    BY <1>2 DEF sig_load, sig_check, sig_cas_ok, sig_cas_fail, sig_read,
       sig_clear, sig_call, ctx
<1>3. CASE \/ abort_load(t) \/ abort_cas_ok(t) \/ abort_cas_fail(t)
           \/ set_func(t) \/ first_check(t) \/ register(t) \/ second_check(t)
           \/ cancel(t) \/ Flush(t)
    BY <1>3 DEF abort_load, abort_cas_ok, abort_cas_fail, set_func,
       first_check, register, second_check, cancel, Flush, ctx
<1> QED
    BY <1>1, <1>2, <1>3 DEF Step

\* The ring implements a bounded FIFO queue: what spscring_p_commit() makes
\* available is what spscring_c_commit() consumes, once, in the order in which it
\* was put, with never more than the size of the ring in between, on x86 store
\* buffers too.
THEOREM IsAFifo == Spec => ImplementsFifo
<1> DEFINE fvars == <<[i \in 1 .. Used |-> slots[Slot(pos["c"] + i - 1)]],
                      Latest("p")>>
<1>1. Init => Fifo!Init
  <2>1. Init => Latest("p") = 0 /\ Latest("c") = 0
      BY WidthAssumption DEF Init, Latest, WrapAdd, Side
  <2>2. Init => Used = 0
      BY <2>1 DEF Used, WrapSub
  <2>3. Init => [i \in 1 .. Used |-> slots[Slot(pos["c"] + i - 1)]] = <<>>
      BY <2>2
  <2> QED
      BY <2>1, <2>3 DEF Fifo!Init
<1>2. ASSUME IInv, [Next]_vars
      PROVE  [Fifo!Next]_fvars
  <2>1. CASE Next
    <3>1. PICK t \in Side : Step(t)
        BY <2>1, NextIsStep
    <3>2. CASE \E n \in 0 .. Size : commit(t, n)
      <4>1. PICK n \in 0 .. Size : commit(t, n)
          BY <3>2
      <4>2. CASE t = "p"
          BY <1>2, <4>1, <4>2, PutRefines DEF Fifo!Next
      <4>3. CASE t = "c"
          BY <1>2, <4>1, <4>3, GetRefines DEF Fifo!Next
      <4> QED
          BY <4>2, <4>3 DEF Side
    <3>3. CASE ~ \E n \in 0 .. Size : commit(t, n)
        BY <3>1, <3>3, StepQueue, OtherSteps
    <3> QED
        BY <3>2, <3>3
  <2>2. CASE UNCHANGED vars
    <3>1. UNCHANGED <<base, pos, slots>>
        BY <2>2 DEF vars, ctx
    <3> QED
        BY <3>1, OtherSteps
  <2> QED
      BY <1>2, <2>1, <2>2
<1>3. IInv /\ [Next]_vars => [Fifo!Next]_fvars
    BY <1>2
<1> QED
    BY <1>1, <1>3, Invariance, PTL DEF Spec, ImplementsFifo, Fifo!Spec
=============================================================================
