---------------------------- MODULE AlEthRxProof ----------------------------
(***************************************************************************)
(* Proofs about the receive path, for every ring size, reserve and number  *)
(* of buffers that RxAssumption allows.                                    *)
(***************************************************************************)
EXTENDS AlEthRx, TLAPS

(***************************************************************************)
(* Arithmetic modulo a positive number, on the ranges the driver uses.     *)
(***************************************************************************)

\* A number below N is its own remainder: no wrap.
LEMMA ModSmall == ASSUME NEW N \in Nat \ {0}, NEW x \in 0 .. (N - 1)
                  PROVE  x % N = x
  OBVIOUS

\* One wrap upwards.
LEMMA ModOver == ASSUME NEW N \in Nat \ {0}, NEW x \in N .. (2*N - 1)
                 PROVE  x % N = x - N
  OBVIOUS

\* One wrap downwards.
LEMMA ModNeg == ASSUME NEW N \in Nat \ {0}, NEW x \in (-N) .. (-1)
                PROVE  x % N = x + N
  OBVIOUS

\* IdxAdd(i, 1), the step of every index of the ring.
LEMMA IdxStep == ASSUME NEW i \in Idx
                 PROVE  /\ IdxAdd(i, 1) \in Idx
                        /\ IdxAdd(i, 1) = IF i = RingSize - 1 THEN 0 ELSE i + 1
  <1>1. CASE i = RingSize - 1
    BY <1>1, UdmaAssumption, ModOver DEF Idx, IdxAdd
  <1>2. CASE i # RingSize - 1
    BY <1>2, UdmaAssumption, ModSmall DEF Idx, IdxAdd
  <1> QED BY <1>1, <1>2

\* Dist without the remainder.
LEMMA DistIs == ASSUME NEW i \in Idx, NEW j \in Idx
                PROVE  /\ Dist(i, j) \in Idx
                       /\ Dist(i, j) = IF j >= i THEN j - i ELSE j - i + RingSize
  <1>1. CASE j >= i
    BY <1>1, UdmaAssumption, ModSmall DEF Idx, Dist
  <1>2. CASE ~(j >= i)
    BY <1>2, UdmaAssumption, ModNeg DEF Idx, Dist
  <1> QED BY <1>1, <1>2

\* Distances from one slot tell the others apart.
LEMMA DistInj == ASSUME NEW i \in Idx, NEW j \in Idx, NEW k \in Idx, j # k
                 PROVE  Dist(i, j) # Dist(i, k)
  <1>1. /\ Dist(i, j) = IF j >= i THEN j - i ELSE j - i + RingSize
        /\ Dist(i, k) = IF k >= i THEN k - i ELSE k - i + RingSize
    BY DistIs
  <1> QED BY <1>1, UdmaAssumption DEF Idx

\* Moving the far end on by one slot, short of a full turn.
LEMMA DistStep == ASSUME NEW i \in Idx, NEW j \in Idx, Dist(i, j) + 1 < RingSize
                  PROVE  Dist(i, IdxAdd(j, 1)) = Dist(i, j) + 1
  <1>1. /\ IdxAdd(j, 1) \in Idx
        /\ IdxAdd(j, 1) = IF j = RingSize - 1 THEN 0 ELSE j + 1
    BY IdxStep
  <1>2. /\ Dist(i, j) = IF j >= i THEN j - i ELSE j - i + RingSize
        /\ Dist(i, IdxAdd(j, 1)) = IF IdxAdd(j, 1) >= i THEN IdxAdd(j, 1) - i
                                   ELSE IdxAdd(j, 1) - i + RingSize
    BY <1>1, DistIs
  <1> QED BY <1>1, <1>2, UdmaAssumption DEF Idx

\* Moving the near end on by one slot.
LEMMA DistStepNear == ASSUME NEW i \in Idx, NEW j \in Idx, i # j
                      PROVE  Dist(IdxAdd(i, 1), j) = Dist(i, j) - 1
  <1>1. /\ IdxAdd(i, 1) \in Idx
        /\ IdxAdd(i, 1) = IF i = RingSize - 1 THEN 0 ELSE i + 1
    BY IdxStep
  <1>2. /\ Dist(i, j) = IF j >= i THEN j - i ELSE j - i + RingSize
        /\ Dist(IdxAdd(i, 1), j) = IF j >= IdxAdd(i, 1) THEN j - IdxAdd(i, 1)
                                   ELSE j - IdxAdd(i, 1) + RingSize
    BY <1>1, DistIs
  <1> QED BY <1>1, <1>2, UdmaAssumption DEF Idx

\* The slot just left behind is the farthest one.
LEMMA DistFull == ASSUME NEW i \in Idx
                  PROVE  Dist(IdxAdd(i, 1), i) = RingSize - 1
  <1>1. /\ IdxAdd(i, 1) \in Idx
        /\ IdxAdd(i, 1) = IF i = RingSize - 1 THEN 0 ELSE i + 1
    BY IdxStep
  <1>2. Dist(IdxAdd(i, 1), i) = IF i >= IdxAdd(i, 1) THEN i - IdxAdd(i, 1)
                                ELSE i - IdxAdd(i, 1) + RingSize
    BY <1>1, DistIs
  <1> QED BY <1>1, <1>2, UdmaAssumption DEF Idx

\* al_udma_available_get finds a descriptor whenever fewer than
\* RingSize - Reserve are outstanding.
LEMMA AvailableIs ==
    ASSUME NEW n \in Idx, NEW c \in Idx, Dist(c, n) < RingSize - Reserve
    PROVE  ~(Available(n, c) < 1)
  <1>1. CASE n >= c
    <2>1. c - (n + Reserve) \in (-RingSize) .. (-1)
      BY <1>1, DistIs, UdmaAssumption DEF Idx
    <2>2. Available(n, c) = c - (n + Reserve) + RingSize
      BY <2>1, ModNeg, UdmaAssumption DEF Available
    <2>3. Dist(c, n) = n - c
      BY <1>1, DistIs
    <2> QED BY <2>2, <2>3, UdmaAssumption DEF Idx
  <1>2. CASE ~(n >= c)
    <2>1. c - (n + Reserve) \in 1 .. (RingSize - 1)
      BY <1>2, DistIs, UdmaAssumption DEF Idx
    <2> QED BY <1>2, <2>1, ModSmall, UdmaAssumption DEF Idx, Available
  <1> QED BY <1>1, <1>2

\* Ring ids stay in two bits.
LEMMA RingIdType == ASSUME NEW r \in RingIds
                    PROVE  /\ NextRingId(r) \in RingIds
                           /\ PrevRingId(r) \in RingIds
                           /\ PrevRingId(r) # r
                           /\ NextRingId(r) # r
                           /\ PrevRingId(NextRingId(r)) = r
  BY DEF RingIds, NextRingId, PrevRingId
-----------------------------------------------------------------------------
\* The buffer after the tail.
LEMMA TailStep == ASSUME NEW b \in Buf
                  PROVE  /\ (b + 1) % NumRx \in Buf
                         /\ (b + 1) % NumRx = IF b = NumRx - 1 THEN 0 ELSE b + 1
  <1>1. CASE b = NumRx - 1
    BY <1>1, RxAssumption, ModOver DEF Buf
  <1>2. CASE b # NumRx - 1
    BY <1>2, RxAssumption, ModSmall DEF Buf
  <1> QED BY <1>1, <1>2

\* The buffer k places after the tail.
LEMMA BufIs == ASSUME NEW b \in Buf, NEW k \in 0 .. NumRx
               PROVE  /\ (b + k) % NumRx \in Buf
                      /\ (b + k) % NumRx = IF b + k < NumRx THEN b + k ELSE b + k - NumRx
  <1>1. CASE b + k < NumRx
    BY <1>1, RxAssumption, ModSmall DEF Buf
  <1>2. CASE ~(b + k < NumRx)
    <2>1. b + k \in NumRx .. (2*NumRx - 1)
      BY <1>2, RxAssumption DEF Buf
    <2>2. (b + k) % NumRx = b + k - NumRx
      <3>1. \A x \in NumRx .. (2*NumRx - 1) : x % NumRx = x - NumRx
        BY ModOver, RxAssumption
      <3> QED BY <2>1, <3>1, RxAssumption DEF Buf
    <2> QED BY <1>2, <2>1, <2>2, RxAssumption DEF Buf
  <1> QED BY <1>1, <1>2

-----------------------------------------------------------------------------
(***************************************************************************)
(* Type correctness.                                                       *)
(***************************************************************************)
USE DEF FreshQueue, descVars, compVars, hwVars, ringVars, vars

\* HwReceive writes mem only through a posted descriptor, so types alone do
\* not need the ring invariant: a write through NoBuf changes nothing.
LEMMA TypeStep == TypeOK /\ [Next]_vars => TypeOK'
  <1> SUFFICES ASSUME TypeOK, [Next]_vars PROVE TypeOK'
    OBVIOUS
  <1> USE UdmaAssumption, RxAssumption
  <1>0. /\ 0 \in Idx /\ NumRx \in Idx
        /\ 0 \in RingIds /\ InitialRingId \in RingIds
        /\ 0 \in Buf
    BY DEF Idx, RingIds, InitialRingId, Buf
  <1>H. HwInitialize => /\ desc' \in [Idx -> Buf \cup {NoBuf}]
                        /\ descRing' \in [Idx -> RingIds]
                        /\ next_desc_idx' \in Idx
                        /\ desc_ring_id' \in RingIds
                        /\ drtp' \in Idx
                        /\ crhp' \in Idx
                        /\ cdescRing' \in [Idx -> RingIds]
                        /\ cdescKind' \in [Idx -> Kinds]
                        /\ mem' \in [Buf -> Nat]
                        /\ next_cdesc_idx' \in Idx
                        /\ comp_head_idx' \in Idx
                        /\ comp_ring_id' \in RingIds
                        /\ RxBufTailIdx' \in Buf
                        /\ consumed' = accepted
    <2> SUFFICES ASSUME HwInitialize PROVE
                        /\ desc' \in [Idx -> Buf \cup {NoBuf}]
                        /\ descRing' \in [Idx -> RingIds]
      BY <1>0 DEF HwInitialize
    <2>1. desc' \in [Idx -> Buf \cup {NoBuf}]
      BY DEF HwInitialize, Idx, Buf
    <2>2. descRing' \in [Idx -> RingIds]
      BY <1>0 DEF HwInitialize
    <2> QED BY <2>1, <2>2
  <1>1. CASE SnpStart
    BY <1>1 DEF SnpStart, TypeOK
  <1>2. CASE SnpInitialize
    <2>1. CASE HwInitialize /\ snpState' = "Initialized" /\ dmaOn' = TRUE
      BY <1>2, <2>1, <1>H DEF SnpInitialize, TypeOK
    <2>2. CASE dmaOn' \in {dmaOn, FALSE} /\ UNCHANGED <<snpState, ringVars>>
      BY <1>2, <2>2 DEF SnpInitialize, TypeOK
    <2> QED BY <1>2, <2>1, <2>2 DEF SnpInitialize
  <1>3. CASE SnpReset
    <2>1. CASE HwInitialize /\ UNCHANGED <<snpState, dmaOn>>
      BY <1>3, <2>1, <1>H DEF SnpReset, TypeOK
    <2>2. CASE snpState' = "Started" /\ dmaOn' = FALSE /\ UNCHANGED ringVars
      BY <1>3, <2>2 DEF SnpReset, TypeOK
    <2> QED BY <1>3, <2>1, <2>2 DEF SnpReset
  <1>4. CASE SnpShutdown
    BY <1>4 DEF SnpShutdown, TypeOK
  <1>5. CASE SnpStop
    BY <1>5 DEF SnpStop, TypeOK
  <1>6. ASSUME NEW kind \in Kinds, HwReceive(kind) PROVE TypeOK'
    <2>1. crhp' \in Idx
      BY <1>6, IdxStep DEF HwReceive, TypeOK
    <2>2. accepted' \in Nat /\ mem' \in [Buf -> Nat]
      <3>1. accepted + 1 \in Nat /\ mem \in [Buf -> Nat]
        BY DEF TypeOK
      <3>2. mem' = [mem EXCEPT ![desc[crhp]] = accepted + 1] /\ accepted' = accepted + 1
        BY <1>6 DEF HwReceive
      <3> QED BY <3>1, <3>2
    <2>3. cdescRing' \in [Idx -> RingIds]
      BY <1>6 DEF HwReceive, TypeOK
    <2>4. cdescKind' \in [Idx -> Kinds]
      BY <1>6 DEF HwReceive, TypeOK
    <2> QED BY <1>6, <2>1, <2>2, <2>3, <2>4 DEF HwReceive, TypeOK
  <1>7. CASE ReceiveNotReady
    BY <1>7 DEF ReceiveNotReady, TypeOK, Statuses
  <1>8. ASSUME NEW fits \in BOOLEAN, ReceivePoll(fits) PROVE TypeOK'
    <2>1. /\ comp_head_idx' \in Idx
          /\ comp_ring_id' \in RingIds
          /\ next_cdesc_idx' \in Idx
      BY <1>8, <1>0, IdxStep, RingIdType DEF ReceivePoll, PacketGetAndAck, TypeOK, Idx
    <2>2. pc' \in {"copy", "resubmit"} /\ ret' \in Statuses
      BY <1>8 DEF ReceivePoll, Statuses
    <2> QED BY <1>8, <2>1, <2>2 DEF ReceivePoll, TypeOK
  <1>9. CASE ReceiveCopy
    BY <1>9 DEF ReceiveCopy, TypeOK
  <1>10. CASE ReceiveReSubmit
    <2>1. RxBufTailIdx' \in Buf
      BY <1>10, TailStep DEF ReceiveReSubmit, TypeOK
    <2>2. CASE Available(next_desc_idx, next_cdesc_idx) < 1
      BY <1>10, <2>1, <2>2 DEF ReceiveReSubmit, RxBufferAdd, TypeOK
    <2>3. CASE ~(Available(next_desc_idx, next_cdesc_idx) < 1)
      BY <1>10, <2>1, <2>3, IdxStep, RingIdType DEF ReceiveReSubmit, RxBufferAdd, TypeOK
    <2> QED BY <2>2, <2>3
  <1>11. CASE UNCHANGED vars
    BY <1>11 DEF TypeOK
  <1> QED
    BY <1>1, <1>2, <1>3, <1>4, <1>5, <1>6, <1>7, <1>8, <1>9, <1>10, <1>11
       DEF Next, Receive

\* The initial state is well typed.
LEMMA TypeInit == Init => TypeOK
  <1> SUFFICES ASSUME Init PROVE TypeOK
    OBVIOUS
  <1>1. 0 \in Idx /\ 0 \in Buf /\ 0 \in RingIds /\ InitialRingId \in RingIds
    BY UdmaAssumption, RxAssumption DEF Idx, Buf, RingIds, InitialRingId
  <1>2. "good" \in Kinds
    BY RxAssumption
  <1> QED BY <1>1, <1>2 DEF Init, TypeOK, Statuses

\* Every index, ring id and buffer number stays in its range, whatever the
\* hardware and the callers do.
THEOREM TypeCorrect == Spec => []TypeOK
  <1> QED BY TypeInit, TypeStep, PTL DEF Spec
-----------------------------------------------------------------------------
(***************************************************************************)
(* The ring invariant.                                                     *)
(***************************************************************************)

\* A fresh queue (AlEthHwInitialize) satisfies it.
LEMMA FreshRing ==
    ASSUME TypeOK, HwInitialize, pc = "idle", pc' = pc, accepted' = accepted
    PROVE  RingAgrees'
  <1> USE UdmaAssumption, RxAssumption
  <1>0. 0 \in Idx /\ NumRx \in Idx
    BY DEF Idx
  <1>1. Held' = 0 /\ Waiting' = 0
    BY DEF Held, Waiting, HwInitialize, TypeOK
  <1>2. \A i \in Idx : RingOf(i)' = InitialRingId
    BY DEF RingOf, HwInitialize, Idx
  <1>3. \A i \in Idx : Dist(0, i) = i
    BY <1>0, DistIs DEF Idx
  <1>4. \A i \in Idx : i < NumRx => BufAt(i)' = i
    <2> SUFFICES ASSUME NEW i \in Idx, i < NumRx PROVE BufAt(i)' = i
      OBVIOUS
    <2>1. i % NumRx = i
      BY ModSmall DEF Idx
    <2>2. BufAt(i)' = (0 + 0 + i) % NumRx
      BY <1>1 DEF BufAt, HwInitialize
    <2>3. 0 + 0 + i = i
      BY DEF Idx
    <2> QED BY <2>1, <2>2, <2>3
  <1>5. PrevRingId(InitialRingId) = 0
    BY DEF PrevRingId, InitialRingId
  <1> QED
    BY <1>0, <1>1, <1>2, <1>3, <1>4, <1>5 DEF RingAgrees, HwInitialize, Idx

\* The hardware fills the next posted slot.
LEMMA HwReceiveRing ==
    ASSUME TypeOK, RingAgrees, consumed <= accepted, NEW kind \in Kinds, HwReceive(kind)
    PROVE  RingAgrees' /\ consumed' <= accepted'
  <1> USE UdmaAssumption, RxAssumption
  <1>0. /\ next_cdesc_idx \in Idx /\ crhp \in Idx /\ drtp \in Idx
        /\ RxBufTailIdx \in Buf /\ comp_ring_id \in RingIds
        /\ accepted \in Nat /\ consumed \in Nat
        /\ cdescRing \in [Idx -> RingIds] /\ mem \in [Buf -> Nat]
    BY DEF TypeOK
  <1>1. /\ UNCHANGED <<desc, descRing, next_desc_idx, desc_ring_id, drtp, next_cdesc_idx,
                       comp_head_idx, comp_ring_id, RxBufTailIdx, pc, consumed>>
        /\ crhp # drtp
        /\ accepted' = accepted + 1
        /\ crhp' = IdxAdd(crhp, 1)
        /\ cdescRing' = [cdescRing EXCEPT ![crhp] = descRing[crhp]]
        /\ mem' = [mem EXCEPT ![desc[crhp]] = accepted + 1]
    BY DEF HwReceive
  <1>2. Held' = Held /\ Waiting' = Waiting + 1 /\ Held \in 0 .. 1 /\ Waiting \in Nat
    BY <1>0, <1>1 DEF Held, Waiting
  <1>3. /\ \A i \in Idx : RingOf(i)' = RingOf(i)
        /\ \A k \in Nat : BufAt(k)' = BufAt(k)
    BY <1>1, <1>2 DEF RingOf, BufAt
  <1>4. /\ Dist(next_cdesc_idx, crhp) = Waiting
        /\ Dist(next_cdesc_idx, drtp) + Held = NumRx
        /\ Waiting + Held <= NumRx
    BY DEF RingAgrees
  <1>5. Waiting + 1 + Held <= NumRx
    <2>1. Dist(next_cdesc_idx, crhp) # Dist(next_cdesc_idx, drtp)
      BY <1>0, <1>1, DistInj
    <2>2. Dist(next_cdesc_idx, crhp) \in Int /\ Dist(next_cdesc_idx, drtp) \in Int
      <3>1. Dist(next_cdesc_idx, crhp) \in Idx /\ Dist(next_cdesc_idx, drtp) \in Idx
        BY <1>0, DistIs
      <3> QED BY <3>1 DEF Idx
    <2>3. Waiting <= Dist(next_cdesc_idx, drtp)
      BY <1>2, <1>4, <2>2
    <2> QED BY <1>2, <1>4, <2>1, <2>2, <2>3
  <1>6. Dist(next_cdesc_idx, crhp') = Waiting + 1
    BY <1>0, <1>1, <1>2, <1>4, <1>5, DistStep
  <1>7. desc[crhp] = BufAt(Waiting) /\ descRing[crhp] = RingOf(crhp)
    BY <1>0, <1>2, <1>4, <1>5 DEF RingAgrees
  <1>8. \A i \in Idx : cdescRing'[i] =
          IF Dist(next_cdesc_idx, i) < Waiting + 1 THEN RingOf(i) ELSE PrevRingId(RingOf(i))
    <2> SUFFICES ASSUME NEW i \in Idx
                 PROVE  cdescRing'[i] = IF Dist(next_cdesc_idx, i) < Waiting + 1
                                        THEN RingOf(i) ELSE PrevRingId(RingOf(i))
      OBVIOUS
    <2>1. CASE i = crhp
      BY <2>1, <1>0, <1>1, <1>2, <1>4, <1>7
    <2>2. CASE i # crhp
      <3>1. Dist(next_cdesc_idx, i) # Waiting
        BY <2>2, <1>0, <1>4, DistInj
      <3>2. cdescRing'[i] = cdescRing[i]
        BY <2>2, <1>0, <1>1
      <3>3. Dist(next_cdesc_idx, i) \in Int
        BY <1>0, DistIs DEF Idx
      <3> QED BY <3>1, <3>2, <3>3, <1>2 DEF RingAgrees
    <2> QED BY <2>1, <2>2
  <1>9. /\ BufAt(Waiting) \in Buf
        /\ \A k \in 0 .. (Waiting - 1) : BufAt(k) \in Buf /\ BufAt(k) # BufAt(Waiting)
        /\ Held = 1 => BufAt(Waiting) # RxBufTailIdx
    <2>1. \A k \in 0 .. Waiting : Held + k \in 0 .. NumRx /\ BufAt(k) = (RxBufTailIdx + (Held + k)) % NumRx
      BY <1>0, <1>2, <1>5 DEF BufAt, Buf
    <2>2. \A k \in 0 .. Waiting : /\ BufAt(k) \in Buf
                                  /\ BufAt(k) = IF RxBufTailIdx + (Held + k) < NumRx
                                                THEN RxBufTailIdx + (Held + k)
                                                ELSE RxBufTailIdx + (Held + k) - NumRx
      BY <2>1, <1>0, BufIs
    <2>3. /\ BufAt(Waiting) \in Buf
          /\ BufAt(Waiting) = IF RxBufTailIdx + (Held + Waiting) < NumRx
                              THEN RxBufTailIdx + (Held + Waiting)
                              ELSE RxBufTailIdx + (Held + Waiting) - NumRx
      BY <2>2, <1>2
    <2>4. ASSUME NEW k \in 0 .. (Waiting - 1) PROVE BufAt(k) \in Buf /\ BufAt(k) # BufAt(Waiting)
      <3>1. k \in 0 .. Waiting
        BY <1>2
      <3>2. /\ BufAt(k) \in Buf
            /\ BufAt(k) = IF RxBufTailIdx + (Held + k) < NumRx
                          THEN RxBufTailIdx + (Held + k)
                          ELSE RxBufTailIdx + (Held + k) - NumRx
        BY <2>2, <3>1
      <3> HIDE DEF BufAt
      <3> QED BY <2>3, <3>2, <1>0, <1>2, <1>5 DEF Buf
    <2>5. Held = 1 => BufAt(Waiting) # RxBufTailIdx
      BY <2>3, <1>0, <1>2, <1>5 DEF Buf
    <2> QED BY <2>3, <2>4, <2>5
  <1>10. \A k \in 0 .. Waiting : mem'[BufAt(k)] = consumed + k + 1
    <2> SUFFICES ASSUME NEW k \in 0 .. Waiting PROVE mem'[BufAt(k)] = consumed + k + 1
      OBVIOUS
    <2>1. CASE k = Waiting
      BY <2>1, <1>0, <1>1, <1>7, <1>9 DEF Waiting
    <2>2. CASE k # Waiting
      <3>1. k \in 0 .. (Waiting - 1)
        BY <2>2, <1>2
      <3>2. mem'[BufAt(k)] = mem[BufAt(k)]
        BY <3>1, <1>0, <1>1, <1>7, <1>9
      <3> QED BY <3>1, <3>2 DEF RingAgrees
    <2> QED BY <2>1, <2>2
  <1>11. pc' # "idle" => mem'[RxBufTailIdx'] = consumed'
    BY <1>0, <1>1, <1>7, <1>9 DEF RingAgrees, Held
  <1>12. comp_head_idx' = next_cdesc_idx' /\ drtp' = next_desc_idx'
    BY <1>1 DEF RingAgrees
  <1>13. desc_ring_id' = RingOf(next_desc_idx)'
    BY <1>0, <1>1 DEF RingAgrees, RingOf
  <1>14. \A i \in Idx : Dist(next_cdesc_idx, i) < NumRx - Held =>
          desc'[i] = BufAt(Dist(next_cdesc_idx, i))' /\ descRing'[i] = RingOf(i)'
    BY <1>0, <1>1, <1>2, <1>3, DistIs DEF RingAgrees, BufAt
  <1>15. RingAgrees'
    BY <1>1, <1>2, <1>3, <1>4, <1>5, <1>6, <1>8, <1>10, <1>11, <1>12, <1>13, <1>14
       DEF RingAgrees
  <1> QED BY <1>15, <1>0, <1>1
\* Receive fetches a completion: there was one, and everything moves one slot
\* and one buffer on.
LEMMA PollRing ==
    ASSUME TypeOK, RingAgrees, consumed <= accepted, NEW fits \in BOOLEAN, ReceivePoll(fits)
    PROVE  RingAgrees' /\ consumed' <= accepted'
  <1> USE UdmaAssumption, RxAssumption
  <1> DEFINE n == next_cdesc_idx
  <1>0. /\ n \in Idx /\ crhp \in Idx /\ drtp \in Idx /\ next_desc_idx \in Idx
        /\ RxBufTailIdx \in Buf /\ comp_ring_id \in RingIds
        /\ accepted \in Nat /\ consumed \in Nat
    BY DEF TypeOK
  <1>1. /\ UNCHANGED <<desc, descRing, next_desc_idx, desc_ring_id, drtp, crhp, cdescRing,
                       mem, accepted, RxBufTailIdx>>
        /\ pc = "idle" /\ pc' # "idle"
        /\ consumed' = consumed + 1
        /\ NewCdesc(comp_head_idx)
        /\ comp_head_idx = n
        /\ comp_head_idx' = IF n = RingSize - 1 THEN 0 ELSE n + 1
        /\ comp_ring_id' = IF n = RingSize - 1 THEN NextRingId(comp_ring_id) ELSE comp_ring_id
        /\ n' = IdxAdd(n, 1)
    BY DEF ReceivePoll, PacketGetAndAck, RingAgrees
  <1>2. Held = 0 /\ Held' = 1 /\ Waiting' = Waiting - 1 /\ Waiting \in Nat
    BY <1>0, <1>1 DEF Held, Waiting
  <1>3. Dist(n, n) = 0
    BY <1>0, DistIs DEF Idx
  <1>4. Waiting > 0
    <2>1. RingOf(n) = comp_ring_id
      BY <1>0 DEF RingOf, Idx
    <2>2. cdescRing[n] = IF 0 < Waiting THEN comp_ring_id ELSE PrevRingId(comp_ring_id)
      BY <1>0, <1>3, <2>1 DEF RingAgrees
    <2>3. cdescRing[n] = comp_ring_id
      BY <1>1 DEF NewCdesc
    <2> QED BY <1>0, <1>2, <2>2, <2>3, RingIdType
  <1>5. /\ Dist(n, next_desc_idx) = NumRx
        /\ Dist(n, crhp) = Waiting
        /\ Waiting <= NumRx
        /\ drtp = next_desc_idx
    <2>1. Dist(n, next_desc_idx) \in Int
      BY <1>0, DistIs DEF Idx
    <2>2. /\ Dist(n, next_desc_idx) + Held = NumRx
          /\ Dist(n, crhp) = Waiting
          /\ Waiting + Held <= NumRx
          /\ drtp = next_desc_idx
      BY DEF RingAgrees
    <2> QED BY <2>1, <2>2, <1>2
  <1>6. next_desc_idx # n /\ crhp # n
    BY <1>2, <1>3, <1>4, <1>5
  <1>7. n' \in Idx /\ n' = IF n = RingSize - 1 THEN 0 ELSE n + 1
    BY <1>0, <1>1, IdxStep
  <1>8. /\ Dist(n', next_desc_idx) = NumRx - 1
        /\ Dist(n', crhp) = Waiting - 1
    BY <1>0, <1>1, <1>5, <1>6, DistStepNear
  <1>9. \A i \in Idx : i # n => RingOf(i)' = RingOf(i)
    BY <1>0, <1>1, <1>7 DEF RingOf, Idx
  <1>10. RingOf(n) = comp_ring_id /\ PrevRingId(IF n >= n' THEN comp_ring_id' ELSE NextRingId(comp_ring_id')) = comp_ring_id
    <2>1. CASE n = RingSize - 1
      BY <2>1, <1>0, <1>1, <1>7, RingIdType DEF RingOf, Idx
    <2>2. CASE n # RingSize - 1
      BY <2>2, <1>0, <1>1, <1>7, RingIdType DEF RingOf, Idx
    <2> QED BY <2>1, <2>2
  <1>11. \A k \in Nat : BufAt(k)' = BufAt(k + 1)
    <2> SUFFICES ASSUME NEW k \in Nat PROVE BufAt(k)' = BufAt(k + 1)
      OBVIOUS
    <2>1. RxBufTailIdx + 1 + k = RxBufTailIdx + 0 + (k + 1)
      BY <1>0 DEF Buf
    <2> QED BY <2>1, <1>1, <1>2 DEF BufAt
  <1>12. BufAt(0) = RxBufTailIdx
    <2>1. RxBufTailIdx + 0 + 0 = RxBufTailIdx
      BY <1>0 DEF Buf
    <2>2. RxBufTailIdx % NumRx = RxBufTailIdx
      BY <1>0, ModSmall DEF Buf
    <2> QED BY <2>1, <2>2, <1>2 DEF BufAt
  <1>13. \A i \in Idx : Dist(n', i) < NumRx - 1 =>
          desc[i] = BufAt(Dist(n, i))' /\ descRing[i] = RingOf(i)'
    <2> SUFFICES ASSUME NEW i \in Idx, Dist(n', i) < NumRx - 1
                 PROVE  desc[i] = BufAt(Dist(n, i))' /\ descRing[i] = RingOf(i)'
      OBVIOUS
    <2>1. i # n
      BY <1>0, <1>1, DistFull
    <2>2. Dist(n', i) = Dist(n, i) - 1
      BY <2>1, <1>0, <1>1, DistStepNear
    <2>3. Dist(n', i) \in Nat /\ Dist(n, i) \in Nat
      <3>1. Dist(n', i) \in Idx /\ Dist(n, i) \in Idx
        BY <1>0, <1>7, DistIs
      <3> QED BY <3>1 DEF Idx
    <2>4. Dist(n, i) < NumRx
      BY <2>2, <2>3
    <2>5. desc[i] = BufAt(Dist(n, i)) /\ descRing[i] = RingOf(i)
      BY <2>4, <1>2 DEF RingAgrees
    <2>6. BufAt(Dist(n, i))' = BufAt(Dist(n, i))
      <3>1. BufAt(Dist(n, i))' = (RxBufTailIdx + 1 + Dist(n', i)) % NumRx
        BY <1>1, <1>2 DEF BufAt
      <3>2. BufAt(Dist(n, i)) = (RxBufTailIdx + 0 + Dist(n, i)) % NumRx
        BY <1>2 DEF BufAt
      <3>3. RxBufTailIdx + 1 + Dist(n', i) = RxBufTailIdx + 0 + Dist(n, i)
        BY <2>2, <2>3, <1>0 DEF Buf
      <3> QED BY <3>1, <3>2, <3>3
    <2> QED BY <2>1, <2>5, <2>6, <1>9
  <1>14. \A i \in Idx : cdescRing[i] =
          IF Dist(n', i) < Waiting - 1 THEN RingOf(i)' ELSE PrevRingId(RingOf(i)')
    <2> SUFFICES ASSUME NEW i \in Idx
                 PROVE cdescRing[i] = IF Dist(n', i) < Waiting - 1
                                      THEN RingOf(i)' ELSE PrevRingId(RingOf(i)')
      OBVIOUS
    <2>1. CASE i = n
      <3>1. Dist(n', i) = RingSize - 1
        BY <2>1, <1>0, <1>1, DistFull
      <3>2. ~(Dist(n', i) < Waiting - 1)
        BY <3>1, <1>2, <1>5
      <3>3. cdescRing[i] = comp_ring_id
        BY <2>1, <1>1 DEF NewCdesc
      <3>4. PrevRingId(RingOf(i)') = comp_ring_id
        BY <2>1, <1>10 DEF RingOf
      <3> QED BY <3>2, <3>3, <3>4
    <2>2. CASE i # n
      <3>1. Dist(n', i) = Dist(n, i) - 1
        BY <2>2, <1>0, <1>1, DistStepNear
      <3>2. Dist(n, i) \in Idx
        BY <1>0, DistIs
      <3>3. (Dist(n', i) < Waiting - 1) <=> (Dist(n, i) < Waiting)
        BY <3>1, <3>2, <1>2 DEF Idx
      <3> QED BY <2>2, <3>3, <1>9 DEF RingAgrees
    <2> QED BY <2>1, <2>2
  <1>15. \A k \in 0 .. (Waiting - 2) : mem[BufAt(k)'] = consumed + 1 + k + 1
    <2> SUFFICES ASSUME NEW k \in 0 .. (Waiting - 2)
                 PROVE  mem[BufAt(k)'] = consumed + 1 + k + 1
      OBVIOUS
    <2>1. k + 1 \in 0 .. (Waiting - 1) /\ k \in Nat
      BY <1>2
    <2>2. mem[BufAt(k + 1)] = consumed + (k + 1) + 1
      BY <2>1 DEF RingAgrees
    <2> QED BY <2>1, <2>2, <1>0, <1>11
  <1>16. mem[RxBufTailIdx] = consumed + 1
    <2>1. mem[BufAt(0)] = consumed + 0 + 1
      BY <1>2, <1>4 DEF RingAgrees
    <2> QED BY <2>1, <1>12, <1>0
  <1>17. desc_ring_id' = RingOf(next_desc_idx)'
    BY <1>0, <1>1, <1>6, <1>9 DEF RingAgrees, RingOf
  <1>18. RingAgrees'
    <2>1. /\ Dist(n', next_desc_idx') + Held' = NumRx
          /\ Dist(n', crhp') = Waiting'
          /\ Waiting' + Held' <= NumRx
          /\ comp_head_idx' = n' /\ drtp' = next_desc_idx'
      BY <1>1, <1>2, <1>5, <1>7, <1>8
    <2>2. \A i \in Idx : Dist(n', i) < NumRx - Held' =>
            desc'[i] = BufAt(Dist(n, i))' /\ descRing'[i] = RingOf(i)'
      BY <1>13, <1>1, <1>2
    <2>3. \A i \in Idx : cdescRing'[i] =
            IF Dist(n', i) < Waiting' THEN RingOf(i)' ELSE PrevRingId(RingOf(i)')
      BY <1>14, <1>1, <1>2
    <2>4. \A k \in 0 .. Waiting' - 1 : mem'[BufAt(k)'] = consumed' + k + 1
      BY <1>15, <1>1, <1>2
    <2>5. mem'[RxBufTailIdx'] = consumed'
      BY <1>16, <1>1
    <2> QED BY <2>1, <2>2, <2>3, <2>4, <2>5, <1>17 DEF RingAgrees
  <1> QED BY <1>0, <1>1, <1>2, <1>4, <1>18 DEF Waiting
\* ReSubmit posts the held buffer behind the others; a descriptor is always
\* free for it.
LEMMA ReSubmitRing ==
    ASSUME TypeOK, RingAgrees, consumed <= accepted, ReceiveReSubmit
    PROVE  RingAgrees'
  <1> USE UdmaAssumption, RxAssumption
  <1> DEFINE n == next_cdesc_idx
  <1> DEFINE d == next_desc_idx
  <1>0. /\ n \in Idx /\ crhp \in Idx /\ drtp \in Idx /\ d \in Idx
        /\ RxBufTailIdx \in Buf /\ comp_ring_id \in RingIds /\ desc_ring_id \in RingIds
        /\ accepted \in Nat /\ consumed \in Nat
        /\ desc \in [Idx -> Buf \cup {NoBuf}] /\ descRing \in [Idx -> RingIds]
    BY DEF TypeOK
  <1>1. pc # "idle" /\ pc' = "idle"
    BY DEF ReceiveReSubmit
  <1>2. UNCHANGED <<crhp, cdescRing, mem, accepted, n, comp_head_idx, comp_ring_id, consumed>>
    BY DEF ReceiveReSubmit
  <1>3. Held = 1 /\ Held' = 0 /\ Waiting' = Waiting /\ Waiting \in Nat
    BY <1>0, <1>1, <1>2 DEF Held, Waiting
  <1>4. /\ Dist(n, d) = NumRx - 1
        /\ Dist(n, crhp) = Waiting
        /\ Waiting <= NumRx - 1
        /\ drtp = d
        /\ desc_ring_id = RingOf(d)
    <2>1. Dist(n, d) \in Int
      BY <1>0, DistIs DEF Idx
    <2>2. /\ Dist(n, d) + Held = NumRx
          /\ Dist(n, crhp) = Waiting
          /\ Waiting + Held <= NumRx
          /\ drtp = d
          /\ desc_ring_id = RingOf(d)
      BY DEF RingAgrees
    <2> QED BY <2>1, <2>2, <1>3
  <1>5. ~(Available(d, n) < 1)
    BY <1>0, <1>4, AvailableIs
  <1>6. /\ desc' = [desc EXCEPT ![d] = RxBufTailIdx]
        /\ descRing' = [descRing EXCEPT ![d] = desc_ring_id]
        /\ d' = IdxAdd(d, 1)
        /\ desc_ring_id' = IF IdxAdd(d, 1) = 0 THEN NextRingId(desc_ring_id) ELSE desc_ring_id
        /\ drtp' = IdxAdd(d, 1)
        /\ RxBufTailIdx' = (RxBufTailIdx + 1) % NumRx
    BY <1>4, <1>5 DEF ReceiveReSubmit, RxBufferAdd
  <1>7. d' \in Idx /\ d' = IF d = RingSize - 1 THEN 0 ELSE d + 1
    BY <1>0, <1>6, IdxStep
  <1>8. Dist(n, d') = NumRx
    <2>1. Dist(n, d) + 1 < RingSize
      BY <1>4
    <2> QED BY <2>1, <1>0, <1>4, <1>6, DistStep
  <1>9. \A i \in Idx : RingOf(i)' = RingOf(i)
    BY <1>2 DEF RingOf
  <1>10. \A k \in 0 .. (NumRx - 1) : BufAt(k)' = BufAt(k)
    <2> SUFFICES ASSUME NEW k \in 0 .. (NumRx - 1) PROVE BufAt(k)' = BufAt(k)
      OBVIOUS
    <2>1. /\ RxBufTailIdx' \in Buf
          /\ RxBufTailIdx' = IF RxBufTailIdx = NumRx - 1 THEN 0 ELSE RxBufTailIdx + 1
      BY <1>0, <1>6, TailStep
    <2>2. BufAt(k)' = IF RxBufTailIdx' + k < NumRx THEN RxBufTailIdx' + k
                      ELSE RxBufTailIdx' + k - NumRx
      <3>1. RxBufTailIdx' + 0 + k = RxBufTailIdx' + k
        BY <2>1 DEF Buf
      <3>2. k \in 0 .. NumRx
        OBVIOUS
      <3>3. BufAt(k)' = (RxBufTailIdx' + k) % NumRx
        BY <1>3, <3>1 DEF BufAt
      <3> QED BY <2>1, <3>2, <3>3, BufIs
    <2>3. BufAt(k) = IF RxBufTailIdx + (k + 1) < NumRx THEN RxBufTailIdx + (k + 1)
                     ELSE RxBufTailIdx + (k + 1) - NumRx
      <3>1. RxBufTailIdx + 1 + k = RxBufTailIdx + (k + 1)
        BY <1>0 DEF Buf
      <3>2. k + 1 \in 0 .. NumRx
        OBVIOUS
      <3>3. BufAt(k) = (RxBufTailIdx + (k + 1)) % NumRx
        BY <1>3, <3>1 DEF BufAt
      <3> QED BY <1>0, <3>2, <3>3, BufIs
    <2> QED BY <2>1, <2>2, <2>3, <1>0 DEF Buf
  <1>11. BufAt(NumRx - 1) = RxBufTailIdx
    <2>1. RxBufTailIdx + 1 + (NumRx - 1) = RxBufTailIdx + NumRx
      BY <1>0 DEF Buf
    <2>2. BufAt(NumRx - 1) = (RxBufTailIdx + NumRx) % NumRx
      BY <1>3, <2>1 DEF BufAt
    <2>3. (RxBufTailIdx + NumRx) % NumRx = RxBufTailIdx
      <3>1. NumRx \in 0 .. NumRx
        OBVIOUS
      <3>2. (RxBufTailIdx + NumRx) % NumRx =
              IF RxBufTailIdx + NumRx < NumRx THEN RxBufTailIdx + NumRx
              ELSE RxBufTailIdx + NumRx - NumRx
        BY <1>0, <3>1, BufIs
      <3> QED BY <3>2, <1>0 DEF Buf
    <2> QED BY <2>2, <2>3
  <1>12. \A i \in Idx : Dist(n, i) < NumRx =>
            desc'[i] = BufAt(Dist(n, i)) /\ descRing'[i] = RingOf(i)
    <2> SUFFICES ASSUME NEW i \in Idx, Dist(n, i) < NumRx
                 PROVE  desc'[i] = BufAt(Dist(n, i)) /\ descRing'[i] = RingOf(i)
      OBVIOUS
    <2>1. CASE i = d
      BY <2>1, <1>0, <1>4, <1>6, <1>11
    <2>2. CASE i # d
      <3>1. Dist(n, i) # NumRx - 1
        BY <2>2, <1>0, <1>4, DistInj
      <3>2. Dist(n, i) \in Int
        BY <1>0, DistIs DEF Idx
      <3>3. Dist(n, i) < NumRx - Held
        BY <3>1, <3>2, <1>3
      <3>4. desc'[i] = desc[i] /\ descRing'[i] = descRing[i]
        BY <2>2, <1>0, <1>6
      <3> QED BY <3>3, <3>4 DEF RingAgrees
    <2> QED BY <2>1, <2>2
  <1>13. desc_ring_id' = RingOf(d')
    <2>1. Dist(n, d) = IF d >= n THEN d - n ELSE d - n + RingSize
      BY <1>0, DistIs
    <2> QED BY <2>1, <1>0, <1>4, <1>6, <1>7 DEF RingOf, Idx
  <1>14. \A i \in Idx : Dist(n, i) \in Nat
    <2> SUFFICES ASSUME NEW i \in Idx PROVE Dist(n, i) \in Nat
      OBVIOUS
    <2>1. Dist(n, i) \in Idx
      BY <1>0, DistIs
    <2> QED BY <2>1 DEF Idx
  <1>15. \A i \in Idx : Dist(n, i) < NumRx =>
            desc'[i] = BufAt(Dist(n, i))' /\ descRing'[i] = RingOf(i)'
    <2> SUFFICES ASSUME NEW i \in Idx, Dist(n, i) < NumRx
                 PROVE  desc'[i] = BufAt(Dist(n, i))' /\ descRing'[i] = RingOf(i)'
      OBVIOUS
    <2>1. Dist(n, i) \in 0 .. (NumRx - 1)
      BY <1>14
    <2>2. \A k \in 0 .. (NumRx - 1) : (RxBufTailIdx' + Held' + k) % NumRx = BufAt(k)
      BY <1>10 DEF BufAt
    <2>3. BufAt(Dist(n, i))' = (RxBufTailIdx' + Held' + Dist(n, i)) % NumRx
      BY <1>2 DEF BufAt
    <2> QED BY <2>1, <2>2, <2>3, <1>9, <1>12
  <1>16. \A k \in 0 .. Waiting - 1 : mem'[BufAt(k)'] = consumed' + k + 1
    <2> SUFFICES ASSUME NEW k \in 0 .. Waiting - 1 PROVE mem[BufAt(k)'] = consumed + k + 1
      BY <1>2
    <2>1. k \in 0 .. (NumRx - 1)
      BY <1>3, <1>4
    <2> QED BY <2>1, <1>10 DEF RingAgrees
  <1>17. desc_ring_id' = RingOf(d)'
    BY <1>13, <1>2 DEF RingOf
  <1>18. \A i \in Idx : cdescRing'[i] =
            IF Dist(n', i) < Waiting' THEN RingOf(i)' ELSE PrevRingId(RingOf(i)')
    BY <1>2, <1>3, <1>9 DEF RingAgrees
  <1>19. comp_head_idx' = n' /\ drtp' = d'
    BY <1>2, <1>6 DEF RingAgrees
  <1> QED
    BY <1>1, <1>2, <1>3, <1>4, <1>8, <1>15, <1>16, <1>17, <1>18, <1>19 DEF RingAgrees

\* Steps that leave the queue, the tail and the held buffer alone.
LEMMA SameRing ==
    ASSUME RingAgrees, UNCHANGED <<ringVars, accepted>>, pc' = "idle" <=> pc = "idle"
    PROVE  RingAgrees'
  <1>1. Held' = Held /\ Waiting' = Waiting
    BY DEF Held, Waiting
  <1> QED BY <1>1 DEF RingAgrees, RingOf, BufAt
\* Every step keeps RxInv.
LEMMA RxInvStep == TypeOK /\ RxInv /\ [Next]_vars => RxInv'
  <1> SUFFICES ASSUME TypeOK, RxInv, [Next]_vars PROVE RxInv'
    OBVIOUS
  <1>0. /\ snpState \in {"Stopped", "Started", "Initialized"}
        /\ pc \in {"idle", "copy", "resubmit"}
        /\ accepted \in Nat /\ consumed \in Nat /\ dmaOn \in BOOLEAN
    BY DEF TypeOK
  <1>1. CASE SnpStart
    <2>1. dmaOn => RingAgrees'
      BY <1>1, SameRing DEF SnpStart, RxInv
    <2> QED BY <1>1, <2>1 DEF SnpStart, RxInv
  <1>2. CASE SnpInitialize
    <2>1. CASE HwInitialize /\ snpState' = "Initialized" /\ dmaOn' = TRUE
      <3>1. RingAgrees'
        BY <1>2, <2>1, FreshRing DEF SnpInitialize
      <3>2. consumed' = accepted /\ accepted' = accepted
        BY <1>2, <2>1 DEF SnpInitialize, HwInitialize
      <3> QED BY <1>0, <1>2, <2>1, <3>1, <3>2 DEF SnpInitialize, RxInv
    <2>2. CASE dmaOn' \in {dmaOn, FALSE} /\ UNCHANGED <<snpState, ringVars>>
      <3>1. dmaOn => RingAgrees'
        BY <1>2, <2>2, SameRing DEF SnpInitialize, RxInv
      <3>2. dmaOn' => dmaOn
        BY <2>2
      <3>3. /\ snpState' = snpState /\ pc' = pc /\ accepted' = accepted /\ consumed' = consumed
            /\ snpState = "Started"
        BY <1>2, <2>2 DEF SnpInitialize
      <3> QED BY <3>1, <3>2, <3>3 DEF RxInv
    <2> QED BY <1>2, <2>1, <2>2 DEF SnpInitialize
  <1>3. CASE SnpReset
    <2>1. CASE HwInitialize /\ UNCHANGED <<snpState, dmaOn>>
      <3>1. RingAgrees'
        BY <1>3, <2>1, FreshRing DEF SnpReset
      <3>2. consumed' = accepted /\ accepted' = accepted
        BY <1>3, <2>1 DEF SnpReset, HwInitialize
      <3> QED BY <1>0, <1>3, <2>1, <3>1, <3>2 DEF SnpReset, RxInv
    <2>2. CASE snpState' = "Started" /\ dmaOn' = FALSE /\ UNCHANGED ringVars
      BY <1>3, <2>2 DEF SnpReset, RxInv
    <2> QED BY <1>3, <2>1, <2>2 DEF SnpReset
  <1>4. CASE SnpShutdown
    <2>1. dmaOn => RingAgrees'
      BY <1>4, SameRing DEF SnpShutdown, RxInv
    <2> QED BY <1>0, <1>4, <2>1 DEF SnpShutdown, RxInv
  <1>5. CASE SnpStop
    <2>1. dmaOn => RingAgrees'
      BY <1>5, SameRing DEF SnpStop, RxInv
    <2> QED BY <1>5, <2>1 DEF SnpStop, RxInv
  <1>6. ASSUME NEW kind \in Kinds, HwReceive(kind) PROVE RxInv'
    <2>1. RingAgrees' /\ consumed' <= accepted'
      BY <1>6, HwReceiveRing DEF HwReceive, RxInv
    <2> QED BY <1>6, <2>1 DEF HwReceive, RxInv
  <1>7. CASE ReceiveNotReady
    <2>1. dmaOn => RingAgrees'
      BY <1>7, SameRing DEF ReceiveNotReady, RxInv
    <2> QED BY <1>7, <2>1 DEF ReceiveNotReady, RxInv
  <1>8. ASSUME NEW fits \in BOOLEAN, ReceivePoll(fits) PROVE RxInv'
    <2>1. RingAgrees' /\ consumed' <= accepted'
      BY <1>8, PollRing DEF ReceivePoll, RxInv
    <2> QED BY <1>0, <1>8, <2>1 DEF ReceivePoll, RxInv
  <1>9. CASE ReceiveCopy
    <2>1. dmaOn => RingAgrees'
      BY <1>9, SameRing DEF ReceiveCopy, RxInv
    <2> QED BY <1>9, <2>1 DEF ReceiveCopy, RxInv
  <1>10. CASE ReceiveReSubmit
    <2>1. dmaOn => RingAgrees'
      BY <1>10, ReSubmitRing DEF RxInv
    <2> QED BY <1>10, <2>1 DEF ReceiveReSubmit, RxInv
  <1>11. CASE UNCHANGED vars
    <2>1. dmaOn => RingAgrees'
      BY <1>11, SameRing DEF RxInv
    <2> QED BY <1>11, <2>1 DEF RxInv
  <1> QED
    BY <1>1, <1>2, <1>3, <1>4, <1>5, <1>6, <1>7, <1>8, <1>9, <1>10, <1>11
       DEF Next, Receive

\* The two software indices, the buffer tail, the ring ids and the hardware's
\* position never drift apart, over any number of wraps, resets and stops.
THEOREM RxInvariant == Spec => []RxInv
  <1>1. Init => RxInv
    BY DEF Init, RxInv
  <1> QED BY <1>1, TypeCorrect, RxInvStep, PTL DEF Spec

\* AlEthNextSnpReceive copies the frame whose completion it fetched.
THEOREM CopyCorrect == Spec => []CopiesTheFetchedFrame
  <1>1. RxInv => CopiesTheFetchedFrame
    BY DEF RxInv, RingAgrees, CopiesTheFetchedFrame
  <1> QED BY <1>1, RxInvariant, PTL

\* al_eth_rx_buffer_add never fails in ReSubmit, so no buffer is ever lost.
THEOREM NoBufferLostCorrect == Spec => []NoBufferLost
  <1>1. RxInv => NoBufferLost
    BY DEF RxInv, RingAgrees, NoBufferLost
  <1> QED BY <1>1, RxInvariant, PTL

\* The hardware can reach neither the buffer Receive works on nor one buffer
\* through two descriptors.
THEOREM NoDmaIntoHeldBufferCorrect == Spec => []NoDmaIntoHeldBuffer
  <1>1. TypeOK /\ RxInv => NoDmaIntoHeldBuffer
    <2> SUFFICES ASSUME TypeOK, RingAgrees, consumed <= accepted
                 PROVE  /\ pc # "idle" => \A i \in HwOwned : desc[i] # RxBufTailIdx
                        /\ \A i, j \in HwOwned : i # j => desc[i] # desc[j]
      BY DEF RxInv, NoDmaIntoHeldBuffer
    <2> USE UdmaAssumption, RxAssumption
    <2> DEFINE n == next_cdesc_idx
    <2>0. /\ n \in Idx /\ crhp \in Idx /\ drtp \in Idx /\ RxBufTailIdx \in Buf
          /\ accepted \in Nat /\ consumed \in Nat
      BY DEF TypeOK
    <2>1. /\ Dist(n, drtp) + Held = NumRx
          /\ Dist(n, crhp) = Waiting
          /\ Waiting + Held <= NumRx
          /\ Waiting \in Nat /\ Held \in 0 .. 1
      BY <2>0 DEF RingAgrees, Waiting, Held
    <2>2. ASSUME NEW i \in HwOwned
          PROVE  /\ i \in Idx /\ Dist(n, i) \in 0 .. (NumRx - Held - 1)
                 /\ desc[i] \in Buf
                 /\ desc[i] = IF RxBufTailIdx + (Held + Dist(n, i)) < NumRx
                              THEN RxBufTailIdx + (Held + Dist(n, i))
                              ELSE RxBufTailIdx + (Held + Dist(n, i)) - NumRx
      <3>1. i \in Idx /\ Dist(crhp, i) < Dist(crhp, drtp)
        BY DEF HwOwned
      <3>2. /\ Dist(crhp, i) = IF i >= crhp THEN i - crhp ELSE i - crhp + RingSize
            /\ Dist(crhp, drtp) = IF drtp >= crhp THEN drtp - crhp ELSE drtp - crhp + RingSize
            /\ Dist(n, i) = IF i >= n THEN i - n ELSE i - n + RingSize
            /\ Dist(n, drtp) = IF drtp >= n THEN drtp - n ELSE drtp - n + RingSize
            /\ Dist(n, crhp) = IF crhp >= n THEN crhp - n ELSE crhp - n + RingSize
        BY <2>0, <3>1, DistIs
      <3>3. Dist(n, i) \in 0 .. (NumRx - Held - 1)
        BY <2>0, <2>1, <3>1, <3>2 DEF Idx
      <3>4. desc[i] = BufAt(Dist(n, i))
        <4>1. Dist(n, i) < NumRx - Held
          BY <2>1, <3>3
        <4> QED BY <3>1, <4>1 DEF RingAgrees
      <3>5. BufAt(Dist(n, i)) = (RxBufTailIdx + (Held + Dist(n, i))) % NumRx
        <4>1. RxBufTailIdx + Held + Dist(n, i) = RxBufTailIdx + (Held + Dist(n, i))
          BY <2>0, <2>1, <3>3 DEF Buf
        <4> QED BY <4>1 DEF BufAt
      <3>6. Held + Dist(n, i) \in 0 .. NumRx
        BY <2>1, <3>3
      <3> QED BY <2>0, <3>1, <3>3, <3>4, <3>5, <3>6, BufIs
    <2>3. ASSUME pc # "idle", NEW i \in HwOwned PROVE desc[i] # RxBufTailIdx
      <3>1. Held = 1
        BY <2>3 DEF Held
      <3> QED BY <2>0, <2>1, <2>2, <2>3, <3>1 DEF Buf
    <2>4. ASSUME NEW i \in HwOwned, NEW j \in HwOwned, i # j PROVE desc[i] # desc[j]
      <3>1. Dist(n, i) # Dist(n, j)
        BY <2>0, <2>2, <2>4, DistInj
      <3>2. /\ Dist(n, i) \in 0 .. (NumRx - Held - 1)
            /\ desc[i] = IF RxBufTailIdx + (Held + Dist(n, i)) < NumRx
                         THEN RxBufTailIdx + (Held + Dist(n, i))
                         ELSE RxBufTailIdx + (Held + Dist(n, i)) - NumRx
        BY <2>2
      <3>3. /\ Dist(n, j) \in 0 .. (NumRx - Held - 1)
            /\ desc[j] = IF RxBufTailIdx + (Held + Dist(n, j)) < NumRx
                         THEN RxBufTailIdx + (Held + Dist(n, j))
                         ELSE RxBufTailIdx + (Held + Dist(n, j)) - NumRx
        BY <2>2
      <3> QED BY <2>0, <2>1, <3>1, <3>2, <3>3 DEF Buf
    <2> QED BY <2>3, <2>4
  <1> QED BY <1>1, TypeCorrect, RxInvariant, PTL

\* The WaitForPacket event and Receive agree with the hardware on whether a
\* frame is waiting.
THEOREM SignalCorrect == Spec => []SignalIsExact
  <1>1. TypeOK /\ RxInv => SignalIsExact
    <2> SUFFICES ASSUME TypeOK, RxInv, snpState = "Initialized", pc = "idle"
                 PROVE  /\ WaitForPacketSignals <=> accepted > consumed
                        /\ WaitForPacketSignals <=> NewCdesc(comp_head_idx)
      BY DEF SignalIsExact
    <2>1. RingAgrees /\ consumed <= accepted
      BY DEF RxInv
    <2>2. next_cdesc_idx \in Idx /\ comp_ring_id \in RingIds
          /\ accepted \in Nat /\ consumed \in Nat
      BY DEF TypeOK
    <2>3. Dist(next_cdesc_idx, next_cdesc_idx) = 0
      BY <2>2, DistIs DEF Idx
    <2>4. RingOf(next_cdesc_idx) = comp_ring_id
      BY <2>2 DEF RingOf, Idx
    <2>5. cdescRing[next_cdesc_idx] =
            IF 0 < Waiting THEN comp_ring_id ELSE PrevRingId(comp_ring_id)
      BY <2>1, <2>2, <2>3, <2>4 DEF RingAgrees
    <2>6. PrevRingId(comp_ring_id) # comp_ring_id
      BY <2>2, RingIdType
    <2>7. NewCdesc(next_cdesc_idx) <=> 0 < Waiting
      BY <2>5, <2>6 DEF NewCdesc
    <2>8. 0 < Waiting <=> accepted > consumed
      BY <2>2 DEF Waiting
    <2>9. comp_head_idx = next_cdesc_idx
      BY <2>1 DEF RingAgrees
    <2> QED BY <2>7, <2>8, <2>9 DEF WaitForPacketSignals
  <1> QED BY <1>1, TypeCorrect, RxInvariant, PTL

\* The receive path implements the frame queue: frames come out once, in
\* order, and only frames the hardware wrote.
THEOREM Refinement == Spec => RefinesFrameQueue
  <1>1. Init => Queue!Init
    BY DEF Init, Queue!Init
  <1>2. TypeOK /\ RxInv /\ [Next]_vars => [Queue!Next]_Queue!qvars
    <2> SUFFICES ASSUME TypeOK, RxInv, [Next]_vars PROVE [Queue!Next]_Queue!qvars
      OBVIOUS
    <2> DEFINE taken == IF pc = "copy" THEN consumed - 1 ELSE consumed
    <2> USE DEF Queue!Next, Queue!qvars, Queue!Arrive, Queue!Deliver, Queue!GiveUp, Queue!Flush
    <2>0. accepted \in Nat /\ consumed \in Nat /\ pc \in {"idle", "copy", "resubmit"}
      BY DEF TypeOK
    <2>1. CASE SnpStart
      BY <2>1 DEF SnpStart
    <2>2. CASE SnpInitialize
      BY <2>2 DEF SnpInitialize, HwInitialize
    <2>3. CASE SnpReset
      BY <2>3 DEF SnpReset, HwInitialize
    <2>4. CASE SnpShutdown
      BY <2>4 DEF SnpShutdown
    <2>5. CASE SnpStop
      BY <2>5 DEF SnpStop
    <2>6. ASSUME NEW kind \in Kinds, HwReceive(kind) PROVE [Queue!Next]_Queue!qvars
      <3>1. RingAgrees /\ RingAgrees'
        BY <2>6, HwReceiveRing DEF HwReceive, RxInv
      <3>2. accepted' - consumed' + Held' <= NumRx /\ accepted' = accepted + 1
            /\ consumed' = consumed /\ pc' = pc /\ delivered' = delivered
        BY <2>6, <3>1 DEF RingAgrees, Waiting, HwReceive
      <3>3. accepted - taken < NumRx
        BY <2>0, <3>2, RxAssumption DEF Held
      <3> QED BY <3>2, <3>3
    <2>7. CASE ReceiveNotReady
      BY <2>7 DEF ReceiveNotReady
    <2>8. ASSUME NEW fits \in BOOLEAN, ReceivePoll(fits) PROVE [Queue!Next]_Queue!qvars
      <3>1. consumed' <= accepted'
        BY <2>8, PollRing DEF ReceivePoll, RxInv
      <3>2. /\ pc = "idle" /\ consumed' = consumed + 1
            /\ accepted' = accepted /\ delivered' = delivered
            /\ pc' \in {"copy", "resubmit"}
        BY <2>8 DEF ReceivePoll
      <3> QED BY <2>0, <3>1, <3>2
    <2>9. CASE ReceiveCopy
      <3>1. mem[RxBufTailIdx] = consumed /\ consumed > 0 /\ consumed <= accepted
        BY <2>9 DEF ReceiveCopy, RxInv, RingAgrees
      <3> QED BY <2>0, <2>9, <3>1 DEF ReceiveCopy
    <2>10. CASE ReceiveReSubmit
      BY <2>10 DEF ReceiveReSubmit
    <2>11. CASE UNCHANGED vars
      BY <2>11
    <2> QED
      BY <2>1, <2>2, <2>3, <2>4, <2>5, <2>6, <2>7, <2>8, <2>9, <2>10, <2>11
         DEF Next, Receive
  <1> QED BY <1>1, <1>2, TypeCorrect, RxInvariant, PTL DEF Spec, RefinesFrameQueue, Queue!Spec
=============================================================================
