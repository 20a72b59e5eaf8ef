------------------------------ MODULE AlEthRx -------------------------------
(***************************************************************************)
(* The receive path of AlEthNextDxe: NumRx buffers posted to the S2M       *)
(* (receive) UDMA queue, the hardware that fills them, and                 *)
(* AlEthNextSnpReceive, which finds the data of a completion by counting:  *)
(* a completion descriptor does not say which buffer it is about, so the   *)
(* driver keeps RxBufTailIdx and trusts that it names the buffer of the    *)
(* oldest completion.                                                      *)
(*                                                                         *)
(* Receive takes three steps (fetch the completion, copy the data,         *)
(* re-submit the buffer), because the hardware runs between them.  A frame *)
(* is the serial number the hardware gave it; what is tracked is which     *)
(* frame each buffer holds.                                                *)
(***************************************************************************)
EXTENDS Udma

CONSTANTS
    NumRx,      \* AL_ETH_NUM_RX_DESC, 32 on this board
    MaxFrames,  \* bound: frames the wire delivers in a behaviour
    MaxOdd,     \* bound: only so many of them, the first, may be other than good
    Kinds       \* what a completion may say: "good", "badlen" or "error"

\* The header's 32 buffers fit the 64 - 16 descriptors that may be handed out.
ASSUME RxAssumption ==
    /\ NumRx \in Nat \ {0}
    /\ NumRx + Reserve <= RingSize
    /\ MaxFrames \in Nat
    /\ MaxOdd \in Nat
    /\ "good" \in Kinds
    /\ Kinds \subseteq {"good", "badlen", "error"}

Buf   == 0 .. NumRx - 1
NoBuf == NumRx          \* a descriptor slot of the zeroed ring

VARIABLES
    snpState,       \* SnpMode.State
    dmaOn,          \* hardware: the receive engine runs
    desc,           \* submission ring: the buffer each slot points to
    descRing,       \* submission ring: the ring id in each slot
    next_desc_idx,
    desc_ring_id,
    drtp,           \* hardware: end of the descriptors it was told about
    crhp,           \* hardware: slot it fills next
    cdescRing,      \* completion ring: the ring id in each slot
    cdescKind,      \* completion ring: error flags and length, abstracted
    next_cdesc_idx,
    comp_head_idx,  \* slot comp_head_ptr points to
    comp_ring_id,
    mem,            \* frame held by each receive buffer, 0 if none
    RxBufTailIdx,
    pc,             \* step of Receive: "idle", "copy", "resubmit"
    ret,            \* status of the last Receive
    delivered,      \* frame last copied to a caller, 0 if none
    accepted,       \* history: frames the hardware has written so far
    consumed        \* history: frame of the completion last fetched

descVars == <<desc, descRing, next_desc_idx, desc_ring_id>>
compVars == <<next_cdesc_idx, comp_head_idx, comp_ring_id>>
hwVars   == <<crhp, cdescRing, cdescKind, mem, accepted>>
ringVars == <<descVars, drtp, crhp, cdescRing, cdescKind, mem, compVars,
              RxBufTailIdx, consumed>>
vars == <<snpState, dmaOn, descVars, drtp, hwVars, compVars, RxBufTailIdx, pc, ret,
          delivered, consumed>>
-----------------------------------------------------------------------------
(***************************************************************************)
(* HAL calls.                                                              *)
(***************************************************************************)

\* al_udma_new_cdesc: the completion in slot i carries the current ring id.
NewCdesc(i) == cdescRing[i] = comp_ring_id

\* AlEthNextWaitForPacket peeks at the slot of next_cdesc_idx.
WaitForPacketSignals ==
    /\ snpState = "Initialized"
    /\ NewCdesc(next_cdesc_idx)

\* A slip: the expected ring id is not bumped at the wrap.
PacketGetAndAckNoBump ==
    /\ comp_head_idx' = IF comp_head_idx = RingSize - 1 THEN 0 ELSE comp_head_idx + 1
    /\ comp_ring_id' = comp_ring_id
    /\ next_cdesc_idx' = IdxAdd(next_cdesc_idx, 1)

\* al_udma_cdesc_packet_get and al_udma_cdesc_ack, for a one-buffer packet:
\* comp_head_ptr and next_cdesc_idx move on, each with its own wrap, and the
\* expected ring id is bumped when comp_head_ptr leaves the last slot.
PacketGetAndAck ==
    /\ comp_head_idx' = IF comp_head_idx = RingSize - 1 THEN 0 ELSE comp_head_idx + 1
    /\ comp_ring_id' = IF comp_head_idx = RingSize - 1
                       THEN NextRingId(comp_ring_id) ELSE comp_ring_id
    /\ next_cdesc_idx' = IdxAdd(next_cdesc_idx, 1)

\* al_eth_rx_buffer_add for buffer b and al_eth_rx_buffer_action(1).  The ring
\* id is bumped after the last slot; with no descriptor free nothing happens
\* and the doorbell is not rung.
RxBufferAdd(b) ==
    IF Available(next_desc_idx, next_cdesc_idx) < 1
    THEN UNCHANGED <<descVars, drtp>>
    ELSE /\ desc' = [desc EXCEPT ![next_desc_idx] = b]
         /\ descRing' = [descRing EXCEPT ![next_desc_idx] = desc_ring_id]
         /\ next_desc_idx' = IdxAdd(next_desc_idx, 1)
         /\ desc_ring_id' = IF IdxAdd(next_desc_idx, 1) = 0
                            THEN NextRingId(desc_ring_id) ELSE desc_ring_id
         /\ drtp' = IdxAdd(drtp, 1)
-----------------------------------------------------------------------------
(***************************************************************************)
(* Lifecycle: what bringing the adapter up does to the receive queue.      *)
(***************************************************************************)

\* What AlEthHwInitialize leaves behind, but for the two parts below it that
\* a slip could forget: the completion ring and the buffer tail.
FreshQueue ==
    /\ desc' = [i \in Idx |-> IF i < NumRx THEN i ELSE NoBuf]
    /\ descRing' = [i \in Idx |-> IF i < NumRx THEN InitialRingId ELSE 0]
    /\ next_desc_idx' = NumRx
    /\ desc_ring_id' = InitialRingId
    /\ drtp' = NumRx
    /\ crhp' = 0
    /\ cdescKind' = [i \in Idx |-> "good"]
    /\ mem' = [b \in Buf |-> 0]
    /\ next_cdesc_idx' = 0
    /\ comp_head_idx' = 0
    /\ comp_ring_id' = InitialRingId
    /\ consumed' = accepted

\* A slip: the descriptor pages are not zeroed.
HwInitializeNotZeroed ==
    /\ FreshQueue
    /\ RxBufTailIdx' = 0
    /\ UNCHANGED cdescRing

\* The descriptor rings are fresh zeroed pages, the queue is configured from
\* scratch and every buffer is posted in order.
HwInitialize ==
    /\ FreshQueue
    /\ cdescRing' = [i \in Idx |-> 0]
    /\ RxBufTailIdx' = 0

\* AlEthNextSnpInitialize.  A failure before the stale hardware is halted
\* leaves the engine as it was; a later one leaves it stopped.
SnpInitialize ==
    /\ snpState = "Started"
    /\ pc = "idle"
    /\ \/ HwInitialize /\ snpState' = "Initialized" /\ dmaOn' = TRUE
       \/ dmaOn' \in {dmaOn, FALSE} /\ UNCHANGED <<snpState, ringVars>>
    /\ UNCHANGED <<pc, ret, delivered, accepted>>

\* AlEthNextSnpReset: shut down, then bring up again; the bring-up may fail.
SnpReset ==
    /\ snpState = "Initialized"
    /\ pc = "idle"
    /\ \/ HwInitialize /\ UNCHANGED <<snpState, dmaOn>>
       \/ snpState' = "Started" /\ dmaOn' = FALSE /\ UNCHANGED ringVars
    /\ UNCHANGED <<pc, ret, delivered, accepted>>

\* AlEthNextSnpShutdown touches the hardware only when Initialized.
SnpShutdown ==
    /\ snpState # "Stopped"
    /\ pc = "idle"
    /\ snpState' = "Started"
    /\ dmaOn' = (dmaOn /\ snpState # "Initialized")
    /\ UNCHANGED <<ringVars, pc, ret, delivered, accepted>>

\* AlEthNextSnpStop leaves an initialized adapter running.
SnpStop ==
    /\ snpState # "Stopped"
    /\ pc = "idle"
    /\ snpState' = "Stopped"
    /\ UNCHANGED <<dmaOn, ringVars, pc, ret, delivered, accepted>>

\* AlEthNextSnpStart.
SnpStart ==
    /\ snpState = "Stopped"
    /\ snpState' = "Started"
    /\ UNCHANGED <<dmaOn, ringVars, pc, ret, delivered, accepted>>
-----------------------------------------------------------------------------
(***************************************************************************)
(* The hardware writes a frame into the buffer of its next descriptor and  *)
(* the completion into the same slot of the completion ring.  Without a    *)
(* posted descriptor it drops the frame.  The EC limits frames to 1518     *)
(* bytes, so a frame never spans two 2048-byte buffers.                    *)
(***************************************************************************)
HwReceive(kind) ==
    /\ dmaOn
    /\ crhp # drtp
    /\ accepted < MaxFrames
    /\ kind = "good" \/ accepted < MaxOdd
    /\ accepted' = accepted + 1
    /\ mem' = [mem EXCEPT ![desc[crhp]] = accepted + 1]
    /\ cdescRing' = [cdescRing EXCEPT ![crhp] = descRing[crhp]]
    /\ cdescKind' = [cdescKind EXCEPT ![crhp] = kind]
    /\ crhp' = IdxAdd(crhp, 1)
    /\ UNCHANGED <<snpState, dmaOn, descVars, drtp, compVars, RxBufTailIdx, pc, ret,
                   delivered, consumed>>
-----------------------------------------------------------------------------
(***************************************************************************)
(* AlEthNextSnpReceive.                                                    *)
(***************************************************************************)

\* al_eth_pkt_rx returns 0.
ReceiveNotReady ==
    /\ snpState = "Initialized"
    /\ pc = "idle"
    /\ ~NewCdesc(comp_head_idx)
    /\ ret' = "NOT_READY"
    /\ UNCHANGED <<snpState, dmaOn, descVars, drtp, hwVars, compVars, RxBufTailIdx, pc,
                   delivered, consumed>>

\* A slip: a damaged frame returns early, without ReSubmit.
ReceivePollDropsError(fits) ==
    /\ snpState = "Initialized"
    /\ pc = "idle"
    /\ NewCdesc(comp_head_idx)
    /\ PacketGetAndAck
    /\ consumed' = consumed + 1
    /\ LET kind == cdescKind[next_cdesc_idx] IN
       IF kind = "error" THEN pc' = "idle" /\ ret' = "NOT_READY"
                         ELSE pc' = "copy" /\ ret' = "SUCCESS"
    /\ UNCHANGED <<snpState, dmaOn, descVars, drtp, hwVars, RxBufTailIdx, delivered>>

\* al_eth_pkt_rx returns a packet; "fits" says whether the caller's buffer
\* holds it.  The three tests of the code are made in this order.
ReceivePoll(fits) ==
    /\ snpState = "Initialized"
    /\ pc = "idle"
    /\ NewCdesc(comp_head_idx)
    /\ PacketGetAndAck
    /\ consumed' = consumed + 1
    /\ LET kind == cdescKind[next_cdesc_idx] IN
       \/ kind = "error"          /\ pc' = "resubmit" /\ ret' = "NOT_READY"
       \/ kind = "badlen"         /\ pc' = "resubmit" /\ ret' = "SUCCESS"
       \/ kind = "good" /\ ~fits  /\ pc' = "resubmit" /\ ret' = "BUFFER_TOO_SMALL"
       \/ kind = "good" /\ fits   /\ pc' = "copy"     /\ ret' = "SUCCESS"
    /\ UNCHANGED <<snpState, dmaOn, descVars, drtp, hwVars, RxBufTailIdx, delivered>>

\* A slip: the data is taken from the buffer after the tail.
ReceiveCopyNext ==
    /\ pc = "copy"
    /\ delivered' = mem[(RxBufTailIdx + 1) % NumRx]
    /\ pc' = "resubmit"
    /\ UNCHANGED <<snpState, dmaOn, descVars, drtp, hwVars, compVars, RxBufTailIdx, ret,
                   consumed>>

\* CopyMem from RxBuffers[RxBufTailIdx].
ReceiveCopy ==
    /\ pc = "copy"
    /\ delivered' = mem[RxBufTailIdx]
    /\ pc' = "resubmit"
    /\ UNCHANGED <<snpState, dmaOn, descVars, drtp, hwVars, compVars, RxBufTailIdx, ret,
                   consumed>>

\* ReSubmit and ReSubmitSmall: the tail moves on whether or not the buffer
\* could be posted again.
ReceiveReSubmit ==
    /\ pc = "resubmit"
    /\ RxBufferAdd(RxBufTailIdx)
    /\ RxBufTailIdx' = (RxBufTailIdx + 1) % NumRx
    /\ pc' = "idle"
    /\ UNCHANGED <<snpState, dmaOn, hwVars, compVars, ret, delivered, consumed>>
-----------------------------------------------------------------------------
Init ==
    /\ snpState = "Stopped"
    /\ dmaOn = FALSE
    /\ desc = [i \in Idx |-> NoBuf]
    /\ descRing = [i \in Idx |-> 0]
    /\ next_desc_idx = 0
    /\ desc_ring_id = InitialRingId
    /\ drtp = 0
    /\ crhp = 0
    /\ cdescRing = [i \in Idx |-> 0]
    /\ cdescKind = [i \in Idx |-> "good"]
    /\ mem = [b \in Buf |-> 0]
    /\ next_cdesc_idx = 0
    /\ comp_head_idx = 0
    /\ comp_ring_id = InitialRingId
    /\ RxBufTailIdx = 0
    /\ pc = "idle"
    /\ ret = "NOT_READY"
    /\ delivered = 0
    /\ accepted = 0
    /\ consumed = 0

Receive == \/ ReceiveNotReady
           \/ \E fits \in BOOLEAN : ReceivePoll(fits)
           \/ ReceiveCopy
           \/ ReceiveReSubmit

Next == \/ SnpStart
        \/ SnpInitialize
        \/ SnpReset
        \/ SnpShutdown
        \/ SnpStop
        \/ \E kind \in Kinds : HwReceive(kind)
        \/ Receive

Spec == Init /\ [][Next]_vars

\* The network stack above keeps polling Receive, and Receive itself runs to
\* its end; nothing is assumed of the wire or of the lifecycle calls.
FairSpec == Spec /\ WF_vars(Receive)
-----------------------------------------------------------------------------
(***************************************************************************)
(* Correctness.                                                            *)
(***************************************************************************)
Statuses == {"NOT_READY", "SUCCESS", "BUFFER_TOO_SMALL"}

\* Every variable has its type; indices stay inside the ring.
TypeOK ==
    /\ snpState \in {"Stopped", "Started", "Initialized"}
    /\ dmaOn \in BOOLEAN
    /\ desc \in [Idx -> Buf \cup {NoBuf}]
    /\ descRing \in [Idx -> RingIds]
    /\ next_desc_idx \in Idx
    /\ desc_ring_id \in RingIds
    /\ drtp \in Idx
    /\ crhp \in Idx
    /\ cdescRing \in [Idx -> RingIds]
    /\ cdescKind \in [Idx -> Kinds]
    /\ next_cdesc_idx \in Idx
    /\ comp_head_idx \in Idx
    /\ comp_ring_id \in RingIds
    /\ mem \in [Buf -> Nat]
    /\ RxBufTailIdx \in Buf
    /\ pc \in {"idle", "copy", "resubmit"}
    /\ ret \in Statuses
    /\ delivered \in Nat
    /\ accepted \in Nat
    /\ consumed \in Nat

\* The buffer Receive is working on: fetched from the completion ring and not
\* yet posted again.
Held == IF pc = "idle" THEN 0 ELSE 1

\* Slots the hardware may still write through.
HwOwned == {i \in Idx : Dist(crhp, i) < Dist(crhp, drtp)}

\* AlEthNextSnpReceive copies RxBuffers[RxBufTailIdx]: at that moment the
\* buffer holds exactly the frame whose completion was just fetched, however
\* many frames the hardware has written in between.
CopiesTheFetchedFrame == pc = "copy" => mem[RxBufTailIdx] = consumed

\* While Receive still works on a buffer (before ReSubmit) no descriptor the
\* hardware may use points to it, and two such descriptors never share one.
NoDmaIntoHeldBuffer ==
    dmaOn =>
      /\ pc # "idle" => \A i \in HwOwned : desc[i] # RxBufTailIdx
      /\ \A i, j \in HwOwned : i # j => desc[i] # desc[j]

\* ReSubmit ignores a failing al_eth_rx_buffer_add and moves the tail on all
\* the same; no buffer may drop out of circulation that way: each one is
\* posted, completed or held.
NoBufferLost == dmaOn => Dist(next_cdesc_idx, drtp) + Held = NumRx

\* AlEthNextWaitForPacket looks at next_cdesc_idx, al_eth_pkt_rx at
\* comp_head_ptr: the event is signalled exactly when the hardware has
\* completed a frame that no Receive has fetched, at every ring-id wrap too.
SignalIsExact ==
    (snpState = "Initialized" /\ pc = "idle") =>
      /\ WaitForPacketSignals <=> accepted > consumed
      /\ WaitForPacketSignals <=> NewCdesc(comp_head_idx)

\* The ring id of slot i in the pass that starts at next_cdesc_idx, and the
\* buffer k places after the oldest one software has not fetched.
RingOf(i) == IF i >= next_cdesc_idx THEN comp_ring_id ELSE NextRingId(comp_ring_id)
BufAt(k)  == (RxBufTailIdx + Held + k) % NumRx
Waiting   == accepted - consumed

\* The bookkeeping that ties the two software indices, the buffer tail and the
\* hardware's position together.  k counts slots from next_cdesc_idx: the
\* first Waiting slots are completed, the first NumRx - Held are posted, in
\* buffer order, and no other slot carries the ring id software waits for.
RingAgrees ==
    /\ comp_head_idx = next_cdesc_idx
    /\ drtp = next_desc_idx
    /\ Dist(next_cdesc_idx, next_desc_idx) + Held = NumRx
    /\ Dist(next_cdesc_idx, crhp) = Waiting
    /\ Waiting + Held <= NumRx
    /\ desc_ring_id = RingOf(next_desc_idx)
    /\ \A i \in Idx : Dist(next_cdesc_idx, i) < NumRx - Held =>
          /\ desc[i] = BufAt(Dist(next_cdesc_idx, i))
          /\ descRing[i] = RingOf(i)
    /\ \A i \in Idx : cdescRing[i] =
          IF Dist(next_cdesc_idx, i) < Waiting THEN RingOf(i) ELSE PrevRingId(RingOf(i))
    /\ \A k \in 0 .. Waiting - 1 : mem[BufAt(k)] = consumed + k + 1
    /\ pc # "idle" => mem[RxBufTailIdx] = consumed

\* The inductive invariant: RingAgrees whenever the engine runs, and the
\* driver only polls a running engine.
RxInv ==
    /\ dmaOn => RingAgrees
    /\ snpState = "Initialized" => dmaOn
    /\ pc # "idle" => snpState = "Initialized"
    /\ consumed <= accepted
    /\ pc = "copy" => consumed > 0

\* The comment at ReSubmitSmall, "Don't re-submit -- caller will retry": a
\* frame refused with BUFFER_TOO_SMALL is kept for the caller's next Receive.
RefusedFrameIsKept ==
    (ret = "BUFFER_TOO_SMALL" /\ pc = "idle") => mem[RxBufTailIdx] = consumed

\* A frame the hardware has written is fetched, unless the adapter is taken
\* down first: the network stack's polling never starves a completion.
EventuallyFetched ==
    \A n \in 1 .. MaxFrames :
        (accepted >= n) ~> (consumed >= n \/ snpState # "Initialized")

\* What Receive promises: see FrameQueue.  A frame counts as taken when it has
\* been copied or given up.
Queue == INSTANCE FrameQueue WITH
            Capacity <- NumRx,
            arrived <- accepted,
            taken <- IF pc = "copy" THEN consumed - 1 ELSE consumed
RefinesFrameQueue == Queue!Spec
=============================================================================
