-------------------------------- MODULE Udma --------------------------------
(***************************************************************************)
(* Index arithmetic of one Annapurna UDMA queue, as the Alpine HAL does it *)
(* (AlpineHalLib, al_hal_udma.h).  A queue is a submission ring and a      *)
(* completion ring of RingSize slots each.  Software keeps next_desc_idx   *)
(* (the slot it fills next) and next_cdesc_idx (the oldest completion it   *)
(* has not acknowledged); both are kept modulo the ring size and every     *)
(* pass over the ring carries a two-bit ring id.                           *)
(***************************************************************************)
EXTENDS Integers

CONSTANTS
    RingSize,   \* AL_ETH_DESCS_PER_Q, 64 on this board
    Reserve     \* AL_UDMA_MAX_NUM_CDESC_PER_CACHE_LINE, 16

\* al_udma_q_init refuses a queue whose size is not a power of two of at least
\* 32; the model only needs a ring in which some slot is never handed out.
ASSUME UdmaAssumption ==
    /\ RingSize \in Nat \ {0}
    /\ Reserve \in Nat \ {0}
    /\ Reserve < RingSize

Idx == 0 .. RingSize - 1

\* "idx + n, & size_mask": the wrap of next_desc_idx and of next_cdesc_idx.
IdxAdd(i, n) == (i + n) % RingSize

\* Slots from "from" up to, and not including, "to".
Dist(from, to) == (to - from) % RingSize

\* A slip: one descriptor too few is reported.
AvailableShort(nextDesc, nextCdesc) == (nextCdesc - (nextDesc + Reserve + 1)) % RingSize

\* al_udma_available_get: descriptors that may still be submitted.
Available(nextDesc, nextCdesc) == (nextCdesc - (nextDesc + Reserve)) % RingSize

\* The two-bit ring id that tells a new completion from one of the last pass.
RingIds == 0 .. 3
InitialRingId == 1
NextRingId(r) == (r + 1) % 4
PrevRingId(r) == (r + 3) % 4
=============================================================================
