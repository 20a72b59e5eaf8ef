--------------------------- MODULE AlEthSnpProof ----------------------------
(***************************************************************************)
(* Proofs about the lifecycle, memory and transmit side of AlEthNextDxe,   *)
(* for every number of receive buffers, every set of pages, buffers and    *)
(* addresses, and both kinds of callers.                                   *)
(***************************************************************************)
EXTENDS AlEthSnp, TLAPS

USE DEF memVars, hwVars, pciVars, txVars, modeVars, vars

-----------------------------------------------------------------------------
(***************************************************************************)
(* The transmit ring.                                                      *)
(***************************************************************************)

\* IdxAdd(i, 1) and Dist, without the remainder.
LEMMA IdxStep == ASSUME NEW i \in Idx
                 PROVE  /\ IdxAdd(i, 1) \in Idx
                        /\ IdxAdd(i, 1) = IF i = RingSize - 1 THEN 0 ELSE i + 1
  BY UdmaAssumption DEF Idx, IdxAdd

LEMMA DistIs == ASSUME NEW i \in Idx, NEW j \in Idx
                PROVE  /\ Dist(i, j) \in Idx
                       /\ Dist(i, j) = IF j >= i THEN j - i ELSE j - i + RingSize
  BY UdmaAssumption DEF Idx, Dist

-----------------------------------------------------------------------------
(***************************************************************************)
(* Memory.                                                                 *)
(***************************************************************************)

\* What a run of gBS->AllocatePages calls stores: new, distinct pages.
LEMMA StoreFresh ==
    ASSUME SnpTypeOK, PointersValid,
           NEW k \in 0 .. NumRx + 1, NEW f \in Allocations(k), StorePages(f)
    PROVE  /\ page' \in [Slots -> Pages \cup {NoPage}]
           /\ allocated' \subseteq Pages
           /\ allocated \subseteq allocated'
           /\ Range(f) \subseteq allocated'
           /\ Range(f) \subseteq Pages
           /\ PointersValid'
  <1> USE SnpAssumption
  <1>1. /\ f \in [0 .. k - 1 -> Pages \ allocated]
        /\ \A a, b \in 0 .. k - 1 : f[a] = f[b] => a = b
    BY DEF Allocations, Injection, IsInjective
  <1>2. DOMAIN f = 0 .. k - 1
    BY <1>1
  <1>3. \A x \in Range(f) : x \in Pages /\ x \notin allocated
    BY <1>1, <1>2 DEF Range
  <1>4. page \in [Slots -> Pages \cup {NoPage}] /\ allocated \subseteq Pages
    BY DEF SnpTypeOK
  <1>5. \A s \in Slots : page'[s] = IF s \in 0 .. k - 1 THEN f[s] ELSE page[s]
    BY <1>2 DEF StorePages
  <1>6. allocated' = allocated \cup Range(f)
    BY DEF StorePages
  <1>7. page' \in [Slots -> Pages \cup {NoPage}]
    BY <1>1, <1>2, <1>4 DEF StorePages
  <1>8. \A s \in 0 .. k - 1 : f[s] \in Range(f)
    BY <1>2 DEF Range
  <1>9. \A s \in Slots : page'[s] # NoPage => page'[s] \in allocated'
    BY <1>5, <1>6, <1>8 DEF PointersValid
  <1>10. ASSUME NEW s \in Slots, NEW t \in Slots, page'[s] = page'[t], page'[s] # NoPage
         PROVE  s = t
    <2>1. CASE s \in 0 .. k - 1 /\ t \in 0 .. k - 1
      BY <1>1, <1>5, <1>10, <2>1
    <2>2. CASE s \in 0 .. k - 1 /\ t \notin 0 .. k - 1
      BY <1>3, <1>5, <1>8, <1>10, <2>2 DEF PointersValid
    <2>3. CASE s \notin 0 .. k - 1 /\ t \in 0 .. k - 1
      BY <1>3, <1>5, <1>8, <1>10, <2>3 DEF PointersValid
    <2>4. CASE s \notin 0 .. k - 1 /\ t \notin 0 .. k - 1
      BY <1>5, <1>10, <2>4 DEF PointersValid
    <2> QED BY <2>1, <2>2, <2>3, <2>4
  <1>11. PointersValid'
    BY <1>9, <1>10 DEF PointersValid
  <1> QED BY <1>3, <1>4, <1>6, <1>7, <1>11

\* A complete bring-up leaves every pointer at one of its pages.
LEMMA StoreAll ==
    ASSUME SnpTypeOK, NEW f \in Allocations(NumRx + 1), StorePages(f)
    PROVE  Range(page') \ {NoPage} = Range(f)
  <1> USE SnpAssumption
  <1>1. f \in [Slots -> Pages \ allocated]
    BY DEF Allocations, Injection, Slots
  <1>2. page' = f
    BY <1>1 DEF StorePages
  <1>3. \A x \in Range(f) : x \in Pages
    BY <1>1 DEF Range
  <1> QED BY <1>2, <1>3

\* A cleared context names no page.
LEMMA NoPointers ==
    ASSUME page' = [s \in Slots |-> NoPage]
    PROVE  /\ Range(page') \ {NoPage} = {}
           /\ PointersValid'
           /\ page' \in [Slots -> Pages \cup {NoPage}]
  <1>1. \A s \in Slots : page'[s] = NoPage
    OBVIOUS
  <1>2. DOMAIN page' = Slots
    OBVIOUS
  <1>3. Range(page') \ {NoPage} = {}
    BY <1>1, <1>2 DEF Range
  <1>4. PointersValid'
    BY <1>1 DEF PointersValid
  <1> QED BY <1>3, <1>4
-----------------------------------------------------------------------------
(***************************************************************************)
(* The transmit ring.                                                      *)
(***************************************************************************)

\* A fresh ring has nothing outstanding.
LEMMA FreshTx ==
    ASSUME FreshTxRing, TxBufInFlight' = NoBuf
    PROVE  TxTracksHw'
  <1>1. 0 \in Idx
    BY UdmaAssumption DEF Idx
  <1>2. Dist(0, 0) = 0
    BY <1>1, DistIs, UdmaAssumption DEF Idx
  <1> QED BY <1>2 DEF FreshTxRing, TxTracksHw

\* With nothing changed on the ring nothing changes for TxBufInFlight.
LEMMA SameTx ==
    ASSUME TxTracksHw, UNCHANGED txVars,
           (snpState' = "Initialized" /\ pc' = "idle")
               => (snpState = "Initialized" /\ pc = "idle")
    PROVE  TxTracksHw'
  BY DEF TxTracksHw

\* Distances are numbers.
LEMMA DistNat == ASSUME NEW i \in Idx, NEW j \in Idx
                 PROVE  Dist(i, j) \in Nat
  <1>1. Dist(i, j) \in Idx
    BY DistIs
  <1> QED BY <1>1, UdmaAssumption DEF Idx

\* A slot is at distance 0 from itself only.
LEMMA DistZero == ASSUME NEW i \in Idx, NEW j \in Idx
                  PROVE  Dist(i, j) = 0 <=> i = j
  <1>1. Dist(i, j) = IF j >= i THEN j - i ELSE j - i + RingSize
    BY DistIs
  <1> QED BY <1>1, UdmaAssumption DEF Idx

\* Acknowledging what the hardware completed leaves nothing outstanding: at
\* most one descriptor was.
LEMMA AckTx ==
    ASSUME SnpTypeOK, TxTracksHw, snpState = "Initialized", pc = "idle",
           TxBufInFlight # NoBuf, TxCompleted > 0
    PROVE  /\ IdxAdd(txAck, TxCompleted) = txNext
           /\ txHead = txNext
  <1> USE UdmaAssumption
  <1>0. txNext \in Idx /\ txAck \in Idx /\ txHead \in Idx
    BY DEF SnpTypeOK
  <1>1. /\ Dist(txAck, txNext) = 1
        /\ Dist(txAck, txHead) + Dist(txHead, txNext) = 1
    BY DEF TxTracksHw
  <1>2. Dist(txAck, txHead) \in Nat /\ Dist(txHead, txNext) \in Nat
    BY <1>0, DistNat
  <1>3. TxCompleted = 1 /\ Dist(txHead, txNext) = 0
    BY <1>1, <1>2 DEF TxCompleted
  <1>4. txHead = txNext
    BY <1>0, <1>3, DistZero
  <1>5. IdxAdd(txAck, 1) = IF txAck = RingSize - 1 THEN 0 ELSE txAck + 1
    BY <1>0, IdxStep
  <1>6. Dist(txAck, txNext) = IF txNext >= txAck THEN txNext - txAck
                              ELSE txNext - txAck + RingSize
    BY <1>0, DistIs
  <1>7. IdxAdd(txAck, 1) = txNext
    BY <1>0, <1>1, <1>5, <1>6 DEF Idx
  <1> QED BY <1>3, <1>4, <1>7

\* The engine completing a frame moves its head towards txNext.
LEMMA HwTransmitTx ==
    ASSUME SnpTypeOK, TxTracksHw, HwTransmit
    PROVE  TxTracksHw' /\ txHead' \in Idx
  <1> USE UdmaAssumption
  <1>0. txNext \in Idx /\ txAck \in Idx /\ txHead \in Idx
    BY DEF SnpTypeOK
  <1>1. txHead' = IdxAdd(txHead, 1) /\ txHead' \in Idx
    BY <1>0, IdxStep DEF HwTransmit
  <1>2. Dist(txHead', txNext) = Dist(txHead, txNext) - 1
    <2>1. /\ Dist(txHead', txNext) = IF txNext >= txHead' THEN txNext - txHead'
                                     ELSE txNext - txHead' + RingSize
          /\ Dist(txHead, txNext) = IF txNext >= txHead THEN txNext - txHead
                                    ELSE txNext - txHead + RingSize
      BY <1>0, <1>1, DistIs
    <2> QED BY <1>0, <1>1, <2>1, IdxStep DEF HwTransmit, Idx
  <1> SUFFICES ASSUME snpState = "Initialized", pc = "idle" PROVE TxTracksHw'
    BY <1>1 DEF TxTracksHw, HwTransmit
  <1>3. Dist(txAck, txHead) \in Nat /\ Dist(txHead, txNext) \in Nat
    BY <1>0, DistNat
  <1>4. Dist(txHead, txNext) # 0
    BY <1>0, DistZero DEF HwTransmit
  <1>5. /\ Dist(txAck, txHead) + Dist(txHead, txNext) = Dist(txAck, txNext)
        /\ Dist(txAck, txNext) \in {0, 1}
    BY DEF TxTracksHw
  <1>6. Dist(txAck, txHead) = 0 /\ Dist(txHead, txNext) = 1 /\ Dist(txAck, txNext) = 1
    BY <1>3, <1>4, <1>5
  <1>7. txHead = txAck
    BY <1>0, <1>6, DistZero
  <1>8. Dist(txHead', txNext) = 0
    BY <1>2, <1>6
  <1>9. txHead' = txNext
    BY <1>0, <1>1, <1>8, DistZero
  <1>10. Dist(txAck, txHead') = 1
    BY <1>6, <1>9
  <1> QED BY <1>5, <1>6, <1>8, <1>10 DEF TxTracksHw, HwTransmit

\* Transmit puts one descriptor on an empty ring.
LEMMA TransmitTx ==
    ASSUME SnpTypeOK, TxTracksHw, NEW b \in TxBufs, NEW header, Transmit(b, header)
    PROVE  /\ TxTracksHw'
           /\ txNext' \in Idx /\ txAck' \in Idx
           /\ TxBufInFlight' \in TxBufs \cup {NoBuf}
           /\ txDesc' \in [Idx -> TxBufs \cup {NoBuf}]
           /\ owed' \subseteq TxBufs
  <1> USE UdmaAssumption, SnpAssumption
  <1>0. /\ txNext \in Idx /\ txAck \in Idx /\ txHead \in Idx
        /\ txDesc \in [Idx -> TxBufs \cup {NoBuf}]
        /\ owed \subseteq TxBufs
    BY DEF SnpTypeOK
  <1>a. snpState = "Initialized" /\ pc = "idle"
    BY DEF Transmit, Callable
  <1>1. txAck' = txNext /\ txHead = txNext
    <2>1. CASE TxBufInFlight = NoBuf
      <3>1. Dist(txAck, txNext) = 0 /\ Dist(txAck, txHead) + Dist(txHead, txNext) = 0
        BY <1>a, <2>1 DEF TxTracksHw
      <3>2. Dist(txAck, txHead) \in Nat /\ Dist(txHead, txNext) \in Nat
        BY <1>0, DistNat
      <3>3. Dist(txHead, txNext) = 0
        BY <3>1, <3>2
      <3>4. txAck = txNext /\ txHead = txNext
        BY <1>0, <3>1, <3>3, DistZero
      <3> QED BY <2>1, <3>4 DEF Transmit
    <2>2. CASE TxBufInFlight # NoBuf
      BY <1>a, <2>2, AckTx DEF Transmit
    <2> QED BY <2>1, <2>2
  <1>2. Dist(txNext, txNext) = 0
    BY <1>0, DistZero
  <1>3. snpState' = snpState /\ pc' = pc /\ txHead' = txHead
    BY DEF Transmit
  <1>4. CASE header # "bad" /\ Available(txNext, txAck') >= 1
    <2>1. /\ txDesc' = [txDesc EXCEPT ![txNext] = b]
          /\ txNext' = IdxAdd(txNext, 1)
          /\ TxBufInFlight' = b
          /\ owed' = owed \cup {b}
      BY <1>4 DEF Transmit
    <2>2. txNext' \in Idx
      BY <1>0, <2>1, IdxStep
    <2>3. RingSize > 1
      OBVIOUS
    <2>4. Dist(txNext, txNext') = 1
      <3>1. Dist(txNext, txNext') = IF txNext' >= txNext THEN txNext' - txNext
                                    ELSE txNext' - txNext + RingSize
        BY <1>0, <2>2, DistIs
      <3> QED BY <1>0, <2>1, <2>3, <3>1, IdxStep DEF Idx
    <2>5. txDesc'[txNext] = b
      BY <1>0, <2>1
    <2>6. b # NoBuf
      OBVIOUS
    <2>7. TxTracksHw'
      BY <1>1, <1>2, <1>3, <2>1, <2>4, <2>5, <2>6 DEF TxTracksHw
    <2> QED BY <1>0, <1>1, <2>1, <2>2, <2>7
  <1>5. CASE ~(header # "bad" /\ Available(txNext, txAck') >= 1)
    <2>1. TxBufInFlight' = NoBuf /\ UNCHANGED <<txDesc, txNext, owed>>
      BY <1>5 DEF Transmit
    <2> QED BY <1>0, <1>1, <1>2, <1>3, <2>1 DEF TxTracksHw
  <1> QED BY <1>4, <1>5

\* GetStatus empties the ring.
LEMMA GetStatusTx ==
    ASSUME SnpTypeOK, TxTracksHw, GetStatus
    PROVE  TxTracksHw' /\ txAck' \in Idx /\ txHead = txNext
  <1>0. txNext \in Idx
    BY DEF SnpTypeOK
  <1>1. txAck' = txNext /\ txHead = txNext
    BY AckTx DEF GetStatus, Callable
  <1>2. Dist(txNext, txNext) = 0
    BY <1>0, DistZero
  <1> QED BY <1>0, <1>1, <1>2, UdmaAssumption DEF GetStatus, TxTracksHw
-----------------------------------------------------------------------------
(***************************************************************************)
(* AlEthHwInitialize and AlEthHwShutdown on the invariant.                 *)
(***************************************************************************)

\* What HwInitialize and HwInitializeFails change keeps its type.
HwTyped == /\ page \in [Slots -> Pages \cup {NoPage}]
           /\ allocated \subseteq Pages
           /\ hwOn \in BOOLEAN /\ halReady \in BOOLEAN
           /\ dmaPages \subseteq Pages
           /\ TxBufInFlight \in TxBufs \cup {NoBuf}
           /\ txDesc \in [Idx -> TxBufs \cup {NoBuf}]
           /\ txNext \in Idx /\ txAck \in Idx /\ txHead \in Idx
           /\ ecAddr \in Addrs \cup {NoAddr}
           /\ macPromis \in BOOLEAN /\ filtered \in BOOLEAN

\* The types of the fresh transmit ring.
LEMMA FreshTxType ==
    ASSUME FreshTxRing
    PROVE  /\ txDesc' \in [Idx -> TxBufs \cup {NoBuf}]
           /\ txNext' \in Idx /\ txAck' \in Idx /\ txHead' \in Idx
  <1>1. 0 \in Idx
    BY UdmaAssumption DEF Idx
  <1> QED BY <1>1 DEF FreshTxRing

\* A bring-up that succeeds: the adapter runs on the pages just allocated and
\* named by the pointers, and the transmit ring is empty.
LEMMA HwInitializeGood ==
    ASSUME SnpTypeOK, PointersValid, HwInitialize
    PROVE  /\ HwTyped'
           /\ PointersValid'
           /\ hwOn' /\ halReady'
           /\ dmaPages' \subseteq allocated'
           /\ TxTracksHw'
           /\ ecAddr' = CurrentAddress
           /\ allocated = {} => allocated' = Range(page') \ {NoPage}
  <1> USE SnpAssumption
  <1>1. PICK f \in Allocations(NumRx + 1) :
            /\ StorePages(f)
            /\ hwOn' = TRUE
            /\ dmaPages' = Range(f)
            /\ halReady' = TRUE
            /\ FreshTxRing
            /\ TxBufInFlight' = NoBuf
            /\ ecAddr' = CurrentAddress
            /\ macPromis' = TRUE
            /\ filtered' = FALSE
    BY DEF HwInitialize
  <1>2. NumRx + 1 \in 0 .. NumRx + 1
    OBVIOUS
  <1>3. /\ page' \in [Slots -> Pages \cup {NoPage}]
        /\ allocated' \subseteq Pages
        /\ Range(f) \subseteq allocated'
        /\ Range(f) \subseteq Pages
        /\ PointersValid'
    BY <1>1, <1>2, StoreFresh
  <1>4. TxTracksHw'
    BY <1>1, FreshTx
  <1>5. allocated = {} => allocated' = Range(page') \ {NoPage}
    <2>1. Range(page') \ {NoPage} = Range(f)
      BY <1>1, StoreAll
    <2>2. allocated' = allocated \cup Range(f)
      BY <1>1 DEF StorePages
    <2> QED BY <2>1, <2>2
  <1>6. CurrentAddress \in Addrs \cup {NoAddr}
    BY DEF SnpTypeOK
  <1>7. /\ txDesc' \in [Idx -> TxBufs \cup {NoBuf}]
        /\ txNext' \in Idx /\ txAck' \in Idx /\ txHead' \in Idx
    BY <1>1, FreshTxType
  <1>8. HwTyped'
    BY <1>1, <1>3, <1>6, <1>7 DEF HwTyped
  <1> QED BY <1>1, <1>3, <1>4, <1>5, <1>8

\* A bring-up that fails keeps what was allocated and leaves the adapter as it
\* was, on memory that is still allocated, or off.
LEMMA HwInitializeBad ==
    ASSUME SnpTypeOK, PointersValid, HwInitializeFails
    PROVE  /\ HwTyped'
           /\ PointersValid'
           /\ allocated \subseteq allocated'
           /\ \/ hwOn' = hwOn /\ dmaPages' = dmaPages
              \/ hwOn' = FALSE /\ dmaPages' = {}
           /\ clean' = FALSE
  <1> USE SnpAssumption
  <1>0. filtered' \in BOOLEAN
    BY DEF HwInitializeFails, SnpTypeOK
  <1>1. CASE /\ \E k \in 0 .. NumRx : \E f \in Allocations(k) : StorePages(f)
             /\ UNCHANGED <<hwVars, txVars, ecAddr, macPromis>>
    <2>1. PICK k \in 0 .. NumRx : \E f \in Allocations(k) : StorePages(f)
      BY <1>1
    <2>2. PICK f \in Allocations(k) : StorePages(f)
      BY <2>1
    <2>3. k \in 0 .. NumRx + 1
      OBVIOUS
    <2>4. /\ page' \in [Slots -> Pages \cup {NoPage}]
          /\ allocated' \subseteq Pages
          /\ allocated \subseteq allocated'
          /\ PointersValid'
      BY <2>2, <2>3, StoreFresh
    <2>5. HwTyped'
      BY <1>0, <1>1, <2>4 DEF HwTyped, SnpTypeOK
    <2> QED BY <1>1, <2>4, <2>5 DEF HwInitializeFails
  <1>2. CASE /\ \E f \in Allocations(NumRx + 1) : StorePages(f)
             /\ hwOn' = FALSE
             /\ dmaPages' = {}
             /\ halReady' = TRUE
             /\ FreshTxRing
             /\ ecAddr' \in {ecAddr, CurrentAddress}
             /\ macPromis' \in {macPromis, TRUE}
             /\ UNCHANGED TxBufInFlight
    <2>1. PICK f \in Allocations(NumRx + 1) : StorePages(f)
      BY <1>2
    <2>2. NumRx + 1 \in 0 .. NumRx + 1
      OBVIOUS
    <2>3. /\ page' \in [Slots -> Pages \cup {NoPage}]
          /\ allocated' \subseteq Pages
          /\ allocated \subseteq allocated'
          /\ PointersValid'
      BY <2>1, <2>2, StoreFresh
    <2>4. /\ txDesc' \in [Idx -> TxBufs \cup {NoBuf}]
          /\ txNext' \in Idx /\ txAck' \in Idx /\ txHead' \in Idx
      BY <1>2, FreshTxType
    <2>5. /\ CurrentAddress \in Addrs \cup {NoAddr} /\ ecAddr \in Addrs \cup {NoAddr}
          /\ macPromis \in BOOLEAN /\ TxBufInFlight \in TxBufs \cup {NoBuf}
      BY DEF SnpTypeOK
    <2>6. HwTyped'
      BY <1>0, <1>2, <2>3, <2>4, <2>5 DEF HwTyped
    <2> QED BY <1>2, <2>3, <2>6 DEF HwInitializeFails
  <1> QED BY <1>1, <1>2 DEF HwInitializeFails

\* AlEthHwShutdown leaves the context without pointers, and with everything
\* freed if the pointers named everything.
LEMMA HwFreeGood ==
    ASSUME SnpTypeOK, HwFree
    PROVE  /\ page' \in [Slots -> Pages \cup {NoPage}]
           /\ allocated' \subseteq Pages
           /\ PointersValid'
           /\ Range(page') \ {NoPage} = {}
           /\ allocated = Range(page) \ {NoPage} => allocated' = {}
  <1>1. page' = [s \in Slots |-> NoPage]
    BY DEF HwFree
  <1>2. allocated' = allocated \ Range(page)
    BY DEF HwFree
  <1>3. allocated \subseteq Pages
    BY DEF SnpTypeOK
  <1>4. /\ page' \in [Slots -> Pages \cup {NoPage}]
        /\ PointersValid'
        /\ Range(page') \ {NoPage} = {}
    BY <1>1, NoPointers
  <1> QED BY <1>2, <1>3, <1>4
-----------------------------------------------------------------------------
(***************************************************************************)
(* Type correctness.                                                       *)
(***************************************************************************)

\* Every step keeps the types; the pointers must be valid for the pages a
\* bring-up stores to be new ones.
LEMMA SnpTypeStep == SnpTypeOK /\ SnpInv /\ [Next]_vars => SnpTypeOK'
  <1> SUFFICES ASSUME SnpTypeOK, SnpInv, [Next]_vars PROVE SnpTypeOK'
    OBVIOUS
  <1> USE SnpAssumption
  <1>0. PointersValid /\ TxTracksHw
    BY DEF SnpInv
  <1>1. ASSUME BindStart PROVE SnpTypeOK'
    <2>1. MacChoices \subseteq Addrs
      BY DEF MacChoices, SnpTypeOK
    <2>2. page' \in [Slots -> Pages \cup {NoPage}]
      BY <1>1 DEF BindStart
    <2>3. CurrentAddress' \in Addrs /\ PermanentAddress' \in Addrs
      BY <1>1, <2>1 DEF BindStart
    <2> QED BY <1>1, <2>2, <2>3 DEF BindStart, SnpTypeOK
  <1>2. ASSUME NEW call \in {"shutdown", "reset", "unbind"}, BeginShutdown(call)
        PROVE SnpTypeOK'
    <2>1. /\ hwOn' = FALSE /\ dmaPages' = {} /\ pc' = call
          /\ UNCHANGED <<bound, exited, snpState, halReady, memVars, pciVars, txVars, owed,
                         modeVars, clean>>
      BY <1>2 DEF BeginShutdown, HwHalt
    <2>2. pc' \in {"idle", "shutdown", "reset", "reinit", "unbind"}
      BY <1>2, <2>1
    <2>3. hwOn' \in BOOLEAN /\ dmaPages' \subseteq Pages
      BY <2>1
    <2> HIDE <1>2
    <2> QED BY <2>1, <2>2, <2>3 DEF SnpTypeOK
  <1>3. ASSUME BindStopEnd PROVE SnpTypeOK'
    <2>1. page' \in [Slots -> Pages \cup {NoPage}] /\ allocated' \subseteq Pages
      BY <1>3, HwFreeGood DEF BindStopEnd
    <2> QED BY <1>3, <2>1 DEF BindStopEnd, Unbind, SnpTypeOK
  <1>4. ASSUME BindStopIdle PROVE SnpTypeOK'
    <2>1. page' \in [Slots -> Pages \cup {NoPage}]
      BY <1>4 DEF BindStopIdle
    <2> QED BY <1>4, <2>1 DEF BindStopIdle, Unbind, SnpTypeOK
  <1>5. ASSUME ExitBootServices PROVE SnpTypeOK'
    <2>1. hwOn' \in BOOLEAN /\ dmaPages' \subseteq Pages /\ exited' \in BOOLEAN
      BY <1>5 DEF ExitBootServices, SnpTypeOK
    <2>2. UNCHANGED <<bound, snpState, pc, memVars, halReady, pciVars, txVars, owed,
                      modeVars, clean>>
      BY <1>5 DEF ExitBootServices
    <2> QED BY <2>1, <2>2 DEF SnpTypeOK
  <1>6. ASSUME SnpStart PROVE SnpTypeOK'
    BY <1>6 DEF SnpStart, SnpTypeOK
  <1>7. ASSUME SnpStop PROVE SnpTypeOK'
    BY <1>7 DEF SnpStop, SnpTypeOK
  <1>8. ASSUME SnpInitialize PROVE SnpTypeOK'
    <2>1. HwTyped' /\ clean' \in BOOLEAN
      BY <1>0, <1>8, HwInitializeGood, HwInitializeBad DEF SnpInitialize, SnpTypeOK
    <2> QED BY <1>8, <2>1 DEF SnpInitialize, HwTyped, SnpTypeOK
  <1>9. ASSUME SnpShutdownEnd PROVE SnpTypeOK'
    <2>1. page' \in [Slots -> Pages \cup {NoPage}] /\ allocated' \subseteq Pages
      BY <1>9, HwFreeGood DEF SnpShutdownEnd
    <2> QED BY <1>9, <2>1 DEF SnpShutdownEnd, SnpTypeOK
  <1>10. ASSUME SnpResetFree PROVE SnpTypeOK'
    <2>1. page' \in [Slots -> Pages \cup {NoPage}] /\ allocated' \subseteq Pages
      BY <1>10, HwFreeGood DEF SnpResetFree
    <2> QED BY <1>10, <2>1 DEF SnpResetFree, SnpTypeOK
  <1>11. ASSUME SnpResetEnd PROVE SnpTypeOK'
    <2>1. HwTyped' /\ clean' \in BOOLEAN
      BY <1>0, <1>11, HwInitializeGood, HwInitializeBad DEF SnpResetEnd, SnpTypeOK
    <2> QED BY <1>11, <2>1 DEF SnpResetEnd, HwTyped, SnpTypeOK
  <1>12. ASSUME NEW b \in TxBufs, NEW header, Transmit(b, header) PROVE SnpTypeOK'
    <2>1. /\ txNext' \in Idx /\ txAck' \in Idx
          /\ TxBufInFlight' \in TxBufs \cup {NoBuf}
          /\ txDesc' \in [Idx -> TxBufs \cup {NoBuf}]
          /\ owed' \subseteq TxBufs
      BY <1>0, <1>12, TransmitTx
    <2>2. UNCHANGED <<bound, exited, snpState, pc, memVars, hwVars, pciVars, txHead,
                      modeVars, clean>>
      BY <1>12 DEF Transmit
    <2> QED BY <2>1, <2>2 DEF SnpTypeOK
  <1>13. ASSUME GetStatus PROVE SnpTypeOK'
    <2>1. txAck' \in Idx
      BY <1>0, <1>13, GetStatusTx
    <2> QED BY <1>13, <2>1 DEF GetStatus, SnpTypeOK
  <1>14. ASSUME HwTransmit PROVE SnpTypeOK'
    <2>1. txHead' \in Idx
      BY <1>0, <1>14, HwTransmitTx
    <2> QED BY <1>14, <2>1 DEF HwTransmit, SnpTypeOK
  <1>15. ASSUME NEW on \in BOOLEAN, ReceiveFilters(on) PROVE SnpTypeOK'
    BY <1>15 DEF ReceiveFilters, SnpTypeOK
  <1>16. ASSUME NEW a \in Addrs, StationAddress(a) PROVE SnpTypeOK'
    BY <1>16 DEF StationAddress, SnpTypeOK
  <1>17. ASSUME UNCHANGED vars PROVE SnpTypeOK'
    BY <1>17 DEF SnpTypeOK
  <1> QED
    BY <1>1, <1>2, <1>3, <1>4, <1>5, <1>6, <1>7, <1>8, <1>9, <1>10, <1>11, <1>12, <1>13,
       <1>14, <1>15, <1>16, <1>17
    DEF Next, BindStop, SnpShutdown, SnpReset, SnpShutdownIdle
-----------------------------------------------------------------------------
(***************************************************************************)
(* The invariant.                                                          *)
(***************************************************************************)

\* With the memory untouched the pointers stay valid.
LEMMA SamePointers == ASSUME PointersValid, UNCHANGED memVars
                      PROVE  PointersValid' /\ (Range(page) \ {NoPage})' = Range(page) \ {NoPage}
  BY DEF PointersValid

\* Every step keeps the invariant.
LEMMA SnpInvStep == SnpTypeOK /\ SnpInv /\ [Next]_vars => SnpInv'
  <1> SUFFICES ASSUME SnpTypeOK, SnpInv, [Next]_vars PROVE SnpInv'
    OBVIOUS
  <1> USE DEF PagesAccounted, EcHoldsCurrentAddress, PromiscuousFollowsFilters
  <1>0. PointersValid /\ TxTracksHw
    BY DEF SnpInv
  <1>1. ASSUME BindStart PROVE SnpInv'
    <2>1. PointersValid' /\ Range(page') \ {NoPage} = {}
      BY <1>1, NoPointers DEF BindStart
    <2>2. TxTracksHw'
      BY <1>1 DEF BindStart, TxTracksHw
    <2>3. pc = "idle"
      BY <1>1 DEF BindStart, SnpInv
    <2>4. snpState # "Initialized"
      BY <1>1 DEF BindStart, SnpInv
    <2> QED BY <1>1, <2>1, <2>2, <2>3, <2>4 DEF BindStart, SnpInv
  <1>2. ASSUME NEW call \in {"shutdown", "reset", "unbind"}, BeginShutdown(call)
        PROVE SnpInv'
    <2>1. /\ hwOn' = FALSE /\ dmaPages' = {} /\ pc' # "idle" /\ pc' # "reinit"
          /\ snpState = "Initialized" /\ bound /\ ~exited
          /\ UNCHANGED <<bound, exited, snpState, halReady, memVars, txVars, owed, clean>>
      BY <1>2 DEF BeginShutdown, HwHalt, Callable
    <2>2. PointersValid' /\ (Range(page) \ {NoPage})' = Range(page) \ {NoPage}
      BY <1>0, <2>1, SamePointers
    <2>3. TxTracksHw'
      BY <2>1 DEF TxTracksHw
    <2> QED BY <2>1, <2>2, <2>3 DEF SnpInv
  <1>3. ASSUME BindStopEnd PROVE SnpInv'
    <2>1. /\ PointersValid' /\ Range(page') \ {NoPage} = {}
          /\ allocated = Range(page) \ {NoPage} => allocated' = {}
      BY <1>3, HwFreeGood DEF BindStopEnd
    <2>2. TxTracksHw'
      BY <1>3 DEF BindStopEnd, Unbind, TxTracksHw
    <2>3. ~hwOn
      BY <1>3 DEF BindStopEnd, SnpInv
    <2> QED BY <1>3, <2>1, <2>2, <2>3 DEF BindStopEnd, Unbind, SnpInv
  <1>4. ASSUME BindStopIdle PROVE SnpInv'
    <2>1. PointersValid' /\ Range(page') \ {NoPage} = {}
      BY <1>4, NoPointers DEF BindStopIdle
    <2>2. TxTracksHw'
      BY <1>4 DEF BindStopIdle, Unbind, TxTracksHw
    <2> QED BY <1>4, <2>1, <2>2 DEF BindStopIdle, Unbind, SnpInv, Callable
  <1>5. ASSUME ExitBootServices PROVE SnpInv'
    <2>1. PointersValid' /\ (Range(page) \ {NoPage})' = Range(page) \ {NoPage}
      BY <1>0, <1>5, SamePointers DEF ExitBootServices
    <2>2. TxTracksHw'
      BY <1>0, <1>5, SameTx DEF ExitBootServices
    <2>3. /\ UNCHANGED <<bound, snpState, pc, memVars, halReady, owed, modeVars, clean>>
          /\ pc = "idle" /\ exited' = TRUE
      BY <1>5 DEF ExitBootServices
    <2>4. \/ hwOn' = FALSE /\ dmaPages' = {}
          \/ UNCHANGED <<hwOn, dmaPages>> /\ ~(bound /\ halReady)
      BY <1>5 DEF ExitBootServices
    <2>5. UNCHANGED <<hwOn, dmaPages>> /\ ~(bound /\ halReady) => snpState # "Initialized"
      BY DEF SnpInv
    <2> QED BY <2>1, <2>2, <2>3, <2>4, <2>5 DEF SnpInv
  <1>6. ASSUME SnpStart PROVE SnpInv'
    <2>1. PointersValid' /\ (Range(page) \ {NoPage})' = Range(page) \ {NoPage}
      BY <1>0, <1>6, SamePointers DEF SnpStart
    <2>2. TxTracksHw'
      BY <1>0, <1>6, SameTx DEF SnpStart
    <2> QED BY <1>6, <2>1, <2>2 DEF SnpStart, SnpInv, Callable
  <1>7. ASSUME SnpStop PROVE SnpInv'
    <2>1. PointersValid' /\ (Range(page) \ {NoPage})' = Range(page) \ {NoPage}
      BY <1>0, <1>7, SamePointers DEF SnpStop
    <2>2. TxTracksHw'
      BY <1>0, <1>7, SameTx DEF SnpStop
    <2> QED BY <1>7, <2>1, <2>2 DEF SnpStop, SnpInv, Callable
  <1>8. ASSUME SnpInitialize PROVE SnpInv'
    <2>1. CASE HwInitialize /\ snpState' = "Initialized" /\ UNCHANGED clean
      <3>1. /\ PointersValid' /\ TxTracksHw'
            /\ hwOn' /\ halReady' /\ dmaPages' \subseteq allocated'
            /\ ecAddr' = CurrentAddress
            /\ allocated = {} => allocated' = Range(page') \ {NoPage}
        BY <1>0, <2>1, HwInitializeGood
      <3>2. macPromis' = TRUE /\ filtered' = FALSE
        BY <2>1 DEF HwInitialize
      <3> QED BY <1>8, <2>1, <3>1, <3>2 DEF SnpInitialize, Callable, SnpInv
    <2>2. CASE HwInitializeFails /\ UNCHANGED snpState
      <3>1. /\ PointersValid'
            /\ allocated \subseteq allocated'
            /\ \/ hwOn' = hwOn /\ dmaPages' = dmaPages
               \/ hwOn' = FALSE /\ dmaPages' = {}
            /\ clean' = FALSE
        BY <1>0, <2>2, HwInitializeBad
      <3>2. snpState' = "Started"
        BY <1>8, <2>2 DEF SnpInitialize
      <3>3. TxTracksHw'
        BY <3>2 DEF TxTracksHw
      <3> QED BY <1>8, <2>2, <3>1, <3>2, <3>3 DEF SnpInitialize, Callable, SnpInv
    <2> QED BY <1>8, <2>1, <2>2 DEF SnpInitialize
  <1>9. ASSUME SnpShutdownEnd PROVE SnpInv'
    <2>1. /\ PointersValid' /\ Range(page') \ {NoPage} = {}
          /\ allocated = Range(page) \ {NoPage} => allocated' = {}
      BY <1>9, HwFreeGood DEF SnpShutdownEnd
    <2>2. TxTracksHw'
      BY <1>9 DEF SnpShutdownEnd, TxTracksHw
    <2>3. ~hwOn /\ ~hwOn'
      BY <1>9 DEF SnpShutdownEnd, SnpInv
    <2> QED BY <1>9, <2>1, <2>2, <2>3 DEF SnpShutdownEnd, SnpInv
  <1>10. ASSUME SnpResetFree PROVE SnpInv'
    <2>1. /\ PointersValid' /\ Range(page') \ {NoPage} = {}
          /\ allocated = Range(page) \ {NoPage} => allocated' = {}
      BY <1>10, HwFreeGood DEF SnpResetFree
    <2>2. TxTracksHw'
      BY <1>10 DEF SnpResetFree, TxTracksHw
    <2>3. ~hwOn /\ ~hwOn'
      BY <1>10 DEF SnpResetFree, SnpInv
    <2> QED BY <1>10, <2>1, <2>2, <2>3 DEF SnpResetFree, SnpInv
  <1>11. ASSUME SnpResetEnd PROVE SnpInv'
    <2>0. snpState = "Initialized" /\ bound /\ ~exited /\ ~hwOn
      BY <1>11 DEF SnpResetEnd, SnpInv
    <2>1. CASE HwInitialize /\ UNCHANGED <<snpState, clean>>
      <3>1. /\ PointersValid' /\ TxTracksHw'
            /\ hwOn' /\ halReady' /\ dmaPages' \subseteq allocated'
            /\ ecAddr' = CurrentAddress
            /\ allocated = {} => allocated' = Range(page') \ {NoPage}
        BY <1>0, <2>1, HwInitializeGood
      <3>2. macPromis' = TRUE /\ filtered' = FALSE
        BY <2>1 DEF HwInitialize
      <3> QED BY <1>11, <2>0, <2>1, <3>1, <3>2 DEF SnpResetEnd, SnpInv
    <2>2. CASE HwInitializeFails /\ snpState' = "Started"
      <3>1. /\ PointersValid'
            /\ allocated \subseteq allocated'
            /\ \/ hwOn' = hwOn /\ dmaPages' = dmaPages
               \/ hwOn' = FALSE /\ dmaPages' = {}
            /\ clean' = FALSE
        BY <1>0, <2>2, HwInitializeBad
      <3>2. TxTracksHw'
        BY <2>2 DEF TxTracksHw
      <3>3. owed' = owed
        BY <1>11 DEF SnpResetEnd
      <3> QED BY <1>11, <2>0, <2>2, <3>1, <3>2, <3>3 DEF SnpResetEnd, SnpInv
    <2> QED BY <1>11, <2>1, <2>2 DEF SnpResetEnd
  <1>12. ASSUME NEW b \in TxBufs, NEW header, Transmit(b, header) PROVE SnpInv'
    <2>1. TxTracksHw'
      BY <1>0, <1>12, TransmitTx
    <2>2. /\ UNCHANGED <<bound, exited, snpState, pc, memVars, hwVars, pciVars, txHead,
                         modeVars, clean>>
          /\ snpState = "Initialized" /\ pc = "idle"
      BY <1>12 DEF Transmit, Callable
    <2>3. PointersValid' /\ (Range(page) \ {NoPage})' = Range(page) \ {NoPage}
      BY <1>0, <2>2, SamePointers
    <2> QED BY <2>1, <2>2, <2>3 DEF SnpInv
  <1>13. ASSUME GetStatus PROVE SnpInv'
    <2>1. TxTracksHw'
      BY <1>0, <1>13, GetStatusTx
    <2>2. PointersValid' /\ (Range(page) \ {NoPage})' = Range(page) \ {NoPage}
      BY <1>0, <1>13, SamePointers DEF GetStatus
    <2> QED BY <1>13, <2>1, <2>2 DEF GetStatus, Callable, SnpInv
  <1>14. ASSUME HwTransmit PROVE SnpInv'
    <2>1. TxTracksHw'
      BY <1>0, <1>14, HwTransmitTx
    <2>2. PointersValid' /\ (Range(page) \ {NoPage})' = Range(page) \ {NoPage}
      BY <1>0, <1>14, SamePointers DEF HwTransmit
    <2> QED BY <1>14, <2>1, <2>2 DEF HwTransmit, SnpInv
  <1>15. ASSUME NEW on \in BOOLEAN, ReceiveFilters(on) PROVE SnpInv'
    <2>1. PointersValid' /\ (Range(page) \ {NoPage})' = Range(page) \ {NoPage}
      BY <1>0, <1>15, SamePointers DEF ReceiveFilters
    <2>2. TxTracksHw'
      BY <1>0, <1>15, SameTx DEF ReceiveFilters
    <2> QED BY <1>15, <2>1, <2>2 DEF ReceiveFilters, SnpInv
  <1>16. ASSUME NEW a \in Addrs, StationAddress(a) PROVE SnpInv'
    <2>1. PointersValid' /\ (Range(page) \ {NoPage})' = Range(page) \ {NoPage}
      BY <1>0, <1>16, SamePointers DEF StationAddress
    <2>2. TxTracksHw'
      BY <1>0, <1>16, SameTx DEF StationAddress
    <2> QED BY <1>16, <2>1, <2>2 DEF StationAddress, SnpInv
  <1>17. ASSUME UNCHANGED vars PROVE SnpInv'
    <2>1. PointersValid' /\ (Range(page) \ {NoPage})' = Range(page) \ {NoPage}
      BY <1>0, <1>17, SamePointers
    <2>2. TxTracksHw'
      BY <1>0, <1>17, SameTx
    <2> QED BY <1>17, <2>1, <2>2 DEF SnpInv
  <1> QED
    BY <1>1, <1>2, <1>3, <1>4, <1>5, <1>6, <1>7, <1>8, <1>9, <1>10, <1>11, <1>12, <1>13,
       <1>14, <1>15, <1>16, <1>17
    DEF Next, BindStop, SnpShutdown, SnpReset, SnpShutdownIdle

\* RouterBOOT leaves the adapter to the driver with nothing of the driver's in
\* its hands.
LEMMA SnpInitial == Init => SnpTypeOK /\ SnpInv
  <1> SUFFICES ASSUME Init PROVE SnpTypeOK /\ SnpInv
    OBVIOUS
  <1>1. 0 \in Idx
    BY UdmaAssumption DEF Idx
  <1>2. SnpTypeOK
    BY <1>1, SnpAssumption DEF Init, SnpTypeOK
  <1>3. \A s \in Slots : page[s] = NoPage
    BY DEF Init
  <1>4. DOMAIN page = Slots
    BY DEF Init
  <1>5. PointersValid
    BY <1>3 DEF PointersValid
  <1>6. Range(page) \ {NoPage} = {}
    BY <1>3, <1>4 DEF Range
  <1>7. TxTracksHw
    BY DEF Init, TxTracksHw
  <1>8. SnpInv
    BY <1>5, <1>6, <1>7
    DEF Init, SnpInv, PagesAccounted, EcHoldsCurrentAddress, PromiscuousFollowsFilters
  <1> QED BY <1>2, <1>8

\* The types and the invariant hold in every reachable state.
THEOREM SnpInvariant == Spec => [](SnpTypeOK /\ SnpInv)
  <1> QED BY SnpInitial, SnpTypeStep, SnpInvStep, PTL DEF Spec

\* The adapter never writes to a page the driver has given back, whatever
\* bring-ups fail and whoever calls Stop without Shutdown.
THEOREM NoDmaToFreedCorrect == Spec => []NoDmaToFreed
  <1>1. SnpTypeOK /\ SnpInv => NoDmaToFreed
    BY DEF SnpInv, NoDmaToFreed, DmaInto
  <1> QED BY <1>1, SnpInvariant, PTL

\* AlEthHwShutdown frees no page twice.
THEOREM PointersCorrect == Spec => []PointersValid
  <1>1. SnpTypeOK /\ SnpInv => PointersValid
    BY DEF SnpInv
  <1> QED BY <1>1, SnpInvariant, PTL

\* No page is forgotten as long as no bring-up fails.
THEOREM PagesCorrect == Spec => []PagesAccounted
  <1>1. SnpTypeOK /\ SnpInv => PagesAccounted
    BY DEF SnpInv
  <1> QED BY <1>1, SnpInvariant, PTL

\* A completion belongs to TxBufInFlight.
THEOREM TxCorrect == Spec => []TxTracksHw
  <1>1. SnpTypeOK /\ SnpInv => TxTracksHw
    BY DEF SnpInv
  <1> QED BY <1>1, SnpInvariant, PTL

\* The adapter filters on the station address the mode shows, also after a
\* bring-up on stale hardware and without board information.
THEOREM EcAddressCorrect == Spec => []EcHoldsCurrentAddress
  <1>1. SnpTypeOK /\ SnpInv => EcHoldsCurrentAddress
    BY DEF SnpInv
  <1> QED BY <1>1, SnpInvariant, PTL

\* While the adapter is initialized the MAC's promiscuous bit is what the
\* receive filters say, or on since a bring-up after which no filters were set.
THEOREM PromiscuousCorrect == Spec => []PromiscuousFollowsFilters
  <1>1. SnpTypeOK /\ SnpInv => PromiscuousFollowsFilters
    BY DEF SnpInv
  <1> QED BY <1>1, SnpInvariant, PTL

\* With callers that Shutdown before they Stop, the adapter is quiet once the
\* driver is unbound or the OS runs.
THEOREM QuietCorrect == ASSUME ~StopWhileUp PROVE Spec => []QuietWhenGone
  <1>1. SnpTypeOK /\ SnpInv => QuietWhenGone
    BY DEF SnpInv, QuietWhenGone, DmaInto
  <1> QED BY <1>1, SnpInvariant, PTL

\* With such callers, a buffer handed back is not read by the hardware.
THEOREM ReturnedCorrect == ASSUME ~StopWhileUp PROVE Spec => ReturnedBufferIsQuiet
  <1> DEFINE Quiet == \A b \in owed \ owed' : \A i \in TxPending' : txDesc'[i] # b
  <1>1. ASSUME SnpTypeOK, SnpInv, Next PROVE Quiet
    <2>1. CASE ~hwOn'
      <3>1. TxPending' = {}
        BY <2>1 DEF TxPending
      <3> QED BY <3>1
    <2>2. CASE owed \subseteq owed'
      BY <2>2
    <2>3. CASE GetStatus
      <3>1. txHead' = txNext' /\ txNext' \in Idx
        BY <1>1, <2>3, GetStatusTx DEF SnpInv, GetStatus, SnpTypeOK
      <3>2. Dist(txHead, txNext)' = 0
        BY <3>1, DistZero
      <3>3. \A i \in Idx : Dist(txHead', i) \in Nat
        BY <3>1, DistNat
      <3>4. TxPending' = {}
        BY <3>2, <3>3 DEF TxPending
      <3> QED BY <3>4
    <2>4. CASE BindStopIdle
      <3>1. owed = {}
        BY <1>1, <2>4 DEF BindStopIdle, SnpInv
      <3> QED BY <3>1
    <2>5. CASE SnpShutdownEnd \/ SnpResetFree \/ BindStopEnd
      <3>1. ~hwOn'
        BY <1>1, <2>5 DEF SnpShutdownEnd, SnpResetFree, BindStopEnd, Unbind, SnpInv
      <3> QED BY <2>1, <3>1
    <2>6. ASSUME NEW b \in TxBufs, NEW header, Transmit(b, header) PROVE owed \subseteq owed'
      BY <2>6 DEF Transmit
    <2> QED
      BY <1>1, <2>2, <2>3, <2>4, <2>5, <2>6
      DEF Next, BindStart, BindStop, ExitBootServices, SnpStart, SnpStop, SnpInitialize,
          SnpShutdownIdle, SnpShutdown, SnpReset, BeginShutdown, SnpResetEnd, HwTransmit,
          ReceiveFilters, StationAddress
  <1>2. SnpTypeOK /\ SnpInv /\ [Next]_vars => [Quiet]_vars
    BY <1>1
  <1> QED BY <1>2, SnpInvariant, PTL DEF Spec, ReturnedBufferIsQuiet
=============================================================================
