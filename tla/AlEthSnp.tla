------------------------------ MODULE AlEthSnp ------------------------------
(***************************************************************************)
(* Lifecycle, memory and transmit side of AlEthNextDxe: driver binding,    *)
(* the SNP state, the pages the driver hands to the adapter, the one       *)
(* transmit buffer in flight, the station address and the promiscuous bit. *)
(* The receive ring has a module of its own, AlEthRx.                      *)
(*                                                                         *)
(* The hardware shows up as what it may touch: the pages of the receive    *)
(* buffers and descriptor rings it was programmed with, and the caller     *)
(* buffers of the transmit descriptors it has not completed.  Calls that   *)
(* return early without changing anything are stuttering steps.            *)
(***************************************************************************)
EXTENDS Udma, Functions, FiniteSets

CONSTANTS
    NumRx,          \* AL_ETH_NUM_RX_DESC
    Pages,          \* memory gBS->AllocatePages may hand out
    NoPage,         \* NULL
    TxBufs,         \* transmit buffers of the caller
    NoBuf,          \* NULL
    Addrs,          \* MAC addresses
    NoAddr,         \* 00:00:00:00:00:00
    BoardMac,       \* what MIKROTIK_BOARD_INFO_PROTOCOL reports
    StopWhileUp     \* whether callers may call Stop without Shutdown first

ASSUME SnpAssumption ==
    /\ NumRx \in Nat \ {0}
    /\ NoPage \notin Pages
    /\ NoBuf \notin TxBufs
    /\ NoAddr \notin Addrs
    /\ Addrs # {}
    /\ BoardMac \in Addrs \cup {NoAddr}
    /\ StopWhileUp \in BOOLEAN

\* Slot 0 is DescRingBase, slot i is RxBuffers[i - 1]: the order in which
\* AlEthHwInitialize allocates them.
Slots == 0 .. NumRx

VARIABLES
    bound,          \* binding Start has succeeded, Stop has not
    exited,         \* ExitBootServices has been called
    snpState,       \* SnpMode.State
    pc,             \* "idle", or the call that is inside AlEthHwShutdown
    page,           \* DescRingBase and RxBuffers
    allocated,      \* pages allocated and not freed
    halReady,       \* HalAdapter holds the adapter's register addresses
    hwOn,           \* hardware: MAC, queues and UDMA run
    busMaster,      \* hardware: PCI bus mastering is enabled
    OriginalPciAttributes,
    dmaPages,       \* hardware: pages it may write
    TxBufInFlight,
    txDesc,         \* transmit ring: the buffer each slot points to
    txNext,         \* TxDmaQ->next_desc_idx
    txAck,          \* TxDmaQ->next_cdesc_idx
    txHead,         \* hardware: completion head pointer (crhp)
    owed,           \* history: transmitted and not handed back by GetStatus
    CurrentAddress,
    PermanentAddress,
    ecAddr,         \* hardware: station address in the EC
    promisc,        \* ReceiveFilterSetting asks for promiscuous mode
    macPromis,      \* hardware: PROMIS_EN
    filtered,       \* history: ReceiveFilters called since the last bring-up
    clean           \* history: no bring-up has failed, no Stop while running

memVars  == <<page, allocated>>
hwVars   == <<hwOn, dmaPages, halReady>>
pciVars  == <<busMaster, OriginalPciAttributes>>
txVars   == <<TxBufInFlight, txDesc, txNext, txAck, txHead>>
modeVars == <<CurrentAddress, PermanentAddress, ecAddr, promisc, macPromis,
              filtered>>
vars == <<bound, exited, snpState, pc, memVars, hwVars, pciVars, txVars, owed,
          modeVars, clean>>

\* A call of the SNP interface may start: the driver is bound and no other
\* call is under way.
Callable == bound /\ ~exited /\ pc = "idle"
-----------------------------------------------------------------------------
(***************************************************************************)
(* AlEthHwInitialize and AlEthHwShutdown.                                  *)
(***************************************************************************)

\* What the first k calls of gBS->AllocatePages return.
Allocations(k) == Injection(0 .. k - 1, Pages \ allocated)

\* The pointers are set one by one; whatever they held is overwritten.
StorePages(f) ==
    /\ page' = [s \in Slots |-> IF s \in DOMAIN f THEN f[s] ELSE page[s]]
    /\ allocated' = allocated \cup Range(f)

FreshTxRing ==
    /\ txDesc' = [i \in Idx |-> NoBuf]
    /\ txNext' = 0
    /\ txAck' = 0
    /\ txHead' = 0

\* A slip: the buffer of an earlier session stays in flight.
HwInitializeKeepsTxBuf ==
    \E f \in Allocations(NumRx + 1) :
        /\ StorePages(f)
        /\ hwOn' = TRUE
        /\ dmaPages' = Range(f)
        /\ halReady' = TRUE
        /\ FreshTxRing
        /\ UNCHANGED TxBufInFlight
        /\ ecAddr' = CurrentAddress
        /\ macPromis' = TRUE
        /\ filtered' = FALSE

\* AlEthHwInitialize succeeds.  mac_config enables promiscuous mode whatever
\* the receive filters say.
HwInitialize ==
    \E f \in Allocations(NumRx + 1) :
        /\ StorePages(f)
        /\ hwOn' = TRUE
        /\ dmaPages' = Range(f)
        /\ halReady' = TRUE
        /\ FreshTxRing
        /\ TxBufInFlight' = NoBuf
        /\ ecAddr' = CurrentAddress
        /\ macPromis' = TRUE
        /\ filtered' = FALSE

\* AlEthHwInitialize runs out of memory, before it has touched the hardware;
\* or a HAL call fails after the stale hardware was halted.  What was
\* allocated stays allocated.
HwInitializeFails ==
    /\ \/ /\ \E k \in 0 .. NumRx : \E f \in Allocations(k) : StorePages(f)
          /\ UNCHANGED <<hwVars, txVars, ecAddr, macPromis>>
       \/ /\ \E f \in Allocations(NumRx + 1) : StorePages(f)
          /\ hwOn' = FALSE
          /\ dmaPages' = {}
          /\ halReady' = TRUE
          /\ FreshTxRing
          /\ ecAddr' \in {ecAddr, CurrentAddress}
          /\ macPromis' \in {macPromis, TRUE}
          /\ UNCHANGED TxBufInFlight
    /\ UNCHANGED filtered
    /\ clean' = FALSE

\* A slip: the pages are freed while the adapter still runs.
HwHaltFreesFirst ==
    /\ allocated' = allocated \ Range(page)
    /\ UNCHANGED <<page, hwVars, ecAddr, macPromis, filtered, txVars>>

\* First half of AlEthHwShutdown: mac_stop, queue resets, adapter_stop.  The
\* transmit buffer in flight is not forgotten.
HwHalt ==
    /\ hwOn' = FALSE
    /\ dmaPages' = {}
    /\ UNCHANGED <<halReady, memVars, ecAddr, macPromis, filtered, txVars>>

\* Second half: free what the pointers name, and clear them.
HwFree ==
    /\ allocated' = allocated \ Range(page)
    /\ page' = [s \in Slots |-> NoPage]
-----------------------------------------------------------------------------
(***************************************************************************)
(* SNP lifecycle.  Shutdown, Reset and the binding's Stop go through       *)
(* AlEthHwShutdown, in two steps: halt, then free and carry on.            *)
(***************************************************************************)
SnpStart ==
    /\ Callable
    /\ snpState = "Stopped"
    /\ snpState' = "Started"
    /\ UNCHANGED <<bound, exited, pc, memVars, hwVars, pciVars, txVars, owed, modeVars,
                   clean>>

\* AlEthNextSnpStop does not look at the hardware.
SnpStop ==
    /\ Callable
    /\ snpState # "Stopped"
    /\ snpState = "Initialized" => StopWhileUp
    /\ snpState' = "Stopped"
    /\ clean' = (clean /\ snpState # "Initialized")
    /\ UNCHANGED <<bound, exited, pc, memVars, hwVars, pciVars, txVars, owed, modeVars>>

SnpInitialize ==
    /\ Callable
    /\ snpState = "Started"
    /\ \/ HwInitialize /\ snpState' = "Initialized" /\ UNCHANGED clean
       \/ HwInitializeFails /\ UNCHANGED snpState
    /\ UNCHANGED <<bound, exited, pc, pciVars, owed, CurrentAddress, PermanentAddress,
                   promisc>>

\* AlEthNextSnpShutdown of an adapter that is only Started.
SnpShutdownIdle ==
    /\ Callable
    /\ snpState = "Started"
    /\ UNCHANGED vars

BeginShutdown(call) ==
    /\ Callable
    /\ snpState = "Initialized"
    /\ HwHalt
    /\ pc' = call
    /\ UNCHANGED <<bound, exited, snpState, pciVars, owed, CurrentAddress,
                   PermanentAddress, promisc, clean>>

SnpShutdown == BeginShutdown("shutdown")
SnpReset    == BeginShutdown("reset")

\* AlEthHwShutdown frees, AlEthNextSnpShutdown sets the state.  The caller
\* may use all its buffers again.
SnpShutdownEnd ==
    /\ pc = "shutdown"
    /\ HwFree
    /\ snpState' = "Started"
    /\ owed' = {}
    /\ pc' = "idle"
    /\ UNCHANGED <<bound, exited, hwVars, pciVars, txVars, modeVars, clean>>

\* Memory is freed before AlEthHwInitialize allocates: SnpResetFree and
\* SnpResetEnd are the two halves of what is left of Reset.
SnpResetFree ==
    /\ pc = "reset"
    /\ HwFree
    /\ owed' = {}
    /\ pc' = "reinit"
    /\ UNCHANGED <<bound, exited, snpState, hwVars, pciVars, txVars, modeVars, clean>>

SnpResetEnd ==
    /\ pc = "reinit"
    /\ \/ HwInitialize /\ UNCHANGED <<snpState, clean>>
       \/ HwInitializeFails /\ snpState' = "Started"
    /\ pc' = "idle"
    /\ UNCHANGED <<bound, exited, pciVars, owed, CurrentAddress, PermanentAddress,
                   promisc>>
-----------------------------------------------------------------------------
(***************************************************************************)
(* Driver binding and ExitBootServices.                                    *)
(***************************************************************************)

\* BoardInfo first, then what the EC holds, then a made-up address.
MacChoices == IF BoardMac # NoAddr THEN {BoardMac}
              ELSE IF ecAddr # NoAddr THEN {ecAddr} ELSE Addrs

\* AlEthNextStart: a zeroed context.  A Start that fails undoes its steps and
\* leaves no trace.
BindStart ==
    /\ ~bound /\ ~exited
    /\ bound' = TRUE
    /\ OriginalPciAttributes' = busMaster
    /\ busMaster' = TRUE
    /\ snpState' = "Stopped"
    /\ page' = [s \in Slots |-> NoPage]
    /\ halReady' = FALSE
    /\ TxBufInFlight' = NoBuf
    /\ \E a \in MacChoices : CurrentAddress' = a /\ PermanentAddress' = a
    /\ promisc' = FALSE
    /\ UNCHANGED <<exited, pc, allocated, hwOn, dmaPages, txDesc, txNext, txAck, txHead,
                   owed, ecAddr, macPromis, filtered, clean>>

\* The context is freed: its pointers are gone.
Unbind ==
    /\ bound' = FALSE
    /\ snpState' = "Stopped"
    /\ busMaster' = OriginalPciAttributes
    /\ halReady' = FALSE
    /\ TxBufInFlight' = NoBuf
    /\ owed' = {}
    /\ pc' = "idle"
    /\ UNCHANGED <<exited, hwOn, dmaPages, OriginalPciAttributes, txDesc, txNext, txAck,
                   txHead, modeVars, clean>>

\* AlEthNextStop of an initialized adapter halts it first ...
BindStop == BeginShutdown("unbind")

BindStopEnd ==
    /\ pc = "unbind"
    /\ HwFree
    /\ Unbind

\* ... and of any other does not touch the hardware.
BindStopIdle ==
    /\ Callable
    /\ snpState # "Initialized"
    /\ page' = [s \in Slots |-> NoPage]
    /\ UNCHANGED allocated
    /\ Unbind

\* A slip: the handler is not registered.
ExitBootServicesUnhandled ==
    /\ ~exited
    /\ pc = "idle"
    /\ exited' = TRUE
    /\ UNCHANGED <<bound, snpState, pc, memVars, hwVars, pciVars, txVars, owed, modeVars,
                   clean>>

\* AlEthNextExitBootServices, if the driver is bound: mac_stop and
\* adapter_stop through HalAdapter, which reach the adapter only when the
\* HAL was initialized in this binding.
ExitBootServices ==
    /\ ~exited
    /\ pc = "idle"
    /\ exited' = TRUE
    /\ IF bound /\ halReady
       THEN hwOn' = FALSE /\ dmaPages' = {}
       ELSE UNCHANGED <<hwOn, dmaPages>>
    /\ UNCHANGED <<bound, snpState, pc, memVars, halReady, pciVars, txVars, owed, modeVars,
                   clean>>
-----------------------------------------------------------------------------
(***************************************************************************)
(* Transmit.                                                               *)
(***************************************************************************)

\* al_udma_cdesc_get_all: completions not acknowledged.
TxCompleted == Dist(txAck, txHead)

\* Descriptors the hardware still works on.
TxPending == {i \in Idx : hwOn /\ Dist(txHead, i) < Dist(txHead, txNext)}

\* AlEthNextSnpTransmit of buffer b.  A buffer in flight is reclaimed if its
\* completion has arrived, else the call returns NOT_READY (a stuttering
\* step).  The header arguments are checked after the reclaim.
Transmit(b, header) ==
    /\ Callable
    /\ snpState = "Initialized"
    /\ TxBufInFlight # NoBuf => TxCompleted > 0
    /\ txAck' = IF TxBufInFlight # NoBuf THEN IdxAdd(txAck, TxCompleted) ELSE txAck
    /\ IF header # "bad" /\ Available(txNext, txAck') >= 1
       THEN /\ txDesc' = [txDesc EXCEPT ![txNext] = b]
            /\ txNext' = IdxAdd(txNext, 1)
            /\ TxBufInFlight' = b
            /\ owed' = owed \cup {b}
       ELSE /\ TxBufInFlight' = NoBuf
            /\ UNCHANGED <<txDesc, txNext, owed>>
    /\ UNCHANGED <<bound, exited, snpState, pc, memVars, hwVars, pciVars, txHead,
                   modeVars, clean>>

\* A slip: the buffer is handed back without looking for its completion.
GetStatusTooEarly ==
    /\ Callable
    /\ snpState = "Initialized"
    /\ TxBufInFlight # NoBuf
    /\ txAck' = IdxAdd(txAck, TxCompleted)
    /\ owed' = owed \ {TxBufInFlight}
    /\ TxBufInFlight' = NoBuf
    /\ UNCHANGED <<bound, exited, snpState, pc, memVars, hwVars, pciVars, txDesc, txNext,
                   txHead, modeVars, clean>>

\* AlEthNextSnpGetStatus with a TxBuf argument, when it hands a buffer back.
GetStatus ==
    /\ Callable
    /\ snpState = "Initialized"
    /\ TxBufInFlight # NoBuf
    /\ TxCompleted > 0
    /\ txAck' = IdxAdd(txAck, TxCompleted)
    /\ owed' = owed \ {TxBufInFlight}
    /\ TxBufInFlight' = NoBuf
    /\ UNCHANGED <<bound, exited, snpState, pc, memVars, hwVars, pciVars, txDesc, txNext,
                   txHead, modeVars, clean>>

\* The M2S engine sends the oldest frame and advances its head pointer.
HwTransmit ==
    /\ hwOn /\ busMaster
    /\ txHead # txNext
    /\ txHead' = IdxAdd(txHead, 1)
    /\ UNCHANGED <<bound, exited, snpState, pc, memVars, hwVars, pciVars, TxBufInFlight,
                   txDesc, txNext, txAck, owed, modeVars, clean>>
-----------------------------------------------------------------------------
(***************************************************************************)
(* Receive filters and station address.                                    *)
(***************************************************************************)

\* A slip: the MAC is told before the setting is updated.
ReceiveFiltersStale(on) ==
    /\ Callable
    /\ snpState = "Initialized"
    /\ macPromis' = promisc
    /\ promisc' = on
    /\ filtered' = TRUE
    /\ UNCHANGED <<bound, exited, snpState, pc, memVars, hwVars, pciVars, txVars, owed,
                   CurrentAddress, PermanentAddress, ecAddr, clean>>

\* AlEthNextSnpReceiveFilters; "on" is the promiscuous bit it ends up with.
ReceiveFilters(on) ==
    /\ Callable
    /\ snpState = "Initialized"
    /\ promisc' = on
    /\ macPromis' = on
    /\ filtered' = TRUE
    /\ UNCHANGED <<bound, exited, snpState, pc, memVars, hwVars, pciVars, txVars, owed,
                   CurrentAddress, PermanentAddress, ecAddr, clean>>

\* A slip: only a new address reaches the EC, a reset one does not.
StationAddressResetForgotten(a) ==
    /\ Callable
    /\ snpState = "Initialized"
    /\ CurrentAddress' = a
    /\ ecAddr' = IF a = PermanentAddress THEN ecAddr ELSE a
    /\ UNCHANGED <<bound, exited, snpState, pc, memVars, hwVars, pciVars, txVars, owed,
                   PermanentAddress, promisc, macPromis, filtered, clean>>

\* AlEthNextSnpStationAddress; a is the caller's address, or the permanent one.
StationAddress(a) ==
    /\ Callable
    /\ snpState = "Initialized"
    /\ CurrentAddress' = a
    /\ ecAddr' = a
    /\ UNCHANGED <<bound, exited, snpState, pc, memVars, hwVars, pciVars, txVars, owed,
                   PermanentAddress, promisc, macPromis, filtered, clean>>
-----------------------------------------------------------------------------
\* RouterBOOT may have used the adapter: it may still run (on memory that is
\* not the driver's), be a bus master, and hold an address.
Init ==
    /\ bound = FALSE
    /\ exited = FALSE
    /\ snpState = "Stopped"
    /\ pc = "idle"
    /\ page = [s \in Slots |-> NoPage]
    /\ allocated = {}
    /\ halReady = FALSE
    /\ hwOn \in BOOLEAN
    /\ busMaster \in BOOLEAN
    /\ OriginalPciAttributes = busMaster
    /\ dmaPages = {}
    /\ TxBufInFlight = NoBuf
    /\ txDesc = [i \in Idx |-> NoBuf]
    /\ txNext = 0
    /\ txAck = 0
    /\ txHead = 0
    /\ owed = {}
    /\ CurrentAddress = NoAddr
    /\ PermanentAddress = NoAddr
    /\ ecAddr \in {NoAddr, BoardMac}
    /\ promisc = FALSE
    /\ macPromis = FALSE
    /\ filtered = FALSE
    /\ clean = TRUE

Next ==
    \/ BindStart \/ BindStop \/ BindStopEnd \/ BindStopIdle
    \/ ExitBootServices
    \/ SnpStart \/ SnpStop \/ SnpInitialize
    \/ SnpShutdownIdle \/ SnpShutdown \/ SnpShutdownEnd
    \/ SnpReset \/ SnpResetFree \/ SnpResetEnd
    \/ \E b \in TxBufs : \E header \in {"none", "bad"} : Transmit(b, header)
    \/ GetStatus
    \/ HwTransmit
    \/ \E on \in BOOLEAN : ReceiveFilters(on)
    \/ \E a \in Addrs : StationAddress(a)

Spec == Init /\ [][Next]_vars

\* A call that has begun runs to its end.
CallEnds == SnpShutdownEnd \/ SnpResetFree \/ SnpResetEnd \/ BindStopEnd

\* The engine sends what it was given, and the network stack keeps polling
\* GetStatus while it has a frame out; the driver itself has no timeout.
FairSpec == Spec /\ WF_vars(HwTransmit) /\ WF_vars(GetStatus) /\ WF_vars(CallEnds)
-----------------------------------------------------------------------------
(***************************************************************************)
(* Correctness.                                                            *)
(***************************************************************************)

\* Every variable has its type; the ring indices stay inside the ring.
SnpTypeOK ==
    /\ bound \in BOOLEAN
    /\ exited \in BOOLEAN
    /\ snpState \in {"Stopped", "Started", "Initialized"}
    /\ pc \in {"idle", "shutdown", "reset", "reinit", "unbind"}
    /\ page \in [Slots -> Pages \cup {NoPage}]
    /\ allocated \subseteq Pages
    /\ halReady \in BOOLEAN
    /\ hwOn \in BOOLEAN
    /\ busMaster \in BOOLEAN
    /\ OriginalPciAttributes \in BOOLEAN
    /\ dmaPages \subseteq Pages
    /\ TxBufInFlight \in TxBufs \cup {NoBuf}
    /\ txDesc \in [Idx -> TxBufs \cup {NoBuf}]
    /\ txNext \in Idx
    /\ txAck \in Idx
    /\ txHead \in Idx
    /\ owed \subseteq TxBufs
    /\ CurrentAddress \in Addrs \cup {NoAddr}
    /\ PermanentAddress \in Addrs \cup {NoAddr}
    /\ ecAddr \in Addrs \cup {NoAddr}
    /\ promisc \in BOOLEAN
    /\ macPromis \in BOOLEAN
    /\ filtered \in BOOLEAN
    /\ clean \in BOOLEAN

\* The adapter can write to a page of the driver.
DmaInto == IF hwOn /\ busMaster THEN dmaPages ELSE {}

\* AlEthHwShutdown frees the rings and buffers, AlEthHwInitialize overwrites
\* the pointers to them: the adapter never writes to a page given back to the
\* firmware's allocator, even when a bring-up fails half way or Stop skipped
\* the shutdown.
NoDmaToFreed == DmaInto \subseteq allocated

\* AlEthHwShutdown frees what RxBuffers and DescRingBase name: they name
\* distinct pages that are still allocated, so nothing is freed twice.
PointersValid ==
    /\ \A s \in Slots : page[s] # NoPage => page[s] \in allocated
    /\ \A s, t \in Slots : page[s] = page[t] /\ page[s] # NoPage => s = t

\* Every allocated page is named by a pointer of the context, so that
\* AlEthHwShutdown will free it, as long as no bring-up has failed and Stop
\* was only called after Shutdown.
PagesAccounted == clean => allocated = Range(page) \ {NoPage}

\* AlEthNextStop and AlEthNextExitBootServices: once the driver has let go of
\* the adapter or the OS has taken over, the adapter cannot write to memory
\* the driver gave it.
QuietWhenGone == (~bound \/ exited) => DmaInto = {}

\* TxBufInFlight tells exactly whether the transmit ring has an entry that is
\* not acknowledged, and that entry is the buffer's; so a completion seen by
\* GetStatus or Transmit is the completion of TxBufInFlight.
TxTracksHw ==
    (snpState = "Initialized" /\ pc = "idle") =>
        /\ Dist(txAck, txNext) = IF TxBufInFlight = NoBuf THEN 0 ELSE 1
        /\ Dist(txAck, txHead) + Dist(txHead, txNext) = Dist(txAck, txNext)
        /\ TxBufInFlight # NoBuf => txDesc[txAck] = TxBufInFlight

\* A buffer handed back to the caller, by GetStatus or by the end of a
\* Shutdown, Reset or unbinding, is not read by the hardware any more.
ReturnedBufferIsQuiet ==
    [][\A b \in owed \ owed' : \A i \in TxPending' : txDesc'[i] # b]_vars

\* AlEthHwInitialize and StationAddress store the current address in the EC:
\* an initialized adapter answers to Mode->CurrentAddress.
EcHoldsCurrentAddress ==
    (snpState = "Initialized" /\ pc = "idle") => ecAddr = CurrentAddress

\* al_eth_mac_config turns PROMIS_EN on at every bring-up, and Initialize and
\* Reset do not apply the filter setting again: the MAC's bit is what the
\* setting says from a call of ReceiveFilters to the next bring-up, and on
\* after a bring-up until the next call, also when the setting says off.
PromiscuousFollowsFilters ==
    (snpState = "Initialized" /\ pc = "idle") => macPromis = (promisc \/ ~filtered)

\* The inductive invariant behind the properties above.  While AlEthHwShutdown
\* is under way the adapter is off; with callers that Shutdown before they
\* Stop, a running adapter on the driver's memory is always an initialized
\* one; and as long as nothing went wrong only an initialized adapter holds
\* memory.
SnpInv ==
    /\ hwOn => dmaPages \subseteq allocated
    /\ pc # "idle" => ~hwOn /\ snpState = "Initialized" /\ bound /\ ~exited
    /\ snpState = "Initialized" => bound /\ halReady
    /\ PointersValid
    /\ TxTracksHw
    /\ EcHoldsCurrentAddress
    /\ PromiscuousFollowsFilters
    /\ PagesAccounted
    /\ (clean /\ (snpState # "Initialized" \/ pc = "reinit")) => allocated = {}
    /\ (~StopWhileUp /\ hwOn /\ dmaPages # {}) => snpState = "Initialized" /\ ~exited
    /\ (~StopWhileUp /\ (snpState # "Initialized" \/ pc = "reinit")) => owed = {}

\* AlEthNextSnpTransmit returns NOT_READY while the buffer in flight has not
\* completed; it does not do so for ever, unless the adapter is taken down.
Refused == snpState = "Initialized" /\ TxBufInFlight # NoBuf /\ TxCompleted = 0
TransmitRecovers == Refused ~> (~Refused \/ exited)

\* The comment in AlEthNextSnpTransmit, "completion checked via GetStatus()":
\* a buffer stays in flight until GetStatus hands it back.
HandedBackByGetStatus == owed \subseteq {TxBufInFlight}
=============================================================================
