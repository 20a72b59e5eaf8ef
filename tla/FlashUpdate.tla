---------------------------- MODULE FlashUpdate -----------------------------
(***************************************************************************)
(* FlashApp over SpiNorFlashDxe: an image is written to a firmware slot or *)
(* to a raw offset by erasing all its sectors, then programming, reading   *)
(* back and comparing one sector at a time.  Any step may fail, the        *)
(* machine may lose power between any two, and the application is run      *)
(* again.                                                                  *)
(***************************************************************************)
EXTENDS SpiNor

CONSTANTS
    Images,         \* files: sequences of page contents
    Slots,          \* FLASH_SLOT0_OFFSET, FLASH_SLOT1_OFFSET
    MaxImage,       \* FLASH_MAX_IMAGE_SIZE
    RawOffsets,     \* offsets given with -raw
    MaxUpdates,     \* bound: runs of FlashApp
    MaxPowerCuts    \* bound: power cuts

Old == "old"        \* what a page held before the first update

\* ReadFile holds the whole file in memory, and the platform has 2 GB of it
\* (CCR2004.dsc:223): (UINT32)FileSize cuts nothing off.
ASSUME UpdateAssumption ==
    /\ Images \subseteq Seq(Contents) /\ Old \in Contents
    /\ \A i \in Images : Len(i) < Wrap
    /\ Slots \subseteq FlashAddr /\ \A o \in Slots : o % SectorPages = 0
    /\ RawOffsets \subseteq 0 .. Wrap - 1
    /\ MaxImage \in Nat /\ MaxUpdates \in Nat /\ MaxPowerCuts \in Nat

VARIABLES
    phase,      \* "off", "idle", or the step of FlashWriteVerify
    off, img,   \* FlashOffset, Data
    idx,        \* sector being erased, or page being written
    Status,     \* what the last run printed
    updates, cuts,
    touched     \* history: pages some run was asked to write, by whole sectors

appVars == <<phase, off, img, idx, Status, updates, cuts, touched>>
vars    == <<norVars, appVars>>

Sectors(n)  == (n + SectorPages - 1) \div SectorPages
Extent(o, n) == {Sent(o + k) : k \in 0 .. Sectors(n) * SectorPages - 1}
Chunk       == IF Len(img) - idx > SectorPages THEN SectorPages ELSE Len(img) - idx
-----------------------------------------------------------------------------
\* FlashAppEntry, either mode, up to the call of FlashWriteVerify.  Refused
\* arguments change nothing.
Start(o, i) ==
    /\ phase = "idle" /\ updates < MaxUpdates
    /\ phase' = "erase"
    /\ off' = o
    /\ img' = i
    /\ idx' = 0
    /\ Status' = "none"
    /\ ret' = "none"
    /\ updates' = updates + 1
    /\ touched' = touched \cup Extent(o, Len(i))
    /\ UNCHANGED <<chipVars, step, call, addr, left, cuts>>

ElfMode(o, i) ==
    /\ o \in Slots
    /\ Len(i) < MaxImage
    /\ Start(o, i)

RawMode(o, i) ==
    /\ o \in RawOffsets
    /\ InRange(o, Len(i))
    /\ o % SectorPages = 0
    /\ Start(o, i)

Fail(s) ==
    /\ phase' = "idle"
    /\ Status' = s
    /\ UNCHANGED <<off, img, idx, updates, cuts, touched>>
-----------------------------------------------------------------------------
(***************************************************************************)
(* FlashWriteVerify.                                                       *)
(***************************************************************************)

\* Slip: the size is rounded up to one sector more.
EraseSectorOneMore ==
    /\ phase = "erase" /\ ret = "none" /\ idx <= Sectors(Len(img))
    /\ CallsDriver([kind |-> "erase"], (off + idx * SectorPages) % Wrap, 1)
    /\ UNCHANGED appVars

EraseSector ==
    /\ phase = "erase" /\ ret = "none" /\ idx < Sectors(Len(img))
    /\ InRange(off + idx * SectorPages, SectorPages)
    /\ CallsDriver([kind |-> "erase"], (off + idx * SectorPages) % Wrap, 1)
    /\ UNCHANGED appVars

\* Erase refuses a sector outside the flash; an offset near 2^32 gets that far.
EraseRefused ==
    /\ phase = "erase" /\ step = "ready" /\ ret = "none" /\ idx < Sectors(Len(img))
    /\ ~InRange(off + idx * SectorPages, SectorPages)
    /\ Fail("INVALID_PARAMETER")
    /\ UNCHANGED norVars

EraseDone ==
    /\ phase = "erase" /\ ret = "SUCCESS"
    /\ ret' = "none"
    /\ idx' = idx + 1
    /\ UNCHANGED <<chipVars, step, call, addr, left, phase, off, img, Status, updates, cuts,
                   touched>>

\* All erased; the buffer for reading back is allocated.
EraseAll ==
    /\ phase = "erase" /\ step = "ready" /\ ret = "none" /\ idx = Sectors(Len(img))
    /\ \/ /\ phase' = "write"
          /\ idx' = 0
          /\ UNCHANGED <<off, img, Status, updates, cuts, touched>>
       \/ Fail("OUT_OF_RESOURCES")
    /\ UNCHANGED norVars

WriteChunk ==
    /\ phase = "write" /\ ret = "none" /\ idx < Len(img)
    /\ InRange(off + idx, Chunk)
    /\ CallsDriver([kind |-> "program", data |-> SubSeq(img, idx + 1, idx + Chunk)],
                   (off + idx) % Wrap, Chunk)
    /\ UNCHANGED appVars

WriteDone ==
    /\ phase = "write" /\ ret = "SUCCESS"
    /\ phase' = "verify"
    /\ ret' = "none"
    /\ UNCHANGED <<chipVars, step, call, addr, left, off, img, idx, Status, updates, cuts,
                   touched>>

\* ReadData and CompareMem: a busy chip answers no read.
ReadsBack == busy = NoOp /\ \A k \in 1 .. Chunk : mem[Sent(off + idx + k - 1)] = img[idx + k]

\* A slip: no comparison.
VerifyUncompared ==
    /\ phase = "verify"
    /\ phase' = "write"
    /\ idx' = idx + Chunk
    /\ UNCHANGED <<norVars, off, img, Status, updates, cuts, touched>>

Verify ==
    /\ phase = "verify"
    /\ \/ /\ ReadsBack
          /\ phase' = "write"
          /\ idx' = idx + Chunk
          /\ UNCHANGED <<off, img, Status, updates, cuts, touched>>
       \/ (~ReadsBack \/ Timeouts) /\ Fail("DEVICE_ERROR")
    /\ UNCHANGED norVars

Success ==
    /\ phase = "write" /\ step = "ready" /\ ret = "none" /\ idx = Len(img)
    /\ Fail("SUCCESS")
    /\ UNCHANGED norVars

CallFailed ==
    /\ phase \in {"erase", "write"} /\ ret \in {"DEVICE_ERROR", "TIMEOUT"}
    /\ Fail(ret)
    /\ UNCHANGED norVars
-----------------------------------------------------------------------------
PowerCut ==
    /\ phase # "off" /\ cuts < MaxPowerCuts
    /\ PowerLost
    /\ phase' = "off"
    /\ Status' = "none"
    /\ cuts' = cuts + 1
    /\ UNCHANGED <<guarded, off, img, idx, updates, touched>>

\* The firmware starts again: SpiNorFlashDxeEntry.
PowerOn ==
    /\ phase = "off"
    /\ ClearProtection
    /\ phase' = "idle"
    /\ UNCHANGED <<off, img, idx, Status, updates, cuts, touched>>

Init ==
    /\ NorInit
    /\ mem = [p \in FlashAddr |-> Old]
    /\ phase = "off"
    /\ off = 0
    /\ img = <<>>
    /\ idx = 0
    /\ Status = "none"
    /\ updates = 0
    /\ cuts = 0
    /\ touched = {}

Chip   == ChipDone /\ UNCHANGED appVars
Driver == (DriverStep \/ WaitTimesOut \/ HalFails) /\ UNCHANGED appVars
App    == EraseSector \/ EraseRefused \/ EraseDone \/ EraseAll \/ WriteChunk \/ WriteDone
          \/ Verify \/ Success \/ CallFailed

Next ==
    \/ Chip \/ Driver \/ App
    \/ \E o \in Slots, i \in Images : ElfMode(o, i)
    \/ \E o \in RawOffsets, i \in Images : RawMode(o, i)
    \/ PowerCut \/ PowerOn

Spec == Init /\ [][Next]_vars

\* The driver's own steps: its polls are counted, so that a wait ends with
\* the bit seen or by running out.
Waits == (DriverStep \/ WaitTimesOut) /\ UNCHANGED appVars

\* Driver and FlashApp go on, and the machine is switched on again.  The chip
\* need never finish what it began, and nobody has to run FlashApp.
FairSpec == Spec /\ WF_vars(Waits) /\ WF_vars(App) /\ WF_vars(PowerOn)
-----------------------------------------------------------------------------
(***************************************************************************)
(* Correctness.                                                            *)
(***************************************************************************)

\* Every variable has its type.
FlashTypeOK ==
    /\ NorTypeOK
    /\ phase \in {"off", "idle", "erase", "write", "verify"}
    /\ off \in 0 .. Wrap - 1
    /\ img \in Images \cup {<<>>}
    /\ idx \in 0 .. Len(img)
    /\ Status \in {"none", "SUCCESS", "DEVICE_ERROR", "TIMEOUT", "OUT_OF_RESOURCES",
                 "INVALID_PARAMETER"}
    /\ touched \subseteq FlashAddr

\* FlashApp prints success only when the flash holds the image, whatever an
\* earlier run, given up while the chip was at work or cut off by a power
\* failure, has left behind, and whether or not the chip takes commands.
SuccessMeansFlashed ==
    (phase = "idle" /\ Status = "SUCCESS") =>
        \A k \in 1 .. Len(img) : mem[Sent(off + k - 1)] = img[k]

\* No update, failed or interrupted ones included, changes a page outside the
\* sectors of the image it was given: slot 0 survives an update of slot 1.
OthersUntouched == \A p \in FlashAddr \ touched : mem[p] = Old

\* What the driver is doing belongs to the step FlashApp is at.
CallMatches ==
    /\ phase = "off" => Status = "none"
    /\ phase \notin {"erase", "write"} => step = "ready"
    /\ step # "ready" => ret = "none"
    /\ step \in {"wel", "cmd", "wip"} => left > 0
    /\ phase = "erase" =>
        /\ idx <= Sectors(Len(img))
        /\ (step # "ready" \/ ret = "SUCCESS") => idx < Sectors(Len(img))
        /\ step # "ready" => call.kind = "erase" /\ left <= 1
        /\ (step # "ready" /\ left = 1) => addr = (off + idx * SectorPages) % Wrap
    /\ phase = "write" =>
        /\ (step # "ready" \/ ret = "SUCCESS") => idx < Len(img)
        /\ step # "ready" =>
            /\ call = [kind |-> "program", data |-> SubSeq(img, idx + 1, idx + Chunk)]
            /\ left <= Chunk
            /\ addr = (off + idx + (Chunk - left)) % Wrap
    /\ phase = "verify" => idx < Len(img) /\ ret = "none"
    /\ phase \in {"erase", "write", "verify"} =>
        off % SectorPages = 0 /\ Extent(off, Len(img)) \subseteq touched

\* The pages of the chunk being written and read back.
ChunkPages == {Sent(off + idx + k) : k \in 0 .. Chunk - 1}

Reports == phase = "idle" /\ Status = "SUCCESS"

\* What the chip is still at, a command of a run that was given up included, is
\* over when the last sector of this run has been erased; after that it works
\* on the current chunk only.
ChipMatches ==
    /\ busy # NoOp => Span(busy) \subseteq touched
    /\ /\ phase = "erase"
       /\ \/ step = "wren" /\ left = 0
          \/ step = "ready" /\ ret = "SUCCESS"
          \/ step = "ready" /\ ret = "none" /\ idx > 0
       => busy = NoOp
    /\ (phase \in {"write", "verify"} /\ Len(img) > 0 /\ busy # NoOp) =>
        busy.kind = "program" /\ busy.at \in ChunkPages
    /\ Reports => idx = Len(img) /\ (Len(img) > 0 => busy = NoOp)

\* The pages in front of the current chunk have been compared and still hold
\* the image; one that the chunk wraps round to may be spoilt, until the chunk
\* is compared.
Compared ==
    (phase \in {"write", "verify"} \/ Reports) =>
        \A k \in 1 .. idx :
            LET p == Sent(off + k - 1)
            IN mem[p] = img[k] \/ (mem[p] = Mixed /\ p \in ChunkPages)

\* At every step, power cuts and failures included, every variable has its
\* type, the pages outside the images given are as they were, and the driver
\* and the chip are where FlashApp takes them to be.
FlashInv == FlashTypeOK /\ OthersUntouched /\ CallMatches /\ ChipMatches /\ Compared

\* "Verify WEL is set": when FlashWriteEnable says that the latch is set, the
\* command that follows is taken by the chip (unless it is protected).
WelVerified == ~ignored

\* "Write would exceed flash size": an update that is not refused lies inside
\* the flash.
AcceptedFits == phase \in {"erase", "write", "verify"} => off + Len(img) <= FlashPages

\* An update that was started comes to an end, with a result or by a power
\* cut, on a chip that is stuck too: the waits for WEL and WIP are bounded.
UpdateEnds == (phase \in {"erase", "write", "verify"}) ~> (phase \in {"idle", "off"})
=============================================================================
