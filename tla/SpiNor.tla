------------------------------- MODULE SpiNor -------------------------------
(***************************************************************************)
(* SpiNorFlashDxe and the NOR flash behind it.  The chip programs a page   *)
(* or erases a sector by itself after it was told to; it takes such a      *)
(* command only while it is not busy, its write-enable latch (WEL) is set  *)
(* and it is not protected, and ignores it in silence otherwise.  The      *)
(* driver polls: WEL after CMD_WRITE_ENABLE, WIP after a command.  A wait  *)
(* for WIP may run out while the chip is still at work.                    *)
(*                                                                         *)
(* The unit of addresses is a page.  Addresses are 32 bits wide in the     *)
(* driver and 24 on the wire: Wrap stands for 2^32 and FlashPages for 2^24.*)
(***************************************************************************)
EXTENDS Integers, Sequences

CONSTANTS
    FlashPages,     \* FLASH_SIZE
    SectorPages,    \* FLASH_SECTOR_SIZE
    Wrap,           \* 2^32
    Contents,       \* what a page may be programmed with
    Timeouts        \* FlashWaitReady may run out, a HAL transfer may fail

Blank == "blank"    \* all ones
Mixed == "mixed"    \* programmed over something else, or half way

ASSUME NorAssumption ==
    /\ SectorPages \in Nat \ {0}
    /\ FlashPages \in Nat /\ FlashPages % SectorPages = 0 /\ FlashPages > 0
    /\ Wrap \in Nat /\ Wrap % FlashPages = 0 /\ Wrap > FlashPages
    /\ {Blank, Mixed} \cap Contents = {}
    /\ Timeouts \in BOOLEAN

FlashAddr == 0 .. FlashPages - 1
NoOp      == [kind |-> "none"]

VARIABLES
    mem,        \* chip: the pages
    wel,        \* chip: write-enable latch
    busy,       \* chip: the operation in progress (WIP), or NoOp
    guarded,    \* chip: block protection bits are set
    step,       \* driver: "ready", "wren", "wel", "cmd", "wip"
    call,       \* driver: the method called
    addr, left, \* driver: FlashAddress and what remains to be done
    ret,        \* driver: what the last call returned
    ignored     \* history: a command came without WEL or while the chip was busy

chipVars == <<mem, wel, busy, guarded, ignored>>
callVars == <<step, call, addr, left, ret>>
norVars  == <<chipVars, callVars>>
-----------------------------------------------------------------------------
\* The range check of ReadData, WriteData and Erase, in 32 bits.
InRange(a, n) == (a + n) % Wrap <= FlashPages

\* The address on the wire.
Sent(a) == a % FlashPages

\* Pages a command works on.
Span(o) == IF o.kind = "erase" THEN o.at .. o.at + SectorPages - 1 ELSE {o.at}

\* What the chip makes of the pages of an operation, if it gets to its end.
Result(o, p) ==
    IF o.kind = "erase" THEN Blank
    ELSE IF mem[p] \in {Blank, o.data} THEN o.data ELSE Mixed

Accepts == wel /\ busy = NoOp /\ ~guarded

\* The chip finishes.
ChipDone ==
    /\ busy # NoOp
    /\ mem' = [p \in FlashAddr |-> IF p \in Span(busy) THEN Result(busy, p) ELSE mem[p]]
    /\ busy' = NoOp
    /\ wel' = FALSE
    /\ UNCHANGED <<guarded, ignored, callVars>>

Return(s) ==
    /\ ret' = s
    /\ step' = "ready"
    /\ call' = NoOp
-----------------------------------------------------------------------------
(***************************************************************************)
(* WriteData, for n pages of data, and Erase, for n sectors.  Refused      *)
(* calls return at once.                                                   *)
(***************************************************************************)
CallsDriver(c, a, n) ==
    /\ step = "ready"
    /\ call' = c
    /\ addr' = a
    /\ left' = n
    /\ step' = "wren"
    /\ ret' = "none"
    /\ UNCHANGED chipVars

\* The operation the driver is about to send.
Op == IF call.kind = "erase" THEN [kind |-> "erase", at |-> Sent(addr)]
      ELSE [kind |-> "program", at |-> Sent(addr), data |-> call.data[Len(call.data) - left + 1]]

Unit == IF call.kind = "erase" THEN SectorPages ELSE 1

\* FlashWriteEnable: the command ...
WriteEnable ==
    /\ step = "wren" /\ left > 0
    /\ wel' = (wel \/ busy = NoOp)
    /\ step' = "wel"
    /\ UNCHANGED <<mem, busy, guarded, ignored, call, addr, left, ret>>

\* ... and "Verify WEL is set", which only sees that the bit is set.
WelSet ==
    /\ step = "wel" /\ wel
    /\ step' = "cmd"
    /\ UNCHANGED <<chipVars, call, addr, left, ret>>

WelNotSet ==
    /\ step = "wel" /\ ~wel
    /\ Return("DEVICE_ERROR")
    /\ UNCHANGED <<chipVars, addr, left>>

\* CMD_PAGE_PROGRAM or CMD_SECTOR_ERASE.
SendCommand ==
    /\ step = "cmd"
    /\ busy' = IF Accepts THEN Op ELSE busy
    /\ ignored' = (ignored \/ ~wel \/ busy # NoOp)
    /\ step' = "wip"
    /\ UNCHANGED <<mem, wel, guarded, call, addr, left, ret>>

\* FlashWaitReady sees WIP clear; the loop goes on with the next unit.
Ready ==
    /\ step = "wip" /\ busy = NoOp
    /\ addr' = (addr + Unit) % Wrap
    /\ left' = left - 1
    /\ step' = "wren"
    /\ UNCHANGED <<chipVars, call, ret>>

CallDone ==
    /\ step = "wren" /\ left = 0
    /\ Return("SUCCESS")
    /\ UNCHANGED <<chipVars, addr, left>>

\* A slip: FlashWaitReady polls until the bit is clear, however long.
WaitsForEver ==
    /\ Timeouts /\ step = "wip" /\ busy # NoOp
    /\ UNCHANGED norVars

\* FlashWaitReady runs out of polls.
WaitTimesOut ==
    /\ Timeouts /\ step = "wip" /\ busy # NoOp
    /\ Return("TIMEOUT")
    /\ UNCHANGED <<chipVars, addr, left>>

\* A transfer fails; a command may have reached the chip all the same.
HalFails ==
    /\ Timeouts /\ step \in {"wren", "wel", "cmd", "wip"} /\ left > 0
    /\ \/ UNCHANGED <<wel, busy>>
       \/ step = "wren" /\ wel' = (wel \/ busy = NoOp) /\ UNCHANGED busy
       \/ step = "cmd" /\ Accepts /\ busy' = Op /\ UNCHANGED wel
    /\ Return("DEVICE_ERROR")
    /\ UNCHANGED <<mem, guarded, ignored, addr, left>>

\* SpiNorFlashDxeEntry clears the protection bits and looks at no result.
ClearProtection ==
    /\ guarded' \in IF Timeouts THEN {guarded, FALSE} ELSE {FALSE}
    /\ UNCHANGED <<mem, wel, busy, ignored, callVars>>

DriverStep ==
    \/ WriteEnable \/ WelSet \/ WelNotSet \/ SendCommand \/ Ready \/ CallDone

\* Power is lost: what the chip was working on is half done.
PowerLost ==
    /\ mem' = [p \in FlashAddr |-> IF busy # NoOp /\ p \in Span(busy) THEN Mixed ELSE mem[p]]
    /\ wel' = FALSE
    /\ busy' = NoOp
    /\ ignored' = FALSE
    /\ step' = "ready"
    /\ call' = NoOp
    /\ addr' = 0
    /\ left' = 0
    /\ ret' = "none"

NorInit ==
    /\ wel = FALSE
    /\ busy = NoOp
    /\ guarded \in BOOLEAN
    /\ step = "ready"
    /\ call = NoOp
    /\ addr = 0
    /\ left = 0
    /\ ret = "none"
    /\ ignored = FALSE

NorTypeOK ==
    /\ mem \in [FlashAddr -> Contents \cup {Blank, Mixed}]
    /\ wel \in BOOLEAN
    /\ busy \in {NoOp} \cup [kind : {"erase"}, at : FlashAddr]
                \cup [kind : {"program"}, at : FlashAddr, data : Contents]
    /\ busy # NoOp => Span(busy) \subseteq FlashAddr
    /\ guarded \in BOOLEAN
    /\ step \in {"ready", "wren", "wel", "cmd", "wip"}
    /\ addr \in 0 .. Wrap - 1
    /\ left \in Nat
    /\ ret \in {"none", "SUCCESS", "DEVICE_ERROR", "TIMEOUT"}
    /\ ignored \in BOOLEAN
=============================================================================
