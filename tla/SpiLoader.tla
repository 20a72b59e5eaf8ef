------------------------------ MODULE SpiLoader -----------------------------
(***************************************************************************)
(* SpiLoader, the second-stage loader: reads an ELF image from the SPI     *)
(* flash, checks its headers, places its segments in memory and jumps.     *)
(* The image is whatever the flash holds: every header field is an input.  *)
(*                                                                         *)
(* Header fields and addresses are 64 bits wide (modulo Wrap64), offsets   *)
(* into the flash 32 (modulo Wrap32); the flash itself takes 24, modulo    *)
(* FlashSize.  The data caches are on while the loader works and off after *)
(* the jump: what was written and not cleaned is lost.                     *)
(***************************************************************************)
EXTENDS Integers, Sequences, FiniteSetsExt

CONSTANTS
    Wrap64, Wrap32, FlashSize,
    FlashOffset,        \* CCR2004_SPI_FLASH_OFFSET
    MaxImage,           \* SPILOADER_MAX_IMAGE_SIZE
    PhdrSize,           \* sizeof (ELF64_PHDR)
    PhdrLimit,          \* SPILOADER_PHDR_LIMIT
    ReservedBase,       \* SPILOADER_LOAD_ADDR
    ReservedTop,        \* __stack_top
    ReadSize,           \* bytes of one al_spi_read, 4096
    CacheLineBytes,
    RamTop,             \* addresses from here on abort
    Phdrs,              \* program headers the flash may hold
    Phoffs              \* values of e_phoff

ASSUME LoaderAssumption ==
    /\ {Wrap64, Wrap32, FlashSize, MaxImage, PhdrSize, ReadSize, CacheLineBytes} \subseteq Nat \ {0}
    /\ {FlashOffset, PhdrLimit, ReservedBase, ReservedTop, RamTop} \subseteq Nat
    /\ Wrap64 % Wrap32 = 0 /\ Wrap32 % FlashSize = 0 /\ Wrap64 % CacheLineBytes = 0
    /\ FlashOffset + MaxImage <= FlashSize
    /\ MaxImage + PhdrLimit * PhdrSize < Wrap64
    /\ ReservedBase < ReservedTop /\ ReservedTop <= RamTop
    /\ RamTop <= Wrap64 - CacheLineBytes

Addr     == 0 .. Wrap64 - 1

\* The fields of a program header that matter: load is p_type = PT_LOAD.
ELF64_PHDR == [load : BOOLEAN, p_paddr : Addr, p_vaddr : Addr, p_offset : Addr,
               p_filesz : Addr, p_memsz : Addr]

ASSUME InputAssumption == Phdrs \subseteq ELF64_PHDR /\ Phoffs \subseteq Addr

Reserved == ReservedBase .. ReservedTop - 1
Ram      == -1          \* what memory held before
Loader   == -2          \* SpiLoader's code, data and stack
Zero     == -3

VARIABLES
    pc,         \* "start", "headers", "phdrs", "segment", "read", "zero", "jumped", "panic", "fault"
    hdr,        \* Header: ident (the fields compared with constants), e_phoff, e_phnum
    phdr,       \* mProgramHeaders
    index,      \* Index
    done,       \* bytes of the segment read so far
    mem,        \* memory as the loader sees it: the flash address a byte comes from, or what it was
    dirty,      \* addresses written and not cleaned from the cache
    fetched     \* history: flash addresses read for segments and headers

vars == <<pc, hdr, phdr, index, done, mem, dirty, fetched>>

Plus64(a, b) == (a + b) % Wrap64
Plus32(a, b) == (a + b) % Wrap32
-----------------------------------------------------------------------------
(***************************************************************************)
(* The checks.                                                             *)
(***************************************************************************)

\* Slip: only the start of one range is looked for in the other.
RangeOverlapsStart(StartA, SizeA, StartB, SizeB) ==
    SizeA > 0 /\ StartA >= StartB /\ StartA < StartB + SizeB

RangeOverlaps(StartA, SizeA, StartB, SizeB) ==
    /\ SizeA # 0 /\ SizeB # 0
    /\ LET EndA == Plus64(StartA, SizeA)
           EndB == Plus64(StartB, SizeB)
       IN \/ EndA < StartA \/ EndB < StartB
          \/ ~(EndA <= StartB \/ EndB <= StartA)

ValidateElfHeader ==
    /\ hdr.ident
    /\ hdr.e_phnum \in 1 .. PhdrLimit
    /\ hdr.e_phoff <= MaxImage
    /\ Plus64(hdr.e_phoff, hdr.e_phnum * PhdrSize) <= MaxImage

Target(p) == IF p.p_paddr # 0 THEN p.p_paddr ELSE p.p_vaddr

\* Slip: the sum of offset and size may wrap.
ValidSegmentWrapping(p) ==
    /\ p.p_memsz >= p.p_filesz
    /\ Plus64(Target(p), p.p_memsz) >= Target(p)
    /\ Plus64(p.p_offset, p.p_filesz) <= MaxImage
    /\ ~RangeOverlaps(Target(p), p.p_memsz, ReservedBase, ReservedTop - ReservedBase)

ValidSegment(p) ==
    /\ p.p_memsz >= p.p_filesz
    /\ Plus64(Target(p), p.p_memsz) >= Target(p)
    /\ Plus64(p.p_offset, p.p_filesz) >= p.p_offset
    /\ Plus64(p.p_offset, p.p_filesz) <= MaxImage
    /\ ~RangeOverlaps(Target(p), p.p_memsz, ReservedBase, ReservedTop - ReservedBase)

ValidateProgramHeaders == \A i \in DOMAIN phdr : phdr[i].load => ValidSegment(phdr[i])

\* The check of SpiFlashRead.
Readable(o, n) == o + n <= FlashSize

AlignDown(a) == a - (a % CacheLineBytes)

\* Slip: the end is rounded down.
LinesShort(a, n) == IF n = 0 THEN {} ELSE AlignDown(a) .. AlignDown(Plus64(a, n)) - 1

\* The lines CleanInvalidateDataCacheRange goes through.
Lines(a, n) ==
    IF n = 0 THEN {} ELSE AlignDown(a) .. AlignDown(Plus64(a, n + CacheLineBytes - 1)) - 1
-----------------------------------------------------------------------------
Goto(s) == pc' = s

\* SpiloaderMain and the first read of LoadImageFromFlash; any read may fail,
\* and SpiloaderPanic does not return.  A JEDEC id that cannot be read is only
\* logged.
ReadHeader ==
    /\ pc = "start"
    /\ \/ Goto("headers") \/ Goto("panic")
    /\ UNCHANGED <<hdr, phdr, index, done, mem, dirty, fetched>>

BadHeader ==
    /\ pc = "headers" /\ ~ValidateElfHeader
    /\ Goto("panic")
    /\ UNCHANGED <<hdr, phdr, index, done, mem, dirty, fetched>>

\* The program headers are what the flash holds at e_phoff.
ReadProgramHeaders ==
    /\ pc = "headers" /\ ValidateElfHeader
    /\ LET o == Plus32(FlashOffset, hdr.e_phoff % Wrap32)
           n == hdr.e_phnum * PhdrSize
       IN \/ /\ Readable(o, n)
             /\ fetched' = fetched \cup (o .. o + n - 1)
             /\ Goto("phdrs")
          \/ Goto("panic") /\ UNCHANGED fetched
    /\ UNCHANGED <<hdr, phdr, index, done, mem, dirty>>

Validate ==
    /\ pc = "phdrs"
    /\ Goto(IF ValidateProgramHeaders THEN "segment" ELSE "panic")
    /\ index' = 1
    /\ UNCHANGED <<hdr, phdr, done, mem, dirty, fetched>>
-----------------------------------------------------------------------------
(***************************************************************************)
(* LoadSegment, for one program header after the other.                    *)
(***************************************************************************)
Skip ==
    /\ pc = "segment" /\ index <= hdr.e_phnum /\ ~phdr[index].load
    /\ index' = index + 1
    /\ UNCHANGED <<pc, hdr, phdr, done, mem, dirty, fetched>>

\* SpiFlashRead looks at the whole range before it reads.
BeginSegment ==
    /\ pc = "segment" /\ index <= hdr.e_phnum /\ phdr[index].load
    /\ LET p == phdr[index]
       IN Goto(IF p.p_filesz = 0 \/ Readable(Plus32(FlashOffset, p.p_offset % Wrap32), p.p_filesz)
               THEN "read" ELSE "panic")
    /\ done' = 0
    /\ UNCHANGED <<hdr, phdr, index, mem, dirty, fetched>>

\* The n bytes are stored from address a on; an address that is not RAM aborts.
Store(a, n, bytes, next) ==
    IF n = 0 \/ a + n <= RamTop
    THEN /\ mem' = [x \in Addr |-> IF x \in a .. a + n - 1 THEN bytes[x - a] ELSE mem[x]]
         /\ dirty' = dirty \cup (a .. a + n - 1)
         /\ Goto(next)
    ELSE Goto("fault") /\ UNCHANGED <<mem, dirty>>

ReadLength(p) == Min({ReadSize, p.p_filesz - done})

ReadChunk ==
    /\ pc = "read" /\ done < phdr[index].p_filesz
    /\ LET p == phdr[index]
           n == ReadLength(p)
           o == Plus32(Plus32(FlashOffset, p.p_offset % Wrap32), done)
       IN \/ /\ Store(Target(p) + done, n, [k \in 0 .. n - 1 |-> (o + k) % FlashSize], "read")
             /\ fetched' = fetched \cup {(o + k) % FlashSize : k \in 0 .. n - 1}
             /\ done' = done + n
          \/ Goto("panic") /\ UNCHANGED <<mem, dirty, fetched, done>>
    /\ UNCHANGED <<hdr, phdr, index>>

ZeroRest ==
    /\ pc = "read" /\ done = phdr[index].p_filesz
    /\ LET p == phdr[index]
           n == p.p_memsz - p.p_filesz
       IN Store(Target(p) + p.p_filesz, n, [k \in 0 .. n - 1 |-> Zero], "zero")
    /\ UNCHANGED <<hdr, phdr, index, done, fetched>>

EndSegment ==
    /\ pc = "zero"
    /\ dirty' = dirty \ Lines(Target(phdr[index]), phdr[index].p_memsz)
    /\ index' = index + 1
    /\ Goto("segment")
    /\ UNCHANGED <<hdr, phdr, done, mem, fetched>>

\* SpiloaderJumpToImage: the loader's own range is cleaned too, the caches go off.
Jump ==
    /\ pc = "segment" /\ index = hdr.e_phnum + 1
    /\ dirty' = dirty \ Lines(ReservedBase, ReservedTop - ReservedBase)
    /\ Goto("jumped")
    /\ UNCHANGED <<hdr, phdr, index, done, mem, fetched>>
-----------------------------------------------------------------------------
Init ==
    /\ pc = "start"
    /\ \E n \in 0 .. PhdrLimit, o \in Phoffs, b \in BOOLEAN :
          /\ hdr = [ident |-> b, e_phoff |-> o, e_phnum |-> n]
          /\ phdr \in [1 .. n -> Phdrs]
    /\ index = 1
    /\ done = 0
    /\ mem = [a \in Addr |-> IF a \in Reserved THEN Loader ELSE Ram]
    /\ dirty = {}
    /\ fetched = {}

Next ==
    \/ ReadHeader \/ BadHeader \/ ReadProgramHeaders \/ Validate
    \/ Skip \/ BeginSegment \/ ReadChunk \/ ZeroRest \/ EndSegment \/ Jump

Spec == Init /\ [][Next]_vars
-----------------------------------------------------------------------------
(***************************************************************************)
(* Correctness, for any image.                                             *)
(***************************************************************************)

\* Every variable has its type, and what is being placed has been checked.
LoaderTypeOK ==
    /\ pc \in {"start", "headers", "phdrs", "segment", "read", "zero", "jumped", "panic", "fault"}
    /\ hdr \in [ident : BOOLEAN, e_phoff : Addr, e_phnum : 0 .. PhdrLimit]
    /\ phdr \in [1 .. hdr.e_phnum -> Phdrs]
    /\ index \in 1 .. hdr.e_phnum + 1
    /\ pc \in {"start", "headers", "phdrs"} => index = 1
    /\ pc = "jumped" => index = hdr.e_phnum + 1
    /\ pc \in {"segment", "read", "zero", "jumped"} => ValidateProgramHeaders
    /\ pc \in {"read", "zero"} => /\ index <= hdr.e_phnum /\ phdr[index].load
                                  /\ done \in 0 .. phdr[index].p_filesz
    /\ mem \in [Addr -> (0 .. FlashSize - 1) \cup {Ram, Loader, Zero}]
    /\ dirty \subseteq Addr
    /\ fetched \subseteq 0 .. FlashSize - 1

\* No segment of any image is written over the loader, its stack, or the
\* program headers it has checked and is still reading.
LoaderIntact == \A a \in Reserved : mem[a] = Loader

LoadSet      == {i \in DOMAIN phdr : phdr[i].load}
Covers(i, a) == a \in Target(phdr[i]) .. Target(phdr[i]) + phdr[i].p_memsz - 1
Before(a)    == IF a \in Reserved THEN Loader ELSE Ram

\* What segment i puts at an address: the file's bytes come first, then zeros.
Byte(i, a) ==
    LET k == a - Target(phdr[i])
    IN IF k < phdr[i].p_filesz THEN FlashOffset + phdr[i].p_offset + k ELSE Zero

\* Address a holds what the last of the segments S put there.
HoldsLast(S, a) ==
    IF S = {} THEN mem[a] = Before(a)
    ELSE \E m \in S : (\A i \in S : i <= m) /\ mem[a] = Byte(m, a)

\* The segments before the current one that cover an address.
Earlier(a) == {i \in LoadSet : i < index /\ Covers(i, a)}

\* How much of the current segment is in memory.
Stored ==
    CASE pc = "read" -> done
      [] pc = "zero" -> phdr[index].p_memsz
      [] OTHER       -> 0

InPlace(a) == Stored > 0 /\ a \in Target(phdr[index]) .. Target(phdr[index]) + Stored - 1

\* At every step memory is made of the segments placed so far, the current one
\* as far as it has come; only the current one may still be in the caches, and
\* all of it is in RAM.
PlacedSoFar ==
    pc \notin {"panic", "fault"} =>
        /\ \A a \in Addr : IF InPlace(a) THEN mem[a] = Byte(index, a) ELSE HoldsLast(Earlier(a), a)
        /\ \A a \in dirty : InPlace(a)
        /\ Stored > 0 => Target(phdr[index]) + Stored <= RamTop

\* At every step, for any image, every variable has its type, the loader is
\* whole and memory is what the steps so far should have made of it.
LoaderInv == LoaderTypeOK /\ LoaderIntact /\ PlacedSoFar

\* The loader reads only the image's part of the flash: a wrapped offset does
\* not lead it in front of the slot.
ReadsStayInImage == fetched \subseteq FlashOffset .. FlashOffset + MaxImage - 1

\* What an address holds according to the program headers: of the segments that
\* cover it the last one counts.
Described(a) ==
    LET over == {i \in LoadSet : Covers(i, a)}
    IN IF over = {} THEN Before(a) ELSE Byte(Max(over), a)

\* When the loader jumps, memory is what the program headers describe, and all
\* of it has left the caches that are being turned off.
ImagePlaced == pc = "jumped" => dirty = {} /\ \A a \in Addr : mem[a] = Described(a)
=============================================================================
