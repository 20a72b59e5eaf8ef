--------------------------- MODULE SpiLoaderProof ---------------------------
(***************************************************************************)
(* The second-stage loader, for every image and every size of its fields:  *)
(* its own memory stays whole, it reads the image's part of the flash      *)
(* only, and when it jumps memory is what the program headers describe.    *)
(***************************************************************************)
EXTENDS SpiLoader, TLAPS

(***************************************************************************)
(* Arithmetic.                                                             *)
(***************************************************************************)

\* A number below N is its own remainder: no wrap.
LEMMA ModSmall == ASSUME NEW N \in Nat \ {0}, NEW x \in 0 .. (N - 1)
                  PROVE  x % N = x
  OBVIOUS

\* One wrap.
LEMMA ModOver == ASSUME NEW N \in Nat \ {0}, NEW x \in N .. (2*N - 1)
                 PROVE  x % N = x - N
  OBVIOUS

\* A remainder is smaller than the divisor.
LEMMA ModRange == ASSUME NEW N \in Nat \ {0}, NEW x \in Nat
                  PROVE  x % N \in 0 .. N - 1
  OBVIOUS

\* The sizes, without products and remainders: the flash can be addressed with
\* 32 bits, the image lies in the flash, the loader in RAM.
LEMMA Sizes ==
  /\ Wrap64 \in Nat \ {0} /\ Wrap32 \in Nat \ {0} /\ FlashSize \in Nat \ {0}
  /\ MaxImage \in Nat \ {0} /\ ReadSize \in Nat \ {0} /\ CacheLineBytes \in Nat \ {0}
  /\ FlashOffset \in Nat /\ ReservedBase \in Nat /\ ReservedTop \in Nat /\ RamTop \in Nat
  /\ FlashSize <= Wrap32 /\ FlashOffset + MaxImage <= FlashSize
  /\ ReservedBase < ReservedTop /\ ReservedTop <= RamTop /\ RamTop <= Wrap64 - CacheLineBytes
  <1>1. Wrap32 \in Nat \ {0} /\ FlashSize \in Nat \ {0} /\ Wrap32 % FlashSize = 0
    BY LoaderAssumption
  <1>2. ASSUME Wrap32 < FlashSize PROVE FALSE
    <2>1. Wrap32 % FlashSize = Wrap32
      BY <1>1, <1>2, ModSmall
    <2> QED BY <1>1, <2>1
  <1>3. FlashSize <= Wrap32
    BY <1>1, <1>2
  <1> QED BY <1>3, LoaderAssumption

\* If a 64-bit sum is not below its first term, it did not wrap.
LEMMA NoWrap == ASSUME NEW a \in Addr, NEW b \in Addr, Plus64(a, b) >= a
                PROVE  a + b < Wrap64 /\ Plus64(a, b) = a + b
  <1>1. CASE a + b < Wrap64
    BY <1>1, ModSmall, Sizes DEF Addr, Plus64
  <1>2. CASE a + b >= Wrap64
    <2>1. Plus64(a, b) = a + b - Wrap64
      BY <1>2, ModOver, Sizes DEF Addr, Plus64
    <2> QED BY <2>1, Sizes DEF Addr
  <1> QED BY <1>1, <1>2, Sizes DEF Addr

(***************************************************************************)
(* What the checks of ValidateElfHeader and ValidateProgramHeaders give.   *)
(***************************************************************************)

\* The program headers lie in the image and are not empty.
LEMMA HeaderFacts ==
  ASSUME hdr \in [ident : BOOLEAN, e_phoff : Addr, e_phnum : 0 .. PhdrLimit], ValidateElfHeader
  PROVE  LET n == hdr.e_phnum * PhdrSize
         IN /\ n \in Nat \ {0}
            /\ hdr.e_phoff + n <= MaxImage
            /\ Plus32(FlashOffset, hdr.e_phoff % Wrap32) = FlashOffset + hdr.e_phoff
  <1> DEFINE n == hdr.e_phnum * PhdrSize
             e == hdr.e_phoff
  <1>1. e \in Addr /\ hdr.e_phnum \in 1 .. PhdrLimit /\ e <= MaxImage
        /\ Plus64(e, n) <= MaxImage
    BY DEF ValidateElfHeader
  <1>2. n \in Nat \ {0} /\ n <= PhdrLimit * PhdrSize
    <2>1. ASSUME NEW x \in Nat, NEW y \in Nat, NEW z \in Nat \ {0}, 1 <= x, x <= y
          PROVE  x * z \in Nat \ {0} /\ x * z <= y * z
      BY <2>1
    <2> QED BY <1>1, <2>1, LoaderAssumption
  <1>3. Plus64(e, n) = e + n
    <2> HIDE DEF n
    <2>1. e + n \in 0 .. Wrap64 - 1
      BY <1>1, <1>2, Sizes, LoaderAssumption DEF Addr
    <2> QED BY <2>1, ModSmall, Sizes DEF Plus64
  <1>4. e + n <= MaxImage
    BY <1>1, <1>3
  <1>5. e \in 0 .. Wrap32 - 1 /\ FlashOffset + e \in 0 .. Wrap32 - 1
    <2> HIDE DEF n
    <2> QED BY <1>1, <1>2, <1>4, Sizes DEF Addr
  <1>6. Plus32(FlashOffset, e % Wrap32) = FlashOffset + e
    BY <1>5, ModSmall, Sizes DEF Plus32
  <1> QED BY <1>2, <1>4, <1>6

\* A segment that was checked lies in the image, and in memory outside the
\* loader, without a wrap.
LEMMA SegmentFacts ==
  ASSUME NEW p \in ELF64_PHDR, ValidSegment(p)
  PROVE  /\ Target(p) \in Addr
         /\ p.p_memsz \in Nat /\ p.p_filesz \in Nat /\ p.p_offset \in Nat
         /\ p.p_filesz <= p.p_memsz
         /\ Target(p) + p.p_memsz < Wrap64
         /\ p.p_offset + p.p_filesz <= MaxImage
         /\ \A a \in Target(p) .. Target(p) + p.p_memsz - 1 : a \in Addr /\ a \notin Reserved
  <1>1. /\ Target(p) \in Addr
        /\ p.p_memsz \in Addr /\ p.p_filesz \in Addr /\ p.p_offset \in Addr
    BY DEF ELF64_PHDR, Target
  <1>2. p.p_filesz <= p.p_memsz
    BY <1>1, Sizes DEF ValidSegment, Addr
  <1>3. Target(p) + p.p_memsz < Wrap64 /\ Plus64(Target(p), p.p_memsz) = Target(p) + p.p_memsz
    BY <1>1, NoWrap DEF ValidSegment
  <1>4. p.p_offset + p.p_filesz <= MaxImage
    BY <1>1, NoWrap DEF ValidSegment
  <1>5. Plus64(ReservedBase, ReservedTop - ReservedBase) = ReservedTop
    BY ModSmall, Sizes DEF Plus64
  <1>6. ASSUME NEW a \in Target(p) .. Target(p) + p.p_memsz - 1
        PROVE  a \in Addr /\ a \notin Reserved
    <2>1. p.p_memsz # 0 /\ ReservedTop - ReservedBase # 0
      BY <1>1, <1>6, Sizes DEF Addr
    <2>2. Target(p) + p.p_memsz <= ReservedBase \/ ReservedTop <= Target(p)
      BY <2>1, <1>3, <1>5 DEF ValidSegment, RangeOverlaps
    <2> QED BY <1>1, <1>3, <2>2, Sizes DEF Addr, Reserved
  <1> QED BY <1>1, <1>2, <1>3, <1>4, <1>6, Sizes DEF Addr

\* The flash offset of a byte of a segment, computed in 32 and 24 bits.
LEMMA OffsetFacts ==
  ASSUME NEW p \in ELF64_PHDR, ValidSegment(p), NEW d \in Nat, NEW k \in Nat,
         d + k < p.p_filesz
  PROVE  /\ (Plus32(Plus32(FlashOffset, p.p_offset % Wrap32), d) + k) % FlashSize
              = FlashOffset + p.p_offset + d + k
         /\ FlashOffset + p.p_offset + d + k \in FlashOffset .. FlashOffset + MaxImage - 1
         /\ FlashOffset + p.p_offset + d + k \in 0 .. FlashSize - 1
  <1>1. p.p_offset \in Nat /\ p.p_filesz \in Nat /\ p.p_offset + p.p_filesz <= MaxImage
    BY SegmentFacts
  <1>2. /\ p.p_offset \in 0 .. Wrap32 - 1
        /\ FlashOffset + p.p_offset \in 0 .. Wrap32 - 1
        /\ FlashOffset + p.p_offset + d \in 0 .. Wrap32 - 1
        /\ FlashOffset + p.p_offset + d + k \in 0 .. FlashSize - 1
        /\ FlashOffset + p.p_offset + d + k \in FlashOffset .. FlashOffset + MaxImage - 1
    BY <1>1, Sizes
  <1>3. Plus32(Plus32(FlashOffset, p.p_offset % Wrap32), d) = FlashOffset + p.p_offset + d
    BY <1>2, ModSmall, Sizes DEF Plus32
  <1> QED BY <1>2, <1>3, ModSmall, Sizes

\* The lines cleaned for a range in RAM hold the whole range.
LEMMA LinesCover ==
  ASSUME NEW a \in Nat, NEW n \in Nat, n > 0, a + n <= RamTop
  PROVE  a .. a + n - 1 \subseteq Lines(a, n)
  <1>1. a + (n + CacheLineBytes - 1) \in 0 .. Wrap64 - 1
    BY Sizes
  <1>2. Plus64(a, n + CacheLineBytes - 1) = a + n + CacheLineBytes - 1
    <2>1. Plus64(a, n + CacheLineBytes - 1) = a + (n + CacheLineBytes - 1)
      BY <1>1, ModSmall, Sizes DEF Plus64
    <2> QED BY <2>1, Sizes
  <1>3. ASSUME NEW x \in Nat PROVE AlignDown(x) \in Int /\ AlignDown(x) <= x
                                   /\ x <= AlignDown(x) + CacheLineBytes - 1
    <2>1. PICK r \in 0 .. CacheLineBytes - 1 : r = x % CacheLineBytes
      BY <1>3, ModRange, Sizes
    <2>2. AlignDown(x) = x - r
      BY <2>1 DEF AlignDown
    <2> QED BY <1>3, <2>1, <2>2, Sizes
  <1>4. AlignDown(a) <= a /\ AlignDown(a) \in Int
    BY <1>3
  <1>5. /\ AlignDown(a + n + CacheLineBytes - 1) \in Int
        /\ a + n <= AlignDown(a + n + CacheLineBytes - 1)
    <2>1. a + n + CacheLineBytes - 1 \in Nat
      BY Sizes
    <2> QED BY <2>1, <1>3, Sizes
  <1>6. Lines(a, n) = AlignDown(a) .. AlignDown(a + n + CacheLineBytes - 1) - 1
    BY <1>2 DEF Lines
  <1> QED BY <1>4, <1>5, <1>6, Sizes

\* The largest element of a set, where there is one.
LEMMA MaxIs == ASSUME NEW S \in SUBSET Int, NEW m \in S, \A i \in S : i <= m
               PROVE  Max(S) = m
  <1>1. \E x \in S : \A y \in S : x >= y
    OBVIOUS
  <1>2. Max(S) \in S /\ \A y \in S : Max(S) >= y
    BY <1>1 DEF Max
  <1>3. Max(S) \in Int /\ m \in Int /\ Max(S) >= m /\ Max(S) <= m
    BY <1>2
  <1> HIDE DEF Max
  <1> QED BY <1>3
-----------------------------------------------------------------------------
(***************************************************************************)
(* The inductive invariant: LoaderInv with ReadsStayInImage.  Which of     *)
(* the segments that cover an address counts is part of it (HoldsLast), so *)
(* that the last step of the proof needs no induction over the headers.    *)
(***************************************************************************)
IInv == LoaderInv /\ ReadsStayInImage

\* The segment being placed was checked.
LEMMA Current ==
  ASSUME LoaderTypeOK, pc \in {"segment", "read", "zero", "jumped"},
         NEW i \in 1 .. hdr.e_phnum, phdr[i].load
  PROVE  /\ phdr[i] \in ELF64_PHDR /\ ValidSegment(phdr[i])
         /\ i \in LoadSet
  BY InputAssumption DEF LoaderTypeOK, ValidateProgramHeaders, LoadSet

THEOREM InitIInv == Init => IInv
  <1> SUFFICES ASSUME Init PROVE IInv
    OBVIOUS
  <1>1. PICK n \in 0 .. PhdrLimit, o \in Phoffs, b \in BOOLEAN :
          /\ hdr = [ident |-> b, e_phoff |-> o, e_phnum |-> n]
          /\ phdr \in [1 .. n -> Phdrs]
    BY DEF Init
  <1>2. hdr.e_phnum = n /\ hdr \in [ident : BOOLEAN, e_phoff : Addr, e_phnum : 0 .. PhdrLimit]
    BY <1>1, InputAssumption
  <1>3. mem \in [Addr -> (0 .. FlashSize - 1) \cup {Ram, Loader, Zero}]
        /\ \A a \in Addr : mem[a] = Before(a)
    BY DEF Init, Before
  <1>4. pc = "start" /\ index = 1 /\ dirty = {} /\ fetched = {}
    BY DEF Init
  <1>5. LoaderTypeOK
    BY <1>1, <1>2, <1>3, <1>4 DEF LoaderTypeOK
  <1>6. LoaderIntact
    BY <1>3, Sizes DEF LoaderIntact, Before, Reserved, Addr
  <1>7. PlacedSoFar
    <2>1. Stored = 0 /\ \A a \in Addr : ~InPlace(a)
      BY <1>4 DEF Stored, InPlace
    <2>2. \A a \in Addr : Earlier(a) = {}
      BY <1>1, <1>2, <1>4 DEF Earlier, LoadSet
    <2> QED BY <2>1, <2>2, <1>3, <1>4 DEF PlacedSoFar, HoldsLast
  <1>8. ReadsStayInImage
    BY <1>4 DEF ReadsStayInImage
  <1> QED BY <1>5, <1>6, <1>7, <1>8 DEF IInv, LoaderInv

\* A step that leaves memory and the headers alone, places nothing of a segment
\* and does not move on keeps what was placed.
LEMMA NothingPlaced ==
  ASSUME IInv, UNCHANGED <<hdr, phdr, mem, dirty>>, Stored = 0, Stored' = 0,
         pc \notin {"panic", "fault"},
         \A a \in Addr : Earlier(a)' = Earlier(a)
  PROVE  LoaderIntact' /\ PlacedSoFar'
  <1>1. \A a \in Addr : ~InPlace(a) /\ ~InPlace(a)'
    BY DEF InPlace
  <1>2. dirty = {} /\ \A a \in Addr : HoldsLast(Earlier(a), a)
    BY <1>1 DEF IInv, LoaderInv, PlacedSoFar, LoaderTypeOK
  <1>3. ASSUME NEW a \in Addr PROVE HoldsLast(Earlier(a), a)'
    BY <1>2 DEF HoldsLast, Byte, Target, Before
  <1>4. PlacedSoFar'
    BY <1>1, <1>2, <1>3 DEF PlacedSoFar
  <1>5. LoaderIntact'
    BY DEF IInv, LoaderInv, LoaderIntact
  <1> QED BY <1>4, <1>5

\* The smaller of two numbers.
LEMMA MinTwo == ASSUME NEW x \in Int, NEW y \in Int
                PROVE  Min({x, y}) = IF x <= y THEN x ELSE y
  <1> DEFINE S == {x, y}
  <1>1. \E z \in S : \A w \in S : z <= w
    OBVIOUS
  <1>2. Min(S) \in S /\ \A w \in S : Min(S) <= w
    BY <1>1 DEF Min
  <1>3. Min(S) \in {x, y} /\ Min(S) <= x /\ Min(S) <= y
    BY <1>2
  <1> HIDE DEF Min, S
  <1>4. Min(S) = IF x <= y THEN x ELSE y
    BY <1>3
  <1> QED BY <1>4 DEF S

\* A step that puts the next n bytes of the current segment in place, in RAM,
\* keeps the invariant's account of memory.
LEMMA Extends ==
  ASSUME IInv, pc = "read", UNCHANGED <<hdr, phdr, index>>,
         NEW n \in Nat,
         pc' \in {"read", "zero"}, Stored' = done + n,
         done + n <= phdr[index].p_memsz,
         n = 0 \/ Target(phdr[index]) + done + n <= RamTop,
         mem' = [a \in Addr |->
                  IF a \in Target(phdr[index]) + done .. Target(phdr[index]) + done + n - 1
                  THEN Byte(index, a) ELSE mem[a]],
         dirty' = dirty \cup (Target(phdr[index]) + done .. Target(phdr[index]) + done + n - 1)
  PROVE  LoaderIntact' /\ PlacedSoFar' /\ dirty' \subseteq Addr
  <1> DEFINE p == phdr[index]
             T == Target(p)
             New(a) == a \in T + done .. T + done + n - 1
  <1>1. /\ index \in 1 .. hdr.e_phnum /\ p.load /\ done \in 0 .. p.p_filesz
        /\ p \in ELF64_PHDR /\ ValidSegment(p)
    BY Current, InputAssumption DEF IInv, LoaderInv, LoaderTypeOK
  <1>2. /\ T \in Nat /\ p.p_memsz \in Nat /\ p.p_filesz \in Nat /\ done \in Nat
        /\ T + p.p_memsz < Wrap64
        /\ \A a \in T .. T + p.p_memsz - 1 : a \in Addr /\ a \notin Reserved
    BY <1>1, SegmentFacts DEF Addr
  <1>3. Stored = done
    BY DEF Stored
  <1>4. \A a : New(a) => a \in T .. T + p.p_memsz - 1
    BY <1>2
  <1>5. /\ \A a : InPlace(a) <=> a \in T .. T + done - 1
        /\ \A a : InPlace(a)' <=> a \in T .. T + (done + n) - 1
    BY <1>2, <1>3 DEF InPlace, Target
  <1>6. \A a : InPlace(a)' <=> (InPlace(a) \/ New(a))
    BY <1>2, <1>5
  <1>7. \A a : Byte(index, a)' = Byte(index, a)
    BY DEF Byte, Target
  <1>8. ASSUME NEW a \in Addr
        PROVE  IF InPlace(a)' THEN mem'[a] = Byte(index, a)' ELSE HoldsLast(Earlier(a), a)'
    <2>0. IF InPlace(a) THEN mem[a] = Byte(index, a) ELSE HoldsLast(Earlier(a), a)
      BY DEF IInv, LoaderInv, PlacedSoFar
    <2>1. mem'[a] = IF New(a) THEN Byte(index, a) ELSE mem[a]
      OBVIOUS
    <2>2. CASE InPlace(a)'
      BY <2>0, <2>1, <2>2, <1>6, <1>7
    <2>3. CASE ~InPlace(a)'
      <3>1. mem'[a] = mem[a] /\ HoldsLast(Earlier(a), a)
        BY <2>0, <2>1, <2>3, <1>6
      <3>2. Earlier(a)' = Earlier(a)
        BY DEF Earlier, LoadSet, Covers, Target
      <3> QED BY <2>3, <3>1, <3>2 DEF HoldsLast, Byte, Target, Before
    <2> QED BY <2>2, <2>3
  <1>9. \A a \in dirty' : InPlace(a)'
    BY <1>6 DEF IInv, LoaderInv, PlacedSoFar
  <1>10. Stored' > 0 => T' + Stored' <= RamTop
    <2>1. Stored > 0 => T + Stored <= RamTop
      BY DEF IInv, LoaderInv, PlacedSoFar
    <2>2. T' = T /\ T \in Nat
      BY <1>2 DEF Target
    <2> HIDE DEF T
    <2>3. n = 0 \/ T + done + n <= RamTop
      BY DEF T
    <2> QED BY <1>2, <1>3, <2>1, <2>2, <2>3, Sizes
  <1>11. PlacedSoFar'
    BY <1>8, <1>9, <1>10 DEF PlacedSoFar
  <1>12. LoaderIntact'
    <2>0. \A a \in Reserved : a \in Addr
      BY Sizes DEF Reserved, Addr
    <2>1. \A a \in Reserved : a \in Addr /\ ~New(a)
      <3> HIDE DEF New
      <3> QED BY <2>0, <1>2, <1>4
    <2> QED BY <2>1 DEF LoaderIntact, IInv, LoaderInv
  <1>13. dirty' \subseteq Addr
    BY <1>2, <1>4 DEF IInv, LoaderInv, LoaderTypeOK
  <1> QED BY <1>11, <1>12, <1>13
-----------------------------------------------------------------------------
(***************************************************************************)
(* The invariant, action by action.                                        *)
(***************************************************************************)

\* Before the segments are placed.
LEMMA HeaderSteps ==
  ASSUME IInv, ReadHeader \/ BadHeader \/ ReadProgramHeaders \/ Validate
  PROVE  IInv'
  <1>1. pc \in {"start", "headers", "phdrs"} /\ index = 1 /\ index' = 1
    BY DEF IInv, LoaderInv, LoaderTypeOK, ReadHeader, BadHeader, ReadProgramHeaders, Validate
  <1>2. UNCHANGED <<hdr, phdr, done, mem, dirty>>
    BY DEF ReadHeader, BadHeader, ReadProgramHeaders, Validate
  <1>3. /\ pc' \in {"headers", "phdrs", "segment", "panic"}
        /\ pc' = "segment" => ValidateProgramHeaders
    BY DEF ReadHeader, BadHeader, ReadProgramHeaders, Validate, Goto
  <1>4. fetched' \subseteq FlashOffset .. FlashOffset + MaxImage - 1
        /\ fetched' \subseteq 0 .. FlashSize - 1
    <2>1. CASE UNCHANGED fetched
      BY <2>1 DEF IInv, LoaderInv, LoaderTypeOK, ReadsStayInImage
    <2>2. CASE ReadProgramHeaders /\ ~UNCHANGED fetched
      <3> DEFINE n == hdr.e_phnum * PhdrSize
                 o == Plus32(FlashOffset, hdr.e_phoff % Wrap32)
      <3>1. fetched' = fetched \cup (o .. o + n - 1) /\ ValidateElfHeader
        BY <2>2 DEF ReadProgramHeaders
      <3>2. hdr \in [ident : BOOLEAN, e_phoff : Addr, e_phnum : 0 .. PhdrLimit]
        BY DEF IInv, LoaderInv, LoaderTypeOK
      <3>3. n \in Nat \ {0} /\ hdr.e_phoff + n <= MaxImage /\ o = FlashOffset + hdr.e_phoff
            /\ hdr.e_phoff \in Nat
        BY <3>1, <3>2, HeaderFacts DEF Addr
      <3> HIDE DEF n, o
      <3>4. /\ o .. o + n - 1 \subseteq FlashOffset .. FlashOffset + MaxImage - 1
            /\ o .. o + n - 1 \subseteq 0 .. FlashSize - 1
        BY <3>3, Sizes
      <3> QED BY <3>1, <3>4 DEF IInv, LoaderInv, LoaderTypeOK, ReadsStayInImage
    <2> QED BY <2>1, <2>2 DEF ReadHeader, BadHeader, Validate
  <1>5. LoaderTypeOK'
    <2>1. ValidateProgramHeaders' <=> ValidateProgramHeaders
      BY <1>2 DEF ValidateProgramHeaders
    <2> QED BY <1>1, <1>2, <1>3, <1>4, <2>1 DEF IInv, LoaderInv, LoaderTypeOK
  <1>6. LoaderIntact' /\ PlacedSoFar'
    <2>1. Stored = 0 /\ Stored' = 0
      BY <1>1, <1>3 DEF Stored
    <2>2. \A a \in Addr : Earlier(a)' = Earlier(a)
      BY <1>1, <1>2 DEF Earlier, LoadSet, Covers, Target
    <2> QED BY <1>1, <1>2, <2>1, <2>2, NothingPlaced
  <1> QED BY <1>4, <1>5, <1>6 DEF IInv, LoaderInv, ReadsStayInImage

\* A program header that is no segment.
LEMMA SkipStep == ASSUME IInv, Skip PROVE IInv'
  <1>1. /\ pc = "segment" /\ index \in 1 .. hdr.e_phnum /\ ~phdr[index].load
        /\ index' = index + 1 /\ UNCHANGED <<pc, hdr, phdr, done, mem, dirty, fetched>>
    BY DEF Skip, IInv, LoaderInv, LoaderTypeOK
  <1>2. LoaderTypeOK'
    <2>1. ValidateProgramHeaders' <=> ValidateProgramHeaders
      BY <1>1 DEF ValidateProgramHeaders
    <2> QED BY <1>1, <2>1 DEF IInv, LoaderInv, LoaderTypeOK
  <1>3. Stored = 0 /\ Stored' = 0
    BY <1>1 DEF Stored
  <1>4. \A a \in Addr : Earlier(a)' = Earlier(a)
    <2>1. DOMAIN phdr = 1 .. hdr.e_phnum
      BY DEF IInv, LoaderInv, LoaderTypeOK
    <2>2. \A i \in LoadSet : i \in Int /\ i # index
      BY <1>1, <2>1 DEF LoadSet
    <2>3. LoadSet' = LoadSet /\ \A i, a : Covers(i, a)' <=> Covers(i, a)
      BY <1>1 DEF LoadSet, Covers, Target
    <2>4. \A i \in LoadSet : i < index' <=> i < index
      BY <1>1, <2>2
    <2> QED BY <2>3, <2>4 DEF Earlier
  <1> QED BY <1>1, <1>2, <1>3, <1>4, NothingPlaced DEF IInv, LoaderInv, ReadsStayInImage

\* The range of a segment is looked at before it is read.
LEMMA BeginStep == ASSUME IInv, BeginSegment PROVE IInv'
  <1>1. /\ pc = "segment" /\ index \in 1 .. hdr.e_phnum /\ phdr[index].load
        /\ pc' \in {"read", "panic"} /\ done' = 0
        /\ UNCHANGED <<hdr, phdr, index, mem, dirty, fetched>>
    BY DEF BeginSegment, Goto, IInv, LoaderInv, LoaderTypeOK
  <1>2. LoaderTypeOK'
    <2>1. ValidateProgramHeaders' <=> ValidateProgramHeaders
      BY <1>1 DEF ValidateProgramHeaders
    <2>2. phdr[index].p_filesz \in Nat
      BY <1>1, Current, SegmentFacts DEF IInv, LoaderInv
    <2> QED BY <1>1, <2>1, <2>2 DEF IInv, LoaderInv, LoaderTypeOK
  <1>3. Stored = 0 /\ Stored' = 0
    BY <1>1 DEF Stored
  <1>4. \A a \in Addr : Earlier(a)' = Earlier(a)
    BY <1>1 DEF Earlier, LoadSet, Covers, Target
  <1> QED BY <1>1, <1>2, <1>3, <1>4, NothingPlaced DEF IInv, LoaderInv, ReadsStayInImage

\* The loader gives up or aborts: memory stays as it is.
LEMMA StopStep ==
  ASSUME IInv, pc' \in {"panic", "fault"},
         UNCHANGED <<hdr, phdr, index, mem, dirty>>,
         fetched' \subseteq 0 .. FlashSize - 1, ReadsStayInImage'
  PROVE  IInv'
  BY DEF IInv, LoaderInv, LoaderTypeOK, LoaderIntact, PlacedSoFar

\* One transfer from the flash.
LEMMA ReadStep == ASSUME IInv, ReadChunk PROVE IInv'
  <1> DEFINE p == phdr[index]
             T == Target(p)
             n == ReadLength(p)
             o == Plus32(Plus32(FlashOffset, p.p_offset % Wrap32), done)
             R == T + done .. T + done + n - 1
             F == {(o + k) % FlashSize : k \in 0 .. n - 1}
  <1>1. /\ pc = "read" /\ index \in 1 .. hdr.e_phnum /\ p.load /\ done \in 0 .. p.p_filesz
        /\ done < p.p_filesz
        /\ UNCHANGED <<hdr, phdr, index>>
        /\ p \in ELF64_PHDR /\ ValidSegment(p)
    BY Current DEF ReadChunk, IInv, LoaderInv, LoaderTypeOK
  <1>2. /\ T \in Nat /\ p.p_memsz \in Nat /\ p.p_filesz \in Nat /\ p.p_offset \in Nat /\ done \in Nat
        /\ p.p_filesz <= p.p_memsz
    BY <1>1, SegmentFacts DEF Addr
  <1>3. n \in Nat \ {0} /\ done + n <= p.p_filesz
    BY <1>1, <1>2, MinTwo, Sizes DEF ReadLength
  <1>4. \A k \in 0 .. n - 1 : /\ (o + k) % FlashSize = FlashOffset + p.p_offset + done + k
                              /\ (o + k) % FlashSize \in FlashOffset .. FlashOffset + MaxImage - 1
                              /\ (o + k) % FlashSize \in 0 .. FlashSize - 1
    <2> HIDE DEF n, p
    <2>1. SUFFICES ASSUME NEW k \in 0 .. n - 1
                   PROVE  /\ (o + k) % FlashSize = FlashOffset + p.p_offset + done + k
                          /\ (o + k) % FlashSize \in FlashOffset .. FlashOffset + MaxImage - 1
                          /\ (o + k) % FlashSize \in 0 .. FlashSize - 1
      OBVIOUS
    <2>2. k \in Nat /\ done + k < p.p_filesz
      BY <2>1, <1>2, <1>3
    <2> HIDE DEF o
    <2>3. (o + k) % FlashSize = FlashOffset + p.p_offset + done + k
      BY <1>1, <1>2, <2>2, OffsetFacts DEF o
    <2> QED BY <1>1, <1>2, <2>2, <2>3, OffsetFacts
  <1>5. /\ F \subseteq FlashOffset .. FlashOffset + MaxImage - 1
        /\ F \subseteq 0 .. FlashSize - 1
    <2> HIDE DEF n, o
    <2> QED BY <1>4
  <1>6. /\ (fetched \cup F) \subseteq FlashOffset .. FlashOffset + MaxImage - 1
        /\ (fetched \cup F) \subseteq 0 .. FlashSize - 1
    BY <1>5 DEF IInv, LoaderInv, LoaderTypeOK, ReadsStayInImage
  <1>7. CASE /\ pc' = "read" /\ T + done + n <= RamTop
             /\ mem' = [x \in Addr |-> IF x \in R
                                       THEN [k \in 0 .. n - 1 |-> (o + k) % FlashSize][x - (T + done)]
                                       ELSE mem[x]]
             /\ dirty' = dirty \cup R
             /\ fetched' = fetched \cup F /\ done' = done + n
    <2> HIDE DEF n, o, T, p
    <2>1. ASSUME NEW x \in Addr, x \in R
          PROVE  [k \in 0 .. n - 1 |-> (o + k) % FlashSize][x - (T + done)] = Byte(index, x)
      <3>1. x - (T + done) \in 0 .. n - 1
        BY <2>1, <1>2, <1>3
      <3>2. x - T < p.p_filesz
        BY <2>1, <1>2, <1>3
      <3>3. Byte(index, x) = FlashOffset + p.p_offset + (x - T)
        BY <3>2 DEF Byte, T, p
      <3>4. FlashOffset + p.p_offset + done + (x - (T + done)) = FlashOffset + p.p_offset + (x - T)
        BY <2>1, <1>2, Sizes
      <3> QED BY <3>1, <3>3, <3>4, <1>4
    <2>2. mem' = [x \in Addr |-> IF x \in R THEN Byte(index, x) ELSE mem[x]]
      BY <2>1, <1>7
    <2>3. Stored' = done + n
      BY <1>7 DEF Stored
    <2>4. LoaderIntact' /\ PlacedSoFar' /\ dirty' \subseteq Addr
      <3>1. done + n <= p.p_memsz
        BY <1>2, <1>3
      <3> QED BY <1>1, <1>3, <1>7, <2>2, <2>3, <3>1, Extends DEF T, p
    <2>5. LoaderTypeOK'
      <3>1. ValidateProgramHeaders' <=> ValidateProgramHeaders
        BY <1>1 DEF ValidateProgramHeaders
      <3>2. mem' \in [Addr -> (0 .. FlashSize - 1) \cup {Ram, Loader, Zero}]
        <4>1. \A x \in R : [k \in 0 .. n - 1 |-> (o + k) % FlashSize][x - (T + done)]
                             \in 0 .. FlashSize - 1
          BY <1>2, <1>3, <1>4
        <4> QED BY <4>1, <1>7 DEF IInv, LoaderInv, LoaderTypeOK
      <3>3. done' \in 0 .. p.p_filesz
        BY <1>2, <1>3, <1>7
      <3> QED BY <1>1, <1>6, <1>7, <2>4, <3>1, <3>2, <3>3 DEF IInv, LoaderInv, LoaderTypeOK, p
    <2> QED BY <1>6, <1>7, <2>4, <2>5 DEF IInv, LoaderInv, ReadsStayInImage
  <1>8. CASE /\ pc' \in {"panic", "fault"} /\ UNCHANGED <<mem, dirty>>
             /\ (fetched' = fetched \/ fetched' = fetched \cup F)
    <2> HIDE DEF F
    <2>1. fetched' \subseteq 0 .. FlashSize - 1 /\ ReadsStayInImage'
      BY <1>6, <1>8 DEF IInv, LoaderInv, LoaderTypeOK, ReadsStayInImage
    <2> QED BY <1>1, <1>8, <2>1, StopStep
  <1> QED
    <2>1. \/ /\ Store(T + done, n, [k \in 0 .. n - 1 |-> (o + k) % FlashSize], "read")
             /\ fetched' = fetched \cup F
             /\ done' = done + n
          \/ pc' = "panic" /\ UNCHANGED <<mem, dirty, fetched, done>>
      BY DEF ReadChunk, Goto
    <2> HIDE DEF n, o, T, p, F
    <2> QED BY <1>3, <1>7, <1>8, <2>1 DEF Store, Goto

\* The rest of a segment is filled with zeros.
LEMMA ZeroStep == ASSUME IInv, ZeroRest PROVE IInv'
  <1> DEFINE p == phdr[index]
             T == Target(p)
             n == p.p_memsz - p.p_filesz
             R == T + p.p_filesz .. T + p.p_filesz + n - 1
  <1>1. /\ pc = "read" /\ index \in 1 .. hdr.e_phnum /\ p.load /\ done = p.p_filesz
        /\ UNCHANGED <<hdr, phdr, index, done, fetched>>
        /\ p \in ELF64_PHDR /\ ValidSegment(p)
    BY Current DEF ZeroRest, IInv, LoaderInv, LoaderTypeOK
  <1>2. /\ T \in Nat /\ p.p_memsz \in Nat /\ p.p_filesz \in Nat
        /\ p.p_filesz <= p.p_memsz
    BY <1>1, SegmentFacts DEF Addr
  <1>3. n \in Nat /\ done + n = p.p_memsz
    BY <1>1, <1>2
  <1>4. CASE /\ pc' = "zero" /\ (n = 0 \/ T + p.p_filesz + n <= RamTop)
             /\ mem' = [x \in Addr |-> IF x \in R
                                       THEN [k \in 0 .. n - 1 |-> Zero][x - (T + p.p_filesz)]
                                       ELSE mem[x]]
             /\ dirty' = dirty \cup R
    <2> HIDE DEF n, T, p
    <2>1. ASSUME NEW x \in Addr, x \in R
          PROVE  [k \in 0 .. n - 1 |-> Zero][x - (T + p.p_filesz)] = Zero /\ Byte(index, x) = Zero
      <3>1. x - (T + p.p_filesz) \in 0 .. n - 1
        BY <2>1, <1>2, <1>3
      <3>2. ~(x - T < p.p_filesz)
        BY <2>1, <1>2, <1>3
      <3>3. Byte(index, x) = Zero
        BY <3>2 DEF Byte, T, p
      <3> QED BY <3>1, <3>3
    <2>2. mem' = [x \in Addr |-> IF x \in R THEN Byte(index, x) ELSE mem[x]]
      BY <2>1, <1>4
    <2>3. Stored' = done + n
      BY <1>1, <1>3, <1>4 DEF Stored, p
    <2>4. LoaderIntact' /\ PlacedSoFar' /\ dirty' \subseteq Addr
      <3>1. done + n <= p.p_memsz
        BY <1>2, <1>3
      <3> QED BY <1>1, <1>3, <1>4, <2>2, <2>3, <3>1, Extends DEF T, p
    <2>5. LoaderTypeOK'
      <3>1. ValidateProgramHeaders' <=> ValidateProgramHeaders
        BY <1>1 DEF ValidateProgramHeaders
      <3>2. mem' \in [Addr -> (0 .. FlashSize - 1) \cup {Ram, Loader, Zero}]
        BY <2>1, <1>4 DEF IInv, LoaderInv, LoaderTypeOK
      <3>3. done' \in 0 .. p.p_filesz
        BY <1>1, <1>2
      <3> QED BY <1>1, <1>4, <2>4, <3>1, <3>2, <3>3 DEF IInv, LoaderInv, LoaderTypeOK, p
    <2> QED BY <1>1, <1>4, <2>4, <2>5 DEF IInv, LoaderInv, ReadsStayInImage
  <1>5. CASE pc' = "fault" /\ UNCHANGED <<mem, dirty>>
    BY <1>1, <1>5, StopStep DEF IInv, LoaderInv, LoaderTypeOK, ReadsStayInImage
  <1> QED
    <2>1. Store(T + p.p_filesz, n, [k \in 0 .. n - 1 |-> Zero], "zero")
      BY DEF ZeroRest
    <2> HIDE DEF n, T, p
    <2> QED BY <1>4, <1>5, <2>1 DEF Store, Goto

\* The segment leaves the caches, and is the last of those placed so far.
LEMMA EndStep == ASSUME IInv, EndSegment PROVE IInv'
  <1> DEFINE p == phdr[index]
             T == Target(p)
  <1>1. /\ pc = "zero" /\ index \in 1 .. hdr.e_phnum /\ p.load
        /\ pc' = "segment" /\ index' = index + 1
        /\ dirty' = dirty \ Lines(T, p.p_memsz)
        /\ UNCHANGED <<hdr, phdr, done, mem, fetched>>
        /\ p \in ELF64_PHDR /\ ValidSegment(p) /\ index \in LoadSet
    BY Current DEF EndSegment, Goto, IInv, LoaderInv, LoaderTypeOK
  <1>2. T \in Nat /\ p.p_memsz \in Nat /\ T + p.p_memsz < Wrap64
    BY <1>1, SegmentFacts DEF Addr
  <1>3. Stored = p.p_memsz /\ Stored' = 0
    BY <1>1 DEF Stored
  <1>4. \A a : (InPlace(a) <=> a \in T .. T + p.p_memsz - 1) /\ ~InPlace(a)'
    BY <1>2, <1>3 DEF InPlace
  <1>5. dirty' = {}
    <2>1. \A a \in dirty : p.p_memsz > 0 /\ a \in T .. T + p.p_memsz - 1 /\ T + p.p_memsz <= RamTop
      BY <1>1, <1>2, <1>3 DEF IInv, LoaderInv, PlacedSoFar, InPlace
    <2> HIDE DEF T, p
    <2>2. \A a \in dirty : a \in Lines(T, p.p_memsz)
      BY <2>1, <1>2, LinesCover
    <2> QED BY <2>2, <1>1
  <1>6. DOMAIN phdr = 1 .. hdr.e_phnum
    BY DEF IInv, LoaderInv, LoaderTypeOK
  <1>7. LoadSet' = LoadSet /\ \A i, a : (Covers(i, a)' <=> Covers(i, a)) /\ Byte(i, a)' = Byte(i, a)
    BY <1>1 DEF LoadSet, Covers, Target, Byte
  <1>8. ASSUME NEW a \in Addr PROVE HoldsLast(Earlier(a), a)'
    <2>1. IF InPlace(a) THEN mem[a] = Byte(index, a) ELSE HoldsLast(Earlier(a), a)
      BY <1>1 DEF IInv, LoaderInv, PlacedSoFar
    <2>2. \A i \in LoadSet : i \in Int /\ (i < index' <=> (i < index \/ i = index))
      BY <1>1, <1>6 DEF LoadSet
    <2>3. Covers(index, a) <=> InPlace(a)
      BY <1>4 DEF Covers
    <2>4. CASE InPlace(a)
      <3>1. Earlier(a)' = Earlier(a) \cup {index}
        BY <1>1, <1>7, <2>2, <2>3, <2>4 DEF Earlier
      <3>2. \A i \in Earlier(a) : i <= index
        BY <2>2, <1>1 DEF Earlier
      <3>3. index \in Earlier(a)' /\ (\A i \in Earlier(a)' : i <= index) /\ index \in Int
        BY <3>1, <3>2, <1>1
      <3>4. mem'[a] = Byte(index, a)
        BY <1>1, <2>1, <2>4
      <3>5. \E m \in Earlier(a)' : (\A i \in Earlier(a)' : i <= m) /\ mem'[a] = Byte(m, a)'
        BY <3>3, <3>4, <1>7
      <3> QED BY <3>3, <3>5 DEF HoldsLast
    <2>5. CASE ~InPlace(a)
      <3>1. Earlier(a)' = Earlier(a)
        BY <1>7, <2>2, <2>3, <2>5 DEF Earlier
      <3>2. HoldsLast(Earlier(a), a)
        BY <2>1, <2>5
      <3> QED BY <1>1, <1>7, <3>1, <3>2 DEF HoldsLast, Before
    <2> QED BY <2>4, <2>5
  <1>9. PlacedSoFar'
    BY <1>3, <1>4, <1>5, <1>8 DEF PlacedSoFar
  <1>10. LoaderTypeOK'
    <2>1. ValidateProgramHeaders' <=> ValidateProgramHeaders
      BY <1>1 DEF ValidateProgramHeaders
    <2> QED BY <1>1, <1>5, <2>1 DEF IInv, LoaderInv, LoaderTypeOK
  <1> QED BY <1>1, <1>9, <1>10 DEF IInv, LoaderInv, LoaderIntact, ReadsStayInImage

\* The jump: nothing was left in the caches.
LEMMA JumpStep == ASSUME IInv, Jump PROVE IInv'
  <1>1. /\ pc = "segment" /\ index = hdr.e_phnum + 1 /\ pc' = "jumped"
        /\ UNCHANGED <<hdr, phdr, index, done, mem, fetched>>
    BY DEF Jump, Goto
  <1>2. Stored = 0 /\ Stored' = 0
    BY <1>1 DEF Stored
  <1>3. dirty = {} /\ dirty' = {}
    BY <1>1, <1>2 DEF IInv, LoaderInv, PlacedSoFar, InPlace, Jump
  <1>4. LoaderTypeOK'
    <2>1. ValidateProgramHeaders' <=> ValidateProgramHeaders
      BY <1>1 DEF ValidateProgramHeaders
    <2> QED BY <1>1, <1>3, <2>1 DEF IInv, LoaderInv, LoaderTypeOK
  <1>5. \A a \in Addr : Earlier(a)' = Earlier(a)
    BY <1>1 DEF Earlier, LoadSet, Covers, Target
  <1> QED BY <1>1, <1>2, <1>3, <1>4, <1>5, NothingPlaced DEF IInv, LoaderInv, ReadsStayInImage

THEOREM NextIInv == IInv /\ [Next]_vars => IInv'
  <1> SUFFICES ASSUME IInv, [Next]_vars PROVE IInv'
    OBVIOUS
  <1>1. CASE UNCHANGED vars
    <2>1. /\ ValidateProgramHeaders' <=> ValidateProgramHeaders
          /\ LoaderTypeOK'
      BY <1>1 DEF vars, IInv, LoaderInv, LoaderTypeOK, ValidateProgramHeaders
    <2>2. PlacedSoFar' /\ LoaderIntact' /\ ReadsStayInImage'
      BY <1>1 DEF vars, IInv, LoaderInv, PlacedSoFar, LoaderIntact, ReadsStayInImage,
                  Stored, InPlace, Earlier, LoadSet, Covers, Target, HoldsLast, Byte, Before
    <2> QED BY <2>1, <2>2 DEF IInv, LoaderInv
  <1> QED BY <1>1, HeaderSteps, SkipStep, BeginStep, ReadStep, ZeroStep, EndStep, JumpStep DEF Next
-----------------------------------------------------------------------------
\* For every image, every step of SpiLoader: the types, the loader's own memory
\* (LoadSegment never writes into the range ValidateProgramHeaders keeps free),
\* and memory made of the segments placed so far.
THEOREM LoaderSafe == Spec => []LoaderInv
  <1>1. IInv => LoaderInv
    BY DEF IInv
  <1> QED BY <1>1, InitIInv, NextIInv, PTL DEF Spec

\* For every image, SpiFlashRead is asked only for the image's part of the flash.
THEOREM ReadsInImage == Spec => []ReadsStayInImage
  <1>1. IInv => ReadsStayInImage
    BY DEF IInv
  <1> QED BY <1>1, InitIInv, NextIInv, PTL DEF Spec

\* For every image, when SpiloaderJumpToImage gives control away, memory is what
\* the program headers describe and nothing of it is left in the caches.
THEOREM ImageIsPlaced == Spec => []ImagePlaced
  <1>1. ASSUME IInv PROVE ImagePlaced
    <2> SUFFICES ASSUME pc = "jumped" PROVE dirty = {} /\ \A a \in Addr : mem[a] = Described(a)
      BY DEF ImagePlaced
    <2>1. Stored = 0 /\ \A a : ~InPlace(a)
      BY DEF Stored, InPlace
    <2>2. dirty = {}
      BY <1>1, <2>1 DEF IInv, LoaderInv, PlacedSoFar
    <2>3. DOMAIN phdr = 1 .. hdr.e_phnum /\ index = hdr.e_phnum + 1 /\ hdr.e_phnum \in Nat
      BY <1>1 DEF IInv, LoaderInv, LoaderTypeOK
    <2>4. ASSUME NEW a \in Addr PROVE mem[a] = Described(a)
      <3> DEFINE over == {i \in LoadSet : Covers(i, a)}
      <3>1. Earlier(a) = over /\ over \in SUBSET Int
        BY <2>3 DEF Earlier, LoadSet
      <3>2. HoldsLast(over, a)
        BY <1>1, <2>1, <3>1 DEF IInv, LoaderInv, PlacedSoFar
      <3>3. CASE over = {}
        BY <3>2, <3>3 DEF HoldsLast, Described
      <3>4. CASE over # {}
        <4>1. PICK m \in over : (\A i \in over : i <= m) /\ mem[a] = Byte(m, a)
          BY <3>2, <3>4 DEF HoldsLast
        <4>2. Max(over) = m
          BY <3>1, <4>1, MaxIs
        <4> QED BY <3>4, <4>1, <4>2 DEF Described
      <3> QED BY <3>3, <3>4
    <2> QED BY <2>2, <2>4
  <1> QED BY <1>1, InitIInv, NextIInv, PTL DEF Spec
=============================================================================
