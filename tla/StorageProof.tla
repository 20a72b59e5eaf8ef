---------------------------- MODULE StorageProof ----------------------------
(***************************************************************************)
(* What the firmware keeps on its storage, for every geometry, every       *)
(* content and any number of runs. FlashApp: only the sectors of the       *)
(* images given change, and success is reported only when the flash holds  *)
(* the image. BoardInfoDxe: the walk over the board area stays inside it   *)
(* and says what its last usable entries say. FormatBlockApp: the          *)
(* partition table it writes is whole and the FAT it lays out fits and is  *)
(* of one kind.                                                            *)
(***************************************************************************)
EXTENDS FlashUpdate, BoardInfo, FormatBlock, SequenceTheorems, NaturalsInduction,
        WellFoundedInduction, TLAPS

(***************************************************************************)
(* FlashApp, with Spec the specification of module FlashUpdate.            *)
(***************************************************************************)

(***************************************************************************)
(* Arithmetic.                                                             *)
(***************************************************************************)

\* Quotient and remainder.
LEMMA DivMod == ASSUME NEW N \in Nat \ {0}, NEW x \in Nat
                PROVE  /\ x \div N \in Nat /\ x % N \in 0 .. N - 1
                       /\ x = N * (x \div N) + (x % N)
  <1> DEFINE q == x \div N
             r == x % N
  <1>1. q \in Nat
    OBVIOUS
  <1>2. r \in 0 .. N - 1
    OBVIOUS
  <1>3. r = x - N * q
    OBVIOUS
  <1> HIDE DEF q, r
  <1>4. N * q \in Nat
    BY <1>1
  <1>5. x = N * q + r
    BY <1>2, <1>3, <1>4
  <1>6. x = N * (x \div N) + (x % N)
    BY <1>5 DEF q, r
  <1>7. x \div N \in Nat
    BY <1>1 DEF q
  <1>8. x % N \in 0 .. N - 1
    BY <1>2 DEF r
  <1> QED BY <1>6, <1>7, <1>8, Zenon

\* There is only one remainder.
LEMMA ModUnique == ASSUME NEW N \in Nat \ {0}, NEW q \in Nat, NEW t \in 0 .. N - 1
                   PROVE  (N * q + t) % N = t
  <1> DEFINE x == N * q + t
  <1>1. x \in Nat
    OBVIOUS
  <1> DEFINE d == x \div N
             r == x % N
  <1>2. d \in Nat /\ r \in 0 .. N - 1 /\ x = N * d + r
    BY <1>1, DivMod
  <1>3. N * q + t = N * d + r
    BY <1>2
  <1> HIDE DEF d, r, x
  <1>4. N * (q - d) = r - t
    BY <1>2, <1>3
  <1>5. q - d \in Int
    BY <1>2
  <1>6. ASSUME NEW k \in Int, k >= 1 PROVE N * k >= N
    BY <1>6
  <1>7. ASSUME NEW k \in Int, k <= -1 PROVE N * k <= -N
    BY <1>7
  <1>8. q - d = 0
    BY <1>2, <1>4, <1>5, <1>6, <1>7
  <1>9. r = t
    BY <1>4, <1>8, <1>2
  <1> QED BY <1>9 DEF r, x

\* The remainder of a sum, the first term reduced or not, and reduced twice.
LEMMA ModSum == ASSUME NEW N \in Nat \ {0}, NEW x \in Nat, NEW j \in Nat
                PROVE  ((x % N) + j) % N = (x + j) % N
  <1> DEFINE d == x \div N
             r == x % N
  <1>1. d \in Nat /\ r \in 0 .. N - 1 /\ x = N * d + r
    BY DivMod
  <1> DEFINE e == (r + j) \div N
             t == (r + j) % N
  <1>2. r + j \in Nat
    BY <1>1
  <1>3. e \in Nat /\ t \in 0 .. N - 1 /\ r + j = N * e + t
    BY <1>2, DivMod
  <1> HIDE DEF d, r, e, t
  <1>4. x + j = N * (d + e) + t /\ d + e \in Nat
    BY <1>1, <1>3
  <1>5. (x + j) % N = t
    BY <1>3, <1>4, ModUnique
  <1> QED BY <1>5 DEF t, r

\* A multiple below another one leaves room for a whole unit.
LEMMA MultipleRoom == ASSUME NEW N \in Nat \ {0}, NEW a \in Nat, NEW b \in Nat,
                             a % N = 0, b % N = 0, a < b
                      PROVE  a + N <= b
  <1> DEFINE d == a \div N
             e == b \div N
  <1>1. d \in Nat /\ e \in Nat /\ a = N * d /\ b = N * e
    BY DivMod
  <1> HIDE DEF d, e
  <1>2. d < e
    <2>1. SUFFICES ASSUME d >= e PROVE FALSE
      BY <1>1
    <2>2. N * d >= N * e
      BY <1>1, <2>1
    <2> QED BY <1>1, <2>2
  <1>3. e = d + 1 + (e - d - 1) /\ e - d - 1 \in Nat
    BY <1>1, <1>2
  <1>4. N * e = N * d + N + N * (e - d - 1)
    BY <1>1, <1>3
  <1>5. N * (e - d - 1) \in Nat
    BY <1>3
  <1> QED BY <1>1, <1>4, <1>5

\* A multiple is not changed by a modulus that is one.
LEMMA MultipleMod == ASSUME NEW N \in Nat \ {0}, NEW F \in Nat \ {0}, NEW a \in Nat,
                            a % N = 0, F % N = 0
                     PROVE  (a % F) % N = 0
  <1> DEFINE d == a \div N
             e == F \div N
             q == a \div F
             r == a % F
  <1>1. d \in Nat /\ e \in Nat /\ a = N * d /\ F = N * e
    BY DivMod
  <1>2. q \in Nat /\ r \in 0 .. F - 1 /\ a = F * q + r
    BY DivMod
  <1> HIDE DEF d, e, q, r
  <1>3. r = N * (d - e * q)
    <2>1. N * d = (N * e) * q + r
      BY <1>1, <1>2
    <2>2. (N * e) * q = N * (e * q) /\ e * q \in Nat
      BY <1>1, <1>2
    <2> QED BY <1>1, <1>2, <2>1, <2>2
  <1>4. d - e * q \in Nat
    <2>1. e * q \in Nat /\ d - e * q \in Int
      BY <1>1, <1>2
    <2>2. ASSUME NEW k \in Int, k <= -1 PROVE N * k <= -N
      BY <2>2
    <2>3. N * (d - e * q) >= 0
      BY <1>2, <1>3
    <2> DEFINE k == d - e * q
    <2>4. k \in Int /\ N * k >= 0
      BY <2>1, <2>3
    <2> HIDE DEF k
    <2>5. k \in Nat
      BY <2>2, <2>4
    <2> QED BY <2>5 DEF k
  <1>5. (N * (d - e * q) + 0) % N = 0
    BY <1>4, ModUnique
  <1>6. r % N = 0
    BY <1>3, <1>4, <1>5
  <1> QED BY <1>6 DEF r
-----------------------------------------------------------------------------
(***************************************************************************)
(* Addresses.                                                              *)
(***************************************************************************)

\* The sizes, without remainders.
LEMMA Sizes == /\ SectorPages \in Nat \ {0} /\ FlashPages \in Nat \ {0} /\ Wrap \in Nat \ {0}
               /\ FlashPages % SectorPages = 0
  BY NorAssumption

\* An address on the wire, of an address in the driver or of a number.
LEMMA SentFacts == ASSUME NEW x \in Nat
                   PROVE  /\ x % Wrap \in 0 .. Wrap - 1
                          /\ Sent(x) \in FlashAddr
                          /\ Sent(x % Wrap) = Sent(x)
  <1>1. x % Wrap \in 0 .. Wrap - 1 /\ Sent(x) \in FlashAddr
    BY Sizes, DivMod DEF Sent, FlashAddr
  <1> DEFINE m == Wrap \div FlashPages
             q == x \div Wrap
             r == x % Wrap
             d == r \div FlashPages
             t == r % FlashPages
  <1>2. m \in Nat /\ Wrap = FlashPages * m
    BY NorAssumption, DivMod
  <1>3. q \in Nat /\ r \in Nat /\ x = Wrap * q + r
    BY Sizes, DivMod
  <1>4. d \in Nat /\ t \in 0 .. FlashPages - 1 /\ r = FlashPages * d + t
    BY Sizes, <1>3, DivMod
  <1> HIDE DEF m, q, r, d, t
  <1>5. x = FlashPages * (m * q + d) + t /\ m * q + d \in Nat
    <2>1. Wrap * q = FlashPages * (m * q) /\ m * q \in Nat
      BY <1>2, <1>3, Sizes
    <2> DEFINE a == m * q
    <2>2. Wrap * q = FlashPages * a /\ a \in Nat
      BY <2>1
    <2> HIDE DEF a
    <2>3. FlashPages * (a + d) = FlashPages * a + FlashPages * d
      BY <1>4, <2>2, Sizes
    <2>4. FlashPages * a \in Nat /\ FlashPages * d \in Nat
      BY <1>4, <2>2, Sizes
    <2>5. x = FlashPages * (a + d) + t /\ a + d \in Nat
      BY <1>3, <1>4, <2>2, <2>3, <2>4
    <2> QED BY <2>5 DEF a
  <1>6. x % FlashPages = t
    BY <1>4, <1>5, ModUnique, Sizes
  <1> QED BY <1>1, <1>6 DEF Sent, t, r

\* The pages of a whole sector are next to each other on the wire.
LEMMA SectorFacts ==
  ASSUME NEW x \in Nat, x % SectorPages = 0
  PROVE  /\ Sent(x) + SectorPages <= FlashPages
         /\ \A j \in 0 .. SectorPages - 1 : Sent(x) + j = Sent(x + j)
  <1>1. Sent(x) \in FlashAddr
    BY SentFacts
  <1>2. Sent(x) % SectorPages = 0
    BY MultipleMod, Sizes DEF Sent
  <1>3. Sent(x) + SectorPages <= FlashPages
    BY <1>1, <1>2, MultipleRoom, Sizes DEF FlashAddr
  <1>4. ASSUME NEW j \in 0 .. SectorPages - 1 PROVE Sent(x) + j = Sent(x + j)
    <2>0. j \in Nat
      BY Sizes
    <2>1. ((x % FlashPages) + j) % FlashPages = (x + j) % FlashPages
      <3>1. FlashPages \in Nat \ {0} /\ x \in Nat
        BY Sizes
      <3> QED BY ONLY <2>0, <3>1, ModSum, Zenon
    <2>2. Sent(x) + j \in 0 .. FlashPages - 1
      BY <1>1, <1>3, Sizes DEF FlashAddr
    <2>3. (FlashPages * 0 + (Sent(x) + j)) % FlashPages = Sent(x) + j
      BY <2>2, ModUnique, Sizes
    <2>4. FlashPages * 0 + (Sent(x) + j) = Sent(x) + j
      BY <2>2, Sizes
    <2> QED BY <2>1, <2>3, <2>4 DEF Sent
  <1> QED BY <1>3, <1>4

\* The number of sectors of an image.
LEMMA SectorsFacts == ASSUME NEW n \in Nat
                      PROVE  /\ Sectors(n) \in Nat /\ Sectors(n) <= n
                             /\ n <= Sectors(n) * SectorPages
                             /\ n > 0 => Sectors(n) > 0
  <1> DEFINE x == n + SectorPages - 1
             s == x \div SectorPages
             r == x % SectorPages
  <1>1. x \in Nat
    BY Sizes
  <1>2. s \in Nat /\ r \in 0 .. SectorPages - 1 /\ x = SectorPages * s + r
    BY <1>1, Sizes, DivMod
  <1>3. s = Sectors(n)
    BY DEF Sectors
  <1> HIDE DEF s, r
  <1>4. SectorPages * s = s * SectorPages /\ SectorPages * s \in Nat
    BY <1>2, Sizes
  <1>5. n <= SectorPages * s
    BY <1>2, <1>4, Sizes
  <1>6. s <= n
    <2>1. SUFFICES ASSUME s >= n + 1 PROVE FALSE
      BY <1>2
    <2>2. SectorPages * s >= SectorPages * (n + 1)
      BY <1>2, <2>1, Sizes
    <2>3. SectorPages * (n + 1) = SectorPages * n + SectorPages
      BY Sizes
    <2>4. SectorPages * n >= n
      BY Sizes
    <2>5. SectorPages * n \in Nat
      BY Sizes
    <2> QED BY <1>2, <1>4, <2>2, <2>3, <2>4, <2>5, Sizes
  <1>7. n > 0 => s > 0
    <2>1. s = 0 => SectorPages * s = 0
      BY Sizes
    <2> QED BY <1>2, <1>5, <2>1
  <1> QED BY <1>2, <1>3, <1>4, <1>5, <1>6, <1>7

\* A multiple and some units more.
LEMMA AlignedPlus == ASSUME NEW N \in Nat \ {0}, NEW o \in Nat, o % N = 0, NEW i \in Nat
                     PROVE  (o + i * N) % N = 0
  <1> DEFINE d == o \div N
  <1>1. d \in Nat /\ o = N * d
    BY DivMod
  <1> HIDE DEF d
  <1>2. o + i * N = N * (d + i) + 0 /\ d + i \in Nat
    BY <1>1
  <1> DEFINE e == d + i
  <1>3. e \in Nat /\ 0 \in 0 .. N - 1 /\ o + i * N = N * e + 0
    BY <1>2
  <1> HIDE DEF e
  <1>4. (N * e + 0) % N = 0
    BY <1>3, ModUnique
  <1> QED BY <1>3, <1>4, Zenon

\* The pages of a sector of the image, as the chip erases them.
LEMMA EraseSpan ==
  ASSUME NEW o \in Nat, o % SectorPages = 0, NEW n \in Nat, NEW i \in Nat, i < Sectors(n),
         NEW op, op = [kind |-> "erase", at |-> Sent((o + i * SectorPages) % Wrap)]
  PROVE  /\ op.at \in FlashAddr
         /\ Span(op) \subseteq FlashAddr /\ Span(op) \subseteq Extent(o, n)
  <1> DEFINE x == o + i * SectorPages
  <1>1. i * SectorPages \in Nat /\ x \in Nat
    BY Sizes
  <1>2. x % SectorPages = 0
    BY AlignedPlus, Sizes
  <1>3. i * SectorPages + SectorPages <= Sectors(n) * SectorPages
    <2>1. Sectors(n) \in Nat /\ i + 1 <= Sectors(n)
      BY SectorsFacts
    <2>2. ASSUME NEW a \in Nat, NEW b \in Nat, a + 1 <= b, NEW z \in Nat
          PROVE  a * z + z <= b * z
      <3>1. (a + 1) * z <= b * z
        BY <2>2
      <3> QED BY <3>1
    <2> QED BY <2>1, <2>2, Sizes
  <1>4. Sectors(n) * SectorPages \in Nat
    BY SectorsFacts, Sizes
  <1> HIDE DEF x
  <1>5. op.at = Sent(x) /\ Sent(x) \in FlashAddr
    BY <1>1, SentFacts DEF x
  <1>6. Span(op) = Sent(x) .. Sent(x) + SectorPages - 1
    BY <1>5 DEF Span
  <1>7. ASSUME NEW p \in Span(op) PROVE p \in FlashAddr /\ p \in Extent(o, n)
    <2>0. Sent(x) \in Nat /\ p \in Sent(x) .. Sent(x) + SectorPages - 1
      BY <1>5, <1>6, <1>7, Sizes DEF FlashAddr
    <2>1. PICK j \in 0 .. SectorPages - 1 : p = Sent(x) + j
      <3>1. p - Sent(x) \in 0 .. SectorPages - 1 /\ p = Sent(x) + (p - Sent(x))
        BY <2>0, Sizes
      <3> QED BY <3>1
    <2>2. p = Sent(x + j)
      BY <2>1, <1>1, <1>2, SectorFacts
    <2> DEFINE y == i * SectorPages
    <2>3. y \in Nat /\ x = o + y /\ y + SectorPages <= Sectors(n) * SectorPages
      BY <1>1, <1>3 DEF x
    <2>4. Sectors(n) * SectorPages \in Nat
      BY <1>4
    <2> HIDE DEF y
    <2>5. y + j \in 0 .. Sectors(n) * SectorPages - 1 /\ x + j = o + (y + j)
      BY <2>3, <2>4, Sizes
    <2>6. p = Sent(o + (y + j))
      BY <2>2, <2>5
    <2>7. p \in Extent(o, n)
      BY <2>5, <2>6 DEF Extent
    <2>8. x + j \in Nat
      BY <1>1, Sizes
    <2> QED BY <2>2, <2>7, <2>8, SentFacts
  <1> QED BY <1>5, <1>7

\* A page of the image.
LEMMA PageInExtent == ASSUME NEW o \in Nat, NEW n \in Nat, NEW k \in 0 .. n - 1
                      PROVE  Sent(o + k) \in Extent(o, n) /\ Sent(o + k) \in FlashAddr
  <1>1. Sectors(n) * SectorPages \in Nat /\ n <= Sectors(n) * SectorPages
    BY SectorsFacts, Sizes
  <1> DEFINE m == Sectors(n) * SectorPages
  <1> HIDE DEF m
  <1>2. k \in 0 .. m - 1
    BY <1>1 DEF m
  <1> QED BY <1>2, SentFacts DEF Extent, m
-----------------------------------------------------------------------------
(***************************************************************************)
(* FlashInv is inductive.                                                  *)
(***************************************************************************)

\* The image and the chunk.
LEMMA ChunkFacts ==
  ASSUME FlashTypeOK
  PROVE  /\ img \in Seq(Contents) /\ Len(img) \in Nat /\ idx \in Nat /\ idx <= Len(img)
         /\ off \in Nat
         /\ Chunk \in Nat /\ idx + Chunk <= Len(img)
         /\ idx < Len(img) => Chunk > 0
         /\ idx = Len(img) => Chunk = 0 /\ ChunkPages = {}
  <1>1. img \in Seq(Contents)
    BY UpdateAssumption, EmptySeq DEF FlashTypeOK
  <1>2. Len(img) \in Nat /\ idx \in Nat /\ idx <= Len(img) /\ off \in Nat
    BY <1>1, LenProperties, Sizes DEF FlashTypeOK
  <1>3. /\ Chunk \in Nat /\ idx + Chunk <= Len(img)
        /\ idx < Len(img) => Chunk > 0
        /\ idx = Len(img) => Chunk = 0
    BY <1>2, Sizes DEF Chunk
  <1> HIDE DEF Chunk
  <1>4. idx = Len(img) => ChunkPages = {}
    BY <1>3 DEF ChunkPages
  <1> QED BY <1>1, <1>2, <1>3, <1>4

\* The command that goes out is one of the current step of FlashApp.
LEMMA OpFacts ==
  ASSUME FlashInv, step # "ready", left > 0
  PROVE  /\ Op \in [kind : {"erase"}, at : FlashAddr]
                   \cup [kind : {"program"}, at : FlashAddr, data : Contents]
         /\ Span(Op) \subseteq FlashAddr /\ Span(Op) \subseteq touched
         /\ phase = "write" => Op.kind = "program" /\ Op.at \in ChunkPages
  <1>1. /\ phase \in {"erase", "write"} /\ left \in Nat
        /\ off \in Nat /\ off % SectorPages = 0 /\ Extent(off, Len(img)) \subseteq touched
        /\ Len(img) \in Nat /\ idx \in Nat
    BY ChunkFacts DEF FlashInv, FlashTypeOK, NorTypeOK, CallMatches
  <1>2. CASE phase = "erase"
    <2>1. /\ call.kind = "erase" /\ left = 1 /\ idx < Sectors(Len(img))
          /\ addr = (off + idx * SectorPages) % Wrap
      BY <1>1, <1>2 DEF FlashInv, CallMatches
    <2>2. Op = [kind |-> "erase", at |-> Sent((off + idx * SectorPages) % Wrap)]
      BY <2>1 DEF Op
    <2> HIDE DEF Op
    <2>3. /\ Op.at \in FlashAddr
          /\ Span(Op) \subseteq FlashAddr /\ Span(Op) \subseteq Extent(off, Len(img))
      BY <1>1, <2>1, <2>2, EraseSpan
    <2>4. Op \in [kind : {"erase"}, at : FlashAddr]
      BY <2>2, <2>3
    <2> QED BY <1>1, <1>2, <2>3, <2>4
  <1>3. CASE phase = "write"
    <2>1. /\ call = [kind |-> "program", data |-> SubSeq(img, idx + 1, idx + Chunk)]
          /\ left <= Chunk /\ idx < Len(img)
          /\ addr = (off + idx + (Chunk - left)) % Wrap
      BY <1>3 DEF FlashInv, CallMatches
    <2>2. Chunk \in Nat /\ idx + Chunk <= Len(img) /\ img \in Seq(Contents)
      BY ChunkFacts DEF FlashInv
    <2> DEFINE k == Chunk - left
               s == SubSeq(img, idx + 1, idx + Chunk)
    <2> HIDE DEF Chunk
    <2>3. k \in 0 .. Chunk - 1 /\ idx + k \in 0 .. Len(img) - 1 /\ k \in Nat
      BY <1>1, <2>1, <2>2
    <2>4. s \in Seq(Contents) /\ Len(s) = Chunk
      <3>1. Len(s) = (IF idx + 1 <= idx + Chunk THEN idx + Chunk - (idx + 1) + 1 ELSE 0)
        BY <1>1, <2>2, SubSeqProperties
      <3>2. s \in Seq(Contents)
        BY <1>1, <2>2, SubSeqProperties
      <3> HIDE DEF s
      <3> QED BY <1>1, <2>2, <3>1, <3>2
    <2>5. s[Chunk - left + 1] \in Contents
      <3>1. Chunk - left + 1 \in 1 .. Len(s)
        BY <1>1, <2>1, <2>2, <2>4
      <3> HIDE DEF s
      <3> QED BY <2>4, <3>1, ElementOfSeq
    <2> DEFINE x == off + idx + k
    <2>6. x \in Nat /\ Sent(addr) = Sent(x) /\ x = off + (idx + k)
      <3>1. x \in Nat /\ addr = x % Wrap /\ x = off + (idx + k)
        BY <1>1, <2>1, <2>3
      <3> HIDE DEF x
      <3> QED BY <3>1, SentFacts
    <2>7. Op = [kind |-> "program", at |-> Sent(x), data |-> s[Chunk - left + 1]]
      BY <2>1, <2>4, <2>6 DEF Op
    <2> HIDE DEF Op, s
    <2>8. Sent(x) \in Extent(off, Len(img)) /\ Sent(x) \in FlashAddr
      BY <1>1, <2>3, <2>6, PageInExtent
    <2>9. Sent(x) \in ChunkPages
      BY <2>3 DEF ChunkPages
    <2> HIDE DEF x
    <2>10. Op \in [kind : {"program"}, at : FlashAddr, data : Contents]
      BY <2>5, <2>7, <2>8
    <2>11. Span(Op) = {Sent(x)}
      BY <2>7 DEF Span
    <2> QED BY <1>1, <2>7, <2>8, <2>9, <2>10, <2>11
  <1> QED BY <1>1, <1>2, <1>3

\* What depends on FlashApp's variables alone, and on memory.
LEMMA AppFrame ==
  ASSUME FlashInv, UNCHANGED appVars
  PROVE  /\ Chunk' = Chunk /\ ChunkPages' = ChunkPages /\ (Reports' <=> Reports)
         /\ UNCHANGED mem => OthersUntouched' /\ Compared'
  <1>1. Chunk' = Chunk /\ (Reports' <=> Reports)
    BY DEF appVars, Chunk, Reports
  <1> HIDE DEF Chunk
  <1>2. ChunkPages' = ChunkPages
    BY <1>1 DEF appVars, ChunkPages
  <1>3. UNCHANGED mem => OthersUntouched' /\ Compared'
    BY <1>1, <1>2 DEF FlashInv, appVars, OthersUntouched, Compared
  <1> QED BY <1>1, <1>2, <1>3

\* FlashWriteEnable.
LEMMA WriteEnableStep == ASSUME FlashInv, WriteEnable \/ WelSet, UNCHANGED appVars PROVE FlashInv'
  <1>1. OthersUntouched' /\ Compared' /\ Chunk' = Chunk /\ ChunkPages' = ChunkPages
        /\ (Reports' <=> Reports)
    BY AppFrame DEF WriteEnable, WelSet, chipVars
  <1>2. wel' \in BOOLEAN
    BY DEF WriteEnable, WelSet, chipVars, FlashInv, FlashTypeOK, NorTypeOK
  <1>3. /\ step \in {"wren", "wel"} /\ step' \in {"wel", "cmd"} /\ left > 0
        /\ UNCHANGED <<mem, busy, guarded, ignored, call, addr, left, ret>>
    BY DEF WriteEnable, WelSet, chipVars, FlashInv, CallMatches
  <1>4. FlashTypeOK'
    BY <1>2, <1>3 DEF FlashInv, FlashTypeOK, NorTypeOK, appVars, Span
  <1>5. CallMatches'
    BY <1>1, <1>3 DEF FlashInv, CallMatches, appVars
  <1>6. ChipMatches'
    BY <1>1, <1>3 DEF FlashInv, ChipMatches, appVars, Span
  <1> QED BY <1>1, <1>4, <1>5, <1>6 DEF FlashInv

\* The command goes out, whether the chip takes it or not.
LEMMA SendStep == ASSUME FlashInv, SendCommand, UNCHANGED appVars PROVE FlashInv'
  <1>1. OthersUntouched' /\ Compared' /\ Chunk' = Chunk /\ ChunkPages' = ChunkPages
        /\ (Reports' <=> Reports)
    BY AppFrame DEF SendCommand
  <1>2. ignored' \in BOOLEAN
    BY DEF SendCommand
  <1>3. /\ step = "cmd" /\ step' = "wip" /\ left > 0 /\ left \in Nat
        /\ (busy' = busy \/ busy' = Op)
        /\ UNCHANGED <<mem, wel, guarded, call, addr, left, ret>>
    BY DEF SendCommand, FlashInv, CallMatches, FlashTypeOK, NorTypeOK
  <1>4. /\ Op \in [kind : {"erase"}, at : FlashAddr]
                   \cup [kind : {"program"}, at : FlashAddr, data : Contents]
        /\ Span(Op) \subseteq FlashAddr /\ Span(Op) \subseteq touched
        /\ phase = "write" => Op.kind = "program" /\ Op.at \in ChunkPages
    BY <1>3, OpFacts
  <1> HIDE DEF Op
  <1>5. FlashTypeOK'
    BY <1>2, <1>3, <1>4 DEF FlashInv, FlashTypeOK, NorTypeOK, appVars, Span
  <1>6. CallMatches'
    BY <1>1, <1>3 DEF FlashInv, CallMatches, appVars
  <1>7. ChipMatches'
    <2>1. phase \in {"erase", "write"} /\ ~Reports
      BY <1>3 DEF FlashInv, CallMatches, Reports
    <2> QED BY <1>1, <1>3, <1>4, <2>1 DEF FlashInv, ChipMatches, appVars, Span
  <1> QED BY <1>1, <1>5, <1>6, <1>7 DEF FlashInv

\* FlashWaitReady sees the chip ready.
LEMMA ReadyStep == ASSUME FlashInv, Ready, UNCHANGED appVars PROVE FlashInv'
  <1>1. OthersUntouched' /\ Compared' /\ Chunk' = Chunk /\ ChunkPages' = ChunkPages
        /\ (Reports' <=> Reports)
    BY AppFrame DEF Ready, chipVars
  <1>2. /\ step = "wip" /\ step' = "wren" /\ left > 0 /\ left \in Nat /\ busy = NoOp
        /\ left' = left - 1 /\ addr' = (addr + Unit) % Wrap
        /\ UNCHANGED <<mem, wel, busy, guarded, ignored, call, ret>>
    BY DEF Ready, chipVars, FlashInv, CallMatches, FlashTypeOK, NorTypeOK
  <1>3. addr \in Nat /\ Unit \in Nat /\ addr' \in 0 .. Wrap - 1
    <2>1. addr \in Nat /\ Unit \in Nat
      BY Sizes DEF FlashInv, FlashTypeOK, NorTypeOK, Unit
    <2>2. addr + Unit \in Nat
      BY <2>1
    <2> QED BY <1>2, <2>1, <2>2, SentFacts
  <1>4. FlashTypeOK'
    BY <1>2, <1>3 DEF FlashInv, FlashTypeOK, NorTypeOK, appVars, Span
  <1>5. CallMatches'
    <2>1. CASE phase = "write"
      <3>1. /\ call = [kind |-> "program", data |-> SubSeq(img, idx + 1, idx + Chunk)]
            /\ left <= Chunk /\ idx < Len(img)
            /\ addr = (off + idx + (Chunk - left)) % Wrap
        BY <1>2, <2>1 DEF FlashInv, CallMatches
      <3>2. Unit = 1
        BY <3>1 DEF Unit
      <3>3. Chunk \in Nat /\ off \in Nat /\ idx \in Nat
        BY ChunkFacts DEF FlashInv
      <3> DEFINE x == off + idx + (Chunk - left)
      <3>4. x \in Nat /\ addr = x % Wrap /\ x + 1 = off + idx + (Chunk - left')
        <4> HIDE DEF Chunk
        <4> QED BY <1>2, <3>1, <3>3
      <3> HIDE DEF x
      <3>5. ((x % Wrap) + 1) % Wrap = (x + 1) % Wrap
        <4>1. Wrap \in Nat \ {0} /\ 1 \in Nat
          BY Sizes
        <4>2. x \in Nat
          BY <3>4
        <4> QED BY ONLY <4>1, <4>2, ModSum, Zenon
      <3>6. addr' = (off + idx + (Chunk - left')) % Wrap
        BY <1>2, <3>2, <3>4, <3>5
      <3>7. left' <= Chunk
        <4> HIDE DEF Chunk
        <4> QED BY <1>2, <3>1, <3>3
      <3> HIDE DEF Chunk
      <3> QED BY <1>1, <1>2, <2>1, <3>1, <3>6, <3>7 DEF FlashInv, CallMatches, appVars
    <2>2. CASE phase # "write"
      <3>1. phase = "erase" /\ left = 1 /\ left' = 0
        BY <1>2, <2>2 DEF FlashInv, CallMatches
      <3> QED BY <1>1, <1>2, <3>1 DEF FlashInv, CallMatches, appVars
    <2> QED BY <2>1, <2>2
  <1>6. ChipMatches'
    BY <1>1, <1>2 DEF FlashInv, ChipMatches, appVars, Span
  <1> QED BY <1>1, <1>4, <1>5, <1>6 DEF FlashInv

\* The call returns, with a result or an error.
LEMMA ReturnStep ==
  ASSUME FlashInv, WelNotSet \/ CallDone \/ WaitTimesOut, UNCHANGED appVars
  PROVE  FlashInv'
  <1>1. OthersUntouched' /\ Compared' /\ Chunk' = Chunk /\ ChunkPages' = ChunkPages
        /\ (Reports' <=> Reports)
    BY AppFrame DEF WelNotSet, CallDone, WaitTimesOut, chipVars
  <1>2. /\ step # "ready" /\ step' = "ready"
        /\ ret' \in {"DEVICE_ERROR", "TIMEOUT", "SUCCESS"}
        /\ ret' = "SUCCESS" => step = "wren" /\ left = 0
        /\ UNCHANGED <<mem, wel, busy, guarded, ignored, addr, left>>
    BY DEF WelNotSet, CallDone, WaitTimesOut, Return, chipVars
  <1>3. FlashTypeOK'
    BY <1>2 DEF FlashInv, FlashTypeOK, NorTypeOK, appVars, Span
  <1>4. CallMatches'
    BY <1>1, <1>2 DEF FlashInv, CallMatches, appVars
  <1>5. ChipMatches'
    BY <1>1, <1>2 DEF FlashInv, ChipMatches, appVars, Span
  <1> QED BY <1>1, <1>3, <1>4, <1>5 DEF FlashInv

\* A transfer fails, after the command reached the chip or before.
LEMMA HalStep == ASSUME FlashInv, HalFails, UNCHANGED appVars PROVE FlashInv'
  <1>1. OthersUntouched' /\ Compared' /\ Chunk' = Chunk /\ ChunkPages' = ChunkPages
        /\ (Reports' <=> Reports)
    BY AppFrame DEF HalFails
  <1>2. wel' \in BOOLEAN
    BY DEF HalFails, FlashInv, FlashTypeOK, NorTypeOK
  <1>3. /\ step # "ready" /\ step' = "ready" /\ left > 0 /\ ret' = "DEVICE_ERROR"
        /\ (busy' = busy \/ busy' = Op)
        /\ UNCHANGED <<mem, guarded, ignored, addr, left>>
    BY DEF HalFails, Return
  <1>4. /\ Op \in [kind : {"erase"}, at : FlashAddr]
                   \cup [kind : {"program"}, at : FlashAddr, data : Contents]
        /\ Span(Op) \subseteq FlashAddr /\ Span(Op) \subseteq touched
        /\ phase = "write" => Op.kind = "program" /\ Op.at \in ChunkPages
    BY <1>3, OpFacts
  <1> HIDE DEF Op
  <1>5. FlashTypeOK'
    BY <1>2, <1>3, <1>4 DEF FlashInv, FlashTypeOK, NorTypeOK, appVars, Span
  <1>6. CallMatches'
    BY <1>1, <1>3 DEF FlashInv, CallMatches, appVars
  <1>7. ChipMatches'
    <2>1. phase \in {"erase", "write"} /\ ~Reports
      BY <1>3 DEF FlashInv, CallMatches, Reports
    <2> QED BY <1>1, <1>3, <1>4, <2>1 DEF FlashInv, ChipMatches, appVars, Span
  <1> QED BY <1>1, <1>5, <1>6, <1>7 DEF FlashInv

\* The chip comes to the end of what it was told.
LEMMA ChipStep == ASSUME FlashInv, ChipDone, UNCHANGED appVars PROVE FlashInv'
  <1>1. Chunk' = Chunk /\ ChunkPages' = ChunkPages /\ (Reports' <=> Reports)
    BY AppFrame
  <1>2. /\ busy # NoOp /\ busy' = NoOp
        /\ mem' = [p \in FlashAddr |-> IF p \in Span(busy) THEN Result(busy, p) ELSE mem[p]]
        /\ UNCHANGED <<guarded, ignored, step, call, addr, left, ret>>
    BY DEF ChipDone, callVars
  <1>3. wel' \in BOOLEAN
    BY DEF ChipDone
  <1>4. /\ busy \in [kind : {"erase"}, at : FlashAddr]
                    \cup [kind : {"program"}, at : FlashAddr, data : Contents]
        /\ Span(busy) \subseteq FlashAddr /\ Span(busy) \subseteq touched
        /\ mem \in [FlashAddr -> Contents \cup {Blank, Mixed}]
    BY <1>2 DEF FlashInv, FlashTypeOK, NorTypeOK, ChipMatches
  <1>5. \A p \in FlashAddr : Result(busy, p) \in Contents \cup {Blank, Mixed}
    <2> SUFFICES ASSUME NEW p \in FlashAddr
                 PROVE  Result(busy, p) \in Contents \cup {Blank, Mixed}
      OBVIOUS
    <2>1. CASE busy.kind = "erase"
      BY <2>1 DEF Result
    <2>2. CASE busy.kind # "erase"
      <3>1. busy.data \in Contents
        BY <1>4, <2>2
      <3>2. Result(busy, p) = IF mem[p] \in {Blank, busy.data} THEN busy.data ELSE Mixed
        BY <2>2 DEF Result
      <3> QED BY <3>1, <3>2
    <2> QED BY <2>1, <2>2
  <1>6. FlashTypeOK'
    BY <1>2, <1>3, <1>4, <1>5 DEF FlashInv, FlashTypeOK, NorTypeOK, appVars
  <1>7. OthersUntouched'
    BY <1>2, <1>4 DEF FlashInv, OthersUntouched, appVars
  <1>8. CallMatches'
    BY <1>1, <1>2 DEF FlashInv, CallMatches, appVars
  <1>9. ChipMatches'
    BY <1>1, <1>2 DEF FlashInv, ChipMatches, appVars
  <1>10. Compared'
    <2> SUFFICES ASSUME phase \in {"write", "verify"} \/ Reports, NEW k \in 1 .. idx,
                        NEW p, p = Sent(off + k - 1)
                 PROVE  mem'[p] = img[k] \/ (mem'[p] = Mixed /\ p \in ChunkPages)
      BY <1>1 DEF Compared, appVars
    <2>1. /\ img \in Seq(Contents) /\ Len(img) \in Nat /\ idx \in Nat /\ idx <= Len(img)
          /\ off \in Nat
      BY ChunkFacts DEF FlashInv
    <2>2. Len(img) > 0 /\ k \in 1 .. Len(img) /\ off + k - 1 \in Nat
      BY <2>1
    <2>3. p \in FlashAddr /\ img[k] \in Contents
      BY <2>1, <2>2, SentFacts, ElementOfSeq
    <2>4. mem[p] = img[k] \/ (mem[p] = Mixed /\ p \in ChunkPages)
      BY DEF FlashInv, Compared
    <2>5. busy.kind = "program" /\ busy.at \in ChunkPages
      BY <1>2, <2>2 DEF FlashInv, ChipMatches
    <2>6. busy.data \in Contents /\ Span(busy) = {busy.at}
      BY <1>4, <2>5 DEF Span
    <2>7. CASE p \notin Span(busy)
      BY <1>2, <2>3, <2>4, <2>7
    <2>8. CASE p \in Span(busy)
      <3>1. p \in ChunkPages /\ mem'[p] = Result(busy, p)
        BY <1>2, <2>3, <2>5, <2>6, <2>8
      <3>2. Blank \notin Contents /\ Mixed \notin Contents /\ Blank # Mixed
        BY NorAssumption DEF Blank, Mixed
      <3>3. Result(busy, p) = IF mem[p] \in {Blank, busy.data} THEN busy.data ELSE Mixed
        BY <2>5 DEF Result
      <3> QED BY <2>3, <2>4, <2>6, <3>1, <3>2, <3>3
    <2> QED BY <2>7, <2>8
  <1> QED BY <1>6, <1>7, <1>8, <1>9, <1>10 DEF FlashInv

\* Power is lost, whatever the chip was at.
LEMMA PowerCutStep == ASSUME FlashInv, PowerCut PROVE FlashInv'
  <1>1. /\ phase' = "off" /\ busy' = NoOp /\ step' = "ready" /\ addr' = 0 /\ left' = 0
        /\ ret' = "none" /\ Status' = "none"
        /\ mem' = [p \in FlashAddr |-> IF busy # NoOp /\ p \in Span(busy) THEN Mixed ELSE mem[p]]
        /\ UNCHANGED <<guarded, off, img, idx, updates, touched>>
    BY DEF PowerCut, PowerLost
  <1>2. wel' \in BOOLEAN /\ ignored' \in BOOLEAN
    BY DEF PowerCut, PowerLost
  <1>3. FlashTypeOK'
    BY <1>1, <1>2, Sizes DEF FlashInv, FlashTypeOK, NorTypeOK
  <1>4. OthersUntouched'
    BY <1>1 DEF FlashInv, OthersUntouched, ChipMatches
  <1>5. CallMatches'
    BY <1>1 DEF CallMatches
  <1>6. ChipMatches' /\ Compared'
    BY <1>1 DEF ChipMatches, Compared, Reports
  <1> QED BY <1>3, <1>4, <1>5, <1>6 DEF FlashInv

\* The firmware starts again.
LEMMA PowerOnStep == ASSUME FlashInv, PowerOn PROVE FlashInv'
  <1>1. /\ phase = "off" /\ phase' = "idle" /\ guarded' \in BOOLEAN
        /\ UNCHANGED <<mem, wel, busy, ignored, step, call, addr, left, ret>>
        /\ UNCHANGED <<off, img, idx, Status, touched>>
    BY DEF PowerOn, ClearProtection, callVars, FlashInv, FlashTypeOK, NorTypeOK
  <1>2. FlashTypeOK' /\ OthersUntouched' /\ CallMatches'
    BY <1>1 DEF FlashInv, FlashTypeOK, NorTypeOK, OthersUntouched, CallMatches, Span
  <1>3. ChipMatches' /\ Compared'
    <2>1. ~Reports' /\ phase' \notin {"erase", "write", "verify"}
      BY <1>1 DEF Reports, FlashInv, CallMatches
    <2> QED BY <1>1, <2>1 DEF FlashInv, ChipMatches, Compared, Span
  <1> QED BY <1>2, <1>3 DEF FlashInv
-----------------------------------------------------------------------------
(***************************************************************************)
(* The steps of FlashApp.                                                  *)
(***************************************************************************)

\* A run of FlashApp begins, whatever an earlier one left in the driver.
LEMMA StartStep ==
  ASSUME FlashInv, NEW o \in 0 .. Wrap - 1, o % SectorPages = 0, NEW i \in Images, Start(o, i)
  PROVE  FlashInv'
  <1>1. /\ phase = "idle" /\ phase' = "erase" /\ off' = o /\ img' = i /\ idx' = 0
        /\ Status' = "none" /\ ret' = "none" /\ touched' = touched \cup Extent(o, Len(i))
        /\ step = "ready"
        /\ UNCHANGED <<mem, wel, busy, guarded, ignored, step, call, addr, left>>
    BY DEF Start, chipVars, FlashInv, CallMatches
  <1>2. i \in Seq(Contents) /\ Len(i) \in Nat /\ o \in Nat
    BY UpdateAssumption, LenProperties, Sizes
  <1>3. Sectors(Len(i)) \in Nat
    BY <1>2, SectorsFacts
  <1>4. Extent(o, Len(i)) \subseteq FlashAddr
    <2>1. ASSUME NEW k \in 0 .. Sectors(Len(i)) * SectorPages - 1 PROVE Sent(o + k) \in FlashAddr
      <3>1. Sectors(Len(i)) * SectorPages \in Nat
        BY <1>3, Sizes
      <3> DEFINE m == Sectors(Len(i)) * SectorPages
      <3>2. m \in Nat /\ k \in 0 .. m - 1
        BY <3>1
      <3> HIDE DEF m
      <3>3. o + k \in Nat
        BY <1>2, <3>2
      <3> QED BY <3>3, SentFacts
    <2> QED BY <2>1 DEF Extent
  <1>5. FlashTypeOK'
    BY <1>1, <1>2, <1>4 DEF FlashInv, FlashTypeOK, NorTypeOK, Span
  <1>6. OthersUntouched'
    BY <1>1 DEF FlashInv, OthersUntouched
  <1>7. CallMatches'
    BY <1>1, <1>3 DEF FlashInv, CallMatches, Extent
  <1>8. ChipMatches' /\ Compared'
    BY <1>1 DEF FlashInv, ChipMatches, Compared, Reports, Span
  <1> QED BY <1>5, <1>6, <1>7, <1>8 DEF FlashInv

\* Erase or WriteData is called.
LEMMA CallStep == ASSUME FlashInv, EraseSector \/ WriteChunk PROVE FlashInv'
  <1>1. /\ UNCHANGED <<phase, off, img, idx, Status, updates, cuts, touched>>
        /\ step = "ready" /\ step' = "wren" /\ ret = "none" /\ ret' = "none"
        /\ UNCHANGED <<mem, wel, busy, guarded, ignored>>
    BY DEF EraseSector, WriteChunk, CallsDriver, chipVars, appVars
  <1>2. Chunk' = Chunk /\ ChunkPages' = ChunkPages /\ OthersUntouched' /\ Compared'
        /\ (Reports' <=> Reports)
    BY <1>1, AppFrame DEF appVars
  <1>3. /\ Len(img) \in Nat /\ idx \in Nat /\ off \in Nat /\ Chunk \in Nat
        /\ idx < Len(img) => Chunk > 0
    BY ChunkFacts DEF FlashInv
  <1> HIDE DEF Chunk
  <1>4. CASE EraseSector
    <2>1. /\ phase = "erase" /\ idx < Sectors(Len(img)) /\ call' = [kind |-> "erase"] /\ left' = 1
          /\ addr' = (off + idx * SectorPages) % Wrap
      BY <1>4 DEF EraseSector, CallsDriver
    <2>2. addr' \in 0 .. Wrap - 1
      <3>1. off + idx * SectorPages \in Nat
        BY <1>3, Sizes
      <3> QED BY <2>1, <3>1, SentFacts
    <2>3. FlashTypeOK'
      BY <1>1, <2>1, <2>2 DEF FlashInv, FlashTypeOK, NorTypeOK, Span
    <2>4. CallMatches'
      BY <1>1, <1>2, <2>1 DEF FlashInv, CallMatches, Extent
    <2>5. ChipMatches'
      BY <1>1, <1>2, <2>1 DEF FlashInv, ChipMatches, Span, Reports
    <2> QED BY <1>2, <2>3, <2>4, <2>5 DEF FlashInv
  <1>5. CASE WriteChunk
    <2>1. /\ phase = "write" /\ idx < Len(img) /\ left' = Chunk
          /\ call' = [kind |-> "program", data |-> SubSeq(img, idx + 1, idx + Chunk)]
          /\ addr' = (off + idx) % Wrap
      BY <1>5 DEF WriteChunk, CallsDriver
    <2>2. addr' \in 0 .. Wrap - 1 /\ off + idx + (Chunk - left') = off + idx
      <3>1. off + idx \in Nat
        BY <1>3
      <3>2. addr' \in 0 .. Wrap - 1
        BY <2>1, <3>1, SentFacts
      <3> QED BY <1>3, <2>1, <3>2
    <2>3. FlashTypeOK'
      BY <1>1, <1>3, <2>1, <2>2 DEF FlashInv, FlashTypeOK, NorTypeOK, Span
    <2>4. CallMatches'
      <3>1. left' <= Chunk' /\ addr' = (off' + idx' + (Chunk' - left')) % Wrap
        BY <1>1, <1>2, <1>3, <2>1, <2>2
      <3> QED BY <1>1, <1>2, <2>1, <3>1 DEF FlashInv, CallMatches, Extent
    <2>5. ChipMatches'
      BY <1>1, <1>2, <2>1 DEF FlashInv, ChipMatches, Span, Reports
    <2> QED BY <1>2, <2>3, <2>4, <2>5 DEF FlashInv
  <1> QED BY <1>4, <1>5

\* The run ends with an error: what it has touched stays accounted for.
LEMMA GivesUp ==
  ASSUME FlashInv, NEW s \in {"DEVICE_ERROR", "TIMEOUT", "OUT_OF_RESOURCES", "INVALID_PARAMETER"},
         Fail(s), step = "ready", UNCHANGED norVars
  PROVE  FlashInv'
  <1>1. /\ phase' = "idle" /\ Status' = s
        /\ UNCHANGED <<off, img, idx, touched>>
        /\ UNCHANGED <<mem, wel, busy, guarded, ignored, step, call, addr, left, ret>>
    BY DEF Fail, norVars, chipVars, callVars
  <1>2. FlashTypeOK' /\ OthersUntouched' /\ CallMatches'
    BY <1>1 DEF FlashInv, FlashTypeOK, NorTypeOK, OthersUntouched, CallMatches, Span
  <1>3. ~Reports'
    BY <1>1 DEF Reports
  <1>4. ChipMatches' /\ Compared'
    BY <1>1, <1>3 DEF FlashInv, ChipMatches, Compared, Span
  <1> QED BY <1>2, <1>4 DEF FlashInv

\* A sector was erased.
LEMMA EraseDoneStep == ASSUME FlashInv, EraseDone PROVE FlashInv'
  <1>1. /\ phase = "erase" /\ ret = "SUCCESS" /\ ret' = "none" /\ idx' = idx + 1 /\ step = "ready"
        /\ idx < Sectors(Len(img)) /\ busy = NoOp
        /\ UNCHANGED <<mem, wel, busy, guarded, ignored, step, call, addr, left>>
        /\ UNCHANGED <<phase, off, img, Status, touched>>
    BY DEF EraseDone, chipVars, FlashInv, CallMatches, ChipMatches
  <1>2. /\ Len(img) \in Nat /\ idx \in Nat /\ Sectors(Len(img)) \in Nat
        /\ Sectors(Len(img)) <= Len(img)
    BY ChunkFacts, SectorsFacts DEF FlashInv
  <1>3. FlashTypeOK'
    BY <1>1, <1>2 DEF FlashInv, FlashTypeOK, NorTypeOK, Span
  <1>4. OthersUntouched' /\ Compared' /\ ChipMatches'
    BY <1>1 DEF FlashInv, OthersUntouched, Compared, ChipMatches, Reports
  <1>5. CallMatches'
    BY <1>1, <1>2 DEF FlashInv, CallMatches, Extent, Sectors
  <1> QED BY <1>3, <1>4, <1>5 DEF FlashInv

\* All sectors are erased, and the chip has nothing left to do.
LEMMA EraseAllStep == ASSUME FlashInv, EraseAll PROVE FlashInv'
  <1>1. phase = "erase" /\ step = "ready" /\ ret = "none" /\ idx = Sectors(Len(img))
        /\ UNCHANGED norVars
    BY DEF EraseAll
  <1>2. CASE Fail("OUT_OF_RESOURCES")
    BY <1>1, <1>2, GivesUp
  <1>3. CASE phase' = "write" /\ idx' = 0 /\ UNCHANGED <<off, img, Status, updates, cuts, touched>>
    <2>1. /\ UNCHANGED <<mem, wel, busy, guarded, ignored, step, call, addr, left, ret>>
          /\ phase' = "write" /\ idx' = 0 /\ UNCHANGED <<off, img, Status, touched>>
      BY <1>1, <1>3 DEF norVars, chipVars, callVars
    <2>2. Len(img) \in Nat /\ (Len(img) > 0 => idx > 0)
      BY <1>1, ChunkFacts, SectorsFacts DEF FlashInv
    <2>3. Len(img) > 0 => busy = NoOp
      BY <1>1, <2>2 DEF FlashInv, ChipMatches
    <2>4. FlashTypeOK' /\ OthersUntouched'
      BY <2>1, <2>2 DEF FlashInv, FlashTypeOK, NorTypeOK, OthersUntouched, Span
    <2>5. CallMatches'
      BY <1>1, <2>1 DEF FlashInv, CallMatches, Extent, Sectors
    <2>6. ChipMatches' /\ Compared'
      BY <2>1, <2>3 DEF FlashInv, ChipMatches, Compared, Span, Reports
    <2> QED BY <2>4, <2>5, <2>6 DEF FlashInv
  <1> QED BY <1>2, <1>3 DEF EraseAll

\* A chunk was written; it is read back next.
LEMMA WriteDoneStep == ASSUME FlashInv, WriteDone PROVE FlashInv'
  <1>1. /\ phase = "write" /\ ret = "SUCCESS" /\ phase' = "verify" /\ ret' = "none"
        /\ step = "ready" /\ idx < Len(img)
        /\ UNCHANGED <<mem, wel, busy, guarded, ignored, step, call, addr, left>>
        /\ UNCHANGED <<off, img, idx, Status, touched>>
    BY DEF WriteDone, chipVars, FlashInv, CallMatches
  <1>2. ChunkPages' = ChunkPages
    BY <1>1 DEF ChunkPages, Chunk
  <1>3. FlashTypeOK' /\ OthersUntouched' /\ CallMatches'
    BY <1>1 DEF FlashInv, FlashTypeOK, NorTypeOK, OthersUntouched, CallMatches, Span, Extent
  <1>4. ChipMatches' /\ Compared'
    BY <1>1, <1>2 DEF FlashInv, ChipMatches, Compared, Span, Reports
  <1> QED BY <1>3, <1>4 DEF FlashInv

\* What was written is compared.
LEMMA VerifyStep == ASSUME FlashInv, Verify PROVE FlashInv'
  <1>1. phase = "verify" /\ step = "ready" /\ ret = "none" /\ idx < Len(img) /\ UNCHANGED norVars
    BY DEF Verify, FlashInv, CallMatches
  <1>2. CASE Fail("DEVICE_ERROR")
    BY <1>1, <1>2, GivesUp
  <1>3. CASE /\ ReadsBack /\ phase' = "write" /\ idx' = idx + Chunk
             /\ UNCHANGED <<off, img, Status, updates, cuts, touched>>
    <2>1. /\ UNCHANGED <<mem, wel, busy, guarded, ignored, step, call, addr, left, ret>>
          /\ phase' = "write" /\ UNCHANGED <<off, img, Status, touched>>
      BY <1>1, <1>3 DEF norVars, chipVars, callVars
    <2>2. /\ img \in Seq(Contents) /\ Len(img) \in Nat /\ idx \in Nat /\ off \in Nat
          /\ Chunk \in Nat /\ idx + Chunk <= Len(img)
      BY ChunkFacts DEF FlashInv
    <2>3. busy = NoOp /\ \A k \in 1 .. Chunk : mem[Sent(off + idx + k - 1)] = img[idx + k]
      BY <1>3 DEF ReadsBack
    <2> HIDE DEF Chunk
    <2>4. FlashTypeOK' /\ OthersUntouched'
      BY <1>3, <2>1, <2>2 DEF FlashInv, FlashTypeOK, NorTypeOK, OthersUntouched, Span
    <2>5. CallMatches'
      BY <1>1, <2>1 DEF FlashInv, CallMatches, Extent
    <2>6. ChipMatches'
      BY <1>1, <2>1, <2>3 DEF FlashInv, ChipMatches, Reports
    <2>7. \A p \in ChunkPages : mem[p] \in Contents
      <3> SUFFICES ASSUME NEW k \in 0 .. Chunk - 1 PROVE mem[Sent(off + idx + k)] \in Contents
        BY DEF ChunkPages
      <3>1. k + 1 \in 1 .. Chunk /\ idx + (k + 1) \in 1 .. Len(img)
            /\ off + idx + (k + 1) - 1 = off + idx + k
        BY <2>2
      <3>2. mem[Sent(off + idx + (k + 1) - 1)] = img[idx + (k + 1)]
        BY <2>3, <3>1
      <3>3. img[idx + (k + 1)] \in Contents
        BY <2>2, <3>1, ElementOfSeq
      <3> QED BY <3>1, <3>2, <3>3
    <2>8. Mixed \notin Contents
      BY NorAssumption
    <2>9. ASSUME NEW k \in 1 .. idx + Chunk PROVE mem[Sent(off + k - 1)] = img[k]
      <3>1. CASE k <= idx
        <4>1. k \in 1 .. idx
          BY <2>2, <3>1
        <4> QED BY <1>1, <2>7, <2>8, <4>1 DEF FlashInv, Compared
      <3>2. CASE ~(k <= idx)
        <4>1. k - idx \in 1 .. Chunk /\ off + idx + (k - idx) - 1 = off + k - 1
              /\ idx + (k - idx) = k
          BY <2>2, <3>2
        <4>2. mem[Sent(off + idx + (k - idx) - 1)] = img[idx + (k - idx)]
          BY <2>3, <4>1
        <4> QED BY <4>1, <4>2
      <3> QED BY <3>1, <3>2
    <2>10. Compared'
      BY <1>3, <2>1, <2>9 DEF Compared
    <2> QED BY <2>4, <2>5, <2>6, <2>10 DEF FlashInv
  <1> QED BY <1>2, <1>3 DEF Verify

\* The last chunk was compared: the run reports success.
LEMMA SuccessStep == ASSUME FlashInv, Success PROVE FlashInv'
  <1>1. /\ phase = "write" /\ step = "ready" /\ ret = "none" /\ idx = Len(img)
        /\ phase' = "idle" /\ Status' = "SUCCESS"
        /\ UNCHANGED <<off, img, idx, touched>>
        /\ UNCHANGED <<mem, wel, busy, guarded, ignored, step, call, addr, left, ret>>
    BY DEF Success, Fail, norVars, chipVars, callVars
  <1>2. ChunkPages = {} /\ ChunkPages' = ChunkPages
    <2>1. ChunkPages = {}
      BY <1>1, ChunkFacts DEF FlashInv
    <2>2. ChunkPages' = ChunkPages
      BY <1>1 DEF ChunkPages, Chunk
    <2> QED BY <2>1, <2>2
  <1>3. Len(img) > 0 => busy = NoOp
    BY <1>1, <1>2 DEF FlashInv, ChipMatches
  <1>4. FlashTypeOK' /\ OthersUntouched' /\ CallMatches'
    BY <1>1 DEF FlashInv, FlashTypeOK, NorTypeOK, OthersUntouched, CallMatches, Span
  <1>5. ChipMatches' /\ Compared'
    BY <1>1, <1>2, <1>3 DEF FlashInv, ChipMatches, Compared, Span, Reports
  <1> QED BY <1>4, <1>5 DEF FlashInv

THEOREM InitFlashInv == Init => FlashInv
  <1> SUFFICES ASSUME Init PROVE FlashInv
    OBVIOUS
  <1>1. wel \in BOOLEAN /\ ignored \in BOOLEAN /\ guarded \in BOOLEAN
    BY DEF Init, NorInit
  <1>2. /\ busy = NoOp /\ step = "ready" /\ addr = 0 /\ left = 0 /\ ret = "none"
        /\ mem = [p \in FlashAddr |-> Old] /\ phase = "off" /\ off = 0 /\ img = <<>> /\ idx = 0
        /\ Status = "none" /\ touched = {}
    BY DEF Init, NorInit
  <1>3. FlashTypeOK
    BY <1>1, <1>2, UpdateAssumption, Sizes DEF FlashTypeOK, NorTypeOK
  <1>4. OthersUntouched /\ CallMatches /\ ChipMatches /\ Compared
    BY <1>2 DEF OthersUntouched, CallMatches, ChipMatches, Compared, Reports
  <1> QED BY <1>3, <1>4 DEF FlashInv

THEOREM NextFlashInv == FlashInv /\ [Next]_vars => FlashInv'
  <1> SUFFICES ASSUME FlashInv, [Next]_vars PROVE FlashInv'
    OBVIOUS
  <1>1. CASE UNCHANGED vars
    <2>1. UNCHANGED appVars /\ UNCHANGED <<mem, wel, busy, guarded, ignored, step, call, addr, left, ret>>
      BY <1>1 DEF vars, norVars, chipVars, callVars
    <2>2. Chunk' = Chunk /\ ChunkPages' = ChunkPages /\ OthersUntouched' /\ Compared'
          /\ (Reports' <=> Reports)
      BY <2>1, AppFrame
    <2>3. FlashTypeOK' /\ CallMatches' /\ ChipMatches'
      BY <2>1, <2>2 DEF FlashInv, FlashTypeOK, NorTypeOK, CallMatches, ChipMatches, Span, appVars
    <2> QED BY <2>2, <2>3 DEF FlashInv
  <1>2. CASE Chip
    BY <1>2, ChipStep DEF Chip
  <1>3. CASE Driver
    BY <1>3, WriteEnableStep, SendStep, ReadyStep, ReturnStep, HalStep DEF Driver, DriverStep
  <1>4. CASE EraseRefused
    BY <1>4, GivesUp DEF EraseRefused
  <1>5. CASE CallFailed
    <2>1. /\ ret \in {"DEVICE_ERROR", "TIMEOUT"} /\ Fail(ret) /\ UNCHANGED norVars /\ step = "ready"
      BY <1>5 DEF CallFailed, FlashInv, CallMatches
    <2> QED BY <2>1, GivesUp
  <1>6. CASE App
    BY <1>4, <1>5, <1>6, CallStep, EraseDoneStep, EraseAllStep, WriteDoneStep, VerifyStep,
       SuccessStep DEF App
  <1>7. ASSUME NEW o \in Slots, NEW i \in Images, ElfMode(o, i) PROVE FlashInv'
    <2>1. o \in 0 .. Wrap - 1 /\ o % SectorPages = 0
      BY UpdateAssumption, NorAssumption DEF FlashAddr
    <2> QED BY <1>7, <2>1, StartStep DEF ElfMode
  <1>8. ASSUME NEW o \in RawOffsets, NEW i \in Images, RawMode(o, i) PROVE FlashInv'
    <2>1. o \in 0 .. Wrap - 1 /\ o % SectorPages = 0
      BY <1>8, UpdateAssumption DEF RawMode
    <2> QED BY <1>8, <2>1, StartStep DEF RawMode
  <1> QED BY <1>1, <1>2, <1>3, <1>6, <1>7, <1>8, PowerCutStep, PowerOnStep DEF Next
-----------------------------------------------------------------------------
\* For every geometry, every image and any number of runs, failures and power
\* cuts: SpiNorErase and SpiNorWriteData change no page outside the sectors of
\* the images FlashApp was given, and the driver and the chip are where
\* FlashWriteVerify takes them to be.
THEOREM FlashSafe == Spec => []FlashInv
  BY InitFlashInv, NextFlashInv, PTL DEF Spec

\* For every geometry and every image, FlashWriteVerify returns EFI_SUCCESS only
\* when the flash holds the image, also for an offset that wraps round.
THEOREM SuccessIsTrue == Spec => []SuccessMeansFlashed
  <1>1. ASSUME FlashInv PROVE SuccessMeansFlashed
    <2> SUFFICES ASSUME phase = "idle", Status = "SUCCESS", NEW k \in 1 .. Len(img)
                 PROVE  mem[Sent(off + k - 1)] = img[k]
      BY DEF SuccessMeansFlashed
    <2>1. Reports /\ idx = Len(img)
      BY <1>1 DEF FlashInv, ChipMatches, Reports
    <2>2. ChunkPages = {}
      BY <1>1, <2>1, ChunkFacts DEF FlashInv
    <2> QED BY <1>1, <2>1, <2>2 DEF FlashInv, Compared
  <1> QED BY <1>1, InitFlashInv, NextFlashInv, PTL DEF Spec
-----------------------------------------------------------------------------
(***************************************************************************)
(* BoardInfoDxe, with InfoSpec.                                            *)
(***************************************************************************)

\* The records of a kind, long enough, before a position, and what the last of
\* them says.
Below(q, tag, min) == {p \in Starts : p < q /\ flash[p].tag = tag /\ Length(p) >= min}

StringSaid(default, max, L) == IF L = {} THEN Text(default) ELSE Cut(Text(DataOf(Max(L))), max)
MacSaid(L) == IF L = {} THEN DefaultMac ELSE [i \in 0 .. MacSize - 1 |-> flash[Max(L) + HeaderSize + i]]

InfoTypeOK ==
    /\ pc \in {"start", "walk", "installed"}
    /\ flash \in [0 .. Size - 1 -> Cells]
    /\ Pos \in 0 .. Size
    /\ reach \in 0 .. Size
    /\ BoardName \in [0 .. NAME_MAX - 1 -> Cells]
    /\ Serial \in [0 .. SERIAL_MAX - 1 -> Cells]
    /\ MacAddress \in [0 .. MacSize - 1 -> Cells]

\* Before the walk nothing has been read or changed.
NotBegun ==
    pc = "start" => /\ Pos = 0 /\ reach = 0
                    /\ BoardName = DefaultName /\ Serial = DefaultSerial /\ MacAddress = DefaultMac

Walked == pc = "walk" \/ (pc = "installed" /\ reach > 0)

\* The walk is at a place where a record may start, and no record before it
\* reaches behind it.
OnTheChain ==
    Walked => /\ Pos \in Reached
              /\ \A p \in Starts : p < Pos => RecordEnd(p) <= Pos

\* The tables say what the last record before the walk's position said.
SaidSoFar ==
    Walked =>
        /\ Text(BoardName) = StringSaid(DefaultName, NAME_MAX, Below(Pos, "name", 0))
        /\ Text(Serial) = StringSaid(DefaultSerial, SERIAL_MAX, Below(Pos, "serial", 0))
        /\ MacAddress = MacSaid(Below(Pos, "mac", MacSize))

\* Where the walk has ended no record starts.
AtTheEnd == (pc = "installed" /\ reach > 0) => ~Whole(Pos)

InfoInv == InfoTypeOK /\ Terminated /\ NotBegun /\ OnTheChain /\ SaidSoFar /\ AtTheEnd

(***************************************************************************)
(* The chain of records.                                                   *)
(***************************************************************************)

\* A record that is whole lies in the area, header and all.
LEMMA WholeFacts == ASSUME InfoTypeOK, NEW p \in 0 .. Size, Whole(p)
                    PROVE  /\ p \in 0 .. Size - 1 /\ Size \in Nat /\ HeaderSize \in Nat
                           /\ Length(p) \in Nat
                           /\ RecordEnd(p) = p + HeaderSize + Length(p)
                           /\ RecordEnd(p) \in 0 .. Size /\ p < RecordEnd(p)
  <1>1. Size \in Nat /\ HeaderSize \in Nat /\ HeaderSize >= 2 /\ p + HeaderSize <= Size
    BY InfoAssumption DEF Whole
  <1>2. p \in 0 .. Size - 1 /\ p + HeaderSize - 1 \in 0 .. Size - 1
    BY <1>1
  <1>3. flash[p + HeaderSize - 1] \in Cells
    BY <1>2 DEF InfoTypeOK
  <1>4. Length(p) \in Nat
    BY <1>1, <1>3, InfoAssumption DEF Length
  <1> QED BY <1>1, <1>2, <1>4 DEF RecordEnd, Whole

\* The places where records may start are themselves a chain.
LEMMA ReachedIsChained == ASSUME InfoTypeOK PROVE Reached \in SUBSET (0 .. Size) /\ Chained(Reached)
  <1>1. Reached \in SUBSET (0 .. Size)
    BY DEF Reached
  <1>2. 0 \in 0 .. Size
    BY InfoAssumption
  <1>3. 0 \in Reached
    BY <1>2 DEF Reached, Chained
  <1>4. ASSUME NEW p \in Reached, Whole(p) PROVE RecordEnd(p) \in Reached
    <2> DEFINE q == RecordEnd(p)
    <2>3. q \in 0 .. Size
      BY <1>1, <1>4, WholeFacts
    <2>4. ASSUME NEW S \in SUBSET (0 .. Size), Chained(S) PROVE q \in S
      BY <2>4, <1>4 DEF Reached, Chained
    <2> QED BY <2>3, <2>4 DEF Reached
  <1> QED BY <1>1, <1>3, <1>4 DEF Chained

\* A chain has all of them.
LEMMA ReachedIsLeast == ASSUME NEW S \in SUBSET (0 .. Size), Chained(S) PROVE Reached \subseteq S
  BY DEF Reached

\* A start is a cell with a record.
LEMMA StartFacts == ASSUME InfoTypeOK, NEW p \in Starts
                    PROVE  /\ p \in 0 .. Size - 1 /\ Length(p) \in Nat
                           /\ p \in Reached /\ Whole(p)
                           /\ RecordEnd(p) = p + HeaderSize + Length(p)
                           /\ RecordEnd(p) \in 0 .. Size /\ p < RecordEnd(p)
  <1>1. p \in Reached /\ p \in 0 .. Size /\ Whole(p)
    BY DEF Starts, Reached
  <1> QED BY <1>1, WholeFacts

\* Behind a record at the walk's position the next that may start is the one
\* directly behind it.
LEMMA NothingBetween ==
    ASSUME InfoTypeOK, OnTheChain, Walked, Whole(Pos), NEW p \in Reached
    PROVE  p <= Pos \/ p >= RecordEnd(Pos)
  <1> DEFINE n == RecordEnd(Pos)
             T == {s \in Reached : s <= Pos} \cup n .. Size
  <1>1. Pos \in 0 .. Size - 1 /\ n \in 0 .. Size /\ Pos < n /\ Size \in Nat
    BY WholeFacts DEF InfoTypeOK
  <1>2. T \in SUBSET (0 .. Size)
    BY <1>1 DEF Reached
  <1>3. 0 \in T
    BY <1>1, ReachedIsChained DEF Chained
  <1>4. ASSUME NEW s \in T, Whole(s) PROVE RecordEnd(s) \in T
    <2>1. s \in 0 .. Size - 1 /\ RecordEnd(s) \in 0 .. Size /\ s < RecordEnd(s)
      <3>1. s \in 0 .. Size
        BY <1>2
      <3> QED BY <3>1, <1>4, WholeFacts
    <2>4. CASE s >= n
      BY <2>4, <2>1, <1>1
    <2>5. CASE s < n
      <3>1. s \in Reached /\ s <= Pos
        BY <2>5, <2>1, <1>1
      <3>2. RecordEnd(s) \in Reached
        BY <3>1, <1>4, ReachedIsChained DEF Chained
      <3>3. CASE s = Pos
        BY <3>3, <1>1
      <3>4. CASE s < Pos
        <4>1. s \in Starts
          BY <3>1, <1>4 DEF Starts
        <4>2. RecordEnd(s) <= Pos
          BY <4>1, <3>4 DEF OnTheChain
        <4> QED BY <4>2, <3>2
      <3> QED BY <3>1, <3>3, <3>4, <2>1, <1>1
    <2> QED BY <2>4, <2>5, <2>1, <1>1
  <1> HIDE DEF T, n
  <1>5. Chained(T)
    BY <1>3, <1>4 DEF Chained
  <1>6. p \in T
    BY <1>2, <1>5, ReachedIsLeast
  <1>7. p <= Pos \/ p >= n
    BY <1>6, <1>1 DEF T
  <1> QED BY <1>7 DEF n

\* Where no record starts at the walk's position there is none behind it.
LEMMA NothingBehind ==
    ASSUME InfoTypeOK, OnTheChain, Walked, ~Whole(Pos), NEW p \in Starts
    PROVE  p < Pos
  <1> DEFINE T == {s \in Reached : s <= Pos}
  <1>1. Pos \in 0 .. Size /\ Size \in Nat
    BY InfoAssumption DEF InfoTypeOK
  <1>2. T \in SUBSET (0 .. Size)
    BY DEF Reached
  <1>3. 0 \in T
    BY <1>1, ReachedIsChained DEF Chained
  <1>4. ASSUME NEW s \in T, Whole(s) PROVE RecordEnd(s) \in T
    <2>1. s \in Starts
      BY <1>4 DEF Starts
    <2>2. s \in 0 .. Size - 1
      BY <2>1, StartFacts
    <2>3. s < Pos
      BY <2>2, <1>4, <1>1
    <2>4. RecordEnd(s) <= Pos
      BY <2>1, <2>3 DEF OnTheChain
    <2>5. RecordEnd(s) \in Reached
      BY <1>4, ReachedIsChained DEF Chained
    <2> QED BY <2>4, <2>5
  <1>5. p \in Reached /\ Whole(p) /\ p \in 0 .. Size - 1
    BY StartFacts
  <1> HIDE DEF T
  <1>6. Chained(T)
    BY <1>3, <1>4 DEF Chained
  <1>7. p \in T
    BY <1>2, <1>5, <1>6, ReachedIsLeast
  <1>8. p <= Pos
    BY <1>7 DEF T
  <1> QED BY <1>1, <1>5, <1>8

(***************************************************************************)
(* What a record says.                                                     *)
(***************************************************************************)

\* The greatest element of a set of numbers, when there is one.
LEMMA MaxIs == ASSUME NEW L \in SUBSET Nat, NEW m \in L, \A x \in L : x <= m PROVE Max(L) = m
  <1>1. m \in L /\ \A y \in L : m >= y
    OBVIOUS
  <1>2. Max(L) \in L /\ \A y \in L : Max(L) >= y
    BY <1>1 DEF Max
  <1>3. Max(L) \in Nat /\ m \in Nat /\ Max(L) >= m /\ Max(L) <= m
    BY <1>2
  <1> QED BY <1>3

\* What has been said once a record more has been passed.
LEMMA OneMore ==
    ASSUME InfoTypeOK, OnTheChain, Walked, Whole(Pos), NEW tag, NEW min \in Nat
    PROVE  LET n == RecordEnd(Pos)
               counts == flash[Pos].tag = tag /\ Length(Pos) >= min
           IN  /\ Below(n, tag, min) = IF counts THEN Below(Pos, tag, min) \cup {Pos} ELSE Below(Pos, tag, min)
               /\ counts => Max(Below(n, tag, min)) = Pos
  <1> DEFINE n == RecordEnd(Pos)
             counts == flash[Pos].tag = tag /\ Length(Pos) >= min
  <1>1. Pos \in Starts
    BY DEF OnTheChain, Starts
  <1>2. Pos \in 0 .. Size - 1 /\ Length(Pos) \in Nat /\ n \in 0 .. Size /\ Pos < n
    BY <1>1, StartFacts
  <1>3. ASSUME NEW p \in Starts PROVE p < n <=> (p < Pos \/ p = Pos)
    <2>1. p \in Reached /\ p \in 0 .. Size - 1
      BY StartFacts
    <2>2. p <= Pos \/ p >= n
      BY <2>1, NothingBetween
    <2> QED BY <2>1, <2>2, <1>2
  <1>4. Below(n, tag, min) = IF counts THEN Below(Pos, tag, min) \cup {Pos} ELSE Below(Pos, tag, min)
    <2> HIDE DEF n
    <2>1. ASSUME NEW p \in Below(n, tag, min) PROVE p \in Below(Pos, tag, min) \/ (counts /\ p = Pos)
      <3>1. p \in Starts /\ p < n /\ flash[p].tag = tag /\ Length(p) >= min
        BY DEF Below
      <3>2. p < Pos \/ p = Pos
        BY <3>1, <1>3
      <3>3. CASE p < Pos
        BY <3>1, <3>3 DEF Below
      <3>4. CASE p = Pos
        BY <3>1, <3>4
      <3> QED BY <3>2, <3>3, <3>4
    <2>2. ASSUME NEW p \in Below(Pos, tag, min) PROVE p \in Below(n, tag, min)
      BY <1>3 DEF Below
    <2>3. ASSUME counts PROVE Pos \in Below(n, tag, min)
      BY <2>3, <1>1, <1>3 DEF Below
    <2> HIDE DEF counts
    <2>4. CASE counts
      <3>1. Below(n, tag, min) = Below(Pos, tag, min) \cup {Pos}
        BY <2>1, <2>2, <2>3, <2>4
      <3> QED BY <3>1, <2>4
    <2>5. CASE ~counts
      <3>1. Below(n, tag, min) = Below(Pos, tag, min)
        BY <2>1, <2>2, <2>5
      <3> QED BY <3>1, <2>5
    <2> QED BY <2>4, <2>5
  <1>5. ASSUME counts PROVE Max(Below(n, tag, min)) = Pos
    <2>1. Pos \in Below(n, tag, min)
      BY <1>4, <1>5
    <2>2. ASSUME NEW p \in Below(n, tag, min) PROVE p \in Nat /\ p <= Pos
      <3>1. p \in Starts /\ p < n
        BY DEF Below
      <3>2. p \in 0 .. Size - 1
        BY <3>1, StartFacts
      <3> QED BY <3>1, <3>2, <1>3, <1>2
    <2> HIDE DEF n, counts
    <2> QED BY <2>1, <2>2, MaxIs
  <1> QED BY <1>4, <1>5

\* The text that CopyString leaves is that of the record, cut to the array.
LEMMA CopiedText ==
    ASSUME InfoTypeOK, NEW p \in Starts, NEW max \in Nat \ {0},
           NEW old \in [0 .. max - 1 -> Cells]
    PROVE  /\ CopyString(old, p, max) \in [0 .. max - 1 -> Cells]
           /\ \E i \in 0 .. max - 1 : CopyString(old, p, max)[i] = Nul
           /\ Text(CopyString(old, p, max)) = Cut(Text(DataOf(p)), max)
  <1> DEFINE len == Length(p)
             n == CopyLen(len, max)
             s == CopyString(old, p, max)
             d == DataOf(p)
  <1>1. /\ p \in 0 .. Size - 1 /\ len \in Nat /\ p + HeaderSize + len <= Size
        /\ Size \in Nat /\ HeaderSize \in Nat
    BY StartFacts, InfoAssumption
  <1>2. n \in 0 .. max - 1 /\ n <= len /\ (n < len => n = max - 1)
    BY <1>1 DEF CopyLen
  <1>3. ASSUME NEW i \in 0 .. len - 1 PROVE flash[p + HeaderSize + i] \in Cells
    <2>1. p + HeaderSize + i \in 0 .. Size - 1
      BY <1>1
    <2> QED BY <2>1 DEF InfoTypeOK
  <1>4. s = [i \in 0 .. max - 1 |-> IF i < n THEN flash[p + HeaderSize + i] ELSE IF i = n THEN Nul ELSE old[i]]
    BY DEF CopyString
  <1>5. d = [i \in 0 .. len |-> IF i < len THEN flash[p + HeaderSize + i] ELSE Nul]
    BY DEF DataOf
  <1> HIDE DEF n, s, d, len
  <1>6. s \in [0 .. max - 1 -> Cells]
    <2>1. ASSUME NEW i \in 0 .. max - 1
          PROVE  (IF i < n THEN flash[p + HeaderSize + i] ELSE IF i = n THEN Nul ELSE old[i]) \in Cells
      <3>1. CASE i < n
        <4>1. i \in 0 .. len - 1
          BY <3>1, <1>1, <1>2
        <4> QED BY <3>1, <4>1, <1>3
      <3>2. CASE ~(i < n)
        BY <3>2, InfoAssumption
      <3> QED BY <3>1, <3>2
    <2> QED BY <1>4, <2>1
  <1>7. s[n] = Nul
    BY <1>2, <1>4
  <1>8. \A i \in 0 .. n - 1 : s[i] = flash[p + HeaderSize + i] /\ d[i] = flash[p + HeaderSize + i]
    BY <1>1, <1>2, <1>4, <1>5
  <1>9. d[len] = Nul
    BY <1>1, <1>5
  <1>10. DOMAIN s = 0 .. max - 1 /\ DOMAIN d = 0 .. len
    BY <1>4, <1>5
  <1>11. ASSUME NEW j \in DOMAIN s PROVE (\A k \in 0 .. j : s[k] # Nul) <=> (j < n /\ \A k \in 0 .. j : d[k] # Nul)
    <2>1. ASSUME j < n PROVE \A k \in 0 .. j : s[k] = d[k]
      BY <2>1, <1>8, <1>10, <1>2
    <2>2. ASSUME ~(j < n) PROVE n \in 0 .. j
      BY <2>2, <1>2, <1>10
    <2> QED BY <2>1, <2>2, <1>7
  <1>12. ASSUME NEW j \in DOMAIN d, j < max - 1, \A k \in 0 .. j : d[k] # Nul PROVE j < n /\ j \in DOMAIN s
    <2>1. j # len
      BY <1>9, <1>12, <1>10, <1>1
    <2>2. j < len
      BY <2>1, <1>10, <1>1
    <2> QED BY <2>2, <1>12, <1>10, <1>1, <1>2
  <1>13. ASSUME NEW c \in Text(s) PROVE c \in Cut(Text(d), max)
    <2>1. PICK j \in DOMAIN s : c = <<j, s[j]>> /\ \A k \in 0 .. j : s[k] # Nul
      BY DEF Text
    <2>2. j < n /\ \A k \in 0 .. j : d[k] # Nul
      BY <2>1, <1>11
    <2>3. j \in 0 .. n - 1 /\ j \in DOMAIN d /\ j < max - 1
      BY <2>2, <1>10, <1>1, <1>2
    <2>4. c = <<j, d[j]>>
      BY <2>1, <2>3, <1>8
    <2>5. c \in Text(d)
      BY <2>2, <2>3, <2>4 DEF Text
    <2>6. c[1] < max - 1
      BY <2>3, <2>4
    <2> QED BY <2>5, <2>6 DEF Cut
  <1>14. ASSUME NEW c \in Cut(Text(d), max) PROVE c \in Text(s)
    <2>1. c \in Text(d) /\ c[1] < max - 1
      BY DEF Cut
    <2>2. PICK j \in DOMAIN d : c = <<j, d[j]>> /\ \A k \in 0 .. j : d[k] # Nul
      BY <2>1 DEF Text
    <2>3. j < max - 1
      BY <2>1, <2>2
    <2>4. j < n /\ j \in DOMAIN s
      BY <2>2, <2>3, <1>12
    <2>5. \A k \in 0 .. j : s[k] # Nul
      BY <2>4, <2>2, <1>11
    <2>6. c = <<j, s[j]>>
      BY <2>2, <2>4, <1>8, <1>10, <1>2
    <2> QED BY <2>4, <2>5, <2>6 DEF Text
  <1>15. Text(s) = Cut(Text(d), max)
    BY <1>13, <1>14, Zenon
  <1>16. \E i \in 0 .. max - 1 : s[i] = Nul
    BY <1>2, <1>7
  <1> QED BY <1>6, <1>15, <1>16 DEF s, d
(***************************************************************************)
(* The invariant.                                                          *)
(***************************************************************************)

LEMMA InfoInvInit == InfoInit => InfoInv
  <1> SUFFICES ASSUME InfoInit PROVE InfoInv
    OBVIOUS
  <1>1. InfoTypeOK
    BY InfoAssumption DEF InfoInit, InfoTypeOK
  <1>2. Terminated
    <2>1. NAME_MAX - 1 \in 0 .. NAME_MAX - 1 /\ SERIAL_MAX - 1 \in 0 .. SERIAL_MAX - 1
      BY InfoAssumption
    <2> QED BY <2>1, InfoAssumption DEF InfoInit, Terminated
  <1> QED BY <1>1, <1>2 DEF InfoInit, InfoInv, NotBegun, OnTheChain, SaidSoFar, AtTheEnd, Walked

\* Nothing has been said where the walk begins.
LEMMA NothingBelowZero == ASSUME InfoTypeOK, NEW tag, NEW min PROVE Below(0, tag, min) = {}
  <1>1. ASSUME NEW p \in Below(0, tag, min) PROVE FALSE
    <2>1. p \in Starts /\ p < 0
      BY DEF Below
    <2> QED BY <2>1, StartFacts
  <1> QED BY <1>1

\* The area does not change, and so neither does what its records say.
LEMMA SameRecords ==
    ASSUME flash' = flash, NEW q, NEW tag, NEW min, NEW default, NEW max, Pos' = q
    PROVE  /\ Reached' = Reached /\ Starts' = Starts
           /\ Below(Pos, tag, min)' = Below(q, tag, min)
           /\ StringSaid(default, max, Below(Pos, tag, min))' = StringSaid(default, max, Below(q, tag, min))
           /\ MacSaid(Below(Pos, tag, min))' = MacSaid(Below(q, tag, min))
  <1>1. Reached' = Reached /\ Starts' = Starts
    BY DEF Reached, Starts, Chained, Whole, RecordEnd, Length
  <1>2. Below(Pos, tag, min)' = Below(q, tag, min)
    BY <1>1 DEF Below, Length
  <1>3. StringSaid(default, max, Below(Pos, tag, min))' = StringSaid(default, max, Below(q, tag, min))
    BY <1>2 DEF StringSaid, DataOf, Length
  <1>4. MacSaid(Below(Pos, tag, min))' = MacSaid(Below(q, tag, min))
    BY <1>2 DEF MacSaid
  <1> QED BY <1>1, <1>2, <1>3, <1>4

LEMMA RecordKeepsInv == InfoInv /\ Record => InfoInv'
  <1> SUFFICES ASSUME InfoInv, Record PROVE InfoInv'
    OBVIOUS
  <1> USE DEF InfoInv
  <1> DEFINE n == RecordEnd(Pos)
             L(tag, min) == Below(n, tag, min)
  <1>1. flash' = flash /\ Pos' = n /\ pc = "walk" /\ pc' = "walk"
    BY DEF Record
  <1>2. Walked /\ Walked'
    BY <1>1 DEF Walked
  <1>3. Size \in Nat /\ HeaderSize \in Nat /\ Pos \in 0 .. Size - 1 /\ Whole(Pos)
    <2>1. Whole(Pos) /\ Pos \in 0 .. Size
      BY DEF Record, HeaderFits, Fits, Whole, InfoTypeOK
    <2> QED BY <2>1, WholeFacts
  <1>4. Pos \in Starts
    BY <1>2, <1>3 DEF OnTheChain, Starts
  <1>5. /\ Length(Pos) \in Nat /\ n \in 0 .. Size /\ Pos < n
        /\ n = Pos + HeaderSize + Length(Pos)
    BY <1>4, StartFacts
  <1>6. /\ NAME_MAX \in Nat \ {0} /\ SERIAL_MAX \in Nat \ {0} /\ MacSize \in Nat \ {0}
        /\ BoardName \in [0 .. NAME_MAX - 1 -> Cells] /\ Serial \in [0 .. SERIAL_MAX - 1 -> Cells]
    BY InfoAssumption DEF InfoTypeOK
  <1>7. /\ BoardName' \in [0 .. NAME_MAX - 1 -> Cells]
        /\ \E i \in 0 .. NAME_MAX - 1 : BoardName'[i] = Nul
        /\ flash[Pos].tag # "name" => BoardName' = BoardName
        /\ flash[Pos].tag = "name" => Text(BoardName') = Cut(Text(DataOf(Pos)), NAME_MAX)
    <2>1. CASE flash[Pos].tag = "name"
      <3>1. BoardName' = CopyString(BoardName, Pos, NAME_MAX)
        BY <2>1 DEF Record
      <3> QED BY <3>1, <2>1, <1>4, <1>6, CopiedText
    <2>2. CASE flash[Pos].tag # "name"
      <3>1. BoardName' = BoardName
        BY <2>2 DEF Record
      <3> QED BY <3>1, <2>2, <1>6 DEF Terminated
    <2> QED BY <2>1, <2>2
  <1>8. /\ Serial' \in [0 .. SERIAL_MAX - 1 -> Cells]
        /\ \E i \in 0 .. SERIAL_MAX - 1 : Serial'[i] = Nul
        /\ flash[Pos].tag # "serial" => Serial' = Serial
        /\ flash[Pos].tag = "serial" => Text(Serial') = Cut(Text(DataOf(Pos)), SERIAL_MAX)
    <2>1. CASE flash[Pos].tag = "serial"
      <3>1. Serial' = CopyString(Serial, Pos, SERIAL_MAX)
        BY <2>1 DEF Record
      <3> QED BY <3>1, <2>1, <1>4, <1>6, CopiedText
    <2>2. CASE flash[Pos].tag # "serial"
      <3>1. Serial' = Serial
        BY <2>2 DEF Record
      <3> QED BY <3>1, <2>2, <1>6 DEF Terminated
    <2> QED BY <2>1, <2>2
  <1> DEFINE macCounts == flash[Pos].tag = "mac" /\ Length(Pos) >= MacSize
  <1>9. /\ MacAddress' \in [0 .. MacSize - 1 -> Cells]
        /\ MacAddress' = IF macCounts THEN [i \in 0 .. MacSize - 1 |-> flash[Pos + HeaderSize + i]] ELSE MacAddress
    <2>1. MacAddress' = IF macCounts THEN [i \in 0 .. MacSize - 1 |-> flash[Pos + HeaderSize + i]] ELSE MacAddress
      <3>1. Length(Pos) < MacSize <=> ~(Length(Pos) >= MacSize)
        BY <1>5, <1>6
      <3> QED BY <3>1 DEF Record, CopyMac
    <2>2. CASE macCounts
      <3>1. ASSUME NEW i \in 0 .. MacSize - 1 PROVE flash[Pos + HeaderSize + i] \in Cells
        <4>1. Pos + HeaderSize + i \in 0 .. Size - 1
          BY <2>2, <1>3, <1>5, <1>6
        <4> QED BY <4>1 DEF InfoTypeOK
      <3> QED BY <2>1, <2>2, <3>1
    <2>3. CASE ~macCounts
      BY <2>1, <2>3 DEF InfoTypeOK
    <2> QED BY <2>1, <2>2, <2>3
  <1>10. InfoTypeOK'
    <2>1. reach' \in 0 .. Size
      BY <1>3, <1>5 DEF Record, Further, InfoTypeOK
    <2>2. flash' \in [0 .. Size - 1 -> Cells] /\ Pos' \in 0 .. Size /\ pc' \in {"start", "walk", "installed"}
      BY <1>1, <1>5 DEF InfoTypeOK
    <2> QED BY <2>1, <2>2, <1>7, <1>8, <1>9 DEF InfoTypeOK
  <1>11. Terminated'
    BY <1>7, <1>8 DEF Terminated
  <1>12. NotBegun' /\ AtTheEnd'
    BY <1>1 DEF NotBegun, AtTheEnd
  <1>13. OnTheChain'
    <2>1. Pos' \in Reached'
      <3>1. n \in Reached
        BY <1>3, <1>4, StartFacts, ReachedIsChained DEF Chained
      <3> QED BY <3>1, <1>1, SameRecords
    <2>2. ASSUME NEW p \in Starts, p < n PROVE RecordEnd(p) <= n
      <3>1. p \in Reached /\ p \in 0 .. Size - 1 /\ RecordEnd(p) \in 0 .. Size
        BY StartFacts
      <3>2. p <= Pos \/ p >= n
        BY <3>1, <1>2, <1>3, NothingBetween
      <3>3. CASE p = Pos
        BY <3>3, <1>5, <1>3
      <3>4. CASE p < Pos
        <4>1. RecordEnd(p) <= Pos
          BY <3>4, <1>2 DEF OnTheChain
        <4> QED BY <4>1, <3>1, <1>3, <1>5
      <3> QED BY <2>2, <3>1, <3>2, <3>3, <3>4, <1>3, <1>5
    <2> HIDE DEF n
    <2>3. \A p \in Starts' : p < Pos' => RecordEnd(p)' <= Pos'
      <3>1. \A p : RecordEnd(p)' = RecordEnd(p)
        BY <1>1 DEF RecordEnd, Length
      <3> QED BY <2>2, <3>1, <1>1, SameRecords
    <2> QED BY <2>1, <2>3 DEF OnTheChain
  <1>14. SaidSoFar'
    <2>1. Text(BoardName)' = StringSaid(DefaultName, NAME_MAX, Below(Pos, "name", 0))'
      <3>1. Text(BoardName') = StringSaid(DefaultName, NAME_MAX, L("name", 0))
        <4>1. /\ L("name", 0) = IF flash[Pos].tag = "name" THEN Below(Pos, "name", 0) \cup {Pos}
                                ELSE Below(Pos, "name", 0)
              /\ flash[Pos].tag = "name" => Max(L("name", 0)) = Pos
          <5>1. Length(Pos) >= 0 /\ 0 \in Nat
            BY <1>5
          <5> QED BY <5>1, <1>2, <1>3, OneMore
        <4>2. CASE flash[Pos].tag = "name"
          <5>1. L("name", 0) # {} /\ Max(L("name", 0)) = Pos
            BY <4>1, <4>2
          <5>2. Text(BoardName') = Cut(Text(DataOf(Pos)), NAME_MAX)
            BY <4>2, <1>7
          <5> HIDE DEF L
          <5> QED BY <5>1, <5>2 DEF StringSaid
        <4>3. CASE flash[Pos].tag # "name"
          <5>1. L("name", 0) = Below(Pos, "name", 0) /\ BoardName' = BoardName
            BY <4>1, <4>3, <1>7
          <5> HIDE DEF L
          <5> QED BY <5>1, <1>2 DEF SaidSoFar
        <4> QED BY <4>2, <4>3
      <3> HIDE DEF n
      <3> QED BY <3>1, <1>1, SameRecords
    <2>2. Text(Serial)' = StringSaid(DefaultSerial, SERIAL_MAX, Below(Pos, "serial", 0))'
      <3>1. Text(Serial') = StringSaid(DefaultSerial, SERIAL_MAX, L("serial", 0))
        <4>1. /\ L("serial", 0) = IF flash[Pos].tag = "serial" THEN Below(Pos, "serial", 0) \cup {Pos}
                                  ELSE Below(Pos, "serial", 0)
              /\ flash[Pos].tag = "serial" => Max(L("serial", 0)) = Pos
          <5>1. Length(Pos) >= 0 /\ 0 \in Nat
            BY <1>5
          <5> QED BY <5>1, <1>2, <1>3, OneMore
        <4>2. CASE flash[Pos].tag = "serial"
          <5>1. L("serial", 0) # {} /\ Max(L("serial", 0)) = Pos
            BY <4>1, <4>2
          <5>2. Text(Serial') = Cut(Text(DataOf(Pos)), SERIAL_MAX)
            BY <4>2, <1>8
          <5> HIDE DEF L
          <5> QED BY <5>1, <5>2 DEF StringSaid
        <4>3. CASE flash[Pos].tag # "serial"
          <5>1. L("serial", 0) = Below(Pos, "serial", 0) /\ Serial' = Serial
            BY <4>1, <4>3, <1>8
          <5> HIDE DEF L
          <5> QED BY <5>1, <1>2 DEF SaidSoFar
        <4> QED BY <4>2, <4>3
      <3> HIDE DEF n
      <3> QED BY <3>1, <1>1, SameRecords
    <2>3. MacAddress' = MacSaid(Below(Pos, "mac", MacSize))'
      <3>1. MacAddress' = MacSaid(L("mac", MacSize))
        <4>1. /\ L("mac", MacSize) = IF macCounts THEN Below(Pos, "mac", MacSize) \cup {Pos}
                                     ELSE Below(Pos, "mac", MacSize)
              /\ macCounts => Max(L("mac", MacSize)) = Pos
          BY <1>2, <1>3, <1>6, OneMore
        <4>2. CASE macCounts
          <5>1. L("mac", MacSize) # {} /\ Max(L("mac", MacSize)) = Pos
            BY <4>1, <4>2
          <5> HIDE DEF L
          <5> QED BY <5>1, <4>2, <1>9 DEF MacSaid
        <4>3. CASE ~macCounts
          <5>1. L("mac", MacSize) = Below(Pos, "mac", MacSize) /\ MacAddress' = MacAddress
            BY <4>1, <4>3, <1>9
          <5> HIDE DEF L
          <5> QED BY <5>1, <1>2 DEF SaidSoFar
        <4> QED BY <4>2, <4>3
      <3> HIDE DEF n
      <3> QED BY <3>1, <1>1, SameRecords
    <2> QED BY <2>1, <2>2, <2>3 DEF SaidSoFar
  <1> QED BY <1>10, <1>11, <1>12, <1>13, <1>14

\* A step that moves neither the walk nor the tables.
LEMMA StandingKeepsInv ==
    ASSUME InfoInv, UNCHANGED <<flash, Pos, BoardName, Serial, MacAddress>>,
           pc' \in {"start", "walk", "installed"}, reach' \in 0 .. Size,
           pc' = "start" => pc = "start" /\ reach' = reach,
           Walked' => Walked \/ (pc = "start" /\ pc' = "walk"),
           AtTheEnd'
    PROVE  InfoInv'
  <1> USE DEF InfoInv
  <1>1. InfoTypeOK'
    BY DEF InfoTypeOK
  <1>2. Terminated'
    BY DEF Terminated
  <1>3. NotBegun'
    BY DEF NotBegun
  <1>4. /\ Walked' => Pos \in Reached /\ \A p \in Starts : p < Pos => RecordEnd(p) <= Pos
        /\ Walked' => /\ Text(BoardName) = StringSaid(DefaultName, NAME_MAX, Below(Pos, "name", 0))
                      /\ Text(Serial) = StringSaid(DefaultSerial, SERIAL_MAX, Below(Pos, "serial", 0))
                      /\ MacAddress = MacSaid(Below(Pos, "mac", MacSize))
    <2>1. CASE Walked
      BY <2>1 DEF OnTheChain, SaidSoFar
    <2>2. CASE pc = "start"
      <3>1. Pos = 0 /\ BoardName = DefaultName /\ Serial = DefaultSerial /\ MacAddress = DefaultMac
        BY <2>2 DEF NotBegun
      <3>2. 0 \in Reached
        BY ReachedIsChained DEF Chained
      <3>3. ASSUME NEW p \in Starts PROVE ~(p < 0)
        BY StartFacts
      <3>4. \A tag, min : Below(Pos, tag, min) = {}
        BY <3>1, NothingBelowZero
      <3> QED BY <3>1, <3>2, <3>3, <3>4 DEF StringSaid, MacSaid
    <2> QED BY <2>1, <2>2
  <1>5. OnTheChain'
    <2>1. Reached' = Reached /\ Starts' = Starts
      BY SameRecords
    <2>2. \A p : RecordEnd(p)' = RecordEnd(p)
      BY DEF RecordEnd, Length
    <2> QED BY <1>4, <2>1, <2>2 DEF OnTheChain
  <1>6. SaidSoFar'
    <2>1. /\ StringSaid(DefaultName, NAME_MAX, Below(Pos, "name", 0))'
             = StringSaid(DefaultName, NAME_MAX, Below(Pos, "name", 0))
          /\ StringSaid(DefaultSerial, SERIAL_MAX, Below(Pos, "serial", 0))'
             = StringSaid(DefaultSerial, SERIAL_MAX, Below(Pos, "serial", 0))
          /\ MacSaid(Below(Pos, "mac", MacSize))' = MacSaid(Below(Pos, "mac", MacSize))
      BY SameRecords
    <2> QED BY <1>4, <2>1 DEF SaidSoFar
  <1> QED BY <1>1, <1>2, <1>3, <1>5, <1>6

LEMMA InfoInvNext == InfoInv /\ [InfoNext]_infoVars => InfoInv'
  <1> SUFFICES ASSUME InfoInv, [InfoNext]_infoVars PROVE InfoInv'
    OBVIOUS
  <1>0. Size \in Nat /\ Pos \in 0 .. Size /\ reach \in 0 .. Size /\ pc \in {"start", "walk", "installed"}
    BY InfoAssumption DEF InfoInv, InfoTypeOK
  <1>1. CASE Defaults
    <2>1. reach' = 0 /\ pc' = "installed" /\ pc = "start"
      BY <1>1 DEF Defaults, InfoInv, NotBegun
    <2> QED BY <2>1, <1>0, <1>1, StandingKeepsInv DEF Defaults, Walked, AtTheEnd
  <1>2. CASE CheckMagic
    <2>1. reach' = 0 /\ pc' \in {"walk", "installed"} /\ pc = "start"
      BY <1>2 DEF CheckMagic, InfoInv, NotBegun
    <2> QED BY <2>1, <1>0, <1>2, StandingKeepsInv DEF CheckMagic, Walked, AtTheEnd
  <1>3. CASE Record
    BY <1>3, RecordKeepsInv
  <1>4. CASE WalkEnds
    <2>1. reach' \in 0 .. Size
      BY <1>4, <1>0, InfoAssumption DEF WalkEnds, Further, HeaderFits
    <2>2. pc = "walk" /\ pc' = "installed" /\ UNCHANGED <<flash, Pos, BoardName, Serial, MacAddress>>
      BY <1>4 DEF WalkEnds
    <2>3. ~Whole(Pos)
      BY <1>4 DEF WalkEnds, HeaderFits, Fits, Whole
    <2>4. AtTheEnd'
      BY <2>2, <2>3 DEF AtTheEnd, Whole, RecordEnd, Length
    <2>5. Walked
      BY <2>2 DEF Walked
    <2> QED BY <2>1, <2>2, <2>4, <2>5, StandingKeepsInv
  <1>5. CASE UNCHANGED infoVars
    <2>1. AtTheEnd' /\ (Walked' <=> Walked)
      BY <1>5 DEF infoVars, AtTheEnd, Whole, RecordEnd, Length, Walked, InfoInv
    <2> QED BY <2>1, <1>0, <1>5, StandingKeepsInv DEF infoVars
  <1> QED BY <1>1, <1>2, <1>3, <1>4, <1>5 DEF InfoNext

LEMMA InfoInvGivesSaysTheLast == InfoInv => SaysTheLast
  <1> SUFFICES ASSUME InfoInv, pc = "installed", reach > 0 PROVE SaysTheLast
    BY DEF SaysTheLast
  <1> USE DEF InfoInv
  <1>1. Walked /\ ~Whole(Pos)
    BY DEF Walked, AtTheEnd
  <1>2. \A p \in Starts : p < Pos
    BY <1>1, NothingBehind
  <1>3. \A tag, min : Below(Pos, tag, min) = {p \in Starts : flash[p].tag = tag /\ Length(p) >= min}
    BY <1>2 DEF Below
  <1> DEFINE last(tag, min) == {p \in Starts : flash[p].tag = tag /\ Length(p) >= min}
  <1>4. Below(Pos, "name", 0) = last("name", 0) /\ Below(Pos, "serial", 0) = last("serial", 0)
        /\ Below(Pos, "mac", MacSize) = last("mac", MacSize)
    BY <1>3
  <1> HIDE DEF last
  <1>5. /\ Text(BoardName) = StringSaid(DefaultName, NAME_MAX, last("name", 0))
        /\ Text(Serial) = StringSaid(DefaultSerial, SERIAL_MAX, last("serial", 0))
        /\ MacAddress = MacSaid(last("mac", MacSize))
    BY <1>1, <1>4 DEF SaidSoFar
  <1>6. /\ Text(BoardName) = IF last("name", 0) = {} THEN Text(DefaultName)
                             ELSE Cut(Text(DataOf(Max(last("name", 0)))), NAME_MAX)
        /\ Text(Serial) = IF last("serial", 0) = {} THEN Text(DefaultSerial)
                          ELSE Cut(Text(DataOf(Max(last("serial", 0)))), SERIAL_MAX)
        /\ MacAddress = IF last("mac", MacSize) = {} THEN DefaultMac
                        ELSE [i \in 0 .. MacSize - 1 |-> flash[Max(last("mac", MacSize)) + HeaderSize + i]]
    BY <1>5 DEF StringSaid, MacSaid
  <1> QED BY <1>6 DEF SaysTheLast, last

LEMMA InfoInvAlways == InfoSpec => []InfoInv
  BY InfoInvInit, InfoInvNext, PTL DEF InfoSpec

\* Whatever the area holds, ParseTlvBlock reads nothing behind the area and the
\* strings it fills are terminated, at every step of the walk.
THEOREM BoardAreaSafe == InfoSpec => []AreaSafe
  <1>1. InfoInv => AreaSafe
    BY InfoAssumption DEF InfoInv, InfoTypeOK, AreaSafe, ReadsInArea
  <1> QED BY <1>1, InfoInvAlways, PTL

\* Whatever the area holds, what BoardInfoDxe installs is what the last whole
\* record of each kind says, cut to its field, and the default where there is
\* none.
THEOREM BoardSaysTheLast == InfoSpec => []SaysTheLast
  BY InfoInvAlways, InfoInvGivesSaysTheLast, PTL
-----------------------------------------------------------------------------
(***************************************************************************)
(* FormatBlockApp, with FormatSpec.                                        *)
(***************************************************************************)

\* Every set of natural numbers has a least element.
LEMMA LeastNat == ASSUME NEW S \in SUBSET Nat, S # {} PROVE \E m \in S : \A x \in S : m <= x
  <1> DEFINE R == OpToRel(<, Nat)
  <1>1. IsWellFoundedOn(R, Nat)
    BY NatLessThanWellFounded
  <1>3. \E m \in S : \A y \in S : ~(<<y, m>> \in R)
    <2> HIDE DEF R
    <2> QED BY <1>1, WFMin
  <1>4. PICK m \in S : \A y \in S : ~(<<y, m>> \in R)
    BY <1>3
  <1>5. ASSUME NEW y \in S PROVE m <= y
    <2>1. y \in Nat /\ m \in Nat
      OBVIOUS
    <2>2. ~(<<y, m>> \in R)
      BY <1>4
    <2>3. (y < m) => <<y, m>> \in R
      BY <2>1 DEF OpToRel
    <2>4. ~(y < m)
      BY <2>2, <2>3
    <2> HIDE DEF R
    <2> QED BY <2>1, <2>4
  <1> QED BY <1>5

LEMMA MinIn == ASSUME NEW S \in SUBSET Nat, S # {} PROVE Min(S) \in S /\ \A x \in S : Min(S) <= x
  BY LeastNat DEF Min

\* A number that fits is not changed; a small negative one wraps once.
LEMMA ModFits == ASSUME NEW N \in Nat \ {0}, NEW x \in 0 .. N - 1 PROVE x % N = x
  <1>1. x = N * 0 + x
    OBVIOUS
  <1>2. (N * 0 + x) % N = x
    BY ModUnique
  <1> QED BY <1>1, <1>2

LEMMA ModWraps == ASSUME NEW N \in Nat \ {0}, NEW x \in 1 .. N PROVE (-x) % N = N - x
  <1> DEFINE q == (-x) \div N
             r == (-x) % N
  <1>1. q \in Int /\ r \in 0 .. N - 1 /\ r = (-x) - N * q
    OBVIOUS
  <1> HIDE DEF q, r
  <1>2. ASSUME q >= 0 PROVE FALSE
    BY <1>1, <1>2
  <1>3. ASSUME q <= -2 PROVE FALSE
    <2>1. N * q <= -(2 * N)
      BY <1>3, <1>1
    <2> QED BY <2>1, <1>1
  <1>4. q = -1
    BY <1>1, <1>2, <1>3
  <1>5. r = N - x
    BY <1>1, <1>4
  <1> QED BY <1>5 DEF r

\* Quotients bound what they divide, and grow with it.
LEMMA DivBounds == ASSUME NEW N \in Nat \ {0}, NEW x \in Nat
                   PROVE  /\ x \div N \in Nat /\ (x \div N) * N <= x /\ x < (x \div N) * N + N
                          /\ x \div N <= x
  <1> DEFINE q == x \div N
             r == x % N
  <1>1. q \in Nat /\ r \in 0 .. N - 1 /\ x = N * q + r
    BY DivMod
  <1> HIDE DEF q, r
  <1>2. q * N <= x /\ x < q * N + N
    BY <1>1
  <1>3. q <= q * N
    BY <1>1
  <1>4. q * N \in Nat
    BY <1>1
  <1>5. q <= x
    BY <1>1, <1>2, <1>3, <1>4
  <1> QED BY <1>1, <1>2, <1>5 DEF q

LEMMA DivGrows == ASSUME NEW N \in Nat \ {0}, NEW x \in Nat, NEW y \in Nat, x <= y
                  PROVE  x \div N <= y \div N
  <1> DEFINE q == x \div N
             p == y \div N
  <1>1. q \in Nat /\ p \in Nat /\ q * N <= x /\ y < p * N + N
    BY DivBounds
  <1> HIDE DEF q, p
  <1>2. q * N < p * N + N
    <2>1. q * N \in Nat /\ p * N \in Nat
      BY <1>1
    <2> QED BY <1>1, <2>1
  <1>3. ASSUME q >= p + 1 PROVE FALSE
    <2>1. q * N >= (p + 1) * N
      BY <1>1, <1>3
    <2>2. (p + 1) * N = p * N + N
      BY <1>1
    <2> QED BY <1>2, <2>1, <2>2, <1>1
  <1>4. q <= p
    BY <1>1, <1>3
  <1> QED BY <1>4 DEF q, p

\* Blocks cover the bytes, are more for more bytes, and no more than the bytes.
LEMMA BlocksCover == ASSUME NEW b \in Nat
                     PROVE  /\ Blocks(b) \in Nat /\ b <= Blocks(b) * BlockSize
                            /\ Blocks(b) * BlockSize <= b + BlockSize - 1
                            /\ b > 0 => Blocks(b) > 0
  <1>1. BlockSize \in Nat \ {0}
    BY FormatAssumption
  <1> DEFINE x == b + BlockSize - 1
             q == x \div BlockSize
  <1>2. x \in Nat
    BY <1>1
  <1>3. q \in Nat /\ q * BlockSize <= x /\ x < q * BlockSize + BlockSize
    BY <1>1, <1>2, DivBounds
  <1> HIDE DEF q
  <1>4. q * BlockSize \in Nat
    BY <1>1, <1>3
  <1>5. b <= q * BlockSize
    BY <1>1, <1>3, <1>4
  <1>6. ASSUME b > 0, q = 0 PROVE FALSE
    <2>1. q * BlockSize = 0
      BY <1>6, <1>1
    <2> QED BY <2>1, <1>5, <1>6
  <1> QED BY <1>3, <1>5, <1>6 DEF Blocks, q

LEMMA BlocksGrow == ASSUME NEW b \in Nat, NEW c \in Nat, b <= c PROVE Blocks(b) <= Blocks(c)
  <1>1. BlockSize \in Nat \ {0}
    BY FormatAssumption
  <1>2. b + BlockSize - 1 \in Nat /\ c + BlockSize - 1 \in Nat /\ b + BlockSize - 1 <= c + BlockSize - 1
    BY <1>1
  <1> QED BY <1>1, <1>2, DivGrows DEF Blocks
(***************************************************************************)
(* The layout.                                                             *)
(***************************************************************************)

LEMMA EntriesFacts == EntriesLbas \in Nat \ {0} /\ RootDirSectors \in Nat /\ 4 * (RootDirSectors + 1) <= Wrap32
  <1>1. EntriesBytes \in Nat \ {0} /\ RootBytes \in Nat \ {0} /\ BlockSize \in Nat /\ Wrap32 \in Nat
    BY FormatAssumption
  <1>2. EntriesLbas \in Nat \ {0}
    BY <1>1, BlocksCover DEF EntriesLbas
  <1> DEFINE r == Blocks(RootBytes)
  <1>3. r \in Nat /\ r * BlockSize <= RootBytes + BlockSize - 1
    BY <1>1, BlocksCover
  <1> HIDE DEF r
  <1>4. BlockSize >= 8 /\ 4 * (RootBytes + BlockSize) <= Wrap32
    BY WidthAssumption
  <1>5. r <= r * BlockSize
    BY <1>1, <1>3, <1>4
  <1>6. r * BlockSize \in Nat
    BY <1>1, <1>3
  <1>7. 4 * (r + 1) <= Wrap32
    BY <1>1, <1>3, <1>4, <1>5, <1>6
  <1> QED BY <1>2, <1>3, <1>7 DEF RootDirSectors, r

LEMMA Clus32Facts == Clus32 \in Nat \ {0}
  <1>1. BlockSize \in Nat \ {0} /\ ClusterBytes \in Nat \ {0}
    BY FormatAssumption
  <1> DEFINE x == IF BlockSize >= ClusterBytes THEN 1 ELSE ClusterBytes \div BlockSize
  <1>2. x \in Nat \ {0}
    <2>1. CASE BlockSize >= ClusterBytes
      BY <2>1
    <2>2. CASE ~(BlockSize >= ClusterBytes)
      <3> DEFINE q == ClusterBytes \div BlockSize
      <3>1. q \in Nat /\ ClusterBytes < q * BlockSize + BlockSize
        BY <1>1, DivBounds
      <3> HIDE DEF q
      <3>2. q # 0
        BY <3>1, <1>1, <2>2
      <3> QED BY <3>1, <3>2, <2>2 DEF q
    <2> QED BY <2>1, <2>2
  <1> HIDE DEF x
  <1>3. Min({128, x}) \in {128, x}
    BY <1>2, MinIn
  <1>4. Clus32 \in {128, x}
    BY <1>3 DEF Clus32, x
  <1> QED BY <1>2, <1>4

\* The widths.
LEMMA U32Fits == ASSUME NEW x \in Nat, x < Wrap32 PROVE U32(x) = x
  BY FormatAssumption, ModFits DEF U32

LEMMA U64Fits == ASSUME NEW x \in Nat, x < Wrap64 PROVE U64(x) = x
  BY FormatAssumption, ModFits DEF U64

LEMMA U32Range == ASSUME NEW x \in Int PROVE U32(x) \in 0 .. Wrap32 - 1
  BY FormatAssumption DEF U32

LEMMA U64Range == ASSUME NEW x \in Int PROVE U64(x) \in 0 .. Wrap64 - 1
  BY FormatAssumption DEF U64

\* What the tables leave to the partition, on a device that has room for one.
LEMMA PartitionFacts ==
    ASSUME total \in 1 .. Wrap64 - 1, total >= 2 * EntriesLbas + 5
    PROVE  /\ FirstUsable = 2 + EntriesLbas
           /\ LastUsable = total - 2 - EntriesLbas
           /\ PartSectors = total - 3 - 2 * EntriesLbas
           /\ U64(LastUsable + 1) = total - 1 - EntriesLbas
  <1>1. EntriesLbas \in Nat \ {0} /\ Wrap64 \in Nat
    BY EntriesFacts, FormatAssumption
  <1>2. FirstUsable = 2 + EntriesLbas
    BY DEF FirstUsable
  <1>3. LastUsable = total - 2 - EntriesLbas
    <2>1. total - 2 - EntriesLbas \in Nat /\ total - 2 - EntriesLbas < Wrap64
      BY <1>1
    <2> QED BY <2>1, U64Fits DEF LastUsable
  <1>4. PartSectors = total - 3 - 2 * EntriesLbas
    <2>1. LastUsable - FirstUsable + 1 = total - 3 - 2 * EntriesLbas
      BY <1>1, <1>2, <1>3
    <2>2. total - 3 - 2 * EntriesLbas \in Nat /\ total - 3 - 2 * EntriesLbas < Wrap64
      BY <1>1
    <2> QED BY <2>1, <2>2, U64Fits DEF PartSectors
  <1>5. U64(LastUsable + 1) = total - 1 - EntriesLbas
    <2>1. LastUsable + 1 = total - 1 - EntriesLbas
      BY <1>1, <1>3
    <2>2. total - 1 - EntriesLbas \in Nat /\ total - 1 - EntriesLbas < Wrap64
      BY <1>1
    <2> QED BY <2>1, <2>2, U64Fits
  <1> QED BY <1>2, <1>3, <1>4, <1>5

\* A FAT16 cluster size is taken only where the sectors it leaves do not go
\* below zero, so the clusters are those that a driver counts, and the FAT has
\* an entry for each.
LEMMA Try16Facts ==
    ASSUME PartSectors \in Nat, 4 * (PartSectors + 2) + BlockSize <= Wrap32,
           NEW c \in Nat \ {0}, 2 * (c * (Max16 + 1)) <= Wrap32, Try16(c).clusters \in Min16 .. Max16
    PROVE  LET t == Try16(c)
           IN  /\ t.fatsz \in Nat /\ t.clusters \in Nat
               /\ 1 + 2 * t.fatsz + RootDirSectors <= PartSectors
               /\ t.clusters = (PartSectors - 1 - 2 * t.fatsz - RootDirSectors) \div c
               /\ (t.clusters + 2) * 2 <= t.fatsz * BlockSize
  <1> DEFINE P == PartSectors
             R == RootDirSectors
             B == BlockSize
             W == Wrap32
             g == U32(U64(P - 1 - R) \div c)
             y == (g + 2) * 2 + B - 1
             f == U32(y) \div B
             d == P - 1 - 2 * f - R
             n == U32(U32(P) - 1 - 2 * f - R) \div c
  <1>1. /\ W \in Nat \ {0} /\ B \in Nat \ {0} /\ B >= 8 /\ Max16 \in Nat /\ Min16 \in Nat
        /\ R \in Nat /\ 4 * (R + 1) <= W /\ P \in Nat /\ 4 * (P + 2) + B <= W /\ Wrap64 \in Nat \ {0}
        /\ Wrap64 >= W
    BY FormatAssumption, WidthAssumption, EntriesFacts
  <1>2. Try16(c).fatsz = f /\ Try16(c).clusters = n
    BY DEF Try16
  <1>3. n \in Min16 .. Max16
    BY <1>2
  <1>4. U32(P) = P
    BY <1>1, U32Fits
  <1>5. g \in 0 .. W - 1
    <2>1. U64(P - 1 - R) \in Nat
      <3>1. P - 1 - R \in Int
        BY <1>1
      <3> QED BY <3>1, U64Range
    <2>2. U64(P - 1 - R) \div c \in Int
      BY <2>1, DivBounds
    <2> QED BY <2>2, U32Range
  <1>6. y \in Nat
    BY <1>1, <1>5
  <1>7. f \in Nat /\ f * B <= W - 1
    <2>1. U32(y) \in 0 .. W - 1
      BY <1>6, U32Range
    <2> DEFINE u == U32(y)
    <2> HIDE DEF u, f
    <2>2. u \in Nat /\ u <= W - 1
      BY <2>1, <1>1 DEF u
    <2>3. f \in Nat /\ f * B <= u
      BY <2>2, <1>1, DivBounds DEF u, f
    <2>4. f * B \in Nat
      BY <2>3, <1>1
    <2> QED BY <2>2, <2>3, <2>4, <1>1
  <1>8. n = U32(d) \div c
    BY <1>4
  <1> HIDE DEF P, R, B, W, g, y, f, n
  <1>9. 8 * f <= W
    <2>1. 8 * f <= f * B
      BY <1>1, <1>7
    <2>2. f * B \in Nat
      BY <1>1, <1>7
    <2> QED BY <2>1, <2>2, <1>7, <1>1
  <1>10. ASSUME d < 0 PROVE FALSE
    <2> DEFINE x == 1 + 2 * f + R - P
               u == U32(d)
    <2>1. x \in 1 .. W /\ 2 * x <= W /\ d = -x
      BY <1>10, <1>1, <1>7, <1>9
    <2> HIDE DEF d, x
    <2>2. u = W - x
      BY <2>1, <1>1, ModWraps DEF U32, W
    <2> HIDE DEF u
    <2>3. u \in Nat /\ 2 * u >= W
      BY <2>1, <2>2, <1>1
    <2>4. c * (Max16 + 1) \in Nat /\ 2 * (c * (Max16 + 1)) <= W
      BY <1>1 DEF W
    <2>5. u >= c * (Max16 + 1)
      BY <2>3, <2>4, <1>1
    <2>6. n \in Nat /\ u < n * c + c
      BY <2>3, <1>8, DivBounds DEF u
    <2>7. n <= Max16
      BY <1>3, <1>1
    <2>8. n * c + c <= c * (Max16 + 1)
      <3>1. n * c <= Max16 * c
        BY <2>6, <2>7, <1>1
      <3>2. c * (Max16 + 1) = Max16 * c + c
        BY <1>1
      <3>3. n * c \in Nat /\ Max16 * c \in Nat
        BY <2>6, <1>1
      <3> QED BY <3>1, <3>2, <3>3
    <2>9. n * c \in Nat
      BY <2>6
    <2> QED BY <2>3, <2>4, <2>5, <2>6, <2>8, <2>9
  <1>11. d \in Nat /\ d <= P - 1 - R /\ d < W /\ P - 1 - R \in Nat
    BY <1>10, <1>1, <1>7
  <1>12. n = d \div c
    <2> HIDE DEF d
    <2>1. U32(d) = d
      BY <1>11, U32Fits DEF W
    <2> QED BY <2>1, <1>8
  <1> DEFINE e == P - 1 - R
             h == e \div c
  <1>13. g = h
    <2>1. e \in Nat /\ e < Wrap64 /\ e < W
      BY <1>11, <1>1
    <2>2. U64(e) = e
      BY <2>1, U64Fits
    <2>3. h \in Nat /\ h <= e
      BY <2>1, DivBounds
    <2>4. h < W
      BY <2>1, <2>3, <1>1
    <2>5. U32(h) = h
      BY <2>3, <2>4, U32Fits DEF W
    <2> QED BY <2>2, <2>5 DEF g
  <1>14. h \in Nat /\ h <= e
    BY <1>11, DivBounds
  <1>15. n \in Nat /\ n <= h
    <2> HIDE DEF d
    <2>1. d \in Nat /\ e \in Nat /\ d <= e
      BY <1>11
    <2> HIDE DEF e
    <2> QED BY <2>1, <1>12, DivBounds, DivGrows
  <1>16. (g + 2) * 2 <= f * B
    <2>1. (g + 2) * 2 \in Nat /\ y < W
      BY <1>1, <1>11, <1>13, <1>14 DEF y
    <2>2. U32(y) = y
      BY <2>1, <1>6, U32Fits DEF W
    <2>3. f = Blocks((g + 2) * 2)
      BY <2>2 DEF f, y, Blocks, B
    <2> QED BY <2>1, <2>3, BlocksCover DEF B
  <1>17. (n + 2) * 2 <= f * B
    <2>1. f * B \in Nat
      BY <1>1, <1>7
    <2> QED BY <2>1, <1>5, <1>13, <1>15, <1>16
  <1>18. 1 + 2 * f + R <= P
    BY <1>11, <1>1, <1>7
  <1>19. n = (P - 1 - 2 * f - R) \div c
    BY <1>12
  <1> HIDE DEF d, e, h
  <1> QED BY <1>2, <1>7, <1>15, <1>17, <1>18, <1>19 DEF P, R, B

LEMMA Try32Facts ==
    ASSUME PartSectors \in Nat, 4 * (PartSectors + 2) + BlockSize <= Wrap32,
           PartSectors >= Rsvd32 + 2 * Blocks(4 * (PartSectors \div Clus32 + 2)) + Clus32
    PROVE  LET t == Try32
           IN  /\ t.fatsz \in Nat /\ t.clusters \in Nat
               /\ Rsvd32 + 2 * t.fatsz + t.clusters * Clus32 <= PartSectors
               /\ Rsvd32 + 2 * t.fatsz + Clus32 <= PartSectors
  <1> DEFINE P == PartSectors
             C == Clus32
             B == BlockSize
             W == Wrap32
             fatsz(m) == U32((m + 2) * 4 + B - 1) \div B
             g == U32(U64(P - Rsvd32) \div C)
             n == U32(U64(P - Rsvd32 - 2 * fatsz(g)) \div C)
             h == P \div C
             F == Blocks(4 * (h + 2))
  <1>1. /\ W \in Nat \ {0} /\ B \in Nat \ {0} /\ C \in Nat \ {0} /\ P \in Nat /\ 4 * (P + 2) + B <= W
        /\ Wrap64 \in Nat \ {0} /\ Wrap64 >= W /\ Rsvd32 \in Nat
    BY FormatAssumption, WidthAssumption, Clus32Facts
  <1>2. Try32.fatsz = fatsz(n) /\ Try32.clusters = n
    BY DEF Try32
  <1>3. h \in Nat /\ h <= P
    BY <1>1, DivBounds
  <1>4. F \in Nat /\ P >= Rsvd32 + 2 * F + C
    <2>1. 4 * (h + 2) \in Nat
      BY <1>3
    <2> QED BY <2>1, BlocksCover
  <1>5. ASSUME NEW m \in Nat, m <= h PROVE fatsz(m) = Blocks((m + 2) * 4) /\ fatsz(m) \in Nat /\ fatsz(m) <= F
    <2> HIDE DEF P, C, W, h, F
    <2>1. (m + 2) * 4 + B - 1 \in Nat /\ (m + 2) * 4 + B - 1 < W /\ (m + 2) * 4 \in Nat
          /\ 4 * (h + 2) \in Nat /\ (m + 2) * 4 <= 4 * (h + 2)
      BY <1>1, <1>3, <1>5
    <2>2. U32((m + 2) * 4 + B - 1) = (m + 2) * 4 + B - 1
      BY <2>1, U32Fits DEF W
    <2>3. fatsz(m) = Blocks((m + 2) * 4)
      BY <2>2 DEF Blocks
    <2>4. Blocks((m + 2) * 4) \in Nat /\ Blocks((m + 2) * 4) <= Blocks(4 * (h + 2))
      BY <2>1, BlocksCover, BlocksGrow
    <2> QED BY <2>3, <2>4 DEF F
  <1> HIDE DEF fatsz, g, n, h, F
  <1> DEFINE e == P - Rsvd32
             d == e - 2 * fatsz(g)
  <1>6. g = e \div C /\ g \in Nat /\ g <= h
    <2>1. e \in Nat /\ e < W /\ e < Wrap64 /\ e <= P
      BY <1>1, <1>4
    <2> HIDE DEF e
    <2>2. U64(e) = e
      BY <2>1, U64Fits
    <2>3. e \div C \in Nat /\ e \div C <= e /\ e \div C <= h
      BY <2>1, <1>1, DivBounds, DivGrows DEF h
    <2>4. e \div C < W
      BY <2>1, <2>3, <1>1
    <2>5. U32(e \div C) = e \div C
      BY <2>3, <2>4, U32Fits DEF W
    <2> QED BY <2>2, <2>3, <2>5 DEF g, e
  <1>7. fatsz(g) \in Nat /\ fatsz(g) <= F
    BY <1>5, <1>6
  <1>8. d \in Nat /\ d >= C /\ d <= e /\ e \in Nat /\ e < W
    BY <1>7, <1>4, <1>1
  <1>9. n = d \div C /\ n \in Nat /\ n <= g
    <2>1. d = P - Rsvd32 - 2 * fatsz(g)
      OBVIOUS
    <2> HIDE DEF d, e
    <2>2. d < Wrap64 /\ d < W
      BY <1>8, <1>1
    <2>3. U64(d) = d
      BY <2>2, <1>8, U64Fits
    <2>4. d \div C \in Nat /\ d \div C <= d /\ d \div C <= e \div C
      BY <1>8, <1>1, DivBounds, DivGrows
    <2>5. d \div C < W
      BY <2>2, <2>4, <1>8, <1>1
    <2>6. U32(d \div C) = d \div C
      BY <2>4, <2>5, U32Fits DEF W
    <2> QED BY <2>1, <2>3, <2>4, <2>6, <1>6 DEF n
  <1>10. fatsz(n) \in Nat /\ fatsz(n) <= fatsz(g)
    <2>1. n <= h
      BY <1>3, <1>6, <1>9
    <2>2. fatsz(n) = Blocks((n + 2) * 4) /\ fatsz(n) \in Nat /\ fatsz(g) = Blocks((g + 2) * 4)
      BY <2>1, <1>9, <1>5, <1>6
    <2>3. (n + 2) * 4 \in Nat /\ (g + 2) * 4 \in Nat /\ (n + 2) * 4 <= (g + 2) * 4
      BY <1>6, <1>9
    <2> QED BY <2>2, <2>3, BlocksGrow
  <1>11. n * C <= d /\ n * C \in Nat
    <2> HIDE DEF d
    <2> QED BY <1>8, <1>9, <1>1, DivBounds
  <1>12. Rsvd32 + 2 * fatsz(n) + n * C <= P
    BY <1>1, <1>7, <1>10, <1>11
  <1>13. Rsvd32 + 2 * fatsz(n) + C <= P
    BY <1>1, <1>7, <1>8, <1>10
  <1> QED BY <1>2, <1>9, <1>10, <1>12, <1>13
\* The sizes of a volume are numbers on every device.
LEMMA Try16Type == ASSUME PartSectors \in Nat, NEW c \in Nat \ {0}
                   PROVE  Try16(c).fatsz \in Nat
  <1> DEFINE g == U32(U64(PartSectors - 1 - RootDirSectors) \div c)
             y == (g + 2) * 2 + BlockSize - 1
  <1>1. BlockSize \in Nat \ {0} /\ RootDirSectors \in Nat /\ Wrap32 \in Nat /\ Wrap64 \in Nat
    BY FormatAssumption, EntriesFacts
  <1>2. U64(PartSectors - 1 - RootDirSectors) \in Nat
    <2>1. PartSectors - 1 - RootDirSectors \in Int
      BY <1>1
    <2> QED BY <2>1, <1>1, U64Range
  <1>3. U64(PartSectors - 1 - RootDirSectors) \div c \in Int
    BY <1>2, DivBounds
  <1>4. g \in Nat
    BY <1>3, <1>1, U32Range
  <1> HIDE DEF g
  <1>5. y \in Int
    BY <1>4, <1>1
  <1> HIDE DEF y
  <1>6. U32(y) \in Nat
    BY <1>5, <1>1, U32Range
  <1>7. U32(y) \div BlockSize \in Nat
    BY <1>6, <1>1, DivBounds
  <1> QED BY <1>7 DEF Try16, g, y

LEMMA Try32Type == ASSUME PartSectors \in Nat PROVE Try32.fatsz \in Nat
  <1> DEFINE fatsz(m) == U32((m + 2) * 4 + BlockSize - 1) \div BlockSize
             g == U32(U64(PartSectors - Rsvd32) \div Clus32)
             d == PartSectors - Rsvd32 - 2 * fatsz(g)
             n == U32(U64(d) \div Clus32)
  <1>1. BlockSize \in Nat \ {0} /\ Rsvd32 \in Nat /\ Clus32 \in Nat \ {0} /\ Wrap32 \in Nat /\ Wrap64 \in Nat
    BY FormatAssumption, Clus32Facts
  <1>2. ASSUME NEW m \in Nat PROVE fatsz(m) \in Nat
    <2> DEFINE y == (m + 2) * 4 + BlockSize - 1
    <2>1. y \in Int
      BY <1>1
    <2> HIDE DEF y
    <2>2. U32(y) \in Nat
      BY <2>1, <1>1, U32Range
    <2>3. U32(y) \div BlockSize \in Nat
      BY <2>2, <1>1, DivBounds
    <2> QED BY <2>3 DEF y
  <1>3. ASSUME NEW x \in Int PROVE U32(U64(x) \div Clus32) \in Nat
    <2>1. U64(x) \in Nat
      BY <1>1, U64Range
    <2>2. U64(x) \div Clus32 \in Int
      BY <2>1, <1>1, DivBounds
    <2> QED BY <2>2, <1>1, U32Range
  <1> HIDE DEF fatsz
  <1>4. g \in Nat
    BY <1>3, <1>1
  <1> HIDE DEF g
  <1>5. d \in Int
    BY <1>1, <1>2, <1>4
  <1>6. n \in Nat
    BY <1>3, <1>5
  <1>7. fatsz(n) \in Nat
    BY <1>2, <1>6
  <1> QED BY <1>7 DEF Try32, fatsz, g

\* The volume is the first FAT16 that fits or FAT32.
LEMMA FatChoice ==
    \/ Fat = Try32
    \/ \E s \in 0 .. MaxShift : /\ Fat = Try16(2 ^ s) /\ Try16(2 ^ s).clusters \in Min16 .. Max16
                                /\ 2 ^ s \in Nat \ {0} /\ 2 * (2 ^ s * (Max16 + 1)) <= Wrap32
  <1> DEFINE fitting == {s \in 0 .. MaxShift : Fits16(s)}
  <1>1. CASE fitting = {}
    BY <1>1 DEF Fat
  <1>2. CASE fitting # {}
    <2> DEFINE m == Min(fitting)
    <2>1. m \in fitting
      <3>1. fitting \in SUBSET Nat
        BY FormatAssumption
      <3> HIDE DEF fitting
      <3> QED BY <3>1, <1>2, MinIn
    <2>2. Fat = Try16(2 ^ m)
      BY <1>2 DEF Fat
    <2> HIDE DEF m
    <2>3. m \in 0 .. MaxShift /\ Try16(2 ^ m).clusters \in Min16 .. Max16
      BY <2>1 DEF Fits16
    <2> QED BY <2>2, <2>3, WidthAssumption
  <1> QED BY <1>1, <1>2

LEMMA FatType ==
    ASSUME PartSectors \in Nat
    PROVE  /\ Fat.fatsz \in Nat /\ Fat.clus \in Nat \ {0} /\ Fat.rsvd \in Nat /\ Fat.root \in Nat
           /\ Fat.fat32 \in BOOLEAN
  <1>1. CASE Fat = Try32
    <2>1. Try32.clus = Clus32 /\ Try32.rsvd = Rsvd32 /\ Try32.root = 0 /\ Try32.fat32 = TRUE
      BY DEF Try32
    <2>2. Rsvd32 \in Nat
      BY FormatAssumption
    <2>3. Fat.fatsz \in Nat /\ Fat.clus \in Nat \ {0} /\ Fat.rsvd \in Nat /\ Fat.root \in Nat
      <3>1. Fat.clus = Clus32 /\ Fat.rsvd = Rsvd32 /\ Fat.root = 0 /\ Fat.fatsz = Try32.fatsz
        BY <1>1, <2>1, Zenon
      <3> QED BY <3>1, <2>2, Try32Type, Clus32Facts
    <2>4. Fat.fat32 \in BOOLEAN
      BY <1>1, <2>1, Zenon
    <2> QED BY <2>3, <2>4, Zenon
  <1>2. CASE Fat # Try32
    <2>1. PICK s \in 0 .. MaxShift : Fat = Try16(2 ^ s) /\ 2 ^ s \in Nat \ {0}
      BY <1>2, FatChoice
    <2> DEFINE c == 2 ^ s
    <2>2. Try16(c).clus = c /\ Try16(c).rsvd = 1 /\ Try16(c).root = RootDirSectors /\ Try16(c).fat32 = FALSE
      BY DEF Try16
    <2>3. c \in Nat \ {0} /\ Fat = Try16(c)
      BY <2>1
    <2> HIDE DEF c
    <2>4. Fat.fatsz \in Nat /\ Fat.clus \in Nat \ {0} /\ Fat.rsvd \in Nat /\ Fat.root \in Nat
      <3>1. Fat.clus = c /\ Fat.rsvd = 1 /\ Fat.root = RootDirSectors /\ Fat.fatsz = Try16(c).fatsz
        BY <2>2, <2>3, Zenon
      <3> QED BY <3>1, <2>3, Try16Type, EntriesFacts
    <2>5. Fat.fat32 \in BOOLEAN
      BY <2>2, <2>3, Zenon
    <2> QED BY <2>4, <2>5, Zenon
  <1> QED BY <1>1, <1>2

\* On a device of a size the arithmetic is made for, the parts of the volume
\* and its clusters fit the partition.
LEMMA VolumeFits ==
    ASSUME total \in 1 .. Wrap64 - 1, total >= 2 * EntriesLbas + 5, SizeFits(total)
    PROVE  /\ PartSectors \in Nat /\ Fat.clusters \in Nat
           /\ Fat.rsvd + 2 * Fat.fatsz + Fat.root + Fat.clusters * Fat.clus <= PartSectors
           /\ Fat.fat32 => /\ Fat.rsvd >= 8 /\ Fat.root = 0
                           /\ Fat.rsvd + 2 * Fat.fatsz + Fat.clus <= PartSectors
           /\ ~Fat.fat32 => /\ Fat.rsvd = 1
                            /\ Counted = Fat.clusters /\ Counted \in Min16 .. Max16
                            /\ (Counted + 2) * 2 <= Fat.fatsz * BlockSize
  <1> DEFINE P == PartSectors
  <1>0. /\ EntriesLbas \in Nat \ {0} /\ BlockSize \in Nat \ {0} /\ Wrap32 \in Nat /\ Rsvd32 \in Nat
        /\ RootDirSectors \in Nat /\ Wrap64 \in Nat /\ Rsvd32 >= 8
    BY EntriesFacts, FormatAssumption, WidthAssumption
  <1>1. P = total - 3 - 2 * EntriesLbas
    BY PartitionFacts
  <1>2. P \in Nat /\ P >= 2 /\ 4 * (P + 2) + BlockSize <= Wrap32
    <2>1. 4 * (total + 2) + BlockSize <= Wrap32
      BY DEF SizeFits
    <2> HIDE DEF P
    <2> QED BY <1>0, <1>1, <2>1
  <1>3. P >= Rsvd32 + 2 * Blocks(4 * (P \div Clus32 + 2)) + Clus32
    BY <1>1, <1>2 DEF SizeFits
  <1>4. CASE Fat = Try32
    <2>1. Fat.clus = Clus32 /\ Fat.rsvd = Rsvd32 /\ Fat.root = 0 /\ Fat.fat32 = TRUE
      BY <1>4 DEF Try32
    <2>2. /\ Fat.fatsz \in Nat /\ Fat.clusters \in Nat
          /\ Rsvd32 + 2 * Fat.fatsz + Fat.clusters * Clus32 <= P
          /\ Rsvd32 + 2 * Fat.fatsz + Clus32 <= P
      BY <1>2, <1>3, <1>4, Try32Facts
    <2> DEFINE m == Fat.clusters * Clus32
               f == Fat.fatsz
    <2>3. m \in Nat
      BY <2>2, Clus32Facts
    <2> HIDE DEF m, f, P
    <2>4. Rsvd32 + 2 * f + 0 + m <= P
      BY <2>2, <2>3, <1>0 DEF m, f
    <2> QED BY <2>1, <2>2, <2>4, <1>0, <1>2 DEF m, f, P
  <1>5. CASE Fat # Try32
    <2>1. PICK s \in 0 .. MaxShift : /\ Fat = Try16(2 ^ s) /\ Try16(2 ^ s).clusters \in Min16 .. Max16
                                     /\ 2 ^ s \in Nat \ {0} /\ 2 * (2 ^ s * (Max16 + 1)) <= Wrap32
      BY <1>5, FatChoice
    <2> DEFINE c == 2 ^ s
               R == RootDirSectors
               f == Fat.fatsz
               n == Fat.clusters
    <2>2. /\ Fat = Try16(c) /\ n \in Min16 .. Max16 /\ c \in Nat \ {0}
          /\ 2 * (c * (Max16 + 1)) <= Wrap32 /\ Try16(c).clusters \in Min16 .. Max16
      BY <2>1
    <2> HIDE DEF c
    <2>3. Fat.clus = c /\ Fat.rsvd = 1 /\ Fat.root = R /\ Fat.fat32 = FALSE
      BY <2>2 DEF Try16
    <2>4. /\ f \in Nat /\ n \in Nat /\ 1 + 2 * f + R <= P
          /\ n = (P - 1 - 2 * f - R) \div c /\ (n + 2) * 2 <= f * BlockSize
      BY <1>2, <2>2, Try16Facts
    <2>5. Counted = n
      BY <2>3, <2>4 DEF Counted
    <2> HIDE DEF f, n, P, R
    <2>6. 1 + 2 * f + R + n * c <= P
      <3> DEFINE x == P - 1 - 2 * f - R
      <3>1. x \in Nat
        BY <2>4, <1>0, <1>2 DEF R
      <3> HIDE DEF x
      <3>2. n * c <= x /\ n * c \in Nat
        <4>1. n = x \div c
          BY <2>4 DEF x
        <4> QED BY <4>1, <3>1, <2>2, <2>4, DivBounds
      <3> QED BY <3>1, <3>2, <2>4, <1>0, <1>2 DEF x, R
    <2> QED BY <2>2, <2>3, <2>4, <2>5, <2>6, <1>2 DEF f, n, P, R
  <1> QED BY <1>4, <1>5
(***************************************************************************)
(* The parts in the order they are written, and where they belong.         *)
(***************************************************************************)
AllParts == TableParts \cup FatParts

PartNo == [mbr |-> 1, header |-> 2, entries |-> 3, backupEntries |-> 4, backupHeader |-> 5,
           boot |-> 6, boot2 |-> 7, fsinfo |-> 8, fsinfo2 |-> 9, fat |-> 10, fat2 |-> 11, root |-> 12]

\* The first part that may still be written.
StageNo == [start |-> 1, register |-> 1, locate |-> 1, mbr |-> 1, gpt |-> 2, header |-> 2, entries |-> 3,
            backup |-> 4, backupHeader |-> 5, boot |-> 6, boot2 |-> 7, fsinfo |-> 8, fsinfo2 |-> 9,
            fat |-> 10, fat2 |-> 11, root |-> 12, reconnect |-> 13, returned |-> 13]

Stages == {"start", "register", "locate", "mbr", "gpt", "header", "entries", "backup", "backupHeader",
           "boot", "boot2", "fsinfo", "fsinfo2", "fat", "fat2", "root", "reconnect", "returned"}

Lo(w) == CASE w = "mbr" -> 0
           [] w = "header" -> 1
           [] w = "entries" -> 2
           [] w = "backupEntries" -> U64(LastUsable + 1)
           [] w = "backupHeader" -> total - 1
           [] w = "boot" -> FirstUsable
           [] w = "boot2" -> FirstUsable + 6
           [] w = "fsinfo" -> FirstUsable + 1
           [] w = "fsinfo2" -> FirstUsable + 7
           [] w = "fat" -> FatStartLba
           [] w = "fat2" -> Fat2StartLba
           [] OTHER -> IF Fat.fat32 THEN DataStartLba ELSE RootDirLba

Count(w) == CASE w \in {"entries", "backupEntries"} -> EntriesLbas
              [] w \in {"fat", "fat2"} -> Fat.fatsz
              [] w = "root" -> IF Fat.fat32 THEN Fat.clus ELSE Fat.root
              [] OTHER -> 1

RoomForBoth == total >= 2 * EntriesLbas + 5
WholeOf(w)  == \E i \in DOMAIN writes : writes[i].what = w /\ writes[i].whole

Writes == [what : AllParts, lo : Int, n : Nat, whole : BOOLEAN]

FormatTypeOK ==
    /\ stage \in Stages
    /\ total \in 1 .. Wrap64 - 1
    /\ writes \in Seq(Writes)

\* Every part is written at most once, in order, and at its place.
PutOnce ==
    /\ \A i \in DOMAIN writes : PartNo[writes[i].what] < StageNo[stage]
    /\ \A i, j \in DOMAIN writes : i # j => writes[i].what # writes[j].what

PutInPlace ==
    \A i \in DOMAIN writes : LET v == writes[i] IN v.lo = Lo(v.what) /\ v.n <= Count(v.what)

\* The second half of the tables, and the volume, are written only where both
\* halves have room; what only FAT32 has, only for FAT32.
PutWithRoom ==
    \A i \in DOMAIN writes :
        /\ PartNo[writes[i].what] >= 4 => RoomForBoth
        /\ PartNo[writes[i].what] \in 7 .. 9 => Fat.fat32

StageHasRoom ==
    /\ stage \in {"header", "entries"} => LastUsable > FirstUsable
    /\ (StageNo[stage] >= 4 /\ stage # "returned") => RoomForBoth
    /\ stage \in {"boot2", "fsinfo", "fsinfo2"} => Fat.fat32

TablesSoFar ==
    /\ stage # "returned" =>
        status = "none" /\ \A w \in TableParts : PartNo[w] < StageNo[stage] => WholeOf(w)
    /\ status = "SUCCESS" => \A w \in TableParts : WholeOf(w)

FormatInv == FormatTypeOK /\ PutOnce /\ PutInPlace /\ PutWithRoom /\ StageHasRoom /\ TablesSoFar

LEMMA PartNos == \A w \in AllParts : PartNo[w] \in 1 .. 12
  BY DEF AllParts, TableParts, PrimaryParts, BackupParts, FatParts, PartNo

LEMMA StageNos == \A s \in Stages : StageNo[s] \in 1 .. 13
  BY DEF Stages, StageNo

\* The layout is a matter of the device's size alone.
LEMMA SameLayout ==
    ASSUME total' = total, NEW w
    PROVE  LastUsable' = LastUsable /\ Fat' = Fat /\ Lo(w)' = Lo(w) /\ Count(w)' = Count(w)
  <1>1. LastUsable' = LastUsable
    BY DEF LastUsable
  <1>2. PartSectors' = PartSectors
    BY <1>1 DEF PartSectors
  <1>3. ASSUME NEW c PROVE Try16(c)' = Try16(c)
    BY <1>2 DEF Try16
  <1>4. Try32' = Try32
    BY <1>2 DEF Try32
  <1>5. ASSUME NEW s PROVE Fits16(s)' <=> Fits16(s)
    BY <1>3 DEF Fits16
  <1>6. {s \in 0 .. MaxShift : Fits16(s)}' = {s \in 0 .. MaxShift : Fits16(s)}
    BY <1>5
  <1>7. Fat' = Fat
    BY <1>3, <1>4, <1>6 DEF Fat
  <1>8. FatStartLba' = FatStartLba /\ Fat2StartLba' = Fat2StartLba /\ RootDirLba' = RootDirLba
        /\ DataStartLba' = DataStartLba
    BY <1>7 DEF FatStartLba, Fat2StartLba, RootDirLba, DataStartLba
  <1>9. Lo(w)' = Lo(w)
    BY <1>1, <1>7, <1>8 DEF Lo
  <1>10. Count(w)' = Count(w)
    BY <1>7 DEF Count
  <1> QED BY <1>1, <1>7, <1>9, <1>10

LEMMA PartSectorsType == ASSUME total \in 1 .. Wrap64 - 1 PROVE PartSectors \in Nat /\ LastUsable \in Nat
  <1>1. Wrap64 \in Nat /\ EntriesLbas \in Nat
    BY FormatAssumption, EntriesFacts
  <1>2. LastUsable \in Nat
    <2>1. total - 2 - EntriesLbas \in Int
      BY <1>1
    <2> QED BY <2>1, <1>1, U64Range DEF LastUsable
  <1>3. PartSectors \in Nat
    <2>1. LastUsable - FirstUsable + 1 \in Int
      BY <1>1, <1>2 DEF FirstUsable
    <2> QED BY <2>1, <1>1, U64Range DEF PartSectors
  <1> QED BY <1>2, <1>3

LEMMA PlaceType == ASSUME total \in 1 .. Wrap64 - 1, NEW w \in AllParts
                   PROVE  Lo(w) \in Int /\ Count(w) \in Nat
  <1>1. /\ Fat.fatsz \in Nat /\ Fat.clus \in Nat \ {0} /\ Fat.rsvd \in Nat /\ Fat.root \in Nat
    BY PartSectorsType, FatType
  <1>2. EntriesLbas \in Nat /\ Wrap64 \in Nat /\ LastUsable \in Nat /\ FirstUsable \in Nat
    BY PartSectorsType, EntriesFacts, FormatAssumption DEF FirstUsable
  <1>3. U64(LastUsable + 1) \in Int
    <2>1. LastUsable + 1 \in Int
      BY <1>2
    <2> QED BY <2>1, <1>2, U64Range
  <1>4. FatStartLba \in Int /\ Fat2StartLba \in Int /\ RootDirLba \in Int /\ DataStartLba \in Int
    BY <1>1, <1>2 DEF FatStartLba, Fat2StartLba, RootDirLba, DataStartLba
  <1>5. Lo(w) \in Int
    BY <1>2, <1>3, <1>4 DEF Lo
  <1>6. Count(w) \in Nat
    BY <1>1, <1>2 DEF Count
  <1> QED BY <1>5, <1>6
(***************************************************************************)
(* The invariant.                                                          *)
(***************************************************************************)

\* What one more part adds to the writes.
LEMMA PutKeeps ==
    ASSUME FormatInv, NEW w \in AllParts, NEW k \in 0 .. Count(w), NEW whole \in BOOLEAN,
           writes' = Append(writes, [what |-> w, lo |-> Lo(w), n |-> k, whole |-> whole]),
           total' = total, stage' \in Stages,
           StageNo[stage] <= PartNo[w], PartNo[w] < StageNo[stage'],
           PartNo[w] >= 4 => RoomForBoth, PartNo[w] \in 7 .. 9 => Fat.fat32
    PROVE  /\ FormatTypeOK' /\ PutOnce' /\ PutInPlace' /\ PutWithRoom'
           /\ \A v : WholeOf(v) => WholeOf(v)'
           /\ whole => WholeOf(w)'
  <1> USE DEF FormatInv
  <1> DEFINE r == [what |-> w, lo |-> Lo(w), n |-> k, whole |-> whole]
  <1>1. writes' = Append(writes, r) /\ writes \in Seq(Writes)
    BY DEF FormatTypeOK
  <1>2. Lo(w) \in Int /\ Count(w) \in Nat
    BY PlaceType DEF FormatTypeOK
  <1>3. r \in Writes
    <2>1. k \in Nat
      BY <1>2
    <2> QED BY <1>2, <2>1 DEF Writes
  <1>4. r.what = w /\ r.lo = Lo(w) /\ r.n = k
    OBVIOUS
  <1>5. whole => r.whole
    OBVIOUS
  <1> DEFINE m == Len(writes)
  <1> HIDE DEF r
  <1>6. /\ writes' \in Seq(Writes) /\ m \in Nat /\ DOMAIN writes = 1 .. m /\ DOMAIN writes' = 1 .. m + 1
        /\ \A i \in 1 .. m : writes'[i] = writes[i]
        /\ writes'[m + 1] = r
    BY <1>1, <1>3
  <1> HIDE DEF m
  <1>7. FormatTypeOK'
    BY <1>6 DEF FormatTypeOK
  <1>8. /\ PartNo[w] \in Nat /\ StageNo[stage] \in Nat /\ StageNo[stage'] \in Nat
        /\ \A i \in DOMAIN writes : writes[i].what \in AllParts /\ PartNo[writes[i].what] \in Nat
    <2>1. \A i \in DOMAIN writes : writes[i] \in Writes
      BY <1>1
    <2>2. \A i \in DOMAIN writes : writes[i].what \in AllParts
      BY <2>1 DEF Writes
    <2>3. \A i \in DOMAIN writes : PartNo[writes[i].what] \in Nat
      BY <2>2, PartNos
    <2>4. PartNo[w] \in Nat
      BY PartNos
    <2>5. StageNo[stage] \in Nat /\ StageNo[stage'] \in Nat
      <3>1. stage \in Stages /\ stage' \in Stages
        BY DEF FormatTypeOK
      <3> HIDE DEF FormatInv
      <3>2. \A s \in Stages : StageNo[s] \in Nat
        BY StageNos
      <3> QED BY <3>1, <3>2, Zenon
    <2> QED BY <2>2, <2>3, <2>4, <2>5
  <1>9. \A i \in DOMAIN writes : PartNo[writes[i].what] < PartNo[w] /\ writes[i].what # w
    BY <1>8 DEF PutOnce
  <1>10. PutOnce'
    <2>1. ASSUME NEW i \in DOMAIN writes' PROVE PartNo[writes'[i].what] < StageNo[stage']
      <3>1. CASE i = m + 1
        BY <3>1, <1>4, <1>6
      <3>2. CASE i \in 1 .. m
        BY <3>2, <1>6, <1>8, <1>9
      <3> QED BY <3>1, <3>2, <1>6
    <2>2. ASSUME NEW i \in DOMAIN writes', NEW j \in DOMAIN writes', i # j
          PROVE  writes'[i].what # writes'[j].what
      <3>1. CASE i \in 1 .. m /\ j \in 1 .. m
        BY <3>1, <2>2, <1>6 DEF PutOnce
      <3>2. CASE i = m + 1 /\ j \in 1 .. m
        BY <3>2, <1>4, <1>6, <1>9
      <3>3. CASE j = m + 1 /\ i \in 1 .. m
        BY <3>3, <1>4, <1>6, <1>9
      <3> QED BY <2>2, <3>1, <3>2, <3>3, <1>6
    <2> QED BY <2>1, <2>2 DEF PutOnce
  <1>11. PutInPlace'
    <2>1. ASSUME NEW i \in DOMAIN writes', NEW v, v = writes'[i].what
          PROVE  writes'[i].lo = Lo(v)' /\ writes'[i].n <= Count(v)'
      <3>1. Lo(v)' = Lo(v) /\ Count(v)' = Count(v)
        BY SameLayout
      <3>2. CASE i = m + 1
        BY <3>1, <3>2, <2>1, <1>2, <1>4, <1>6
      <3>3. CASE i \in 1 .. m
        BY <3>1, <3>3, <2>1, <1>6 DEF PutInPlace
      <3> QED BY <3>2, <3>3, <1>6
    <2> QED BY <2>1 DEF PutInPlace
  <1>12. PutWithRoom'
    <2>1. (RoomForBoth' <=> RoomForBoth) /\ Fat' = Fat
      BY SameLayout DEF RoomForBoth
    <2>2. ASSUME NEW i \in DOMAIN writes'
          PROVE  /\ PartNo[writes'[i].what] >= 4 => RoomForBoth
                 /\ PartNo[writes'[i].what] \in 7 .. 9 => Fat.fat32
      <3>1. CASE i = m + 1
        BY <3>1, <1>4, <1>6
      <3>2. CASE i \in 1 .. m
        BY <3>2, <1>6 DEF PutWithRoom
      <3> QED BY <3>1, <3>2, <1>6
    <2> QED BY <2>1, <2>2 DEF PutWithRoom
  <1>13. ASSUME NEW v, WholeOf(v) PROVE WholeOf(v)'
    <2>1. PICK i \in DOMAIN writes : writes[i].what = v /\ writes[i].whole
      BY <1>13 DEF WholeOf
    <2>2. i \in DOMAIN writes' /\ writes'[i] = writes[i]
      BY <1>6
    <2> QED BY <2>1, <2>2 DEF WholeOf
  <1>14. ASSUME whole PROVE WholeOf(w)'
    <2>1. m + 1 \in DOMAIN writes'
      BY <1>6
    <2> QED BY <2>1, <1>4, <1>5, <1>6, <1>14 DEF WholeOf
  <1> QED BY <1>7, <1>10, <1>11, <1>12, <1>13, <1>14

\* A part whose failure is returned.
LEMMA CheckedKeeps ==
    ASSUME FormatInv, NEW w \in AllParts, NEW at \in Stages \ {"returned"}, NEW next \in Stages \ {"returned"},
           Checked(at, w, Lo(w), Count(w), next),
           StageNo[at] <= PartNo[w], PartNo[w] < StageNo[next],
           PartNo[w] >= 4 => RoomForBoth, PartNo[w] \in 7 .. 9 => Fat.fat32,
           next \in {"header", "entries"} => LastUsable > FirstUsable,
           (Count(w) > 0 => Lo(w) + Count(w) <= total) => (StageNo[next] >= 4 => RoomForBoth),
           next \in {"boot2", "fsinfo", "fsinfo2"} => Fat.fat32,
           \A v \in TableParts : PartNo[v] < StageNo[next] => PartNo[v] < StageNo[at] \/ v = w
    PROVE  FormatInv'
  <1>1. PICK k \in 0 .. Count(w) :
            /\ Put(w, Lo(w), Count(w), k)
            /\ IF k = Count(w) THEN stage' = next /\ status' = status ELSE Finish("DEVICE_ERROR")
    BY DEF Checked
  <1>2. stage = at /\ total' = total /\ status = "none" /\ Count(w) \in Nat
    <2>1. stage = at /\ total' = total
      BY DEF Checked
    <2> QED BY <2>1, PlaceType DEF FormatInv, TablesSoFar, FormatTypeOK
  <1> DEFINE whole == k = Count(w)
  <1>0. /\ whole \in BOOLEAN
        /\ writes' = Append(writes, [what |-> w, lo |-> Lo(w), n |-> k, whole |-> whole])
    BY <1>1 DEF Put
  <1> HIDE DEF whole
  <1>3. CASE k = Count(w)
    <2>1. stage' = next /\ status' = "none"
      BY <1>1, <1>2, <1>3
    <2>2. /\ FormatTypeOK' /\ PutOnce' /\ PutInPlace' /\ PutWithRoom'
          /\ \A v : WholeOf(v) => WholeOf(v)'
          /\ whole => WholeOf(w)'
      BY <1>0, <1>2, <2>1, PutKeeps
    <2>3. StageHasRoom'
      <3>1. Count(w) > 0 => Lo(w) + Count(w) <= total
        BY <1>1, <1>3 DEF Put
      <3>2. LastUsable' = LastUsable /\ Fat' = Fat /\ (RoomForBoth' <=> RoomForBoth)
        BY <1>2, SameLayout DEF RoomForBoth
      <3> QED BY <2>1, <3>1, <3>2 DEF StageHasRoom
    <2>4. TablesSoFar'
      <3>1. ASSUME NEW v \in TableParts, PartNo[v] < StageNo[next] PROVE WholeOf(v)'
        <4>1. CASE v = w
          BY <4>1, <1>3, <2>2 DEF whole
        <4>2. CASE PartNo[v] < StageNo[at]
          <5>1. WholeOf(v)
            BY <4>2, <1>2 DEF FormatInv, TablesSoFar
          <5> QED BY <5>1, <2>2
        <4> QED BY <3>1, <4>1, <4>2
      <3> QED BY <3>1, <2>1 DEF TablesSoFar
    <2> QED BY <2>2, <2>3, <2>4 DEF FormatInv
  <1>4. CASE k # Count(w)
    <2>1. stage' = "returned" /\ status' = "DEVICE_ERROR"
      BY <1>1, <1>4 DEF Finish
    <2>2. PartNo[w] < StageNo["returned"] /\ "returned" \in Stages
      BY PartNos DEF StageNo, Stages
    <2>3. /\ FormatTypeOK' /\ PutOnce' /\ PutInPlace' /\ PutWithRoom'
      BY <1>0, <1>2, <2>1, <2>2, PutKeeps
    <2>4. StageHasRoom' /\ TablesSoFar'
      BY <2>1 DEF StageHasRoom, TablesSoFar
    <2> QED BY <2>3, <2>4 DEF FormatInv
  <1> QED BY <1>3, <1>4

\* A part whose failure is not looked at.
LEMMA UncheckedKeeps ==
    ASSUME FormatInv, NEW w \in FatParts, NEW at \in Stages \ {"returned"}, NEW next \in Stages \ {"returned"},
           Unchecked(at, w, Lo(w), Count(w), next),
           StageNo[at] <= PartNo[w], PartNo[w] < StageNo[next], StageNo[at] >= 6,
           PartNo[w] \in 7 .. 9 => Fat.fat32,
           next \in {"boot2", "fsinfo", "fsinfo2"} => Fat.fat32
    PROVE  FormatInv'
  <1> DEFINE k == OnDevice(Lo(w), Count(w))
  <1>1. PICK whole \in BOOLEAN :
            writes' = Append(writes, [what |-> w, lo |-> Lo(w), n |-> k, whole |-> whole])
    BY DEF Unchecked
  <1>2. stage = at /\ total' = total /\ stage' = next /\ status' = status
    BY DEF Unchecked
  <1>3. status = "none" /\ RoomForBoth
    BY <1>2, StageNos DEF FormatInv, TablesSoFar, StageHasRoom
  <1>4. w \in AllParts /\ k \in 0 .. Count(w)
    <2>1. w \in AllParts
      BY DEF AllParts
    <2>2. Lo(w) \in Int /\ Count(w) \in Nat /\ total \in Nat
      BY <2>1, PlaceType, FormatAssumption DEF FormatInv, FormatTypeOK
    <2> QED BY <2>1, <2>2 DEF OnDevice
  <1> HIDE DEF k
  <1>5. /\ FormatTypeOK' /\ PutOnce' /\ PutInPlace' /\ PutWithRoom'
        /\ \A v : WholeOf(v) => WholeOf(v)'
    BY <1>1, <1>2, <1>3, <1>4, PutKeeps
  <1>6. StageNo[next] >= 7 /\ \A v \in TableParts : PartNo[v] < StageNo[at]
    <2>1. \A v \in TableParts : PartNo[v] <= 5
      BY DEF TableParts, PrimaryParts, BackupParts, PartNo
    <2>2. StageNo[at] \in Nat /\ StageNo[next] \in Nat /\ PartNo[w] \in Nat
      BY <1>4, StageNos, PartNos
    <2>3. \A v \in TableParts : PartNo[v] \in Nat
      BY PartNos DEF AllParts
    <2> QED BY <2>1, <2>2, <2>3
  <1>7. StageHasRoom'
    <2>1. LastUsable' = LastUsable /\ Fat' = Fat /\ (RoomForBoth' <=> RoomForBoth)
      BY <1>2, SameLayout DEF RoomForBoth
    <2>2. next \notin {"header", "entries"}
      BY <1>6 DEF StageNo
    <2> QED BY <1>2, <1>3, <2>1, <2>2 DEF StageHasRoom
  <1>8. TablesSoFar'
    <2>1. ASSUME NEW v \in TableParts PROVE WholeOf(v)'
      <3>1. WholeOf(v)
        BY <1>2, <1>6 DEF FormatInv, TablesSoFar
      <3> QED BY <3>1, <1>5
    <2> QED BY <2>1, <1>2, <1>3 DEF TablesSoFar
  <1> QED BY <1>5, <1>7, <1>8 DEF FormatInv
\* A step that writes nothing.
LEMMA StillKeeps ==
    ASSUME FormatInv, writes' = writes, total' = total, stage' \in Stages,
           StageNo[stage] <= StageNo[stage'], StageHasRoom',
           stage' # "returned" => stage # "returned" /\ status' = status /\ StageNo[stage'] = StageNo[stage],
           status' = "SUCCESS" => status = "SUCCESS" \/ stage = "reconnect"
    PROVE  FormatInv'
  <1> USE DEF FormatInv
  <1>1. FormatTypeOK'
    BY DEF FormatTypeOK
  <1>2. PutOnce'
    <2>1. \A i \in DOMAIN writes : PartNo[writes[i].what] < StageNo[stage']
      <3>1. \A i \in DOMAIN writes : writes[i] \in Writes
        BY DEF FormatTypeOK
      <3>2. \A i \in DOMAIN writes : writes[i].what \in AllParts
        BY <3>1 DEF Writes
      <3>3. \A i \in DOMAIN writes : PartNo[writes[i].what] \in Nat
        BY <3>2, PartNos
      <3>4. StageNo[stage] \in Nat /\ StageNo[stage'] \in Nat
        BY StageNos DEF FormatTypeOK
      <3> QED BY <3>3, <3>4 DEF PutOnce
    <2> QED BY <2>1 DEF PutOnce
  <1>3. PutInPlace'
    <2>1. ASSUME NEW i \in DOMAIN writes, NEW v, v = writes[i].what
          PROVE  writes[i].lo = Lo(v)' /\ writes[i].n <= Count(v)'
      <3>1. Lo(v)' = Lo(v) /\ Count(v)' = Count(v)
        BY SameLayout
      <3> QED BY <3>1, <2>1 DEF PutInPlace
    <2> QED BY <2>1 DEF PutInPlace
  <1>4. PutWithRoom'
    <2>1. (RoomForBoth' <=> RoomForBoth) /\ Fat' = Fat
      BY SameLayout DEF RoomForBoth
    <2> QED BY <2>1 DEF PutWithRoom
  <1>5. TablesSoFar'
    <2>1. \A v : WholeOf(v)' <=> WholeOf(v)
      BY DEF WholeOf
    <2>2. ASSUME stage = "reconnect" PROVE \A v \in TableParts : WholeOf(v)
      <3>1. \A v \in TableParts : PartNo[v] < StageNo[stage]
        BY <2>2 DEF TableParts, PrimaryParts, BackupParts, PartNo, StageNo
      <3> QED BY <3>1, <2>2 DEF TablesSoFar
    <2>3. stage' # "returned" =>
            status' = "none" /\ \A v \in TableParts : PartNo[v] < StageNo[stage'] => WholeOf(v)
      BY DEF TablesSoFar
    <2>4. status' = "SUCCESS" => \A v \in TableParts : WholeOf(v)
      BY <2>2 DEF TablesSoFar
    <2> QED BY <2>1, <2>3, <2>4 DEF TablesSoFar
  <1> QED BY <1>1, <1>2, <1>3, <1>4, <1>5

\* Before the first write, the device may be any.
LEMMA BeginKeeps ==
    ASSUME FormatInv, stage = "start", writes' = writes, total' \in 1 .. Wrap64 - 1,
           \/ stage' \in {"mbr", "register"} /\ status' = status
           \/ stage' = "returned" /\ status' = "OUT_OF_RESOURCES"
    PROVE  FormatInv'
  <1> USE DEF FormatInv
  <1>1. ASSUME NEW i \in DOMAIN writes PROVE FALSE
    <2>1. writes[i] \in Writes
      BY DEF FormatTypeOK
    <2>2. writes[i].what \in AllParts
      BY <2>1 DEF Writes
    <2>3. PartNo[writes[i].what] >= 1 /\ PartNo[writes[i].what] \in Nat
      BY <2>2, PartNos
    <2>4. PartNo[writes[i].what] < 1
      BY DEF PutOnce, StageNo
    <2> QED BY <2>3, <2>4
  <1>2. FormatTypeOK'
    BY DEF FormatTypeOK, Stages
  <1>3. PutOnce' /\ PutInPlace' /\ PutWithRoom'
    BY <1>1 DEF PutOnce, PutInPlace, PutWithRoom
  <1>4. StageHasRoom'
    BY DEF StageHasRoom, StageNo
  <1>5. TablesSoFar'
    BY DEF TablesSoFar, TableParts, PrimaryParts, BackupParts, PartNo, StageNo
  <1> QED BY <1>2, <1>3, <1>4, <1>5

LEMMA FormatInvInit == FormatInit => FormatInv
  <1> SUFFICES ASSUME FormatInit PROVE FormatInv
    OBVIOUS
  <1>1. writes = <<>> /\ DOMAIN writes = {} /\ writes \in Seq(Writes)
    BY DEF FormatInit
  <1>2. FormatTypeOK
    <2>1. total \in 1 .. Wrap64 - 1
      <3>1. Wrap64 \in Nat /\ Wrap32 \in Nat /\ Wrap64 >= Wrap32 /\ RootBytes \in Nat /\ BlockSize \in Nat
        BY FormatAssumption, WidthAssumption
      <3>2. BlockSize >= 8 /\ 4 * (RootBytes + BlockSize) <= Wrap32
        BY WidthAssumption
      <3> QED BY <3>1, <3>2 DEF FormatInit
    <2> QED BY <1>1, <2>1 DEF FormatTypeOK, FormatInit, Stages
  <1>3. PutOnce /\ PutInPlace /\ PutWithRoom
    BY <1>1 DEF PutOnce, PutInPlace, PutWithRoom
  <1>4. StageHasRoom /\ TablesSoFar
    BY DEF FormatInit, StageHasRoom, TablesSoFar, StageNo, TableParts, PrimaryParts, BackupParts, PartNo
  <1> QED BY <1>2, <1>3, <1>4 DEF FormatInv

LEMMA FormatTablesKeep ==
    ASSUME FormatInv,
           WriteProtectiveMbr \/ WriteHeader \/ WriteEntries \/ WriteBackupEntries \/ WriteBackupHeader
    PROVE  FormatInv'
  <1> USE DEF Stages, StageNo, PartNo, AllParts, TableParts, PrimaryParts, BackupParts, FatParts
  <1>0. EntriesLbas \in Nat \ {0} /\ Wrap64 \in Nat /\ total \in 1 .. Wrap64 - 1
    BY EntriesFacts, FormatAssumption DEF FormatInv, FormatTypeOK
  <1>1. CASE WriteProtectiveMbr
    <2>1. Checked("mbr", "mbr", Lo("mbr"), Count("mbr"), "gpt")
      BY <1>1 DEF WriteProtectiveMbr, Lo, Count
    <2> QED BY <2>1, CheckedKeeps
  <1>2. CASE WriteHeader
    <2>1. Checked("header", "header", Lo("header"), Count("header"), "entries")
      BY <1>2 DEF WriteHeader, Lo, Count
    <2>2. LastUsable > FirstUsable
      BY <1>2 DEF WriteHeader, Checked, FormatInv, StageHasRoom
    <2> QED BY <2>1, <2>2, CheckedKeeps
  <1>3. CASE WriteEntries
    <2>1. Checked("entries", "entries", Lo("entries"), Count("entries"), "backup")
      BY <1>3 DEF WriteEntries, Lo, Count
    <2>2. LastUsable > FirstUsable
      BY <1>3 DEF WriteEntries, Checked, FormatInv, StageHasRoom
    <2>3. Lo("entries") = 2 /\ Count("entries") = EntriesLbas
      BY DEF Lo, Count
    <2>4. ASSUME 2 + EntriesLbas <= total PROVE RoomForBoth
      <3>1. total - 2 - EntriesLbas \in Nat /\ total - 2 - EntriesLbas < Wrap64
        BY <1>0, <2>4
      <3>2. LastUsable = total - 2 - EntriesLbas
        BY <3>1, U64Fits DEF LastUsable
      <3>3. FirstUsable = 2 + EntriesLbas
        BY DEF FirstUsable
      <3> QED BY <2>2, <3>2, <3>3, <1>0 DEF RoomForBoth
    <2>5. (Count("entries") > 0 => Lo("entries") + Count("entries") <= total) => RoomForBoth
      BY <2>3, <2>4, <1>0
    <2> QED BY <2>1, <2>5, CheckedKeeps
  <1>4. CASE WriteBackupEntries
    <2>1. Checked("backup", "backupEntries", Lo("backupEntries"), Count("backupEntries"), "backupHeader")
      BY <1>4 DEF WriteBackupEntries, Lo, Count
    <2>2. RoomForBoth
      BY <1>4 DEF WriteBackupEntries, Checked, FormatInv, StageHasRoom
    <2> QED BY <2>1, <2>2, CheckedKeeps
  <1>5. CASE WriteBackupHeader
    <2>1. Checked("backupHeader", "backupHeader", Lo("backupHeader"), Count("backupHeader"), "boot")
      BY <1>5 DEF WriteBackupHeader, Lo, Count
    <2>2. RoomForBoth
      BY <1>5 DEF WriteBackupHeader, Checked, FormatInv, StageHasRoom
    <2> QED BY <2>1, <2>2, CheckedKeeps
  <1> QED BY <1>1, <1>2, <1>3, <1>4, <1>5

LEMMA FormatFatKeeps == ASSUME FormatInv, FormatFat PROVE FormatInv'
  <1> USE DEF Stages, StageNo, PartNo, AllParts, TableParts, PrimaryParts, BackupParts, FatParts
  <1>1. CASE WriteBoot
    <2>1. RoomForBoth
      BY <1>1 DEF WriteBoot, Checked, FormatInv, StageHasRoom
    <2>2. CASE Fat.fat32
      <3>1. Checked("boot", "boot", Lo("boot"), Count("boot"), "boot2")
        BY <1>1, <2>2 DEF WriteBoot, Lo, Count
      <3> QED BY <3>1, <2>1, <2>2, CheckedKeeps
    <2>3. CASE ~Fat.fat32
      <3>1. Checked("boot", "boot", Lo("boot"), Count("boot"), "fat")
        BY <1>1, <2>3 DEF WriteBoot, Lo, Count
      <3> QED BY <3>1, <2>1, CheckedKeeps
    <2> QED BY <2>2, <2>3
  <1>2. CASE WriteBackupBoot
    <2>1. RoomForBoth /\ Fat.fat32
      BY <1>2 DEF WriteBackupBoot, Checked, FormatInv, StageHasRoom
    <2>2. Checked("boot2", "boot2", Lo("boot2"), Count("boot2"), "fsinfo")
      BY <1>2 DEF WriteBackupBoot, Lo, Count
    <2> QED BY <2>1, <2>2, CheckedKeeps
  <1>3. CASE WriteFsInfo
    <2>1. Fat.fat32
      BY <1>3 DEF WriteFsInfo, Unchecked, FormatInv, StageHasRoom
    <2>2. Unchecked("fsinfo", "fsinfo", Lo("fsinfo"), Count("fsinfo"), "fsinfo2")
      BY <1>3 DEF WriteFsInfo, Lo, Count
    <2> QED BY <2>1, <2>2, UncheckedKeeps
  <1>4. CASE WriteFsInfo2
    <2>1. Fat.fat32
      BY <1>4 DEF WriteFsInfo2, Unchecked, FormatInv, StageHasRoom
    <2>2. Unchecked("fsinfo2", "fsinfo2", Lo("fsinfo2"), Count("fsinfo2"), "fat")
      BY <1>4 DEF WriteFsInfo2, Lo, Count
    <2> QED BY <2>1, <2>2, UncheckedKeeps
  <1>5. CASE WriteFat
    <2>2. Unchecked("fat", "fat", Lo("fat"), Count("fat"), "fat2")
      BY <1>5 DEF WriteFat, Lo, Count
    <2> QED BY <2>2, UncheckedKeeps
  <1>6. CASE WriteFat2
    <2>2. Unchecked("fat2", "fat2", Lo("fat2"), Count("fat2"), "root")
      BY <1>6 DEF WriteFat2, Lo, Count
    <2> QED BY <2>2, UncheckedKeeps
  <1>7. CASE WriteRoot
    <2>2. Unchecked("root", "root", Lo("root"), Count("root"), "reconnect")
      <3>1. CASE Fat.fat32
        BY <1>7, <3>1 DEF WriteRoot, Lo, Count
      <3>2. CASE ~Fat.fat32
        BY <1>7, <3>2 DEF WriteRoot, Lo, Count
      <3> QED BY <3>1, <3>2
    <2> QED BY <2>2, UncheckedKeeps
  <1> QED BY <1>1, <1>2, <1>3, <1>4, <1>5, <1>6, <1>7 DEF FormatFat

LEMMA FormatInvNext == ASSUME FormatInv, [FormatNext]_formatVars PROVE FormatInv'
  <1>0. stage \in Stages
    BY DEF FormatInv, FormatTypeOK
  <1>1. ASSUME NEW t \in Totals, FormatHandle(t) PROVE FormatInv'
    <2>1. t \in 1 .. Wrap64 - 1
      BY FormatAssumption
    <2> QED BY <1>1, <2>1, BeginKeeps DEF FormatHandle
  <1>2. ASSUME NEW t \in RamTotals, AllocateRamDisk(t) PROVE FormatInv'
    <2>1. t \in 1 .. Wrap64 - 1
      BY FormatAssumption
    <2> QED BY <1>2, <2>1, BeginKeeps DEF AllocateRamDisk, Finish
  <1>3. CASE RegisterRamDisk \/ LocateRamDisk
    <2>1. writes' = writes /\ total' = total /\ stage \in {"register", "locate"}
      BY <1>3 DEF RegisterRamDisk, LocateRamDisk
    <2>2. \/ stage' \in {"locate", "mbr"} /\ status' = status
          \/ stage' = "returned" /\ status' \in {"DEVICE_ERROR", "NOT_FOUND"}
      BY <1>3 DEF RegisterRamDisk, LocateRamDisk, Finish
    <2>3. StageHasRoom'
      BY <2>2 DEF StageHasRoom, StageNo
    <2> QED BY <2>1, <2>2, <2>3, StillKeeps DEF Stages, StageNo
  <1>4. CASE WriteProtectiveMbr \/ WriteHeader \/ WriteEntries \/ WriteBackupEntries \/ WriteBackupHeader
    BY <1>4, FormatTablesKeep
  <1>5. CASE CheckSize
    <2>1. writes' = writes /\ total' = total /\ stage = "gpt"
      BY <1>5 DEF CheckSize
    <2>2. \/ stage' = "header" /\ status' = status /\ LastUsable > FirstUsable
          \/ stage' = "returned" /\ status' = "VOLUME_FULL"
      <3>1. LastUsable \in Nat /\ FirstUsable \in Nat
        BY PartSectorsType, EntriesFacts DEF FirstUsable, FormatInv, FormatTypeOK
      <3>2. CASE LastUsable <= FirstUsable
        BY <1>5, <3>2 DEF CheckSize, Finish
      <3>3. CASE ~(LastUsable <= FirstUsable)
        <4>1. LastUsable > FirstUsable
          BY <3>1, <3>3
        <4> QED BY <1>5, <3>3, <4>1 DEF CheckSize
      <3> QED BY <3>2, <3>3
    <2>3. StageHasRoom'
      <3>1. LastUsable' = LastUsable
        BY <2>1, SameLayout
      <3> QED BY <2>2, <3>1 DEF StageHasRoom, StageNo
    <2> QED BY <2>1, <2>2, <2>3, StillKeeps DEF Stages, StageNo
  <1>6. CASE FormatFat
    BY <1>6, FormatFatKeeps
  <1>7. CASE Reconnect
    <2>1. writes' = writes /\ total' = total /\ stage = "reconnect" /\ stage' = "returned" /\ status' = "SUCCESS"
      BY <1>7 DEF Reconnect, Finish
    <2>2. StageHasRoom'
      BY <2>1 DEF StageHasRoom
    <2> QED BY <2>1, <2>2, StillKeeps DEF Stages, StageNo
  <1>8. CASE OutOfMemory
    <2>1. writes' = writes /\ total' = total /\ stage' = "returned" /\ status' = "OUT_OF_RESOURCES"
      BY <1>8 DEF OutOfMemory, Finish
    <2>2. StageHasRoom'
      BY <2>1 DEF StageHasRoom
    <2>3. StageNo[stage] <= StageNo[stage']
      BY <2>1, <1>0 DEF StageNo, Stages
    <2> QED BY <2>1, <2>2, <2>3, StillKeeps DEF Stages
  <1>9. CASE UNCHANGED formatVars
    <2>1. writes' = writes /\ total' = total /\ stage' = stage /\ status' = status
      BY <1>9 DEF formatVars
    <2>2. StageHasRoom'
      <3>1. LastUsable' = LastUsable /\ Fat' = Fat /\ (RoomForBoth' <=> RoomForBoth)
        BY <2>1, SameLayout DEF RoomForBoth
      <3> QED BY <2>1, <3>1 DEF StageHasRoom, FormatInv
    <2>3. StageNo[stage] <= StageNo[stage']
      BY <2>1, <1>0, StageNos
    <2> QED BY <2>1, <2>2, <2>3, <1>0, StillKeeps
  <1> QED BY <1>1, <1>2, <1>3, <1>4, <1>5, <1>6, <1>7, <1>8, <1>9 DEF FormatNext
(***************************************************************************)
(* What follows.                                                           *)
(***************************************************************************)
\* Where the parts end up, on a device of a size the arithmetic is made for:
\* below the partition, in it, or behind it.
LEMMA Places ==
    ASSUME total \in 1 .. Wrap64 - 1, RoomForBoth, SizeFits(total)
    PROVE  LET F == 2 + EntriesLbas
               L == total - 1 - EntriesLbas
           IN  /\ Lo("boot") = F /\ Count("boot") = 1 /\ F + 1 <= L
               /\ Fat.fat32 => /\ Lo("fsinfo") = F + 1 /\ Lo("boot2") = F + 6 /\ Lo("fsinfo2") = F + 7
                               /\ F + 8 <= Lo("fat") /\ F + 8 <= L
               /\ Count("fsinfo") = 1 /\ Count("boot2") = 1 /\ Count("fsinfo2") = 1
               /\ F + 1 <= Lo("fat") /\ Lo("fat") + Count("fat") = Lo("fat2")
               /\ Lo("fat2") + Count("fat2") <= Lo("root") /\ Lo("root") + Count("root") <= L
               /\ DataStartLba + Fat.clusters * Fat.clus <= L
               /\ LastUsable + 1 = L /\ FirstUsable = F
               /\ Count("fat") \in Nat /\ Count("fat2") \in Nat /\ Count("root") \in Nat
               /\ Lo("fat") \in Nat /\ Lo("fat2") \in Nat /\ Lo("root") \in Nat
  <1> DEFINE F == 2 + EntriesLbas
             L == total - 1 - EntriesLbas
             f == Fat.fatsz
             v == Fat.rsvd
             r == Fat.root
             c == Fat.clus
             m == Fat.clusters * Fat.clus
             P == PartSectors
  <1>1. EntriesLbas \in Nat \ {0} /\ Wrap64 \in Nat
    BY EntriesFacts, FormatAssumption
  <1>2. FirstUsable = F /\ LastUsable = total - 2 - EntriesLbas /\ P = L - F
    <2>1. FirstUsable = F /\ LastUsable = total - 2 - EntriesLbas /\ P = total - 3 - 2 * EntriesLbas
      BY PartitionFacts DEF RoomForBoth
    <2> QED BY <2>1, <1>1
  <1>3. P \in Nat
    BY VolumeFits DEF RoomForBoth
  <1>4. f \in Nat /\ c \in Nat \ {0} /\ v \in Nat /\ r \in Nat
    BY <1>3, FatType
  <1>5. m \in Nat
    <2>1. Fat.clusters \in Nat /\ c \in Nat
      BY <1>4, VolumeFits DEF RoomForBoth
    <2> QED BY <2>1
  <1>6. v + 2 * f + r + m <= P
    BY VolumeFits DEF RoomForBoth
  <1>7. Fat.fat32 => v >= 8 /\ r = 0 /\ v + 2 * f + c <= P
    BY VolumeFits DEF RoomForBoth
  <1>8. ~Fat.fat32 => v = 1
    BY VolumeFits DEF RoomForBoth
  <1>9. /\ FatStartLba = F + v /\ Fat2StartLba = F + v + f /\ RootDirLba = F + v + 2 * f
        /\ DataStartLba = F + v + 2 * f + r
    <2>1. FatStartLba = F + v
      BY <1>2 DEF FatStartLba
    <2>2. Fat2StartLba = F + v + f
      BY <2>1 DEF Fat2StartLba
    <2> HIDE DEF F, v, f, r
    <2>3. RootDirLba = F + v + 2 * f
      BY <2>2, <1>1, <1>4 DEF RootDirLba, f, F
    <2> QED BY <2>1, <2>2, <2>3 DEF DataStartLba, r
  <1>10. /\ Lo("boot") = F /\ Lo("fsinfo") = F + 1 /\ Lo("boot2") = F + 6 /\ Lo("fsinfo2") = F + 7
         /\ Lo("fat") = F + v /\ Lo("fat2") = F + v + f
         /\ Lo("root") = IF Fat.fat32 THEN F + v + 2 * f + r ELSE F + v + 2 * f
    <2> HIDE DEF F, v, f, r
    <2> QED BY <1>2, <1>9 DEF Lo
  <1>11. /\ Count("boot") = 1 /\ Count("fsinfo") = 1 /\ Count("boot2") = 1 /\ Count("fsinfo2") = 1
         /\ Count("fat") = f /\ Count("fat2") = f /\ Count("root") = IF Fat.fat32 THEN c ELSE r
    BY DEF Count
  <1>12. F \in Nat /\ L \in Int
    BY <1>1
  <1>13. LastUsable + 1 = L
    BY <1>1, <1>2
  <1> HIDE DEF F, L, f, v, r, c, m, P
  <1>14. CASE Fat.fat32
    <2>1. v >= 8 /\ r = 0 /\ v + 2 * f + c <= P
      BY <1>7, <1>14
    <2>2. Lo("root") = F + v + 2 * f /\ Count("root") = c
      BY <1>10, <1>11, <1>14, <1>4, <1>12, <2>1
    <2>3. /\ F + 1 <= L /\ F + 8 <= F + v /\ F + 8 <= L /\ F + 1 <= F + v
          /\ F + v + 2 * f + c <= L /\ F + v + 2 * f + r + m <= L
          /\ F + v + f + f <= F + v + 2 * f
      BY <1>2, <1>3, <1>4, <1>5, <1>6, <1>12, <2>1
    <2>4. F + v \in Nat /\ F + v + f \in Nat /\ F + v + 2 * f \in Nat
      BY <1>4, <1>12
    <2> QED BY <1>2, <1>4, <1>9, <1>10, <1>11, <1>13, <2>2, <2>3, <2>4 DEF F, L, m
  <1>15. CASE ~Fat.fat32
    <2>1. v = 1
      BY <1>8, <1>15
    <2>2. Lo("root") = F + v + 2 * f /\ Count("root") = r
      BY <1>10, <1>11, <1>15
    <2>3. /\ F + 1 <= L /\ F + 1 <= F + v
          /\ F + v + 2 * f + r <= L /\ F + v + 2 * f + r + m <= L
          /\ F + v + f + f <= F + v + 2 * f
      BY <1>2, <1>3, <1>4, <1>5, <1>6, <1>12, <2>1
    <2>4. F + v \in Nat /\ F + v + f \in Nat /\ F + v + 2 * f \in Nat
      BY <1>4, <1>12
    <2> QED BY <1>2, <1>4, <1>9, <1>10, <1>11, <1>13, <1>15, <2>2, <2>3, <2>4 DEF F, L, m
  <1> QED BY <1>14, <1>15
\* Two different parts have no block in common.
LEMMA PlacesApart ==
    ASSUME total \in 1 .. Wrap64 - 1, SizeFits(total), NEW a \in AllParts, NEW b \in AllParts, a # b,
           \A w \in {a, b} : /\ PartNo[w] >= 4 => RoomForBoth
                             /\ PartNo[w] \in 7 .. 9 => Fat.fat32
    PROVE  Lo(a) + Count(a) <= Lo(b) \/ Lo(b) + Count(b) <= Lo(a)
  <1>1. EntriesLbas \in Nat \ {0} /\ Wrap64 \in Nat
    BY EntriesFacts, FormatAssumption
  <1>2. /\ Lo("mbr") = 0 /\ Count("mbr") = 1 /\ Lo("header") = 1 /\ Count("header") = 1
        /\ Lo("entries") = 2 /\ Count("entries") = EntriesLbas
    BY DEF Lo, Count
  <1>3. CASE a \in {"mbr", "header", "entries"} /\ b \in {"mbr", "header", "entries"}
    BY <1>1, <1>2, <1>3
  <1>4. CASE ~(a \in {"mbr", "header", "entries"} /\ b \in {"mbr", "header", "entries"})
    <2>1. RoomForBoth
      BY <1>4 DEF AllParts, TableParts, PrimaryParts, BackupParts, FatParts, PartNo
    <2> DEFINE F == 2 + EntriesLbas
               L == total - 1 - EntriesLbas
               inFat == {"boot", "fat", "fat2", "root"}
               in32 == {"boot2", "fsinfo", "fsinfo2"}
    <2>2. /\ Lo("backupEntries") = L /\ Count("backupEntries") = EntriesLbas
          /\ Lo("backupHeader") = L + EntriesLbas /\ Count("backupHeader") = 1
      <3>1. U64(LastUsable + 1) = L
        BY <2>1, PartitionFacts DEF RoomForBoth
      <3>2. Lo("backupEntries") = L /\ Lo("backupHeader") = total - 1
        BY <3>1 DEF Lo
      <3>3. Count("backupEntries") = EntriesLbas /\ Count("backupHeader") = 1
        BY DEF Count
      <3> QED BY <3>2, <3>3, <1>1
    <2>3. /\ Lo("boot") = F /\ Count("boot") = 1 /\ F + 1 <= L
          /\ Fat.fat32 => /\ Lo("fsinfo") = F + 1 /\ Lo("boot2") = F + 6 /\ Lo("fsinfo2") = F + 7
                          /\ F + 8 <= Lo("fat") /\ F + 8 <= L
          /\ Count("fsinfo") = 1 /\ Count("boot2") = 1 /\ Count("fsinfo2") = 1
          /\ F + 1 <= Lo("fat") /\ Lo("fat") + Count("fat") = Lo("fat2")
          /\ Lo("fat2") + Count("fat2") <= Lo("root") /\ Lo("root") + Count("root") <= L
          /\ Count("fat") \in Nat /\ Count("fat2") \in Nat /\ Count("root") \in Nat
          /\ Lo("fat") \in Nat /\ Lo("fat2") \in Nat /\ Lo("root") \in Nat
      BY <2>1, Places
    <2>4. F \in Nat /\ L \in Int /\ F = 2 + EntriesLbas
      BY <1>1
    <2>5. {a, b} \cap in32 # {} => Fat.fat32
      BY DEF PartNo
    <2>6. a \in {"mbr", "header", "entries", "backupEntries", "backupHeader"} \cup inFat \cup in32
      BY DEF AllParts, TableParts, PrimaryParts, BackupParts, FatParts
    <2>7. b \in {"mbr", "header", "entries", "backupEntries", "backupHeader"} \cup inFat \cup in32
      BY DEF AllParts, TableParts, PrimaryParts, BackupParts, FatParts
    <2> HIDE DEF F, L
    <2>8. ASSUME NEW w \in {"mbr", "header", "entries"} PROVE Lo(w) + Count(w) <= F
      BY <1>1, <1>2, <2>4
    <2>9. ASSUME NEW w \in inFat PROVE F <= Lo(w) /\ Lo(w) + Count(w) <= L
      BY <2>3, <2>4
    <2>10. ASSUME NEW w \in in32, Fat.fat32 PROVE F + 1 <= Lo(w) /\ Lo(w) + Count(w) <= Lo("fat") /\ Lo(w) + Count(w) <= F + 8
      BY <2>3, <2>4, <2>10
    <2>11. ASSUME NEW w \in {"backupEntries", "backupHeader"} PROVE L <= Lo(w)
      BY <2>2, <2>4, <1>1
    <2>12. /\ Lo(a) \in Int /\ Count(a) \in Nat /\ Lo(b) \in Int /\ Count(b) \in Nat
      BY PlaceType
    <2>13. F <= L /\ (Fat.fat32 => F + 8 <= L)
      BY <2>3, <2>4
    <2>14. CASE a \in {"mbr", "header", "entries"} \/ b \in {"mbr", "header", "entries"}
      <3>1. ASSUME NEW x \in AllParts, x \notin {"mbr", "header", "entries"}, x \in in32 => Fat.fat32
            PROVE  F <= Lo(x)
        <4>1. Lo(x) \in Int
          BY PlaceType
        <4>2. x \in {"backupEntries", "backupHeader"} \cup inFat \cup in32
          BY <3>1 DEF AllParts, TableParts, PrimaryParts, BackupParts, FatParts
        <4> QED BY <3>1, <4>1, <4>2, <2>9, <2>10, <2>11, <2>13, <2>4
      <3>2. CASE a \in {"mbr", "header", "entries"}
        <4>1. F <= Lo(b)
          BY <3>1, <3>2, <1>4, <2>5
        <4> QED BY <4>1, <3>2, <2>8, <2>12, <2>4
      <3>3. CASE b \in {"mbr", "header", "entries"}
        <4>1. F <= Lo(a)
          BY <3>1, <3>3, <1>4, <2>5
        <4> QED BY <4>1, <3>3, <2>8, <2>12, <2>4
      <3> QED BY <2>14, <3>2, <3>3
    <2>15. CASE a \in {"backupEntries", "backupHeader"} \/ b \in {"backupEntries", "backupHeader"}
      <3>1. ASSUME NEW x \in AllParts, x \notin {"backupEntries", "backupHeader"}, x \in in32 => Fat.fat32
            PROVE  Lo(x) + Count(x) <= L
        <4>1. Lo(x) \in Int /\ Count(x) \in Nat
          BY PlaceType
        <4>2. x \in {"mbr", "header", "entries"} \cup inFat \cup in32
          BY <3>1 DEF AllParts, TableParts, PrimaryParts, BackupParts, FatParts
        <4> QED BY <3>1, <4>1, <4>2, <2>8, <2>9, <2>10, <2>13, <2>4
      <3>2. CASE a \in {"backupEntries", "backupHeader"} /\ b \in {"backupEntries", "backupHeader"}
        BY <3>2, <2>2, <2>4, <1>1
      <3>3. CASE a \in {"backupEntries", "backupHeader"} /\ b \notin {"backupEntries", "backupHeader"}
        <4>1. Lo(b) + Count(b) <= L
          BY <3>1, <3>3, <2>5
        <4> QED BY <4>1, <3>3, <2>11, <2>12, <2>4
      <3>4. CASE b \in {"backupEntries", "backupHeader"} /\ a \notin {"backupEntries", "backupHeader"}
        <4>1. Lo(a) + Count(a) <= L
          BY <3>1, <3>4, <2>5
        <4> QED BY <4>1, <3>4, <2>11, <2>12, <2>4
      <3> QED BY <2>15, <3>2, <3>3, <3>4
    <2>16. CASE a \in inFat /\ b \in inFat
      BY <2>16, <2>3, <2>4
    <2>17. CASE a \in in32 \/ b \in in32
      <3>0. Fat.fat32
        BY <2>17, <2>5
      <3>1. ASSUME NEW x \in in32, NEW y \in inFat PROVE Lo(x) + Count(x) <= Lo(y) \/ Lo(y) + Count(y) <= Lo(x)
        <4>1. F + 1 <= Lo(x) /\ Lo(x) + Count(x) <= Lo("fat")
          BY <3>0, <2>10
        <4>2. Lo(x) \in Int /\ Count(x) \in Nat
          BY PlaceType DEF AllParts, FatParts
        <4>3. y = "boot" \/ Lo("fat") <= Lo(y)
          BY <2>3
        <4> QED BY <4>1, <4>2, <4>3, <2>3, <2>4
      <3>2. CASE a \in in32 /\ b \in in32
        BY <3>0, <3>2, <2>3, <2>4
      <3> QED BY <2>17, <3>1, <3>2, <2>6, <2>7, <2>14, <2>15
    <2> QED BY <2>6, <2>7, <2>14, <2>15, <2>16, <2>17
  <1> QED BY <1>3, <1>4

LEMMA FormatInvGivesLayout == ASSUME FormatInv, SizeFits(total) PROVE PartsApart /\ LayoutSound /\ Fat16Agrees
  <1> USE DEF FormatInv
  <1>0. total \in 1 .. Wrap64 - 1
    BY DEF FormatTypeOK
  <1>1. ASSUME NEW i \in DOMAIN writes
        PROVE  LET v == writes[i]
               IN  /\ v.what \in AllParts /\ v.lo = Lo(v.what) /\ v.n \in Nat /\ v.n <= Count(v.what)
                   /\ Lo(v.what) \in Int /\ Count(v.what) \in Nat
                   /\ PartNo[v.what] >= 4 => RoomForBoth
                   /\ PartNo[v.what] \in 7 .. 9 => Fat.fat32
    <2>1. writes[i] \in Writes
      BY DEF FormatTypeOK
    <2>2. writes[i].what \in AllParts /\ writes[i].n \in Nat
      BY <2>1 DEF Writes
    <2> QED BY <2>2, <1>0, PlaceType DEF PutInPlace, PutWithRoom
  <1>2. PartsApart
    <2>1. ASSUME NEW i \in DOMAIN writes, NEW j \in DOMAIN writes, i # j PROVE Apart(writes[i], writes[j])
      <3> DEFINE a == writes[i].what
                 b == writes[j].what
      <3>1. a # b
        BY <2>1 DEF PutOnce
      <3>2. /\ a \in AllParts /\ writes[i].lo = Lo(a) /\ writes[i].n \in Nat /\ writes[i].n <= Count(a)
            /\ b \in AllParts /\ writes[j].lo = Lo(b) /\ writes[j].n \in Nat /\ writes[j].n <= Count(b)
            /\ Lo(a) \in Int /\ Count(a) \in Nat /\ Lo(b) \in Int /\ Count(b) \in Nat
            /\ PartNo[a] >= 4 => RoomForBoth
            /\ PartNo[b] >= 4 => RoomForBoth
            /\ PartNo[a] \in 7 .. 9 => Fat.fat32
            /\ PartNo[b] \in 7 .. 9 => Fat.fat32
        BY <1>1
      <3> HIDE DEF a, b, FormatInv
      <3>3. Lo(a) + Count(a) <= Lo(b) \/ Lo(b) + Count(b) <= Lo(a)
        BY <1>0, <3>1, <3>2, PlacesApart
      <3> QED BY <3>2, <3>3 DEF Apart
    <2> QED BY <2>1 DEF PartsApart
  <1>3. ASSUME NEW i \in Of(FatParts) PROVE RoomForBoth
    <2>1. i \in DOMAIN writes /\ writes[i].what \in FatParts
      BY DEF Of
    <2>2. PartNo[writes[i].what] >= 4
      BY <2>1 DEF FatParts, PartNo
    <2> QED BY <2>1, <2>2, <1>1
  <1>4. VolumeInPartition
    <2>1. ASSUME NEW i \in Of(FatParts)
          PROVE  FirstUsable <= writes[i].lo /\ writes[i].lo + writes[i].n <= LastUsable + 1
      <3> DEFINE a == writes[i].what
                 F == 2 + EntriesLbas
                 L == total - 1 - EntriesLbas
      <3>0. F \in Nat /\ L \in Int
        BY <1>0, EntriesFacts, FormatAssumption
      <3>1. /\ a \in FatParts /\ writes[i].lo = Lo(a) /\ writes[i].n \in Nat /\ writes[i].n <= Count(a)
            /\ Lo(a) \in Int /\ Count(a) \in Nat /\ (PartNo[a] \in 7 .. 9 => Fat.fat32)
        BY <1>1 DEF Of
      <3>2. a \in {"boot2", "fsinfo", "fsinfo2"} => Fat.fat32
        BY <3>1 DEF PartNo
      <3>3. /\ Lo("boot") = F /\ Count("boot") = 1 /\ F + 1 <= L
            /\ Fat.fat32 => /\ Lo("fsinfo") = F + 1 /\ Lo("boot2") = F + 6 /\ Lo("fsinfo2") = F + 7
                            /\ F + 8 <= Lo("fat") /\ F + 8 <= L
            /\ Count("fsinfo") = 1 /\ Count("boot2") = 1 /\ Count("fsinfo2") = 1
            /\ F + 1 <= Lo("fat") /\ Lo("fat") + Count("fat") = Lo("fat2")
            /\ Lo("fat2") + Count("fat2") <= Lo("root") /\ Lo("root") + Count("root") <= L
            /\ LastUsable + 1 = L /\ FirstUsable = F
            /\ Count("fat") \in Nat /\ Count("fat2") \in Nat /\ Count("root") \in Nat
            /\ Lo("fat") \in Nat /\ Lo("fat2") \in Nat /\ Lo("root") \in Nat
        BY <1>0, <1>3, Places
      <3> HIDE DEF a, F, L, FormatInv
      <3>4. F <= Lo(a) /\ Lo(a) + Count(a) <= L
        <4>1. CASE a \in {"boot2", "fsinfo", "fsinfo2"}
          BY <4>1, <3>0, <3>2, <3>3
        <4>2. CASE a \in {"boot", "fat", "fat2", "root"}
          BY <4>2, <3>0, <3>3
        <4> QED BY <3>1, <4>1, <4>2 DEF FatParts
      <3> QED BY <3>0, <3>1, <3>3, <3>4
    <2>2. Of(FatParts) # {} => DataStartLba + Fat.clusters * Fat.clus <= LastUsable + 1
      <3> SUFFICES ASSUME Of(FatParts) # {} PROVE DataStartLba + Fat.clusters * Fat.clus <= LastUsable + 1
        OBVIOUS
      <3>1. RoomForBoth
        BY <1>3
      <3>2. /\ DataStartLba + Fat.clusters * Fat.clus <= total - 1 - EntriesLbas
            /\ LastUsable + 1 = total - 1 - EntriesLbas
        BY <1>0, <3>1, Places
      <3> QED BY <3>2
    <2> QED BY <2>1, <2>2 DEF VolumeInPartition
  <1>5. Fat16Agrees
    <2> SUFFICES ASSUME Of(FatParts) # {}, ~Fat.fat32 PROVE Fat16Agrees
      BY DEF Fat16Agrees
    <2>1. RoomForBoth
      BY <1>3
    <2> QED BY <1>0, <2>1, VolumeFits DEF Fat16Agrees, RoomForBoth
  <1> QED BY <1>2, <1>4, <1>5 DEF LayoutSound

\* Behind the primary tables, on a device of any size.
LEMMA BehindPrimary ==
    ASSUME total \in 1 .. Wrap64 - 1, RoomForBoth, NEW w \in AllParts \ PrimaryParts
    PROVE  2 + EntriesLbas <= Lo(w)
  <1> DEFINE F == 2 + EntriesLbas
  <1>1. EntriesLbas \in Nat \ {0} /\ FirstUsable = F /\ U64(LastUsable + 1) = total - 1 - EntriesLbas
    BY EntriesFacts, PartitionFacts DEF RoomForBoth
  <1>2. Fat.fatsz \in Nat /\ Fat.rsvd \in Nat /\ Fat.root \in Nat
    BY PartSectorsType, FatType
  <1>3. F \in Nat
    BY <1>1
  <1> HIDE DEF F
  <1>4. F <= FatStartLba /\ F <= Fat2StartLba /\ F <= RootDirLba /\ F <= DataStartLba
    BY <1>1, <1>2, <1>3 DEF FatStartLba, Fat2StartLba, RootDirLba, DataStartLba
  <1>5. F <= total - 1 - EntriesLbas /\ F <= total - 1
    BY <1>1 DEF F, RoomForBoth
  <1>6. CASE w \in BackupParts
    <2>1. Lo("backupEntries") = total - 1 - EntriesLbas /\ Lo("backupHeader") = total - 1
      BY <1>1 DEF Lo
    <2> QED BY <1>5, <1>6, <2>1 DEF BackupParts, F
  <1>7. CASE w \in FatParts
    <2>1. /\ Lo("boot") = F /\ Lo("boot2") = F + 6 /\ Lo("fsinfo") = F + 1 /\ Lo("fsinfo2") = F + 7
          /\ Lo("fat") = FatStartLba /\ Lo("fat2") = Fat2StartLba
          /\ Lo("root") \in {DataStartLba, RootDirLba}
      BY <1>1 DEF Lo
    <2> QED BY <1>3, <1>4, <1>7, <2>1 DEF FatParts, F
  <1> QED BY <1>6, <1>7 DEF AllParts, TableParts

\* A primary table shares no block with what is written later.
LEMMA PrimaryApart ==
    ASSUME FormatInv, NEW i \in DOMAIN writes, NEW j \in DOMAIN writes, i # j,
           writes[i].what \in PrimaryParts
    PROVE  Apart(writes[i], writes[j])
  <1> DEFINE a == writes[i].what
             b == writes[j].what
  <1>0. total \in 1 .. Wrap64 - 1 /\ EntriesLbas \in Nat \ {0}
    BY EntriesFacts DEF FormatInv, FormatTypeOK
  <1>1. writes[i] \in Writes /\ writes[j] \in Writes
    BY DEF FormatInv, FormatTypeOK
  <1>2. /\ writes[i].lo = Lo(a) /\ writes[i].n \in Nat /\ writes[i].n <= Count(a)
        /\ writes[j].lo = Lo(b) /\ writes[j].n \in Nat /\ writes[j].n <= Count(b)
        /\ b \in AllParts /\ a # b /\ (PartNo[b] >= 4 => RoomForBoth)
    BY <1>1 DEF FormatInv, PutInPlace, PutOnce, PutWithRoom, Writes
  <1>3. Lo(b) \in Int /\ Count(b) \in Nat
    BY <1>0, <1>2, PlaceType
  <1>4. /\ Lo("mbr") = 0 /\ Count("mbr") = 1 /\ Lo("header") = 1 /\ Count("header") = 1
        /\ Lo("entries") = 2 /\ Count("entries") = EntriesLbas
    BY DEF Lo, Count
  <1>5. a \in {"mbr", "header", "entries"}
    BY DEF PrimaryParts
  <1>6. CASE b \in PrimaryParts
    <2>1. b \in {"mbr", "header", "entries"}
      BY <1>6 DEF PrimaryParts
    <2> HIDE DEF a, b
    <2>2. Lo(a) + Count(a) <= Lo(b) \/ Lo(b) + Count(b) <= Lo(a)
      BY <1>0, <1>2, <1>4, <1>5, <2>1
    <2>3. Lo(a) \in Nat /\ Count(a) \in Nat
      BY <1>0, <1>4, <1>5
    <2> QED BY <1>2, <1>3, <2>2, <2>3 DEF Apart
  <1>7. CASE b \notin PrimaryParts
    <2>1. PartNo[b] >= 4
      BY <1>2, <1>7 DEF AllParts, TableParts, PrimaryParts, BackupParts, FatParts, PartNo
    <2>2. 2 + EntriesLbas <= Lo(b)
      BY <1>0, <1>2, <1>7, <2>1, BehindPrimary
    <2> HIDE DEF a, b
    <2>3. Lo(a) \in Nat /\ Count(a) \in Nat /\ Lo(a) + Count(a) <= 2 + EntriesLbas
      BY <1>0, <1>4, <1>5
    <2> QED BY <1>0, <1>2, <1>3, <2>2, <2>3 DEF Apart
  <1> QED BY <1>6, <1>7

\* What was written whole is still whole, for nothing shares a block with it.
LEMMA FormatInvGivesTablesWhole == ASSUME FormatInv PROVE TablesWhole
  <1> SUFFICES ASSUME status = "SUCCESS" PROVE TablesWhole
    BY DEF TablesWhole
  <1>1. ASSUME NEW w \in TableParts PROVE WholeOf(w)
    BY DEF FormatInv, TablesSoFar
  <1>2. ASSUME NEW part \in TableParts,
               \A i, j \in DOMAIN writes :
                   i # j /\ writes[i].what = part => Apart(writes[i], writes[j])
        PROVE  Survives(part)
    <2>1. PICK i \in DOMAIN writes : writes[i].what = part /\ writes[i].whole
      BY <1>1 DEF WholeOf
    <2>2. ASSUME NEW j \in DOMAIN writes, j > i PROVE Apart(writes[i], writes[j])
      <3>1. i # j
        <4>1. DOMAIN writes \subseteq Nat
          BY DEF FormatInv, FormatTypeOK
        <4> QED BY <4>1, <2>2
      <3> QED BY <3>1, <1>2, <2>1
    <2>3. i \in Of({part})
      BY <2>1 DEF Of
    <2> QED BY <2>1, <2>2, <2>3 DEF Survives
  <1>3. ASSUME NEW part \in PrimaryParts PROVE Survives(part)
    <2>1. part \in TableParts
      BY DEF TableParts
    <2> QED BY <1>2, <2>1, PrimaryApart
  <1>4. ASSUME SizeFits(total), NEW part \in BackupParts PROVE Survives(part)
    <2>1. part \in TableParts
      BY DEF TableParts
    <2>2. PartsApart
      BY <1>4, FormatInvGivesLayout
    <2> QED BY <1>2, <2>1, <2>2 DEF PartsApart
  <1>5. \E i \in Of({"backupHeader"}) : writes[i].whole /\ writes[i].lo = total - 1
    <2>1. PICK i \in DOMAIN writes : writes[i].what = "backupHeader" /\ writes[i].whole
      BY <1>1 DEF WholeOf, TableParts, BackupParts
    <2>2. writes[i].lo = Lo("backupHeader")
      BY <2>1 DEF FormatInv, PutInPlace
    <2> QED BY <2>1, <2>2 DEF Lo, Of
  <1> QED BY <1>3, <1>4, <1>5 DEF TablesWhole

\* On a device of any size, and wherever the writing fails: FormatBlockApp
\* reports success only when the MBR, the header and the entries were written
\* whole and nothing written later has touched them, and the backup header was
\* put at the last block.  The backup header and entries are as whole and as
\* untouched, if the device is not too large for the FAT to be sized in 32 bits
\* and its partition has room for the FAT32 layout and one cluster.
THEOREM FormatTablesWhole == FormatSpec => []TablesWhole
  <1>1. FormatInv => TablesWhole
    BY FormatInvGivesTablesWhole
  <1> QED BY <1>1, FormatInvInit, FormatInvNext, PTL DEF FormatSpec

\* On every device that SizeFits describes no two parts of the format share a
\* block, and the volume with all its clusters stays in the partition.
THEOREM FormatLayoutSound == FormatSpec => []LayoutSound
  <1>1. FormatInv => LayoutSound
    <2>1. ~SizeFits(total) => LayoutSound
      BY DEF LayoutSound
    <2> QED BY <2>1, FormatInvGivesLayout
  <1> QED BY <1>1, FormatInvInit, FormatInvNext, PTL DEF FormatSpec

\* On such a device a FAT driver counts as many clusters of a FAT16 volume as
\* the formatter did, a number that makes it FAT16, with a FAT entry for each.
THEOREM FormatFat16Agrees == FormatSpec => []Fat16Agrees
  <1>1. FormatInv => Fat16Agrees
    <2>1. ~SizeFits(total) => Fat16Agrees
      BY DEF Fat16Agrees
    <2> QED BY <2>1, FormatInvGivesLayout
  <1> QED BY <1>1, FormatInvInit, FormatInvNext, PTL DEF FormatSpec
=============================================================================
