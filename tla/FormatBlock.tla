---------------------------- MODULE FormatBlock -----------------------------
(***************************************************************************)
(* FormatBlockApp: a protective MBR, a GPT with one partition and its      *)
(* backup, and a FAT16 or FAT32 volume in it, on a block device or on a    *)
(* RAM disk made for it.  The layout is computed in unsigned 32- and 64-bit*)
(* arithmetic; every write may fail, and the writes of the FAT itself are  *)
(* not looked at.                                                          *)
(***************************************************************************)
EXTENDS Integers, Sequences, FiniteSetsExt

CONSTANTS
    BlockSize,
    Totals,             \* TotalBlocks of the devices that may be formatted
    RamTotals,          \* TotalBlocks of the RAM disks that may be asked for
    MinRam,             \* 34 MB in blocks
    EntriesBytes,       \* GPT_ENTRY_COUNT * GPT_ENTRY_SIZE
    RootBytes,          \* FAT16_ROOT_ENTRY_COUNT * 32
    Rsvd32,             \* reserved sectors of FAT32
    ClusterBytes,       \* preferred cluster size of FAT32
    MaxShift,           \* FAT16 clusters of up to 2^MaxShift sectors
    Min16, Max16,       \* clusters of a FAT16 volume
    Wrap32, Wrap64

ASSUME FormatAssumption ==
    /\ {BlockSize, EntriesBytes, RootBytes, ClusterBytes, Wrap32, Wrap64} \subseteq Nat \ {0}
    /\ {Rsvd32, MaxShift, Min16, Max16, MinRam} \subseteq Nat
    /\ Totals \cup RamTotals \subseteq 1 .. Wrap64 - 1
    /\ Wrap64 % Wrap32 = 0

\* 32 bits are far wider than what a FAT16 volume can have.
ASSUME WidthAssumption ==
    /\ BlockSize >= 8 /\ Rsvd32 >= 8 /\ Wrap64 >= Wrap32
    /\ 4 * (RootBytes + BlockSize) <= Wrap32
    /\ \A s \in 0 .. MaxShift : 2 ^ s \in Nat \ {0} /\ 2 * (2 ^ s * (Max16 + 1)) <= Wrap32

VARIABLES
    stage,
    total,          \* TotalBlocks
    ram,            \* the RAM disk: "none", "pages", "registered"
    writes,         \* history: what was written, in order
    lost,           \* history: a write nobody looked at has failed
    status          \* Status, as FormatBlockAppEntry returns it

formatVars == <<stage, total, ram, writes, lost, status>>

U32(x)        == x % Wrap32
U64(x)        == x % Wrap64
Blocks(bytes) == (bytes + BlockSize - 1) \div BlockSize
-----------------------------------------------------------------------------
(***************************************************************************)
(* The layout.                                                             *)
(***************************************************************************)
EntriesLbas == Blocks(EntriesBytes)
FirstUsable == 2 + EntriesLbas

\* Slip: room for the backup entries, none for the backup header.
LastUsableNoHeader == U64(total - 1 - EntriesLbas)
LastUsable  == U64(total - 2 - EntriesLbas)
PartSectors == U64(LastUsable - FirstUsable + 1)

RootDirSectors == Blocks(RootBytes)

\* Slip: one byte per entry.
Try16Narrow(clus) ==
    LET fatsz == Blocks(PartSectors \div clus + 2)
    IN  [fat32 |-> FALSE, clus |-> clus, fatsz |-> fatsz, rsvd |-> 1, root |-> RootDirSectors,
         clusters |-> (PartSectors - 1 - 2 * fatsz - RootDirSectors) \div clus]

\* One round of the search for a FAT16 cluster size.
Try16(clus) ==
    LET guess == U32(U64(PartSectors - 1 - RootDirSectors) \div clus)
        fatsz == U32((guess + 2) * 2 + BlockSize - 1) \div BlockSize
    IN  [fat32 |-> FALSE, clus |-> clus, fatsz |-> fatsz, rsvd |-> 1, root |-> RootDirSectors,
         clusters |-> U32(U32(PartSectors) - 1 - 2 * fatsz - RootDirSectors) \div clus]

Fits16(shift) == Try16(2 ^ shift).clusters \in Min16 .. Max16

Clus32 == Min({128, IF BlockSize >= ClusterBytes THEN 1 ELSE ClusterBytes \div BlockSize})

Try32 ==
    LET fatsz(n) == U32((n + 2) * 4 + BlockSize - 1) \div BlockSize
        guess    == U32(U64(PartSectors - Rsvd32) \div Clus32)
        clusters == U32(U64(PartSectors - Rsvd32 - 2 * fatsz(guess)) \div Clus32)
    IN  [fat32 |-> TRUE, clus |-> Clus32, fatsz |-> fatsz(clusters), rsvd |-> Rsvd32, root |-> 0,
         clusters |-> clusters]

\* The smallest cluster that fits, or FAT32.
Fat ==
    LET fitting == {s \in 0 .. MaxShift : Fits16(s)}
    IN  IF fitting # {} THEN Try16(2 ^ Min(fitting)) ELSE Try32

FatStartLba  == FirstUsable + Fat.rsvd
Fat2StartLba == FatStartLba + Fat.fatsz
RootDirLba   == Fat2StartLba + Fat.fatsz
DataStartLba == RootDirLba + Fat.root
-----------------------------------------------------------------------------
Finish(s) ==
    /\ status' = s
    /\ stage' = "returned"

\* WriteBlocks for n blocks, one at a time, up to the first that fails.
Put(what, lo, n, k) ==
    /\ k \in 0 .. n
    /\ k > 0 => lo + k <= total
    /\ writes' = Append(writes, [what |-> what, lo |-> lo, n |-> k, whole |-> k = n])

\* A part whose failure is returned.
Checked(at, what, lo, n, next) ==
    /\ stage = at
    /\ \E k \in 0 .. n :
        /\ Put(what, lo, n, k)
        /\ IF k = n THEN stage' = next /\ UNCHANGED status ELSE Finish("DEVICE_ERROR")
    /\ UNCHANGED <<total, ram, lost>>

\* How many of n blocks from lo on the device has.
OnDevice(lo, n) == IF lo + n <= total THEN n ELSE IF lo < total THEN total - lo ELSE 0

\* A part whose failure is not looked at.  The loop goes on behind a block
\* that fails: any blocks may be missing, those the device has may be written.
Unchecked(at, what, lo, n, next) ==
    /\ stage = at
    /\ \E whole \in BOOLEAN :
        /\ whole => lo + n <= total
        /\ writes' = Append(writes, [what |-> what, lo |-> lo, n |-> OnDevice(lo, n),
                                    whole |-> whole])
        /\ lost' = (lost \/ ~whole)
    /\ stage' = next
    /\ UNCHANGED <<total, ram, status>>

OutOfMemory ==
    /\ stage \in {"mbr", "gpt", "header", "entries", "backup", "boot", "fsinfo", "fat"}
    /\ Finish("OUT_OF_RESOURCES")
    /\ UNCHANGED <<total, ram, writes, lost>>
-----------------------------------------------------------------------------
(***************************************************************************)
(* FormatBlockAppEntry and CreateAndFormatRamDisk.                         *)
(***************************************************************************)
FormatHandle(t) ==
    /\ stage = "start"
    /\ total' = t
    /\ stage' = "mbr"
    /\ UNCHANGED <<ram, writes, lost, status>>

AllocateRamDisk(t) ==
    /\ stage = "start" /\ t >= MinRam
    /\ total' = t
    /\ \/ ram' = "pages" /\ stage' = "register" /\ UNCHANGED status
       \/ Finish("OUT_OF_RESOURCES") /\ UNCHANGED ram
    /\ UNCHANGED <<writes, lost>>

RegisterRamDisk ==
    /\ stage = "register"
    /\ \/ ram' = "registered" /\ stage' = "locate" /\ UNCHANGED status
       \/ ram' = "none" /\ Finish("DEVICE_ERROR")
    /\ UNCHANGED <<total, writes, lost>>

\* A RAM disk that is not found, or not formatted, stays registered.
LocateRamDisk ==
    /\ stage = "locate"
    /\ \/ stage' = "mbr" /\ UNCHANGED status
       \/ Finish("NOT_FOUND")
    /\ UNCHANGED <<total, ram, writes, lost>>
-----------------------------------------------------------------------------
(***************************************************************************)
(* FormatBlockDevice.                                                      *)
(***************************************************************************)
WriteProtectiveMbr == Checked("mbr", "mbr", 0, 1, "gpt")

\* WriteGpt: the size check ...
CheckSize ==
    /\ stage = "gpt"
    /\ IF LastUsable <= FirstUsable THEN Finish("VOLUME_FULL")
       ELSE stage' = "header" /\ UNCHANGED status
    /\ UNCHANGED <<total, ram, writes, lost>>

\* ... and its four writes.
\* Slip: the entries are written without a look at the result.
WriteEntriesUnchecked == Unchecked("entries", "entries", 2, EntriesLbas, "backup")

WriteHeader        == Checked("header", "header", 1, 1, "entries")
WriteEntries       == Checked("entries", "entries", 2, EntriesLbas, "backup")
WriteBackupEntries == Checked("backup", "backupEntries", U64(LastUsable + 1), EntriesLbas, "backupHeader")
WriteBackupHeader  == Checked("backupHeader", "backupHeader", total - 1, 1, "boot")

\* FormatFat.
WriteBoot       == Checked("boot", "boot", FirstUsable, 1, IF Fat.fat32 THEN "boot2" ELSE "fat")
WriteBackupBoot == Checked("boot2", "boot2", FirstUsable + 6, 1, "fsinfo")
WriteFsInfo     == Unchecked("fsinfo", "fsinfo", FirstUsable + 1, 1, "fsinfo2")
WriteFsInfo2    == Unchecked("fsinfo2", "fsinfo2", FirstUsable + 7, 1, "fat")
WriteFat        == Unchecked("fat", "fat", FatStartLba, Fat.fatsz, "fat2")
WriteFat2       == Unchecked("fat2", "fat2", Fat2StartLba, Fat.fatsz, "root")

\* The root directory: a cluster, or the area of FAT16.
WriteRoot ==
    /\ stage = "root"
    /\ IF Fat.fat32 THEN Unchecked("root", "root", DataStartLba, Fat.clus, "reconnect")
       ELSE Unchecked("root", "root", RootDirLba, Fat.root, "reconnect")

\* FlushBlocks, and the controllers are connected again.
Reconnect ==
    /\ stage = "reconnect"
    /\ Finish("SUCCESS")
    /\ UNCHANGED <<total, ram, writes, lost>>

FormatInit ==
    /\ stage = "start"
    /\ total = 1
    /\ ram = "none"
    /\ writes = <<>>
    /\ lost = FALSE
    /\ status = "none"

FormatFat ==
    \/ WriteBoot \/ WriteBackupBoot \/ WriteFsInfo \/ WriteFsInfo2
    \/ WriteFat \/ WriteFat2 \/ WriteRoot

FormatNext ==
    \/ \E t \in Totals : FormatHandle(t)
    \/ \E t \in RamTotals : AllocateRamDisk(t)
    \/ RegisterRamDisk \/ LocateRamDisk
    \/ WriteProtectiveMbr
    \/ CheckSize \/ WriteHeader \/ WriteEntries \/ WriteBackupEntries \/ WriteBackupHeader
    \/ FormatFat
    \/ Reconnect
    \/ OutOfMemory

FormatSpec == FormatInit /\ [][FormatNext]_formatVars
-----------------------------------------------------------------------------
(***************************************************************************)
(* Correctness.                                                            *)
(***************************************************************************)
Apart(v, w)    == v.n = 0 \/ w.n = 0 \/ v.lo + v.n <= w.lo \/ w.lo + w.n <= v.lo
PrimaryParts   == {"mbr", "header", "entries"}
BackupParts    == {"backupEntries", "backupHeader"}
TableParts     == PrimaryParts \cup BackupParts
FatParts       == {"boot", "boot2", "fsinfo", "fsinfo2", "fat", "fat2", "root"}
Of(parts)      == {i \in DOMAIN writes : writes[i].what \in parts}

\* No two parts of the format share a block: the tables survive the
\* formatting of the volume, and the volume's parts each other, whatever
\* block the writing stops at and for FAT16 and FAT32.
PartsApart == \A i, j \in DOMAIN writes : i # j => Apart(writes[i], writes[j])

\* The volume stays inside the partition that the GPT describes, with room
\* for the clusters it is said to have.
VolumeInPartition ==
    /\ \A i \in Of(FatParts) : writes[i].n > 0 =>
        FirstUsable <= writes[i].lo /\ writes[i].lo + writes[i].n <= LastUsable + 1
    /\ Of(FatParts) # {} => DataStartLba + Fat.clusters * Fat.clus <= LastUsable + 1

\* The devices the layout is made for.  Not too large: the FAT of a cluster
\* per block is sized in 32 bits.  And, if there is room for a partition at
\* all, not too small: what FAT32 puts before its first cluster, and that
\* cluster, fit in the partition.  WriteGpt's size check asks for no more than
\* two blocks; where they do not fit, FormatFat wraps below zero (up to Rsvd32
\* blocks), or lays FATs and root directory over the backup tables.
SizeFits(t) ==
    LET part == t - 3 - 2 * EntriesLbas
    IN  /\ 4 * (t + 2) + BlockSize <= Wrap32
        /\ part >= 2 => part >= Rsvd32 + 2 * Blocks(4 * (part \div Clus32 + 2)) + Clus32

\* On the devices the layout is made for, every block that is written has one
\* owner, and it is the right one.
LayoutSound == SizeFits(total) => PartsApart /\ VolumeInPartition

\* All blocks of the part were written, and nothing that was written later
\* touched one of them.
Survives(part) ==
    \E i \in Of({part}) :
        /\ writes[i].whole
        /\ \A j \in DOMAIN writes : j > i => Apart(writes[i], writes[j])

\* When success is reported the partition driver finds the MBR, the GPT header
\* and the entries as they were written, on a device of any size that is
\* accepted, and the backup header was put at the last block; on the devices
\* the layout is made for it finds the backup header and entries too.
TablesWhole ==
    status = "SUCCESS" =>
        /\ \A part \in PrimaryParts : Survives(part)
        /\ \E i \in Of({"backupHeader"}) : writes[i].whole /\ writes[i].lo = total - 1
        /\ SizeFits(total) => \A part \in BackupParts : Survives(part)

\* What a FAT driver counts, from the boot sector alone.
Counted == (PartSectors - Fat.rsvd - 2 * Fat.fatsz - Fat.root) \div Fat.clus

\* A FAT driver tells FAT16 from FAT32 by the number of clusters it counts,
\* and needs an entry in the FAT for each: on a FAT16 volume, on a device the
\* layout is made for, it counts as many as the formatter did, and the FAT has
\* them all.
Fat16Agrees ==
    (SizeFits(total) /\ Of(FatParts) # {} /\ ~Fat.fat32) =>
        /\ Counted = Fat.clusters
        /\ Counted \in Min16 .. Max16
        /\ (Counted + 2) * 2 <= Fat.fatsz * BlockSize

\* "FAT16: 4085-65524 clusters, FAT32: >= 65525 clusters."
ClustersMatchType == Of(FatParts) # {} => (Fat.fat32 <=> Counted > Max16)

\* "Calculate FAT32 size (4 bytes per entry)": the FAT has an entry for every
\* cluster of the volume.
Fat32Covers == (Of(FatParts) # {} /\ Fat.fat32) => (Counted + 2) * 4 <= Fat.fatsz * BlockSize

\* "Writing GPT (primary + backup)": when success is reported the backup is
\* there, on a device of any size that is accepted.
BackupSurvives == status = "SUCCESS" => \A part \in BackupParts : Survives(part)

\* "Error: Device too small for GPT": on a device without room for a
\* partition between the two tables, nothing of the GPT is written.
TooSmallRefused == Of({"header"}) # {} => total - 2 - EntriesLbas > FirstUsable

\* "Error: Failed to format": a volume that was not written as a whole is not
\* reported as formatted.
FatWritesReported == status = "SUCCESS" => ~lost
=============================================================================
