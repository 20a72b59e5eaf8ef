----------------------------- MODULE Yaffs2Scan -----------------------------
(***************************************************************************)
(* MtYaffs2Dxe's scan of a NAND flash that RouterOS wrote: the walk over   *)
(* the blocks by summaries or page by page, and the tree built from it,    *)
(* over AlNandDxe's page register and bad-block table.                     *)
(*                                                                         *)
(* The writer is external.  It writes the pages of one block at a time, in *)
(* order, under a sequence number that grows with every block; a block     *)
(* that is full ends in a summary; the newest copies of what an old block  *)
(* holds are written again before it is erased or retired; the header that *)
(* marks an object deleted goes only when nothing else of it is left.      *)
(* Power fails at any moment, between two pages or during one; the writer  *)
(* then goes on behind the torn page.  AlNandDxe turns ECC off, so a torn  *)
(* page is not a read error: it reads as whatever its cells hold.          *)
(***************************************************************************)
EXTENDS Integers, Sequences, FiniteSets

CONSTANTS
    NumBlocks, PagesPerBlock,
    Dirs, Files,        \* object ids beside the root
    MaxWrites,          \* bound: pages the writer writes
    StaleAt,            \* entries a summary may have zero, beside the first
    MaxTorn,            \* bound: torn pages on the flash
    SeqMax,             \* highest sequence number a torn page may read with
    TornParents,        \* parents a torn header may read with
    MaxErrors,          \* bound: readable pages that fail to read
    MaxFaulty,          \* bound: pages written to a flash that is scanned with faults
    AllocFails          \* AllocatePool may fail, once, during the scan

Root      == 1          \* YAFFS2_OBJECTID_ROOT
Unlinked  == 3          \* YAFFS2_OBJECTID_UNLINKED
Deleted   == 4          \* YAFFS2_OBJECTID_DELETED
SummaryId == 16         \* YAFFS2_SUMMARY_OBJ_ID
Objects   == {Root} \cup Dirs \cup Files
Pseudo    == {0, Unlinked, Deleted, SummaryId}

ASSUME ScanAssumption ==
    /\ NumBlocks \in Nat \ {0}
    /\ PagesPerBlock \in Nat \ {0, 1}
    /\ Dirs \cup Files \subseteq Nat \ (Pseudo \cup {Root})
    /\ MaxWrites \in Nat
    /\ StaleAt \subseteq Nat
    /\ MaxTorn \in Nat
    /\ SeqMax \in Nat
    /\ TornParents \subseteq Objects \cup {0, Deleted}
    /\ MaxErrors \in Nat
    /\ MaxFaulty \in Nat
    /\ AllocFails \in BOOLEAN

Blocks  == 0 .. NumBlocks - 1
NumPages == NumBlocks * PagesPerBlock
Pages   == 0 .. NumPages - 1
Unset   == -1           \* YAFFS2_CHUNK_UNSET; no page

\* A key is an object and 0 for its header or the number of a data chunk.
Keys == (Objects \X {0}) \cup (Files \X {1})

Block(p)  == p \div PagesPerBlock
First(b)  == b * PagesPerBlock
Last(b)   == First(b) + PagesPerBlock - 1

\* What a page reads as: nothing; tags that are skipped; the tags of a summary
\* over a body with a wrong checksum; a chunk; a summary.
Erased == [kind |-> "erased"]
Void   == [kind |-> "void"]
BadSum == [kind |-> "badsum"]
Chunk(seq, k, parent, ver) ==
    [kind |-> "chunk", seq |-> seq, key |-> k, parent |-> parent, ver |-> ver]
Summary(seq, entries) == [kind |-> "summary", seq |-> seq, entries |-> entries]

VARIABLES
    flash,          \* what each page reads as
    torn,           \* pages whose writing power cut short
    bad,            \* blocks marked bad on the flash
    cur, pos, seq,  \* writer: current block, next page in it, its sequence number
    writes,         \* writer: pages written so far
    latest,         \* writer: parent and version of each key, ver = 0 if none
    pc,             \* the writer runs, or the position of the scan
    BadBlockMap,    \* AlNandDxe
    reg,            \* the page in the NAND's page register
    PageBuf,        \* the page whose data Volume->PageBuffer holds
    errors,         \* history: readable pages that failed to read
    blk, idx,       \* Block; PageInBlock, or the index into EntryStore
    EntryStore,     \* entries of the summary being processed
    hdr,            \* per object: sequence number and page of its header, and
                    \* the page its fields came from
    loc,            \* per chunk of a file: sequence number and page
    seen,           \* history: pages handed to ProcessHeader or ProcessDataChunk
    starved,        \* history: an allocation failed
    Status

writerVars == <<flash, torn, bad, cur, pos, seq, writes, latest>>
nandVars   == <<BadBlockMap, reg, PageBuf, errors>>
walkVars   == <<blk, idx, EntryStore>>
tableVars  == <<hdr, loc, seen, starved>>
vars       == <<writerVars, pc, nandVars, walkVars, tableVars, Status>>
-----------------------------------------------------------------------------
(***************************************************************************)
(* The writer (external).                                                  *)
(***************************************************************************)
IsChunk(p) == flash[p].kind = "chunk"
IsCopy(p)  == IsChunk(p) /\ p \notin torn
OfKey(k)   == {p \in Pages : IsCopy(p) /\ Block(p) \notin bad /\ flash[p].key = k}
OfObject(o) == UNION {OfKey(k) : k \in {l \in Keys : l[1] = o}}

\* Pages in the order they were written.
Older(p, q) == flash[p].seq < flash[q].seq \/ (flash[p].seq = flash[q].seq /\ p < q)
IsNewest(p) == \A q \in OfKey(flash[p].key) \ {p} : Older(q, p)

Alive(o) == latest[<<o, 0>>].ver # 0 /\ latest[<<o, 0>>].parent # Deleted
Empty(d) == \A o \in Objects : Alive(o) => latest[<<o, 0>>].parent # d

\* A page goes to the current block, or opens an erased one.
IsBlank(b) == \A p \in First(b) .. Last(b) : flash[p] = Erased /\ p \notin torn

GoesTo(b, q) ==
    IF pos < PagesPerBlock THEN b = cur /\ q = pos
    ELSE b \notin bad /\ IsBlank(b) /\ q = 0

Append1(k, parent, ver) ==
    /\ pc = "writer" /\ writes < MaxWrites
    /\ \E b \in Blocks, q \in 0 .. PagesPerBlock - 2 :
        /\ GoesTo(b, q)
        /\ cur' = b
        /\ pos' = q + 1
        /\ seq' = IF q = 0 THEN seq + 1 ELSE seq
        /\ flash' = [flash EXCEPT ![First(b) + q] = Chunk(seq', k, parent, ver)]
    /\ writes' = writes + 1
    /\ UNCHANGED <<torn, bad>>

\* A new header or data chunk: an object is created or renamed in a live
\* directory, or deleted (an empty directory, or a file).
WriteKey(k, parent) ==
    /\ k[2] = 0 =>
        \/ k[1] = Root /\ parent = Root
        \/ /\ k[1] # Root
           /\ parent \in {Root} \cup Dirs /\ parent # k[1] /\ Alive(parent)
           /\ Alive(k[1]) \/ OfObject(k[1]) = {}
           /\ k[1] \in Dirs => parent = Root
        \/ k[1] # Root /\ parent = Deleted /\ Alive(k[1]) /\ Empty(k[1])
    /\ k[2] # 0 => Alive(k[1]) /\ parent = 0
    /\ Append1(k, parent, writes + 1)
    /\ latest' = [l \in Keys |->
                    IF l = k THEN [parent |-> parent, ver |-> writes + 1]
                    ELSE IF k[2] = 0 /\ ~Alive(k[1]) /\ l[1] = k[1] THEN [parent |-> 0, ver |-> 0]
                    ELSE latest[l]]
    /\ UNCHANGED <<pc, nandVars, walkVars, tableVars, Status>>

\* Garbage collection: the newest copy of a key is written again.
Copy(p) ==
    /\ IsCopy(p) /\ Block(p) \notin bad \cup {cur} /\ IsNewest(p)
    /\ Append1(flash[p].key, flash[p].parent, flash[p].ver)
    /\ UNCHANGED <<latest, pc, nandVars, walkVars, tableVars, Status>>

\* What may go with block b.
Needless(p, b) ==
    LET o == flash[p].key[1] IN
    \/ ~IsNewest(p)
    \/ flash[p].key[2] # 0 /\ ~Alive(o)
    \/ ~Alive(o) /\ \A q \in OfObject(o) : Block(q) = b

Collect(b, retire) ==
    /\ pc = "writer"
    /\ b \notin bad \cup {cur} /\ ~IsBlank(b)
    /\ \A p \in First(b) .. Last(b) : IsCopy(p) => Needless(p, b)
    /\ flash' = IF retire THEN flash
                ELSE [p \in Pages |-> IF Block(p) = b THEN Erased ELSE flash[p]]
    /\ torn' = IF retire THEN torn ELSE {p \in torn : Block(p) # b}
    /\ bad' = IF retire THEN bad \cup {b} ELSE bad
    /\ UNCHANGED <<cur, pos, seq, writes, latest, pc, nandVars, walkVars, tableVars, Status>>

Zero == [obj |-> 0, header |-> FALSE, chunk |-> 0]
EntryOf(p) == [obj |-> flash[p].key[1], header |-> flash[p].key[2] = 0,
               chunk |-> flash[p].key[2]]

\* The summary of a full block, with zero entries for torn pages and where it
\* is stale.
WriteSummary ==
    /\ pc = "writer" /\ pos = PagesPerBlock - 1
    /\ \E stale \in {{}, 1 .. PagesPerBlock - 1} \cup SUBSET StaleAt :
        flash' = [flash EXCEPT ![Last(cur)] = Summary(seq,
                    [i \in 1 .. PagesPerBlock - 1 |->
                        IF i \in stale \/ ~IsCopy(First(cur) + i - 1) THEN Zero
                        ELSE EntryOf(First(cur) + i - 1)])]
    /\ pos' = PagesPerBlock
    /\ UNCHANGED <<torn, bad, cur, seq, writes, latest, pc, nandVars, walkVars, tableVars, Status>>

\* Power fails during a page.  Its tags may read as any, those of a newer copy
\* of any header or chunk included; the next page goes behind it.
Garbage ==
    {Erased, Void, BadSum} \cup
    [kind : {"chunk"}, seq : 1 .. SeqMax, key : Objects \X {0}, parent : TornParents, ver : {0}] \cup
    [kind : {"chunk"}, seq : 1 .. SeqMax, key : Files \X {1}, parent : {0}, ver : {0}]

TearPage ==
    /\ pc = "writer" /\ writes < MaxWrites /\ Cardinality(torn) < MaxTorn
    /\ \E b \in Blocks, q \in 0 .. PagesPerBlock - 1, g \in Garbage :
        /\ GoesTo(b, q)
        /\ cur' = b
        /\ pos' = q + 1
        /\ seq' = IF q = 0 THEN seq + 1 ELSE seq
        /\ flash' = [flash EXCEPT ![First(b) + q] = g]
        /\ torn' = torn \cup {First(b) + q}
    /\ writes' = writes + 1
    /\ UNCHANGED <<bad, latest, pc, nandVars, walkVars, tableVars, Status>>

\* A fault of the NAND or of the memory is still possible.
MayFail == errors < MaxErrors /\ ~starved /\ writes <= MaxFaulty

\* The machine stops and starts again with AlNandScanBadBlocks: a block whose
\* first page does not read counts as bad.
PowerCycle ==
    /\ pc = "writer"
    /\ \E more \in SUBSET Blocks :
        /\ more # {} => MayFail
        /\ errors + Cardinality(more) <= MaxErrors
        /\ BadBlockMap' = bad \cup more
        /\ errors' = errors + Cardinality(more)
    /\ pc' = "block"
    /\ UNCHANGED <<writerVars, reg, PageBuf, walkVars, tableVars, Status>>
-----------------------------------------------------------------------------
(***************************************************************************)
(* AlNandDxe.  A page of a bad block reads as erased and leaves the page   *)
(* register alone.                                                         *)
(***************************************************************************)
Reads(ok) ==
    /\ ok \/ MayFail
    /\ errors' = IF ok THEN errors ELSE errors + 1

IsBlockBad(p) == Block(p) \in BadBlockMap

\* AlNandFlashReadTags on p: an error if al_nand_data_buff_read fails, or the
\* tags the page reads as.
TagsError(p, ok) == ~IsBlockBad(p) /\ ~ok
TagsErased(p)    == IsBlockBad(p) \/ flash[p] = Erased
NoTags(p, ok)    == TagsError(p, ok) \/ TagsErased(p)
Load(p)          == reg' = IF IsBlockBad(p) THEN reg ELSE p

\* AlNandFlashReadPage.
ReadPage(p) ==
    /\ PageBuf' = p
    /\ Load(p)

\* AlNandFlashReadPageBody: whatever page the register holds.
ReadPageBody ==
    /\ PageBuf' = reg
    /\ UNCHANGED reg
-----------------------------------------------------------------------------
(***************************************************************************)
(* Tables.                                                                 *)
(***************************************************************************)
Newer(s, p, old) == s > old.seq \/ (s = old.seq /\ p > old.page)

Exists(o) == hdr[o].seq # 0 \/ (o \in Files /\ loc[o].page # Unset)

\* ProcessHeader for object o with tags of page p, sequence number s and the
\* page buffer as it is after this step.  The object, if it is not there yet,
\* takes an allocation.
ProcessHeader(o, s, p) ==
    /\ seen' = seen \cup {p}
    /\ \/ /\ AllocFails /\ MayFail /\ ~Exists(o)
          /\ starved' = TRUE
          /\ UNCHANGED hdr
       \/ /\ hdr' = IF hdr[o].seq # 0 /\ ~Newer(s, p, hdr[o]) THEN hdr
                    ELSE [hdr EXCEPT ![o] = [seq |-> s, page |-> p, from |-> PageBuf']]
          /\ UNCHANGED starved
    /\ UNCHANGED loc

\* Slip: within a block the first copy is kept, not the last.
ProcessDataChunkFirst(o, c, s, p) ==
    /\ seen' = seen \cup {p}
    /\ loc' = IF loc[o].page = Unset \/ s > loc[o].seq
              THEN [loc EXCEPT ![o] = [seq |-> s, page |-> p]] ELSE loc
    /\ UNCHANGED <<starved, hdr>>

\* ProcessDataChunk; the chunk array may have to grow.
ProcessDataChunk(o, c, s, p) ==
    /\ seen' = seen \cup {p}
    /\ \/ /\ AllocFails /\ MayFail /\ loc[o].page = Unset
          /\ starved' = TRUE
          /\ UNCHANGED loc
       \/ /\ loc' = IF c # 0 /\ (loc[o].page = Unset \/ Newer(s, p, loc[o]))
                    THEN [loc EXCEPT ![o] = [seq |-> s, page |-> p]] ELSE loc
          /\ UNCHANGED starved
    /\ UNCHANGED hdr
-----------------------------------------------------------------------------
(***************************************************************************)
(* Yaffs2ScanNand.                                                         *)
(***************************************************************************)
NextBlock ==
    /\ pc' = "block"
    /\ blk' = blk + 1

\* The quick check of the first page.
StartBlock ==
    /\ pc = "block" /\ blk < NumBlocks
    /\ Load(First(blk))
    /\ \E ok \in BOOLEAN :
        /\ Reads(ok)
        /\ IF NoTags(First(blk), ok) THEN NextBlock ELSE pc' = "summary" /\ UNCHANGED blk
    /\ UNCHANGED <<writerVars, BadBlockMap, PageBuf, idx, EntryStore, tableVars, Status>>

FallBack ==
    /\ pc' = "page"
    /\ idx' = 0

\* ScanBlockViaSummary: the tags of the last page ...
SummaryTags ==
    /\ pc = "summary"
    /\ Load(Last(blk))
    /\ \E ok \in BOOLEAN :
        /\ Reads(ok)
        /\ IF NoTags(Last(blk), ok) \/ flash[Last(blk)].kind \notin {"summary", "badsum"}
           THEN FallBack ELSE pc' = "summaryBody" /\ UNCHANGED idx
    /\ UNCHANGED <<writerVars, BadBlockMap, PageBuf, blk, EntryStore, tableVars, Status>>

\* Slip: the entries are taken without looking at the first.
SummaryBodyUnchecked ==
    /\ pc = "summaryBody"
    /\ ReadPageBody
    /\ Reads(TRUE)
    /\ IF flash[PageBuf'].kind = "summary"
       THEN /\ EntryStore' = flash[PageBuf'].entries
            /\ pc' = "entry"
            /\ idx' = 1
       ELSE FallBack /\ UNCHANGED EntryStore
    /\ UNCHANGED <<writerVars, BadBlockMap, blk, tableVars, Status>>

\* ... and its body: refused if it does not read, if its version, sequence
\* number or checksum is wrong, or if its first entry is zero.
SummaryBody ==
    /\ pc = "summaryBody"
    /\ ReadPageBody
    /\ \E ok \in BOOLEAN :
        /\ Reads(ok)
        /\ IF ok /\ flash[PageBuf'].kind = "summary" /\ flash[PageBuf'].entries[1] # Zero
           THEN /\ EntryStore' = flash[PageBuf'].entries
                /\ pc' = "entry"
                /\ idx' = 1
           ELSE FallBack /\ UNCHANGED EntryStore
    /\ UNCHANGED <<writerVars, BadBlockMap, blk, tableVars, Status>>

\* Slip: the header's page is taken from the page register.
EntryHeaderFromRegister ==
    /\ pc = "entry" /\ idx <= Len(EntryStore)
    /\ EntryStore[idx].header
    /\ ReadPageBody
    /\ Reads(TRUE)
    /\ ProcessHeader(EntryStore[idx].obj, flash[Last(blk)].seq, First(blk) + idx - 1)
    /\ idx' = idx + 1
    /\ UNCHANGED <<writerVars, pc, BadBlockMap, blk, EntryStore, Status>>

EntryHeader ==
    /\ pc = "entry" /\ idx <= Len(EntryStore)
    /\ EntryStore[idx].header
    /\ ReadPage(First(blk) + idx - 1)
    /\ \/ Reads(FALSE) /\ UNCHANGED tableVars
       \/ Reads(TRUE) /\ ProcessHeader(EntryStore[idx].obj, flash[Last(blk)].seq, First(blk) + idx - 1)
    /\ idx' = idx + 1
    /\ UNCHANGED <<writerVars, pc, BadBlockMap, blk, EntryStore, Status>>

EntryData ==
    /\ pc = "entry" /\ idx <= Len(EntryStore)
    /\ ~EntryStore[idx].header
    /\ IF EntryStore[idx].obj \in Pseudo THEN UNCHANGED tableVars
       ELSE ProcessDataChunk(EntryStore[idx].obj, EntryStore[idx].chunk,
                             flash[Last(blk)].seq, First(blk) + idx - 1)
    /\ idx' = idx + 1
    /\ UNCHANGED <<writerVars, pc, nandVars, blk, EntryStore, Status>>

EntriesDone ==
    /\ pc = "entry" /\ idx > Len(EntryStore)
    /\ NextBlock
    /\ EntryStore' = <<>>
    /\ UNCHANGED <<writerVars, nandVars, idx, tableVars, Status>>

\* ScanBlockPageByPage: the first page without tags ends the block.
Page == First(blk) + idx

PageTags ==
    /\ pc = "page" /\ idx < PagesPerBlock
    /\ Load(Page)
    /\ \E ok \in BOOLEAN : Reads(ok) /\
        \/ NoTags(Page, ok) /\ NextBlock /\ UNCHANGED <<idx, tableVars>>
        \/ /\ ~NoTags(Page, ok) /\ ~IsChunk(Page)       \* a summary, or skipped
           /\ idx' = idx + 1
           /\ UNCHANGED <<pc, blk, tableVars>>
        \/ /\ ~NoTags(Page, ok) /\ IsChunk(Page) /\ flash[Page].key[2] = 0
           /\ pc' = "body"
           /\ UNCHANGED <<blk, idx, tableVars>>
        \/ /\ ~NoTags(Page, ok) /\ IsChunk(Page) /\ flash[Page].key[2] # 0
           /\ ProcessDataChunk(flash[Page].key[1], flash[Page].key[2], flash[Page].seq, Page)
           /\ idx' = idx + 1
           /\ UNCHANGED <<pc, blk>>
    /\ UNCHANGED <<writerVars, BadBlockMap, PageBuf, EntryStore, Status>>

PageBody ==
    /\ pc = "body"
    /\ ReadPageBody
    /\ \/ Reads(FALSE) /\ UNCHANGED tableVars
       \/ Reads(TRUE) /\ ProcessHeader(flash[Page].key[1], flash[Page].seq, Page)
    /\ pc' = "page"
    /\ idx' = idx + 1
    /\ UNCHANGED <<writerVars, BadBlockMap, blk, EntryStore, Status>>

PagesDone ==
    /\ pc = "page" /\ idx = PagesPerBlock
    /\ NextBlock
    /\ UNCHANGED <<writerVars, nandVars, idx, EntryStore, tableVars, Status>>

\* BuildTree: the objects that stay, and where each is shown.
Parent(o) == flash[hdr[o].from].parent
Stays(o)  == hdr[o].seq # 0 /\ Parent(o) \notin {Unlinked, Deleted}
ShownIn(o) == IF Parent(o) \in Objects /\ Stays(Parent(o)) THEN Parent(o) ELSE Root

FinishScan ==
    /\ pc = "block" /\ blk = NumBlocks
    /\ pc' = "done"
    /\ Status' = IF Stays(Root) THEN "SUCCESS" ELSE "VOLUME_CORRUPTED"
    /\ UNCHANGED <<writerVars, nandVars, walkVars, tableVars>>
-----------------------------------------------------------------------------
\* A formatted volume: the root's header, in any block.
Init ==
    /\ \E b \in Blocks :
        /\ cur = b
        /\ flash = [p \in Pages |-> IF p = First(b) THEN Chunk(1, <<Root, 0>>, Root, 1) ELSE Erased]
    /\ torn = {}
    /\ pos = 1
    /\ seq = 1
    /\ bad = {}
    /\ writes = 1
    /\ latest = [k \in Keys |-> IF k = <<Root, 0>> THEN [parent |-> Root, ver |-> 1]
                                ELSE [parent |-> 0, ver |-> 0]]
    /\ pc = "writer"
    /\ BadBlockMap = {}
    /\ reg = Unset
    /\ PageBuf = Unset
    /\ errors = 0
    /\ blk = 0
    /\ idx = 0
    /\ EntryStore = <<>>
    /\ hdr = [o \in Objects |-> [seq |-> 0, page |-> Unset, from |-> Unset]]
    /\ loc = [o \in Files |-> [seq |-> 0, page |-> Unset]]
    /\ seen = {}
    /\ starved = FALSE
    /\ Status = "none"

Scan ==
    \/ StartBlock \/ SummaryTags \/ SummaryBody
    \/ EntryHeader \/ EntryData \/ EntriesDone
    \/ PageTags \/ PageBody \/ PagesDone \/ FinishScan

Next ==
    \/ \E k \in Keys, parent \in Objects \cup {0, Deleted} : WriteKey(k, parent)
    \/ \E p \in Pages : Copy(p)
    \/ \E b \in Blocks, retire \in BOOLEAN : Collect(b, retire)
    \/ WriteSummary
    \/ TearPage
    \/ PowerCycle
    \/ Scan

Spec == Init /\ [][Next]_vars
-----------------------------------------------------------------------------
(***************************************************************************)
(* Correctness.                                                            *)
(***************************************************************************)

\* Every variable of the scan has its type.
ScanTypeOK ==
    /\ pc \in {"writer", "block", "summary", "summaryBody", "entry", "page", "body", "done"}
    /\ BadBlockMap \subseteq Blocks
    /\ reg \in Pages \cup {Unset}
    /\ PageBuf \in Pages \cup {Unset}
    /\ errors \in 0 .. MaxErrors
    /\ blk \in 0 .. NumBlocks
    /\ idx \in 0 .. PagesPerBlock
    /\ hdr \in [Objects -> [seq : Nat, page : Pages \cup {Unset}, from : Pages \cup {Unset}]]
    /\ loc \in [Files -> [seq : Nat, page : Pages \cup {Unset}]]
    /\ seen \subseteq Pages
    /\ starved \in BOOLEAN
    /\ Status \in {"none", "SUCCESS", "VOLUME_CORRUPTED"}

\* Every readable page was read and there was memory for everything.
Intact == errors = 0 /\ ~starved

\* What the scan can see of the flash: the pages a good summary names, or,
\* without one, those before the first page of their block that reads erased.
Accepted(b) == flash[Last(b)].kind = "summary" /\ flash[Last(b)].entries[1] # Zero

Hidden(p) ==
    LET b == Block(p) IN
    IF Accepted(b) THEN flash[Last(b)].entries[p - First(b) + 1] = Zero
    ELSE \E q \in First(b) .. p - 1 : flash[q] = Erased

Visible(p) == IsChunk(p) /\ Block(p) \notin bad /\ ~Hidden(p)

\* The newest copy of k can be seen, and no torn page that can be seen passes
\* for a newer one.
Readable(k) ==
    /\ \A p \in OfKey(k) : IsNewest(p) => Visible(p)
    /\ \A q \in torn : (Visible(q) /\ flash[q].key = k) => \E p \in OfKey(k) : Older(q, p)

\* After power failures at any points, within pages and with garbage collection
\* half done, every live object shows its newest header and every file its
\* newest chunk, if that copy is Readable: whichever block it is in, whether
\* the block has a good, a stale, a torn or no summary, and whatever the torn
\* pages before, behind or beside it read as.
FilesAreCurrent ==
    (pc = "done" /\ Intact) => \A o \in Objects : Alive(o) =>
        /\ Readable(<<o, 0>>) =>
            hdr[o].seq # 0 /\ flash[hdr[o].from].ver = latest[<<o, 0>>].ver
        /\ (o \in Files /\ latest[<<o, 1>>].ver # 0 /\ Readable(<<o, 1>>)) =>
            loc[o].page # Unset /\ flash[loc[o].page].ver = latest[<<o, 1>>].ver

\* The scan succeeds if the root's header is Readable; an object whose header
\* is stays exactly if it is alive, so that no deleted one comes back; and a
\* live one is shown where it was last put if that directory's header is
\* Readable too.
TreeIsCurrent ==
    (pc = "done" /\ Intact) =>
        /\ Readable(<<Root, 0>>) => Status = "SUCCESS"
        /\ \A o \in Objects : Readable(<<o, 0>>) =>
            /\ Stays(o) <=> Alive(o)
            /\ (Alive(o) /\ Readable(<<latest[<<o, 0>>].parent, 0>>)) =>
                ShownIn(o) = latest[<<o, 0>>].parent

\* ReadPageBody takes no page number: the fields of a header come from the
\* page its tags came from, through the summary, page by page, and over reads
\* that fail and blocks that count as bad.
FieldsFromTaggedPage ==
    \A o \in Objects : hdr[o].seq # 0 =>
        /\ hdr[o].from = hdr[o].page
        /\ flash[hdr[o].page].key = <<o, 0>>
        /\ flash[hdr[o].page].seq = hdr[o].seq

\* At every point of the scan an entry is the newest of the pages processed
\* so far, whatever reads failed.
NewestSoFar ==
    ~starved => \A p \in seen :
        LET o == flash[p].key[1]
            e == IF flash[p].key[2] = 0 THEN hdr[o].page ELSE loc[o].page
        IN  e \in seen /\ flash[e].key = flash[p].key /\ (e = p \/ Older(p, e))

\* At every point of the scan, whatever reads or allocations have failed, an
\* entry has its type, the fields of its own page, and is the newest seen.
ScanInv == ScanTypeOK /\ FieldsFromTaggedPage /\ NewestSoFar

\* The comment of ScanBlockViaSummary: "TRUE: Summary was valid and block was
\* fully processed".
BlockFullyProcessed ==
    (pc = "entry" /\ idx > Len(EntryStore)) =>
        \A p \in First(blk) .. Last(blk) : IsCopy(p) => p \in seen

\* The comment of Yaffs2ScanNand: "EFI_OUT_OF_RESOURCES Allocation failure".
StarvationReported == (pc = "done" /\ starved) => Status # "SUCCESS"
=============================================================================
