---------------------------- MODULE Yaffs2Proof -----------------------------
(***************************************************************************)
(* MtYaffs2Dxe. The scan, for every size of the flash, every set of        *)
(* directories and files and every number of pages written, read errors    *)
(* and failing allocations; then the file protocol, for every volume a     *)
(* scan may leave, any number of handles and calls and any path.           *)
(***************************************************************************)
EXTENDS Yaffs2Scan, Yaffs2File, FiniteSetTheorems, SequenceTheorems, NaturalsInduction,
        WellFoundedInduction, TLAPS

(***************************************************************************)
(* The scan, with Spec the specification of module Yaffs2Scan.             *)
(***************************************************************************)

(***************************************************************************)
(* The inductive invariant: the flash a writer leaves.                     *)
(***************************************************************************)
Parents == Objects \cup {0, Deleted}

ChunkPage   == [kind : {"chunk"}, seq : Nat \ {0}, key : Keys, parent : Parents, ver : Nat]
SummaryPage == [kind : {"summary"}, seq : Nat \ {0},
                entries : [1 .. PagesPerBlock - 1 -> [obj : Nat, header : BOOLEAN, chunk : Nat]]]

WriterTypeOK ==
    /\ flash \in [Pages -> ChunkPage \cup SummaryPage \cup {Erased, Void, BadSum}]
    /\ torn \subseteq Pages
    /\ bad \subseteq Blocks
    /\ cur \in Blocks
    /\ pos \in 1 .. PagesPerBlock
    /\ seq \in Nat \ {0}
    /\ writes \in Nat
    /\ latest \in [Keys -> [parent : Parents, ver : Nat]]

\* The copies in a block have one sequence number, that no other block has.
Copies ==
    \A p, q \in Pages : (IsCopy(p) /\ IsCopy(q)) =>
        (flash[p].seq = flash[q].seq <=> Block(p) = Block(q))

\* What a summary says of a page is right, or it says nothing.
SummaryFits(b) ==
    LET s == flash[Last(b)] IN
    \A i \in 1 .. PagesPerBlock - 1 :
        LET p == First(b) + i - 1 IN
        s.entries[i] # Zero => IsCopy(p) /\ flash[p].seq = s.seq /\ s.entries[i] = EntryOf(p)

Summaries == \A b \in Blocks : flash[Last(b)].kind = "summary" => SummaryFits(b)

\* Where the writer is: its block is blank from pos on and has the highest
\* sequence number.
WriterAt ==
    pc = "writer" =>
        /\ cur \notin bad
        /\ \A p \in Pages : (Block(p) = cur /\ p >= First(cur) + pos) =>
            flash[p] = Erased /\ p \notin torn
        /\ \A p \in Pages : IsCopy(p) =>
            flash[p].seq <= seq /\ (flash[p].seq = seq <=> Block(p) = cur)

\* What was last written is the newest copy; of a deleted object the newest
\* header says so, if any is left.
NewestIs(k, p) == p \in OfKey(k) /\ IsNewest(p)

Current ==
    /\ \A k \in Keys : (Alive(k[1]) /\ latest[k].ver # 0) =>
        \E p \in Pages : NewestIs(k, p) /\ flash[p].ver = latest[k].ver /\ flash[p].parent = latest[k].parent
    /\ \A o \in Objects : ~Alive(o) =>
        \/ OfKey(<<o, 0>>) = {}
        \/ \E p \in Pages : NewestIs(<<o, 0>>, p) /\ flash[p].parent = Deleted

\* Live objects are in live directories.
LiveTree ==
    /\ Alive(Root) /\ latest[<<Root, 0>>].parent = Root
    /\ \A o \in Objects : Alive(o) =>
        latest[<<o, 0>>].parent \in {Root} \cup Dirs /\ Alive(latest[<<o, 0>>].parent)

WriterInv == WriterTypeOK /\ Copies /\ Summaries /\ WriterAt /\ Current /\ LiveTree

(***************************************************************************)
(* The inductive invariant: the scan.                                      *)
(***************************************************************************)
InBlock == pc \in {"summary", "summaryBody", "entry", "page", "body"}

ScanAt ==
    /\ pc = "writer" => blk = 0 /\ seen = {} /\ errors = 0 /\ ~starved
    /\ pc # "writer" => bad \subseteq BadBlockMap /\ (errors = 0 => BadBlockMap = bad)
    /\ InBlock => blk < NumBlocks /\ blk \notin BadBlockMap
    /\ pc = "entry" => flash[Last(blk)].kind = "summary"
    /\ pc = "summaryBody" => reg = Last(blk)
    /\ pc = "entry" => EntryStore = flash[Last(blk)].entries /\ EntryStore[1] # Zero /\ idx >= 1
    /\ pc = "body" => reg = Page /\ IsChunk(Page) /\ flash[Page].key[2] = 0 /\ idx < PagesPerBlock
    /\ pc = "done" => blk = NumBlocks /\ Status = IF Stays(Root) THEN "SUCCESS" ELSE "VOLUME_CORRUPTED"

\* The tables hold pages that were seen.
Tables ==
    /\ \A p \in seen : IsChunk(p) /\ Block(p) \notin BadBlockMap
    /\ \A o \in Objects : /\ hdr[o].seq # 0 => hdr[o].page \in seen
                          /\ hdr[o].seq = 0 => hdr[o].page = Unset
    /\ \A o \in Files : loc[o].page # Unset =>
        /\ loc[o].page \in seen
        /\ flash[loc[o].page].key = <<o, 1>> /\ flash[loc[o].page].seq = loc[o].seq

\* Pages of the present block that are behind the scan.
Behind(p) ==
    \/ Block(p) < blk
    \/ pc = "entry" /\ Block(p) = blk /\ p < First(blk) + idx - 1
    \/ pc \in {"page", "body"} /\ Block(p) = blk /\ p < First(blk) + idx

\* Without a fault the pages seen are those of the blocks behind, and of the
\* present block up to here, that can be seen.
Covered ==
    (pc # "writer" /\ Intact) =>
        /\ \A p \in Pages : (Visible(p) /\ Behind(p)) => p \in seen
        /\ \A p \in seen : Visible(p)

\* Then a block is read page by page only if its summary is no good, and no
\* page before the present one reads erased.
PageByPage ==
    (pc \in {"page", "body"} /\ Intact) =>
        /\ ~Accepted(blk)
        /\ \A q \in Pages : (Block(q) = blk /\ q < First(blk) + idx) => flash[q] # Erased

Scanned == ScanInv /\ ScanAt /\ Tables /\ Covered /\ PageByPage

IInv == WriterInv /\ Scanned
-----------------------------------------------------------------------------
(***************************************************************************)
(* Pages and blocks.                                                       *)
(***************************************************************************)

\* The page at index i of block b.
LEMMA PageIs ==
    ASSUME NEW b \in Blocks, NEW i \in 0 .. PagesPerBlock - 1
    PROVE  First(b) + i \in Pages /\ Block(First(b) + i) = b
  <1>1. /\ NumBlocks \in Nat /\ PagesPerBlock \in Nat /\ PagesPerBlock > 1
        /\ b \in Nat /\ b + 1 <= NumBlocks
    BY ScanAssumption DEF Blocks
  <1>2. b * PagesPerBlock \in Nat
    BY <1>1
  <1>3. (b + 1) * PagesPerBlock <= NumBlocks * PagesPerBlock
    BY <1>1
  <1>4. (b + 1) * PagesPerBlock = b * PagesPerBlock + PagesPerBlock
    BY <1>1
  <1>5. First(b) + i \in Pages
    BY <1>1, <1>2, <1>3, <1>4 DEF Pages, NumPages, First
  <1>6. (b * PagesPerBlock + i) \div PagesPerBlock = b
    BY <1>1, <1>2
  <1> QED
    BY <1>5, <1>6 DEF Block, First

\* The block of a page.
LEMMA BlockIs ==
    ASSUME NEW p \in Pages
    PROVE  /\ Block(p) \in Blocks
           /\ p - First(Block(p)) \in 0 .. PagesPerBlock - 1
  <1>1. /\ NumBlocks \in Nat /\ PagesPerBlock \in Nat /\ PagesPerBlock > 1
        /\ p \in Nat /\ p < NumBlocks * PagesPerBlock
    BY ScanAssumption DEF Pages, NumPages
  <1> DEFINE b == p \div PagesPerBlock
  <1>2. b \in Nat /\ p = b * PagesPerBlock + (p % PagesPerBlock)
        /\ p % PagesPerBlock \in 0 .. PagesPerBlock - 1
    BY <1>1
  <1>3. b < NumBlocks
    <2>1. SUFFICES ASSUME b >= NumBlocks PROVE FALSE
      BY <1>1, <1>2
    <2>2. b * PagesPerBlock >= NumBlocks * PagesPerBlock
      BY <1>1, <1>2, <2>1
    <2> QED
      BY <1>1, <1>2, <2>2
  <1> QED
    BY <1>1, <1>2, <1>3 DEF Block, First, Blocks

\* All that the rest needs to know of blocks and pages.
LEMMA Geometry ==
    /\ PagesPerBlock \in Nat /\ PagesPerBlock > 1 /\ NumBlocks \in Nat /\ NumBlocks > 0
    /\ Pages \subseteq Nat /\ Blocks \subseteq Nat /\ Unset \notin Pages
    /\ \A b \in Blocks : /\ First(b) \in Pages /\ Last(b) \in Pages
                         /\ First(b) \in Nat /\ Last(b) \in Nat
                         /\ Block(First(b)) = b /\ Block(Last(b)) = b
                         /\ Last(b) = First(b) + PagesPerBlock - 1
    /\ \A p \in Pages : /\ p \in Nat /\ Block(p) \in Blocks
                        /\ First(Block(p)) <= p /\ p <= Last(Block(p))
  <1>1. PagesPerBlock \in Nat /\ PagesPerBlock > 1 /\ NumBlocks \in Nat /\ NumBlocks > 0
    BY ScanAssumption
  <1>2. NumPages \in Nat
    BY <1>1 DEF NumPages
  <1>3. Pages \subseteq Nat /\ Blocks \subseteq Nat /\ Unset \notin Pages
    BY <1>1, <1>2 DEF Pages, Blocks, Unset
  <1>4. ASSUME NEW b \in Blocks
        PROVE  /\ First(b) \in Pages /\ Last(b) \in Pages
               /\ First(b) \in Nat /\ Last(b) \in Nat
               /\ Block(First(b)) = b /\ Block(Last(b)) = b
               /\ Last(b) = First(b) + PagesPerBlock - 1
    <2>1. First(b) \in Nat
      BY <1>1, <1>3 DEF First
    <2>2. First(b) + 0 \in Pages /\ Block(First(b) + 0) = b
      BY <1>1, PageIs
    <2>3. First(b) + (PagesPerBlock - 1) \in Pages /\ Block(First(b) + (PagesPerBlock - 1)) = b
      BY <1>1, PageIs
    <2>4. First(b) + 0 = First(b) /\ Last(b) = First(b) + (PagesPerBlock - 1)
      BY <1>1, <2>1 DEF Last
    <2> QED
      BY <1>1, <2>1, <2>2, <2>3, <2>4
  <1>5. ASSUME NEW p \in Pages
        PROVE  /\ p \in Nat /\ Block(p) \in Blocks
               /\ First(Block(p)) <= p /\ p <= Last(Block(p))
    <2>1. First(Block(p)) \in Nat
      BY <1>3, <1>4, BlockIs
    <2> QED
      BY <1>1, <1>3, <2>1, BlockIs DEF Last
  <1> QED
    BY <1>1, <1>3, <1>4, <1>5, Zenon

\* Keys are a header or the data of a file; no object has the id of a pseudo
\* object.
LEMMA KeyIs ==
    /\ \A o \in Objects : <<o, 0>> \in Keys
    /\ \A o \in Files : <<o, 1>> \in Keys
    /\ \A k \in Keys : /\ k[1] \in Objects
                       /\ \/ k[2] = 0 /\ k = <<k[1], 0>>
                          \/ k[2] = 1 /\ k = <<k[1], 1>> /\ k[1] \in Files
    /\ Objects \subseteq Nat /\ Objects \cap Pseudo = {} /\ Root \in Objects
    /\ Root \notin Files /\ Files \subseteq Objects /\ Dirs \subseteq Objects
  <1>1. Dirs \cup Files \subseteq Nat \ (Pseudo \cup {Root})
    BY ScanAssumption
  <1>2. /\ Objects \subseteq Nat /\ Objects \cap Pseudo = {} /\ Root \in Objects
        /\ Root \notin Files /\ Files \subseteq Objects /\ Dirs \subseteq Objects
    BY <1>1 DEF Objects, Pseudo, Root, Unlinked, Deleted, SummaryId
  <1>3. ASSUME NEW k \in Keys
        PROVE  /\ k[1] \in Objects
               /\ \/ k[2] = 0 /\ k = <<k[1], 0>>
                  \/ k[2] = 1 /\ k = <<k[1], 1>> /\ k[1] \in Files
    <2>1. CASE \E o \in Objects : k = <<o, 0>>
      BY <2>1
    <2>2. CASE \E o \in Files : k = <<o, 1>>
      BY <1>2, <2>2
    <2> QED
      BY <2>1, <2>2 DEF Keys
  <1> QED
    BY <1>2, <1>3 DEF Keys
-----------------------------------------------------------------------------
(***************************************************************************)
(* The writer.                                                             *)
(***************************************************************************)

\* The next page of the writer is blank; the copies in its block lie before it,
\* and no copy is newer.
LEMMA NextPage ==
    ASSUME WriterInv, pc = "writer",
           NEW b \in Blocks, NEW q \in 0 .. PagesPerBlock - 1, GoesTo(b, q),
           NEW s, s = IF q = 0 THEN seq + 1 ELSE seq
    PROVE  /\ First(b) + q \in Pages /\ Block(First(b) + q) = b
           /\ b \notin bad /\ s \in Nat \ {0}
           /\ \A p \in Pages : (Block(p) = b /\ p >= First(b) + q) =>
                flash[p] = Erased /\ p \notin torn /\ ~IsCopy(p)
           /\ \A p \in Pages : IsCopy(p) => flash[p].seq <= s /\ (flash[p].seq = s <=> Block(p) = b)
  <1>0. /\ cur \in Blocks /\ pos \in 1 .. PagesPerBlock /\ seq \in Nat \ {0}
        /\ cur \notin bad
        /\ \A p \in Pages : (Block(p) = cur /\ p >= First(cur) + pos) =>
            flash[p] = Erased /\ p \notin torn
        /\ \A p \in Pages : IsCopy(p) =>
            flash[p].seq <= seq /\ (flash[p].seq = seq <=> Block(p) = cur)
    BY DEF WriterInv, WriterTypeOK, WriterAt
  <1>1. \A p \in Pages : IsCopy(p) => flash[p].seq \in Nat \ {0}
    BY DEF WriterInv, WriterTypeOK, ChunkPage, SummaryPage, Erased, Void, BadSum, IsCopy, IsChunk
  <1>2. \A p \in Pages : flash[p] = Erased => ~IsCopy(p)
    BY DEF IsCopy, IsChunk, Erased
  <1>3. First(b) + q \in Pages /\ Block(First(b) + q) = b
    BY PageIs
  <1>4. CASE pos < PagesPerBlock
    <2>1. b = cur /\ q = pos /\ s = seq /\ q # 0
      BY <1>0, <1>4 DEF GoesTo
    <2> QED
      BY <1>0, <1>2, <1>3, <2>1
  <1>5. CASE ~(pos < PagesPerBlock)
    <2>1. b \notin bad /\ IsBlank(b) /\ q = 0 /\ s = seq + 1
      BY <1>0, <1>5, Geometry DEF GoesTo
    <2>2. \A p \in Pages : Block(p) = b => flash[p] = Erased /\ p \notin torn /\ ~IsCopy(p)
      BY <1>2, <2>1, Geometry DEF IsBlank
    <2>3. \A p \in Pages : IsCopy(p) => flash[p].seq <= s /\ flash[p].seq # s
      BY <1>0, <1>1, <2>1
    <2> QED
      BY <1>0, <1>3, <2>1, <2>2, <2>3
  <1> QED
    BY <1>4, <1>5

\* Filling that page, whatever it then reads as, keeps the shape of the flash.
LEMMA FillPage ==
    ASSUME WriterInv, pc = "writer", pc' = pc, bad' = bad,
           NEW b \in Blocks, NEW q \in 0 .. PagesPerBlock - 1, GoesTo(b, q),
           cur' = b, pos' = q + 1, seq' = IF q = 0 THEN seq + 1 ELSE seq,
           NEW x \in ChunkPage \cup SummaryPage \cup {Erased, Void, BadSum},
           flash' = [flash EXCEPT ![First(b) + q] = x],
           torn' \in {torn, torn \cup {First(b) + q}},
           IsCopy(First(b) + q)' => x.seq = seq',
           (x.kind = "summary" /\ First(b) + q = Last(b)) => SummaryFits(b)'
    PROVE  /\ Copies' /\ Summaries' /\ WriterAt'
           /\ flash' \in [Pages -> ChunkPage \cup SummaryPage \cup {Erased, Void, BadSum}]
           /\ torn' \subseteq Pages /\ bad' \subseteq Blocks
           /\ cur' \in Blocks /\ pos' \in 1 .. PagesPerBlock /\ seq' \in Nat \ {0}
           /\ First(b) + q \in Pages /\ Block(First(b) + q) \notin bad
           /\ ~IsCopy(First(b) + q) /\ First(b) + q \notin torn
           /\ \A p \in Pages : IsCopy(p) =>
                flash[p].seq < seq' \/ (flash[p].seq = seq' /\ p < First(b) + q)
  <1> DEFINE n == First(b) + q
  <1>0. /\ flash \in [Pages -> ChunkPage \cup SummaryPage \cup {Erased, Void, BadSum}]
        /\ bad \subseteq Blocks /\ torn \subseteq Pages
        /\ Copies /\ Summaries /\ WriterAt
    BY DEF WriterInv, WriterTypeOK
  <1>1. \A p \in Pages : IsCopy(p) => flash[p].seq \in Nat \ {0}
    BY <1>0 DEF ChunkPage, SummaryPage, Erased, Void, BadSum, IsCopy, IsChunk
  <1>2. /\ n \in Pages /\ Block(n) = b
        /\ b \notin bad /\ seq' \in Nat \ {0}
        /\ \A p \in Pages : (Block(p) = b /\ p >= n) =>
             flash[p] = Erased /\ p \notin torn /\ ~IsCopy(p)
        /\ \A p \in Pages : IsCopy(p) => flash[p].seq <= seq' /\ (flash[p].seq = seq' <=> Block(p) = b)
    BY NextPage
  <1>3. n \in Nat /\ First(b) \in Nat /\ ~IsCopy(n) /\ n \notin torn
        /\ First(b) + pos' = n + 1 /\ pos' \in 1 .. PagesPerBlock
    BY <1>2, Geometry
  <1>4. flash' = [flash EXCEPT ![n] = x] /\ torn' \in {torn, torn \cup {n}} /\ (IsCopy(n)' => x.seq = seq')
        /\ ((x.kind = "summary" /\ n = Last(b)) => SummaryFits(b)')
    OBVIOUS
  <1> HIDE DEF n
  <1>5. /\ \A p \in Pages : p # n => flash'[p] = flash[p] /\ (IsCopy(p)' <=> IsCopy(p))
                                    /\ (p \in torn' <=> p \in torn)
        /\ flash'[n] = x /\ torn' \subseteq Pages
        /\ flash' \in [Pages -> ChunkPage \cup SummaryPage \cup {Erased, Void, BadSum}]
    BY <1>0, <1>2, <1>4 DEF IsCopy, IsChunk
  <1>6. \A p \in Pages : IsCopy(p) => flash[p].seq < seq' \/ (flash[p].seq = seq' /\ p < n)
    BY <1>1, <1>2, <1>3, Geometry
  <1>7. Copies'
    <2>1. ASSUME NEW p \in Pages, NEW r \in Pages, IsCopy(p)', IsCopy(r)'
          PROVE  flash'[p].seq = flash'[r].seq <=> Block(p) = Block(r)
      <3>1. CASE p # n /\ r # n
        BY <1>0, <1>5, <2>1, <3>1 DEF Copies
      <3>2. CASE p = n /\ r # n
        BY <1>2, <1>4, <1>5, <2>1, <3>2
      <3>3. CASE p # n /\ r = n
        BY <1>2, <1>4, <1>5, <2>1, <3>3
      <3>4. CASE p = n /\ r = n
        BY <3>4
      <3> QED
        BY <3>1, <3>2, <3>3, <3>4
    <2> QED
      BY <2>1 DEF Copies
  <1>8. Summaries'
    <2>1. ASSUME NEW c \in Blocks, flash'[Last(c)].kind = "summary"
          PROVE  SummaryFits(c)'
      <3>1. Last(c) \in Pages /\ Block(Last(c)) = c
        BY Geometry
      <3>2. CASE Last(c) = n
        BY <1>2, <1>4, <1>5, <2>1, <3>1, <3>2
      <3>3. CASE Last(c) # n
        <4>1. flash'[Last(c)] = flash[Last(c)] /\ SummaryFits(c)
          BY <1>0, <1>5, <2>1, <3>1, <3>3 DEF Summaries
        <4>2. ASSUME NEW i \in 1 .. PagesPerBlock - 1, IsCopy(First(c) + i - 1)
              PROVE  /\ flash'[First(c) + i - 1] = flash[First(c) + i - 1]
                     /\ IsCopy(First(c) + i - 1)'
          <5>1. First(c) + (i - 1) \in Pages
            BY Geometry, PageIs
          <5>2. First(c) + (i - 1) = First(c) + i - 1
            BY Geometry
          <5> QED
            BY <1>3, <1>5, <4>2, <5>1, <5>2
        <4> QED
          BY <4>1, <4>2 DEF SummaryFits, EntryOf
      <3> QED
        BY <3>2, <3>3
    <2> QED
      BY <2>1 DEF Summaries
  <1>9. WriterAt'
    <2>1. \A p \in Pages : (Block(p) = b /\ p >= n + 1) => flash'[p] = Erased /\ p \notin torn'
      BY <1>2, <1>3, <1>5, Geometry
    <2>2. \A p \in Pages : IsCopy(p)' => flash'[p].seq <= seq' /\ (flash'[p].seq = seq' <=> Block(p) = b)
      BY <1>2, <1>4, <1>5
    <2> QED
      BY <1>2, <1>3, <2>1, <2>2 DEF WriterAt
  <1> QED
    BY <1>0, <1>2, <1>3, <1>5, <1>6, <1>7, <1>8, <1>9 DEF n

\* A page that was written is a copy newer than all others, and the flash
\* keeps its shape.
LEMMA AppendShape ==
    ASSUME WriterInv, NEW k \in Keys, NEW parent \in Parents, NEW ver \in Nat,
           Append1(k, parent, ver), pc' = pc
    PROVE  /\ Copies' /\ Summaries' /\ WriterAt'
           /\ flash' \in [Pages -> ChunkPage \cup SummaryPage \cup {Erased, Void, BadSum}]
           /\ torn' = torn /\ torn' \subseteq Pages
           /\ bad' = bad /\ cur' \in Blocks /\ pos' \in 1 .. PagesPerBlock
           /\ seq' \in Nat \ {0} /\ writes' \in Nat
           /\ \E n \in Pages :
                /\ flash' = [flash EXCEPT ![n] = Chunk(seq', k, parent, ver)]
                /\ Block(n) \notin bad /\ ~IsCopy(n) /\ n \notin torn
                /\ \A p \in Pages : IsCopy(p) =>
                    flash[p].seq < seq' \/ (flash[p].seq = seq' /\ p < n)
  <1>0. pc = "writer" /\ torn' = torn /\ bad' = bad /\ writes' = writes + 1 /\ writes \in Nat
        /\ seq \in Nat
    BY DEF WriterInv, WriterTypeOK, Append1
  <1>1. PICK b \in Blocks, q \in 0 .. PagesPerBlock - 2 :
            /\ GoesTo(b, q) /\ cur' = b /\ pos' = q + 1
            /\ seq' = IF q = 0 THEN seq + 1 ELSE seq
            /\ flash' = [flash EXCEPT ![First(b) + q] = Chunk(seq', k, parent, ver)]
    BY DEF Append1
  <1>2. q \in 0 .. PagesPerBlock - 1
    BY Geometry
  <1>3. seq' \in Nat \ {0}
    BY <1>0, <1>1, <1>2, NextPage
  <1> DEFINE c == Chunk(seq', k, parent, ver)
             n == First(b) + q
  <1>4. c \in ChunkPage /\ c.seq = seq' /\ c.kind = "chunk"
    BY <1>3 DEF Chunk, ChunkPage
  <1>5. flash' = [flash EXCEPT ![First(b) + q] = c]
    BY <1>1
  <1> HIDE DEF c
  <1>6. c \in ChunkPage \cup SummaryPage \cup {Erased, Void, BadSum} /\ c.kind # "summary"
    BY <1>4
  <1>7. /\ Copies' /\ Summaries' /\ WriterAt'
        /\ flash' \in [Pages -> ChunkPage \cup SummaryPage \cup {Erased, Void, BadSum}]
        /\ torn' \subseteq Pages
        /\ cur' \in Blocks /\ pos' \in 1 .. PagesPerBlock
        /\ First(b) + q \in Pages /\ Block(First(b) + q) \notin bad
        /\ ~IsCopy(First(b) + q) /\ First(b) + q \notin torn
        /\ \A p \in Pages : IsCopy(p) =>
             flash[p].seq < seq' \/ (flash[p].seq = seq' /\ p < First(b) + q)
    BY <1>0, <1>1, <1>2, <1>4, <1>5, <1>6, FillPage
  <1>8. /\ n \in Pages /\ flash' = [flash EXCEPT ![n] = Chunk(seq', k, parent, ver)]
        /\ Block(n) \notin bad /\ ~IsCopy(n) /\ n \notin torn
        /\ \A p \in Pages : IsCopy(p) =>
             flash[p].seq < seq' \/ (flash[p].seq = seq' /\ p < n)
    BY <1>1, <1>7
  <1>9. writes' \in Nat
    BY <1>0
  <1> HIDE DEF n
  <1> QED
    BY <1>0, <1>3, <1>7, <1>8, <1>9, Zenon

\* What a chunk on the flash is made of.
LEMMA ChunkIs ==
    ASSUME WriterTypeOK, NEW p \in Pages, IsChunk(p)
    PROVE  /\ flash[p].seq \in Nat \ {0} /\ flash[p].key \in Keys
           /\ flash[p].parent \in Parents /\ flash[p].ver \in Nat
  BY DEF WriterTypeOK, ChunkPage, SummaryPage, Erased, Void, BadSum, IsChunk

\* A key has one newest copy.
LEMMA NewestOnce ==
    ASSUME WriterTypeOK, NEW k, NEW p \in Pages, NEW q \in Pages, NewestIs(k, p), NewestIs(k, q)
    PROVE  p = q
  <1>1. SUFFICES ASSUME p # q PROVE FALSE
    OBVIOUS
  <1>2. IsChunk(p) /\ IsChunk(q) /\ Older(p, q) /\ Older(q, p)
    BY <1>1 DEF NewestIs, IsNewest, OfKey, IsCopy
  <1>3. flash[p].seq \in Nat /\ flash[q].seq \in Nat /\ p \in Nat /\ q \in Nat
    BY <1>2, ChunkIs, Geometry
  <1> QED
    BY <1>2, <1>3 DEF Older

\* A page that is written is the newest of its key; other keys stay as they are.
LEMMA AppendNewest ==
    ASSUME WriterInv, NEW k \in Keys, NEW parent \in Parents, NEW ver \in Nat,
           Append1(k, parent, ver), pc' = pc
    PROVE  /\ \E n \in Pages : /\ NewestIs(k, n)'
                               /\ flash'[n].ver = ver /\ flash'[n].parent = parent
           /\ \A l \in Keys : l # k => OfKey(l)' = OfKey(l)
           /\ \A l \in Keys, p \in Pages : (l # k /\ NewestIs(l, p)) =>
                NewestIs(l, p)' /\ flash'[p] = flash[p]
  <1>0. WriterTypeOK
    BY DEF WriterInv
  <1>1. PICK n \in Pages :
                /\ flash' = [flash EXCEPT ![n] = Chunk(seq', k, parent, ver)]
                /\ Block(n) \notin bad /\ ~IsCopy(n) /\ n \notin torn
                /\ \A p \in Pages : IsCopy(p) =>
                    flash[p].seq < seq' \/ (flash[p].seq = seq' /\ p < n)
    BY AppendShape
  <1>2. bad' = bad /\ torn' = torn
    BY DEF Append1
  <1>3. /\ flash'[n] = Chunk(seq', k, parent, ver)
        /\ \A p \in Pages : p # n => flash'[p] = flash[p]
    BY <1>0, <1>1 DEF WriterTypeOK
  <1>4. /\ flash'[n].kind = "chunk" /\ flash'[n].seq = seq' /\ flash'[n].key = k
        /\ flash'[n].ver = ver /\ flash'[n].parent = parent
    BY <1>3 DEF Chunk
  <1>5. \A p \in Pages : IsCopy(p)' <=> (p = n \/ IsCopy(p))
    BY <1>1, <1>2, <1>3, <1>4 DEF IsCopy, IsChunk
  <1>6. \A l \in Keys, p \in Pages : p \in OfKey(l)' <=> (p \in OfKey(l) \/ (p = n /\ l = k))
    BY <1>1, <1>2, <1>3, <1>4, <1>5 DEF OfKey
  <1>7. n \notin OfKey(k) /\ \A l \in Keys : n \notin OfKey(l)
    BY <1>1 DEF OfKey
  <1>8. NewestIs(k, n)'
    <2>1. n \in OfKey(k)'
      BY <1>6
    <2>2. ASSUME NEW q \in OfKey(k)', q # n
          PROVE  Older(q, n)'
      <3>1. q \in Pages /\ IsCopy(q)
        BY <1>5, <2>2 DEF OfKey
      <3> QED
        BY <1>1, <1>3, <1>4, <2>2, <3>1 DEF Older
    <2> QED
      BY <1>4, <2>1, <2>2 DEF NewestIs, IsNewest
  <1>9. ASSUME NEW l \in Keys, l # k
        PROVE  OfKey(l)' = OfKey(l)
    <2>1. OfKey(l) \subseteq Pages /\ OfKey(l)' \subseteq Pages
      BY DEF OfKey
    <2> QED
      BY <1>6, <1>9, <2>1
  <1>10. ASSUME NEW l \in Keys, NEW p \in Pages, l # k, NewestIs(l, p)
         PROVE  NewestIs(l, p)' /\ flash'[p] = flash[p]
    <2>1. p # n /\ flash[p].key = l /\ p \in OfKey(l)
      BY <1>7, <1>10 DEF NewestIs, OfKey
    <2>2. flash'[p] = flash[p] /\ p \in OfKey(l)'
      BY <1>3, <1>9, <1>10, <2>1
    <2>3. ASSUME NEW q \in OfKey(l)', q # p
          PROVE  Older(q, p)'
      <3>1. q \in OfKey(l) /\ q \in Pages /\ q # n
        BY <1>7, <1>9, <1>10, <2>3 DEF OfKey
      <3>2. Older(q, p)
        BY <1>10, <2>1, <2>3, <3>1 DEF NewestIs, IsNewest
      <3> QED
        BY <1>3, <2>2, <3>1, <3>2 DEF Older
    <2> QED
      BY <2>1, <2>2, <2>3 DEF NewestIs, IsNewest
  <1> QED
    BY <1>4, <1>8, <1>9, <1>10

\* WriteKey: the newest version becomes the current one.
LEMMA WriteKeyStep ==
    ASSUME WriterInv, NEW k \in Keys, NEW parent \in Parents, WriteKey(k, parent)
    PROVE  WriterInv'
  <1>0. /\ WriterTypeOK /\ Current /\ LiveTree /\ writes \in Nat
        /\ latest \in [Keys -> [parent : Parents, ver : Nat]]
    BY DEF WriterInv, WriterTypeOK
  <1> DEFINE v == writes + 1
  <1>1. /\ Append1(k, parent, v) /\ pc' = pc /\ v \in Nat /\ v # 0
        /\ latest' = [l \in Keys |->
                        IF l = k THEN [parent |-> parent, ver |-> v]
                        ELSE IF k[2] = 0 /\ ~Alive(k[1]) /\ l[1] = k[1] THEN [parent |-> 0, ver |-> 0]
                        ELSE latest[l]]
    BY <1>0 DEF WriteKey
  <1> HIDE DEF v
  <1>2. /\ Copies' /\ Summaries' /\ WriterAt' /\ WriterTypeOK'
    <2>1. latest' \in [Keys -> [parent : Parents, ver : Nat]]
      BY <1>0, <1>1 DEF Parents
    <2> QED
      BY <1>0, <1>1, <2>1, AppendShape DEF WriterTypeOK
  <1>3. /\ \E n \in Pages : NewestIs(k, n)' /\ flash'[n].ver = v /\ flash'[n].parent = parent
        /\ \A l \in Keys : l # k => OfKey(l)' = OfKey(l)
        /\ \A l \in Keys, p \in Pages : (l # k /\ NewestIs(l, p)) =>
             NewestIs(l, p)' /\ flash'[p] = flash[p]
    BY <1>1, AppendNewest
  <1>4. latest'[k].parent = parent /\ latest'[k].ver = v
    BY <1>1
  <1>5. /\ k[1] \in Objects
        /\ \/ k[2] = 0 /\ k = <<k[1], 0>>
           \/ k[2] = 1 /\ k = <<k[1], 1>> /\ k[1] \in Files
    BY KeyIs
  <1>6. ASSUME NEW o \in Objects
        PROVE  /\ <<o, 0>> \in Keys
               /\ <<o, 0>> # k => latest'[<<o, 0>>] = latest[<<o, 0>>] /\ (Alive(o)' <=> Alive(o))
               /\ <<o, 0>> = k => (Alive(o)' <=> parent # Deleted)
               /\ k[2] # 0 => <<o, 0>> # k
    <2>1. <<o, 0>> \in Keys
      BY KeyIs
    <2>2. ASSUME <<o, 0>> # k PROVE latest'[<<o, 0>>] = latest[<<o, 0>>]
      <3>1. ~(k[2] = 0 /\ o = k[1])
        BY <1>5, <2>2
      <3> QED
        BY <1>1, <2>1, <2>2, <3>1
    <2> QED
      BY <1>1, <1>4, <2>1, <2>2 DEF Alive
  <1>7. k[2] # 0 => Alive(k[1])
    BY DEF WriteKey
  <1>8. ASSUME NEW l \in Keys, Alive(l[1])', latest'[l].ver # 0
        PROVE  \E p \in Pages : /\ NewestIs(l, p)' /\ flash'[p].ver = latest'[l].ver
                                /\ flash'[p].parent = latest'[l].parent
    <2>1. CASE l = k
      BY <1>3, <1>4, <2>1
    <2>2. CASE l # k
      <3>1. l[1] \in Objects
        BY KeyIs
      <3>2. latest'[l] = latest[l]
        BY <1>1, <1>8, <2>2
      <3>3. Alive(l[1])
        <4>1. CASE <<l[1], 0>> # k
          BY <1>6, <1>8, <3>1, <4>1
        <4>2. CASE <<l[1], 0>> = k
          <5>1. k[2] = 0 /\ k[1] = l[1]
            BY <4>2
          <5>2. ~(k[2] = 0 /\ ~Alive(k[1]) /\ l[1] = k[1])
            BY <1>1, <1>8, <2>2
          <5> QED
            BY <5>1, <5>2
        <4> QED
          BY <4>1, <4>2
      <3>4. PICK p \in Pages : NewestIs(l, p) /\ flash[p].ver = latest[l].ver
                               /\ flash[p].parent = latest[l].parent
        BY <1>0, <1>8, <3>2, <3>3 DEF Current
      <3> QED
        BY <1>3, <2>2, <3>2, <3>4
    <2> QED
      BY <2>1, <2>2
  <1>9. ASSUME NEW o \in Objects, ~Alive(o)'
        PROVE  \/ OfKey(<<o, 0>>)' = {}
               \/ \E p \in Pages : NewestIs(<<o, 0>>, p)' /\ flash'[p].parent = Deleted
    <2>1. CASE <<o, 0>> = k
      BY <1>3, <1>6, <1>9, <2>1
    <2>2. CASE <<o, 0>> # k
      <3>1. ~Alive(o) /\ <<o, 0>> \in Keys
        BY <1>6, <1>9, <2>2
      <3>2. CASE OfKey(<<o, 0>>) = {}
        BY <1>3, <2>2, <3>1, <3>2
      <3>3. CASE \E p \in Pages : NewestIs(<<o, 0>>, p) /\ flash[p].parent = Deleted
        BY <1>3, <2>2, <3>1, <3>3
      <3> QED
        BY <1>0, <3>1, <3>2, <3>3 DEF Current
    <2> QED
      BY <2>1, <2>2
  <1>10. LiveTree'
    <2>0. /\ Alive(Root) /\ latest[<<Root, 0>>].parent = Root /\ Root \in Objects
          /\ \A o \in Objects : Alive(o) =>
                latest[<<o, 0>>].parent \in {Root} \cup Dirs /\ Alive(latest[<<o, 0>>].parent)
          /\ Dirs \subseteq Objects /\ Root # Deleted /\ Deleted \notin Dirs
      BY <1>0, KeyIs DEF LiveTree, Pseudo
    <2>1. CASE k[2] # 0
      <3>1. \A o \in Objects : latest'[<<o, 0>>] = latest[<<o, 0>>] /\ (Alive(o)' <=> Alive(o))
        BY <1>6, <2>1
      <3> QED
        BY <2>0, <3>1 DEF LiveTree
    <2>2. CASE k[2] = 0
      <3>1. /\ k = <<k[1], 0>>
            /\ \/ k[1] = Root /\ parent = Root
               \/ k[1] # Root /\ parent \in {Root} \cup Dirs /\ parent # k[1] /\ Alive(parent)
               \/ k[1] # Root /\ parent = Deleted /\ Empty(k[1])
        BY <1>5, <2>2 DEF WriteKey
      <3>2. \A o \in Objects : o # k[1] =>
              latest'[<<o, 0>>] = latest[<<o, 0>>] /\ (Alive(o)' <=> Alive(o))
        <4>1. \A o \in Objects : o # k[1] => <<o, 0>> # k
          BY <3>1
        <4> QED
          BY <1>6, <4>1
      <3>3. latest'[<<k[1], 0>>].parent = parent /\ (Alive(k[1])' <=> parent # Deleted)
        BY <1>4, <1>5, <1>6, <3>1
      <3>4. Alive(Root)' /\ latest'[<<Root, 0>>].parent = Root
        BY <2>0, <3>1, <3>2, <3>3
      <3>5. ASSUME NEW o \in Objects, Alive(o)'
            PROVE  latest'[<<o, 0>>].parent \in {Root} \cup Dirs /\ Alive(latest[<<o, 0>>].parent)'
        <4>1. CASE o = k[1]
          <5>1. \/ k[1] = Root /\ parent = Root
                \/ parent \in {Root} \cup Dirs /\ parent # k[1] /\ Alive(parent)
            BY <3>1, <3>3, <3>5, <4>1
          <5> QED
            BY <2>0, <3>2, <3>3, <3>4, <4>1, <5>1 DEF Alive
        <4>2. CASE o # k[1]
          <5>1. /\ latest'[<<o, 0>>] = latest[<<o, 0>>] /\ Alive(o)
                /\ latest[<<o, 0>>].parent \in {Root} \cup Dirs /\ Alive(latest[<<o, 0>>].parent)
                /\ latest[<<o, 0>>].parent \in Objects
            BY <2>0, <3>2, <3>5, <4>2
          <5>2. CASE latest[<<o, 0>>].parent # k[1]
            BY <3>2, <5>1, <5>2 DEF Alive
          <5>3. CASE latest[<<o, 0>>].parent = k[1]
            <6>1. parent # Deleted
              BY <3>1, <5>1, <5>3, <2>0 DEF Empty
            <6> QED
              BY <3>3, <5>1, <5>3, <6>1 DEF Alive
          <5> QED
            BY <5>2, <5>3
        <4> QED
          BY <4>1, <4>2
      <3> QED
        BY <3>4, <3>5 DEF LiveTree
    <2> QED
      BY <2>1, <2>2
  <1> QED
    BY <1>2, <1>8, <1>9, <1>10 DEF WriterInv, Current

\* Copy: the newest version is written again.
LEMMA CopyStep ==
    ASSUME WriterInv, NEW p \in Pages, Copy(p)
    PROVE  WriterInv'
  <1>0. WriterTypeOK /\ Current /\ LiveTree
    BY DEF WriterInv
  <1>1. IsCopy(p) /\ IsChunk(p) /\ Block(p) \notin bad /\ IsNewest(p)
    BY DEF Copy, IsCopy
  <1>2. PICK k \in Keys, parent \in Parents, ver \in Nat :
            k = flash[p].key /\ parent = flash[p].parent /\ ver = flash[p].ver
    BY <1>0, <1>1, ChunkIs
  <1>3. Append1(k, parent, ver) /\ latest' = latest /\ pc' = pc
    BY <1>2 DEF Copy
  <1>4. NewestIs(k, p)
    BY <1>1, <1>2 DEF NewestIs, OfKey
  <1>5. Copies' /\ Summaries' /\ WriterAt' /\ WriterTypeOK'
    BY <1>0, <1>2, <1>3, AppendShape DEF WriterTypeOK
  <1>6. /\ \E n \in Pages : /\ NewestIs(k, n)'
                            /\ flash'[n].ver = ver /\ flash'[n].parent = parent
        /\ \A l \in Keys : l # k => OfKey(l)' = OfKey(l)
        /\ \A l \in Keys, q \in Pages : (l # k /\ NewestIs(l, q)) =>
             NewestIs(l, q)' /\ flash'[q] = flash[q]
    BY <1>2, <1>3, AppendNewest
  <1>7. \A q \in Pages : NewestIs(k, q) => q = p
    BY <1>0, <1>4, NewestOnce
  <1>8. \A o : Alive(o)' <=> Alive(o)
    BY <1>3 DEF Alive
  <1>9. ASSUME NEW l \in Keys, Alive(l[1]), latest[l].ver # 0
        PROVE  \E n \in Pages : /\ NewestIs(l, n)' /\ flash'[n].ver = latest[l].ver
                                /\ flash'[n].parent = latest[l].parent
    <2>1. PICK q \in Pages : /\ NewestIs(l, q) /\ flash[q].ver = latest[l].ver
                             /\ flash[q].parent = latest[l].parent
      BY <1>0, <1>9 DEF Current
    <2>2. CASE l = k
      BY <1>2, <1>6, <1>7, <2>1, <2>2
    <2>3. CASE l # k
      BY <1>6, <2>1, <2>3
    <2> QED
      BY <2>2, <2>3
  <1>10. ASSUME NEW o \in Objects, ~Alive(o)
         PROVE  \/ OfKey(<<o, 0>>)' = {}
                \/ \E n \in Pages : NewestIs(<<o, 0>>, n)' /\ flash'[n].parent = Deleted
    <2>0. <<o, 0>> \in Keys
      BY KeyIs
    <2>1. \/ OfKey(<<o, 0>>) = {}
          \/ \E n \in Pages : NewestIs(<<o, 0>>, n) /\ flash[n].parent = Deleted
      BY <1>0, <1>10 DEF Current
    <2>2. CASE <<o, 0>> = k
      <3>1. OfKey(<<o, 0>>) # {}
        BY <1>4, <2>2 DEF NewestIs
      <3> QED
        BY <1>2, <1>6, <1>7, <2>1, <2>2, <3>1
    <2>3. CASE <<o, 0>> # k
      BY <1>6, <2>0, <2>1, <2>3
    <2> QED
      BY <2>2, <2>3
  <1>11. LiveTree'
    BY <1>0, <1>3 DEF LiveTree, Alive
  <1> QED
    BY <1>3, <1>5, <1>8, <1>9, <1>10, <1>11 DEF WriterInv, Current

\* Collect: what goes with a block is not needed any more.
LEMMA CollectStep ==
    ASSUME WriterInv, NEW b \in Blocks, NEW retire \in BOOLEAN, Collect(b, retire)
    PROVE  WriterInv'
  <1>0. /\ WriterTypeOK /\ Copies /\ Summaries /\ WriterAt /\ Current /\ LiveTree
        /\ flash \in [Pages -> ChunkPage \cup SummaryPage \cup {Erased, Void, BadSum}]
        /\ cur \in Blocks /\ bad \subseteq Blocks /\ torn \subseteq Pages
    BY DEF WriterInv, WriterTypeOK
  <1>1. /\ pc = "writer" /\ pc' = pc /\ b \notin bad /\ b # cur
        /\ \A p \in First(b) .. Last(b) : IsCopy(p) => Needless(p, b)
        /\ UNCHANGED <<cur, pos, seq, writes, latest>>
        /\ flash' = IF retire THEN flash
                    ELSE [p \in Pages |-> IF Block(p) = b THEN Erased ELSE flash[p]]
        /\ torn' = IF retire THEN torn ELSE {p \in torn : Block(p) # b}
        /\ bad' = IF retire THEN bad \cup {b} ELSE bad
    BY DEF Collect
  <1>2. flash' \in [Pages -> ChunkPage \cup SummaryPage \cup {Erased, Void, BadSum}]
    BY <1>0, <1>1
  <1>3. \A p \in Pages : Block(p) # b =>
            flash'[p] = flash[p] /\ (IsCopy(p)' <=> IsCopy(p)) /\ (p \in torn' => p \in torn)
    BY <1>1 DEF IsCopy, IsChunk
  <1>4. \/ \A p \in Pages : flash'[p] = flash[p] /\ (IsCopy(p)' <=> IsCopy(p))
        \/ \A p \in Pages : Block(p) = b => flash'[p] = Erased
    BY <1>1 DEF IsCopy, IsChunk
  <1>5. \A p \in Pages : flash'[p] = Erased => ~IsCopy(p)' /\ flash'[p].kind # "summary"
    BY DEF IsCopy, IsChunk, Erased
  <1>6. \A p \in Pages : IsCopy(p)' => IsCopy(p) /\ flash'[p] = flash[p]
    BY <1>3, <1>4, <1>5
  <1>7. \A k : OfKey(k)' = {p \in OfKey(k) : Block(p) # b}
    <2>1. ASSUME NEW k, NEW p \in Pages
          PROVE  p \in OfKey(k)' <=> (p \in OfKey(k) /\ Block(p) # b)
      <3>1. CASE Block(p) = b
        BY <1>1, <1>4, <1>5, <3>1 DEF OfKey
      <3>2. CASE Block(p) # b
        BY <1>1, <1>3, <3>2 DEF OfKey
      <3> QED
        BY <3>1, <3>2
    <2>2. \A k : OfKey(k) \subseteq Pages /\ OfKey(k)' \subseteq Pages
      BY DEF OfKey
    <2> QED
      BY <2>1, <2>2
  <1>8. ASSUME NEW k, NEW p \in Pages, NewestIs(k, p), Block(p) # b
        PROVE  NewestIs(k, p)' /\ flash'[p] = flash[p]
    <2>1. p \in OfKey(k)' /\ flash'[p] = flash[p] /\ flash[p].key = k
      BY <1>3, <1>7, <1>8 DEF NewestIs, OfKey
    <2>2. ASSUME NEW q \in OfKey(k)', q # p
          PROVE  Older(q, p)'
      <3>1. q \in OfKey(k) /\ q \in Pages /\ Block(q) # b
        BY <1>7, <2>2 DEF OfKey
      <3>2. Older(q, p)
        BY <1>8, <2>1, <2>2, <3>1 DEF NewestIs, IsNewest
      <3> QED
        BY <1>3, <2>1, <3>1, <3>2 DEF Older
    <2> QED
      BY <2>1, <2>2 DEF NewestIs, IsNewest
  <1>9. ASSUME NEW k \in Keys, NEW p \in Pages, NewestIs(k, p), Block(p) = b
        PROVE  ~Alive(k[1]) /\ (k[2] = 0 => OfKey(k)' = {})
    <2>1. IsCopy(p) /\ IsNewest(p) /\ flash[p].key = k
      BY <1>9 DEF NewestIs, OfKey
    <2>2. p \in First(b) .. Last(b)
      BY <1>9, Geometry
    <2>3. Needless(p, b)
      BY <1>1, <2>1, <2>2
    <2>4. \/ k[2] # 0 /\ ~Alive(k[1])
          \/ ~Alive(k[1]) /\ \A q \in OfObject(k[1]) : Block(q) = b
      BY <2>1, <2>3 DEF Needless
    <2>5. OfKey(k) \subseteq OfObject(k[1])
      BY DEF OfObject
    <2> QED
      BY <1>7, <2>4, <2>5
  <1>10. Current'
    <2>1. \A o : Alive(o)' <=> Alive(o)
      BY <1>1 DEF Alive
    <2>2. ASSUME NEW l \in Keys, Alive(l[1]), latest[l].ver # 0
          PROVE  \E n \in Pages : /\ NewestIs(l, n)' /\ flash'[n].ver = latest[l].ver
                                  /\ flash'[n].parent = latest[l].parent
      <3>1. PICK q \in Pages : /\ NewestIs(l, q) /\ flash[q].ver = latest[l].ver
                               /\ flash[q].parent = latest[l].parent
        BY <1>0, <2>2 DEF Current
      <3>2. Block(q) # b
        BY <1>9, <2>2, <3>1
      <3> QED
        BY <1>8, <3>1, <3>2
    <2>3. ASSUME NEW o \in Objects, ~Alive(o)
          PROVE  \/ OfKey(<<o, 0>>)' = {}
                 \/ \E n \in Pages : NewestIs(<<o, 0>>, n)' /\ flash'[n].parent = Deleted
      <3>0. <<o, 0>> \in Keys /\ <<o, 0>>[2] = 0
        BY KeyIs
      <3>1. CASE OfKey(<<o, 0>>) = {}
        BY <1>7, <3>1
      <3>2. CASE \E n \in Pages : NewestIs(<<o, 0>>, n) /\ flash[n].parent = Deleted
        <4>1. PICK n \in Pages : NewestIs(<<o, 0>>, n) /\ flash[n].parent = Deleted
          BY <3>2
        <4>2. CASE Block(n) = b
          BY <1>9, <3>0, <4>1, <4>2
        <4>3. CASE Block(n) # b
          BY <1>8, <4>1, <4>3
        <4> QED
          BY <4>2, <4>3
      <3> QED
        BY <1>0, <2>3, <3>1, <3>2 DEF Current
    <2> QED
      BY <1>1, <2>1, <2>2, <2>3 DEF Current
  <1>11. Copies'
    BY <1>0, <1>6 DEF Copies
  <1>12. Summaries'
    <2>1. ASSUME NEW x \in Blocks, flash'[Last(x)].kind = "summary"
          PROVE  SummaryFits(x)'
      <3>1. flash'[Last(x)] = flash[Last(x)] /\ SummaryFits(x)
        BY <1>0, <1>3, <1>4, <1>5, <2>1, Geometry DEF Summaries
      <3>2. ASSUME NEW i \in 1 .. PagesPerBlock - 1
            PROVE  /\ flash'[First(x) + i - 1] = flash[First(x) + i - 1]
                   /\ IsCopy(First(x) + i - 1)' <=> IsCopy(First(x) + i - 1)
        <4>1. First(x) + i - 1 \in Pages /\ Block(First(x) + i - 1) = x
          <5>1. First(x) + (i - 1) \in Pages /\ Block(First(x) + (i - 1)) = x
            BY Geometry, PageIs
          <5>2. First(x) + (i - 1) = First(x) + i - 1
            BY Geometry
          <5> QED
            BY <5>1, <5>2
        <4>2. x # b \/ \A p \in Pages : flash'[p] = flash[p] /\ (IsCopy(p)' <=> IsCopy(p))
          BY <1>4, <1>5, <2>1, Geometry
        <4> QED
          BY <1>3, <4>1, <4>2
      <3> QED
        BY <3>1, <3>2 DEF SummaryFits, EntryOf
    <2> QED
      BY <2>1 DEF Summaries
  <1>13. WriterAt'
    <2>1. cur' = cur /\ pos' = pos /\ seq' = seq /\ cur \notin bad'
      BY <1>0, <1>1 DEF WriterAt
    <2>2. \A p \in Pages : (Block(p) = cur /\ p >= First(cur) + pos) =>
            flash'[p] = Erased /\ p \notin torn'
      BY <1>0, <1>1, <1>3 DEF WriterAt
    <2>3. \A p \in Pages : IsCopy(p)' =>
            flash'[p].seq <= seq /\ (flash'[p].seq = seq <=> Block(p) = cur)
      BY <1>0, <1>1, <1>6 DEF WriterAt
    <2> QED
      BY <2>1, <2>2, <2>3 DEF WriterAt
  <1>14. WriterTypeOK' /\ LiveTree'
    BY <1>0, <1>1, <1>2 DEF WriterTypeOK, LiveTree, Alive
  <1> QED
    BY <1>10, <1>11, <1>12, <1>13, <1>14 DEF WriterInv

\* Filling a page with something that is not a copy leaves the copies and what
\* is current alone.
LEMMA SameCopies ==
    ASSUME WriterInv, NEW n \in Pages, ~IsCopy(n), ~IsCopy(n)',
           NEW x, flash' = [flash EXCEPT ![n] = x], torn' \in {torn, torn \cup {n}},
           bad' = bad, latest' = latest
    PROVE  Current' /\ LiveTree'
  <1>0. WriterTypeOK /\ Current /\ LiveTree
    BY DEF WriterInv
  <1>1. \A p \in Pages : p # n => flash'[p] = flash[p] /\ (p \in torn' <=> p \in torn)
    BY <1>0 DEF WriterTypeOK
  <1>2. \A p \in Pages : IsCopy(p)' <=> IsCopy(p)
    BY <1>1 DEF IsCopy, IsChunk
  <1>3. \A p \in Pages : IsCopy(p) => flash'[p] = flash[p]
    BY <1>1
  <1>4. \A k : OfKey(k)' = OfKey(k)
    BY <1>2, <1>3 DEF OfKey
  <1>5. ASSUME NEW k, NEW p \in Pages, NewestIs(k, p)
        PROVE  NewestIs(k, p)' /\ flash'[p] = flash[p]
    <2>1. p \in OfKey(k)' /\ flash'[p] = flash[p] /\ flash[p].key = k
      BY <1>3, <1>4, <1>5 DEF NewestIs, OfKey
    <2>2. ASSUME NEW q \in OfKey(k)', q # p
          PROVE  Older(q, p)'
      <3>1. q \in OfKey(k) /\ q \in Pages /\ flash'[q] = flash[q]
        BY <1>3, <1>4, <2>2 DEF OfKey
      <3>2. Older(q, p)
        BY <1>5, <2>1, <2>2, <3>1 DEF NewestIs, IsNewest
      <3> QED
        BY <2>1, <3>1, <3>2 DEF Older
    <2> QED
      BY <2>1, <2>2 DEF NewestIs, IsNewest
  <1>6. \A o : Alive(o)' <=> Alive(o)
    BY DEF Alive
  <1>7. Current'
    <2>1. ASSUME NEW l \in Keys, Alive(l[1]), latest[l].ver # 0
          PROVE  \E p \in Pages : /\ NewestIs(l, p)' /\ flash'[p].ver = latest[l].ver
                                  /\ flash'[p].parent = latest[l].parent
      BY <1>0, <1>5, <2>1 DEF Current
    <2>2. ASSUME NEW o \in Objects, ~Alive(o)
          PROVE  \/ OfKey(<<o, 0>>)' = {}
                 \/ \E p \in Pages : NewestIs(<<o, 0>>, p)' /\ flash'[p].parent = Deleted
      BY <1>0, <1>4, <1>5, <2>2 DEF Current
    <2> QED
      BY <1>6, <2>1, <2>2 DEF Current
  <1>8. LiveTree'
    BY <1>0 DEF LiveTree, Alive
  <1> QED
    BY <1>7, <1>8

\* WriteSummary: what it says of each page is right, or it says nothing.
LEMMA WriteSummaryStep ==
    ASSUME WriterInv, WriteSummary
    PROVE  WriterInv'
  <1> PICK b : b = cur
    OBVIOUS
  <1> DEFINE n == Last(b)
             m == PagesPerBlock - 1
  <1>0. WriterTypeOK /\ WriterAt /\ b \in Blocks /\ b = cur /\ seq \in Nat \ {0} /\ writes \in Nat
    BY DEF WriterInv, WriterTypeOK
  <1>1. /\ pc = "writer" /\ pc' = pc /\ pos = m /\ pos' = PagesPerBlock
        /\ UNCHANGED <<torn, bad, cur, seq, writes, latest>>
    BY DEF WriteSummary
  <1>2. PICK stale \in {{}, 1 .. PagesPerBlock - 1} \cup SUBSET StaleAt :
            flash' = [flash EXCEPT ![n] = Summary(seq,
                        [i \in 1 .. PagesPerBlock - 1 |->
                            IF i \in stale \/ ~IsCopy(First(b) + i - 1) THEN Zero
                            ELSE EntryOf(First(b) + i - 1)])]
    BY DEF WriteSummary
  <1> DEFINE e == [i \in 1 .. PagesPerBlock - 1 |->
                      IF i \in stale \/ ~IsCopy(First(b) + i - 1) THEN Zero
                      ELSE EntryOf(First(b) + i - 1)]
             s == Summary(seq, e)
  <1>3. /\ n \in Pages /\ First(b) \in Nat /\ n = First(b) + m /\ m \in 0 .. PagesPerBlock - 1
        /\ m # 0 /\ m + 1 = PagesPerBlock /\ m < PagesPerBlock
    BY <1>0, Geometry
  <1>4. s.kind = "summary" /\ s.seq = seq /\ s.entries = e
    BY DEF Summary
  <1>5. ASSUME NEW i \in 1 .. PagesPerBlock - 1
        PROVE  /\ First(b) + i - 1 \in Pages /\ First(b) + i - 1 # n
               /\ IsCopy(First(b) + i - 1) => flash[First(b) + i - 1].seq = seq
    <2>1. First(b) + (i - 1) \in Pages /\ Block(First(b) + (i - 1)) = b
      BY <1>0, <1>3, PageIs
    <2>2. First(b) + (i - 1) = First(b) + i - 1 /\ First(b) + i - 1 # n
      BY <1>3
    <2> QED
      BY <1>0, <1>1, <2>1, <2>2 DEF WriterAt
  <1>6. \A i \in 1 .. PagesPerBlock - 1 :
            e[i] # Zero => IsCopy(First(b) + i - 1) /\ e[i] = EntryOf(First(b) + i - 1)
    OBVIOUS
  <1>7. e \in [1 .. PagesPerBlock - 1 -> [obj : Nat, header : BOOLEAN, chunk : Nat]]
    <2>1. Zero \in [obj : Nat, header : BOOLEAN, chunk : Nat]
      BY DEF Zero
    <2>2. ASSUME NEW p \in Pages, IsCopy(p)
          PROVE  EntryOf(p) \in [obj : Nat, header : BOOLEAN, chunk : Nat]
      <3>1. flash[p].key[1] \in Nat /\ flash[p].key[2] \in Nat
        BY <1>0, <2>2, ChunkIs, KeyIs DEF IsCopy
      <3> QED
        BY <3>1 DEF EntryOf
    <2> QED
      BY <1>5, <2>1, <2>2
  <1>8. s \in SummaryPage
    BY <1>0, <1>7 DEF Summary, SummaryPage
  <1>9. flash' = [flash EXCEPT ![n] = s]
    BY <1>2
  <1> HIDE DEF e, s
  <1>10. /\ \A p \in Pages : p # n => flash'[p] = flash[p] /\ (IsCopy(p)' <=> IsCopy(p))
         /\ flash'[n] = s
         /\ ~IsCopy(n)'
    BY <1>0, <1>1, <1>3, <1>4, <1>9 DEF WriterTypeOK, IsCopy, IsChunk
  <1>11. SummaryFits(b)'
    <2>1. ASSUME NEW i \in 1 .. PagesPerBlock - 1, s.entries[i] # Zero
          PROVE  /\ IsCopy(First(b) + i - 1)' /\ flash'[First(b) + i - 1].seq = s.seq
                 /\ s.entries[i] = EntryOf(First(b) + i - 1)'
      <3>1. /\ IsCopy(First(b) + i - 1) /\ s.entries[i] = EntryOf(First(b) + i - 1)
            /\ flash'[First(b) + i - 1] = flash[First(b) + i - 1] /\ IsCopy(First(b) + i - 1)'
        BY <1>4, <1>5, <1>6, <1>10, <2>1
      <3>2. EntryOf(First(b) + i - 1)' = EntryOf(First(b) + i - 1)
        BY <1>1, <3>1 DEF EntryOf
      <3> QED
        BY <1>4, <1>5, <3>1, <3>2
    <2> QED
      BY <1>1, <1>10, <2>1 DEF SummaryFits
  <1>12. GoesTo(b, m) /\ cur' = b /\ pos' = m + 1 /\ seq' = IF m = 0 THEN seq + 1 ELSE seq
    BY <1>1, <1>3 DEF GoesTo
  <1>13. flash' = [flash EXCEPT ![First(b) + m] = s] /\ ~IsCopy(First(b) + m)'
    BY <1>3, <1>9, <1>10
  <1> HIDE DEF m, n
  <1>14. /\ Copies' /\ Summaries' /\ WriterAt'
         /\ flash' \in [Pages -> ChunkPage \cup SummaryPage \cup {Erased, Void, BadSum}]
         /\ torn' \subseteq Pages /\ bad' \subseteq Blocks
         /\ cur' \in Blocks /\ pos' \in 1 .. PagesPerBlock /\ seq' \in Nat \ {0}
         /\ ~IsCopy(First(b) + m)
    BY <1>0, <1>1, <1>3, <1>8, <1>11, <1>12, <1>13, FillPage
  <1>15. Current' /\ LiveTree'
    BY <1>1, <1>3, <1>9, <1>10, <1>14, SameCopies
  <1>16. WriterTypeOK'
    BY <1>0, <1>1, <1>14 DEF WriterTypeOK
  <1> QED
    BY <1>14, <1>15, <1>16 DEF WriterInv

\* TearPage: a torn page was blank and is no copy, whatever it reads as.
LEMMA TearPageStep ==
    ASSUME WriterInv, TearPage
    PROVE  WriterInv'
  <1>0. WriterTypeOK /\ writes \in Nat
    BY DEF WriterInv, WriterTypeOK
  <1>1. /\ pc = "writer" /\ pc' = pc /\ writes' = writes + 1
        /\ bad' = bad /\ latest' = latest
    BY DEF TearPage
  <1>2. PICK b \in Blocks, q \in 0 .. PagesPerBlock - 1, g \in Garbage :
            /\ GoesTo(b, q) /\ cur' = b /\ pos' = q + 1
            /\ seq' = IF q = 0 THEN seq + 1 ELSE seq
            /\ flash' = [flash EXCEPT ![First(b) + q] = g]
            /\ torn' = torn \cup {First(b) + q}
    BY DEF TearPage
  <1>3. g \in ChunkPage \cup SummaryPage \cup {Erased, Void, BadSum} /\ g.kind # "summary"
    <2>1. CASE g \in {Erased, Void, BadSum}
      BY <2>1 DEF Erased, Void, BadSum
    <2>2. CASE g \in [kind : {"chunk"}, seq : 1 .. SeqMax, key : Objects \X {0},
                       parent : TornParents, ver : {0}]
      <3>1. Objects \X {0} \subseteq Keys /\ TornParents \subseteq Parents
        BY ScanAssumption DEF Keys, Parents
      <3> QED
        BY <2>2, <3>1, ScanAssumption DEF ChunkPage
    <2>3. CASE g \in [kind : {"chunk"}, seq : 1 .. SeqMax, key : Files \X {1},
                       parent : {0}, ver : {0}]
      <3>1. Files \X {1} \subseteq Keys /\ 0 \in Parents
        BY DEF Keys, Parents
      <3> QED
        BY <2>3, <3>1, ScanAssumption DEF ChunkPage
    <2> QED
      BY <2>1, <2>2, <2>3 DEF Garbage
  <1>4. ~IsCopy(First(b) + q)'
    BY <1>2 DEF IsCopy
  <1>5. /\ Copies' /\ Summaries' /\ WriterAt'
        /\ flash' \in [Pages -> ChunkPage \cup SummaryPage \cup {Erased, Void, BadSum}]
        /\ torn' \subseteq Pages /\ bad' \subseteq Blocks
        /\ cur' \in Blocks /\ pos' \in 1 .. PagesPerBlock /\ seq' \in Nat \ {0}
        /\ First(b) + q \in Pages /\ ~IsCopy(First(b) + q)
    BY <1>1, <1>2, <1>3, <1>4, FillPage
  <1>6. Current' /\ LiveTree'
    BY <1>1, <1>2, <1>4, <1>5, SameCopies
  <1>7. WriterTypeOK'
    BY <1>0, <1>1, <1>5 DEF WriterTypeOK
  <1> QED
    BY <1>5, <1>6, <1>7 DEF WriterInv

\* A step that leaves the flash alone and does not begin to write.
LEMMA SameWriter ==
    ASSUME WriterInv, UNCHANGED writerVars, pc' = "writer" => pc = "writer"
    PROVE  WriterInv'
  <1>0. /\ WriterTypeOK /\ Copies /\ Summaries /\ WriterAt /\ Current /\ LiveTree
        /\ UNCHANGED <<flash, torn, bad, cur, pos, seq, writes, latest>>
    BY DEF WriterInv, writerVars
  <1>1. WriterTypeOK'
    BY <1>0 DEF WriterTypeOK
  <1>2. Copies'
    BY <1>0 DEF Copies, IsCopy, IsChunk
  <1>3. Summaries'
    BY <1>0 DEF Summaries, SummaryFits, IsCopy, IsChunk, EntryOf
  <1>4. WriterAt'
    BY <1>0 DEF WriterAt, IsCopy, IsChunk
  <1>5. Current'
    <2>1. \A k : OfKey(k)' = OfKey(k)
      BY <1>0 DEF OfKey, IsCopy, IsChunk
    <2>2. \A p : IsNewest(p)' = IsNewest(p)
      BY <1>0, <2>1 DEF IsNewest, Older
    <2>3. \A o : Alive(o)' = Alive(o)
      BY <1>0 DEF Alive
    <2> QED
      BY <1>0, <2>1, <2>2, <2>3 DEF Current, NewestIs
  <1>6. LiveTree'
    BY <1>0 DEF LiveTree, Alive
  <1> QED
    BY <1>1, <1>2, <1>3, <1>4, <1>5, <1>6 DEF WriterInv

\* The scan does not write.
LEMMA ScanReads ==
    ASSUME Scan
    PROVE  UNCHANGED writerVars /\ pc # "writer" /\ pc' # "writer"
  BY DEF Scan, StartBlock, SummaryTags, SummaryBody, EntryHeader, EntryData, EntriesDone,
         PageTags, PageBody, PagesDone, FinishScan, NextBlock, FallBack

LEMMA WriterStep ==
    ASSUME WriterInv, [Next]_vars
    PROVE  WriterInv'
  <1>1. CASE \E k \in Keys, parent \in Objects \cup {0, Deleted} : WriteKey(k, parent)
    BY <1>1, WriteKeyStep DEF Parents
  <1>2. CASE \E p \in Pages : Copy(p)
    BY <1>2, CopyStep
  <1>3. CASE \E b \in Blocks, retire \in BOOLEAN : Collect(b, retire)
    BY <1>3, CollectStep
  <1>4. CASE WriteSummary
    BY <1>4, WriteSummaryStep
  <1>5. CASE PowerCycle
    BY <1>5, SameWriter DEF PowerCycle
  <1>6. CASE TearPage
    BY <1>6, TearPageStep
  <1>7. CASE Scan
    BY <1>7, ScanReads, SameWriter
  <1>8. CASE UNCHANGED vars
    BY <1>8, SameWriter DEF vars
  <1> QED
    BY <1>1, <1>2, <1>3, <1>4, <1>5, <1>7, <1>8, <1>6 DEF Next

\* A formatted volume is a flash the writer could have left.
LEMMA WriterInitial ==
    ASSUME Init
    PROVE  WriterInv
  <1>1. PICK b \in Blocks :
            /\ cur = b
            /\ flash = [p \in Pages |-> IF p = First(b) THEN Chunk(1, <<Root, 0>>, Root, 1) ELSE Erased]
    BY DEF Init
  <1> DEFINE c == Chunk(1, <<Root, 0>>, Root, 1)
  <1>2. /\ First(b) \in Pages /\ Block(First(b)) = b /\ First(b) \in Nat
        /\ PagesPerBlock \in Nat /\ PagesPerBlock > 1
    BY Geometry
  <1>3. /\ torn = {} /\ pos = 1 /\ seq = 1 /\ bad = {} /\ writes = 1 /\ pc = "writer"
        /\ latest = [k \in Keys |-> IF k = <<Root, 0>> THEN [parent |-> Root, ver |-> 1]
                                    ELSE [parent |-> 0, ver |-> 0]]
    BY DEF Init
  <1>4. /\ c.kind = "chunk" /\ c.seq = 1 /\ c.key = <<Root, 0>> /\ c.parent = Root /\ c.ver = 1
        /\ Erased.kind = "erased"
    BY DEF Chunk, Erased
  <1>5. <<Root, 0>> \in Keys /\ Root \in Parents
    BY KeyIs DEF Parents
  <1>6. c \in ChunkPage
    BY <1>5 DEF Chunk, ChunkPage
  <1>7. flash = [p \in Pages |-> IF p = First(b) THEN c ELSE Erased]
    BY <1>1
  <1> HIDE DEF c
  <1>8. \A p \in Pages : /\ p = First(b) => flash[p] = c /\ IsCopy(p)
                         /\ p # First(b) => flash[p] = Erased /\ ~IsCopy(p) /\ flash[p].kind # "summary"
    BY <1>3, <1>4, <1>7 DEF IsCopy, IsChunk
  <1>9. WriterTypeOK
    <2>1. latest \in [Keys -> [parent : Parents, ver : Nat]]
      BY <1>3, <1>5 DEF Parents
    <2>2. flash \in [Pages -> ChunkPage \cup SummaryPage \cup {Erased, Void, BadSum}]
      BY <1>6, <1>7
    <2> QED
      BY <1>1, <1>2, <1>3, <2>1, <2>2 DEF WriterTypeOK
  <1>10. Copies
    BY <1>8 DEF Copies
  <1>11. Summaries
    BY <1>4, <1>8, Geometry DEF Summaries
  <1>12. WriterAt
    <2>1. \A p \in Pages : (Block(p) = b /\ p >= First(b) + 1) => flash[p] = Erased
      BY <1>2, <1>8, Geometry
    <2>2. \A p \in Pages : IsCopy(p) => flash[p].seq <= 1 /\ (flash[p].seq = 1 <=> Block(p) = b)
      BY <1>2, <1>4, <1>8
    <2> QED
      BY <1>1, <1>3, <2>1, <2>2 DEF WriterAt
  <1>13. \A o \in Objects : Alive(o) <=> o = Root
    <2>1. \A o \in Objects : <<o, 0>> \in Keys /\ (<<o, 0>> = <<Root, 0>> <=> o = Root)
      BY KeyIs
    <2>2. Root # Deleted
      BY DEF Root, Deleted
    <2>3. /\ latest[<<Root, 0>>] = [parent |-> Root, ver |-> 1]
          /\ \A o \in Objects : o # Root => latest[<<o, 0>>] = [parent |-> 0, ver |-> 0]
      BY <1>3, <1>5, <2>1
    <2>4. Alive(Root)
      BY <2>2, <2>3 DEF Alive
    <2>5. \A o \in Objects : o # Root => ~Alive(o)
      BY <2>3 DEF Alive
    <2> QED
      BY <2>4, <2>5
  <1>14. LiveTree
    BY <1>3, <1>5, <1>13, KeyIs DEF LiveTree
  <1>15. Current
    <2>1. \A k : OfKey(k) = IF k = <<Root, 0>> THEN {First(b)} ELSE {}
      BY <1>2, <1>3, <1>4, <1>8 DEF OfKey
    <2>2. NewestIs(<<Root, 0>>, First(b))
      BY <1>2, <1>4, <1>8, <2>1 DEF NewestIs, IsNewest
    <2>3. ASSUME NEW k \in Keys, Alive(k[1]), latest[k].ver # 0
          PROVE  \E p \in Pages : /\ NewestIs(k, p) /\ flash[p].ver = latest[k].ver
                                  /\ flash[p].parent = latest[k].parent
      <3>1. k = <<Root, 0>>
        BY <1>3, <2>3
      <3> QED
        BY <1>2, <1>3, <1>4, <1>5, <1>8, <2>2, <3>1
    <2>4. \A o \in Objects : ~Alive(o) => OfKey(<<o, 0>>) = {}
      BY <1>13, <2>1
    <2> QED
      BY <2>3, <2>4 DEF Current
  <1> QED
    BY <1>9, <1>10, <1>11, <1>12, <1>14, <1>15 DEF WriterInv

-----------------------------------------------------------------------------
(***************************************************************************)
(* The scan.                                                               *)
(***************************************************************************)

\* A step that leaves the tables alone.
LEMMA SameTables ==
    ASSUME Scanned, UNCHANGED writerVars, BadBlockMap' = BadBlockMap, UNCHANGED tableVars
    PROVE  FieldsFromTaggedPage' /\ NewestSoFar' /\ Tables'
  <1>1. /\ FieldsFromTaggedPage /\ NewestSoFar /\ Tables
        /\ UNCHANGED <<flash, BadBlockMap, hdr, loc, seen, starved>>
    BY DEF Scanned, ScanInv, writerVars, tableVars
  <1>2. FieldsFromTaggedPage'
    BY <1>1 DEF FieldsFromTaggedPage
  <1>3. NewestSoFar'
    BY <1>1 DEF NewestSoFar, Older
  <1>4. Tables'
    BY <1>1 DEF Tables, IsChunk
  <1> QED
    BY <1>2, <1>3, <1>4

\* The order of writing is a total order of the chunks, and Newer follows it.
LEMMA OlderOrder ==
    ASSUME WriterTypeOK, NEW p \in Pages, NEW q \in Pages, NEW r \in Pages,
           IsChunk(p), IsChunk(q), IsChunk(r)
    PROVE  /\ Older(p, q) /\ Older(q, r) => Older(p, r)
           /\ Newer(flash[p].seq, p, [seq |-> flash[q].seq, page |-> q]) <=> Older(q, p)
           /\ Older(p, q) \/ Older(q, p) \/ p = q
           /\ ~(Older(p, q) /\ Older(q, p)) /\ ~Older(p, p)
  <1>1. /\ flash[p].seq \in Nat /\ flash[q].seq \in Nat /\ flash[r].seq \in Nat
        /\ p \in Nat /\ q \in Nat /\ r \in Nat
    BY ChunkIs, Geometry
  <1> QED
    BY <1>1 DEF Older, Newer

\* ProcessHeader keeps the newest header.
LEMMA HeaderTables ==
    ASSUME WriterInv, Scanned, UNCHANGED writerVars, BadBlockMap' = BadBlockMap,
           NEW o \in Objects, NEW p \in Pages, NEW s, IsChunk(p), flash[p].key = <<o, 0>>,
           s = flash[p].seq, Block(p) \notin BadBlockMap,
           PageBuf' = p, ProcessHeader(o, s, p)
    PROVE  /\ FieldsFromTaggedPage' /\ NewestSoFar' /\ Tables'
           /\ hdr' \in [Objects -> [seq : Nat, page : Pages \cup {Unset}, from : Pages \cup {Unset}]]
           /\ loc' \in [Files -> [seq : Nat, page : Pages \cup {Unset}]]
           /\ seen' = seen \cup {p} /\ seen' \subseteq Pages
           /\ starved' \in BOOLEAN /\ (~starved' => ~starved)
  <1>0. /\ FieldsFromTaggedPage /\ NewestSoFar /\ Tables /\ WriterTypeOK
        /\ hdr \in [Objects -> [seq : Nat, page : Pages \cup {Unset}, from : Pages \cup {Unset}]]
        /\ loc \in [Files -> [seq : Nat, page : Pages \cup {Unset}]]
        /\ seen \subseteq Pages /\ starved \in BOOLEAN
        /\ flash' = flash
    BY DEF Scanned, ScanInv, ScanTypeOK, WriterInv, writerVars
  <1>1. seen' = seen \cup {p} /\ loc' = loc /\ starved' \in BOOLEAN /\ (~starved' => ~starved)
    BY <1>0 DEF ProcessHeader
  <1>2. s \in Nat \ {0} /\ \A q \in Pages : IsChunk(q)' <=> IsChunk(q)
    BY <1>0, ChunkIs DEF IsChunk
  <1>3. Unset \notin Pages
    BY Geometry
  <1> DEFINE e == [seq |-> s, page |-> p, from |-> p]
             kept == hdr[o].seq # 0 /\ ~Newer(s, p, hdr[o])
  <1>4. \/ starved' /\ hdr' = hdr
        \/ hdr' = IF kept THEN hdr ELSE [hdr EXCEPT ![o] = e]
    BY DEF ProcessHeader
  <1>5. /\ e \in [seq : Nat, page : Pages \cup {Unset}, from : Pages \cup {Unset}]
        /\ e.seq = s /\ e.page = p /\ e.from = p
    BY <1>2
  <1> HIDE DEF e
  <1>6. \/ hdr' = hdr /\ (starved' \/ kept)
        \/ ~kept /\ hdr' = [hdr EXCEPT ![o] = e]
    BY <1>4
  <1>7. /\ hdr' \in [Objects -> [seq : Nat, page : Pages \cup {Unset}, from : Pages \cup {Unset}]]
        /\ \A x \in Objects : hdr'[x] = hdr[x] \/ (x = o /\ hdr'[x] = e)
    BY <1>0, <1>5, <1>6
  <1>8. FieldsFromTaggedPage'
    <2>1. ASSUME NEW x \in Objects, hdr'[x].seq # 0
          PROVE  /\ hdr'[x].from = hdr'[x].page
                 /\ flash[hdr'[x].page].key = <<x, 0>>
                 /\ flash[hdr'[x].page].seq = hdr'[x].seq
      BY <1>0, <1>5, <1>7, <2>1 DEF FieldsFromTaggedPage
    <2> QED
      BY <1>0, <2>1 DEF FieldsFromTaggedPage
  <1>9. Tables'
    <2>1. \A q \in seen' : IsChunk(q)' /\ Block(q) \notin BadBlockMap'
      BY <1>0, <1>1, <1>2 DEF Tables
    <2>2. \A x \in Objects : /\ hdr'[x].seq # 0 => hdr'[x].page \in seen'
                             /\ hdr'[x].seq = 0 => hdr'[x].page = Unset
      BY <1>0, <1>1, <1>2, <1>5, <1>7 DEF Tables
    <2>3. \A x \in Files : loc'[x].page # Unset =>
            /\ loc'[x].page \in seen'
            /\ flash'[loc'[x].page].key = <<x, 1>> /\ flash'[loc'[x].page].seq = loc'[x].seq
      BY <1>0, <1>1 DEF Tables
    <2> QED
      BY <2>1, <2>2, <2>3 DEF Tables
  <1>10. ASSUME ~starved', NEW q \in seen'
         PROVE  LET x == flash[q].key[1]
                    h == IF flash[q].key[2] = 0 THEN hdr'[x].page ELSE loc[x].page
                IN  h \in seen' /\ flash[h].key = flash[q].key /\ (h = q \/ Older(q, h))
    <2>1. q \in Pages /\ IsChunk(q) /\ (q \in seen \/ q = p)
      BY <1>0, <1>1, <1>10 DEF Tables
    <2>2. flash[q].key \in Keys
      BY <1>0, <2>1, ChunkIs
    <2> DEFINE x == flash[q].key[1]
               h0 == IF flash[q].key[2] = 0 THEN hdr[x].page ELSE loc[x].page
    <2>3. q \in seen => h0 \in seen /\ flash[h0].key = flash[q].key /\ (h0 = q \/ Older(q, h0))
      BY <1>0, <1>1, <1>10 DEF NewestSoFar
    <2>4. CASE flash[q].key # <<o, 0>>
      <3>1. q \in seen
        BY <2>1, <2>4
      <3>2. flash[q].key[2] = 0 => x # o /\ x \in Objects
        BY <2>2, <2>4, KeyIs
      <3>3. flash[q].key[2] = 0 => hdr'[x] = hdr[x]
        BY <1>7, <3>2
      <3> QED
        BY <1>1, <2>3, <3>1, <3>3
    <2>5. CASE flash[q].key = <<o, 0>>
      <3>1. x = o /\ flash[q].key[2] = 0
        BY <2>5
      <3>2. hdr[o].seq # 0 => /\ hdr[o].page \in seen /\ hdr[o].page \in Pages /\ IsChunk(hdr[o].page)
                              /\ flash[hdr[o].page].key = <<o, 0>> /\ flash[hdr[o].page].seq = hdr[o].seq
        BY <1>0 DEF Tables, FieldsFromTaggedPage
      <3>3. hdr[o].seq # 0 => (Newer(s, p, hdr[o]) <=> Older(hdr[o].page, p))
        BY <3>2 DEF Newer, Older
      <3>4. CASE hdr' = hdr /\ kept
        <4>1. hdr[o].seq # 0 /\ ~Older(hdr[o].page, p)
          BY <3>3, <3>4
        <4>2. p = hdr[o].page \/ Older(p, hdr[o].page)
          BY <1>0, <3>2, <4>1, OlderOrder
        <4>3. q = hdr[o].page \/ Older(q, hdr[o].page)
          BY <2>1, <2>3, <3>1, <4>2
        <4> QED
          BY <1>1, <2>5, <3>1, <3>2, <3>4, <4>1, <4>3
      <3>5. CASE ~kept /\ hdr' = [hdr EXCEPT ![o] = e]
        <4>1. hdr'[o].page = p
          BY <1>0, <1>5, <3>5
        <4>2. q = p \/ Older(q, p)
          <5>1. CASE q = p
            BY <5>1
          <5>2. CASE q # p
            <6>1. q \in seen /\ hdr[o].page \in seen /\ (hdr[o].page = q \/ Older(q, hdr[o].page))
              BY <2>1, <2>3, <3>1, <5>2
            <6>2. hdr[o].seq # 0
              BY <1>0, <1>3, <6>1 DEF Tables
            <6>3. Older(hdr[o].page, p)
              BY <3>3, <3>5, <6>2
            <6> QED
              BY <1>0, <2>1, <3>2, <6>1, <6>2, <6>3, OlderOrder
          <5> QED
            BY <5>1, <5>2
        <4> QED
          BY <1>1, <2>5, <3>1, <4>1, <4>2
      <3> QED
        BY <1>6, <1>10, <3>4, <3>5
    <2> QED
      BY <2>4, <2>5
  <1>11. NewestSoFar'
    <2>1. \A q, h : Older(q, h)' <=> Older(q, h)
      BY <1>0 DEF Older
    <2> QED
      BY <1>0, <1>1, <1>10, <2>1 DEF NewestSoFar
  <1> QED
    BY <1>0, <1>1, <1>7, <1>8, <1>9, <1>11

\* ProcessDataChunk keeps the newest chunk.
LEMMA DataTables ==
    ASSUME WriterInv, Scanned, UNCHANGED writerVars, BadBlockMap' = BadBlockMap,
           NEW o \in Files, NEW p \in Pages, NEW s, NEW c, IsChunk(p), flash[p].key = <<o, 1>>,
           s = flash[p].seq, c # 0, Block(p) \notin BadBlockMap,
           ProcessDataChunk(o, c, s, p)
    PROVE  /\ FieldsFromTaggedPage' /\ NewestSoFar' /\ Tables'
           /\ hdr' \in [Objects -> [seq : Nat, page : Pages \cup {Unset}, from : Pages \cup {Unset}]]
           /\ loc' \in [Files -> [seq : Nat, page : Pages \cup {Unset}]]
           /\ seen' = seen \cup {p} /\ seen' \subseteq Pages
           /\ starved' \in BOOLEAN /\ (~starved' => ~starved)
  <1>0. /\ FieldsFromTaggedPage /\ NewestSoFar /\ Tables /\ WriterTypeOK
        /\ hdr \in [Objects -> [seq : Nat, page : Pages \cup {Unset}, from : Pages \cup {Unset}]]
        /\ loc \in [Files -> [seq : Nat, page : Pages \cup {Unset}]]
        /\ seen \subseteq Pages /\ starved \in BOOLEAN
        /\ flash' = flash
    BY DEF Scanned, ScanInv, ScanTypeOK, WriterInv, writerVars
  <1>1. seen' = seen \cup {p} /\ hdr' = hdr /\ starved' \in BOOLEAN /\ (~starved' => ~starved)
    BY <1>0 DEF ProcessDataChunk
  <1>2. s \in Nat \ {0} /\ \A q \in Pages : IsChunk(q)' <=> IsChunk(q)
    BY <1>0, ChunkIs DEF IsChunk
  <1>3. Unset \notin Pages
    BY Geometry
  <1> DEFINE e == [seq |-> s, page |-> p]
             taken == loc[o].page = Unset \/ Newer(s, p, loc[o])
  <1>4. \/ starved' /\ loc' = loc
        \/ loc' = IF taken THEN [loc EXCEPT ![o] = e] ELSE loc
    BY DEF ProcessDataChunk
  <1>5. /\ e \in [seq : Nat, page : Pages \cup {Unset}]
        /\ e.seq = s /\ e.page = p
    BY <1>2
  <1> HIDE DEF e
  <1>6. \/ loc' = loc /\ (starved' \/ ~taken)
        \/ taken /\ loc' = [loc EXCEPT ![o] = e]
    BY <1>4
  <1>7. /\ loc' \in [Files -> [seq : Nat, page : Pages \cup {Unset}]]
        /\ \A x \in Files : loc'[x] = loc[x] \/ (x = o /\ loc'[x] = e)
    BY <1>0, <1>5, <1>6
  <1>8. FieldsFromTaggedPage'
    BY <1>0, <1>1 DEF FieldsFromTaggedPage
  <1>9. Tables'
    <2>1. \A q \in seen' : IsChunk(q)' /\ Block(q) \notin BadBlockMap'
      BY <1>0, <1>1, <1>2 DEF Tables
    <2>2. \A x \in Objects : /\ hdr'[x].seq # 0 => hdr'[x].page \in seen'
                             /\ hdr'[x].seq = 0 => hdr'[x].page = Unset
      BY <1>0, <1>1 DEF Tables
    <2>3. \A x \in Files : loc'[x].page # Unset =>
            /\ loc'[x].page \in seen'
            /\ flash'[loc'[x].page].key = <<x, 1>> /\ flash'[loc'[x].page].seq = loc'[x].seq
      BY <1>0, <1>1, <1>5, <1>7 DEF Tables
    <2> QED
      BY <2>1, <2>2, <2>3 DEF Tables
  <1>10. ASSUME ~starved', NEW q \in seen'
         PROVE  LET x == flash[q].key[1]
                    h == IF flash[q].key[2] = 0 THEN hdr[x].page ELSE loc'[x].page
                IN  h \in seen' /\ flash[h].key = flash[q].key /\ (h = q \/ Older(q, h))
    <2>1. q \in Pages /\ IsChunk(q) /\ (q \in seen \/ q = p)
      BY <1>0, <1>1, <1>10 DEF Tables
    <2>2. flash[q].key \in Keys
      BY <1>0, <2>1, ChunkIs
    <2> DEFINE x == flash[q].key[1]
               h0 == IF flash[q].key[2] = 0 THEN hdr[x].page ELSE loc[x].page
    <2>3. q \in seen => h0 \in seen /\ flash[h0].key = flash[q].key /\ (h0 = q \/ Older(q, h0))
      BY <1>0, <1>1, <1>10 DEF NewestSoFar
    <2>4. CASE flash[q].key # <<o, 1>>
      <3>1. q \in seen
        BY <2>1, <2>4
      <3>2. flash[q].key[2] # 0 => x # o /\ x \in Files
        BY <2>2, <2>4, KeyIs
      <3>3. flash[q].key[2] # 0 => loc'[x] = loc[x]
        BY <1>7, <3>2
      <3> QED
        BY <1>1, <2>3, <3>1, <3>3
    <2>5. CASE flash[q].key = <<o, 1>>
      <3>1. x = o /\ flash[q].key[2] # 0
        BY <2>5
      <3>2. loc[o].page # Unset => /\ loc[o].page \in seen /\ loc[o].page \in Pages /\ IsChunk(loc[o].page)
                                   /\ flash[loc[o].page].key = <<o, 1>>
                                   /\ flash[loc[o].page].seq = loc[o].seq
        BY <1>0 DEF Tables
      <3>3. loc[o].page # Unset => (Newer(s, p, loc[o]) <=> Older(loc[o].page, p))
        BY <3>2 DEF Newer, Older
      <3>4. CASE loc' = loc /\ ~taken
        <4>1. loc[o].page # Unset /\ ~Older(loc[o].page, p)
          BY <3>3, <3>4
        <4>2. p = loc[o].page \/ Older(p, loc[o].page)
          BY <1>0, <3>2, <4>1, OlderOrder
        <4>3. q = loc[o].page \/ Older(q, loc[o].page)
          BY <2>1, <2>3, <3>1, <4>2
        <4> QED
          BY <1>1, <2>5, <3>1, <3>2, <3>4, <4>1, <4>3
      <3>5. CASE taken /\ loc' = [loc EXCEPT ![o] = e]
        <4>1. loc'[o].page = p
          BY <1>0, <1>5, <3>5
        <4>2. q = p \/ Older(q, p)
          <5>1. CASE q = p
            BY <5>1
          <5>2. CASE q # p
            <6>1. q \in seen /\ loc[o].page \in seen /\ (loc[o].page = q \/ Older(q, loc[o].page))
              BY <2>1, <2>3, <3>1, <5>2
            <6>2. loc[o].page # Unset
              BY <1>0, <1>3, <6>1
            <6>3. Older(loc[o].page, p)
              BY <3>3, <3>5, <6>2
            <6> QED
              BY <1>0, <2>1, <3>2, <6>1, <6>2, <6>3, OlderOrder
          <5> QED
            BY <5>1, <5>2
        <4> QED
          BY <1>1, <2>5, <3>1, <4>1, <4>2
      <3> QED
        BY <1>6, <1>10, <3>4, <3>5
    <2> QED
      BY <2>4, <2>5
  <1>11. NewestSoFar'
    <2>1. \A q, h : Older(q, h)' <=> Older(q, h)
      BY <1>0 DEF Older
    <2> QED
      BY <1>0, <1>1, <1>10, <2>1 DEF NewestSoFar
  <1> QED
    BY <1>0, <1>1, <1>7, <1>8, <1>9, <1>11

\* A read counts its failures: with none so far, this one went well.
LEMMA ReadsCount ==
    ASSUME ScanTypeOK, NEW ok \in BOOLEAN, Reads(ok)
    PROVE  errors' \in 0 .. MaxErrors /\ (errors' = 0 => ok /\ errors = 0)
  <1>1. errors \in 0 .. MaxErrors /\ MaxErrors \in Nat
    BY ScanAssumption DEF ScanTypeOK
  <1>2. CASE ok
    BY <1>1, <1>2 DEF Reads
  <1>3. CASE ~ok
    BY <1>1, <1>3 DEF Reads, MayFail
  <1> QED
    BY <1>2, <1>3

\* The scan does not change what can be seen.
LEMMA SameSight ==
    ASSUME UNCHANGED writerVars
    PROVE  /\ \A p : Visible(p)' <=> Visible(p)
           /\ \A b : Accepted(b)' <=> Accepted(b)
  <1>1. flash' = flash /\ bad' = bad
    BY DEF writerVars
  <1>2. \A b : Accepted(b)' <=> Accepted(b)
    BY <1>1 DEF Accepted
  <1>3. \A p : Hidden(p)' <=> Hidden(p)
    BY <1>1 DEF Hidden, Accepted
  <1> QED
    BY <1>1, <1>2, <1>3 DEF Visible, IsChunk

\* Going on to the next block passes over nothing that can be seen.
LEMMA NextBlockCovers ==
    ASSUME WriterInv, Scanned, UNCHANGED writerVars, NextBlock, pc # "writer", blk < NumBlocks,
           seen' = seen,
           (errors' = 0 /\ ~starved') =>
               /\ errors = 0 /\ ~starved
               /\ \A p \in Pages : (Visible(p) /\ Block(p) = blk) => p \in seen
    PROVE  Covered' /\ PageByPage' /\ blk' \in 0 .. NumBlocks
  <1>0. Covered /\ blk \in 0 .. NumBlocks /\ blk' = blk + 1 /\ pc' = "block" /\ NumBlocks \in Nat
    BY Geometry DEF Scanned, ScanInv, ScanTypeOK, NextBlock
  <1>1. ASSUME errors' = 0 /\ ~starved', NEW p \in Pages, Visible(p), Behind(p)'
        PROVE  p \in seen
    <2>1. Block(p) < blk + 1 /\ Block(p) \in Nat
      BY <1>0, <1>1, Geometry DEF Behind
    <2>2. CASE Block(p) = blk
      BY <1>1, <2>2
    <2>3. CASE Block(p) # blk
      <3>1. Behind(p)
        BY <1>0, <2>1, <2>3 DEF Behind
      <3> QED
        BY <1>0, <1>1, <3>1 DEF Covered, Intact
    <2> QED
      BY <2>2, <2>3
  <1>2. (errors' = 0 /\ ~starved') => \A p \in seen : Visible(p)
    BY <1>0 DEF Covered, Intact
  <1>3. Covered'
    BY <1>1, <1>2, SameSight DEF Covered, Intact
  <1>4. PageByPage'
    BY <1>0 DEF PageByPage
  <1> QED
    BY <1>0, <1>3, <1>4

\* Neither does a step within a block.
LEMMA StaysCovered ==
    ASSUME WriterInv, Scanned, UNCHANGED writerVars, pc # "writer", seen \subseteq seen',
           (errors' = 0 /\ ~starved') => (errors = 0 /\ ~starved),
           (errors' = 0 /\ ~starved') => \A p \in seen' \ seen : Visible(p),
           \A p \in Pages : Behind(p)' =>
               \/ Behind(p)
               \/ (errors' = 0 /\ ~starved' /\ Visible(p)) => p \in seen'
    PROVE  Covered'
  <1>0. Covered
    BY DEF Scanned
  <1>1. ASSUME errors' = 0 /\ ~starved', NEW p \in Pages, Visible(p), Behind(p)'
        PROVE  p \in seen'
    BY <1>0, <1>1 DEF Covered, Intact
  <1>2. (errors' = 0 /\ ~starved') => \A p \in seen' : Visible(p)
    BY <1>0 DEF Covered, Intact
  <1> QED
    BY <1>1, <1>2, SameSight DEF Covered, Intact

\* The types of the scan, and where it is, for the lemmas below.
LEMMA ScanFacts ==
    ASSUME WriterInv, Scanned
    PROVE  /\ ScanTypeOK /\ ScanAt /\ Tables /\ WriterTypeOK /\ Summaries
           /\ BadBlockMap \subseteq Blocks /\ errors \in 0 .. MaxErrors
           /\ blk \in 0 .. NumBlocks /\ blk \in Nat /\ idx \in 0 .. PagesPerBlock /\ idx \in Nat
           /\ reg \in Pages \cup {Unset} /\ PageBuf \in Pages \cup {Unset}
           /\ hdr \in [Objects -> [seq : Nat, page : Pages \cup {Unset}, from : Pages \cup {Unset}]]
           /\ loc \in [Files -> [seq : Nat, page : Pages \cup {Unset}]]
           /\ seen \subseteq Pages /\ starved \in BOOLEAN
           /\ Status \in {"none", "SUCCESS", "VOLUME_CORRUPTED"}
           /\ blk < NumBlocks => /\ blk \in Blocks /\ First(blk) \in Pages /\ Last(blk) \in Pages
                                 /\ First(blk) \in Nat /\ Block(First(blk)) = blk /\ Block(Last(blk)) = blk
                                 /\ Last(blk) = First(blk) + PagesPerBlock - 1
  <1>1. ScanTypeOK /\ ScanAt /\ Tables /\ WriterTypeOK /\ Summaries
    BY DEF Scanned, ScanInv, WriterInv
  <1>2. blk \in Nat /\ idx \in Nat
    BY <1>1, Geometry DEF ScanTypeOK
  <1>3. blk < NumBlocks => blk \in Blocks
    BY <1>2, Geometry DEF Blocks
  <1> QED
    BY <1>1, <1>2, <1>3, Geometry DEF ScanTypeOK

\* StartBlock: the quick check of the first page gives up only blocks that
\* hold nothing, or are bad.
LEMMA StartBlockStep ==
    ASSUME WriterInv, Scanned, StartBlock
    PROVE  Scanned'
  <1>0. /\ UNCHANGED writerVars /\ UNCHANGED tableVars
        /\ UNCHANGED <<BadBlockMap, PageBuf, idx, EntryStore, Status>>
        /\ flash' = flash /\ bad' = bad
        /\ UNCHANGED <<hdr, loc, seen, starved>>
        /\ pc = "block" /\ blk < NumBlocks /\ Load(First(blk))
    BY DEF StartBlock, writerVars, tableVars
  <1>1. PICK ok \in BOOLEAN :
            /\ Reads(ok)
            /\ IF NoTags(First(blk), ok) THEN NextBlock ELSE pc' = "summary" /\ UNCHANGED blk
    BY DEF StartBlock
  <1>2. FieldsFromTaggedPage' /\ NewestSoFar' /\ Tables'
    BY <1>0, SameTables
  <1>3. reg' \in Pages \cup {Unset}
    BY <1>0, ScanFacts DEF Load
  <1>4. errors' \in 0 .. MaxErrors /\ (errors' = 0 => ok /\ errors = 0)
    BY <1>1, ReadsCount, ScanFacts
  <1>5. CASE NoTags(First(blk), ok)
    <2>1. NextBlock
      BY <1>1, <1>5
    <2>2. ASSUME errors' = 0, NEW p \in Pages, Visible(p), Block(p) = blk
          PROVE  FALSE
      <3>1. BadBlockMap = bad
        BY <1>0, <1>4, <2>2, ScanFacts DEF ScanAt
      <3>2. flash[First(blk)] = Erased
        BY <1>0, <1>4, <1>5, <2>2, <3>1, ScanFacts
          DEF Visible, NoTags, TagsError, TagsErased, IsBlockBad
      <3>3. ~IsChunk(First(blk))
        BY <3>2 DEF IsChunk, Erased
      <3>4. p # First(blk) /\ First(blk) \in First(blk) .. p - 1
        BY <1>0, <2>2, <3>3, ScanFacts, Geometry DEF Visible
      <3>5. ~Accepted(blk)
        <4>1. SUFFICES ASSUME Accepted(blk) PROVE FALSE
          OBVIOUS
        <4>2. SummaryFits(blk) /\ flash[Last(blk)].entries[1] # Zero
          BY <1>0, <4>1, ScanFacts DEF Accepted, Summaries
        <4>3. 1 \in 1 .. PagesPerBlock - 1 /\ First(blk) + 1 - 1 = First(blk)
          BY <1>0, ScanFacts, Geometry
        <4>4. IsCopy(First(blk) + 1 - 1)
          BY <4>2, <4>3 DEF SummaryFits
        <4> QED
          BY <3>3, <4>3, <4>4 DEF IsCopy
      <3> QED
        BY <2>2, <3>2, <3>4, <3>5 DEF Visible, Hidden
    <2>3. Covered' /\ PageByPage' /\ blk' \in 0 .. NumBlocks
      BY <1>0, <1>4, <2>1, <2>2, NextBlockCovers
    <2>4. ScanTypeOK'
      BY <1>0, <1>3, <1>4, <2>1, <2>3, ScanFacts DEF ScanTypeOK, NextBlock
    <2>5. ScanAt'
      BY <1>0, <1>4, <2>1, ScanFacts DEF ScanAt, NextBlock, InBlock
    <2> QED
      BY <1>2, <2>3, <2>4, <2>5 DEF Scanned, ScanInv
  <1>6. CASE ~NoTags(First(blk), ok)
    <2>1. pc' = "summary" /\ blk' = blk
      BY <1>1, <1>6
    <2>2. blk \notin BadBlockMap
      BY <1>0, <1>6, ScanFacts DEF NoTags, TagsErased, IsBlockBad
    <2>3. \A p \in Pages : Behind(p)' => Behind(p)
      BY <2>1 DEF Behind
    <2>4. Covered'
      BY <1>0, <1>4, <2>3, StaysCovered
    <2>5. ScanTypeOK'
      BY <1>0, <1>3, <1>4, <2>1, ScanFacts DEF ScanTypeOK
    <2>6. ScanAt'
      BY <1>0, <1>4, <2>1, <2>2, ScanFacts DEF ScanAt, InBlock
    <2>7. PageByPage'
      BY <2>1 DEF PageByPage
    <2> QED
      BY <1>2, <2>4, <2>5, <2>6, <2>7 DEF Scanned, ScanInv
  <1> QED
    BY <1>5, <1>6

\* SummaryTags: the page register holds the summary, or the block is read page
\* by page from its first.
LEMMA SummaryTagsStep ==
    ASSUME WriterInv, Scanned, SummaryTags
    PROVE  Scanned'
  <1>0. /\ UNCHANGED writerVars /\ UNCHANGED tableVars
        /\ UNCHANGED <<BadBlockMap, PageBuf, blk, EntryStore, Status>>
        /\ flash' = flash /\ bad' = bad
        /\ UNCHANGED <<hdr, loc, seen, starved>>
        /\ pc = "summary" /\ Load(Last(blk))
    BY DEF SummaryTags, writerVars, tableVars
  <1>1. PICK ok \in BOOLEAN :
            /\ Reads(ok)
            /\ IF NoTags(Last(blk), ok) \/ flash[Last(blk)].kind \notin {"summary", "badsum"}
               THEN FallBack ELSE pc' = "summaryBody" /\ UNCHANGED idx
    BY DEF SummaryTags
  <1>2. FieldsFromTaggedPage' /\ NewestSoFar' /\ Tables'
    BY <1>0, SameTables
  <1>3. blk < NumBlocks /\ blk \notin BadBlockMap
    BY <1>0, ScanFacts DEF ScanAt, InBlock
  <1>4. reg' = Last(blk) /\ reg' \in Pages \cup {Unset}
    BY <1>0, <1>3, ScanFacts DEF Load, IsBlockBad
  <1>5. errors' \in 0 .. MaxErrors /\ (errors' = 0 => ok /\ errors = 0)
    BY <1>1, ReadsCount, ScanFacts
  <1>6. \/ pc' = "page" /\ idx' = 0
        \/ pc' = "summaryBody" /\ idx' = idx
    BY <1>1 DEF FallBack
  <1>7. \A p \in Pages : Behind(p)' => Behind(p)
    <2>1. \A p \in Pages : Block(p) = blk => ~(p < First(blk) + 0)
      BY <1>3, ScanFacts, Geometry
    <2> QED
      BY <1>0, <1>6, <2>1 DEF Behind
  <1>8. Covered'
    BY <1>0, <1>5, <1>7, StaysCovered
  <1>9. ScanTypeOK'
    BY <1>0, <1>4, <1>5, <1>6, ScanFacts, Geometry DEF ScanTypeOK
  <1>10. ScanAt'
    BY <1>0, <1>3, <1>4, <1>5, <1>6, ScanFacts DEF ScanAt, InBlock
  <1>11. PageByPage'
    <2>1. SUFFICES ASSUME pc' = "page", errors' = 0 PROVE ~Accepted(blk)
      <3>1. \A p \in Pages : Block(p) = blk => ~(p < First(blk) + 0)
        BY <1>3, ScanFacts, Geometry
      <3> QED
        BY <1>0, <1>6, <2>1, <3>1, SameSight DEF PageByPage, Intact
    <2>2. ok /\ (NoTags(Last(blk), ok) \/ flash[Last(blk)].kind # "summary")
      BY <1>1, <1>5, <2>1
    <2>3. flash[Last(blk)] = Erased \/ flash[Last(blk)].kind # "summary"
      BY <1>3, <2>2, ScanFacts DEF NoTags, TagsError, TagsErased, IsBlockBad
    <2> QED
      BY <2>3 DEF Accepted, Erased
  <1> QED
    BY <1>2, <1>8, <1>9, <1>10, <1>11 DEF Scanned, ScanInv

\* SummaryBody: the body that is read is the summary's.
LEMMA SummaryBodyStep ==
    ASSUME WriterInv, Scanned, SummaryBody
    PROVE  Scanned'
  <1>0. /\ UNCHANGED writerVars /\ UNCHANGED tableVars
        /\ UNCHANGED <<BadBlockMap, blk, Status>>
        /\ flash' = flash /\ bad' = bad
        /\ UNCHANGED <<hdr, loc, seen, starved>>
        /\ pc = "summaryBody" /\ PageBuf' = reg /\ reg' = reg
    BY DEF SummaryBody, ReadPageBody, writerVars, tableVars
  <1>1. blk < NumBlocks /\ blk \notin BadBlockMap /\ reg = Last(blk)
    BY <1>0, ScanFacts DEF ScanAt, InBlock
  <1>2. PICK ok \in BOOLEAN :
            /\ Reads(ok)
            /\ IF ok /\ flash[Last(blk)].kind = "summary" /\ flash[Last(blk)].entries[1] # Zero
               THEN /\ EntryStore' = flash[Last(blk)].entries
                    /\ pc' = "entry"
                    /\ idx' = 1
               ELSE FallBack /\ UNCHANGED EntryStore
    BY <1>0, <1>1 DEF SummaryBody
  <1>3. FieldsFromTaggedPage' /\ NewestSoFar' /\ Tables'
    BY <1>0, SameTables
  <1>4. errors' \in 0 .. MaxErrors /\ (errors' = 0 => ok /\ errors = 0)
    BY <1>2, ReadsCount, ScanFacts
  <1>5. \/ pc' = "page" /\ idx' = 0
        \/ /\ pc' = "entry" /\ idx' = 1
           /\ flash[Last(blk)].kind = "summary"
           /\ EntryStore' = flash[Last(blk)].entries /\ EntryStore'[1] # Zero
    BY <1>2 DEF FallBack
  <1>6. \A p \in Pages : Behind(p)' => Behind(p)
    <2>1. \A p \in Pages : Block(p) = blk => ~(p < First(blk) + 0) /\ ~(p < First(blk) + 1 - 1)
      BY <1>1, ScanFacts, Geometry
    <2> QED
      BY <1>0, <1>5, <2>1 DEF Behind
  <1>7. Covered'
    BY <1>0, <1>4, <1>6, StaysCovered
  <1>8. ScanTypeOK'
    BY <1>0, <1>1, <1>4, <1>5, ScanFacts, Geometry DEF ScanTypeOK
  <1>9. ScanAt'
    BY <1>0, <1>1, <1>4, <1>5, ScanFacts DEF ScanAt, InBlock
  <1>10. PageByPage'
    <2>1. SUFFICES ASSUME pc' = "page", errors' = 0 PROVE ~Accepted(blk)
      <3>1. \A p \in Pages : Block(p) = blk => ~(p < First(blk) + 0)
        BY <1>1, ScanFacts, Geometry
      <3> QED
        BY <1>0, <1>5, <2>1, <3>1, SameSight DEF PageByPage, Intact
    <2> QED
      BY <1>2, <1>4, <2>1 DEF Accepted
  <1> QED
    BY <1>3, <1>7, <1>8, <1>9, <1>10 DEF Scanned, ScanInv

\* The entry at hand: it is that of the next page of the block, or zero.
LEMMA EntryFacts ==
    ASSUME WriterInv, Scanned, pc = "entry"
    PROVE  /\ blk < NumBlocks /\ blk \in Blocks /\ blk \notin BadBlockMap
           /\ First(blk) \in Nat /\ Last(blk) = First(blk) + PagesPerBlock - 1
           /\ flash[Last(blk)].kind = "summary"
           /\ Len(EntryStore) = PagesPerBlock - 1 /\ idx \in Nat /\ idx >= 1
           /\ idx <= Len(EntryStore) =>
                /\ First(blk) + idx - 1 \in Pages /\ Block(First(blk) + idx - 1) = blk
                /\ Hidden(First(blk) + idx - 1) <=> EntryStore[idx] = Zero
                /\ EntryStore[idx] # Zero =>
                    /\ IsChunk(First(blk) + idx - 1)
                    /\ flash[First(blk) + idx - 1].seq = flash[Last(blk)].seq
                    /\ EntryStore[idx] = EntryOf(First(blk) + idx - 1)
  <1>1. /\ blk < NumBlocks /\ blk \notin BadBlockMap /\ flash[Last(blk)].kind = "summary"
        /\ EntryStore = flash[Last(blk)].entries /\ EntryStore[1] # Zero /\ idx >= 1
    BY ScanFacts DEF ScanAt, InBlock
  <1>2. /\ blk \in Blocks /\ First(blk) \in Nat /\ Last(blk) = First(blk) + PagesPerBlock - 1
        /\ Last(blk) \in Pages /\ idx \in Nat /\ PagesPerBlock \in Nat /\ PagesPerBlock > 1
    BY <1>1, ScanFacts, Geometry
  <1>3. flash[Last(blk)] \in SummaryPage
    BY <1>1, <1>2, ScanFacts DEF WriterTypeOK, ChunkPage, Erased, Void, BadSum
  <1>4. EntryStore \in [1 .. PagesPerBlock - 1 -> [obj : Nat, header : BOOLEAN, chunk : Nat]]
    BY <1>1, <1>3 DEF SummaryPage
  <1>5. Len(EntryStore) = PagesPerBlock - 1
    BY <1>2, <1>4
  <1>6. SummaryFits(blk)
    BY <1>1, <1>2, ScanFacts DEF Summaries
  <1>7. ASSUME idx <= Len(EntryStore)
        PROVE  /\ First(blk) + idx - 1 \in Pages /\ Block(First(blk) + idx - 1) = blk
               /\ Hidden(First(blk) + idx - 1) <=> EntryStore[idx] = Zero
               /\ EntryStore[idx] # Zero =>
                   /\ IsChunk(First(blk) + idx - 1)
                   /\ flash[First(blk) + idx - 1].seq = flash[Last(blk)].seq
                   /\ EntryStore[idx] = EntryOf(First(blk) + idx - 1)
    <2>1. idx \in 1 .. PagesPerBlock - 1 /\ idx - 1 \in 0 .. PagesPerBlock - 1
      BY <1>1, <1>2, <1>5, <1>7
    <2>2. First(blk) + (idx - 1) \in Pages /\ Block(First(blk) + (idx - 1)) = blk
      BY <1>2, <2>1, PageIs
    <2>3. First(blk) + (idx - 1) = First(blk) + idx - 1
      BY <1>2, <2>1
    <2>4. EntryStore[idx] # Zero =>
            /\ IsChunk(First(blk) + idx - 1)
            /\ flash[First(blk) + idx - 1].seq = flash[Last(blk)].seq
            /\ EntryStore[idx] = EntryOf(First(blk) + idx - 1)
      BY <1>1, <1>6, <2>1 DEF SummaryFits, IsCopy
    <2>5. (First(blk) + idx - 1) - First(blk) + 1 = idx
      BY <1>2, <2>1
    <2>6. Hidden(First(blk) + idx - 1) <=> EntryStore[idx] = Zero
      BY <1>1, <2>2, <2>3, <2>5 DEF Hidden, Accepted
    <2> QED
      BY <2>2, <2>3, <2>4, <2>6
  <1> QED
    BY <1>1, <1>2, <1>5, <1>7

\* The fields of an entry.
LEMMA EntryIs ==
    ASSUME NEW p
    PROVE  /\ EntryOf(p).obj = flash[p].key[1] /\ EntryOf(p).chunk = flash[p].key[2]
           /\ EntryOf(p).header <=> flash[p].key[2] = 0
           /\ ~Zero.header /\ Zero.obj = 0
  <1>1. EntryOf(p).obj = flash[p].key[1] /\ EntryOf(p).chunk = flash[p].key[2] /\ Zero.obj = 0
    BY DEF EntryOf, Zero
  <1>2. EntryOf(p).header = (flash[p].key[2] = 0)
    BY Zenon DEF EntryOf
  <1>3. Zero.header = FALSE
    BY Zenon DEF Zero
  <1> QED
    BY <1>1, <1>2, <1>3

\* Going on to the next entry.
LEMMA EntryAdvances ==
    ASSUME WriterInv, Scanned, UNCHANGED writerVars, pc = "entry", pc' = "entry", blk' = blk,
           idx <= Len(EntryStore), idx' = idx + 1, seen \subseteq seen',
           (errors' = 0 /\ ~starved') => (errors = 0 /\ ~starved),
           (errors' = 0 /\ ~starved') => \A p \in seen' \ seen : Visible(p),
           (errors' = 0 /\ ~starved' /\ Visible(First(blk) + idx - 1)) => First(blk) + idx - 1 \in seen'
    PROVE  Covered' /\ PageByPage' /\ idx' \in 0 .. PagesPerBlock
  <1>1. ASSUME NEW p \in Pages, Behind(p)', ~Behind(p)
        PROVE  p = First(blk) + idx - 1
    <2>1. p \in Nat /\ First(blk) \in Nat /\ idx \in Nat
      BY EntryFacts, Geometry
    <2>2. Block(p) = blk /\ p < First(blk) + (idx + 1) - 1 /\ ~(p < First(blk) + idx - 1)
      BY <1>1 DEF Behind
    <2> QED
      BY <2>1, <2>2
  <1>2. Covered'
    BY <1>1, StaysCovered
  <1>3. idx' \in 0 .. PagesPerBlock
    BY EntryFacts, Geometry
  <1>4. PageByPage'
    BY DEF PageByPage
  <1> QED
    BY <1>2, <1>3, <1>4

\* EntryHeader: the page that is read is the one the entry is of.
LEMMA EntryHeaderStep ==
    ASSUME WriterInv, Scanned, EntryHeader
    PROVE  Scanned'
  <1> DEFINE p == First(blk) + idx - 1
             o == EntryStore[idx].obj
  <1>0. /\ UNCHANGED writerVars
        /\ UNCHANGED <<pc, BadBlockMap, blk, EntryStore, Status>>
        /\ flash' = flash /\ bad' = bad
        /\ pc = "entry" /\ idx <= Len(EntryStore) /\ EntryStore[idx].header
        /\ PageBuf' = p /\ Load(p) /\ idx' = idx + 1
    BY DEF EntryHeader, ReadPage, writerVars
  <1>1. /\ blk < NumBlocks /\ blk \notin BadBlockMap /\ p \in Pages /\ Block(p) = blk
        /\ idx >= 1 /\ (Hidden(p) <=> EntryStore[idx] = Zero)
        /\ EntryStore[idx] # Zero =>
            IsChunk(p) /\ flash[p].seq = flash[Last(blk)].seq /\ EntryStore[idx] = EntryOf(p)
    BY <1>0, EntryFacts
  <1>2. reg' = p
    BY <1>0, <1>1 DEF Load, IsBlockBad
  <1>3. /\ EntryStore[idx] = EntryOf(p) /\ IsChunk(p) /\ flash[p].seq = flash[Last(blk)].seq
        /\ Visible(p)
    <2>1. EntryStore[idx] # Zero
      BY <1>0 DEF Zero
    <2>2. Block(p) \notin bad
      BY <1>0, <1>1, ScanFacts DEF ScanAt
    <2> QED
      BY <1>1, <2>1, <2>2 DEF Visible
  <1>4. flash[p].key \in Keys
    BY <1>1, <1>3, ScanFacts, ChunkIs
  <1>5. o \in Objects /\ flash[p].key = <<o, 0>>
    BY <1>0, <1>3, <1>4, KeyIs, EntryIs
  <1> HIDE DEF p, o
  <1>6. \/ Reads(FALSE) /\ UNCHANGED tableVars
        \/ Reads(TRUE) /\ ProcessHeader(o, flash[Last(blk)].seq, p)
    BY DEF EntryHeader, p, o
  <1>7. /\ errors' \in 0 .. MaxErrors /\ (errors' = 0 => errors = 0)
        /\ FieldsFromTaggedPage' /\ NewestSoFar' /\ Tables'
        /\ hdr' \in [Objects -> [seq : Nat, page : Pages \cup {Unset}, from : Pages \cup {Unset}]]
        /\ loc' \in [Files -> [seq : Nat, page : Pages \cup {Unset}]]
        /\ seen \subseteq seen' /\ seen' \subseteq Pages
        /\ starved' \in BOOLEAN /\ (~starved' => ~starved)
        /\ errors' = 0 => p \in seen'
        /\ seen' \subseteq seen \cup {p}
    <2>1. CASE Reads(FALSE) /\ UNCHANGED tableVars
      <3>1. errors' \in 0 .. MaxErrors /\ errors' # 0
        BY <2>1, ReadsCount, ScanFacts
      <3>2. FieldsFromTaggedPage' /\ NewestSoFar' /\ Tables'
        BY <1>0, <2>1, SameTables
      <3> QED
        BY <2>1, <3>1, <3>2, ScanFacts DEF tableVars
    <2>2. CASE Reads(TRUE) /\ ProcessHeader(o, flash[Last(blk)].seq, p)
      <3>1. errors' \in 0 .. MaxErrors /\ (errors' = 0 => errors = 0)
        BY <2>2, ReadsCount, ScanFacts
      <3>2. /\ FieldsFromTaggedPage' /\ NewestSoFar' /\ Tables'
            /\ hdr' \in [Objects -> [seq : Nat, page : Pages \cup {Unset}, from : Pages \cup {Unset}]]
            /\ loc' \in [Files -> [seq : Nat, page : Pages \cup {Unset}]]
            /\ seen' = seen \cup {p} /\ seen' \subseteq Pages
            /\ starved' \in BOOLEAN /\ (~starved' => ~starved)
        BY <1>0, <1>1, <1>3, <1>5, <2>2, HeaderTables DEF p
      <3> QED
        BY <2>2, <3>1, <3>2
    <2> QED
      BY <1>6, <2>1, <2>2
  <1>8. Covered' /\ PageByPage' /\ idx' \in 0 .. PagesPerBlock
    BY <1>0, <1>3, <1>7, EntryAdvances DEF p
  <1>9. ScanTypeOK'
    BY <1>0, <1>1, <1>2, <1>7, <1>8, ScanFacts DEF ScanTypeOK
  <1>10. ScanAt'
    BY <1>0, <1>1, <1>7, ScanFacts DEF ScanAt, InBlock
  <1> QED
    BY <1>7, <1>8, <1>9, <1>10 DEF Scanned, ScanInv

\* EntryData: a chunk is recorded under the page its entry is of.
LEMMA EntryDataStep ==
    ASSUME WriterInv, Scanned, EntryData
    PROVE  Scanned'
  <1> DEFINE p == First(blk) + idx - 1
             o == EntryStore[idx].obj
             c == EntryStore[idx].chunk
  <1>0. /\ UNCHANGED writerVars
        /\ UNCHANGED <<pc, BadBlockMap, reg, PageBuf, errors, blk, EntryStore, Status>>
        /\ flash' = flash /\ bad' = bad
        /\ pc = "entry" /\ idx <= Len(EntryStore) /\ ~EntryStore[idx].header
        /\ idx' = idx + 1
    BY DEF EntryData, writerVars, nandVars
  <1>1. /\ blk < NumBlocks /\ blk \notin BadBlockMap /\ p \in Pages /\ Block(p) = blk
        /\ idx >= 1 /\ (Hidden(p) <=> EntryStore[idx] = Zero)
        /\ EntryStore[idx] # Zero =>
            IsChunk(p) /\ flash[p].seq = flash[Last(blk)].seq /\ EntryStore[idx] = EntryOf(p)
    BY <1>0, EntryFacts
  <1>2. EntryStore[idx] # Zero => flash[p].key \in Keys
    BY <1>1, ScanFacts, ChunkIs
  <1>3. \/ o \in Pseudo /\ UNCHANGED tableVars
        \/ o \notin Pseudo /\ ProcessDataChunk(o, c, flash[Last(blk)].seq, p)
    BY DEF EntryData
  <1>4. EntryStore[idx] # Zero => o \in Objects /\ o \notin Pseudo
    BY <1>1, <1>2, KeyIs, EntryIs
  <1>5. o \notin Pseudo =>
            /\ o \in Files /\ flash[p].key = <<o, 1>> /\ c # 0
            /\ IsChunk(p) /\ flash[p].seq = flash[Last(blk)].seq /\ Visible(p)
    <2>1. o \notin Pseudo => EntryStore[idx] # Zero
      BY EntryIs DEF Pseudo
    <2>2. Block(p) \notin bad
      BY <1>0, <1>1, ScanFacts DEF ScanAt
    <2>3. EntryStore[idx] # Zero => Visible(p)
      BY <1>1, <2>2 DEF Visible
    <2> QED
      BY <1>0, <1>1, <1>2, <2>1, <2>3, KeyIs, EntryIs
  <1> HIDE DEF p, o, c
  <1>6. /\ FieldsFromTaggedPage' /\ NewestSoFar' /\ Tables'
        /\ hdr' \in [Objects -> [seq : Nat, page : Pages \cup {Unset}, from : Pages \cup {Unset}]]
        /\ loc' \in [Files -> [seq : Nat, page : Pages \cup {Unset}]]
        /\ seen \subseteq seen' /\ seen' \subseteq Pages
        /\ starved' \in BOOLEAN /\ (~starved' => ~starved)
        /\ Visible(p) => p \in seen'
        /\ \A x \in seen' \ seen : Visible(x)
    <2>1. CASE o \in Pseudo /\ UNCHANGED tableVars
      <3>1. FieldsFromTaggedPage' /\ NewestSoFar' /\ Tables'
        BY <1>0, <2>1, SameTables
      <3>2. ~Visible(p)
        BY <1>1, <1>4, <2>1 DEF Visible
      <3> QED
        BY <2>1, <3>1, <3>2, ScanFacts DEF tableVars
    <2>2. CASE o \notin Pseudo /\ ProcessDataChunk(o, c, flash[Last(blk)].seq, p)
      <3>1. /\ o \in Files /\ flash[p].key = <<o, 1>> /\ c # 0
            /\ IsChunk(p) /\ flash[p].seq = flash[Last(blk)].seq /\ Visible(p)
        BY <1>5, <2>2
      <3>2. /\ FieldsFromTaggedPage' /\ NewestSoFar' /\ Tables'
            /\ hdr' \in [Objects -> [seq : Nat, page : Pages \cup {Unset}, from : Pages \cup {Unset}]]
            /\ loc' \in [Files -> [seq : Nat, page : Pages \cup {Unset}]]
            /\ seen' = seen \cup {p} /\ seen' \subseteq Pages
            /\ starved' \in BOOLEAN /\ (~starved' => ~starved)
        BY <1>0, <1>1, <2>2, <3>1, DataTables
      <3> QED
        BY <3>1, <3>2
    <2> QED
      BY <1>3, <2>1, <2>2
  <1>7. Covered' /\ PageByPage' /\ idx' \in 0 .. PagesPerBlock
    BY <1>0, <1>6, EntryAdvances DEF p
  <1>8. ScanTypeOK'
    BY <1>0, <1>6, <1>7, ScanFacts DEF ScanTypeOK
  <1>9. ScanAt'
    BY <1>0, <1>1, ScanFacts DEF ScanAt, InBlock
  <1> QED
    BY <1>6, <1>7, <1>8, <1>9 DEF Scanned, ScanInv

\* EntriesDone: a summary has an entry for every chunk of its block.
LEMMA EntriesDoneStep ==
    ASSUME WriterInv, Scanned, EntriesDone
    PROVE  Scanned'
  <1>0. /\ UNCHANGED writerVars /\ UNCHANGED tableVars
        /\ UNCHANGED <<BadBlockMap, reg, PageBuf, errors, idx, Status>>
        /\ flash' = flash /\ bad' = bad
        /\ UNCHANGED <<hdr, loc, seen, starved>>
        /\ pc = "entry" /\ idx > Len(EntryStore) /\ NextBlock
    BY DEF EntriesDone, writerVars, nandVars, tableVars
  <1>1. /\ blk < NumBlocks /\ blk \in Blocks /\ blk \notin BadBlockMap
        /\ First(blk) \in Nat /\ Last(blk) = First(blk) + PagesPerBlock - 1
        /\ Len(EntryStore) = PagesPerBlock - 1 /\ idx \in Nat /\ flash[Last(blk)].kind = "summary"
    BY <1>0, EntryFacts
  <1>2. FieldsFromTaggedPage' /\ NewestSoFar' /\ Tables'
    BY <1>0, SameTables
  <1>3. ASSUME errors = 0, ~starved, NEW p \in Pages, Visible(p), Block(p) = blk
        PROVE  p \in seen
    <2>1. p # Last(blk) /\ p <= Last(blk) /\ p \in Nat
      BY <1>1, <1>3, Geometry DEF Visible, IsChunk
    <2>2. p < First(blk) + idx - 1
      BY <1>0, <1>1, <2>1, Geometry
    <2>3. Behind(p)
      BY <1>0, <1>3, <2>2 DEF Behind
    <2> QED
      BY <1>0, <1>3, <2>3 DEF Scanned, Covered, Intact
  <1>4. Covered' /\ PageByPage' /\ blk' \in 0 .. NumBlocks
    BY <1>0, <1>1, <1>3, NextBlockCovers
  <1>5. ScanTypeOK'
    BY <1>0, <1>4, ScanFacts DEF ScanTypeOK, NextBlock
  <1>6. ScanAt'
    BY <1>0, ScanFacts DEF ScanAt, NextBlock, InBlock
  <1> QED
    BY <1>2, <1>4, <1>5, <1>6 DEF Scanned, ScanInv

\* The page at hand.
LEMMA PageFacts ==
    ASSUME WriterInv, Scanned, pc \in {"page", "body"}
    PROVE  /\ blk < NumBlocks /\ blk \in Blocks /\ blk \notin BadBlockMap
           /\ First(blk) \in Nat /\ Last(blk) = First(blk) + PagesPerBlock - 1 /\ idx \in Nat
           /\ idx < PagesPerBlock => Page \in Pages /\ Block(Page) = blk
  <1>1. blk < NumBlocks /\ blk \notin BadBlockMap
    BY ScanFacts DEF ScanAt, InBlock
  <1>2. /\ blk \in Blocks /\ First(blk) \in Nat /\ Last(blk) = First(blk) + PagesPerBlock - 1
        /\ idx \in Nat /\ PagesPerBlock \in Nat
    BY <1>1, ScanFacts, Geometry
  <1>3. idx < PagesPerBlock => idx \in 0 .. PagesPerBlock - 1
    BY <1>2
  <1>4. idx < PagesPerBlock => Page \in Pages /\ Block(Page) = blk
    BY <1>2, <1>3, PageIs DEF Page
  <1> QED
    BY <1>1, <1>2, <1>4

\* Going on to the next page.
LEMMA PageAdvances ==
    ASSUME WriterInv, Scanned, UNCHANGED writerVars, pc \in {"page", "body"}, pc' = "page", blk' = blk,
           idx < PagesPerBlock, idx' = idx + 1, seen \subseteq seen',
           (errors' = 0 /\ ~starved') => (errors = 0 /\ ~starved),
           (errors' = 0 /\ ~starved') => \A p \in seen' \ seen : Visible(p),
           (errors' = 0 /\ ~starved' /\ Visible(Page)) => Page \in seen',
           (errors' = 0 /\ ~starved') => flash[Page] # Erased
    PROVE  Covered' /\ PageByPage' /\ idx' \in 0 .. PagesPerBlock
  <1>1. ASSUME NEW p \in Pages, Behind(p)', ~Behind(p)
        PROVE  p = Page
    <2>1. p \in Nat /\ First(blk) \in Nat /\ idx \in Nat
      BY PageFacts, Geometry
    <2>2. Block(p) = blk /\ p < First(blk) + (idx + 1) /\ ~(p < First(blk) + idx)
      BY <1>1 DEF Behind
    <2> QED
      BY <2>1, <2>2 DEF Page
  <1>2. Covered'
    BY <1>1, StaysCovered
  <1>3. idx' \in 0 .. PagesPerBlock
    BY PageFacts, Geometry
  <1>4. PageByPage'
    <2>1. ASSUME errors' = 0 /\ ~starved', NEW p \in Pages, Block(p) = blk, p < First(blk) + (idx + 1)
          PROVE  flash[p] # Erased
      <3>1. p \in Nat /\ First(blk) \in Nat /\ idx \in Nat
        BY PageFacts, Geometry
      <3>2. CASE p = Page
        BY <2>1, <3>2
      <3>3. CASE p # Page
        <4>1. p < First(blk) + idx
          BY <2>1, <3>1, <3>3 DEF Page
        <4> QED
          BY <2>1, <4>1 DEF Scanned, PageByPage, Intact
      <3> QED
        BY <3>2, <3>3
    <2>2. (errors' = 0 /\ ~starved') => ~Accepted(blk)
      BY DEF Scanned, PageByPage, Intact
    <2>3. flash' = flash
      BY DEF writerVars
    <2> QED
      BY <2>1, <2>2, <2>3, SameSight DEF PageByPage, Intact
  <1> QED
    BY <1>2, <1>3, <1>4

\* The page at hand can be seen, if it is a chunk.
LEMMA PageVisible ==
    ASSUME WriterInv, Scanned, pc \in {"page", "body"}, idx < PagesPerBlock, Intact, IsChunk(Page)
    PROVE  Visible(Page)
  <1>1. /\ blk \notin BadBlockMap /\ Page \in Pages /\ Block(Page) = blk /\ First(blk) \in Nat /\ idx \in Nat
        /\ Page = First(blk) + idx /\ Last(blk) = First(blk) + PagesPerBlock - 1 /\ blk \in Blocks
    BY PageFacts DEF Page
  <1>2. ~Accepted(blk) /\ \A q \in Pages : (Block(q) = blk /\ q < First(blk) + idx) => flash[q] # Erased
    BY DEF Scanned, PageByPage
  <1>3. Block(Page) \notin bad
    BY <1>1, ScanFacts DEF ScanAt
  <1>4. ASSUME NEW q \in First(blk) .. Page - 1
        PROVE  flash[q] # Erased
    <2>1. q - First(blk) \in 0 .. PagesPerBlock - 1 /\ q = First(blk) + (q - First(blk))
          /\ q < First(blk) + idx
      BY <1>1, <1>4, Geometry
    <2>2. q \in Pages /\ Block(q) = blk
      BY <1>1, <2>1, PageIs
    <2> QED
      BY <1>2, <2>1, <2>2
  <1> QED
    BY <1>1, <1>2, <1>3, <1>4 DEF Visible, Hidden

\* PageTags: the first page without tags ends the block, and no chunk comes
\* after it.
LEMMA PageTagsStep ==
    ASSUME WriterInv, Scanned, PageTags
    PROVE  Scanned'
  <1>0. /\ UNCHANGED writerVars
        /\ UNCHANGED <<BadBlockMap, PageBuf, EntryStore, Status>>
        /\ flash' = flash /\ bad' = bad
        /\ pc = "page" /\ idx < PagesPerBlock /\ Load(Page)
    BY DEF PageTags, writerVars
  <1>1. /\ blk < NumBlocks /\ blk \in Blocks /\ blk \notin BadBlockMap /\ First(blk) \in Nat
        /\ Page \in Pages /\ Block(Page) = blk /\ idx \in Nat
    BY <1>0, PageFacts
  <1>2. reg' = Page
    BY <1>0, <1>1 DEF Load, IsBlockBad
  <1>3. PICK ok \in BOOLEAN : Reads(ok) /\
            \/ NoTags(Page, ok) /\ NextBlock /\ UNCHANGED <<idx, tableVars>>
            \/ /\ ~NoTags(Page, ok) /\ ~IsChunk(Page)
               /\ idx' = idx + 1
               /\ UNCHANGED <<pc, blk, tableVars>>
            \/ /\ ~NoTags(Page, ok) /\ IsChunk(Page) /\ flash[Page].key[2] = 0
               /\ pc' = "body"
               /\ UNCHANGED <<blk, idx, tableVars>>
            \/ /\ ~NoTags(Page, ok) /\ IsChunk(Page) /\ flash[Page].key[2] # 0
               /\ ProcessDataChunk(flash[Page].key[1], flash[Page].key[2], flash[Page].seq, Page)
               /\ idx' = idx + 1
               /\ UNCHANGED <<pc, blk>>
    BY Zenon DEF PageTags
  <1>4. errors' \in 0 .. MaxErrors /\ (errors' = 0 => ok /\ errors = 0)
    BY <1>3, ReadsCount, ScanFacts
  <1>5. CASE NoTags(Page, ok) /\ NextBlock /\ UNCHANGED <<idx, tableVars>>
    <2>1. FieldsFromTaggedPage' /\ NewestSoFar' /\ Tables'
      BY <1>0, <1>5, SameTables
    <2>2. UNCHANGED <<hdr, loc, seen, starved>>
      BY <1>5 DEF tableVars
    <2>3. ASSUME errors' = 0, ~starved, NEW p \in Pages, Visible(p), Block(p) = blk
          PROVE  p \in seen
      <3>0. ~Accepted(blk)
        BY <1>0, <1>4, <2>3 DEF Scanned, PageByPage, Intact
      <3>1. flash[Page] = Erased
        BY <1>1, <1>4, <1>5, <2>3 DEF NoTags, TagsError, TagsErased, IsBlockBad
      <3>2. ~(Page < p) /\ p # Page
        <4>1. p # Page
          BY <2>3, <3>1 DEF Visible, IsChunk, Erased
        <4>2. Page \notin First(blk) .. p - 1
          BY <2>3, <3>0, <3>1 DEF Visible, Hidden
        <4>3. Page \in Nat /\ p \in Nat /\ Page >= First(blk)
          BY <1>1, Geometry DEF Page
        <4> QED
          BY <1>1, <4>1, <4>2, <4>3
      <3>3. p < Page /\ p \in Nat
        BY <1>1, <2>3, <3>2, Geometry DEF Page
      <3>4. Behind(p)
        BY <1>0, <2>3, <3>3 DEF Behind, Page
      <3> QED
        BY <1>0, <1>4, <2>3, <3>4 DEF Scanned, Covered, Intact
    <2>4. Covered' /\ PageByPage' /\ blk' \in 0 .. NumBlocks
      BY <1>0, <1>1, <1>4, <1>5, <2>2, <2>3, NextBlockCovers
    <2>5. ScanTypeOK'
      BY <1>0, <1>1, <1>2, <1>4, <1>5, <2>2, <2>4, ScanFacts DEF ScanTypeOK, NextBlock
    <2>6. ScanAt'
      BY <1>0, <1>4, <1>5, ScanFacts DEF ScanAt, NextBlock, InBlock
    <2> QED
      BY <2>1, <2>4, <2>5, <2>6 DEF Scanned, ScanInv
  <1>6. CASE /\ ~NoTags(Page, ok) /\ ~IsChunk(Page)
             /\ idx' = idx + 1
             /\ UNCHANGED <<pc, blk, tableVars>>
    <2>1. FieldsFromTaggedPage' /\ NewestSoFar' /\ Tables'
      BY <1>0, <1>6, SameTables
    <2>2. UNCHANGED <<hdr, loc, seen, starved>>
      BY <1>6 DEF tableVars
    <2>3. flash[Page] # Erased /\ ~Visible(Page)
      BY <1>6 DEF NoTags, TagsErased, Visible
    <2>4. Covered' /\ PageByPage' /\ idx' \in 0 .. PagesPerBlock
      BY <1>0, <1>4, <1>6, <2>2, <2>3, PageAdvances
    <2>5. ScanTypeOK'
      BY <1>0, <1>1, <1>2, <1>4, <1>6, <2>2, <2>4, ScanFacts DEF ScanTypeOK
    <2>6. ScanAt'
      BY <1>0, <1>1, <1>4, <1>6, ScanFacts DEF ScanAt, InBlock
    <2> QED
      BY <2>1, <2>4, <2>5, <2>6 DEF Scanned, ScanInv
  <1>7. CASE /\ ~NoTags(Page, ok) /\ IsChunk(Page) /\ flash[Page].key[2] = 0
             /\ pc' = "body"
             /\ UNCHANGED <<blk, idx, tableVars>>
    <2>1. FieldsFromTaggedPage' /\ NewestSoFar' /\ Tables'
      BY <1>0, <1>7, SameTables
    <2>2. UNCHANGED <<hdr, loc, seen, starved>> /\ blk' = blk /\ idx' = idx
      BY <1>7 DEF tableVars
    <2>3. \A p \in Pages : Behind(p)' => Behind(p)
      BY <1>0, <1>7, <2>2 DEF Behind
    <2>4. Covered'
      BY <1>0, <1>4, <2>2, <2>3, StaysCovered
    <2>5. ScanTypeOK'
      BY <1>0, <1>1, <1>2, <1>4, <1>7, <2>2, ScanFacts DEF ScanTypeOK
    <2>6. Page' = Page /\ IsChunk(Page)' /\ flash'[Page'].key[2] = 0
      BY <1>0, <1>7, <2>2 DEF Page, IsChunk
    <2>7. ScanAt'
      BY <1>0, <1>1, <1>2, <1>4, <1>7, <2>2, <2>6, ScanFacts DEF ScanAt, InBlock
    <2>8. PageByPage'
      BY <1>0, <1>4, <1>7, <2>2, SameSight DEF Scanned, PageByPage, Intact
    <2> QED
      BY <2>1, <2>4, <2>5, <2>7, <2>8 DEF Scanned, ScanInv
  <1>8. CASE /\ ~NoTags(Page, ok) /\ IsChunk(Page) /\ flash[Page].key[2] # 0
             /\ ProcessDataChunk(flash[Page].key[1], flash[Page].key[2], flash[Page].seq, Page)
             /\ idx' = idx + 1
             /\ UNCHANGED <<pc, blk>>
    <2> DEFINE o == flash[Page].key[1]
    <2>1. flash[Page].key \in Keys
      BY <1>1, <1>8, ScanFacts, ChunkIs
    <2>2. o \in Files /\ flash[Page].key = <<o, 1>>
      BY <1>8, <2>1, KeyIs
    <2>3. /\ FieldsFromTaggedPage' /\ NewestSoFar' /\ Tables'
          /\ hdr' \in [Objects -> [seq : Nat, page : Pages \cup {Unset}, from : Pages \cup {Unset}]]
          /\ loc' \in [Files -> [seq : Nat, page : Pages \cup {Unset}]]
          /\ seen' = seen \cup {Page} /\ seen' \subseteq Pages
          /\ starved' \in BOOLEAN /\ (~starved' => ~starved)
      <3> HIDE DEF o
      <3>1. ProcessDataChunk(o, flash[Page].key[2], flash[Page].seq, Page)
        BY <1>8 DEF o
      <3> QED
        BY <1>0, <1>1, <1>8, <2>2, <3>1, DataTables
    <2>4. flash[Page] # Erased /\ ((errors' = 0 /\ ~starved') => Visible(Page))
      BY <1>0, <1>4, <1>8, <2>3, PageVisible DEF IsChunk, Erased, Intact
    <2>5. Covered' /\ PageByPage' /\ idx' \in 0 .. PagesPerBlock
      BY <1>0, <1>4, <1>8, <2>3, <2>4, PageAdvances
    <2>6. ScanTypeOK'
      BY <1>0, <1>1, <1>2, <1>4, <1>8, <2>3, <2>5, ScanFacts DEF ScanTypeOK
    <2>7. ScanAt'
      BY <1>0, <1>1, <1>4, <1>8, ScanFacts DEF ScanAt, InBlock
    <2> QED
      BY <2>3, <2>5, <2>6, <2>7 DEF Scanned, ScanInv
  <1> QED
    BY <1>3, <1>5, <1>6, <1>7, <1>8

\* PageBody: the page register still holds the page whose tags were read.
LEMMA PageBodyStep ==
    ASSUME WriterInv, Scanned, PageBody
    PROVE  Scanned'
  <1> DEFINE o == flash[Page].key[1]
  <1>0. /\ UNCHANGED writerVars
        /\ UNCHANGED <<BadBlockMap, blk, EntryStore, Status>>
        /\ flash' = flash /\ bad' = bad
        /\ pc = "body" /\ pc' = "page" /\ idx' = idx + 1
        /\ PageBuf' = reg /\ reg' = reg
    BY DEF PageBody, ReadPageBody, writerVars
  <1>1. reg = Page /\ IsChunk(Page) /\ flash[Page].key[2] = 0 /\ idx < PagesPerBlock
    BY <1>0, ScanFacts DEF ScanAt
  <1>2. blk < NumBlocks /\ blk \notin BadBlockMap /\ Page \in Pages /\ Block(Page) = blk /\ idx \in Nat
    BY <1>0, <1>1, PageFacts
  <1>3. flash[Page].key \in Keys
    BY <1>1, <1>2, ScanFacts, ChunkIs
  <1>4. o \in Objects /\ flash[Page].key = <<o, 0>>
    BY <1>1, <1>3, KeyIs
  <1> HIDE DEF o
  <1>5. \/ Reads(FALSE) /\ UNCHANGED tableVars
        \/ Reads(TRUE) /\ ProcessHeader(o, flash[Page].seq, Page)
    BY DEF PageBody, o
  <1>6. /\ errors' \in 0 .. MaxErrors /\ (errors' = 0 => errors = 0)
        /\ FieldsFromTaggedPage' /\ NewestSoFar' /\ Tables'
        /\ hdr' \in [Objects -> [seq : Nat, page : Pages \cup {Unset}, from : Pages \cup {Unset}]]
        /\ loc' \in [Files -> [seq : Nat, page : Pages \cup {Unset}]]
        /\ seen \subseteq seen' /\ seen' \subseteq Pages
        /\ starved' \in BOOLEAN /\ (~starved' => ~starved)
        /\ errors' = 0 => Page \in seen'
        /\ seen' \subseteq seen \cup {Page}
    <2>1. CASE Reads(FALSE) /\ UNCHANGED tableVars
      <3>1. errors' \in 0 .. MaxErrors /\ errors' # 0
        BY <2>1, ReadsCount, ScanFacts
      <3>2. FieldsFromTaggedPage' /\ NewestSoFar' /\ Tables'
        BY <1>0, <2>1, SameTables
      <3> QED
        BY <2>1, <3>1, <3>2, ScanFacts DEF tableVars
    <2>2. CASE Reads(TRUE) /\ ProcessHeader(o, flash[Page].seq, Page)
      <3>1. errors' \in 0 .. MaxErrors /\ (errors' = 0 => errors = 0)
        BY <2>2, ReadsCount, ScanFacts
      <3>2. /\ FieldsFromTaggedPage' /\ NewestSoFar' /\ Tables'
            /\ hdr' \in [Objects -> [seq : Nat, page : Pages \cup {Unset}, from : Pages \cup {Unset}]]
            /\ loc' \in [Files -> [seq : Nat, page : Pages \cup {Unset}]]
            /\ seen' = seen \cup {Page} /\ seen' \subseteq Pages
            /\ starved' \in BOOLEAN /\ (~starved' => ~starved)
        BY <1>0, <1>1, <1>2, <1>4, <2>2, HeaderTables
      <3> QED
        BY <2>2, <3>1, <3>2
    <2> QED
      BY <1>5, <2>1, <2>2
  <1>7. flash[Page] # Erased /\ ((errors' = 0 /\ ~starved') => Visible(Page))
    BY <1>0, <1>1, <1>6, PageVisible DEF IsChunk, Erased, Intact
  <1>8. Covered' /\ PageByPage' /\ idx' \in 0 .. PagesPerBlock
    BY <1>0, <1>1, <1>6, <1>7, PageAdvances
  <1>9. ScanTypeOK'
    BY <1>0, <1>1, <1>2, <1>6, <1>8, ScanFacts DEF ScanTypeOK
  <1>10. ScanAt'
    BY <1>0, <1>2, <1>6, ScanFacts DEF ScanAt, InBlock
  <1> QED
    BY <1>6, <1>8, <1>9, <1>10 DEF Scanned, ScanInv

\* PagesDone: the block was read to its end.
LEMMA PagesDoneStep ==
    ASSUME WriterInv, Scanned, PagesDone
    PROVE  Scanned'
  <1>0. /\ UNCHANGED writerVars /\ UNCHANGED tableVars
        /\ UNCHANGED <<BadBlockMap, reg, PageBuf, errors, idx, EntryStore, Status>>
        /\ flash' = flash /\ bad' = bad
        /\ UNCHANGED <<hdr, loc, seen, starved>>
        /\ pc = "page" /\ idx = PagesPerBlock /\ NextBlock
    BY DEF PagesDone, writerVars, nandVars, tableVars
  <1>1. /\ blk < NumBlocks /\ blk \in Blocks /\ First(blk) \in Nat
        /\ Last(blk) = First(blk) + PagesPerBlock - 1 /\ PagesPerBlock \in Nat
    BY <1>0, PageFacts, Geometry
  <1>2. FieldsFromTaggedPage' /\ NewestSoFar' /\ Tables'
    BY <1>0, SameTables
  <1>3. ASSUME errors = 0, ~starved, NEW p \in Pages, Visible(p), Block(p) = blk
        PROVE  p \in seen
    <2>1. p <= Last(blk) /\ p \in Nat
      BY <1>3, Geometry
    <2>2. p < First(blk) + idx
      BY <1>0, <1>1, <2>1
    <2>3. Behind(p)
      BY <1>0, <1>3, <2>2 DEF Behind
    <2> QED
      BY <1>0, <1>3, <2>3 DEF Scanned, Covered, Intact
  <1>4. Covered' /\ PageByPage' /\ blk' \in 0 .. NumBlocks
    BY <1>0, <1>1, <1>3, NextBlockCovers
  <1>5. ScanTypeOK'
    BY <1>0, <1>4, ScanFacts DEF ScanTypeOK, NextBlock
  <1>6. ScanAt'
    BY <1>0, ScanFacts DEF ScanAt, NextBlock, InBlock
  <1> QED
    BY <1>2, <1>4, <1>5, <1>6 DEF Scanned, ScanInv

\* FinishScan: the volume is corrupted exactly if the root does not stay.
LEMMA FinishScanStep ==
    ASSUME WriterInv, Scanned, FinishScan
    PROVE  Scanned'
  <1>0. /\ UNCHANGED writerVars /\ UNCHANGED tableVars
        /\ UNCHANGED <<BadBlockMap, reg, PageBuf, errors, blk, idx, EntryStore>>
        /\ flash' = flash /\ bad' = bad
        /\ UNCHANGED <<hdr, loc, seen, starved>>
        /\ pc = "block" /\ blk = NumBlocks /\ pc' = "done"
        /\ Status' = IF Stays(Root) THEN "SUCCESS" ELSE "VOLUME_CORRUPTED"
    BY DEF FinishScan, writerVars, nandVars, walkVars, tableVars
  <1>1. FieldsFromTaggedPage' /\ NewestSoFar' /\ Tables'
    BY <1>0, SameTables
  <1>2. \A p \in Pages : Behind(p)' => Behind(p)
    BY <1>0 DEF Behind
  <1>3. Covered' /\ PageByPage'
    BY <1>0, <1>2, StaysCovered DEF PageByPage
  <1>4. ScanTypeOK'
    BY <1>0, ScanFacts DEF ScanTypeOK
  <1>5. Stays(Root)' <=> Stays(Root)
    BY <1>0 DEF Stays, Parent
  <1>6. ScanAt'
    BY <1>0, <1>5, ScanFacts DEF ScanAt, InBlock
  <1> QED
    BY <1>1, <1>3, <1>4, <1>6 DEF Scanned, ScanInv

\* While nothing was seen the tables are empty, whatever is written.
LEMMA NothingSeen ==
    ASSUME Scanned, pc = "writer", UNCHANGED tableVars
    PROVE  /\ FieldsFromTaggedPage' /\ NewestSoFar' /\ Tables'
           /\ blk = 0 /\ seen = {} /\ errors = 0 /\ ~starved
  <1>1. /\ Tables /\ blk = 0 /\ seen = {} /\ errors = 0 /\ ~starved
        /\ UNCHANGED <<hdr, loc, seen, starved>>
    BY DEF Scanned, ScanAt, tableVars
  <1>2. /\ \A o \in Objects : hdr[o].seq = 0 /\ hdr[o].page = Unset
        /\ \A o \in Files : loc[o].page = Unset
    BY <1>1 DEF Tables
  <1>3. FieldsFromTaggedPage'
    BY <1>1, <1>2 DEF FieldsFromTaggedPage
  <1>4. NewestSoFar'
    BY <1>1 DEF NewestSoFar
  <1>5. Tables'
    BY <1>1, <1>2 DEF Tables
  <1> QED
    BY <1>1, <1>3, <1>4, <1>5

\* The writer does not touch the scan.
LEMMA WriterScans ==
    ASSUME WriterInv, Scanned, pc = "writer", UNCHANGED <<pc, nandVars, walkVars, tableVars, Status>>
    PROVE  Scanned'
  <1>1. UNCHANGED <<BadBlockMap, reg, PageBuf, errors, blk, idx, EntryStore, hdr, loc, seen, starved, pc,
                    Status>>
        /\ UNCHANGED tableVars
    BY DEF nandVars, walkVars, tableVars
  <1>2. FieldsFromTaggedPage' /\ NewestSoFar' /\ Tables' /\ blk = 0 /\ seen = {} /\ errors = 0 /\ ~starved
    BY <1>1, NothingSeen
  <1>3. ScanTypeOK'
    BY <1>1, ScanFacts DEF ScanTypeOK
  <1>4. ScanAt'
    BY <1>1, <1>2, Zenon DEF ScanAt, InBlock
  <1>5. Covered' /\ PageByPage'
    BY <1>1 DEF Covered, PageByPage
  <1> QED
    BY <1>2, <1>3, <1>4, <1>5 DEF Scanned, ScanInv

\* PowerCycle: AlNandDxe knows the bad blocks, and more only after a read
\* error.
LEMMA PowerCycleScans ==
    ASSUME WriterInv, Scanned, PowerCycle
    PROVE  Scanned'
  <1>0. /\ pc = "writer" /\ pc' = "block" /\ UNCHANGED tableVars /\ bad' = bad
        /\ UNCHANGED <<reg, PageBuf, blk, idx, EntryStore, hdr, loc, seen, starved, Status>>
    BY DEF PowerCycle, writerVars, walkVars, tableVars
  <1>1. PICK more \in SUBSET Blocks :
            /\ errors + Cardinality(more) <= MaxErrors
            /\ BadBlockMap' = bad \cup more
            /\ errors' = errors + Cardinality(more)
    BY DEF PowerCycle
  <1>2. FieldsFromTaggedPage' /\ NewestSoFar' /\ Tables' /\ blk = 0 /\ seen = {} /\ errors = 0 /\ ~starved
    BY <1>0, NothingSeen
  <1>3. IsFiniteSet(more) /\ Cardinality(more) \in Nat /\ (Cardinality(more) = 0 <=> more = {})
    <2>1. IsFiniteSet(Blocks)
      BY Geometry, FS_Interval DEF Blocks
    <2>2. IsFiniteSet(more)
      BY <2>1, FS_Subset
    <2> QED
      BY <2>2, FS_CardinalityType, FS_EmptySet
  <1>4. errors' \in 0 .. MaxErrors /\ (errors' = 0 => more = {})
    BY <1>1, <1>2, <1>3, ScanAssumption
  <1>5. bad \subseteq Blocks
    BY ScanFacts DEF WriterTypeOK
  <1>6. ScanTypeOK'
    BY <1>0, <1>1, <1>4, <1>5, ScanFacts DEF ScanTypeOK
  <1>7. ScanAt'
    BY <1>0, <1>1, <1>4 DEF ScanAt, InBlock
  <1>8. Covered' /\ PageByPage'
    <2>1. ASSUME NEW p \in Pages, Behind(p)' PROVE FALSE
      <3>1. Block(p) \in Nat
        BY Geometry
      <3> QED
        BY <1>0, <1>2, <2>1, <3>1 DEF Behind
    <2> QED
      BY <1>0, <1>2, <2>1 DEF Covered, PageByPage
  <1> QED
    BY <1>2, <1>6, <1>7, <1>8 DEF Scanned, ScanInv

\* Every step keeps the scan's part.
LEMMA ScanStep ==
    ASSUME WriterInv, Scanned, [Next]_vars
    PROVE  Scanned'
  <1>1. CASE \E k \in Keys, parent \in Objects \cup {0, Deleted} : WriteKey(k, parent)
    BY <1>1, WriterScans DEF WriteKey, Append1
  <1>2. CASE \E p \in Pages : Copy(p)
    BY <1>2, WriterScans DEF Copy, Append1
  <1>3. CASE \E b \in Blocks, retire \in BOOLEAN : Collect(b, retire)
    BY <1>3, WriterScans DEF Collect
  <1>4. CASE WriteSummary
    BY <1>4, WriterScans DEF WriteSummary
  <1>5. CASE PowerCycle
    BY <1>5, PowerCycleScans
  <1>6. CASE TearPage
    BY <1>6, WriterScans DEF TearPage
  <1>7. CASE Scan
    BY <1>7, StartBlockStep, SummaryTagsStep, SummaryBodyStep, EntryHeaderStep, EntryDataStep,
       EntriesDoneStep, PageTagsStep, PageBodyStep, PagesDoneStep, FinishScanStep DEF Scan
  <1>8. CASE UNCHANGED vars
    <2>1. /\ UNCHANGED writerVars /\ UNCHANGED tableVars
          /\ UNCHANGED <<flash, bad, hdr, loc, seen, starved, pc, BadBlockMap, reg, PageBuf, errors>>
          /\ UNCHANGED <<blk, idx, EntryStore, Status>>
      BY <1>8 DEF vars, writerVars, nandVars, walkVars, tableVars
    <2>2. FieldsFromTaggedPage' /\ NewestSoFar' /\ Tables'
      BY <2>1, SameTables
    <2>3. ScanTypeOK'
      BY <2>1, ScanFacts DEF ScanTypeOK
    <2>4. Page' = Page /\ (IsChunk(Page)' <=> IsChunk(Page)) /\ (Stays(Root)' <=> Stays(Root))
      BY <2>1 DEF Page, IsChunk, Stays, Parent
    <2>5. ScanAt'
      BY <2>1, <2>4, ScanFacts DEF ScanAt, InBlock
    <2>6. Covered' /\ PageByPage'
      <3>1. \A p : Behind(p)' <=> Behind(p)
        BY <2>1 DEF Behind
      <3>2. Covered'
        BY <2>1, <3>1, SameSight DEF Covered, Intact, Scanned
      <3>3. PageByPage'
        BY <2>1, SameSight DEF PageByPage, Intact, Scanned
      <3> QED
        BY <3>2, <3>3
    <2> QED
      BY <2>2, <2>3, <2>5, <2>6 DEF Scanned, ScanInv
  <1> QED
    BY <1>1, <1>2, <1>3, <1>4, <1>5, <1>7, <1>8, <1>6 DEF Next

\* Nothing is scanned yet.
LEMMA ScanInitial ==
    ASSUME Init
    PROVE  Scanned
  <1>1. /\ pc = "writer" /\ BadBlockMap = {} /\ reg = Unset /\ PageBuf = Unset /\ errors = 0 /\ blk = 0
        /\ idx = 0 /\ EntryStore = <<>> /\ seen = {} /\ starved = FALSE /\ Status = "none"
        /\ hdr = [o \in Objects |-> [seq |-> 0, page |-> Unset, from |-> Unset]]
        /\ loc = [o \in Files |-> [seq |-> 0, page |-> Unset]]
    BY DEF Init
  <1>2. ScanTypeOK
    <2>1. /\ errors \in 0 .. MaxErrors /\ blk \in 0 .. NumBlocks /\ idx \in 0 .. PagesPerBlock
          /\ hdr \in [Objects -> [seq : Nat, page : Pages \cup {Unset}, from : Pages \cup {Unset}]]
          /\ loc \in [Files -> [seq : Nat, page : Pages \cup {Unset}]]
      BY <1>1, ScanAssumption
    <2>2. starved \in BOOLEAN
      BY <1>1
    <2> QED
      BY <1>1, <2>1, <2>2 DEF ScanTypeOK
  <1>3. FieldsFromTaggedPage /\ NewestSoFar /\ Tables
    BY <1>1 DEF FieldsFromTaggedPage, NewestSoFar, Tables
  <1>4. ScanAt /\ Covered /\ PageByPage
    BY <1>1 DEF ScanAt, InBlock, Covered, PageByPage
  <1> QED
    BY <1>2, <1>3, <1>4 DEF Scanned, ScanInv

LEMMA ScanInductive == Spec => []IInv
  <1>1. Init => IInv
    BY WriterInitial, ScanInitial DEF IInv
  <1>2. IInv /\ [Next]_vars => IInv'
    BY WriterStep, ScanStep DEF IInv
  <1> QED
    BY <1>1, <1>2, PTL DEF Spec

\* ScanInv: whatever was written, torn, garbage collected or retired before the
\* power cycle, and whatever reads or allocations fail during the scan, the
\* fields of a table's header come from the page its tags came from and the
\* tables hold the newest of the pages processed.
THEOREM ScanSafe == Spec => []ScanInv
  <1>1. IInv => ScanInv
    BY DEF IInv, Scanned
  <1> QED
    BY <1>1, ScanInductive, PTL

\* At the end of a scan without faults what was seen is what can be seen.
LEMMA AllSeen ==
    ASSUME IInv, pc = "done", Intact
    PROVE  \A p \in Pages : Visible(p) <=> p \in seen
  <1>1. blk = NumBlocks /\ Covered /\ pc # "writer"
    BY DEF IInv, Scanned, ScanAt
  <1>2. ASSUME NEW p \in Pages, Visible(p)
        PROVE  p \in seen
    <2>1. Block(p) < NumBlocks
      BY Geometry DEF Blocks
    <2>2. Behind(p)
      BY <1>1, <2>1 DEF Behind
    <2> QED
      BY <1>1, <1>2, <2>2 DEF Covered
  <1> QED
    BY <1>1, <1>2 DEF Covered

\* Then the tables hold the newest copies, of what is Readable.
LEMMA TableNewest ==
    ASSUME IInv, pc = "done", Intact, NEW k \in Keys, NEW p \in Pages, NewestIs(k, p), Readable(k)
    PROVE  p = IF k[2] = 0 THEN hdr[k[1]].page ELSE loc[k[1]].page
  <1> DEFINE e == IF k[2] = 0 THEN hdr[k[1]].page ELSE loc[k[1]].page
  <1>0. WriterTypeOK /\ NewestSoFar /\ Tables /\ seen \subseteq Pages /\ ~starved
    BY DEF IInv, WriterInv, Scanned, ScanInv, ScanTypeOK, Intact
  <1>1. p \in OfKey(k) /\ IsChunk(p) /\ flash[p].key = k /\ IsNewest(p)
    BY DEF NewestIs, OfKey, IsCopy
  <1>2. p \in seen
    BY <1>1, AllSeen DEF Readable
  <1>3. e \in seen /\ flash[e].key = k /\ (e = p \/ Older(p, e))
    BY <1>0, <1>1, <1>2 DEF NewestSoFar
  <1> HIDE DEF e
  <1>4. e \in Pages /\ IsChunk(e) /\ Visible(e) /\ Block(e) \notin bad
    BY <1>0, <1>3, AllSeen DEF Visible
  <1>5. e # p => Older(e, p)
    <2>1. CASE e \notin torn
      BY <1>1, <1>3, <1>4, <2>1 DEF IsNewest, OfKey, IsCopy
    <2>2. CASE e \in torn
      <3>1. PICK q \in OfKey(k) : Older(e, q)
        BY <1>3, <1>4, <2>2 DEF Readable
      <3>2. q \in Pages /\ IsChunk(q) /\ (q = p \/ Older(q, p))
        BY <1>1, <3>1 DEF IsNewest, OfKey, IsCopy
      <3> QED
        BY <1>0, <1>1, <1>4, <3>1, <3>2, OlderOrder
    <2> QED
      BY <2>1, <2>2
  <1>6. e = p
    BY <1>0, <1>1, <1>3, <1>4, <1>5, OlderOrder
  <1> QED
    BY <1>6 DEF e

\* What the tables say of a live object.
LEMMA LiveObject ==
    ASSUME IInv, pc = "done", Intact, NEW o \in Objects, Alive(o), Readable(<<o, 0>>)
    PROVE  /\ hdr[o].seq # 0
           /\ flash[hdr[o].from].ver = latest[<<o, 0>>].ver
           /\ flash[hdr[o].from].parent = latest[<<o, 0>>].parent
  <1>0. Current /\ Tables /\ FieldsFromTaggedPage
    BY DEF IInv, WriterInv, Scanned, ScanInv
  <1> DEFINE k == <<o, 0>>
  <1>1. k \in Keys /\ k[1] = o /\ k[2] = 0 /\ latest[k].ver # 0
    BY KeyIs DEF Alive
  <1>2. PICK p \in Pages : /\ NewestIs(k, p) /\ flash[p].ver = latest[k].ver
                           /\ flash[p].parent = latest[k].parent
    BY <1>0, <1>1 DEF Current
  <1>3. p = hdr[o].page
    BY <1>1, <1>2, TableNewest
  <1>4. hdr[o].seq # 0
    BY <1>0, <1>3, Geometry DEF Tables
  <1>5. hdr[o].from = p
    BY <1>0, <1>3, <1>4 DEF FieldsFromTaggedPage
  <1> QED
    BY <1>2, <1>4, <1>5

\* FilesAreCurrent: after power failures at any points, within pages too, with
\* garbage collection half done, with summaries good, stale, torn or missing,
\* and whatever torn pages read as, a scan without faults finds the newest
\* header of every live object and the newest chunk of every file, if that
\* copy is Readable: the scan's two ways to pass over a page, a zero entry and
\* a page before it that reads erased, and a torn page that passes for a newer
\* copy, are the only ways to lose it.
THEOREM FilesCurrent == Spec => []FilesAreCurrent
  <1>1. ASSUME IInv PROVE FilesAreCurrent
    <2>1. SUFFICES ASSUME pc = "done", Intact, NEW o \in Objects, Alive(o)
                   PROVE  /\ Readable(<<o, 0>>) =>
                              hdr[o].seq # 0 /\ flash[hdr[o].from].ver = latest[<<o, 0>>].ver
                          /\ (o \in Files /\ latest[<<o, 1>>].ver # 0 /\ Readable(<<o, 1>>)) =>
                              loc[o].page # Unset /\ flash[loc[o].page].ver = latest[<<o, 1>>].ver
      BY DEF FilesAreCurrent
    <2>2. Readable(<<o, 0>>) => hdr[o].seq # 0 /\ flash[hdr[o].from].ver = latest[<<o, 0>>].ver
      BY <1>1, <2>1, LiveObject
    <2>3. ASSUME o \in Files, latest[<<o, 1>>].ver # 0, Readable(<<o, 1>>)
          PROVE  loc[o].page # Unset /\ flash[loc[o].page].ver = latest[<<o, 1>>].ver
      <3> DEFINE k == <<o, 1>>
      <3>1. k \in Keys /\ k[1] = o /\ k[2] # 0
        BY <2>3, KeyIs
      <3>2. PICK p \in Pages : NewestIs(k, p) /\ flash[p].ver = latest[k].ver
        BY <1>1, <2>1, <2>3, <3>1 DEF IInv, WriterInv, Current
      <3>3. p = loc[o].page
        BY <1>1, <2>1, <2>3, <3>1, <3>2, TableNewest
      <3> QED
        BY <3>2, <3>3, Geometry
    <2> QED
      BY <2>2, <2>3
  <1> QED
    BY <1>1, ScanInductive, PTL

\* TreeIsCurrent: such a scan succeeds if the root's header is Readable; an
\* object whose header is Readable is in the tree exactly if it is alive, in
\* the directory it was last put in if that one's header is Readable too, and
\* nothing deleted comes back.
THEOREM TreeCurrent == Spec => []TreeIsCurrent
  <1>1. ASSUME IInv PROVE TreeIsCurrent
    <2>1. SUFFICES ASSUME pc = "done", Intact
                   PROVE  /\ Readable(<<Root, 0>>) => Status = "SUCCESS"
                          /\ \A o \in Objects : Readable(<<o, 0>>) =>
                              /\ Stays(o) <=> Alive(o)
                              /\ (Alive(o) /\ Readable(<<latest[<<o, 0>>].parent, 0>>)) =>
                                  ShownIn(o) = latest[<<o, 0>>].parent
      BY DEF TreeIsCurrent
    <2>2. /\ Current /\ LiveTree /\ Tables /\ FieldsFromTaggedPage /\ ScanAt /\ WriterTypeOK
          /\ seen \subseteq Pages
      BY <1>1 DEF IInv, WriterInv, Scanned, ScanInv, ScanTypeOK
    <2>3. ASSUME NEW o \in Objects, Alive(o), Readable(<<o, 0>>)
          PROVE  /\ Parent(o) = latest[<<o, 0>>].parent /\ Parent(o) \in Objects
                 /\ Stays(o) /\ Alive(Parent(o))
      <3>1. hdr[o].seq # 0 /\ Parent(o) = latest[<<o, 0>>].parent
        BY <1>1, <2>1, <2>3, LiveObject DEF Parent
      <3>2. Parent(o) \in Objects /\ Alive(Parent(o))
        BY <2>2, <2>3, <3>1, KeyIs DEF LiveTree
      <3>3. Parent(o) \notin {Unlinked, Deleted}
        BY <3>2, KeyIs DEF Pseudo
      <3> QED
        BY <3>1, <3>2, <3>3 DEF Stays
    <2>4. ASSUME NEW o \in Objects, ~Alive(o), Readable(<<o, 0>>)
          PROVE  ~Stays(o)
      <3> DEFINE k == <<o, 0>>
      <3>1. k \in Keys /\ k[1] = o /\ k[2] = 0
        BY KeyIs
      <3>2. CASE OfKey(k) = {}
        <4>1. SUFFICES ASSUME hdr[o].seq # 0 PROVE FALSE
          BY DEF Stays
        <4>2. hdr[o].page \in seen /\ flash[hdr[o].page].key = k
          BY <2>2, <4>1 DEF Tables, FieldsFromTaggedPage
        <4>3. Visible(hdr[o].page) /\ hdr[o].page \in Pages
          BY <1>1, <2>2, <2>1, <4>2, AllSeen
        <4>4. hdr[o].page \in torn
          BY <3>2, <4>2, <4>3 DEF OfKey, IsCopy, Visible
        <4> QED
          BY <2>4, <3>2, <4>2, <4>3, <4>4 DEF Readable
      <3>3. CASE \E p \in Pages : NewestIs(k, p) /\ flash[p].parent = Deleted
        <4>1. PICK p \in Pages : NewestIs(k, p) /\ flash[p].parent = Deleted
          BY <3>3
        <4>2. p = hdr[o].page
          BY <1>1, <2>1, <2>4, <3>1, <4>1, TableNewest
        <4>3. hdr[o].seq # 0 => hdr[o].from = p
          BY <2>2, <4>2 DEF FieldsFromTaggedPage
        <4> QED
          BY <4>1, <4>3 DEF Stays, Parent
      <3> QED
        BY <2>2, <2>4, <3>2, <3>3 DEF Current
    <2>5. Readable(<<Root, 0>>) => Status = "SUCCESS"
      BY <2>2, <2>1, <2>3, KeyIs DEF LiveTree, ScanAt
    <2>6. \A o \in Objects : Readable(<<o, 0>>) => (Stays(o) <=> Alive(o))
      BY <2>3, <2>4
    <2>7. ASSUME NEW o \in Objects, Readable(<<o, 0>>), Alive(o), Readable(<<latest[<<o, 0>>].parent, 0>>)
          PROVE  ShownIn(o) = latest[<<o, 0>>].parent
      <3>1. Parent(o) = latest[<<o, 0>>].parent /\ Parent(o) \in Objects /\ Alive(Parent(o))
        BY <2>3, <2>7
      <3>2. Stays(Parent(o))
        BY <2>3, <2>7, <3>1
      <3> QED
        BY <3>1, <3>2 DEF ShownIn
    <2> QED
      BY <2>5, <2>6, <2>7
  <1> QED
    BY <1>1, ScanInductive, PTL
-----------------------------------------------------------------------------
(***************************************************************************)
(* The file protocol, with FileSpec.                                       *)
(***************************************************************************)

(***************************************************************************)
(* Least elements: induction over numbers as a least counterexample.       *)
(***************************************************************************)

\* Every set of natural numbers has a least element.
LEMMA LeastNat == ASSUME NEW S \in SUBSET Nat, S # {} PROVE \E m \in S : \A x \in S : m <= x
  <1> DEFINE R == OpToRel(<, Nat)
  <1>1. IsWellFoundedOn(R, Nat)
    BY NatLessThanWellFounded
  <1>2. \E m \in S : \A y \in S : ~(<<y, m>> \in R)
    <2> HIDE DEF R
    <2> QED BY <1>1, WFMin
  <1>3. PICK m \in S : \A y \in S : ~(<<y, m>> \in R)
    BY <1>2
  <1>4. ASSUME NEW y \in S PROVE m <= y
    <2>1. y \in Nat /\ m \in Nat
      OBVIOUS
    <2>2. ~(<<y, m>> \in R)
      BY <1>3
    <2>3. (y < m) => <<y, m>> \in R
      BY <2>1 DEF OpToRel
    <2>4. ~(y < m)
      BY <2>2, <2>3
    <2> HIDE DEF R
    <2> QED BY <2>1, <2>4
  <1> QED BY <1>4

LEMMA MinIn == ASSUME NEW S \in SUBSET Nat, S # {} PROVE Min(S) \in S /\ \A x \in S : Min(S) <= x
  BY LeastNat DEF Min

(***************************************************************************)
(* Recursive functions over an initial segment: the equations of a chain   *)
(* of steps have a solution, and every solution stays where the steps do.  *)
(***************************************************************************)

\* f goes from a, in D, by the n steps.
Chain(f, n, D, a, step) ==
    /\ f \in [0 .. n -> D] /\ f[0] = a
    /\ \A i \in 1 .. n : f[i] = step[i][f[i - 1]]

LEMMA ChainExists ==
  ASSUME NEW n \in Nat, NEW D, NEW a \in D, NEW step,
         \A i \in 1 .. n : \A x \in D : step[i][x] \in D
  PROVE  \E f : Chain(f, n, D, a, step)
  <1> DEFINE Has(m) == \E f \in [0 .. m -> D] : f[0] = a /\ \A i \in 1 .. m : f[i] = step[i][f[i - 1]]
             Bad == {m \in 0 .. n : ~Has(m)}
  <1>1. Has(0)
    <2> DEFINE f == [i \in 0 .. 0 |-> a]
    <2>1. f \in [0 .. 0 -> D] /\ f[0] = a /\ \A i \in 1 .. 0 : f[i] = step[i][f[i - 1]]
      OBVIOUS
    <2> QED BY <2>1
  <1>2. ASSUME NEW m \in 1 .. n, Has(m - 1) PROVE Has(m)
    <2>1. PICK f \in [0 .. m - 1 -> D] : f[0] = a /\ \A i \in 1 .. m - 1 : f[i] = step[i][f[i - 1]]
      BY <1>2
    <2> DEFINE g == [i \in 0 .. m |-> IF i = m THEN step[m][f[m - 1]] ELSE f[i]]
    <2>2. f[m - 1] \in D
      OBVIOUS
    <2>3. step[m][f[m - 1]] \in D
      BY <2>2
    <2>4. g \in [0 .. m -> D]
      BY <2>3
    <2>5. g[0] = a
      BY <2>1
    <2>6. ASSUME NEW i \in 1 .. m PROVE g[i] = step[i][g[i - 1]]
      <3>1. CASE i = m
        BY <3>1
      <3>2. CASE i # m
        <4>1. i \in 1 .. m - 1 /\ g[i] = f[i] /\ g[i - 1] = f[i - 1]
          BY <3>2
        <4> QED BY <4>1, <2>1
      <3> QED BY <3>1, <3>2
    <2> QED BY <2>4, <2>5, <2>6
  <1>3. ASSUME Bad # {} PROVE FALSE
    <2>1. PICK m \in Bad : \A x \in Bad : m <= x
      <3>1. Bad \in SUBSET Nat
        OBVIOUS
      <3> QED BY <3>1, <1>3, LeastNat
    <2>2. m \in 0 .. n /\ ~Has(m)
      BY <2>1
    <2>3. m # 0
      BY <2>2, <1>1
    <2>4. m \in 1 .. n /\ m - 1 \in 0 .. n
      BY <2>2, <2>3
    <2>5. m - 1 \notin Bad
      <3> HIDE DEF Bad
      <3>1. ~(m <= m - 1)
        BY <2>4
      <3> QED BY <2>1, <3>1
    <2>6. Has(m - 1)
      BY <2>4, <2>5
    <2> QED BY <1>2, <2>2, <2>4, <2>6
  <1> HIDE DEF Has
  <1>4. Has(n)
    BY <1>3
  <1> QED BY <1>4 DEF Has, Chain

LEMMA ChainStays ==
  ASSUME NEW n \in Nat, NEW G, NEW f, f[0] \in G, \A i \in 1 .. n : f[i - 1] \in G => f[i] \in G
  PROVE  \A i \in 0 .. n : f[i] \in G
  <1> DEFINE Bad == {m \in 0 .. n : f[m] \notin G}
  <1>1. ASSUME Bad # {} PROVE FALSE
    <2>1. PICK m \in Bad : \A x \in Bad : m <= x
      <3>1. Bad \in SUBSET Nat
        OBVIOUS
      <3> QED BY <3>1, <1>1, LeastNat
    <2>2. m # 0 /\ m \in 1 .. n /\ m - 1 \in 0 .. n
      OBVIOUS
    <2>3. f[m - 1] \in G
      BY <2>1, <2>2
    <2> QED BY <2>2, <2>3
  <1> QED BY <1>1

(***************************************************************************)
(* Hard links and paths.                                                   *)
(***************************************************************************)
Places == DOMAIN vol.objs \cup {NoObj}

\* What VolumeAssumption says of the volume in use.
LEMMA VolumeFacts ==
  ASSUME vol \in Volumes
  PROVE  /\ DOMAIN vol.objs \subseteq Nat \ {NoObj}
         /\ RootId \in DOMAIN vol.objs /\ Obj(RootId).type = "dir"
         /\ \A o \in DOMAIN vol.objs :
             /\ Obj(o).kids \in Seq(DOMAIN vol.objs)
             /\ Obj(o).parent \in Places
             /\ Obj(o).size \in Nat
             /\ Obj(o).chunks \in Seq([page : Int, nbytes : Nat])
  BY VolumeAssumption DEF Obj, Places

\* A link leads to an object or nowhere.
LEMMA FollowFacts ==
  FollowLink \in [Places -> Places]
  BY DEF FollowLink, Places, IsObj

\* Where a chain of hard links ends.
EndOf(f) == LET end == f[LinkDepth - 1]
            IN  IF end # NoObj /\ Obj(end).type = "link" THEN NoObj ELSE end

\* The chain the code follows, whatever its length.
LEMMA ResolveChain ==
  ASSUME NEW o \in Places
  PROVE  \E f : /\ f[0] = o /\ \A i \in 1 .. LinkDepth - 1 : f[i] = FollowLink[f[i - 1]]
                /\ ResolveHardlinks(o) = EndOf(f)
  <1> DEFINE n == LinkDepth - 1
             Solves(f) == f = [d \in 0 .. LinkDepth - 1 |-> IF d = 0 THEN o ELSE FollowLink[f[d - 1]]]
  <1>1. n \in Nat
    BY FileAssumption
  <1>2. \E f : f \in [0 .. n -> Places] /\ f[0] = o /\ \A i \in 1 .. n : f[i] = FollowLink[f[i - 1]]
    <2> HIDE DEF n
    <2>1. PICK D : D = Places
      OBVIOUS
    <2>2. PICK step : step = [i \in 1 .. n |-> FollowLink]
      OBVIOUS
    <2>3. o \in D /\ \A i \in 1 .. n : step[i] = FollowLink
      BY <2>1, <2>2
    <2>4. \A i \in 1 .. n : \A x \in D : step[i][x] \in D
      BY <2>1, <2>3, FollowFacts
    <2>5. \E f : Chain(f, n, D, o, step)
      BY <1>1, <2>3, <2>4, ChainExists
    <2> QED BY <2>1, <2>3, <2>5 DEF Chain
  <1>3. \E f : Solves(f)
    <2>1. PICK f : f \in [0 .. n -> Places] /\ f[0] = o /\ \A i \in 1 .. n : f[i] = FollowLink[f[i - 1]]
      BY <1>2
    <2>2. ASSUME NEW d \in 0 .. n PROVE f[d] = IF d = 0 THEN o ELSE FollowLink[f[d - 1]]
      BY <2>1, <1>1
    <2>3. f = [d \in 0 .. n |-> IF d = 0 THEN o ELSE FollowLink[f[d - 1]]]
      BY <2>1, <2>2
    <2> QED BY <2>3
  <1> DEFINE hop == CHOOSE f : Solves(f)
  <1>4. Solves(hop)
    BY <1>3
  <1>5. ResolveHardlinks(o) = EndOf(hop)
    BY DEF ResolveHardlinks, EndOf
  <1>6. hop = [d \in 0 .. n |-> IF d = 0 THEN o ELSE FollowLink[hop[d - 1]]]
    BY <1>4
  <1> HIDE DEF n, hop, Solves
  <1>7. hop[0] = o /\ \A i \in 1 .. n : hop[i] = FollowLink[hop[i - 1]]
    <2>1. \A d \in 0 .. n : hop[d] = IF d = 0 THEN o ELSE FollowLink[hop[d - 1]]
      BY <1>6
    <2> QED BY <1>1, <2>1
  <1> QED BY <1>5, <1>7 DEF n

\* What is closed under links keeps the chain that starts in it.
LEMMA ResolveIn ==
  ASSUME NEW o \in Places, NEW G, o \in G, \A x \in G : FollowLink[x] \in G
  PROVE  \E e \in G : ResolveHardlinks(o) = IF e # NoObj /\ Obj(e).type = "link" THEN NoObj ELSE e
  <1> DEFINE n == LinkDepth - 1
  <1>1. n \in Nat
    BY FileAssumption
  <1>2. PICK f : /\ f[0] = o /\ \A i \in 1 .. n : f[i] = FollowLink[f[i - 1]]
                 /\ ResolveHardlinks(o) = EndOf(f)
    BY ResolveChain
  <1>3. EndOf(f) = IF f[n] # NoObj /\ Obj(f[n]).type = "link" THEN NoObj ELSE f[n]
    BY DEF EndOf
  <1> HIDE DEF n
  <1>4. \A i \in 0 .. n : f[i] \in G
    <2>1. f[0] \in G /\ \A i \in 1 .. n : f[i - 1] \in G => f[i] \in G
      BY <1>2
    <2> QED BY <1>1, <2>1, ChainStays
  <1>5. f[n] \in G
    BY <1>1, <1>4
  <1> QED BY <1>2, <1>3, <1>5

\* A resolved object is an object that is no link, or none.
LEMMA ResolveFacts ==
  ASSUME NEW o \in Places
  PROVE  /\ ResolveHardlinks(o) \in Places
         /\ ResolveHardlinks(o) # NoObj => Obj(ResolveHardlinks(o)).type # "link"
  <1>1. PICK D : D = Places
    OBVIOUS
  <1>2. o \in D /\ \A x \in D : FollowLink[x] \in D
    BY <1>1, FollowFacts
  <1>3. PICK e \in D : ResolveHardlinks(o) = IF e # NoObj /\ Obj(e).type = "link" THEN NoObj ELSE e
    BY <1>2, ResolveIn
  <1> QED BY <1>1, <1>3 DEF Places

\* An object that is no link is its own end.
LEMMA ResolvePlain ==
  ASSUME NEW c \in DOMAIN vol.objs, c # NoObj, Obj(c).type # "link"
  PROVE  ResolveHardlinks(c) = c
  <1>1. c \in Places /\ FollowLink[c] = c
    BY DEF Places, FollowLink
  <1>2. PICK e \in {c} : ResolveHardlinks(c) = IF e # NoObj /\ Obj(e).type = "link" THEN NoObj ELSE e
    <2>1. PICK G : G = {c}
      OBVIOUS
    <2>2. c \in G /\ \A x \in G : FollowLink[x] \in G
      BY <1>1, <2>1
    <2>3. \E e \in G : ResolveHardlinks(c) = IF e # NoObj /\ Obj(e).type = "link" THEN NoObj ELSE e
      BY <1>1, <2>2, ResolveIn
    <2> QED BY <2>1, <2>3
  <1> QED BY <1>2

\* A link to what is no link, to itself or to nothing resolves to its target or
\* not at all.
LEMMA ResolveLink ==
  ASSUME NEW c \in DOMAIN vol.objs, c # NoObj, NoObj \notin DOMAIN vol.objs, Obj(c).type = "link",
         IsObj(Obj(c).equiv) => Obj(Obj(c).equiv).type # "link" \/ Obj(c).equiv = c
  PROVE  \/ ResolveHardlinks(c) = NoObj
         \/ IsObj(Obj(c).equiv) /\ ResolveHardlinks(c) = Obj(c).equiv
  <1>1. PICK t : t = IF IsObj(Obj(c).equiv) THEN Obj(c).equiv ELSE NoObj
    OBVIOUS
  <1>2. c \in Places /\ t \in Places
    BY <1>1 DEF Places, IsObj
  <1>3. FollowLink[c] = t
    BY <1>1, <1>2 DEF FollowLink, Places
  <1>4. t = NoObj \/ Obj(t).type # "link" \/ t = c
    BY <1>1
  <1>5. FollowLink[t] = t
    BY <1>2, <1>3, <1>4 DEF FollowLink, Places
  <1>6. PICK e \in {c, t} : ResolveHardlinks(c) = IF e # NoObj /\ Obj(e).type = "link" THEN NoObj ELSE e
    <2>1. c \in {c, t} /\ \A x \in {c, t} : FollowLink[x] \in {c, t}
      BY <1>3, <1>5
    <2> QED BY <1>2, <2>1, ResolveIn
  <1> QED BY <1>1, <1>4, <1>6

\* The first child of a name is a child of that name.
LEMMA ChildFacts ==
  ASSUME vol \in Volumes, NEW o \in DOMAIN vol.objs, NEW part, Matches(o, part) # {}
  PROVE  Min(Matches(o, part)) \in Matches(o, part) /\ Child(o, part) \in DOMAIN vol.objs
  <1>1. Obj(o).kids \in Seq(DOMAIN vol.objs)
    BY VolumeFacts
  <1>2. PICK S : S = Matches(o, part)
    OBVIOUS
  <1>3. S \in SUBSET Nat /\ S # {}
    BY <1>1, <1>2 DEF Matches
  <1>4. Min(S) \in S
    BY <1>3, MinIn
  <1>5. Min(S) \in DOMAIN Obj(o).kids
    BY <1>2, <1>4 DEF Matches
  <1>6. Obj(o).kids[Min(S)] \in DOMAIN vol.objs
    BY <1>1, <1>5
  <1> QED BY <1>2, <1>4, <1>6 DEF Child

\* A step of a path leads to an object or nowhere, and to a link only where an
\* object lies in one.
LEMMA DescendFacts ==
  ASSUME vol \in Volumes, NEW o \in Places, NEW part
  PROVE  /\ Descend(o, part) \in Places
         /\ (/\ ParentsHold(vol) /\ (o # NoObj => Obj(o).type # "link")
             /\ Descend(o, part) # NoObj) => Obj(Descend(o, part)).type # "link"
  <1>1. CASE o = NoObj
    BY <1>1 DEF Descend, Places
  <1>2. CASE o # NoObj /\ part = "."
    BY <1>2 DEF Descend
  <1>3. CASE o # NoObj /\ part = ".."
    <2>1. o \in DOMAIN vol.objs /\ Obj(o).parent \in Places
      BY <1>3, VolumeFacts DEF Places
    <2>2. Descend(o, part) = IF Obj(o).parent # NoObj THEN Obj(o).parent ELSE o
      BY <1>3 DEF Descend
    <2>3. ParentsHold(vol) => (Obj(o).parent # NoObj => Obj(Obj(o).parent).type # "link")
      BY <2>1 DEF ParentsHold, Obj
    <2> QED BY <2>1, <2>2, <2>3 DEF Places
  <1>4. CASE o # NoObj /\ part # "." /\ part # ".."
    <2>1. o \in DOMAIN vol.objs
      BY <1>4 DEF Places
    <2>2. Descend(o, part) = IF Obj(o).type # "dir" \/ Matches(o, part) = {} THEN NoObj
                             ELSE ResolveHardlinks(Child(o, part))
      BY <1>4 DEF Descend
    <2>3. CASE Obj(o).type # "dir" \/ Matches(o, part) = {}
      BY <2>2, <2>3 DEF Places
    <2>4. CASE ~(Obj(o).type # "dir" \/ Matches(o, part) = {})
      <3>1. Child(o, part) \in Places
        BY <2>1, <2>4, ChildFacts DEF Places
      <3>2. PICK c : c = Child(o, part)
        OBVIOUS
      <3> QED BY <2>2, <2>4, <3>1, <3>2, ResolveFacts
    <2> QED BY <2>3, <2>4
  <1> QED BY <1>1, <1>2, <1>3, <1>4

\* The objects a path leads over.
LEMMA WalkChain ==
  ASSUME vol \in Volumes, NEW from, NEW path, Len(path.parts) \in Nat, Base(from, path) \in Places
  PROVE  \E f : /\ f[0] = Base(from, path)
                /\ \A i \in 1 .. Len(path.parts) : f[i] = Descend(f[i - 1], path.parts[i])
                /\ Walk(from, path) = f[Len(path.parts)]
  <1> DEFINE Solves(f) == f = [i \in 0 .. Len(path.parts) |->
                                 IF i = 0 THEN Base(from, path) ELSE Descend(f[i - 1], path.parts[i])]
  <1>1. PICK n \in Nat : n = Len(path.parts)
    OBVIOUS
  <1>2. \E f : /\ f \in [0 .. n -> Places] /\ f[0] = Base(from, path)
               /\ \A i \in 1 .. n : f[i] = Descend(f[i - 1], path.parts[i])
    <2>1. PICK D : D = Places
      OBVIOUS
    <2>2. PICK step : step = [i \in 1 .. n |-> [x \in D |-> Descend(x, path.parts[i])]]
      OBVIOUS
    <2>3. PICK b : b = Base(from, path)
      OBVIOUS
    <2>4. \A i \in 1 .. n : \A x \in D : step[i][x] = Descend(x, path.parts[i])
      BY <2>2
    <2>5. \A i \in 1 .. n : \A x \in D : step[i][x] \in D
      BY <2>1, <2>4, DescendFacts
    <2>6. b \in D
      BY <2>1, <2>3
    <2>7. PICK f : Chain(f, n, D, b, step)
      BY <2>5, <2>6, ChainExists
    <2>8. ASSUME NEW i \in 1 .. n PROVE f[i] = Descend(f[i - 1], path.parts[i])
      <3>1. f[i - 1] \in D /\ f[i] = step[i][f[i - 1]]
        BY <2>7 DEF Chain
      <3> QED BY <2>4, <3>1
    <2> QED BY <2>1, <2>3, <2>7, <2>8 DEF Chain
  <1>3. \E f : Solves(f)
    <2>1. PICK f : /\ f \in [0 .. n -> Places] /\ f[0] = Base(from, path)
                   /\ \A i \in 1 .. n : f[i] = Descend(f[i - 1], path.parts[i])
      BY <1>2
    <2>2. ASSUME NEW i \in 0 .. n
          PROVE f[i] = IF i = 0 THEN Base(from, path) ELSE Descend(f[i - 1], path.parts[i])
      BY <2>1
    <2>3. f = [i \in 0 .. n |-> IF i = 0 THEN Base(from, path) ELSE Descend(f[i - 1], path.parts[i])]
      BY <2>1, <2>2
    <2> QED BY <1>1, <2>3
  <1> DEFINE at == CHOOSE f : Solves(f)
  <1>4. Solves(at)
    BY <1>3
  <1>5. Walk(from, path) = at[Len(path.parts)]
    BY DEF Walk
  <1>6. at = [i \in 0 .. n |-> IF i = 0 THEN Base(from, path) ELSE Descend(at[i - 1], path.parts[i])]
    BY <1>1, <1>4
  <1> HIDE DEF at, Solves
  <1>7. at[0] = Base(from, path) /\ \A i \in 1 .. n : at[i] = Descend(at[i - 1], path.parts[i])
    <2>1. \A i \in 0 .. n : at[i] = IF i = 0 THEN Base(from, path) ELSE Descend(at[i - 1], path.parts[i])
      BY <1>6
    <2> QED BY <2>1
  <1> QED BY <1>1, <1>5, <1>7

\* A path leads to an object or nowhere, and past hard links.
LEMMA WalkFacts ==
  ASSUME vol \in Volumes, NEW from \in DOMAIN vol.objs, NEW path, Len(path.parts) \in Nat
  PROVE  /\ Walk(from, path) \in Places
         /\ (/\ ParentsHold(vol) /\ Obj(from).type # "link" /\ Walk(from, path) # NoObj)
                => Obj(Walk(from, path)).type # "link"
  <1> DEFINE Plain(x) == ParentsHold(vol) /\ Obj(from).type # "link" /\ x # NoObj => Obj(x).type # "link"
  <1>1. Base(from, path) \in Places /\ Plain(Base(from, path))
    <2>1. Obj(from).parent \in Places /\ RootId \in DOMAIN vol.objs /\ Obj(RootId).type = "dir"
      BY VolumeFacts
    <2>2. ParentsHold(vol) => (Obj(from).parent # NoObj => Obj(Obj(from).parent).type # "link")
      BY DEF ParentsHold, Obj
    <2> QED BY <2>1, <2>2 DEF Base, Places
  <1>2. PICK f : /\ f[0] = Base(from, path)
                 /\ \A i \in 1 .. Len(path.parts) : f[i] = Descend(f[i - 1], path.parts[i])
                 /\ Walk(from, path) = f[Len(path.parts)]
    BY <1>1, WalkChain
  <1>3. PICK G : G = {x \in Places : Plain(x)}
    OBVIOUS
  <1>4. PICK n \in Nat : n = Len(path.parts)
    OBVIOUS
  <1>5. \A i \in 0 .. n : f[i] \in G
    <2>1. f[0] \in G
      BY <1>1, <1>2, <1>3
    <2>2. ASSUME NEW i \in 1 .. n, f[i - 1] \in G PROVE f[i] \in G
      <3>1. PICK x : x = f[i - 1]
        OBVIOUS
      <3>2. x \in Places /\ Plain(x)
        BY <1>3, <2>2, <3>1
      <3>3. f[i] = Descend(x, path.parts[i])
        BY <1>2, <1>4, <3>1
      <3>4. PICK part : part = path.parts[i]
        OBVIOUS
      <3>5. Descend(x, part) \in Places /\ Plain(Descend(x, part))
        BY <3>2, DescendFacts
      <3> QED BY <1>3, <3>3, <3>4, <3>5
    <2> QED BY <2>1, <2>2, ChainStays
  <1>6. Walk(from, path) \in G
    BY <1>2, <1>4, <1>5
  <1> QED BY <1>3, <1>6

\* A path of one name from a directory.
LEMMA WalkOne ==
  ASSUME vol \in Volumes, NEW from \in DOMAIN vol.objs, Obj(from).type = "dir", NEW name
  PROVE  Walk(from, [absolute |-> FALSE, parts |-> <<name>>]) = Descend(from, name)
  <1>1. PICK path : path = [absolute |-> FALSE, parts |-> <<name>>]
    OBVIOUS
  <1>2. Len(path.parts) = 1 /\ path.parts[1] = name /\ Base(from, path) = from
    BY <1>1 DEF Base
  <1>3. Base(from, path) \in Places
    BY <1>2 DEF Places
  <1>4. PICK f : /\ f[0] = Base(from, path)
                 /\ \A i \in 1 .. Len(path.parts) : f[i] = Descend(f[i - 1], path.parts[i])
                 /\ Walk(from, path) = f[Len(path.parts)]
    BY <1>2, <1>3, WalkChain
  <1>5. f[1] = Descend(f[0], name)
    BY <1>2, <1>4
  <1> QED BY <1>1, <1>2, <1>4, <1>5

(***************************************************************************)
(* The inductive invariant.  A handle is closed or on an object of the     *)
(* volume with its cursor among the children; what was shown is what lies  *)
(* before the cursor; the bytes gathered so far are the file's, and no     *)
(* more than were asked for and are there.                                 *)
(***************************************************************************)
Byte == Int \X Int

OnObject(v, x) ==
    /\ v \in Volumes /\ x.obj \in DOMAIN v.objs
    /\ ParentsHold(v) => v.objs[x.obj].type # "link"
    /\ x.cursor \in 0 .. Len(v.objs[x.obj].kids) + 1
    /\ v.objs[x.obj].type = "dir" => x.cursor >= 1

HandlesOK ==
    /\ vol \in Volumes \cup {NoVol}
    /\ handle \in [Handles -> [obj : Nat, pos : Nat, cursor : Nat]]
    /\ \A h \in Handles : handle[h] = Closed \/ OnObject(vol, handle[h])

ShownBefore(x) ==
    IF x # Closed /\ Obj(x.obj).type = "dir"
    THEN [i \in 1 .. x.cursor - 1 |-> Shown(Obj(x.obj).kids[i])] ELSE <<>>

ListedOK == listed = [h \in Handles |-> ShownBefore(handle[h])]

RightBytes(o, from, buf) == \A k \in 1 .. Len(buf) : buf[k] = Content(o, from + k - 1)

JobOK ==
    ~Ready =>
        /\ job \in [h : Handles, asked : Nat, len : Nat, buf : Seq(Byte)]
        /\ OnObject(vol, handle[job.h]) /\ Obj(handle[job.h].obj).type # "dir"
        /\ handle[job.h].pos < Obj(handle[job.h].obj).size
        /\ job.len = Least(job.asked, Obj(handle[job.h].obj).size - handle[job.h].pos)
        /\ Len(job.buf) <= job.len
        /\ RightBytes(handle[job.h].obj, handle[job.h].pos, job.buf)

ResultOK ==
    result # Idle =>
        /\ result.h \in Handles
        /\ handle[result.h].obj \in DOMAIN vol.objs

FileInd == HandlesOK /\ ListedOK /\ JobOK /\ ResultOK /\ ReadIsContent

\* No volume is not a volume.
LEMMA NoVolume == NoVol \notin Volumes
  <1>1. DOMAIN NoVol.objs = {}
    BY DEF NoVol
  <1>2. \A v \in Volumes : RootId \in DOMAIN v.objs
    BY VolumeAssumption
  <1> QED BY <1>1, <1>2

\* An open handle is on an object.
LEMMA OpenFacts ==
  ASSUME HandlesOK, NEW h \in Handles
  PROVE  /\ IsOpen(h) => OnObject(vol, handle[h])
         /\ handle[h].obj \in DOMAIN vol.objs => OnObject(vol, handle[h])
         /\ OnObject(vol, handle[h]) => /\ vol \in Volumes /\ handle[h].obj \in DOMAIN vol.objs
                                        /\ handle[h].obj # NoObj /\ IsOpen(h)
  <1>1. vol \in Volumes => NoObj \notin DOMAIN vol.objs
    BY VolumeFacts
  <1>2. vol = NoVol => DOMAIN vol.objs = {}
    BY DEF NoVol
  <1>3. Closed.obj = NoObj
    BY DEF Closed
  <1>4. vol \in Volumes \/ vol = NoVol
    BY DEF HandlesOK
  <1>5. handle[h] = Closed \/ OnObject(vol, handle[h])
    BY DEF HandlesOK
  <1>6. OnObject(vol, handle[h]) => vol \in Volumes /\ handle[h].obj \in DOMAIN vol.objs
    BY DEF OnObject
  <1> QED BY <1>1, <1>2, <1>3, <1>4, <1>5, <1>6 DEF IsOpen

\* While the volume stays, so do its bytes and what it shows.
LEMMA SameVolume ==
  ASSUME vol' = vol
  PROVE  /\ \A o : Obj(o)' = Obj(o) /\ Shown(o)' = Shown(o)
         /\ \A o, i : Content(o, i)' = Content(o, i)
         /\ \A x : ShownBefore(x)' = ShownBefore(x)
  <1>1. \A o : Obj(o)' = Obj(o)
    BY DEF Obj
  <1>2. \A o : Shown(o)' = Shown(o)
    BY DEF Obj, Shown, Info, IsObj
  <1>3. \A o, i : Content(o, i)' = Content(o, i)
    BY DEF Obj, Content
  <1>4. \A x : ShownBefore(x)' = ShownBefore(x)
    BY DEF ShownBefore, Obj, Shown, Info, IsObj
  <1> QED BY <1>1, <1>2, <1>3, <1>4

\* A result stays right while its handle stays on its object.
LEMMA ResultFrame ==
  ASSUME FileInd, vol' = vol, result' = result,
         \A g \in Handles : handle[g].obj \in DOMAIN vol.objs => handle'[g].obj = handle[g].obj
  PROVE  (ResultOK /\ ReadIsContent)'
  <1>1. CASE result = Idle
    BY <1>1 DEF ResultOK, ReadIsContent
  <1>2. CASE result # Idle
    <2>1. result.h \in Handles /\ handle[result.h].obj \in DOMAIN vol.objs
      BY <1>2 DEF FileInd, ResultOK
    <2>2. handle'[result.h].obj = handle[result.h].obj
      BY <2>1
    <2>3. ResultOK'
      BY <2>1, <2>2 DEF ResultOK
    <2>4. PICK o : o = handle[result.h].obj
      OBVIOUS
    <2>5. (Obj(o) = Obj(o)') /\ \A i : Content(o, i)' = Content(o, i)
      BY SameVolume
    <2>6. ReadIsContent
      BY DEF FileInd
    <2>7. ReadIsContent'
      BY <1>2, <2>2, <2>4, <2>5, <2>6 DEF ReadIsContent
    <2> QED BY <2>3, <2>7
  <1> QED BY <1>1, <1>2

(***************************************************************************)
(* The steps.                                                              *)
(***************************************************************************)

LEMMA InitStep == ASSUME FileInit PROVE FileInd
  <1>1. HandlesOK
    BY DEF FileInit, HandlesOK, Closed, NoObj
  <1>2. ListedOK
    BY DEF FileInit, ListedOK, ShownBefore
  <1>3. JobOK
    BY DEF FileInit, JobOK, Ready
  <1>4. ResultOK /\ ReadIsContent
    BY DEF FileInit, ResultOK, ReadIsContent
  <1> QED BY <1>1, <1>2, <1>3, <1>4 DEF FileInd

LEMMA StartStep == ASSUME FileInd, NEW v \in Volumes, Start(v) PROVE FileInd'
  <1>1. /\ vol = NoVol /\ job = NoJob /\ vol' = v
        /\ handle' = handle /\ job' = job /\ result' = result /\ listed' = listed
    BY DEF Start, Ready
  <1>2. \A h \in Handles : handle[h] = Closed
    BY <1>1, NoVolume DEF FileInd, HandlesOK, OnObject
  <1>3. HandlesOK'
    BY <1>1, <1>2 DEF FileInd, HandlesOK
  <1>4. ListedOK'
    BY <1>1, <1>2 DEF FileInd, ListedOK, ShownBefore
  <1>5. JobOK'
    BY <1>1 DEF JobOK, Ready
  <1>6. result = Idle
    BY <1>1 DEF FileInd, ResultOK, NoVol
  <1>7. ResultOK' /\ ReadIsContent'
    BY <1>1, <1>6 DEF ResultOK, ReadIsContent
  <1> QED BY <1>3, <1>4, <1>5, <1>7 DEF FileInd

LEMMA StopStep == ASSUME FileInd, Stop PROVE FileInd'
  <1>1. /\ job = NoJob /\ vol' = NoVol /\ \A h \in Handles : handle[h] = Closed
        /\ handle' = handle /\ job' = job /\ result' = Idle /\ listed' = listed
    BY DEF Stop, Ready, IsOpen
  <1>2. HandlesOK'
    BY <1>1 DEF FileInd, HandlesOK
  <1>3. ListedOK'
    BY <1>1 DEF FileInd, ListedOK, ShownBefore
  <1>4. JobOK'
    BY <1>1 DEF JobOK, Ready
  <1>5. ResultOK' /\ ReadIsContent'
    BY <1>1 DEF ResultOK, ReadIsContent
  <1> QED BY <1>2, <1>3, <1>4, <1>5 DEF FileInd

\* A call that leaves one handle as x.
LEMMA HandleStep ==
  ASSUME FileInd, vol' = vol, NEW h \in Handles,
         NEW x \in [obj : Nat, pos : Nat, cursor : Nat], x = Closed \/ OnObject(vol, x),
         handle' = [handle EXCEPT ![h] = x], listed' = [listed EXCEPT ![h] = ShownBefore(x)]
  PROVE  (HandlesOK /\ ListedOK)'
  <1>1. HandlesOK /\ ListedOK
    BY DEF FileInd
  <1>2. handle' \in [Handles -> [obj : Nat, pos : Nat, cursor : Nat]]
    BY <1>1 DEF HandlesOK
  <1>3. \A g \in Handles : handle'[g] = IF g = h THEN x ELSE handle[g]
    BY <1>1 DEF HandlesOK
  <1>4. \A g \in Handles : handle'[g] = Closed \/ OnObject(vol', handle'[g])
    BY <1>1, <1>3 DEF HandlesOK
  <1>5. HandlesOK'
    BY <1>1, <1>2, <1>4 DEF HandlesOK
  <1>6. listed' = [g \in Handles |-> ShownBefore(handle'[g])]
    BY <1>1, <1>3 DEF ListedOK
  <1>7. ASSUME NEW g \in Handles PROVE ShownBefore(handle[g])' = ShownBefore(handle'[g])
    <2>1. PICK y : y = handle'[g]
      OBVIOUS
    <2>2. ShownBefore(y)' = ShownBefore(y)
      BY SameVolume
    <2> QED BY <2>1, <2>2 DEF ShownBefore
  <1>8. ListedOK'
    BY <1>6, <1>7 DEF ListedOK
  <1> QED BY <1>5, <1>8

\* The same record with another position, or with another cursor too.
LEMMA HandlePos ==
  ASSUME HandlesOK, NEW h \in Handles, NEW p \in Nat
  PROVE  [handle EXCEPT ![h].pos = p] =
             [handle EXCEPT ![h] = [obj |-> handle[h].obj, pos |-> p, cursor |-> handle[h].cursor]]
  <1>1. handle \in [Handles -> [obj : Nat, pos : Nat, cursor : Nat]]
    BY DEF HandlesOK
  <1>2. handle[h] \in [obj : Nat, pos : Nat, cursor : Nat]
    BY <1>1
  <1>3. [handle[h] EXCEPT !.pos = p] = [obj |-> handle[h].obj, pos |-> p, cursor |-> handle[h].cursor]
    BY <1>2
  <1>4. [handle EXCEPT ![h].pos = p] = [handle EXCEPT ![h] = [handle[h] EXCEPT !.pos = p]]
    BY <1>1
  <1> QED BY <1>3, <1>4

LEMMA HandleMoved ==
  ASSUME HandlesOK, NEW h \in Handles, NEW p \in Nat, NEW c \in Nat
  PROVE  [handle EXCEPT ![h].cursor = c, ![h].pos = p] =
             [handle EXCEPT ![h] = [obj |-> handle[h].obj, pos |-> p, cursor |-> c]]
  <1>1. handle \in [Handles -> [obj : Nat, pos : Nat, cursor : Nat]]
    BY DEF HandlesOK
  <1>2. handle[h] \in [obj : Nat, pos : Nat, cursor : Nat]
    BY <1>1
  <1>3. [[handle[h] EXCEPT !.cursor = c] EXCEPT !.pos = p] = [obj |-> handle[h].obj, pos |-> p, cursor |-> c]
    <2>1. PICK r : r = [handle[h] EXCEPT !.cursor = c]
      OBVIOUS
    <2>2. r = [obj |-> handle[h].obj, pos |-> handle[h].pos, cursor |-> c]
      BY <1>2, <2>1
    <2>3. r \in [obj : Nat, pos : Nat, cursor : Nat] /\ r.obj = handle[h].obj /\ r.cursor = c
      BY <1>2, <2>2
    <2>4. [r EXCEPT !.pos = p] = [obj |-> handle[h].obj, pos |-> p, cursor |-> c]
      BY <2>3
    <2> QED BY <2>1, <2>4
  <1>4. [handle EXCEPT ![h].cursor = c, ![h].pos = p]
            = [handle EXCEPT ![h] = [[handle[h] EXCEPT !.cursor = c] EXCEPT !.pos = p]]
    BY <1>1
  <1> QED BY <1>3, <1>4

\* A handle newly opened on an object.
LEMMA AssignStep ==
  ASSUME FileInd, Ready, UNCHANGED <<vol, job, result>>, NEW h \in Handles, ~IsOpen(h),
         vol \in Volumes, NEW o \in DOMAIN vol.objs, ParentsHold(vol) => Obj(o).type # "link",
         Assign(h, o)
  PROVE  FileInd'
  <1>1. PICK x : x = [obj |-> o, pos |-> 0, cursor |-> IF Obj(o).type = "dir" THEN 1 ELSE 0]
    OBVIOUS
  <1>2. o \in Nat /\ Obj(o).kids \in Seq(DOMAIN vol.objs)
    BY VolumeFacts
  <1>3. x \in [obj : Nat, pos : Nat, cursor : Nat]
    BY <1>1, <1>2
  <1>4. OnObject(vol, x)
    BY <1>1, <1>2 DEF OnObject, Obj
  <1>5. ShownBefore(x) = <<>>
    BY <1>1 DEF ShownBefore
  <1>6. handle' = [handle EXCEPT ![h] = x] /\ listed' = [listed EXCEPT ![h] = ShownBefore(x)]
    BY <1>1, <1>5 DEF Assign
  <1>7. HandlesOK' /\ ListedOK'
    BY <1>3, <1>4, <1>6, HandleStep
  <1>8. JobOK'
    BY DEF JobOK, Ready
  <1>9. ASSUME NEW g \in Handles, handle[g].obj \in DOMAIN vol.objs
        PROVE  handle'[g].obj = handle[g].obj
    <2>1. g # h
      BY <1>9, OpenFacts DEF FileInd
    <2> QED BY <2>1, <1>6 DEF FileInd, HandlesOK
  <1>10. ResultOK' /\ ReadIsContent'
    BY <1>9, ResultFrame
  <1> QED BY <1>7, <1>8, <1>10 DEF FileInd

LEMMA OpenVolumeStep == ASSUME FileInd, NEW h \in Handles, OpenVolume(h) PROVE FileInd'
  <1>1. vol \in Volumes
    BY DEF FileInd, HandlesOK, OpenVolume
  <1>2. RootId \in DOMAIN vol.objs /\ Obj(RootId).type = "dir"
    BY <1>1, VolumeFacts
  <1>3. Ready /\ ~IsOpen(h) /\ Assign(h, RootId) /\ UNCHANGED <<vol, job, result>>
    BY DEF OpenVolume
  <1>4. PICK o : o = RootId
    OBVIOUS
  <1> QED BY <1>1, <1>2, <1>3, <1>4, AssignStep

LEMMA OpenStep ==
  ASSUME FileInd, NEW h \in Handles, NEW g \in Handles, NEW p \in Paths, Open(h, g, p)
  PROVE  FileInd'
  <1>1. IsOpen(h) /\ ~IsOpen(g) /\ Ready /\ UNCHANGED <<vol, job, result>>
    BY DEF Open
  <1>2. OnObject(vol, handle[h])
    BY <1>1, OpenFacts DEF FileInd
  <1>3. PICK from : from = handle[h].obj
    OBVIOUS
  <1>4. vol \in Volumes /\ from \in DOMAIN vol.objs /\ (ParentsHold(vol) => Obj(from).type # "link")
    BY <1>2, <1>3 DEF OnObject, Obj
  <1>5. PICK o : o = Walk(from, p)
    OBVIOUS
  <1>6. o # NoObj /\ Assign(g, o)
    BY <1>3, <1>5 DEF Open, Assign
  <1>7. Len(p.parts) \in Nat
    BY FileAssumption
  <1>8. o \in Places /\ (ParentsHold(vol) => Obj(o).type # "link")
    BY <1>4, <1>5, <1>6, <1>7, WalkFacts
  <1>9. o \in DOMAIN vol.objs
    BY <1>6, <1>8 DEF Places
  <1> QED BY <1>1, <1>4, <1>6, <1>8, <1>9, AssignStep

LEMMA CloseStep == ASSUME FileInd, NEW h \in Handles, Close(h) PROVE FileInd'
  <1>1. /\ handle' = [handle EXCEPT ![h] = Closed] /\ listed' = [listed EXCEPT ![h] = <<>>]
        /\ vol' = vol /\ job' = job /\ job = NoJob
        /\ result' = IF result # Idle /\ result.h = h THEN Idle ELSE result
    BY DEF Close, Ready
  <1>2. Closed \in [obj : Nat, pos : Nat, cursor : Nat] /\ ShownBefore(Closed) = <<>>
    BY DEF Closed, ShownBefore, NoObj
  <1>3. HandlesOK' /\ ListedOK'
    BY <1>1, <1>2, HandleStep
  <1>4. JobOK'
    BY <1>1 DEF JobOK, Ready
  <1>5. ResultOK' /\ ReadIsContent'
    <2>1. CASE result' = Idle
      BY <2>1 DEF ResultOK, ReadIsContent
    <2>2. CASE result' # Idle
      <3>1. result' = result /\ result # Idle /\ result.h # h
        BY <1>1, <2>2
      <3>2. result.h \in Handles /\ handle[result.h].obj \in DOMAIN vol.objs
        BY <3>1 DEF FileInd, ResultOK
      <3>3. handle'[result.h] = handle[result.h]
        BY <1>1, <3>1, <3>2 DEF FileInd, HandlesOK
      <3>4. ResultOK'
        BY <1>1, <3>1, <3>2, <3>3 DEF ResultOK
      <3>5. PICK o : o = handle[result.h].obj
        OBVIOUS
      <3>6. (Obj(o) = Obj(o)') /\ \A i : Content(o, i)' = Content(o, i)
        BY <1>1, SameVolume
      <3>7. ReadIsContent
        BY DEF FileInd
      <3>8. ReadIsContent'
        BY <3>1, <3>3, <3>5, <3>6, <3>7 DEF ReadIsContent
      <3> QED BY <3>4, <3>8
    <2> QED BY <2>1, <2>2
  <1> QED BY <1>3, <1>4, <1>5 DEF FileInd

\* One more child.
LEMMA ShownNext ==
  ASSUME NEW c \in Nat \ {0}, NEW G
  PROVE  Append([i \in 1 .. c - 1 |-> G[i]], G[c]) = [i \in 1 .. c |-> G[i]]
  <1> DEFINE s == [i \in 1 .. c - 1 |-> G[i]]
  <1>1. s \in Seq({G[i] : i \in 1 .. c}) /\ Len(s) = c - 1 /\ \A i \in 1 .. c - 1 : s[i] = G[i]
    OBVIOUS
  <1>2. G[c] \in {G[i] : i \in 1 .. c}
    OBVIOUS
  <1> HIDE DEF s
  <1>3. /\ Append(s, G[c]) \in Seq({G[i] : i \in 1 .. c}) /\ Len(Append(s, G[c])) = c
        /\ \A i \in 1 .. c : Append(s, G[c])[i] = G[i]
    BY <1>1, <1>2
  <1>4. Append(s, G[c]) = [i \in 1 .. c |-> G[i]]
    BY <1>3
  <1> QED BY <1>4 DEF s

LEMMA ReadDirStep ==
  ASSUME FileInd, NEW h \in Handles, NEW fits \in BOOLEAN, ReadDir(h, fits) PROVE FileInd'
  <1>1. /\ job = NoJob /\ IsOpen(h) /\ vol' = vol /\ job' = job /\ result' = result
        /\ Obj(handle[h].obj).type = "dir" /\ handle[h].cursor <= Len(Obj(handle[h].obj).kids)
    BY DEF ReadDir, Ready
  <1>2. HandlesOK /\ ListedOK
    BY DEF FileInd
  <1>3. OnObject(vol, handle[h]) /\ handle[h].obj # NoObj
    BY <1>1, <1>2, OpenFacts
  <1>4. handle[h] \in [obj : Nat, pos : Nat, cursor : Nat]
    BY <1>2 DEF HandlesOK
  <1>5. PICK o \in Nat : o = handle[h].obj
    BY <1>4
  <1>6. PICK c \in Nat : c = handle[h].cursor
    BY <1>4
  <1>7. PICK p \in Nat : p = handle[h].pos
    BY <1>4
  <1>8. vol \in Volumes /\ o \in DOMAIN vol.objs /\ c >= 1 /\ c <= Len(Obj(o).kids)
    BY <1>1, <1>3, <1>5, <1>6 DEF OnObject, Obj
  <1>9. Obj(o).kids \in Seq(DOMAIN vol.objs)
    BY <1>8, VolumeFacts
  <1>10. PICK x : x = [obj |-> o, pos |-> p + 1, cursor |-> c + 1]
    OBVIOUS
  <1>11. /\ x \in [obj : Nat, pos : Nat, cursor : Nat] /\ x.obj = o /\ x.cursor = c + 1 /\ x # Closed
    BY <1>3, <1>5, <1>10 DEF Closed
  <1>12. OnObject(vol, x)
    BY <1>3, <1>5, <1>8, <1>9, <1>11 DEF OnObject, Obj
  <1>13. JobOK'
    BY <1>1 DEF JobOK, Ready
  <1>14. CASE ~fits
    <2>1. handle' = handle /\ listed' = listed
      BY <1>14 DEF ReadDir
    <2>2. HandlesOK'
      BY <1>1, <1>2, <2>1 DEF HandlesOK
    <2>3. ListedOK'
      BY <1>1, <1>2, <2>1 DEF ListedOK, ShownBefore, Obj, Shown, Info, IsObj
    <2>4. ResultOK' /\ ReadIsContent'
      BY <1>1, <2>1, ResultFrame
    <2> QED BY <1>13, <2>2, <2>3, <2>4 DEF FileInd
  <1>15. CASE fits
    <2>1. handle' = [handle EXCEPT ![h] = x]
      <3>1. handle' = [handle EXCEPT ![h].cursor = c + 1, ![h].pos = p + 1]
        <4>1. handle' = [handle EXCEPT ![h].cursor = @ + 1, ![h].pos = @ + 1]
          BY <1>15 DEF ReadDir
        <4>2. handle \in [Handles -> [obj : Nat, pos : Nat, cursor : Nat]]
          BY <1>2 DEF HandlesOK
        <4>3. [handle EXCEPT ![h].cursor = @ + 1][h].pos = p
          BY <4>2, <1>7
        <4>4. handle' = [[handle EXCEPT ![h].cursor = handle[h].cursor + 1] EXCEPT ![h].pos = @ + 1]
          BY <4>1
        <4> QED BY <4>3, <4>4, <1>6
      <3>2. c + 1 \in Nat /\ p + 1 \in Nat
        OBVIOUS
      <3>3. [handle EXCEPT ![h].cursor = c + 1, ![h].pos = p + 1] =
                [handle EXCEPT ![h] = [obj |-> handle[h].obj, pos |-> p + 1, cursor |-> c + 1]]
        <4>1. PICK cc \in Nat : cc = c + 1
          BY <3>2
        <4>2. PICK pp \in Nat : pp = p + 1
          BY <3>2
        <4>3. [handle EXCEPT ![h].cursor = cc, ![h].pos = pp] =
                  [handle EXCEPT ![h] = [obj |-> handle[h].obj, pos |-> pp, cursor |-> cc]]
          BY <1>2, HandleMoved
        <4> QED BY <4>1, <4>2, <4>3
      <3> QED BY <3>1, <3>3, <1>5, <1>10
    <2>2. listed[h] = [i \in 1 .. c - 1 |-> Shown(Obj(o).kids[i])]
      BY <1>1, <1>2, <1>5, <1>6 DEF ListedOK, ShownBefore, IsOpen
    <2>3. PICK G : G = [i \in 1 .. Len(Obj(o).kids) |-> Shown(Obj(o).kids[i])]
      OBVIOUS
    <2>4. \A i \in 1 .. c : G[i] = Shown(Obj(o).kids[i])
      BY <2>3, <1>8, <1>9
    <2>5. listed[h] = [i \in 1 .. c - 1 |-> G[i]]
      BY <2>2, <2>4
    <2>6. ShownBefore(x) = [i \in 1 .. c |-> G[i]]
      BY <1>1, <1>5, <1>11, <2>4 DEF ShownBefore
    <2>7. Append(listed[h], G[c]) = ShownBefore(x)
      BY <1>8, <2>5, <2>6, ShownNext
    <2>8. listed' = [listed EXCEPT ![h] = Append(listed[h], G[c])]
      BY <1>5, <1>6, <1>8, <1>15, <2>4 DEF ReadDir
    <2>9. HandlesOK' /\ ListedOK'
      BY <1>1, <1>11, <1>12, <2>1, <2>7, <2>8, HandleStep
    <2>10. \A g \in Handles : handle'[g].obj = handle[g].obj
      BY <1>2, <1>5, <1>11, <2>1 DEF HandlesOK
    <2>11. ResultOK' /\ ReadIsContent'
      BY <1>1, <2>10, ResultFrame
    <2> QED BY <1>13, <2>9, <2>11 DEF FileInd
  <1> QED BY <1>14, <1>15

LEMMA SetPositionStep ==
  ASSUME FileInd, NEW h \in Handles, NEW p \in Positions \cup {EndPos}, SetPosition(h, p) PROVE FileInd'
  <1>1. job = NoJob /\ IsOpen(h) /\ vol' = vol /\ job' = job /\ result' = result
    BY DEF SetPosition, Ready
  <1>2. HandlesOK /\ ListedOK
    BY DEF FileInd
  <1>3. OnObject(vol, handle[h]) /\ handle[h].obj # NoObj
    BY <1>1, <1>2, OpenFacts
  <1>4. handle[h] \in [obj : Nat, pos : Nat, cursor : Nat]
    BY <1>2 DEF HandlesOK
  <1>5. PICK o \in Nat : o = handle[h].obj
    BY <1>4
  <1>6. vol \in Volumes /\ o \in DOMAIN vol.objs /\ Obj(o).size \in Nat /\ Obj(o).kids \in Seq(DOMAIN vol.objs)
    BY <1>3, <1>5, VolumeFacts DEF OnObject
  <1>7. JobOK'
    BY <1>1 DEF JobOK, Ready
  <1>8. ASSUME NEW x \in [obj : Nat, pos : Nat, cursor : Nat], x.obj = o, OnObject(vol, x),
               handle' = [handle EXCEPT ![h] = x], listed' = [listed EXCEPT ![h] = ShownBefore(x)]
        PROVE  FileInd'
    <2>1. HandlesOK' /\ ListedOK'
      BY <1>1, <1>8, HandleStep
    <2>2. \A g \in Handles : handle'[g].obj = handle[g].obj
      BY <1>2, <1>5, <1>8 DEF HandlesOK
    <2>3. ResultOK' /\ ReadIsContent'
      BY <1>1, <2>2, ResultFrame
    <2> QED BY <1>7, <2>1, <2>3 DEF FileInd
  <1>9. CASE Obj(o).type = "dir"
    <2>1. PICK x : x = [obj |-> o, pos |-> 0, cursor |-> 1]
      OBVIOUS
    <2>2. x \in [obj : Nat, pos : Nat, cursor : Nat] /\ x.obj = o /\ x.cursor = 1
      BY <2>1
    <2>3. OnObject(vol, x)
      BY <1>3, <1>5, <1>6, <2>2 DEF OnObject, Obj
    <2>4. ShownBefore(x) = <<>>
      BY <2>2 DEF ShownBefore
    <2>5. handle' = [handle EXCEPT ![h].cursor = 1, ![h].pos = 0] /\ listed' = [listed EXCEPT ![h] = <<>>]
      BY <1>5, <1>9 DEF SetPosition
    <2>6. handle' = [handle EXCEPT ![h] = x]
      <3>1. 0 \in Nat /\ 1 \in Nat
        OBVIOUS
      <3>2. [handle EXCEPT ![h].cursor = 1, ![h].pos = 0] =
                [handle EXCEPT ![h] = [obj |-> handle[h].obj, pos |-> 0, cursor |-> 1]]
        BY <3>1, <1>2, HandleMoved
      <3> QED BY <3>2, <1>5, <2>1, <2>5
    <2> QED BY <1>8, <2>2, <2>3, <2>4, <2>5, <2>6
  <1>10. CASE Obj(o).type # "dir"
    <2>1. PICK q : q = IF p = EndPos THEN Obj(o).size ELSE p
      OBVIOUS
    <2>2. q \in Nat
      <3>1. p = EndPos \/ p \in Nat
        BY FileAssumption
      <3>2. Obj(o).size \in Nat
        BY <1>6
      <3> QED BY <3>1, <3>2, <2>1
    <2>3. PICK x : x = [obj |-> o, pos |-> q, cursor |-> handle[h].cursor]
      OBVIOUS
    <2>4. x \in [obj : Nat, pos : Nat, cursor : Nat] /\ x.obj = o /\ x.cursor = handle[h].cursor
      BY <1>4, <2>2, <2>3
    <2>5. OnObject(vol, x)
      BY <1>3, <1>5, <2>4 DEF OnObject
    <2>6. ShownBefore(x) = <<>> /\ ShownBefore(handle[h]) = <<>>
      BY <1>5, <1>10, <2>4 DEF ShownBefore
    <2>7. listed' = [listed EXCEPT ![h] = ShownBefore(x)]
      BY <1>2, <1>5, <1>10, <2>6 DEF SetPosition, ListedOK
    <2>8. handle' = [handle EXCEPT ![h].pos = q]
      BY <1>5, <1>10, <2>1 DEF SetPosition
    <2>9. handle' = [handle EXCEPT ![h] = x]
      BY <1>2, <1>5, <2>2, <2>3, <2>8, HandlePos
    <2> QED BY <1>8, <2>4, <2>5, <2>7, <2>9
  <1> QED BY <1>9, <1>10

(***************************************************************************)
(* Reads.                                                                  *)
(***************************************************************************)

\* Quotient and remainder, and that there is only one of each.
LEMMA DivMod == ASSUME NEW N \in Nat \ {0}, NEW x \in Nat
                PROVE  /\ x \div N \in Nat /\ x % N \in 0 .. N - 1
                       /\ x = N * (x \div N) + (x % N)
  <1> DEFINE q == x \div N
             r == x % N
  <1>1. q \in Nat
    OBVIOUS
  <1>2. r \in 0 .. N - 1
    OBVIOUS
  <1>3. r = x - N * q
    OBVIOUS
  <1> HIDE DEF q, r
  <1>4. N * q \in Nat
    BY <1>1
  <1>5. x = N * q + r
    BY <1>2, <1>3, <1>4
  <1>6. x = N * (x \div N) + (x % N)
    BY <1>5 DEF q, r
  <1>7. x \div N \in Nat
    BY <1>1 DEF q
  <1>8. x % N \in 0 .. N - 1
    BY <1>2 DEF r
  <1> QED BY <1>6, <1>7, <1>8, Zenon

\* Positions inside a page.
LEMMA SamePage ==
  ASSUME NEW N \in Nat \ {0}, NEW x \in Nat, NEW t \in Nat, (x % N) + t < N
  PROVE  (x + t) \div N = x \div N /\ (x + t) % N = (x % N) + t
  <1> DEFINE q == x \div N
             r == x % N
             p == (x + t) \div N
             s == (x + t) % N
  <1>1. q \in Nat /\ r \in 0 .. N - 1 /\ x = N * q + r
    BY DivMod
  <1>2. p \in Nat /\ s \in 0 .. N - 1 /\ x + t = N * p + s
    <2>1. PICK y \in Nat : y = x + t
      OBVIOUS
    <2>2. y \div N \in Nat /\ y % N \in 0 .. N - 1 /\ y = N * (y \div N) + (y % N)
      BY DivMod
    <2> QED BY <2>1, <2>2
  <1>3. r + t < N
    OBVIOUS
  <1> HIDE DEF q, r, p, s
  <1>4. PICK d \in Int : d = p - q
    BY <1>1, <1>2
  <1>5. N * d = N * p - N * q
    BY <1>1, <1>2, <1>4
  <1>6. N * p \in Nat /\ N * q \in Nat
    BY <1>1, <1>2
  <1>7. N * d = r + t - s
    BY <1>1, <1>2, <1>5, <1>6
  <1>8. N * d < N /\ -N < N * d
    BY <1>1, <1>2, <1>3, <1>7
  <1>9. d >= 1 => N * d >= N
    BY <1>4
  <1>10. d <= -1 => N * d <= -N
    BY <1>4
  <1>11. d = 0
    BY <1>4, <1>8, <1>9, <1>10
  <1>12. p = q /\ s = r + t
    BY <1>1, <1>2, <1>4, <1>7, <1>11
  <1> QED BY <1>12 DEF p, q, r, s

\* The bytes that one page, or a hole, contributes are the file's.
PieceAt(o, at, n) ==
    LET slot   == at \div DataPerPage
        mapped == slot < Len(Obj(o).chunks) /\ Obj(o).chunks[slot + 1].page # ChunkUnset
    IN  IF mapped THEN Piece(Obj(o).chunks[slot + 1], at % DataPerPage, n) ELSE [k \in 1 .. n |-> Hole]

LEMMA PieceFacts ==
  ASSUME vol \in Volumes, NEW o \in DOMAIN vol.objs, NEW at \in Nat, NEW n \in Nat,
         (at % DataPerPage) + n <= DataPerPage, NEW piece, piece = PieceAt(o, at, n)
  PROVE  /\ piece \in Seq(Byte) /\ Len(piece) = n
         /\ \A j \in 1 .. n : piece[j] = Content(o, at + j - 1)
  <1>1. PICK slot \in Nat : slot = at \div DataPerPage
    BY FileAssumption
  <1>2. PICK off \in Nat : off = at % DataPerPage
    BY FileAssumption
  <1>3. Obj(o).chunks \in Seq([page : Int, nbytes : Nat])
    BY VolumeFacts
  <1>4. ASSUME NEW j \in 1 .. n
        PROVE  (at + j - 1) \div DataPerPage = slot /\ (at + j - 1) % DataPerPage = off + j - 1
    <2>1. PICK t \in Nat : t = j - 1
      OBVIOUS
    <2>2. off + t < DataPerPage /\ DataPerPage \in Nat \ {0} /\ off + j - 1 = off + t /\ at + j - 1 = at + t
      BY <1>2, <2>1, FileAssumption
    <2>3. (at + t) \div DataPerPage = slot /\ (at + t) % DataPerPage = off + t
      BY <1>1, <1>2, <2>2, SamePage
    <2> QED BY <2>2, <2>3
  <1>5. CASE slot < Len(Obj(o).chunks) /\ Obj(o).chunks[slot + 1].page # ChunkUnset
    <2>1. PICK c : c = Obj(o).chunks[slot + 1]
      OBVIOUS
    <2>2. c \in [page : Int, nbytes : Nat]
      <3>1. slot + 1 \in 1 .. Len(Obj(o).chunks)
        BY <1>3, <1>5
      <3>2. PICK ch \in Seq([page : Int, nbytes : Nat]) : ch = Obj(o).chunks
        BY <1>3
      <3>3. PICK S : S = [page : Int, nbytes : Nat]
        OBVIOUS
      <3>4. ch \in Seq(S) /\ slot + 1 \in 1 .. Len(ch)
        BY <3>1, <3>2, <3>3, Zenon
      <3>5. ch[slot + 1] \in S
        BY <3>4, ElementOfSeq
      <3> QED BY <2>1, <3>2, <3>3, <3>5
    <2>3. piece = [k \in 1 .. n |-> IF off + k - 1 < c.nbytes THEN <<c.page, off + k - 1>> ELSE Hole]
      BY <1>1, <1>2, <1>5, <2>1 DEF Piece, PieceAt
    <2>4. \A k \in 1 .. n : (IF off + k - 1 < c.nbytes THEN <<c.page, off + k - 1>> ELSE Hole) \in Byte
      BY <2>2 DEF Byte, Hole
    <2>5. piece \in Seq(Byte) /\ Len(piece) = n
      <3>1. piece \in [1 .. n -> Byte]
        BY <2>3, <2>4
      <3> QED BY <3>1
    <2>6. ASSUME NEW j \in 1 .. n PROVE piece[j] = Content(o, at + j - 1)
      <3>1. piece[j] = IF off + j - 1 < c.nbytes THEN <<c.page, off + j - 1>> ELSE Hole
        BY <2>3
      <3>2. PICK u : u = at + j - 1
        OBVIOUS
      <3>3. u \div DataPerPage = slot /\ u % DataPerPage = off + j - 1
        BY <1>4, <3>2
      <3>4. Content(o, u) = IF off + j - 1 < c.nbytes THEN <<c.page, off + j - 1>> ELSE Hole
        BY <1>5, <2>1, <3>3 DEF Content
      <3> QED BY <3>1, <3>2, <3>4
    <2> QED BY <2>5, <2>6
  <1>6. CASE ~(slot < Len(Obj(o).chunks) /\ Obj(o).chunks[slot + 1].page # ChunkUnset)
    <2>1. piece = [k \in 1 .. n |-> Hole]
      BY <1>1, <1>6 DEF PieceAt
    <2>2. Hole \in Byte
      BY DEF Hole, Byte
    <2>3. piece \in Seq(Byte) /\ Len(piece) = n
      BY <2>1, <2>2
    <2>4. ASSUME NEW j \in 1 .. n PROVE piece[j] = Content(o, at + j - 1)
      <3>1. PICK u : u = at + j - 1
        OBVIOUS
      <3>2. u \div DataPerPage = slot
        BY <1>4, <3>1
      <3>3. Content(o, u) = Hole
        BY <1>6, <3>2 DEF Content
      <3> QED BY <2>1, <3>1, <3>3
    <2> QED BY <2>3, <2>4
  <1> QED BY <1>5, <1>6

\* The end of a read.
LEMMA EndedStep ==
  ASSUME FileInd, vol' = vol, listed' = listed, NEW h \in Handles, OnObject(vol, handle[h]),
         Obj(handle[h].obj).type # "dir", NEW from \in Nat, from = handle[h].pos, NEW asked \in Nat,
         NEW buf \in Seq(Byte), NEW failed \in BOOLEAN, RightBytes(handle[h].obj, from, buf),
         NEW most \in Nat,
         most = Least(asked, IF from < Obj(handle[h].obj).size THEN Obj(handle[h].obj).size - from ELSE 0),
         Len(buf) <= most, Len(buf) < most => failed, Ended(h, from, asked, buf, failed)
  PROVE  (HandlesOK /\ ListedOK /\ ResultOK /\ ReadIsContent)'
  <1>1. HandlesOK /\ ListedOK
    BY DEF FileInd
  <1>2. handle[h] \in [obj : Nat, pos : Nat, cursor : Nat] /\ Len(buf) \in Nat
    BY <1>1 DEF HandlesOK
  <1>3. PICK o \in Nat : o = handle[h].obj
    BY <1>2
  <1>4. PICK p \in Nat : p = handle[h].pos + Len(buf)
    BY <1>2
  <1>5. PICK x : x = [obj |-> o, pos |-> p, cursor |-> handle[h].cursor]
    OBVIOUS
  <1>6. x \in [obj : Nat, pos : Nat, cursor : Nat] /\ x.obj = o /\ x.cursor = handle[h].cursor
    BY <1>2, <1>5
  <1>7. OnObject(vol, x)
    BY <1>3, <1>6 DEF OnObject
  <1>8. ShownBefore(x) = <<>> /\ ShownBefore(handle[h]) = <<>>
    BY <1>3, <1>6 DEF ShownBefore
  <1>9. listed' = [listed EXCEPT ![h] = ShownBefore(x)]
    BY <1>1, <1>8 DEF ListedOK
  <1>10. handle' = [handle EXCEPT ![h].pos = p]
    BY <1>4 DEF Ended
  <1>11. handle' = [handle EXCEPT ![h] = x]
    BY <1>1, <1>3, <1>5, <1>10, HandlePos
  <1>12. HandlesOK' /\ ListedOK'
    BY <1>6, <1>7, <1>9, <1>11, HandleStep
  <1>13. handle'[h].obj = o
    BY <1>1, <1>6, <1>11 DEF HandlesOK
  <1>14. o \in DOMAIN vol.objs
    BY <1>3 DEF OnObject
  <1>15. /\ result'.h = h /\ result'.from = from /\ result'.asked = asked /\ result'.buf = buf
         /\ result'.failed = failed /\ result'.error = (failed /\ buf = <<>>)
    BY DEF Ended
  <1>16. ResultOK'
    BY <1>13, <1>14, <1>15 DEF ResultOK
  <1>17. Obj(o)' = Obj(o) /\ \A i : Content(o, i)' = Content(o, i)
    BY SameVolume
  <1>18. \A k \in 1 .. Len(buf) : buf[k] = Content(o, from + k - 1)
    BY <1>3 DEF RightBytes
  <1>19. most = Least(asked, IF from < Obj(o).size THEN Obj(o).size - from ELSE 0)
    BY <1>3
  <1>20. ReadIsContent'
    <2>1. \A k \in 1 .. Len(buf) : buf[k] = Content(o, from + k - 1)'
      BY <1>17, <1>18
    <2>2. most = Least(asked, IF from < Obj(o)'.size THEN Obj(o)'.size - from ELSE 0)
      BY <1>17, <1>19
    <2>3. Len(result'.buf) <= most /\ (Len(result'.buf) < most => result'.failed)
      BY <1>15
    <2>4. result'.error => result'.buf = <<>>
      BY <1>15
    <2> QED BY <1>13, <1>15, <2>1, <2>2, <2>3, <2>4 DEF ReadIsContent, Least
  <1> QED BY <1>12, <1>16, <1>20

LEMMA ReadStep == ASSUME FileInd, NEW h \in Handles, NEW n \in Sizes, Read(h, n) PROVE FileInd'
  <1>1. /\ job = NoJob /\ IsOpen(h) /\ Obj(handle[h].obj).type # "dir" /\ vol' = vol /\ listed' = listed
    BY DEF Read, Ready
  <1>2. HandlesOK /\ ListedOK
    BY DEF FileInd
  <1>3. OnObject(vol, handle[h]) /\ vol \in Volumes /\ handle[h].obj \in DOMAIN vol.objs
    BY <1>1, <1>2, OpenFacts
  <1>4. PICK p \in Nat : p = handle[h].pos
    BY <1>2 DEF HandlesOK
  <1>5. PICK o : o = handle[h].obj
    OBVIOUS
  <1>6. Obj(o).size \in Nat
    BY <1>3, <1>5, VolumeFacts
  <1>7. PICK z \in Nat : z = Obj(o).size
    BY <1>6
  <1>8. n \in Nat
    BY FileAssumption
  <1>9. CASE p >= z
    <2>1. Ended(h, p, n, <<>>, FALSE) /\ job' = job
      BY <1>4, <1>5, <1>7, <1>9 DEF Read, Ended
    <2>2. PICK buf \in Seq(Byte) : buf = <<>>
      <3>1. <<>> \in Seq(Byte)
        OBVIOUS
      <3> QED BY <3>1
    <2>3. PICK f \in BOOLEAN : f = FALSE
      OBVIOUS
    <2>4. PICK most \in Nat : most = 0
      OBVIOUS
    <2>5. RightBytes(handle[h].obj, p, buf) /\ Len(buf) = 0 /\ Ended(h, p, n, buf, f)
      <3>1. Len(buf) = 0
        BY <2>2
      <3>2. RightBytes(handle[h].obj, p, buf)
        BY <3>1 DEF RightBytes
      <3>3. Ended(h, p, n, buf, f)
        BY <2>1, <2>2, <2>3, Zenon
      <3> QED BY <3>1, <3>2, <3>3
    <2>6. most = Least(n, IF p < Obj(handle[h].obj).size THEN Obj(handle[h].obj).size - p ELSE 0)
      BY <1>5, <1>7, <1>8, <1>9, <2>4 DEF Least
    <2>7. HandlesOK' /\ ListedOK' /\ ResultOK' /\ ReadIsContent'
      <3>1. Len(buf) <= most /\ ~(Len(buf) < most)
        BY <2>4, <2>5
      <3> QED BY <1>1, <1>3, <1>4, <1>8, <2>5, <2>6, <3>1, EndedStep
    <2>8. JobOK'
      BY <1>1, <2>1 DEF JobOK, Ready
    <2> QED BY <2>7, <2>8 DEF FileInd
  <1>10. CASE ~(p >= z)
    <2>1. /\ handle' = handle /\ result' = result
          /\ job' = [h |-> h, asked |-> n, len |-> Least(n, z - p), buf |-> <<>>]
      BY <1>4, <1>5, <1>7, <1>10 DEF Read
    <2>2. HandlesOK'
      BY <1>1, <1>2, <2>1 DEF HandlesOK
    <2>3. ListedOK'
      BY <1>1, <1>2, <2>1 DEF ListedOK, ShownBefore, Obj, Shown, Info, IsObj
    <2>4. ResultOK' /\ ReadIsContent'
      BY <1>1, <2>1, ResultFrame
    <2>5. Least(n, z - p) \in Nat
      BY <1>8, <1>10 DEF Least
    <2>6. PICK l \in Nat : l = Least(n, z - p)
      BY <2>5
    <2>7. /\ job' \in [h : Handles, asked : Nat, len : Nat, buf : Seq(Byte)]
          /\ job'.h = h /\ job'.asked = n /\ job'.len = l /\ job'.buf = <<>>
      BY <1>8, <2>1, <2>6
    <2>8. OnObject(vol', handle'[h]) /\ Obj(o)' = Obj(o) /\ handle'[h].obj = o /\ handle'[h].pos = p
      BY <1>1, <1>3, <1>4, <1>5, <2>1 DEF Obj
    <2>9. RightBytes(handle[job.h].obj, handle[job.h].pos, job.buf)'
      BY <2>7 DEF RightBytes
    <2>10. p < z /\ Len(job'.buf) <= l
      BY <1>10, <2>7
    <2>11. Obj(handle[job.h].obj)' = Obj(o)'
      BY <2>7, <2>8 DEF Obj
    <2>12. JobOK'
      BY <1>1, <1>5, <1>7, <2>6, <2>7, <2>8, <2>9, <2>10, <2>11 DEF JobOK, Least
    <2> QED BY <2>2, <2>3, <2>4, <2>12 DEF FileInd
  <1> QED BY <1>9, <1>10

\* What a read in progress has.
LEMMA JobFacts ==
  ASSUME FileInd, ~Ready
  PROVE  \E h \in Handles, asked \in Nat, len \in Nat, buf \in Seq(Byte), from \in Nat,
            o \in DOMAIN vol.objs, z \in Nat :
            /\ job \in [h : Handles, asked : Nat, len : Nat, buf : Seq(Byte)]
            /\ job.h = h /\ job.asked = asked /\ job.len = len /\ job.buf = buf
            /\ handle[h].pos = from /\ handle[h].obj = o /\ Obj(o).size = z /\ Obj(o).type # "dir"
            /\ vol \in Volumes /\ OnObject(vol, handle[h])
            /\ from < z /\ len = Least(asked, z - from) /\ Len(buf) <= len /\ RightBytes(o, from, buf)
  <1>1. JobOK /\ HandlesOK
    BY DEF FileInd
  <1>2. /\ job \in [h : Handles, asked : Nat, len : Nat, buf : Seq(Byte)]
        /\ OnObject(vol, handle[job.h]) /\ Obj(handle[job.h].obj).type # "dir"
        /\ handle[job.h].pos < Obj(handle[job.h].obj).size
        /\ job.len = Least(job.asked, Obj(handle[job.h].obj).size - handle[job.h].pos)
        /\ Len(job.buf) <= job.len
        /\ RightBytes(handle[job.h].obj, handle[job.h].pos, job.buf)
    BY <1>1 DEF JobOK
  <1>3. PICK h \in Handles : h = job.h
    BY <1>2
  <1>4. PICK asked \in Nat : asked = job.asked
    BY <1>2
  <1>5. PICK len \in Nat : len = job.len
    BY <1>2
  <1>6. PICK buf \in Seq(Byte) : buf = job.buf
    BY <1>2
  <1>7. PICK from \in Nat : from = handle[h].pos
    BY <1>1 DEF HandlesOK
  <1>8. vol \in Volumes
    BY <1>2 DEF OnObject
  <1>9. PICK o \in DOMAIN vol.objs : o = handle[h].obj
    BY <1>2, <1>3 DEF OnObject
  <1>10. PICK z \in Nat : z = Obj(o).size
    BY <1>8, VolumeFacts
  <1>11. RightBytes(o, from, buf)
    BY <1>2, <1>3, <1>6, <1>7, <1>9
  <1>12. /\ job \in [h : Handles, asked : Nat, len : Nat, buf : Seq(Byte)]
         /\ job.h = h /\ job.asked = asked /\ job.len = len /\ job.buf = buf
         /\ handle[h].pos = from /\ handle[h].obj = o /\ Obj(o).size = z /\ Obj(o).type # "dir"
         /\ vol \in Volumes /\ OnObject(vol, handle[h])
    BY <1>2, <1>3, <1>4, <1>5, <1>6, <1>7, <1>8, <1>9, <1>10
  <1>13. from < z /\ len = Least(asked, z - from) /\ Len(buf) <= len
    BY <1>2, <1>3, <1>4, <1>5, <1>6, <1>7, <1>9, <1>10
  <1> QED BY <1>11, <1>12, <1>13

\* A read that ends, with all it was to give or at a page that cannot be read.
LEMMA ReadEndStep ==
  ASSUME FileInd, ~Ready, vol' = vol, listed' = listed, job' = NoJob, NEW failed \in BOOLEAN,
         Len(job.buf) < job.len => failed,
         Ended(job.h, handle[job.h].pos, job.asked, job.buf, failed)
  PROVE  FileInd'
  <1>1. PICK h \in Handles, asked \in Nat, len \in Nat, buf \in Seq(Byte), from \in Nat,
            o \in DOMAIN vol.objs, z \in Nat :
            /\ job \in [h : Handles, asked : Nat, len : Nat, buf : Seq(Byte)]
            /\ job.h = h /\ job.asked = asked /\ job.len = len /\ job.buf = buf
            /\ handle[h].pos = from /\ handle[h].obj = o /\ Obj(o).size = z /\ Obj(o).type # "dir"
            /\ vol \in Volumes /\ OnObject(vol, handle[h])
            /\ from < z /\ len = Least(asked, z - from) /\ Len(buf) <= len /\ RightBytes(o, from, buf)
    BY JobFacts
  <1>2. Ended(h, from, asked, buf, failed)
    BY <1>1 DEF Ended
  <1>3. len = Least(asked, IF from < Obj(handle[h].obj).size THEN Obj(handle[h].obj).size - from ELSE 0)
    BY <1>1
  <1>4. Len(buf) < len => failed
    BY <1>1
  <1>5. RightBytes(handle[h].obj, from, buf) /\ Obj(handle[h].obj).type # "dir"
    BY <1>1
  <1>6. OnObject(vol, handle[h]) /\ from = handle[h].pos /\ Len(buf) <= len
    BY <1>1
  <1>7. HandlesOK' /\ ListedOK' /\ ResultOK' /\ ReadIsContent'
    BY <1>2, <1>3, <1>4, <1>5, <1>6, EndedStep
  <1>8. JobOK'
    BY DEF JobOK, Ready
  <1> QED BY <1>7, <1>8 DEF FileInd

LEMMA ReadDoneStep == ASSUME FileInd, ReadDone PROVE FileInd'
  <1>1. /\ ~Ready /\ vol' = vol /\ listed' = listed /\ job' = NoJob /\ Len(job.buf) >= job.len
        /\ Ended(job.h, handle[job.h].pos, job.asked, job.buf, FALSE)
    BY DEF ReadDone
  <1>2. job \in [h : Handles, asked : Nat, len : Nat, buf : Seq(Byte)]
    BY <1>1 DEF FileInd, JobOK
  <1>3. ~(Len(job.buf) < job.len)
    BY <1>1, <1>2
  <1>4. PICK f \in BOOLEAN : f = FALSE
    OBVIOUS
  <1> QED BY <1>1, <1>3, <1>4, ReadEndStep

LEMMA ReadPieceStep == ASSUME FileInd, ReadPiece PROVE FileInd'
  <1>1. ~Ready /\ Len(job.buf) < job.len /\ vol' = vol /\ listed' = listed
    BY DEF ReadPiece
  <1>2. PICK h \in Handles, asked \in Nat, len \in Nat, buf \in Seq(Byte), from \in Nat,
            o \in DOMAIN vol.objs, z \in Nat :
            /\ job \in [h : Handles, asked : Nat, len : Nat, buf : Seq(Byte)]
            /\ job.h = h /\ job.asked = asked /\ job.len = len /\ job.buf = buf
            /\ handle[h].pos = from /\ handle[h].obj = o /\ Obj(o).size = z /\ Obj(o).type # "dir"
            /\ vol \in Volumes /\ OnObject(vol, handle[h])
            /\ from < z /\ len = Least(asked, z - from) /\ Len(buf) <= len /\ RightBytes(o, from, buf)
    BY <1>1, JobFacts
  <1>3. PICK at \in Nat : at = from + Len(buf)
    OBVIOUS
  <1>4. PICK off \in 0 .. DataPerPage - 1 : off = at % DataPerPage
    BY FileAssumption
  <1>5. PICK n : n = CopyLen(off, len - Len(buf))
    OBVIOUS
  <1>6. n \in Nat /\ off + n <= DataPerPage /\ Len(buf) + n <= len
    BY <1>1, <1>2, <1>4, <1>5, FileAssumption DEF CopyLen, Least
  <1>7. PICK piece : piece = PieceAt(o, at, n)
    OBVIOUS
  <1>8. \/ handle' = handle /\ result' = result /\ job' = [job EXCEPT !.buf = @ \o piece]
        \/ Ended(job.h, handle[job.h].pos, job.asked, job.buf, TRUE) /\ job' = NoJob
    BY <1>2, <1>3, <1>4, <1>5, <1>7 DEF ReadPiece, PieceAt
  <1>9. /\ piece \in Seq(Byte) /\ Len(piece) = n
        /\ \A j \in 1 .. n : piece[j] = Content(o, at + j - 1)
    BY <1>2, <1>4, <1>6, <1>7, PieceFacts
  <1>10. CASE Ended(job.h, handle[job.h].pos, job.asked, job.buf, TRUE) /\ job' = NoJob
    <2>1. PICK f \in BOOLEAN : f = TRUE
      OBVIOUS
    <2> QED BY <1>1, <1>10, <2>1, ReadEndStep
  <1>11. CASE handle' = handle /\ result' = result /\ job' = [job EXCEPT !.buf = @ \o piece]
    <2>1. PICK more : more = buf \o piece
      OBVIOUS
    <2>2. /\ more \in Seq(Byte) /\ Len(more) = Len(buf) + n
          /\ \A k \in 1 .. Len(buf) : more[k] = buf[k]
          /\ \A k \in Len(buf) + 1 .. Len(buf) + n : more[k] = piece[k - Len(buf)]
      <3>1. PICK S : S = Byte
        OBVIOUS
      <3>2. buf \in Seq(S) /\ piece \in Seq(S) /\ Len(piece) = n
        BY <1>9, <3>1
      <3>3. /\ buf \o piece \in Seq(S) /\ Len(buf \o piece) = Len(buf) + Len(piece)
            /\ \A k \in 1 .. Len(buf) + Len(piece) :
                  (buf \o piece)[k] = IF k <= Len(buf) THEN buf[k] ELSE piece[k - Len(buf)]
        BY <3>2, ConcatProperties
      <3>4. Len(buf) \in Nat
        OBVIOUS
      <3> QED BY <1>6, <2>1, <3>1, <3>2, <3>3, <3>4
    <2>3. ASSUME NEW k \in 1 .. Len(more) PROVE more[k] = Content(o, from + k - 1)
      <3>1. CASE k \in 1 .. Len(buf)
        BY <1>2, <2>2, <3>1 DEF RightBytes
      <3>2. CASE k \notin 1 .. Len(buf)
        <4>1. Len(buf) \in Nat /\ k \in 1 .. Len(buf) + n
          BY <2>2
        <4>2. k - Len(buf) \in 1 .. n
          BY <1>6, <3>2, <4>1
        <4>3. PICK j \in 1 .. n : j = k - Len(buf)
          BY <4>2
        <4>4. k \in Len(buf) + 1 .. Len(buf) + n /\ at + j - 1 = from + k - 1
          BY <1>3, <1>6, <2>2, <3>2, <4>3
        <4>5. more[k] = piece[j] /\ piece[j] = Content(o, at + j - 1)
          BY <1>9, <2>2, <4>3, <4>4
        <4> QED BY <4>4, <4>5
      <3> QED BY <3>1, <3>2
    <2>4. /\ job' \in [h : Handles, asked : Nat, len : Nat, buf : Seq(Byte)]
          /\ job'.h = h /\ job'.asked = asked /\ job'.len = len /\ job'.buf = more
      <3>1. job' = [job EXCEPT !.buf = more]
        BY <1>2, <1>11, <2>1
      <3> QED BY <1>2, <2>2, <3>1
    <2>5. HandlesOK'
      BY <1>1, <1>11 DEF FileInd, HandlesOK
    <2>6. ListedOK'
      BY <1>1, <1>11 DEF FileInd, ListedOK, ShownBefore, Obj, Shown, Info, IsObj
    <2>7. ResultOK' /\ ReadIsContent'
      BY <1>1, <1>11, ResultFrame
    <2>8. Obj(o)' = Obj(o) /\ \A i : Content(o, i)' = Content(o, i)
      BY <1>1, SameVolume
    <2>9. OnObject(vol', handle'[h]) /\ handle'[h].obj = o /\ handle'[h].pos = from
      BY <1>1, <1>2, <1>11
    <2>10. RightBytes(o, from, more)'
      BY <2>3, <2>8 DEF RightBytes
    <2>11. RightBytes(handle[job.h].obj, handle[job.h].pos, job.buf)'
      BY <2>4, <2>9, <2>10 DEF RightBytes
    <2>12. Obj(handle[job.h].obj)' = Obj(o)'
      BY <2>4, <2>9 DEF Obj
    <2>13. Len(more) <= len
      BY <1>6, <2>2
    <2>14. JobOK'
      BY <1>2, <2>4, <2>8, <2>9, <2>11, <2>12, <2>13 DEF JobOK
    <2> QED BY <2>5, <2>6, <2>7, <2>14 DEF FileInd
  <1> QED BY <1>8, <1>10, <1>11

LEMMA FileInductive == FileInd /\ [FileNext]_fileVars => FileInd'
  <1> SUFFICES ASSUME FileInd, [FileNext]_fileVars PROVE FileInd'
    OBVIOUS
  <1>1. CASE UNCHANGED fileVars
    <2>1. vol' = vol /\ handle' = handle /\ job' = job /\ result' = result /\ listed' = listed
      BY <1>1 DEF fileVars
    <2>2. HandlesOK'
      BY <2>1 DEF FileInd, HandlesOK
    <2>3. ListedOK'
      BY <2>1 DEF FileInd, ListedOK, ShownBefore, Obj, Shown, Info, IsObj
    <2>4. JobOK'
      BY <2>1 DEF FileInd, JobOK, Ready, RightBytes, Content, Obj
    <2>5. ResultOK' /\ ReadIsContent'
      BY <2>1, ResultFrame
    <2> QED BY <2>2, <2>3, <2>4, <2>5 DEF FileInd
  <1>2. ASSUME NEW v \in Volumes, Start(v) PROVE FileInd'
    BY <1>2, StartStep
  <1>3. CASE Stop
    BY <1>3, StopStep
  <1>4. ASSUME NEW h \in Handles, OpenVolume(h) PROVE FileInd'
    BY <1>4, OpenVolumeStep
  <1>5. ASSUME NEW h \in Handles, Close(h) PROVE FileInd'
    BY <1>5, CloseStep
  <1>6. ASSUME NEW h \in Handles, NEW g \in Handles, NEW p \in Paths, Open(h, g, p) PROVE FileInd'
    BY <1>6, OpenStep
  <1>7. ASSUME NEW h \in Handles, NEW fits \in BOOLEAN, ReadDir(h, fits) PROVE FileInd'
    BY <1>7, ReadDirStep
  <1>8. ASSUME NEW h \in Handles, NEW p \in Positions \cup {EndPos}, SetPosition(h, p) PROVE FileInd'
    BY <1>8, SetPositionStep
  <1>9. ASSUME NEW h \in Handles, NEW n \in Sizes, Read(h, n) PROVE FileInd'
    BY <1>9, ReadStep
  <1>10. CASE ReadPiece
    BY <1>10, ReadPieceStep
  <1>11. CASE ReadDone
    BY <1>11, ReadDoneStep
  <1> QED BY <1>1, <1>2, <1>3, <1>4, <1>5, <1>6, <1>7, <1>8, <1>9, <1>10, <1>11 DEF FileNext

LEMMA FileIndAlways == FileSpec => []FileInd
  <1>1. FileInit => FileInd
    BY InitStep
  <1> QED BY <1>1, FileInductive, PTL DEF FileSpec

\* On every volume in which no object lies in a hard link, and through any
\* number of handles and calls, a handle stays on an object that is no hard
\* link with its cursor among the children, and Read gives exactly the bytes of
\* the file from the position on: over page borders, holes, short chunks and
\* pages that cannot be read.
THEOREM FileSafe == FileSpec => [](ParentsHold(vol) => FileInv)
  <1>1. FileInd => (ParentsHold(vol) => FileInv)
    <2> SUFFICES ASSUME FileInd, ParentsHold(vol) PROVE FileTypeOK
      BY DEF FileInv, FileInd
    <2>1. HandlesOK /\ JobOK
      BY DEF FileInd
    <2>2. ASSUME NEW h \in Handles, IsOpen(h)
          PROVE  /\ IsObj(handle[h].obj) /\ Obj(handle[h].obj).type # "link" /\ handle[h].pos \in Nat
                 /\ handle[h].cursor \in 0 .. Len(Obj(handle[h].obj).kids) + 1
      <3>1. OnObject(vol, handle[h])
        BY <2>1, <2>2, OpenFacts
      <3> QED BY <2>1, <3>1 DEF HandlesOK, OnObject, IsObj, Obj
    <2>3. ASSUME ~Ready PROVE job.h \in Handles /\ Len(job.buf) <= job.asked
      <3>1. PICK h \in Handles, asked \in Nat, len \in Nat, buf \in Seq(Byte), from \in Nat,
                o \in DOMAIN vol.objs, z \in Nat :
                /\ job \in [h : Handles, asked : Nat, len : Nat, buf : Seq(Byte)]
                /\ job.h = h /\ job.asked = asked /\ job.len = len /\ job.buf = buf
                /\ handle[h].pos = from /\ handle[h].obj = o /\ Obj(o).size = z /\ Obj(o).type # "dir"
                /\ vol \in Volumes /\ OnObject(vol, handle[h])
                /\ from < z /\ len = Least(asked, z - from) /\ Len(buf) <= len /\ RightBytes(o, from, buf)
        BY <2>3, JobFacts
      <3>2. len <= asked
        BY <3>1 DEF Least
      <3> QED BY <3>1, <3>2
    <2> QED BY <2>1, <2>2, <2>3 DEF FileTypeOK, HandlesOK
  <1> QED BY <1>1, FileIndAlways, PTL

\* On every volume, however often a buffer was too small, the enumeration was
\* begun again or the directory is open twice, what a handle was shown is each
\* child before its cursor, once and in order.
THEOREM EnumerationIsComplete == FileSpec => []EnumerationComplete
  <1>1. FileInd => EnumerationComplete
    BY DEF FileInd, ListedOK, ShownBefore, EnumerationComplete, IsOpen
  <1> QED BY <1>1, FileIndAlways, PTL

\* On every volume whose names differ within a directory and whose hard links
\* do not lead to hard links, an entry that an enumeration showed opens, by its
\* name, as what was shown, unless it is a hard link that leads nowhere.
THEOREM ListedOpens == FileSpec => [](NamesAndLinksPlain(vol) => ListedIsOpened)
  <1>1. ASSUME FileInd, NamesAndLinksPlain(vol), NEW h \in Handles, IsOpen(h), NEW i \in DOMAIN listed[h]
        PROVE  LET o == Walk(handle[h].obj, [absolute |-> FALSE, parts |-> <<listed[h][i].name>>])
               IN  \/ o # NoObj /\ Info(o) = listed[h][i].info
                   \/ o = NoObj /\ Obj(Obj(handle[h].obj).kids[i]).type = "link"
    <2>1. HandlesOK /\ ListedOK
      BY <1>1 DEF FileInd
    <2>2. OnObject(vol, handle[h])
      BY <1>1, <2>1, OpenFacts
    <2>3. PICK d : d = handle[h].obj
      OBVIOUS
    <2>4. vol \in Volumes /\ d \in DOMAIN vol.objs
      BY <2>2, <2>3 DEF OnObject
    <2>5. DOMAIN vol.objs \subseteq Nat \ {NoObj} /\ Obj(d).kids \in Seq(DOMAIN vol.objs)
      BY <2>4, VolumeFacts
    <2>6. listed[h] = ShownBefore(handle[h])
      BY <2>1 DEF ListedOK
    <2>7. Obj(d).type = "dir"
      BY <1>1, <2>3, <2>6 DEF ShownBefore
    <2>8. listed[h] = [k \in 1 .. handle[h].cursor - 1 |-> Shown(Obj(d).kids[k])]
      BY <1>1, <2>3, <2>6, <2>7 DEF ShownBefore, IsOpen
    <2>9. handle[h].cursor \in 0 .. Len(Obj(d).kids) + 1
      BY <2>2, <2>3 DEF OnObject, Obj
    <2>10. i \in 1 .. Len(Obj(d).kids) /\ i \in 1 .. handle[h].cursor - 1
      BY <1>1, <2>5, <2>8, <2>9
    <2>11. PICK c \in DOMAIN vol.objs : c = Obj(d).kids[i]
      BY <2>5, <2>10
    <2>12. listed[h][i] = Shown(c)
      BY <2>8, <2>10, <2>11
    <2>13. PICK name : name = Obj(c).name
      OBVIOUS
    <2>14. listed[h][i].name = name
      BY <2>12, <2>13 DEF Shown
    <2>15. name # "." /\ name # ".." /\ Matches(d, name) = {i}
      <3>1. \A k, j \in DOMAIN Obj(d).kids :
               Obj(Obj(d).kids[k]).name = Obj(Obj(d).kids[j]).name => k = j
        BY <1>1, <2>4 DEF NamesAndLinksPlain, Obj
      <3>2. \A k \in DOMAIN Obj(d).kids : Obj(Obj(d).kids[k]).name \notin {".", ".."}
        BY <1>1, <2>4 DEF NamesAndLinksPlain, Obj
      <3>3. i \in DOMAIN Obj(d).kids
        BY <2>5, <2>10
      <3> QED BY <2>11, <2>13, <3>1, <3>2, <3>3 DEF Matches
    <2>16. Child(d, name) = c
      <3>1. Min(Matches(d, name)) \in Matches(d, name)
        BY <2>4, <2>15, ChildFacts
      <3> QED BY <2>11, <2>15, <3>1 DEF Child
    <2>17. Descend(d, name) = ResolveHardlinks(c)
      <3>1. d # NoObj
        BY <2>4, <2>5
      <3> QED BY <2>7, <2>15, <2>16, <3>1 DEF Descend
    <2>18. Walk(d, [absolute |-> FALSE, parts |-> <<name>>]) = ResolveHardlinks(c)
      BY <2>4, <2>7, <2>17, WalkOne
    <2>19. PICK r : r = ResolveHardlinks(c)
      OBVIOUS
    <2>20. (r # NoObj /\ Info(r) = Shown(c).info) \/ (r = NoObj /\ Obj(c).type = "link")
      <3>1. c # NoObj /\ NoObj \notin DOMAIN vol.objs
        BY <2>5
      <3>2. CASE Obj(c).type # "link"
        <4>1. r = c
          BY <2>19, <3>1, <3>2, ResolvePlain
        <4> QED BY <3>1, <3>2, <4>1 DEF Shown
      <3>3. CASE Obj(c).type = "link"
        <4>1. IsObj(Obj(c).equiv) => Obj(Obj(c).equiv).type # "link" \/ Obj(c).equiv = c
          BY <1>1, <3>3 DEF NamesAndLinksPlain, IsObj, Obj
        <4>2. r = NoObj \/ (IsObj(Obj(c).equiv) /\ r = Obj(c).equiv)
          BY <2>19, <3>1, <3>3, <4>1, ResolveLink
        <4> QED BY <3>1, <3>3, <4>2 DEF Shown, IsObj
      <3> QED BY <3>2, <3>3
    <2> QED BY <2>3, <2>11, <2>12, <2>14, <2>18, <2>19, <2>20
  <1>2. FileInd => (NamesAndLinksPlain(vol) => ListedIsOpened)
    BY <1>1 DEF ListedIsOpened
  <1> QED BY <1>2, FileIndAlways, PTL
=============================================================================
