------------------------ MODULE RouterOSLoaderProof -------------------------
(***************************************************************************)
(* RouterOSLoader with its package parser, for every file, every package   *)
(* and any number of runs: the parser reads inside the file and its table  *)
(* of entries tiles the content, a run frees what it allocated whichever   *)
(* step fails, and the installed device tree never names freed pages.      *)
(***************************************************************************)
EXTENDS RouterOSLoader, SequenceTheorems, TLAPS

(***************************************************************************)
(* The allocations, told apart by their first field.                       *)
(***************************************************************************)

ParserTags == {"package", "content", "entries", "name", "copy", "corrupt"}

\* What npk_package_free frees.
LEMMA PackageTags ==
  \A b \in PackagePtrs : b[1] \in {"package", "content", "entries", "name"}
  BY DEF PackagePtrs, NameOf, Array, Buffer, PackageBlock

\* What the parser holds is what it allocates.
LEMMA HoldsTags ==
  \A b \in Holds : b[1] \in ParserTags \ {"corrupt"}
  <1>1. CopyBlock[1] = "copy" /\ Buffer(capacity)[1] = "content"
    BY DEF CopyBlock, Buffer
  <1> QED BY <1>1, PackageTags DEF Holds, ParserTags

\* FreePool of blocks that are there.
LEMMA FreedLive ==
  ASSUME NEW h, NEW B, B \subseteq h PROVE Freed(h, B) = h \ B
  BY DEF Freed

\* What outlives a run is no block of the parser or of the run.
LEMMA KeptTags ==
  \A b \in Kept : b[1] \in {"dtb", "pages", "lost"}
  BY DEF Kept, NewDtb, PagesOf, Lost

(***************************************************************************)
(* The parser, in its variables: where it stands in the file and in the    *)
(* content.                                                                *)
(***************************************************************************)

\* The types of the parser's variables, those of its allocations left out.
NpkTypes ==
    /\ npk \in Early \cup {"entry", "array", "name", "parsed", "returned", "extracted"}
    /\ size \in Nat /\ end \in 0 .. size /\ off \in Nat /\ reach \in Nat
    /\ capacity \in Nat /\ total \in Outputs \cup {0}
    /\ content \in Outputs \cup {0}
    /\ entries \in Seq(EntryRecord) /\ now \in EntryRecord
    /\ room \in Len(entries) .. Len(entries) + 1

NpkData == NpkTypes /\ PlaceMatches /\ ReadsStayInFile /\ EntriesTile

\* The constants, as numbers.
LEMMA Numbers ==
  /\ \A n \in FileSizes : n \in Nat
  /\ \A n \in Lens : n \in Nat
  /\ \A n \in Outputs \cup {0} : n \in Nat
  /\ HeaderSize \in Nat \ {0} /\ ContainerHeader \in Nat \ {0}
  /\ ObjectHeader \in Nat \ {0} /\ MinCapacity \in Nat \ {0}
  BY NpkAssumption

\* Nothing was parsed of an empty table.
LEMMA EmptyTable ==
  /\ <<>> \in Seq(EntryRecord)
  /\ Len(<<>>) = 0
  /\ DOMAIN <<>> = {}
  OBVIOUS

\* A failure leaves the position and the table as they are.
LEMMA FailKeepsData ==
  ASSUME NpkData, NEW s, s # "OK", NEW h, FailWith(h, s),
         UNCHANGED <<size, capacity, total, content, entries, room>>,
         end' \in 0 .. size, off' \in Nat, reach' \in Nat, reach' <= size,
         now' \in EntryRecord
  PROVE  NpkData'
  <1>1. NpkTypes'
    BY DEF NpkData, NpkTypes, FailWith, Early
  <1>2. PlaceMatches'
    BY DEF NpkData, PlaceMatches, FailWith, Early
  <1>3. ReadsStayInFile'
    BY DEF ReadsStayInFile
  <1>4. EntriesTile'
    BY DEF NpkData, EntriesTile, Ends, FailWith
  <1> QED BY <1>1, <1>2, <1>3, <1>4 DEF NpkData

\* The steps before the content is there, but for the reads: no entries yet.
LEMMA EarlyKeepsData ==
  ASSUME NpkData, npk \in Early, npk' \in Early \ {"idle", "start"},
         UNCHANGED <<size, content, entries, room, now, npkStatus>>,
         end' \in 0 .. size, off' \in Nat, reach' \in Nat, reach' <= size,
         capacity' \in Nat, total' \in Outputs \cup {0},
         HeaderSize <= size,
         npk' \in {"container", "inflate"} => off' <= end'
  PROVE  NpkData'
  <1>1. NpkTypes'
    BY DEF NpkData, NpkTypes
  <1>2. PlaceMatches'
    BY DEF NpkData, PlaceMatches, Early
  <1>3. ReadsStayInFile'
    BY DEF ReadsStayInFile
  <1>4. EntriesTile'
    BY DEF NpkData, EntriesTile, Ends, PlaceMatches, Early
  <1> QED BY <1>1, <1>2, <1>3, <1>4 DEF NpkData

\* One more entry, behind the last one.
LEMMA AppendKeepsData ==
  ASSUME NpkData, npk = "name", npk' = "entry",
         entries' = Append(entries, now), off' = NextOffset,
         UNCHANGED <<size, end, capacity, total, content, room, now, reach, npkStatus>>
  PROVE  NpkData'
  <1> DEFINE n == Len(entries)
  <1>1. /\ entries \in Seq(EntryRecord) /\ now \in EntryRecord /\ n \in Nat
        /\ room = n + 1 /\ npkStatus = "none" /\ content \in Nat
        /\ now.start = off /\ now.start + ObjectHeader <= now.data /\ Ends(now) <= content
        /\ off = ParsedTo
    BY Numbers, LenProperties DEF NpkData, NpkTypes, PlaceMatches, Early
  <1>2. /\ entries' \in Seq(EntryRecord) /\ Len(entries') = n + 1
        /\ \A i \in 1 .. n : entries'[i] = entries[i]
        /\ entries'[n + 1] = now
    BY <1>1, AppendProperties
  <1>3. DOMAIN entries = 1 .. n /\ DOMAIN entries' = 1 .. n + 1 /\ entries' # <<>>
    BY <1>1, <1>2, LenProperties
  <1>4. Ends(now) \in Nat
    BY <1>1 DEF EntryRecord, Ends
  <1>5. NpkTypes'
    BY <1>1, <1>2, <1>4 DEF NpkData, NpkTypes, NextOffset, Ends, Early
  <1>6. ParsedTo' = Ends(now) /\ off' = Ends(now)
    BY <1>2, <1>3 DEF ParsedTo, Ends, NextOffset
  <1>7. PlaceMatches'
    BY <1>1, <1>6 DEF NpkData, PlaceMatches, Early
  <1>8. EntriesTile'
    <2>1. ASSUME NEW i \in 1 .. n + 1
          PROVE  /\ entries'[i].start = IF i = 1 THEN 0 ELSE Ends(entries'[i - 1])
                 /\ entries'[i].start + ObjectHeader <= entries'[i].data
                 /\ Ends(entries'[i]) <= content
      <3>1. CASE i \in 1 .. n
        <4>1. entries'[i] = entries[i] /\ (i # 1 => entries'[i - 1] = entries[i - 1])
          BY <1>1, <1>2, <3>1
        <4> QED BY <1>3, <3>1, <4>1 DEF NpkData, EntriesTile
      <3>2. CASE i = n + 1
        <4>1. entries'[i] = now
          BY <1>2, <3>2
        <4>2. now.start = IF i = 1 THEN 0 ELSE Ends(entries'[i - 1])
          <5>1. CASE n = 0
            BY <1>1, <3>2, <5>1, EmptySeq DEF ParsedTo
          <5>2. CASE n # 0
            <6>1. i # 1 /\ i - 1 = n /\ n \in 1 .. n
              BY <1>1, <3>2, <5>2
            <6>2. entries # <<>>
              BY <5>2, EmptyTable
            <6> QED BY <1>1, <1>2, <6>1, <6>2 DEF ParsedTo
          <5> QED BY <5>1, <5>2
        <4> QED BY <1>1, <4>1, <4>2
      <3> QED BY <1>1, <3>1, <3>2
    <2> QED BY <1>1, <1>3, <2>1 DEF EntriesTile, Ends
  <1>9. ReadsStayInFile'
    BY DEF NpkData, ReadsStayInFile
  <1> QED BY <1>5, <1>7, <1>8, <1>9 DEF NpkData

\* Every step of the parser keeps its place.
LEMMA NpkStep == ASSUME NpkData, NpkNext PROVE NpkData'
  <1>0. /\ size \in Nat /\ end \in Nat /\ end <= size /\ off \in Nat /\ reach \in Nat
        /\ reach <= size /\ capacity \in Nat /\ content \in Nat /\ total \in Nat
        /\ now \in EntryRecord /\ total \in Outputs \cup {0}
    BY Numbers DEF NpkData, NpkTypes, ReadsStayInFile
  <1>1. CASE ParseBuffer
    <2>1. CASE npk' = "header"
      BY <1>0, <1>1, <2>1, Numbers, EarlyKeepsData DEF ParseBuffer, Early
    <2>2. CASE npk' = "returned"
      <3>1. npkStatus' \in {"BAD_MAGIC", "NO_MEMORY"}
        BY <1>1, <2>2 DEF ParseBuffer
      <3>2. NpkTypes'
        BY <1>1, <2>2, Numbers DEF ParseBuffer, NpkData, NpkTypes, Early
      <3>3. PlaceMatches'
        BY <1>1, <2>2, <3>1 DEF ParseBuffer, NpkData, PlaceMatches, Early
      <3>4. ReadsStayInFile' /\ EntriesTile'
        BY <1>1, <3>1 DEF ParseBuffer, NpkData, ReadsStayInFile, EntriesTile, Ends
      <3> QED BY <3>2, <3>3, <3>4 DEF NpkData
    <2> QED BY <1>1, <2>1, <2>2 DEF ParseBuffer
  <1>2. CASE TooSmall
    <2>1. NpkTypes'
      BY <1>2 DEF TooSmall, NpkData, NpkTypes, Early
    <2>2. PlaceMatches'
      BY <1>2 DEF TooSmall, NpkData, PlaceMatches, Early
    <2>3. ReadsStayInFile' /\ EntriesTile'
      BY <1>2 DEF TooSmall, NpkData, ReadsStayInFile, EntriesTile, Ends
    <2> QED BY <2>1, <2>2, <2>3 DEF NpkData
  <1>3. CASE Payload
    <2>1. HeaderSize <= size
      BY <1>3 DEF Payload, NpkData, PlaceMatches
    <2>2. CASE Fail("TRUNCATED") /\ UNCHANGED end
      BY <1>0, <1>3, <2>2, Numbers, FailKeepsData DEF Payload, Fail
    <2>3. CASE npk' = "container"
      <3>1. PICK len \in Lens : ~(len > size - HeaderSize) /\ end' = HeaderSize + len
                                /\ UNCHANGED npkStatus
        BY <1>3, <2>3 DEF Payload, Fail, FailWith
      <3>2. end' \in 0 .. size /\ HeaderSize <= end'
        BY <1>0, <2>1, <3>1, Numbers
      <3> QED BY <1>0, <1>3, <2>1, <2>3, <3>1, <3>2, Numbers, EarlyKeepsData DEF Payload, Early
    <2> QED BY <1>3, <2>2, <2>3 DEF Payload
  <1>4. CASE Container
    <2>1. HeaderSize <= size
      BY <1>4 DEF Container, NpkData, PlaceMatches
    <2>2. off + ContainerHeader <= end
      BY <1>0, <1>4, Numbers DEF Container
    <2>3. CASE Fail("TRUNCATED") /\ UNCHANGED off /\ reach' = Further(reach, off + ContainerHeader)
      BY <1>0, <1>4, <2>2, <2>3, Numbers, FailKeepsData DEF Container, Fail, Further
    <2>4. ASSUME NEW len \in Lens, NEW zlib \in BOOLEAN, FitsContainer(len),
                 npk' = IF zlib THEN "inflate" ELSE "container",
                 off' = off + ContainerHeader + len,
                 reach' = Further(reach, IF zlib THEN off + ContainerHeader + len
                                         ELSE off + ContainerHeader),
                 UNCHANGED npkStatus
          PROVE  NpkData'
      <3>1. off + ContainerHeader + len <= end /\ len \in Nat
        BY <1>0, <2>4, Numbers DEF FitsContainer
      <3>2. off' \in Nat /\ off' <= end /\ reach' \in Nat /\ reach' <= size
        BY <1>0, <2>2, <2>4, <3>1, Numbers DEF Further
      <3>3. npk' \in {"inflate", "container"}
        BY <2>4
      <3> QED BY <1>0, <1>4, <2>1, <2>4, <3>2, <3>3, EarlyKeepsData DEF Container, Early
    <2> QED BY <1>4, <2>3, <2>4 DEF Container
  <1>5. CASE NoContainer
    <2>1. PICK s \in {"TRUNCATED", "NO_CONTENT_CONTAINER"} : Fail(s)
      BY <1>5 DEF NoContainer
    <2> QED BY <1>0, <1>5, <2>1, FailKeepsData DEF NoContainer, Fail
  <1>6. CASE Inflate
    <2>1. CASE Fail("NO_MEMORY") /\ UNCHANGED <<capacity, total>>
      BY <1>0, <1>6, <2>1, FailKeepsData DEF Inflate, Fail
    <2>2. CASE npk' = "inflating" /\ capacity' = MinCapacity /\ total' \in Outputs /\ UNCHANGED npkStatus
      <3>1. HeaderSize <= size
        BY <1>6 DEF Inflate, NpkData, PlaceMatches
      <3> QED BY <1>0, <1>6, <2>2, <3>1, Numbers, EarlyKeepsData DEF Inflate, Early
    <2> QED BY <1>6, <2>1, <2>2 DEF Inflate
  <1>7. CASE Grow
    <2>1. CASE FailWith(Freed(heap, {Buffer(capacity)}), "NO_MEMORY") /\ UNCHANGED capacity
      BY <1>0, <1>7, <2>1, FailKeepsData DEF Grow, Fail
    <2>2. CASE capacity' = 2 * capacity /\ UNCHANGED <<npk, npkStatus>>
      <3>1. HeaderSize <= size
        BY <1>7 DEF Grow, NpkData, PlaceMatches
      <3> QED BY <1>0, <1>7, <2>2, <3>1, EarlyKeepsData DEF Grow, Early
    <2> QED BY <1>7, <2>1, <2>2 DEF Grow
  <1>8. CASE InflateError
    BY <1>0, <1>8, FailKeepsData DEF InflateError, Fail
  <1>9. CASE StreamEnd
    <2>1. entries = <<>> /\ room = 0 /\ npkStatus = "none" /\ HeaderSize <= size
      BY <1>9 DEF StreamEnd, NpkData, PlaceMatches, Early
    <2>2. NpkTypes'
      BY <1>0, <1>9, <2>1, EmptyTable DEF StreamEnd, NpkData, NpkTypes
    <2>3. PlaceMatches'
      BY <1>0, <1>9, <2>1 DEF StreamEnd, PlaceMatches, ParsedTo, Early
    <2>4. ReadsStayInFile' /\ EntriesTile'
      BY <1>9, <2>1, EmptyTable DEF StreamEnd, NpkData, ReadsStayInFile, EntriesTile
    <2> QED BY <2>2, <2>3, <2>4 DEF NpkData
  <1>10. CASE Entry
    <2>1. CASE Fail("TRUNCATED") /\ UNCHANGED now
      BY <1>0, <1>10, <2>1, FailKeepsData DEF Entry, Fail
    <2>2. ASSUME NEW name \in Lens, NEW len \in Lens,
                 ~(ObjectHeader + name + len > content - off),
                 now' = [start |-> off, data |-> off + ObjectHeader + name, size |-> len],
                 npk' = "array", UNCHANGED npkStatus
          PROVE  NpkData'
      <3>1. name \in Nat /\ len \in Nat
        BY Numbers
      <3>2. /\ now' \in EntryRecord /\ now'.start = off /\ now'.start + ObjectHeader <= now'.data
            /\ now'.data + now'.size <= content
        BY <1>0, <2>2, <3>1, Numbers DEF EntryRecord
      <3>3. NpkTypes'
        BY <1>10, <2>2, <3>2 DEF Entry, NpkData, NpkTypes, Early
      <3>4. PlaceMatches'
        BY <1>10, <2>2, <3>2 DEF Entry, NpkData, PlaceMatches, Early, ParsedTo, Ends
      <3>5. ReadsStayInFile' /\ EntriesTile'
        BY <1>10, <2>2 DEF Entry, NpkData, ReadsStayInFile, EntriesTile, Ends
      <3> QED BY <3>3, <3>4, <3>5 DEF NpkData
    <2> QED BY <1>10, <2>1, <2>2 DEF Entry
  <1>11. CASE GrowArray
    <2>1. CASE Fail("NO_MEMORY") /\ UNCHANGED room
      BY <1>0, <1>11, <2>1, FailKeepsData DEF GrowArray, Fail
    <2>2. CASE room' = Len(entries) + 1 /\ npk' = "name" /\ UNCHANGED npkStatus
      <3>1. Len(entries) \in Nat
        BY LenProperties DEF NpkData, NpkTypes
      <3>2. NpkTypes'
        BY <1>11, <2>2, <3>1 DEF GrowArray, NpkData, NpkTypes, Early
      <3>3. PlaceMatches'
        BY <1>11, <2>2 DEF GrowArray, NpkData, PlaceMatches, Early, ParsedTo, Ends
      <3>4. ReadsStayInFile' /\ EntriesTile'
        BY <1>11, <2>2 DEF GrowArray, NpkData, ReadsStayInFile, EntriesTile, Ends
      <3> QED BY <3>2, <3>3, <3>4 DEF NpkData
    <2> QED BY <1>11, <2>1, <2>2 DEF GrowArray
  <1>12. CASE AppendEntry
    <2>1. CASE Fail("NO_MEMORY") /\ UNCHANGED <<entries, off>>
      BY <1>0, <1>12, <2>1, FailKeepsData DEF AppendEntry, Fail
    <2>2. CASE entries' = Append(entries, now) /\ off' = NextOffset /\ npk' = "entry"
               /\ UNCHANGED npkStatus
      BY <1>12, <2>2, AppendKeepsData DEF AppendEntry
    <2> QED BY <1>12, <2>1, <2>2 DEF AppendEntry
  <1>13. CASE Parsed
    <2>1. off = ParsedTo /\ off <= content /\ off >= content /\ HeaderSize <= size
      BY <1>13 DEF Parsed, NpkData, PlaceMatches
    <2>2. ParsedTo = content
      BY <1>0, <2>1
    <2>3. NpkTypes'
      BY <1>13 DEF Parsed, NpkData, NpkTypes, Early
    <2>4. PlaceMatches'
      BY <1>13, <2>1, <2>2 DEF Parsed, NpkData, PlaceMatches, ParsedTo, Ends, Early
    <2>5. ReadsStayInFile' /\ EntriesTile'
      BY <1>13, <2>2 DEF Parsed, NpkData, ReadsStayInFile, EntriesTile, ParsedTo, Ends
    <2> QED BY <2>3, <2>4, <2>5 DEF NpkData
  <1>14. CASE Extract
    <2>0. entries \in Seq(EntryRecord) /\ Len(entries) \in Nat
      BY LenProperties DEF NpkData, NpkTypes
    <2>1. ParsedTo = content /\ npkStatus = "OK" /\ HeaderSize <= size
      BY <1>14 DEF Extract, NpkData, PlaceMatches
    <2>2. NpkTypes'
      <3>1. \A i \in DOMAIN entries : entries[i] \in EntryRecord
        BY <2>0, ElementOfSeq, LenProperties
      <3>2. now' \in EntryRecord
        BY <1>0, <1>14, <3>1 DEF Extract
      <3> QED BY <1>14, <3>2 DEF Extract, NpkData, NpkTypes, Early
    <2>3. PlaceMatches'
      BY <1>14, <2>1 DEF Extract, PlaceMatches, ParsedTo, Ends, Early
    <2>4. ReadsStayInFile' /\ EntriesTile'
      BY <1>14, <2>1 DEF Extract, NpkData, ReadsStayInFile, EntriesTile, Ends
    <2> QED BY <2>2, <2>3, <2>4 DEF NpkData
  <1> QED BY <1>1, <1>2, <1>3, <1>4, <1>5, <1>6, <1>7, <1>8, <1>9, <1>10, <1>11, <1>12,
             <1>13, <1>14 DEF NpkNext

(***************************************************************************)
(* The parser, in the heap.                                                *)
(***************************************************************************)

\* The package's blocks before it has content, with it, and with more entries.
LEMMA EarlyPtrs == ASSUME NpkData, npk \in Early PROVE PackagePtrs = {PackageBlock}
  BY EmptyTable DEF NpkData, PlaceMatches, PackagePtrs

\* Besides what others hold, the heap has exactly what the parser holds.
LEMMA NpkHeap ==
  ASSUME NpkData, NpkNext, npk # "idle", NEW Others, \A b \in Others : b[1] \notin ParserTags,
         heap = Others \cup Holds
  PROVE  heap' = Others \cup Holds' /\ npk' # "idle"
  <1>0. /\ \A b \in PackagePtrs : b \notin Others
        /\ \A n : Buffer(n) \notin Others /\ Array(n) \notin Others
    <2>1. \A n : Buffer(n)[1] \in ParserTags /\ Array(n)[1] \in ParserTags
      BY DEF Buffer, Array, ParserTags
    <2> QED BY <2>1, PackageTags DEF ParserTags
  <1>1. ASSUME NEW s, Fail(s), npk \notin {"start", "returned", "extracted", "inflating"}
        PROVE  heap' = Others \cup Holds' /\ npk' # "idle"
    <2>1. Holds = PackagePtrs
      BY <1>1 DEF Holds
    <2>2. heap' = heap \ PackagePtrs /\ npk' = "returned"
      BY <1>1, <2>1, FreedLive DEF Fail, FailWith
    <2>3. Holds' = {}
      BY <2>2 DEF Holds
    <2> QED BY <1>0, <2>1, <2>2, <2>3
  <1>2. ASSUME UNCHANGED <<entries, room, content, capacity>> PROVE PackagePtrs' = PackagePtrs
    BY <1>2 DEF PackagePtrs
  \* A position without a buffer of its own, before and after the step.
  <1>a. ASSUME npk \notin {"start", "returned", "extracted", "inflating"},
               npk' \notin {"idle", "start", "returned", "extracted", "inflating"},
               UNCHANGED <<entries, room, content, capacity, heap>>
        PROVE  heap' = Others \cup Holds' /\ npk' # "idle"
    BY <1>2, <1>a DEF Holds
  <1>3. CASE ParseBuffer
    <2>1. Holds = {} /\ npk = "start"
      BY <1>3 DEF ParseBuffer, Holds
    <2>2. CASE npk' = "header" /\ heap' = heap \cup {PackageBlock}
      <3>1. PackagePtrs = {PackageBlock} /\ PackagePtrs' = PackagePtrs
        BY <1>2, <1>3, <2>1, EarlyPtrs DEF ParseBuffer, Early
      <3> QED BY <2>1, <2>2, <3>1 DEF Holds
    <2>3. CASE npk' = "returned" /\ UNCHANGED heap
      BY <2>1, <2>3 DEF Holds
    <2> QED BY <1>3, <2>2, <2>3 DEF ParseBuffer
  <1>4. CASE TooSmall
    BY <1>4 DEF TooSmall, Holds
  <1>5. CASE Payload
    <2>1. CASE Fail("TRUNCATED")
      BY <1>1, <1>5, <2>1 DEF Payload
    <2>2. CASE npk' = "container" /\ UNCHANGED heap
      BY <1>a, <1>5, <2>2 DEF Payload
    <2> QED BY <1>5, <2>1, <2>2 DEF Payload
  <1>6. CASE Container
    <2>1. CASE Fail("TRUNCATED")
      BY <1>1, <1>6, <2>1 DEF Container
    <2>2. CASE npk' \in {"inflate", "container"} /\ UNCHANGED heap
      BY <1>a, <1>6, <2>2 DEF Container
    <2> QED BY <1>6, <2>1, <2>2 DEF Container
  <1>7. CASE NoContainer
    BY <1>1, <1>7 DEF NoContainer
  <1>8. CASE Inflate
    <2>1. CASE Fail("NO_MEMORY")
      BY <1>1, <1>8, <2>1 DEF Inflate
    <2>2. CASE npk' = "inflating" /\ heap' = heap \cup {Buffer(MinCapacity)} /\ capacity' = MinCapacity
      <3>1. Holds = {PackageBlock}
        BY <1>8, EarlyPtrs DEF Inflate, Holds, Early
      <3>2. PackagePtrs' = {PackageBlock}
        <4>1. entries = <<>> /\ room = 0 /\ content = 0
          BY <1>8 DEF Inflate, NpkData, PlaceMatches, Early
        <4> QED BY <1>8, <4>1, EmptyTable DEF Inflate, PackagePtrs
      <3>3. Holds' = {PackageBlock, Buffer(MinCapacity)}
        <4>1. Buffer(capacity)' = Buffer(MinCapacity)
          BY <2>2 DEF Buffer
        <4> QED BY <2>2, <3>2, <4>1 DEF Holds
      <3> QED BY <2>2, <3>1, <3>3
    <2> QED BY <1>8, <2>1, <2>2 DEF Inflate
  \* While it inflates: the package and the buffer.
  <1>b. ASSUME npk = "inflating"
        PROVE  /\ PackagePtrs = {PackageBlock} /\ Holds = {PackageBlock, Buffer(capacity)}
               /\ heap \ {Buffer(capacity)} = Others \cup {PackageBlock}
               /\ Freed(heap, {Buffer(capacity)}) = Others \cup {PackageBlock}
               /\ PackageBlock \notin Others
    <2>1. PackagePtrs = {PackageBlock}
      BY <1>b, EarlyPtrs DEF Early
    <2>2. Holds = {PackageBlock, Buffer(capacity)}
      BY <1>b, <2>1 DEF Holds
    <2>3. PackageBlock # Buffer(capacity)
      BY DEF PackageBlock, Buffer
    <2>4. heap \ {Buffer(capacity)} = Others \cup {PackageBlock}
      BY <1>0, <2>2, <2>3
    <2>5. Freed(heap, {Buffer(capacity)}) = heap \ {Buffer(capacity)}
      BY <2>2, FreedLive
    <2> QED BY <1>0, <2>1, <2>2, <2>4, <2>5
  <1>c. ASSUME NEW s, npk = "inflating", FailWith(Freed(heap, {Buffer(capacity)}), s)
        PROVE  heap' = Others \cup Holds' /\ npk' # "idle"
    <2>1. heap' = (Others \cup {PackageBlock}) \ {PackageBlock} /\ npk' = "returned"
      BY <1>b, <1>c, FreedLive DEF FailWith
    <2>2. Holds' = {}
      BY <2>1 DEF Holds
    <2> QED BY <1>b, <1>c, <2>1, <2>2
  <1>9. CASE Grow
    <2>1. CASE FailWith(Freed(heap, {Buffer(capacity)}), "NO_MEMORY")
      BY <1>c, <1>9, <2>1 DEF Grow
    <2>2. CASE heap' = Resized(heap, Buffer(capacity), Buffer(2 * capacity))
               /\ capacity' = 2 * capacity /\ UNCHANGED npk
      <3>1. heap' = Others \cup {PackageBlock, Buffer(2 * capacity)}
        BY <1>b, <1>9, <2>2 DEF Grow, Resized
      <3>2. PackagePtrs' = {PackageBlock}
        <4>1. entries = <<>> /\ room = 0 /\ content = 0
          BY <1>9 DEF Grow, NpkData, PlaceMatches, Early
        <4> QED BY <1>9, <4>1, EmptyTable DEF Grow, PackagePtrs
      <3>3. Holds' = {PackageBlock, Buffer(2 * capacity)}
        <4>1. Buffer(capacity)' = Buffer(2 * capacity)
          BY <2>2 DEF Buffer
        <4> QED BY <1>9, <2>2, <3>2, <4>1 DEF Grow, Holds
      <3> QED BY <1>9, <2>2, <3>1, <3>3 DEF Grow
    <2> QED BY <1>9, <2>1, <2>2 DEF Grow
  <1>10. CASE InflateError
    BY <1>c, <1>10 DEF InflateError
  <1>11. CASE StreamEnd
    <2>1. /\ npk = "inflating" /\ npk' = "entry" /\ content' = total /\ total \in Nat
          /\ entries' = <<>> /\ room' = 0
      BY <1>11, Numbers DEF StreamEnd, NpkData, NpkTypes, PlaceMatches, Early
    <2>2. PackagePtrs' = {PackageBlock} \cup IF total > 0 THEN {Buffer(capacity')} ELSE {}
      <3>1. Buffer(capacity)' = Buffer(capacity')
        BY DEF Buffer
      <3> QED BY <2>1, <3>1, EmptyTable DEF PackagePtrs
    <2>3. Holds' = PackagePtrs'
      BY <2>1 DEF Holds
    <2>4. CASE total = 0 /\ heap' = Freed(heap, {Buffer(capacity)})
      <3>1. PackagePtrs' = {PackageBlock}
        BY <2>2, <2>4
      <3>2. heap' = Others \cup {PackageBlock}
        BY <1>b, <2>1, <2>4
      <3> QED BY <2>1, <2>3, <3>1, <3>2
    <2>5. CASE total > 0 /\ heap' = Resized(heap, Buffer(capacity), Buffer(total)) /\ capacity' = total
      BY <1>b, <2>1, <2>2, <2>3, <2>5 DEF Resized
    <2>6. CASE total > 0 /\ UNCHANGED <<heap, capacity>>
      BY <1>b, <2>1, <2>2, <2>3, <2>6
    <2> QED BY <1>11, <2>4, <2>5, <2>6 DEF StreamEnd
  <1>12. CASE Entry
    <2>1. CASE Fail("TRUNCATED")
      BY <1>1, <1>12, <2>1 DEF Entry
    <2>2. CASE npk' = "array" /\ UNCHANGED heap
      BY <1>a, <1>12, <2>2 DEF Entry
    <2> QED BY <1>12, <2>1, <2>2 DEF Entry
  <1>13. CASE GrowArray
    <2>1. CASE Fail("NO_MEMORY")
      BY <1>1, <1>13, <2>1 DEF GrowArray
    <2>2. CASE /\ npk' = "name" /\ room' = Len(entries) + 1
               /\ heap' = IF room = 0 THEN heap \cup {Array(1)}
                          ELSE Resized(heap, Array(room), Array(Len(entries) + 1))
      <3> DEFINE Rest == {PackageBlock} \cup {NameOf(i) : i \in DOMAIN entries}
                         \cup IF content > 0 THEN {Buffer(capacity)} ELSE {}
      <3>1. room = Len(entries) /\ room \in Nat
        BY <1>13, LenProperties DEF GrowArray, NpkData, NpkTypes, PlaceMatches
      <3>2. PackagePtrs = Rest \cup IF room > 0 THEN {Array(room)} ELSE {}
        BY DEF PackagePtrs
      <3>3. PackagePtrs' = Rest \cup {Array(room + 1)}
        <4>1. room' > 0 /\ room' = room + 1
          BY <2>2, <3>1
        <4>2. Array(room)' = Array(room + 1)
          BY <4>1 DEF Array
        <4> QED BY <1>13, <4>1, <4>2 DEF GrowArray, PackagePtrs
      <3>4. Holds = PackagePtrs /\ Holds' = PackagePtrs'
        BY <1>13, <2>2 DEF GrowArray, Holds
      <3>5. Array(room) \notin Rest
        <4>1. Array(room)[1] = "entries"
          BY DEF Array
        <4>2. \A b \in Rest : b[1] # "entries"
          BY DEF NameOf, Buffer, PackageBlock
        <4> QED BY <4>1, <4>2
      <3> HIDE DEF Rest
      <3>6. CASE room = 0
        BY <2>2, <3>2, <3>3, <3>4, <3>6
      <3>7. CASE room > 0
        <4>1. Freed(heap, {Array(room)}) = heap \ {Array(room)}
          BY <3>2, <3>4, <3>7, FreedLive
        <4>2. heap' = (heap \ {Array(room)}) \cup {Array(room + 1)}
          <5>1. room # 0
            BY <3>7
          <5>2. heap' = Resized(heap, Array(room), Array(Len(entries) + 1))
            BY <2>2, <5>1
          <5> QED BY <3>1, <4>1, <5>2 DEF Resized
        <4>3. heap \ {Array(room)} = Others \cup Rest
          BY <1>0, <3>2, <3>4, <3>5, <3>7
        <4> QED BY <2>2, <3>3, <3>4, <4>2, <4>3
      <3> QED BY <3>1, <3>6, <3>7
    <2> QED BY <1>13, <2>1, <2>2 DEF GrowArray
  <1>14. CASE AppendEntry
    <2>1. CASE Fail("NO_MEMORY")
      BY <1>1, <1>14, <2>1 DEF AppendEntry
    <2>2. CASE npk' = "entry" /\ entries' = Append(entries, now)
               /\ heap' = heap \cup {NameOf(Len(entries) + 1)}
      <3>1. entries \in Seq(EntryRecord) /\ now \in EntryRecord
        BY DEF NpkData, NpkTypes
      <3>2. Len(entries) \in Nat /\ DOMAIN entries = 1 .. Len(entries)
            /\ DOMAIN entries' = 1 .. Len(entries) + 1
        BY <2>2, <3>1, LenProperties, AppendProperties
      <3>3. DOMAIN entries' = DOMAIN entries \cup {Len(entries) + 1}
        BY <3>2
      <3>4. PackagePtrs' = PackagePtrs \cup {NameOf(Len(entries) + 1)}
        BY <1>14, <3>3 DEF AppendEntry, PackagePtrs
      <3>5. Holds = PackagePtrs /\ Holds' = PackagePtrs'
        BY <1>14, <2>2 DEF AppendEntry, Holds
      <3> QED BY <2>2, <3>4, <3>5
    <2> QED BY <1>14, <2>1, <2>2 DEF AppendEntry
  <1>15. CASE Parsed
    BY <1>a, <1>15 DEF Parsed
  <1>16. CASE Extract
    <2>1. npkStatus = "OK" /\ Holds = PackagePtrs /\ npk' = "extracted"
      BY <1>16 DEF Extract, NpkData, PlaceMatches, Holds
    <2>2. Freed(heap, PackagePtrs) = Others
      <3>1. Freed(heap, PackagePtrs) = heap \ PackagePtrs
        BY <2>1, FreedLive
      <3> QED BY <1>0, <2>1, <3>1
    <2>3. CASE /\ heap' = Freed(heap, PackagePtrs) \cup IF now'.size > 0 THEN {CopyBlock} ELSE {}
               /\ UNCHANGED npkStatus
      BY <2>1, <2>2, <2>3 DEF Holds
    <2>4. CASE heap' = Freed(heap, PackagePtrs) /\ npkStatus' # "OK"
      BY <2>1, <2>2, <2>4 DEF Holds
    <2> QED BY <1>16, <2>3, <2>4 DEF Extract
  <1> QED BY <1>3, <1>4, <1>5, <1>6, <1>7, <1>8, <1>9, <1>10, <1>11, <1>12, <1>13, <1>14,
             <1>15, <1>16 DEF NpkNext

(***************************************************************************)
(* The runs of the loader.                                                 *)
(***************************************************************************)

\* The inductive invariant: where the parser is, what the heap holds at each
\* step, and what the installed device tree names.
IInv == NpkData /\ RunsFreeTheirBuffers /\ DtbNamesLivePages

\* While the parser runs, its blocks in the heap are those it holds.
LEMMA IInvImplies == IInv => NpkInv
  <1> SUFFICES ASSUME IInv PROVE NpkInv
    OBVIOUS
  <1>1. NpkTypeOK
    BY DEF IInv, NpkData, NpkTypes, NpkTypeOK
  <1>2. pc # "parse" => npk = "idle"
    BY DEF IInv, DtbNamesLivePages, LoaderTypeOK
  <1>3. pc = "parse" => Mine = Holds
    <2> SUFFICES ASSUME pc = "parse" PROVE Mine = Holds
      OBVIOUS
    <2>1. heap \ Kept = {NpkBlock} \cup Holds
      BY DEF IInv, RunsFreeTheirBuffers, Held, Booting
    <2>2. NpkBlock[1] = "npk"
      BY DEF NpkBlock
    <2>3. Mine = {b \in heap : b[1] \in ParserTags}
      BY DEF Mine, ParserTags
    <2>4. Holds \subseteq heap /\ \A b \in heap : b \in Kept \/ b = NpkBlock \/ b \in Holds
      BY <2>1
    <2> QED BY <2>2, <2>3, <2>4, KeptTags, HoldsTags DEF ParserTags
  <1>4. OwnsWhatItFrees
    BY <1>2, <1>3 DEF OwnsWhatItFrees
  <1> QED BY <1>1, <1>4 DEF NpkInv, IInv, NpkData

\* A machine that has not run the loader yet.
LEMMA InitIInv == Init => IInv
  <1> SUFFICES ASSUME Init PROVE IInv
    OBVIOUS
  <1>0. MaxRuns \in Nat
    BY LoaderRunsAssumption
  <1>1. NpkTypes
    BY EmptyTable DEF Init, NpkInit, NpkTypes, EntryRecord, Early
  <1>2. PlaceMatches
    BY DEF Init, NpkInit, PlaceMatches
  <1>3. ReadsStayInFile /\ EntriesTile
    BY EmptyTable DEF Init, NpkInit, ReadsStayInFile, EntriesTile
  <1>4. RunsFreeTheirBuffers
    BY DEF Init, RunsFreeTheirBuffers, Kept, NewDtb, Held, Booting
  <1>5. LoaderTypeOK
    BY <1>0 DEF Init, NpkInit, LoaderTypeOK, Booting
  <1>6. DtbNamesLivePages
    BY <1>5 DEF Init, DtbNamesLivePages, NewDtb
  <1> QED BY <1>1, <1>2, <1>3, <1>4, <1>6 DEF IInv, NpkData

\* A step outside the parser leaves its place alone.
LEMMA SameData ==
  ASSUME NpkData, UNCHANGED npkVars PROVE NpkData'
  <1>1. NpkTypes'
    BY DEF NpkData, NpkTypes, npkVars
  <1>2. PlaceMatches'
    BY DEF NpkData, PlaceMatches, ParsedTo, Ends, npkVars
  <1>3. ReadsStayInFile' /\ EntriesTile'
    BY DEF NpkData, ReadsStayInFile, EntriesTile, Ends, npkVars
  <1> QED BY <1>1, <1>2, <1>3 DEF NpkData

\* What outlives a run outlives the next one.
LEMMA KeptGrows ==
  ASSUME runs \in Nat, runs' = runs + 1, UNCHANGED pages
  PROVE  Kept \subseteq Kept'
  <1>1. WithPages \subseteq WithPages' /\ 1 .. runs \subseteq 1 .. runs'
    BY DEF WithPages
  <1>2. \A r : NewDtb(r)' = NewDtb(r) /\ PagesOf(r)' = PagesOf(r) /\ Lost(r)' = Lost(r)
    BY DEF NewDtb, PagesOf, Lost
  <1> QED BY <1>1, <1>2 DEF Kept

\* The blocks of a run are none of those that outlive it.
LEMMA OwnBlocks ==
  /\ NpkBlock \notin Kept /\ StubBlock \notin Kept /\ InitrdBlock \notin Kept /\ CopyBlock \notin Kept
  /\ StubBlock # CopyBlock /\ InitrdBlock # CopyBlock /\ StubBlock # InitrdBlock
  <1>1. /\ NpkBlock[1] = "npk" /\ StubBlock[1] = "stub" /\ InitrdBlock[1] = "initrd"
        /\ CopyBlock[1] = "copy"
    BY DEF NpkBlock, StubBlock, InitrdBlock, CopyBlock
  <1> QED BY <1>1, KeptTags

\* A step that frees some of what the run holds, and allocates more to hold.
LEMMA HeldStep ==
  ASSUME heap \ Kept = Held, Kept' = Kept, NEW Gone, NEW More, Gone \subseteq Held,
         More \cap Kept = {}, heap' = (heap \ Gone) \cup More, Held' = (Held \ Gone) \cup More
  PROVE  RunsFreeTheirBuffers'
  <1>1. heap' \ Kept' = Held'
    OBVIOUS
  <1>2. pc' = "returned" => Held' = {}
    BY DEF Held, Booting
  <1> QED BY <1>1, <1>2 DEF RunsFreeTheirBuffers

\* A block that is freed is neither the device tree's nor its RAM disk's.
LEMMA StaysLive ==
  ASSUME DtbNamesLivePages, NEW Gone,
         \A b \in Gone : b[1] \notin {"dtb", "pages"},
         heap \ Gone \subseteq heap', UNCHANGED <<dtb, pages, runs>>,
         pc' = "patch" => pc = "patch", LoaderTypeOK'
  PROVE  DtbNamesLivePages'
  <1>1. PICK r \in 0 .. runs : dtb.buf = NewDtb(r)
    BY DEF DtbNamesLivePages, LoaderTypeOK
  <1>2. dtb.buf[1] = "dtb" /\ PagesOf(dtb.run)[1] = "pages" /\ PagesOf(runs)[1] = "pages"
    BY <1>1 DEF NewDtb, PagesOf
  <1>3. dtb.buf \notin Gone /\ PagesOf(dtb.run) \notin Gone /\ PagesOf(runs) \notin Gone
    BY <1>2
  <1>4. PagesOf(dtb.run)' = PagesOf(dtb.run) /\ PagesOf(runs)' = PagesOf(runs)
    BY DEF PagesOf
  <1> QED BY <1>3, <1>4 DEF DtbNamesLivePages

\* Every step of a run keeps it, whichever way the step goes.
LEMMA NextIInv == IInv /\ [Next]_vars => IInv'
  <1> SUFFICES ASSUME IInv, [Next]_vars PROVE IInv'
    OBVIOUS
  <1>0. /\ LoaderTypeOK /\ NpkData /\ DtbNamesLivePages /\ runs \in Nat /\ MaxRuns \in Nat
        /\ heap \ Kept = Held
    BY LoaderRunsAssumption
       DEF IInv, DtbNamesLivePages, LoaderTypeOK, RunsFreeTheirBuffers
  <1>a. ASSUME UNCHANGED <<runs, pages>> PROVE Kept' = Kept
    BY <1>a DEF Kept, WithPages, NewDtb, PagesOf, Lost
  \* A step that neither allocates nor frees, and has the same to free as before.
  <1>h. ASSUME UNCHANGED <<runs, pages, heap>>, Held' = Held PROVE RunsFreeTheirBuffers'
    <2> DEFINE None == {}
    <2>1. None \subseteq Held /\ None \cap Kept = {} /\ heap' = (heap \ None) \cup None
          /\ Held' = (Held \ None) \cup None
      BY <1>h
    <2> HIDE DEF None
    <2> QED BY <1>0, <1>a, <1>h, <2>1, HeldStep
  <1>1. CASE FindAndReadNpk
    <2>1. heap \subseteq Kept /\ npk = "idle" /\ pc = "returned" /\ runs' = runs + 1
      BY <1>1 DEF FindAndReadNpk, IInv, RunsFreeTheirBuffers, DtbNamesLivePages, LoaderTypeOK
    <2>2. Kept \subseteq Kept'
      BY <1>0, <1>1, <2>1, KeptGrows DEF FindAndReadNpk
    <2>3. LoaderTypeOK'
      BY <1>0, <1>1, <2>1 DEF FindAndReadNpk, LoaderTypeOK, NpkStart, npkVars, Return, Booting
    <2>4. DtbNamesLivePages'
      <3>1. heap \subseteq heap' /\ UNCHANGED <<dtb, pages>> /\ pc' # "patch"
        BY <1>1 DEF FindAndReadNpk, Return
      <3>2. PagesOf(dtb.run)' = PagesOf(dtb.run)
        BY <3>1 DEF PagesOf
      <3> QED BY <1>0, <2>3, <3>1, <3>2 DEF DtbNamesLivePages
    <2>5. CASE Return("NOT_FOUND") /\ UNCHANGED <<heap, npkVars>>
      <3>1. RunsFreeTheirBuffers'
        BY <2>1, <2>2, <2>5 DEF RunsFreeTheirBuffers, Return, Held, Booting
      <3> QED BY <1>0, <2>4, <2>5, <3>1, SameData DEF IInv
    <2>6. ASSUME NEW n \in FileSizes, NpkStart(n), heap' = heap \cup {NpkBlock}, pc' = "parse"
          PROVE  IInv'
      <3>1. RunsFreeTheirBuffers'
        <4>1. Held' = {NpkBlock}
          <5>1. Holds' = {} /\ NpkBlock' = NpkBlock
            BY <2>6 DEF NpkStart, Holds, NpkBlock
          <5> QED BY <2>6, <5>1 DEF Held, Booting
        <4>2. NpkBlock \notin Kept'
          <5>1. \A b \in Kept' : b[1] \in {"dtb", "pages", "lost"}
            BY DEF Kept, NewDtb, PagesOf, Lost
          <5> QED BY <5>1 DEF NpkBlock
        <4> QED BY <2>1, <2>2, <2>6, <4>1, <4>2 DEF RunsFreeTheirBuffers
      <3>2. end = 0 /\ reach = 0 /\ content = 0 /\ entries = <<>> /\ room = 0 /\ npkStatus = "none"
        BY <1>0, <2>1 DEF NpkData, PlaceMatches, Early
      <3>3. NpkTypes'
        BY <1>0, <2>6, <3>2, Numbers DEF NpkData, NpkTypes, NpkStart, Early
      <3>4. PlaceMatches'
        BY <2>6, <3>2 DEF PlaceMatches, NpkStart
      <3>5. ReadsStayInFile' /\ EntriesTile'
        BY <2>6, <3>2, EmptyTable, Numbers DEF ReadsStayInFile, EntriesTile, NpkStart
      <3> QED BY <2>4, <3>1, <3>3, <3>4, <3>5 DEF IInv, NpkData
    <2> QED BY <1>1, <2>5, <2>6 DEF FindAndReadNpk
  <1>2. CASE Parse
    <2>1. pc = "parse" /\ NpkNext /\ UNCHANGED loaderVars /\ npk # "idle"
      BY <1>0, <1>2 DEF Parse, LoaderTypeOK
    <2>2. NpkData'
      BY <1>0, <2>1, NpkStep
    <2> DEFINE Others == (heap \cap Kept) \cup {NpkBlock}
    <2>3. Held = {NpkBlock} \cup Holds /\ heap = Others \cup Holds
      BY <1>0, <2>1 DEF Held, Booting
    <2>4. /\ heap' = Others \cup Holds' /\ npk' # "idle"
          /\ heap \ Holds \subseteq heap'
      <3>1. \A b \in Others : b[1] \notin ParserTags
        BY KeptTags DEF NpkBlock, ParserTags
      <3> HIDE DEF Others
      <3> QED BY <1>0, <2>1, <2>3, <3>1, NpkHeap
    <2>5. RunsFreeTheirBuffers'
      <3>1. Held' = {NpkBlock} \cup Holds' /\ pc' = "parse"
        <4>1. NpkBlock' = NpkBlock /\ pc' = "parse"
          BY <2>1 DEF NpkBlock, loaderVars
        <4> QED BY <4>1 DEF Held, Booting
      <3>2. Kept' = Kept
        BY <1>a, <2>1 DEF loaderVars
      <3>3. \A b \in Holds' : b \notin Kept
        <4>1. \A b \in Kept' : b[1] \in {"dtb", "pages", "lost"}
          BY DEF Kept, NewDtb, PagesOf, Lost
        <4>2. \A b \in Holds' : b[1] \in ParserTags
          <5>1. /\ CopyBlock'[1] = "copy" /\ Buffer(capacity)'[1] = "content"
            BY DEF CopyBlock, Buffer
          <5>2. \A b \in PackagePtrs' : b[1] \in {"package", "content", "entries", "name"}
            BY DEF PackagePtrs, NameOf, Array, Buffer, PackageBlock
          <5> QED BY <5>1, <5>2 DEF Holds, ParserTags
        <4> QED BY <3>2, <4>1, <4>2 DEF ParserTags
      <3>4. heap' \ Kept = {NpkBlock} \cup Holds'
        BY <2>4, <3>3, OwnBlocks
      <3> QED BY <3>1, <3>2, <3>4 DEF RunsFreeTheirBuffers
    <2>6. LoaderTypeOK'
      BY <1>0, <2>1, <2>4 DEF LoaderTypeOK, loaderVars, Booting
    <2>7. DtbNamesLivePages'
      <3>1. \A b \in Holds : b[1] \notin {"dtb", "pages"}
        BY HoldsTags DEF ParserTags
      <3> QED BY <1>0, <2>1, <2>4, <2>6, <3>1, StaysLive DEF loaderVars
    <2> QED BY <2>2, <2>5, <2>7 DEF IInv
  <1>3. CASE TakeKernelFile
    <2>1. NpkData'
      <3>1. NpkTypes'
        BY <1>3, EmptyTable DEF TakeKernelFile, NpkForget, NpkTypes, EntryRecord, Early
      <3>2. PlaceMatches'
        BY <1>3 DEF TakeKernelFile, NpkForget, PlaceMatches
      <3>3. ReadsStayInFile' /\ EntriesTile'
        BY <1>3, EmptyTable DEF TakeKernelFile, NpkForget, ReadsStayInFile, EntriesTile
      <3> QED BY <3>1, <3>2, <3>3 DEF NpkData
    <2>2. LoaderTypeOK'
      BY <1>0, <1>3 DEF TakeKernelFile, NpkForget, LoaderTypeOK, Return, Booting
    <2>3. DtbNamesLivePages'
      <3> DEFINE Gone == {NpkBlock}
      <3>1. \A b \in Gone : b[1] \notin {"dtb", "pages"}
        BY DEF NpkBlock
      <3>2. heap \ Gone \subseteq heap' /\ UNCHANGED <<dtb, pages, runs>> /\ pc' # "patch"
        BY <1>3 DEF TakeKernelFile, Return, Freed
      <3> HIDE DEF Gone
      <3> QED BY <1>0, <2>2, <3>1, <3>2, StaysLive
    <2>4. RunsFreeTheirBuffers'
      <3> DEFINE None == {}
                 Gone == {NpkBlock}
      <3>1. Held = {NpkBlock} \cup Holds /\ pc = "parse"
        BY <1>3 DEF TakeKernelFile, Held, Booting
      <3>2. heap' = heap \ {NpkBlock} /\ Kept' = Kept
        <4>1. NpkBlock \in heap
          BY <1>0, <3>1
        <4> QED BY <1>3, <1>a, <4>1, FreedLive DEF TakeKernelFile
      <3>3. Held' = Holds /\ NpkBlock \notin Holds
        <4>0. NpkBlock \notin Holds
          BY HoldsTags DEF NpkBlock, ParserTags
        <4>1. CASE npk = "extracted" /\ npkStatus = "OK" /\ pc' = "section"
          <5>1. Holds = IF now.size > 0 THEN {CopyBlock} ELSE {}
            BY <4>1 DEF Holds
          <5>2. pkg'.size > 0 <=> now.size > 0
            BY <1>3, <4>1 DEF TakeKernelFile, Return
          <5>3. Held' = KernelElf' /\ CopyBlock' = CopyBlock
            BY <4>1 DEF Held, Booting, CopyBlock
          <5> QED BY <4>0, <5>1, <5>2, <5>3 DEF KernelElf
        <4>2. CASE npk \in {"extracted", "returned"} /\ npkStatus # "OK" /\ pc' = "returned"
          BY <4>0, <4>2 DEF Holds, Held, Booting
        <4>3. npk = "returned" => npkStatus # "OK"
          BY <1>0 DEF NpkData, PlaceMatches
        <4> QED BY <1>3, <4>1, <4>2, <4>3 DEF TakeKernelFile, Return
      <3>4. Gone \subseteq Held /\ None \cap Kept = {} /\ heap' = (heap \ Gone) \cup None
            /\ Held' = (Held \ Gone) \cup None
        BY <3>1, <3>2, <3>3
      <3> HIDE DEF Gone, None
      <3> QED BY <1>0, <3>2, <3>4, HeldStep
    <2> QED BY <2>1, <2>3, <2>4 DEF IInv
  <1> DEFINE Own == {StubBlock, InitrdBlock, CopyBlock}
  \* The other steps free at most the stub, the RAM disk and boot/kernel.
  <1>b. ASSUME UNCHANGED npkVars, UNCHANGED <<runs, dtb, pages>>, heap \ Own \subseteq heap',
               pc' # "patch", LoaderTypeOK', RunsFreeTheirBuffers'
        PROVE  IInv'
    <2>1. \A b \in Own : b[1] \notin {"dtb", "pages"}
      BY DEF StubBlock, InitrdBlock, CopyBlock
    <2> HIDE DEF Own
    <2>2. DtbNamesLivePages'
      BY <1>0, <1>b, <2>1, StaysLive
    <2> QED BY <1>0, <1>b, <2>2, SameData DEF IInv
  <1>4. CASE FindElfSection
    <2>1. pc = "section" /\ pc' \in {"stream1", "fallback"}
          /\ UNCHANGED <<npkVars, runs, pkg, heap, Initrd, dtb, pages>>
      BY <1>4 DEF FindElfSection
    <2>2. LoaderTypeOK'
      BY <1>0, <2>1 DEF LoaderTypeOK, npkVars, Booting
    <2>3. RunsFreeTheirBuffers'
      <3>1. Held' = Held
        BY <2>1 DEF Held, KernelElf, CopyBlock, Booting
      <3> QED BY <1>h, <2>1, <3>1
    <2> QED BY <1>b, <2>1, <2>2, <2>3
  <1>5. CASE ScanAfterPtLoad
    <2>1. pc = "fallback" /\ pc' = "stream1"
          /\ UNCHANGED <<npkVars, runs, pkg, heap, Initrd, dtb, pages>>
      BY <1>5 DEF ScanAfterPtLoad
    <2>2. LoaderTypeOK'
      BY <1>0, <2>1 DEF LoaderTypeOK, npkVars, Booting
    <2>3. RunsFreeTheirBuffers'
      <3>1. Held' = Held
        BY <2>1 DEF Held, KernelElf, CopyBlock, Booting
      <3> QED BY <1>h, <2>1, <3>1
    <2> QED BY <1>b, <2>1, <2>2, <2>3
  <1>6. CASE Stream1
    <2>1. pc = "stream1" /\ pc' \in {"stub", "returned"}
          /\ UNCHANGED <<npkVars, runs, pkg, Initrd, dtb, pages>>
      BY <1>6 DEF Stream1, Return
    <2>2. LoaderTypeOK'
      BY <1>0, <2>1 DEF LoaderTypeOK, npkVars, Booting
    <2>3. Held = KernelElf /\ KernelElf \subseteq heap /\ KernelElf \subseteq Own
      BY <1>0, <2>1 DEF Held, Booting, KernelElf
    <2> DEFINE Gone == IF pc' = "stub" THEN {} ELSE KernelElf
               More == IF pc' = "stub" THEN {StubBlock} ELSE {}
    <2>4. heap' = (heap \ Gone) \cup More
      <3>1. CASE heap' = heap \cup {StubBlock} /\ pc' = "stub"
        BY <3>1
      <3>2. CASE heap' = Freed(heap, KernelElf) /\ pc' = "returned"
        BY <2>3, <3>2, FreedLive
      <3> QED BY <1>6, <3>1, <3>2 DEF Stream1, Return
    <2>5. Held' = (Held \ Gone) \cup More
      <3>1. KernelElf' = KernelElf /\ StubBlock' = StubBlock
        BY <2>1 DEF KernelElf, CopyBlock, StubBlock
      <3> QED BY <2>1, <2>3, <3>1 DEF Held, Booting
    <2>6. Gone \subseteq Held /\ More \cap Kept = {} /\ Gone \subseteq Own
      BY <2>3, OwnBlocks
    <2>7. Kept' = Kept
      BY <1>a, <2>1
    <2> HIDE DEF Gone, More, Own
    <2>8. RunsFreeTheirBuffers'
      BY <1>0, <2>4, <2>5, <2>6, <2>7, HeldStep
    <2>9. heap \ Own \subseteq heap'
      BY <2>4, <2>6
    <2> QED BY <1>b, <2>1, <2>2, <2>8, <2>9 DEF Own
  <1>7. CASE NotStub
    <2>1. pc = "stub" /\ pc' = "returned"
          /\ UNCHANGED <<npkVars, runs, pkg, Initrd, dtb, pages>>
          /\ heap' = Freed(Freed(heap, {StubBlock}), KernelElf)
      BY <1>7 DEF NotStub, Return
    <2>2. LoaderTypeOK'
      BY <1>0, <2>1 DEF LoaderTypeOK, npkVars, Booting
    <2>3. Held = KernelElf \cup {StubBlock} /\ KernelElf \subseteq {CopyBlock}
      BY <2>1 DEF Held, Booting, KernelElf
    <2>4. heap' = heap \ Held
      <3>1. Freed(heap, {StubBlock}) = heap \ {StubBlock} /\ KernelElf \subseteq heap \ {StubBlock}
        BY <1>0, <2>3, OwnBlocks, FreedLive
      <3>2. heap' = (heap \ {StubBlock}) \ KernelElf
        BY <2>1, <3>1, FreedLive
      <3> QED BY <2>3, <3>2
    <2>5. Held' = {}
      BY <2>1 DEF Held, Booting
    <2>6. RunsFreeTheirBuffers'
      BY <1>0, <1>a, <2>1, <2>4, <2>5 DEF RunsFreeTheirBuffers
    <2>7. heap \ Own \subseteq heap'
      BY <2>3, <2>4
    <2> QED BY <1>b, <2>1, <2>2, <2>6, <2>7
  <1>8. CASE TakeStub
    <2>1. pc = "stub" /\ pc' = "stream2"
          /\ UNCHANGED <<npkVars, runs, pkg, heap, Initrd, dtb, pages>>
      BY <1>8 DEF TakeStub
    <2>2. LoaderTypeOK'
      BY <1>0, <2>1 DEF LoaderTypeOK, npkVars, Booting
    <2>3. RunsFreeTheirBuffers'
      <3>1. Held' = Held
        BY <2>1 DEF Held, KernelElf, CopyBlock, StubBlock, Booting
      <3> QED BY <1>h, <2>1, <3>1
    <2> QED BY <1>b, <2>1, <2>2, <2>3
  <1>9. CASE Stream2
    <2>1. /\ pc = "stream2" /\ pc' = "boot" /\ UNCHANGED <<npkVars, runs, dtb, pages>>
          /\ pkg \in Packages /\ pkg.id # NoInitrd /\ runs \in 1 .. MaxRuns
      BY <1>0, <1>9, LoaderRunsAssumption DEF Stream2, LoaderTypeOK, NoInitrd, Booting
    <2>2. PICK kind : /\ Initrd' = Stream2Outcome(kind).data
                      /\ heap' = Freed(heap \cup Stream2Outcome(kind).left, KernelElf)
      BY <1>9 DEF Stream2
    <2> DEFINE left == Stream2Outcome(kind).left
    <2>3. /\ Initrd' \in {pkg.id, NoInitrd}
          /\ left \subseteq {InitrdBlock, Lost(runs)}
          /\ InitrdBlock \in left <=> Initrd' # NoInitrd
      <3>1. InitrdBlock # Lost(runs)
        BY DEF InitrdBlock, Lost
      <3> QED BY <2>1, <2>2, <3>1 DEF Stream2Outcome
    <2>4. LoaderTypeOK'
      BY <1>0, <2>1, <2>3 DEF LoaderTypeOK, npkVars, Booting
    <2> HIDE DEF left
    <2>5. Held = KernelElf \cup {StubBlock} /\ KernelElf \subseteq {CopyBlock}
      BY <2>1 DEF Held, Booting, KernelElf
    <2>6. heap' = (heap \cup left) \ KernelElf
      <3>1. KernelElf \subseteq heap \cup left
        BY <1>0, <2>5
      <3> QED BY <2>2, <3>1, FreedLive DEF left
    <2>7. Held' = {StubBlock} \cup (left \cap {InitrdBlock})
      <3>1. StubBlock' = StubBlock /\ InitrdBlock' = InitrdBlock
        BY DEF StubBlock, InitrdBlock
      <3> QED BY <2>1, <2>3, <3>1 DEF Held, InitrdData, Booting
    <2>8. Lost(runs) \in Kept /\ Kept' = Kept
      BY <1>a, <2>1 DEF Kept
    <2>9. heap' \ Kept = Held'
      BY <1>0, <2>3, <2>5, <2>6, <2>7, <2>8, OwnBlocks
    <2>10. RunsFreeTheirBuffers'
      BY <2>1, <2>8, <2>9 DEF RunsFreeTheirBuffers
    <2>11. heap \ Own \subseteq heap'
      BY <2>5, <2>6
    <2> QED BY <1>b, <2>1, <2>4, <2>10, <2>11
  <1>10. CASE CopyInitrd
    <2>1. pc = "boot" /\ Initrd # NoInitrd /\ UNCHANGED <<npkVars, runs, pkg, Initrd, dtb>>
          /\ runs \in 1 .. MaxRuns
      BY <1>0, <1>10 DEF CopyInitrd, LoaderTypeOK
    <2>2. CASE pc' = "failed" /\ UNCHANGED <<heap, pages>>
      <3>1. LoaderTypeOK'
        BY <1>0, <2>1, <2>2 DEF LoaderTypeOK, npkVars, Booting
      <3>2. RunsFreeTheirBuffers'
        <4>1. Held' = Held
          BY <2>1, <2>2 DEF Held, InitrdData, InitrdBlock, StubBlock, Booting
        <4> QED BY <1>h, <2>1, <2>2, <4>1
      <3> QED BY <1>b, <2>1, <2>2, <3>1, <3>2
    <2>3. CASE pc' = "patch" /\ heap' = heap \cup {PagesOf(runs)}
               /\ pages' = [pages EXCEPT ![runs] = Initrd]
      <3>1. LoaderTypeOK'
        BY <1>0, <2>1, <2>3 DEF LoaderTypeOK, npkVars, Booting
      <3>2. Kept' = Kept \cup {NewDtb(runs), PagesOf(runs)}
        <4>1. WithPages' = WithPages \cup {runs}
          BY <1>0, <2>1, <2>3 DEF WithPages, LoaderTypeOK
        <4>2. \A r : NewDtb(r)' = NewDtb(r) /\ PagesOf(r)' = PagesOf(r) /\ Lost(r)' = Lost(r)
          BY DEF NewDtb, PagesOf, Lost
        <4> QED BY <2>1, <4>1, <4>2 DEF Kept
      <3>3. RunsFreeTheirBuffers'
        <4>1. Held' = Held /\ Held = {StubBlock, InitrdBlock}
          BY <2>1, <2>3 DEF Held, InitrdData, InitrdBlock, StubBlock, Booting
        <4>2. StubBlock \notin {NewDtb(runs), PagesOf(runs)}
              /\ InitrdBlock \notin {NewDtb(runs), PagesOf(runs)}
          BY DEF StubBlock, InitrdBlock, NewDtb, PagesOf
        <4>3. heap' \ Kept' = Held'
          BY <1>0, <2>3, <3>2, <4>1, <4>2
        <4> QED BY <2>3, <4>3 DEF RunsFreeTheirBuffers
      <3>4. pages'[runs] # NoInitrd /\ \A r \in 1 .. MaxRuns : pages[r] # NoInitrd => pages'[r] # NoInitrd
        BY <1>0, <2>1, <2>3 DEF LoaderTypeOK
      <3>5. PagesOf(dtb.run)' = PagesOf(dtb.run) /\ PagesOf(runs)' = PagesOf(runs)
        BY <2>1 DEF PagesOf
      <3>6. dtb.run \in 0 .. MaxRuns
        BY <1>0, <2>1 DEF LoaderTypeOK
      <3>7. DtbNamesLivePages'
        BY <1>0, <2>1, <2>3, <3>1, <3>4, <3>5, <3>6 DEF DtbNamesLivePages
      <3> QED BY <1>0, <2>1, <3>3, <3>7, SameData DEF IInv
    <2> QED BY <1>10, <2>2, <2>3 DEF CopyInitrd
  <1>11. CASE PatchDtbInitrd
    <2>1. pc = "patch" /\ pc' = "load" /\ UNCHANGED <<npkVars, runs, pkg, Initrd, pages>>
          /\ runs \in 1 .. MaxRuns
      BY <1>0, <1>11 DEF PatchDtbInitrd, LoaderTypeOK
    <2>2. CASE UNCHANGED <<dtb, heap>>
      <3>1. LoaderTypeOK'
        BY <1>0, <2>1, <2>2 DEF LoaderTypeOK, npkVars, Booting
      <3>2. RunsFreeTheirBuffers'
        <4>1. Held' = Held
          BY <2>1, <2>2 DEF Held, InitrdData, InitrdBlock, StubBlock, Booting
        <4> QED BY <1>h, <2>1, <2>2, <4>1
      <3> QED BY <1>b, <2>1, <2>2, <3>1, <3>2
    <2>3. CASE dtb' = [buf |-> NewDtb(runs), run |-> runs] /\ heap' = heap \cup {NewDtb(runs)}
      <3>1. LoaderTypeOK'
        BY <1>0, <2>1, <2>3 DEF LoaderTypeOK, npkVars, Booting
      <3>2. NewDtb(runs) \in Kept /\ Kept' = Kept
        <4>1. runs \in WithPages
          BY <1>0, <2>1 DEF WithPages, DtbNamesLivePages
        <4> QED BY <1>a, <2>1, <4>1 DEF Kept
      <3>3. RunsFreeTheirBuffers'
        <4>1. Held' = Held
          BY <2>1 DEF Held, InitrdData, InitrdBlock, StubBlock, Booting
        <4>2. heap' \ Kept' = Held'
          BY <1>0, <2>3, <3>2, <4>1
        <4> QED BY <2>1, <4>2 DEF RunsFreeTheirBuffers
      <3>4. PagesOf(dtb.run)' = PagesOf(runs)
        BY <2>1, <2>3 DEF PagesOf
      <3>5. DtbNamesLivePages'
        BY <1>0, <2>1, <2>3, <3>1, <3>4 DEF DtbNamesLivePages
      <3> QED BY <1>0, <2>1, <3>3, <3>5, SameData DEF IInv
    <2> QED BY <1>11, <2>2, <2>3 DEF PatchDtbInitrd
  <1>12. CASE BootWithout \/ StartKernel \/ LoadFails
    <2>1. pc \in Booting /\ pc' \in Booting \ {"patch"} /\ pc # "returned"
          /\ UNCHANGED <<npkVars, runs, pkg, heap, Initrd, dtb, pages>>
      BY <1>12 DEF BootWithout, StartKernel, LoadFails, Booting
    <2>2. LoaderTypeOK'
      BY <1>0, <2>1 DEF LoaderTypeOK, npkVars, Booting
    <2>3. RunsFreeTheirBuffers'
      <3>1. Held' = Held
        BY <2>1 DEF Held, InitrdData, InitrdBlock, StubBlock, Booting
      <3> QED BY <1>h, <2>1, <3>1
    <2> QED BY <1>b, <2>1, <2>2, <2>3 DEF Booting
  <1>13. CASE CleanUp
    <2>1. pc = "failed" /\ pc' = "returned" /\ UNCHANGED <<npkVars, runs, pkg, Initrd, dtb, pages>>
          /\ heap' = Freed(Freed(heap, InitrdData), {StubBlock})
      BY <1>13 DEF CleanUp, Return
    <2>2. LoaderTypeOK'
      BY <1>0, <2>1 DEF LoaderTypeOK, npkVars, Booting
    <2>3. Held = InitrdData \cup {StubBlock} /\ InitrdData \subseteq {InitrdBlock}
      BY <2>1 DEF Held, Booting, InitrdData
    <2>4. heap' = heap \ Held
      <3>1. Freed(heap, InitrdData) = heap \ InitrdData /\ StubBlock \in heap \ InitrdData
        BY <1>0, <2>3, OwnBlocks, FreedLive
      <3>2. heap' = (heap \ InitrdData) \ {StubBlock}
        BY <2>1, <3>1, FreedLive
      <3> QED BY <2>3, <3>2
    <2>5. Held' = {}
      BY <2>1 DEF Held, Booting
    <2>6. RunsFreeTheirBuffers'
      BY <1>0, <1>a, <2>1, <2>4, <2>5 DEF RunsFreeTheirBuffers
    <2>7. heap \ Own \subseteq heap'
      BY <2>3, <2>4
    <2> QED BY <1>b, <2>1, <2>2, <2>6, <2>7
  <1>14. CASE UNCHANGED vars
    <2>1. UNCHANGED <<npkVars, heap, pc, runs, pkg, Initrd, dtb, pages>>
      BY <1>14 DEF vars, loaderVars
    <2>2. LoaderTypeOK'
      BY <1>0, <2>1 DEF LoaderTypeOK, npkVars, Booting
    <2>3. Held' = Held
      BY <2>1 DEF Held, Holds, PackagePtrs, NameOf, Array, Buffer, PackageBlock, CopyBlock,
                  NpkBlock, StubBlock, InitrdBlock, KernelElf, InitrdData, npkVars
    <2>4. RunsFreeTheirBuffers'
      BY <1>h, <2>1, <2>3
    <2>5. DtbNamesLivePages'
      <3>1. PagesOf(dtb.run)' = PagesOf(dtb.run) /\ PagesOf(runs)' = PagesOf(runs)
        BY <2>1 DEF PagesOf
      <3> QED BY <1>0, <2>1, <2>2, <3>1 DEF DtbNamesLivePages
    <2> QED BY <1>0, <2>1, <2>4, <2>5, SameData DEF IInv
  <1> QED BY <1>1, <1>2, <1>3, <1>4, <1>5, <1>6, <1>7, <1>8, <1>9, <1>10, <1>11, <1>12,
             <1>13, <1>14 DEF Next

(***************************************************************************)
(* The theorems.                                                           *)
(***************************************************************************)

\* The inductive invariant holds always.
LEMMA IInvHolds == Spec => []IInv
  BY InitIInv, NextIInv, PTL DEF Spec

\* Whatever lengths a package's headers claim and whichever allocation fails,
\* npk_parse_buffer and npk_extract_file read inside the file, never pass the
\* end of what they run through, and leave the caller the copy or nothing.
THEOREM NpkSafe == Spec => []NpkInv
  BY IInvHolds, IInvImplies, PTL

\* The entry table of npk_parse_entries tiles the inflated content: no entry
\* overlaps another or passes the end, and a parsed package is used up.
THEOREM EntriesTileContent == Spec => []EntriesTile
  <1>1. IInv => EntriesTile
    BY DEF IInv, NpkData
  <1> QED BY <1>1, IInvHolds, PTL

\* However often RouterOSLoader runs and wherever a run fails, at every step the
\* pool blocks that are live are those the run still has to free, no less and no
\* more, but for the device trees, RAM disk pages and buffers of empty second
\* streams that it never frees.
THEOREM BuffersFreed == Spec => []RunsFreeTheirBuffers
  <1>1. IInv => RunsFreeTheirBuffers
    BY DEF IInv
  <1> QED BY <1>1, IInvHolds, PTL

\* The device tree that PatchDtbInitrd installed is never freed, nor are the
\* pages of the RAM disk that it names, in that run or in a later one.
THEOREM DtbLive == Spec => []DtbNamesLivePages
  <1>1. IInv => DtbNamesLivePages
    BY DEF IInv
  <1> QED BY <1>1, IInvHolds, PTL
=============================================================================
