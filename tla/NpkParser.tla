----------------------------- MODULE NpkParser ------------------------------
(***************************************************************************)
(* npk_parser: finds the compressed container of a RouterOS package,       *)
(* inflates it, makes a table of its entries, and copies one file out.     *)
(* The lengths in the file are inputs, read where the parser reads them;   *)
(* every allocation may fail.  zlib is external.  RouterOSLoader calls it;  *)
(* the heap is the caller's too.                                           *)
(***************************************************************************)
EXTENDS Integers, Sequences, FiniteSets

CONSTANTS
    FileSizes,          \* buffer_size
    Lens,               \* values of length fields
    HeaderSize,         \* NPK_HEADER_SIZE
    ContainerHeader,    \* NPK_CONTAINER_HEADER_SIZE
    ObjectHeader,       \* NPK_ZLIB_OBJECT_HEADER_SIZE
    Outputs,            \* bytes a container inflates to
    MinCapacity         \* first buffer of npk_inflate_payload

ASSUME NpkAssumption ==
    /\ FileSizes \cup Lens \cup Outputs \subseteq Nat
    /\ {HeaderSize, ContainerHeader, ObjectHeader, MinCapacity} \subseteq Nat \ {0}

VARIABLES
    npk,            \* position: "idle" between two packages
    size,           \* buffer_size
    end,            \* payload_end
    off,            \* offset, in the file or in the content
    capacity, total,\* npk_inflate_payload: capacity; what the stream will give
    content,        \* content_size
    entries,        \* where each entry's name and payload lie
    room,           \* length of the entries array
    now,            \* the entry being appended, or extracted
    heap,           \* live allocations, the caller's included
    reach,          \* history: first byte past what was read of the file
    npkStatus

npkVars == <<npk, size, end, off, capacity, total, content, entries, room, now, reach, npkStatus>>
Further(a, b) == IF a > b THEN a ELSE b
-----------------------------------------------------------------------------
(***************************************************************************)
(* The heap of uefi_libc.  A block that realloc makes is another one than  *)
(* the block it replaces: the content and the array go by their sizes.     *)
(***************************************************************************)
NameOf(i)    == <<"name", i>>
Array(n)     == <<"entries", n>>
Buffer(n)    == <<"content", n>>
PackageBlock == <<"package">>
CopyBlock    == <<"copy">>

\* FreePool, of blocks that have to be allocated.
Corrupt     == <<"corrupt">>
Freed(h, B) == (h \ B) \cup (IF B \subseteq h THEN {} ELSE {Corrupt})

\* realloc that succeeds.
Resized(h, old, new) == Freed(h, {old}) \cup {new}

\* Slip: the package has the buffer from the start of the inflation on.
PackagePtrsEarly ==
    {PackageBlock} \cup {NameOf(i) : i \in DOMAIN entries}
    \cup (IF room > 0 THEN {Array(room)} ELSE {}) \cup (IF capacity > 0 THEN {Buffer(capacity)} ELSE {})

\* What npk_package_free frees: the package, the names of the counted entries,
\* the array and the content if the package has got them.
PackagePtrs ==
    {PackageBlock} \cup {NameOf(i) : i \in DOMAIN entries}
    \cup (IF room > 0 THEN {Array(room)} ELSE {}) \cup (IF content > 0 THEN {Buffer(capacity)} ELSE {})

FailWith(h, s) ==
    /\ npkStatus' = s
    /\ heap' = Freed(h, PackagePtrs)
    /\ npk' = "returned"

Fail(s) == FailWith(heap, s)

\* npk_parse_buffer: size and magic, then the package.
ParseBuffer ==
    /\ npk = "start" /\ size >= HeaderSize
    /\ \/ /\ heap' = heap \cup {PackageBlock}
          /\ npk' = "header"
          /\ UNCHANGED npkStatus
       \/ /\ \E s \in {"BAD_MAGIC", "NO_MEMORY"} : npkStatus' = s
          /\ npk' = "returned"
          /\ UNCHANGED heap
    /\ reach' = HeaderSize
    /\ UNCHANGED <<size, end, off, capacity, total, content, entries, room, now>>

TooSmall ==
    /\ npk = "start" /\ size < HeaderSize
    /\ npkStatus' = "INVALID_ARGUMENT"
    /\ npk' = "returned"
    /\ UNCHANGED <<size, end, off, capacity, total, content, entries, room, now, heap, reach>>

\* npk_find_and_inflate_content.
Payload ==
    /\ npk = "header"
    /\ \E len \in Lens :
        IF len > size - HeaderSize THEN Fail("TRUNCATED") /\ UNCHANGED end
        ELSE end' = HeaderSize + len /\ npk' = "container" /\ UNCHANGED <<npkStatus, heap>>
    /\ off' = HeaderSize
    /\ UNCHANGED <<size, capacity, total, content, entries, room, now, reach>>

\* Slip: the container's header is not counted when its size is checked.
FitsContainerLoose(len) == len <= end - off
FitsContainer(len)      == ContainerHeader + len <= end - off

Container ==
    /\ npk = "container" /\ off < end /\ end - off >= ContainerHeader
    /\ \E len \in Lens, zlib \in BOOLEAN :
        \/ ~FitsContainer(len) /\ Fail("TRUNCATED") /\ UNCHANGED off
           /\ reach' = Further(reach, off + ContainerHeader)
        \/ /\ FitsContainer(len)
           /\ npk' = IF zlib THEN "inflate" ELSE "container"
           /\ off' = off + ContainerHeader + len
           /\ reach' = Further(reach, IF zlib THEN off + ContainerHeader + len
                                      ELSE off + ContainerHeader)
           /\ UNCHANGED <<heap, npkStatus>>
    /\ UNCHANGED <<size, end, capacity, total, content, entries, room, now>>

NoContainer ==
    /\ npk = "container" /\ end - off < ContainerHeader
    /\ Fail(IF off < end THEN "TRUNCATED" ELSE "NO_CONTENT_CONTAINER")
    /\ UNCHANGED <<size, end, off, capacity, total, content, entries, room, now, reach>>
-----------------------------------------------------------------------------
(***************************************************************************)
(* npk_inflate_payload: the buffer doubles until the stream ends.          *)
(***************************************************************************)
Inflate ==
    /\ npk = "inflate"
    /\ \/ /\ heap' = heap \cup {Buffer(MinCapacity)}
          /\ capacity' = MinCapacity
          /\ total' \in Outputs
          /\ npk' = "inflating"
          /\ UNCHANGED npkStatus
       \/ Fail("NO_MEMORY") /\ UNCHANGED <<capacity, total>>
    /\ UNCHANGED <<size, end, off, content, entries, room, now, reach>>

Grow ==
    /\ npk = "inflating" /\ total >= capacity
    /\ \/ /\ heap' = Resized(heap, Buffer(capacity), Buffer(2 * capacity))
          /\ capacity' = 2 * capacity
          /\ UNCHANGED <<npk, npkStatus>>
       \/ /\ FailWith(Freed(heap, {Buffer(capacity)}), "NO_MEMORY")
          /\ UNCHANGED capacity
    /\ UNCHANGED <<size, end, off, total, content, entries, room, now, reach>>

\* inflateInit or inflate fails, the latter when the input ends too soon.
InflateError ==
    /\ npk = "inflating"
    /\ FailWith(Freed(heap, {Buffer(capacity)}), "ZLIB_ERROR")
    /\ UNCHANGED <<size, end, off, capacity, total, content, entries, room, now, reach>>

\* The stream's end; nothing at all leaves no buffer, another one is cut to
\* what is in it if there is memory for that.
StreamEnd ==
    /\ npk = "inflating" /\ total <= capacity
    /\ content' = total
    /\ \/ total = 0 /\ heap' = Freed(heap, {Buffer(capacity)}) /\ UNCHANGED capacity
       \/ total > 0 /\ heap' = Resized(heap, Buffer(capacity), Buffer(total)) /\ capacity' = total
       \/ total > 0 /\ UNCHANGED <<heap, capacity>>
    /\ off' = 0
    /\ npk' = "entry"
    /\ UNCHANGED <<size, end, total, entries, room, now, reach, npkStatus>>
-----------------------------------------------------------------------------
(***************************************************************************)
(* npk_parse_entries and npk_append_entry.                                 *)
(***************************************************************************)
Entry ==
    /\ npk = "entry" /\ off < content
    /\ \/ /\ content - off < ObjectHeader
          /\ Fail("TRUNCATED") /\ UNCHANGED now
       \/ /\ content - off >= ObjectHeader
          /\ \E name \in Lens, len \in Lens :
                IF ObjectHeader + name + len > content - off
                THEN Fail("TRUNCATED") /\ UNCHANGED now
                ELSE /\ now' = [start |-> off, data |-> off + ObjectHeader + name, size |-> len]
                     /\ npk' = "array"
                     /\ UNCHANGED <<npkStatus, heap>>
    /\ UNCHANGED <<size, end, off, capacity, total, content, entries, room, reach>>

GrowArray ==
    /\ npk = "array"
    /\ \/ /\ heap' = IF room = 0 THEN heap \cup {Array(1)}
                     ELSE Resized(heap, Array(room), Array(Len(entries) + 1))
          /\ room' = Len(entries) + 1
          /\ npk' = "name"
          /\ UNCHANGED npkStatus
       \/ Fail("NO_MEMORY") /\ UNCHANGED room
    /\ UNCHANGED <<size, end, off, capacity, total, content, entries, now, reach>>

\* Slip: the next offset leaves out the name.
NextOffsetNoName == now.start + ObjectHeader + now.size
NextOffset       == now.data + now.size

AppendEntry ==
    /\ npk = "name"
    /\ \/ /\ heap' = heap \cup {NameOf(Len(entries) + 1)}
          /\ entries' = Append(entries, now)
          /\ off' = NextOffset
          /\ npk' = "entry"
          /\ UNCHANGED npkStatus
       \/ Fail("NO_MEMORY") /\ UNCHANGED <<entries, off>>
    /\ UNCHANGED <<size, end, capacity, total, content, room, now, reach>>

Parsed ==
    /\ npk = "entry" /\ off >= content
    /\ npk' = "parsed"
    /\ npkStatus' = "OK"
    /\ UNCHANGED <<size, end, off, capacity, total, content, entries, room, now, heap, reach>>
-----------------------------------------------------------------------------
\* npk_extract_file, then npk_package_free: the file, if it is one and not
\* empty, is a copy; the package goes in every case.
Extract ==
    /\ npk = "parsed"
    /\ \/ /\ \E i \in DOMAIN entries : now' = entries[i]
          /\ heap' = Freed(heap, PackagePtrs) \cup IF now'.size > 0 THEN {CopyBlock} ELSE {}
          /\ UNCHANGED npkStatus
       \/ /\ \E s \in {"NOT_FOUND", "NOT_A_FILE", "NO_MEMORY"} : npkStatus' = s
          /\ heap' = Freed(heap, PackagePtrs)
          /\ UNCHANGED now
    /\ npk' = "extracted"
    /\ UNCHANGED <<size, end, off, capacity, total, content, entries, room, reach>>

NpkInit ==
    /\ npk = "idle"
    /\ size = 0 /\ end = 0 /\ off = 0 /\ capacity = 0 /\ total = 0 /\ content = 0
    /\ entries = <<>>
    /\ room = 0
    /\ now = [start |-> 0, data |-> 0, size |-> 0]
    /\ reach = 0
    /\ npkStatus = "none"

\* The caller has a file of n bytes in memory ...
NpkStart(n) ==
    /\ npk = "idle"
    /\ npk' = "start"
    /\ size' = n
    /\ UNCHANGED <<end, off, capacity, total, content, entries, room, now, reach, npkStatus>>

\* ... and goes on when the parser has returned; its variables were locals.
NpkForget ==
    /\ npk' = "idle"
    /\ size' = 0 /\ end' = 0 /\ off' = 0 /\ capacity' = 0 /\ total' = 0 /\ content' = 0
    /\ entries' = <<>>
    /\ room' = 0
    /\ now' = [start |-> 0, data |-> 0, size |-> 0]
    /\ reach' = 0
    /\ npkStatus' = "none"

NpkNext ==
    \/ ParseBuffer \/ TooSmall \/ Payload \/ Container \/ NoContainer
    \/ Inflate \/ Grow \/ InflateError \/ StreamEnd
    \/ Entry \/ GrowArray \/ AppendEntry \/ Parsed \/ Extract
-----------------------------------------------------------------------------
(***************************************************************************)
(* Correctness, for any file.                                              *)
(***************************************************************************)

\* The allocations that the parser makes, and what freeing a wrong one leaves.
Mine == {b \in heap : b[1] \in {"package", "content", "entries", "name", "copy", "corrupt"}}

EntryRecord == [start : Nat, data : Nat, size : Nat]

Early == {"idle", "start", "header", "container", "inflate", "inflating"}

\* Every variable has its type; the array has room for the entries.
NpkTypeOK ==
    /\ npk \in Early \cup {"entry", "array", "name", "parsed", "returned", "extracted"}
    /\ size \in Nat /\ end \in 0 .. size /\ off \in Nat /\ reach \in Nat
    /\ capacity \in Nat /\ total \in Outputs \cup {0}
    /\ content \in Outputs \cup {0}
    /\ entries \in Seq(EntryRecord) /\ now \in EntryRecord
    /\ room \in Len(entries) .. Len(entries) + 1

\* Nothing past the end of the file is read, whatever its lengths say.
ReadsStayInFile == reach <= size

Ends(e) == e.data + e.size

\* The entries tile what has been parsed of the content, in order, without gap
\* or overlap, each with its name and payload inside it; a package that parses
\* is used up to its last byte.
EntriesTile ==
    /\ \A i \in DOMAIN entries :
        /\ entries[i].start = IF i = 1 THEN 0 ELSE Ends(entries[i - 1])
        /\ entries[i].start + ObjectHeader <= entries[i].data
        /\ Ends(entries[i]) <= content
    /\ (npkStatus = "OK" /\ entries # <<>>) => Ends(entries[Len(entries)]) = content

\* Where the parser is, at each position, in the file and in the content: an
\* offset never passes the end of what it runs through.
ParsedTo == IF entries = <<>> THEN 0 ELSE Ends(entries[Len(entries)])

PlaceMatches ==
    /\ npk \in {"idle", "start"} => reach = 0 /\ end = 0
    /\ npk \notin {"idle", "start", "returned"} => HeaderSize <= size
    /\ npk \in {"container", "inflate"} => off <= end
    /\ npk \in Early => content = 0 /\ entries = <<>> /\ room = 0 /\ npkStatus = "none"
    /\ npk \in {"entry", "array", "name"} => npkStatus = "none"
    /\ npk = "parsed" => npkStatus = "OK"
    /\ npk \in {"entry", "array", "name", "parsed"} => off = ParsedTo /\ off <= content
    /\ npk \in {"array", "name"} =>
        /\ now.start = off /\ now.start + ObjectHeader <= now.data /\ Ends(now) <= content
    /\ npk = "name" => room = Len(entries) + 1
    /\ npk \in {"entry", "array", "parsed"} => room = Len(entries)
    /\ npkStatus = "OK" => npk \in {"parsed", "extracted"} /\ ParsedTo = content

\* The blocks that the parser holds at each position: those it frees when it
\* fails there, or the copy it hands out, if the file is not empty.
Holds ==
    CASE npk \in {"start", "returned"} -> {}
      [] npk = "extracted" -> IF npkStatus = "OK" /\ now.size > 0 THEN {CopyBlock} ELSE {}
      [] npk = "inflating" -> PackagePtrs \cup {Buffer(capacity)}
      [] OTHER -> PackagePtrs

\* Whichever allocation or check fails, every block is freed once: at each
\* position those that are live are exactly those that are still to be freed,
\* and the caller is left with nothing but the copy it asked for.
OwnsWhatItFrees == npk # "idle" => Mine = Holds

\* At every step, whatever the file says and whichever allocation fails, the
\* parser reads inside the file and owns what it has to free.
NpkInv == NpkTypeOK /\ PlaceMatches /\ ReadsStayInFile /\ OwnsWhatItFrees
=============================================================================
