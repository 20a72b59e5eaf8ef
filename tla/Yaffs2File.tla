----------------------------- MODULE Yaffs2File -----------------------------
(***************************************************************************)
(* MtYaffs2Dxe's file protocol over a scanned volume: the driver binding,  *)
(* open files with their position or directory cursor, path resolution,    *)
(* reads that cross pages, holes and bad pages, and the enumeration of     *)
(* directories.  Calls do not overlap; a read goes page by page through    *)
(* the volume's one page buffer.                                           *)
(***************************************************************************)
EXTENDS Integers, Sequences, FiniteSetsExt

CONSTANTS
    Volumes,        \* what a scan may have built
    Handles,        \* YAFFS2_IFILE instances callers hold
    DataPerPage,    \* YAFFS2_DATA_PER_PAGE
    LinkDepth,      \* hard links ResolveHardlinks follows (16)
    Paths,          \* [absolute |-> ..., parts |-> ...]
    Sizes,          \* buffer sizes given to Read
    Positions       \* arguments of SetPosition

RootId    == 1
NoObj   == 0
NoVol   == [objs |-> <<>>]
Closed  == [obj |-> NoObj, pos |-> 0, cursor |-> 0]
NoJob   == [h |-> "none"]
Idle    == [op |-> "none"]
EndPos  == -1           \* MAX_UINT64
Hole    == <<-1, 0>>    \* a zero byte; other bytes are <<page, offset>>
ChunkUnset   == -1           \* YAFFS2_CHUNK_UNSET

ASSUME FileAssumption ==
    /\ DataPerPage \in Nat \ {0}
    /\ LinkDepth \in Nat \ {0}
    /\ Sizes \subseteq Nat /\ Positions \subseteq Nat
    /\ \A p \in Paths : Len(p.parts) \in Nat

\* A scan leaves a table of objects whose root is a directory and whose links
\* to parents and children stay in the table.
ASSUME VolumeAssumption ==
    \A v \in Volumes :
        /\ DOMAIN v.objs \subseteq Nat \ {NoObj}
        /\ RootId \in DOMAIN v.objs /\ v.objs[RootId].type = "dir"
        /\ \A o \in DOMAIN v.objs :
            /\ v.objs[o].kids \in Seq(DOMAIN v.objs)
            /\ v.objs[o].parent \in DOMAIN v.objs \cup {NoObj}
            /\ v.objs[o].size \in Nat
            /\ v.objs[o].chunks \in Seq([page : Int, nbytes : Nat])

VARIABLES
    vol,        \* Volume: an object has type, name, parent, kids, size, equiv, chunks
    handle,     \* per handle: OFile, Position, DirCursor
    job,        \* the Read in progress
    result,     \* what the last Read of a file gave
    listed      \* history, per handle: children shown since the enumeration began

fileVars == <<vol, handle, job, result, listed>>

Obj(o)   == vol.objs[o]
IsObj(o) == o \in DOMAIN vol.objs
IsOpen(h) == handle[h] # Closed
Ready    == job = NoJob
-----------------------------------------------------------------------------
(***************************************************************************)
(* Driver binding.  Start scans (module Yaffs2Scan) and installs the file  *)
(* system, or fails and leaves nothing installed; Stop frees the volume.   *)
(* A file left open over Stop would point into freed memory: callers close *)
(* first.                                                                  *)
(***************************************************************************)
Start(v) ==
    /\ Ready /\ vol = NoVol
    /\ vol' = v
    /\ UNCHANGED <<handle, job, result, listed>>

Stop ==
    /\ Ready /\ vol # NoVol /\ \A h \in Handles : ~IsOpen(h)
    /\ vol' = NoVol
    /\ result' = Idle
    /\ UNCHANGED <<handle, job, listed>>
-----------------------------------------------------------------------------
(***************************************************************************)
(* Open, Close, Delete.                                                    *)
(***************************************************************************)

\* Yaffs2AllocateIFile.
Assign(h, o) ==
    /\ handle' = [handle EXCEPT ![h] =
                    [obj |-> o, pos |-> 0, cursor |-> IF Obj(o).type = "dir" THEN 1 ELSE 0]]
    /\ listed' = [listed EXCEPT ![h] = <<>>]

OpenVolume(h) ==
    /\ Ready /\ vol # NoVol /\ ~IsOpen(h)
    /\ Assign(h, RootId)
    /\ UNCHANGED <<vol, job, result>>

\* One link of a chain of hard links, and the end of the chain.
FollowLink ==
    [x \in DOMAIN vol.objs \cup {NoObj} |->
        IF x = NoObj \/ Obj(x).type # "link" THEN x
        ELSE IF IsObj(Obj(x).equiv) THEN Obj(x).equiv ELSE NoObj]

ResolveHardlinks(o) ==
    LET hop[d \in 0 .. LinkDepth - 1] == IF d = 0 THEN o ELSE FollowLink[hop[d - 1]]
        end == hop[LinkDepth - 1]
    IN  IF end # NoObj /\ Obj(end).type = "link" THEN NoObj ELSE end

\* The first child of that name.
Matches(dir, part) == {i \in DOMAIN Obj(dir).kids : Obj(Obj(dir).kids[i]).name = part}
Child(dir, part)   == Obj(dir).kids[Min(Matches(dir, part))]

\* One component of a path, from object o.
Descend(o, part) ==
    CASE o = NoObj                    -> NoObj
      [] o # NoObj /\ part = "."      -> o
      [] o # NoObj /\ part = ".."     -> IF Obj(o).parent # NoObj THEN Obj(o).parent ELSE o
      [] OTHER ->
            IF Obj(o).type # "dir" \/ Matches(o, part) = {} THEN NoObj
            ELSE ResolveHardlinks(Child(o, part))

Base(from, path) ==
    IF path.absolute THEN RootId
    ELSE IF Obj(from).type = "dir" THEN from
    ELSE IF Obj(from).parent # NoObj THEN Obj(from).parent ELSE RootId

Walk(from, path) ==
    LET at[i \in 0 .. Len(path.parts)] ==
            IF i = 0 THEN Base(from, path) ELSE Descend(at[i - 1], path.parts[i])
    IN  at[Len(path.parts)]

\* Modes that write, and paths that lead nowhere, are refused.
Open(h, g, path) ==
    /\ Ready /\ IsOpen(h) /\ ~IsOpen(g)
    /\ Walk(handle[h].obj, path) # NoObj
    /\ Assign(g, Walk(handle[h].obj, path))
    /\ UNCHANGED <<vol, job, result>>

\* Delete closes and warns.
Close(h) ==
    /\ Ready /\ IsOpen(h)
    /\ handle' = [handle EXCEPT ![h] = Closed]
    /\ listed' = [listed EXCEPT ![h] = <<>>]
    /\ result' = IF result # Idle /\ result.h = h THEN Idle ELSE result
    /\ UNCHANGED <<vol, job>>
-----------------------------------------------------------------------------
(***************************************************************************)
(* Read, on a directory.  The cursor is an index into the children.        *)
(***************************************************************************)
Info(o) == [dir |-> Obj(o).type = "dir", size |-> Obj(o).size]

\* A hard link is shown with its name and the attributes of its target.
\* Slip: with its own.
ShownOwn(c) == [name |-> Obj(c).name, info |-> Info(c)]

Shown(c) ==
    [name |-> Obj(c).name,
     info |-> IF Obj(c).type = "link" /\ IsObj(Obj(c).equiv) THEN Info(Obj(c).equiv) ELSE Info(c)]

\* Slip: the cursor moves although the buffer was too small.
ReadDirAlways(h, fits) ==
    /\ Ready /\ IsOpen(h) /\ Obj(handle[h].obj).type = "dir"
    /\ handle[h].cursor <= Len(Obj(handle[h].obj).kids)
    /\ handle' = [handle EXCEPT ![h].cursor = @ + 1, ![h].pos = @ + 1]
    /\ listed' = IF ~fits THEN listed
                 ELSE [listed EXCEPT ![h] =
                          Append(@, Shown(Obj(handle[h].obj).kids[handle[h].cursor]))]
    /\ UNCHANGED <<vol, job, result>>

ReadDir(h, fits) ==
    /\ Ready /\ IsOpen(h) /\ Obj(handle[h].obj).type = "dir"
    /\ handle[h].cursor <= Len(Obj(handle[h].obj).kids)
    /\ IF fits
       THEN /\ handle' = [handle EXCEPT ![h].cursor = @ + 1, ![h].pos = @ + 1]
            /\ listed' = [listed EXCEPT ![h] =
                             Append(@, Shown(Obj(handle[h].obj).kids[handle[h].cursor]))]
       ELSE UNCHANGED <<handle, listed>>
    /\ UNCHANGED <<vol, job, result>>

\* SetPosition: 0 starts a directory again; a file goes anywhere.
SetPosition(h, p) ==
    /\ Ready /\ IsOpen(h)
    /\ IF Obj(handle[h].obj).type = "dir"
       THEN /\ p = 0
            /\ handle' = [handle EXCEPT ![h].cursor = 1, ![h].pos = 0]
            /\ listed' = [listed EXCEPT ![h] = <<>>]
       ELSE /\ handle' = [handle EXCEPT ![h].pos =
                             IF p = EndPos THEN Obj(handle[h].obj).size ELSE p]
            /\ UNCHANGED listed
    /\ UNCHANGED <<vol, job, result>>
-----------------------------------------------------------------------------
(***************************************************************************)
(* Read, on a file.                                                        *)
(***************************************************************************)
Least(a, b) == IF a < b THEN a ELSE b

Ended(h, from, asked, buf, failed) ==
    /\ handle' = [handle EXCEPT ![h].pos = @ + Len(buf)]
    /\ result' = [op |-> "read", h |-> h, from |-> from, asked |-> asked, buf |-> buf,
                  failed |-> failed, error |-> failed /\ buf = <<>>]

Read(h, n) ==
    /\ Ready /\ IsOpen(h) /\ Obj(handle[h].obj).type # "dir"
    /\ LET size == Obj(handle[h].obj).size
           pos  == handle[h].pos
       IN IF pos >= size THEN Ended(h, pos, n, <<>>, FALSE) /\ UNCHANGED job
          ELSE /\ job' = [h |-> h, asked |-> n, len |-> Least(n, size - pos), buf |-> <<>>]
               /\ UNCHANGED <<handle, result>>
    /\ UNCHANGED <<vol, listed>>

\* The bytes a page contributes: those the chunk has, then zeros.
\* Slip: all bytes of the page.
PieceWhole(c, off, n) == [k \in 1 .. n |-> <<c.page, off + k - 1>>]

Piece(c, off, n) ==
    [k \in 1 .. n |-> IF off + k - 1 < c.nbytes THEN <<c.page, off + k - 1>> ELSE Hole]

CopyLen(off, rest) == Least(DataPerPage - off, rest)

ReadPiece ==
    /\ ~Ready /\ Len(job.buf) < job.len
    /\ LET o      == Obj(handle[job.h].obj)
           at     == handle[job.h].pos + Len(job.buf)
           idx    == at \div DataPerPage
           off    == at % DataPerPage
           n      == CopyLen(off, job.len - Len(job.buf))
           mapped == idx < Len(o.chunks) /\ o.chunks[idx + 1].page # ChunkUnset
       IN \/ /\ job' = [job EXCEPT !.buf = @ \o IF mapped THEN Piece(o.chunks[idx + 1], off, n)
                                                ELSE [k \in 1 .. n |-> Hole]]
             /\ UNCHANGED <<handle, result>>
          \/ /\ mapped                              \* ReadPage fails
             /\ Ended(job.h, handle[job.h].pos, job.asked, job.buf, TRUE)
             /\ job' = NoJob
    /\ UNCHANGED <<vol, listed>>

ReadDone ==
    /\ ~Ready /\ Len(job.buf) >= job.len
    /\ Ended(job.h, handle[job.h].pos, job.asked, job.buf, FALSE)
    /\ job' = NoJob
    /\ UNCHANGED <<vol, listed>>
-----------------------------------------------------------------------------
FileInit ==
    /\ vol = NoVol
    /\ handle = [h \in Handles |-> Closed]
    /\ job = NoJob
    /\ result = Idle
    /\ listed = [h \in Handles |-> <<>>]

FileNext ==
    \/ \E v \in Volumes : Start(v)
    \/ Stop
    \/ \E h \in Handles :
        \/ OpenVolume(h)
        \/ Close(h)
        \/ \E g \in Handles, p \in Paths : Open(h, g, p)
        \/ \E fits \in BOOLEAN : ReadDir(h, fits)
        \/ \E p \in Positions \cup {EndPos} : SetPosition(h, p)
        \/ \E n \in Sizes : Read(h, n)
    \/ ReadPiece
    \/ ReadDone

FileSpec == FileInit /\ [][FileNext]_fileVars
-----------------------------------------------------------------------------
(***************************************************************************)
(* Correctness.                                                            *)
(***************************************************************************)

\* Every variable has its type; a handle is never on a hard link.
FileTypeOK ==
    /\ vol \in Volumes \cup {NoVol}
    /\ \A h \in Handles : IsOpen(h) =>
        /\ IsObj(handle[h].obj)
        /\ Obj(handle[h].obj).type # "link"
        /\ handle[h].pos \in Nat
        /\ handle[h].cursor \in 0 .. Len(Obj(handle[h].obj).kids) + 1
    /\ ~Ready => job.h \in Handles /\ Len(job.buf) <= job.asked

\* What a YAFFS writer keeps to and the scan does not look at: no object lies
\* in a hard link ...
ParentsHold(v) ==
    \A o \in DOMAIN v.objs : v.objs[o].parent # NoObj => v.objs[v.objs[o].parent].type # "link"

\* ... the names in a directory differ, and a hard link does not lead to
\* another.
NamesAndLinksPlain(v) ==
    \A o \in DOMAIN v.objs :
        LET name(i) == v.objs[v.objs[o].kids[i]].name
            equiv   == v.objs[o].equiv
        IN  /\ \A i, j \in DOMAIN v.objs[o].kids : name(i) = name(j) => i = j
            /\ \A i \in DOMAIN v.objs[o].kids : name(i) \notin {".", ".."}
            /\ v.objs[o].type = "link" /\ equiv \in DOMAIN v.objs =>
                   v.objs[equiv].type # "link" \/ equiv = o

\* Byte i of file o.
Content(o, i) ==
    LET idx == i \div DataPerPage
        off == i % DataPerPage
    IN IF /\ idx < Len(Obj(o).chunks)
          /\ Obj(o).chunks[idx + 1].page # ChunkUnset
          /\ off < Obj(o).chunks[idx + 1].nbytes
       THEN <<Obj(o).chunks[idx + 1].page, off>> ELSE Hole

\* Read gives the bytes of the file from the position on, holes as zeros, as
\* many as were asked for and are there, fewer only when a page cannot be read,
\* and an error only when there is nothing at all to give.
ReadIsContent ==
    result # Idle =>
        LET o    == handle[result.h].obj
            rest == IF result.from < Obj(o).size THEN Obj(o).size - result.from ELSE 0
        IN /\ \A k \in 1 .. Len(result.buf) : result.buf[k] = Content(o, result.from + k - 1)
           /\ Len(result.buf) <= Least(result.asked, rest)
           /\ Len(result.buf) < Least(result.asked, rest) => result.failed
           /\ result.error => result.buf = <<>>

\* Handles stay on objects, past hard links, and what is read through them is
\* the file's content.
FileInv == FileTypeOK /\ ReadIsContent

\* However often a caller meets a buffer too small, starts again or has the
\* directory open twice, an enumeration shows every child once, in order: what
\* was shown is what lies before the cursor.
EnumerationComplete ==
    \A h \in Handles : IsOpen(h) /\ Obj(handle[h].obj).type = "dir" =>
        listed[h] = [i \in 1 .. handle[h].cursor - 1 |-> Shown(Obj(handle[h].obj).kids[i])]

\* What an enumeration shows of an entry is what opening it by its name gives,
\* unless it is a hard link that leads nowhere and cannot be opened.
ListedIsOpened ==
    \A h \in Handles : IsOpen(h) => \A i \in DOMAIN listed[h] :
        LET o == Walk(handle[h].obj, [absolute |-> FALSE, parts |-> <<listed[h][i].name>>])
        IN \/ o # NoObj /\ Info(o) = listed[h][i].info
           \/ o = NoObj /\ Obj(Obj(handle[h].obj).kids[i]).type = "link"
=============================================================================
