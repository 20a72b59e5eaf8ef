----------------------------- MODULE BoardInfo ------------------------------
(***************************************************************************)
(* BoardInfoDxe: board name, serial number and MAC address from a list of  *)
(* tagged records in the SPI flash.  The flash may hold anything: an area  *)
(* that was never written, records cut off at its end, records twice, with *)
(* odd lengths or longer than what they are copied to.                     *)
(*                                                                         *)
(* A record is a header of HeaderSize cells and its data.  The tag is in   *)
(* the first cell of the header, the length of the data in its last; any   *)
(* cell can be looked at as either, or as data.  The all-zero cell is Nul. *)
(***************************************************************************)
EXTENDS Integers, FiniteSetsExt

CONSTANTS
    Size,               \* BOARD_INFO_READ_SIZE less the magic
    HeaderSize,         \* sizeof (RB_TLV_HEADER)
    Cells,              \* what a cell may hold: records with tag and len
    NAME_MAX, SERIAL_MAX,
    MacSize,            \* cells of a MAC address
    DefaultName, DefaultSerial, DefaultMac

Nul == [tag |-> "end", len |-> 0]

ASSUME InfoAssumption ==
    /\ {Size, NAME_MAX, SERIAL_MAX, MacSize} \subseteq Nat \ {0}
    /\ HeaderSize \in Nat /\ HeaderSize >= 2
    /\ Nul \in Cells /\ \A c \in Cells : c.len \in Nat
    /\ DefaultName \in [0 .. NAME_MAX - 1 -> Cells] /\ DefaultName[NAME_MAX - 1] = Nul
    /\ DefaultSerial \in [0 .. SERIAL_MAX - 1 -> Cells] /\ DefaultSerial[SERIAL_MAX - 1] = Nul
    /\ DefaultMac \in [0 .. MacSize - 1 -> Cells]

VARIABLES
    pc,
    flash, magic,                   \* the area: its cells, and whether its magic is right
    Pos,
    BoardName, Serial, MacAddress,  \* mBoardInfo
    reach                           \* history: cells read so far, counted from the start

infoVars == <<pc, flash, magic, Pos, BoardName, Serial, MacAddress, reach>>

Further(a, b) == IF a > b THEN a ELSE b
-----------------------------------------------------------------------------
\* BoardInfoDxeEntry with defaults set, up to ParseTlvBlock: there is no flash
\* protocol, no memory, or the flash does not read.
Defaults ==
    /\ pc = "start"
    /\ pc' = "installed"
    /\ UNCHANGED <<flash, magic, Pos, BoardName, Serial, MacAddress, reach>>

CheckMagic ==
    /\ pc = "start"
    /\ pc' = IF magic THEN "walk" ELSE "installed"
    /\ UNCHANGED <<flash, magic, Pos, BoardName, Serial, MacAddress, reach>>

\* A slip: a header of which only the first cell is there is taken for one.
HeaderFitsLoose(p) == p < Size

\* There is room for a header before End.
HeaderFits(p) == p + HeaderSize <= Size

\* Hdr->Length.  Behind the area lies what is not the flash's, 0 here.
Length(p)    == IF p + HeaderSize <= Size THEN flash[p + HeaderSize - 1].len ELSE 0
RecordEnd(p) == p + HeaderSize + Length(p)
Fits(p)      == RecordEnd(p) <= Size

CopyLen(len, max) == IF len >= max THEN max - 1 ELSE len

\* CopyMem of a record's data, and the terminating zero.
CopyString(old, p, max) ==
    LET n == CopyLen(Length(p), max)
    IN  [i \in 0 .. max - 1 |->
            IF i < n THEN flash[p + HeaderSize + i] ELSE IF i = n THEN Nul ELSE old[i]]

\* A slip: a MAC address is copied whatever the record's length.
CopyMacAlways(p) ==
    [i \in 0 .. MacSize - 1 |->
        IF p + HeaderSize + i < Size THEN flash[p + HeaderSize + i] ELSE Nul]

CopyMac(p) ==
    IF Length(p) < MacSize THEN MacAddress
    ELSE [i \in 0 .. MacSize - 1 |-> flash[p + HeaderSize + i]]

\* One record.
Record ==
    /\ pc = "walk" /\ HeaderFits(Pos)
    /\ flash[Pos].tag # "end" /\ Fits(Pos)
    /\ BoardName' = IF flash[Pos].tag = "name" THEN CopyString(BoardName, Pos, NAME_MAX) ELSE BoardName
    /\ Serial' = IF flash[Pos].tag = "serial" THEN CopyString(Serial, Pos, SERIAL_MAX) ELSE Serial
    /\ MacAddress' = IF flash[Pos].tag = "mac" THEN CopyMac(Pos) ELSE MacAddress
    /\ reach' = Further(reach, RecordEnd(Pos))
    /\ Pos' = RecordEnd(Pos)
    /\ UNCHANGED <<pc, flash, magic>>

\* The end mark, a record that does not fit, or no room for a header; what is
\* left of the area then is not looked at.
WalkEnds ==
    /\ pc = "walk"
    /\ HeaderFits(Pos) => flash[Pos].tag = "end" \/ ~Fits(Pos)
    /\ reach' = Further(reach, IF HeaderFits(Pos) THEN Pos + HeaderSize ELSE 0)
    /\ pc' = "installed"
    /\ UNCHANGED <<flash, magic, Pos, BoardName, Serial, MacAddress>>

InfoInit ==
    /\ pc = "start"
    /\ flash \in [0 .. Size - 1 -> Cells]
    /\ magic \in BOOLEAN
    /\ Pos = 0
    /\ BoardName = DefaultName
    /\ Serial = DefaultSerial
    /\ MacAddress = DefaultMac
    /\ reach = 0

InfoNext == Defaults \/ CheckMagic \/ Record \/ WalkEnds

InfoSpec == InfoInit /\ [][InfoNext]_infoVars
-----------------------------------------------------------------------------
(***************************************************************************)
(* Correctness.                                                            *)
(***************************************************************************)

\* ParseTlvBlock reads nothing behind the area it was given, not of a header
\* that the end of the area cuts off either.
ReadsInArea == reach <= Size

\* GetBoardName and GetSerial hand out pointers to the arrays: they hold a
\* terminated string at every moment, also when records follow each other
\* with data of other lengths.
Terminated ==
    /\ \E i \in 0 .. NAME_MAX - 1 : BoardName[i] = Nul
    /\ \E i \in 0 .. SERIAL_MAX - 1 : Serial[i] = Nul

\* Nothing is read behind the area, and nothing that is handed out runs on
\* behind its array, at any step and for any contents of the flash.
AreaSafe == ReadsInArea /\ Terminated

\* Where records may start, by definition: the least set that has the front
\* of the area and, with a whole record, the cell behind it.  Records are
\* there where one may start and is whole.
Whole(p)   == p + HeaderSize <= Size /\ flash[p].tag # "end" /\ RecordEnd(p) <= Size
Chained(S) == 0 \in S /\ \A p \in S : Whole(p) => RecordEnd(p) \in S
Reached    == {p \in 0 .. Size : \A S \in SUBSET (0 .. Size) : Chained(S) => p \in S}
Starts     == {p \in Reached : Whole(p)}

\* The characters before the first zero.
Text(s)   == {<<i, s[i]>> : i \in {j \in DOMAIN s : \A k \in 0 .. j : s[k] # Nul}}
DataOf(p) == [i \in 0 .. Length(p) |-> IF i < Length(p) THEN flash[p + HeaderSize + i] ELSE Nul]
Cut(t, max) == {c \in t : c[1] < max - 1}

\* What a driver asks for is what the last record of its kind says, cut to
\* the array's size, or the default; a MAC record that is too short counts
\* for nothing.
SaysTheLast ==
    (pc = "installed" /\ reach > 0) =>
        LET starts == Starts
            last(tag, min) == {p \in starts : flash[p].tag = tag /\ Length(p) >= min}
        IN  /\ Text(BoardName) = IF last("name", 0) = {} THEN Text(DefaultName)
                                 ELSE Cut(Text(DataOf(Max(last("name", 0)))), NAME_MAX)
            /\ Text(Serial) = IF last("serial", 0) = {} THEN Text(DefaultSerial)
                              ELSE Cut(Text(DataOf(Max(last("serial", 0)))), SERIAL_MAX)
            /\ MacAddress = IF last("mac", MacSize) = {} THEN DefaultMac
                            ELSE [i \in 0 .. MacSize - 1 |->
                                    flash[Max(last("mac", MacSize)) + HeaderSize + i]]

=============================================================================
