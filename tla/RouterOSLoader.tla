--------------------------- MODULE RouterOSLoader ---------------------------
(***************************************************************************)
(* RouterOSLoader: reads the system package from a file system, takes the  *)
(* kernel out of it with NpkParser, decompresses the EFI stub and the initial *)
(* RAM disk, points the device tree at the RAM disk and starts the kernel. *)
(* Every step may fail; the application then returns and may be run again, *)
(* on another package.  XZ, the device tree library and the boot services  *)
(* are external.                                                           *)
(***************************************************************************)
EXTENDS NpkParser

CONSTANTS
    Packages,       \* boot/kernel files: id, elf, section, out, ends, mz, extent, second
    EhdrSize,       \* sizeof (ELF64_EHDR)
    MaxRuns         \* bound: runs of the application

ASSUME LoaderRunsAssumption ==
    /\ \A p \in Packages : p.id \in Nat \ {0}
    /\ EhdrSize \in Nat \ {0} /\ MaxRuns \in Nat

NoInitrd == 0
NoPkg    == [id |-> 0]

VARIABLES
    pc,
    runs,           \* runs so far
    pkg,            \* boot/kernel of the package this run reads
    StubSize,
    Initrd,         \* InitrdData: the package the RAM disk came from
    dtb,            \* installed device tree: its buffer and the pages /chosen names
    pages,          \* per run, the RAM disk in EfiLoaderData pages
    kernel,         \* what was started: the package, and the RAM disk it finds
    status

loaderVars == <<pc, runs, pkg, StubSize, Initrd, dtb, pages, kernel, status>>
vars       == <<npkVars, heap, loaderVars>>

Return(s) ==
    /\ pc' = "returned"
    /\ status' = s

NpkBlock    == <<"npk">>
StubBlock   == <<"stub">>
InitrdBlock == <<"initrd">>
NewDtb(r)   == <<"dtb", r>>
PagesOf(r)  == <<"pages", r>>
Lost(r)     == <<"lost", r>>

\* The pointers KernelElf and InitrdData, if they are not NULL.
KernelElf  == IF pkg.size > 0 THEN {CopyBlock} ELSE {}
InitrdData == IF Initrd # NoInitrd THEN {InitrdBlock} ELSE {}
-----------------------------------------------------------------------------
\* RouterOSLoaderEntry and FindAndReadNpk: the first file system that gives the
\* file.  (-RouterBoot resets the machine instead.)
FindAndReadNpk ==
    /\ pc = "returned" /\ runs < MaxRuns
    /\ runs' = runs + 1
    /\ StubSize' = 0
    /\ Initrd' = NoInitrd
    /\ pkg' = NoPkg
    /\ \/ /\ \E n \in FileSizes : NpkStart(n)
          /\ heap' = heap \cup {NpkBlock}
          /\ pc' = "parse"
          /\ status' = "none"
       \/ /\ Return("NOT_FOUND")
          /\ UNCHANGED <<heap, npkVars>>
    /\ UNCHANGED <<dtb, pages, kernel>>

\* npk_parse_buffer, npk_extract_file, npk_package_free.
Parse ==
    /\ pc = "parse"
    /\ NpkNext
    /\ UNCHANGED loaderVars

\* What they returned.  An empty file leaves no buffer.
TakeKernelFile ==
    /\ pc = "parse"
    /\ \/ /\ npk = "extracted" /\ npkStatus = "OK"
          /\ pkg' \in {p \in Packages : p.size > 0 <=> now.size > 0}
          /\ pc' = "section"
          /\ UNCHANGED status
       \/ npk = "extracted" /\ npkStatus # "OK" /\ Return("NOT_FOUND") /\ UNCHANGED pkg
       \/ npk = "returned" /\ Return("COMPROMISED_DATA") /\ UNCHANGED pkg
    /\ heap' = Freed(heap, {NpkBlock})
    /\ NpkForget
    /\ UNCHANGED <<runs, StubSize, Initrd, dtb, pages, kernel>>
-----------------------------------------------------------------------------
(***************************************************************************)
(* ExtractKernelAndInitrd.                                                 *)
(***************************************************************************)

\* FindElfSection: "initrd" is there, or it is not, or this is no ELF file.
FindElfSection ==
    /\ pc = "section"
    /\ pc' = IF pkg.size >= EhdrSize /\ pkg.elf /\ pkg.section THEN "stream1" ELSE "fallback"
    /\ UNCHANGED <<npkVars, runs, pkg, heap, StubSize, Initrd, dtb, pages, kernel, status>>

\* The search starts behind the PT_LOAD segments the header speaks of.
ScanAfterPtLoad ==
    /\ pc = "fallback"
    /\ pc' = "stream1"
    /\ UNCHANGED <<npkVars, runs, pkg, heap, StubSize, Initrd, dtb, pages, kernel, status>>

\* FindXzStream and TryXzDecompress on the first stream: output that stops with
\* an error is taken all the same if there is any.
Stream1 ==
    /\ pc = "stream1"
    /\ \/ /\ pkg.ends \/ pkg.out > 0
          /\ heap' = heap \cup {StubBlock}
          /\ pc' = "stub"
          /\ UNCHANGED status
       \/ /\ heap' = Freed(heap, KernelElf)       \* no stream, no memory, no output
          /\ \E s \in {"NOT_FOUND", "OUT_OF_RESOURCES", "COMPROMISED_DATA"} : Return(s)
    /\ UNCHANGED <<npkVars, runs, pkg, StubSize, Initrd, dtb, pages, kernel>>

NotStub ==
    /\ pc = "stub" /\ (pkg.out < 2 \/ ~pkg.mz)
    /\ heap' = Freed(Freed(heap, {StubBlock}), KernelElf)
    /\ Return("NOT_FOUND")
    /\ UNCHANGED <<npkVars, runs, pkg, StubSize, Initrd, dtb, pages, kernel>>

\* GetPeFileSize: the extent its section headers speak of.
TakeStub ==
    /\ pc = "stub" /\ pkg.out >= 2 /\ pkg.mz
    /\ StubSize' \in {pkg.extent, pkg.out}
    /\ pc' = "stream2"
    /\ UNCHANGED <<npkVars, runs, pkg, heap, Initrd, dtb, pages, kernel, status>>

Stream2Outcome(kind) ==
    CASE kind = "cpio"    -> [data |-> pkg.id, left |-> {InitrdBlock}]
      [] kind = "empty"   -> [data |-> NoInitrd, left |-> {Lost(runs)}]
      [] OTHER            -> [data |-> NoInitrd, left |-> {}]

\* The second stream: a CPIO archive is kept, anything else is freed, except
\* the buffer of a stream that is empty; none, or one that fails, is gone
\* without.  boot/kernel is freed after that.
Stream2 ==
    /\ pc = "stream2"
    /\ \E kind \in {pkg.second, "fails"} :
        /\ Initrd' = Stream2Outcome(kind).data
        /\ heap' = Freed(heap \cup Stream2Outcome(kind).left, KernelElf)
    /\ pc' = "boot"
    /\ UNCHANGED <<npkVars, runs, pkg, StubSize, dtb, pages, kernel, status>>
-----------------------------------------------------------------------------
(***************************************************************************)
(* BootLinuxKernel.                                                        *)
(***************************************************************************)
CopyInitrd ==
    /\ pc = "boot" /\ Initrd # NoInitrd
    /\ \/ /\ heap' = heap \cup {PagesOf(runs)}
          /\ pages' = [pages EXCEPT ![runs] = Initrd]
          /\ pc' = "patch"
          /\ UNCHANGED status
       \/ /\ pc' = "failed"
          /\ status' = "OUT_OF_RESOURCES"
          /\ UNCHANGED <<heap, pages>>
    /\ UNCHANGED <<npkVars, runs, pkg, StubSize, Initrd, dtb, kernel>>

\* Slip: the new device tree is freed after it was installed.
PatchDtbInitrdFreed ==
    /\ pc = "patch"
    /\ \/ dtb' = [buf |-> NewDtb(runs), run |-> runs]
       \/ UNCHANGED dtb
    /\ pc' = "load"
    /\ UNCHANGED <<npkVars, runs, pkg, heap, StubSize, Initrd, pages, kernel, status>>

\* PatchDtbInitrd: a copy with the new addresses takes the place of the
\* installed device tree, or is freed; a failure is only logged.
PatchDtbInitrd ==
    /\ pc = "patch"
    /\ \/ /\ dtb' = [buf |-> NewDtb(runs), run |-> runs]
          /\ heap' = heap \cup {NewDtb(runs)}
       \/ UNCHANGED <<dtb, heap>>
    /\ pc' = "load"
    /\ UNCHANGED <<npkVars, runs, pkg, StubSize, Initrd, pages, kernel, status>>

BootWithout ==
    /\ pc = "boot" /\ Initrd = NoInitrd
    /\ pc' = "load"
    /\ UNCHANGED <<npkVars, runs, pkg, heap, StubSize, Initrd, dtb, pages, kernel, status>>

\* LoadImage, HandleProtocol and StartImage; the last returns only if the
\* kernel does not run.
StartKernel ==
    /\ pc = "load"
    /\ kernel' = [id |-> pkg.id, initrd |-> IF dtb.run = 0 THEN NoInitrd ELSE pages[dtb.run]]
    /\ pc' = "started"
    /\ UNCHANGED <<npkVars, runs, pkg, heap, StubSize, Initrd, dtb, pages, status>>

LoadFails ==
    /\ pc = "load"
    /\ pc' = "failed"
    /\ status' = "LOAD_ERROR"
    /\ UNCHANGED <<npkVars, runs, pkg, heap, StubSize, Initrd, dtb, pages, kernel>>

\* "If we get here, boot failed".
CleanUp ==
    /\ pc = "failed"
    /\ heap' = Freed(Freed(heap, InitrdData), {StubBlock})
    /\ Return(status)
    /\ UNCHANGED <<npkVars, runs, pkg, StubSize, Initrd, dtb, pages, kernel>>

Init ==
    /\ NpkInit
    /\ pc = "returned"
    /\ runs = 0
    /\ pkg = NoPkg
    /\ heap = {NewDtb(0)}
    /\ StubSize = 0
    /\ Initrd = NoInitrd
    /\ dtb = [buf |-> NewDtb(0), run |-> 0]
    /\ pages = [r \in 1 .. MaxRuns |-> NoInitrd]
    /\ kernel = [id |-> 0, initrd |-> NoInitrd]
    /\ status = "none"

Next ==
    \/ FindAndReadNpk \/ Parse \/ TakeKernelFile
    \/ FindElfSection \/ ScanAfterPtLoad \/ Stream1 \/ NotStub \/ TakeStub \/ Stream2
    \/ CopyInitrd \/ PatchDtbInitrd \/ BootWithout \/ StartKernel \/ LoadFails \/ CleanUp

Spec == Init /\ [][Next]_vars
-----------------------------------------------------------------------------
(***************************************************************************)
(* Correctness.                                                            *)
(***************************************************************************)

Booting == {"boot", "patch", "load", "failed", "started"}

\* Every variable has its type, and the parser runs only when it was called.
LoaderTypeOK ==
    /\ pc \in {"returned", "parse", "section", "fallback", "stream1", "stub", "stream2"} \cup Booting
    /\ runs \in 0 .. MaxRuns /\ (pc # "returned" => runs > 0)
    /\ pc # "parse" => npk = "idle"
    /\ pc = "parse" => npk # "idle"
    /\ pc \in {"section", "fallback", "stream1", "stub", "stream2"} => pkg \in Packages
    /\ pages \in [1 .. MaxRuns -> {p.id : p \in Packages} \cup {NoInitrd}]
    /\ Initrd \in {p.id : p \in Packages} \cup {NoInitrd}
    /\ dtb \in [buf : {NewDtb(r) : r \in 0 .. runs}, run : 0 .. runs]

\* What is not freed: of a run that copied its RAM disk the pages, and the
\* device tree that names them, also when a later one takes its place; and the
\* buffer of a second stream that is empty.  Of these only the pages and the
\* buffer of the installed device tree are of use after the run: the pages of a
\* run that could not patch the tree, and the empty buffer, are leaks.
WithPages == {r \in 1 .. runs : pages[r] # NoInitrd}
Kept == {NewDtb(r) : r \in {0} \cup WithPages} \cup {PagesOf(r) : r \in WithPages}
        \cup {Lost(r) : r \in 1 .. runs}

\* What a run has to free, at each step.
Held ==
    (IF pc = "parse" THEN {NpkBlock} \cup Holds ELSE {})
    \cup (IF pc \in {"section", "fallback", "stream1", "stub", "stream2"} THEN KernelElf ELSE {})
    \cup (IF pc \in {"stub", "stream2"} \cup Booting THEN {StubBlock} ELSE {})
    \cup (IF pc \in Booting THEN InitrdData ELSE {})

\* Whichever step fails, a run frees its pool buffers each once: the package
\* file, what the parser made of it, boot/kernel, the stub and the RAM disk.  At
\* every step the blocks that are live, but for those Kept, are exactly those
\* the run still has to free; when it returns there are none.
RunsFreeTheirBuffers ==
    /\ heap \ Kept = Held
    /\ pc = "returned" => heap \subseteq Kept

\* The device tree that is installed is live, and the RAM disk it names, if any,
\* is a complete one in pages that are still allocated, also after later runs.
DtbNamesLivePages ==
    /\ LoaderTypeOK
    /\ dtb.buf \in heap
    /\ dtb.run # 0 => PagesOf(dtb.run) \in heap /\ pages[dtb.run] # NoInitrd
    /\ pc = "patch" => PagesOf(runs) \in heap /\ pages[runs] # NoInitrd

\* "proceeding without initrd": a kernel started without one finds none.
WithoutMeansWithout ==
    (pc = "started" /\ Initrd = NoInitrd) => kernel.initrd = NoInitrd

\* "Size of the decompressed EFI stub kernel": StubSize does not go beyond what
\* was decompressed.
StubSizeIsDecompressedSize == pc = "stream2" => StubSize <= pkg.out

\* "No initrd section, scanning after PT_LOAD": the headers that are scanned are
\* those of an ELF file.
FallbackHasElfHeader == pc = "fallback" => pkg.size >= EhdrSize /\ pkg.elf
=============================================================================
