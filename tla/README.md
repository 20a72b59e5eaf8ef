# Verification of the CCR2004 UEFI firmware

TLA+ models, TLC runs and TLAPS proofs for the drivers of an EDK2 firmware for
the MikroTik CCR2004-1G-2XS-PCIe. The models are translated from the C sources;
`PROJECT.json` maps every definition to the lines it stands for.

## 1. Inventory

UEFI runs on one processor. Concurrency comes from two places: devices, which
run beside the driver (DMA engines, an I2C controller, flash), and timer or
event notifications, which interrupt code that runs at a lower task priority
level. Nothing in the tree starts another processor.

| Component | State it keeps | Operations | Interacts with | What is hard |
|---|---|---|---|---|
| **AlEthNextDxe, receive** | posted buffers, `RxBufTailIdx`, the HAL's ring indices and ring ids | Initialize, Receive, WaitForPacket, Reset | receive DMA engine; network stack | the completion does not name its buffer; two copies of the read position; wrap of two-bit ring ids |
| **AlEthNextDxe, lifecycle and transmit** | SNP state, page pointers, `TxBufInFlight`, station address, filters, PCI attributes | Start, Stop, Initialize, Reset, Shutdown, Transmit, GetStatus, ReceiveFilters, StationAddress, binding Start/Stop, ExitBootServices | transmit DMA engine, EC and MAC registers, page allocator, BoardInfoDxe | memory freed around running DMA; bring-up that fails half way; callers that skip Shutdown |
| **DwI2cDxe** | lock, position in the request; in the controller: FIFOs, `IC_TAR`, abort and STOP flags | StartRequest, Reset, SetBusFrequency | I2C controller and slaves; Pca954xDxe, FanDxe and BoardI2cEepromProbeApp call it | every wait may time out and be answered right after; the controller throws its FIFO away on a refusal |
| **Pca954xDxe** | `ActiveChannel` (a cache), lock | StartRequest on a channel, Reset | DwI2cDxe below, I2C users above | the cache against the real multiplexer when requests fail |
| **FanDxe** | keepalive timer | boot-time probe, timer callback | DwI2cDxe | the period against the bus' timeouts |
| **AlNandDxe** | bad-block table, NAND page register | ReadPage, ReadTags, ReadPageBody, BlockIo | NAND controller; MtYaffs2Dxe | the page register shared by three calls; 32-bit arithmetic |
| **MtYaffs2Dxe** | objects, chunk tables, directory tree, open handles | scan, Open, Read, GetInfo, Close, binding Start/Stop | AlNandDxe | newest-wins over summaries and pages; interrupted writes |
| **SpiNorFlashDxe, FlashApp** | flash contents, write-enable latch | Read, Write, Erase, WriteStatus; update | SPI controller | waits that run out while the chip works on; failure in the middle of an update |
| **FormatBlockApp** | the device's blocks | RAM disk, MBR, GPT and its backup, FAT16 or FAT32 | any block device | layout arithmetic at its boundaries; writes that fail half way |
| **RouterOSLoader** | the installed device tree, across runs | find npk, extract kernel, boot | MtYaffs2Dxe, ZlibLib, XzDec | lengths nested in lengths; buffers owed at every error exit; what a failed run leaves behind |
| **BoardInfoDxe** | board data | parse TLVs from flash | SpiNorFlashDxe; AlEthNextDxe takes the MAC | TLV walk |
| **SpiLoader** | none | load the firmware ELF from SPI flash | SPI flash | segment placement |
| **PlatformBootManagerLib, DtPatchDxe, PlatformGpioDxe, SmbiosPlatformDxe, libraries** | tables installed once | boot | EDK2 core | nothing after boot |
| **Vendored** | | AlpineHalLib, ZlibLib, XzDec | | only the UDMA queue functions are modelled |

What makes each of them correct: frames come out in order, once and from the
right buffer; no DMA into memory that was given back or is being read; no
buffer lost or freed twice; a transmit buffer goes back to its owner only when
the hardware is done with it; an I2C byte goes to its slave, a read gets its own
answer, success means that everything was transferred, and the lock is
released; the multiplexer's cache is right when it is used; the file system
shows the newest version of every file; an update that fails is noticed; a loader
writes only where the headers say and never over itself.

## 2. Modules

| Module | Models | Used by |
|---|---|---|
| `Udma` | index and ring-id arithmetic of a UDMA queue (`al_hal_udma.h`) | `AlEthRx`, `AlEthSnp` |
| `FrameQueue` | abstract: a bounded FIFO of frames, some given up | refined by `AlEthRx` |
| `AlEthRx` | the receive path of AlEthNextDxe | `MCAlEthRx` |
| `AlEthSnp` | lifecycle, memory, transmit, address and filters | `MCAlEthSnp` |
| `I2cBus` | abstract: an I2C master protocol at the level of requests | refined by `DwI2c`; the bus of `Pca954x` |
| `DwI2c` | DwI2cStartRequest against the controller | `MCDwI2c` |
| `Pca954x` | the multiplexer's driver, FanDxe and direct users over `I2cBus` | `MCPca954x` |
| `Yaffs2Scan` | MtYaffs2Dxe's scan over AlNandDxe, against a writer that crashes | `MCYaffs2Scan` |
| `Yaffs2File` | the volume and file protocol of MtYaffs2Dxe | `MCYaffs2File` |
| `SpiNor` | SpiNorFlashDxe and the flash chip | `FlashUpdate` |
| `FlashUpdate` | FlashApp over `SpiNor` | `MCFlashUpdate` |
| `SpiLoader` | the ELF loader of the second stage | `MCSpiLoader` |
| `NpkParser` | `npk_parser.c` | `RouterOSLoader` |
| `RouterOSLoader` | package to running kernel, with `NpkParser` inside | `MCRouterOSLoader` |
| `FormatBlock` | layout and write order of FormatBlockApp | `MCFormatBlock` |
| `BoardInfo` | ParseTlvBlock and the defaults | `MCBoardInfo` |
| `AlEthRxProof`, `AlEthSnpProof`, `DwI2cProof`, `Pca954xProof`, `SpiLoaderProof`, `RouterOSLoaderProof` | theorems about the module of that name (section 4) | |
| `Yaffs2Proof` | theorems about `Yaffs2Scan` and `Yaffs2File` | |
| `StorageProof` | theorems about `FlashUpdate`, `BoardInfo` and `FormatBlock` | |

Definitions whose name says what goes wrong (`...Short`, `...KeepsLock`,
`...NoLinks`) and that nothing uses are slips: what a plausible mistake in the
same lines would look like. `PROJECT.json` names, for every property, one that
breaks it.

### AlEthRx

State: both rings of the receive queue (`desc`, `descRing`, `cdescRing`,
`cdescKind`), software's indices under their names in `struct al_udma_q`, the
hardware's position (`crhp`) and the descriptors it was told about (`drtp`), the
frame each buffer holds (`mem`) and `RxBufTailIdx`. A frame is its serial number
of arrival. `AlEthNextSnpReceive` is three steps (`ReceivePoll`, `ReceiveCopy`,
`ReceiveReSubmit`) because the engine, `HwReceive`, runs between them; what
`al_eth_pkt_rx` found is good, of bad length or damaged, and the caller's buffer
fits or not. The lifecycle calls appear with what they do to the receive queue.
A failed bring-up leaves the queue's variables alone: its memory is not looked
at until the next successful one, and `RxInv` speaks of them only while the
engine runs.

Abstractions: a frame fits one buffer (the driver programs a limit of 1518 bytes
and buffers are 2048 bytes long), so `al_udma_cdesc_packet_get` finds packets of
one descriptor; the engine drops a frame when it has no descriptor; cache
maintenance and the header fields copied out of the frame are left out.

### AlEthSnp

State: the SNP state, the page pointers (`page`, slot 0 is `DescRingBase`), the
firmware's allocation state, the pages the adapter may write (`dmaPages`), the
transmit ring with one buffer in flight, address and promiscuous bit in mode and
hardware, PCI bus mastering, and the history variables `owed` (buffers the caller
has not got back), `filtered` (ReceiveFilters was called since the last bring-up) and
`clean`. A bring-up turns PROMIS_EN on and leaves the receive filter setting alone, as
`al_eth_mac_config` does, so that setting and MAC may disagree after a Reset until
ReceiveFilters is called again; `PromiscuousFollowsFilters` says exactly when. `AlEthHwShutdown` is two steps, halt and free.
`AlEthHwInitialize` succeeds, runs out of memory at any of its allocations, or
fails at a HAL call after the stale hardware was halted. Initially RouterBOOT may
have left the adapter running.

Abstractions: stopping the UDMA always succeeds (the HAL's timeouts, which the
driver ignores, are listed as a hazard); a binding Start that fails undoes its
steps; AlEthNextStop with no children only closes a protocol and is left out;
calls refused for their state or arguments change nothing. The header arguments
of Transmit are the exception: they are checked after the reclaim, so a refused
call can still forget a buffer.

### DwI2c

State: the driver's position (`pc`, `op`, `byte`), the lock, and the controller's
registers and FIFOs. A command in a FIFO also carries the request, byte and slave
it was queued for; these are history, compared with where the byte ends up.
Polling loops are a wait that ends with success (`WaitOver`) or runs out of polls
(`LastPollFails`, then the failure action): between the last poll and the
driver's next step the controller may still move, which is the race of a timeout
and a late answer.

The controller is external and modelled from how the driver uses it: it takes
commands from the transmit FIFO in order and addresses the slave `IC_TAR` names;
a refused byte empties the FIFO, holds it empty until the abort is cleared and
ends in a STOP; without a STOP bit it holds the bus. Two assumptions matter.
`IC_TAR` is writable only while the controller is off, and a controller told to
turn off while busy does so at the end of the byte, even if it is turned on again
before. RESTART bits, 10-bit addresses and bus speed are left out.

### I2cBus and Pca954x

`I2cBus` says what the callers of an I2C master can rely on: one request at a
time; a request is refused while an earlier one is on the wire; one that failed
may have reached its slave and may still do so until the bus is quiet; one that
succeeded is over. `DwI2c` is shown to implement it (`RefinesI2cBus`; a request
is "yes" to its caller once it succeeded and put at least one byte on the wire),
and
`Pca954x` is written over it, so that the two compose without carrying the
controller's FIFOs along.

State of `Pca954x`: the position of two execution contexts, the application and
notifications at TPL_CALLBACK; the multiplexer's lock, `ActiveChannel` and the
channels installed so far; FanDxe's timer; the bus; and the channel that is
really connected (`sel`). A notification interrupts the application whenever no
lock is held (both locks raise to TPL_NOTIFY) and runs to its end. `Reset` takes
no lock and is two steps. A stray byte of a failed request may be the select
itself or the zero byte of the abort path, which disconnects every channel.
Assumed: nobody but this driver addresses the multiplexer.

### Yaffs2Scan

The flash is written by RouterOS. The writer is external and modelled by its
rules: pages in order within one block at a time, sequence numbers that grow by
block, a summary at the end of a full block, copies before a block is erased or
retired, tombstones. A summary may be good, zero, zero at some entries (`StaleAt`)
or left out. Power fails between two pages or during one (`TearPage`), at any page,
a summary or the first of a block included, and the writer goes on behind the torn
page, which is then in the middle of a block. AlNandDxe turns ECC off, so `ReadTags`
and `ReadPageBody` fail only when the controller does: a torn page is no read error
but reads as some `Garbage`: as erased, as tags that are skipped, as a summary with a
wrong checksum, or as a header or chunk of any object with any sequence number up to
`SeqMax`. (Tags of an object that never existed are left out: they add an object to the
tables and touch no other.)

Then `Yaffs2ScanNand` runs as in the code: bad-block table, summary
or page by page up to the first page without tags, headers and chunks by sequence
number, the page register that `ReadTags` loads and `ReadPageBody` reads, and the tree.
A page may fail to read and an allocation may fail. A page's content is its key, parent
and version; the spelling of names, timestamps and modes is left out.

No driver could show what cannot be told from the flash, so the two properties
speak of the keys that are `Readable`, a predicate of the flash alone, without the scan: the newest
copy is `Visible` (named by the summary if the block has a good one, otherwise before the
first page of its block that reads erased), and no visible torn page passes for a newer copy.
Everything else counts, whatever torn pages and stale summaries lie around it.

### Yaffs2File

Volumes are scanned ones, a constant of the model: `VolumeAssumption` has what
every scan leaves (the root is there and a directory; parents and children are in the table).
The actions are the driver
binding, OpenVolume, Open with its path resolution and hard links, Close, Delete,
Read of a file page by page and of a directory entry by entry, SetPosition and
GetInfo. A page may fail to read in the middle of a call. Callers close their
files before the binding's Stop. A chain of hard links (`hop`) and a walk along a path
(`at`) are recursive functions over the number of links and of components. Two
things a YAFFS writer keeps to are not looked at by the code and are stated as
predicates of a volume: `ParentsHold`, no object lies in a hard link (".." and a
relative path from a file would lead to the link itself), and `NamesAndLinksPlain`, names in a
directory differ and are not "." or "..", and a hard link does not lead to another.

### SpiNor and FlashUpdate

The chip programs or erases on its own once told to; it ignores commands while
busy, without its latch or when protected. The driver's steps are write enable,
wait for the latch, command, wait for the end; each wait may run out and each
transfer fail. `FlashUpdate` is FlashApp on top: erase everything (the driver refuses a
sector outside the flash, which an offset near 2^32 reaches, `EraseRefused`), then program,
read back and compare sector by sector, with power cuts at any step and another
run after it. The slots' sizes and offsets are multiples of the sector
(`UpdateAssumption`), as FlashApp's table of slots has them; the raw offset is any. An
image is shorter than `Wrap`, so that FlashApp's cast of the file's size to 32 bits keeps it.
The unit is a page; `Wrap` stands for 2^32 and `FlashPages` for 2^24.

### SpiLoader

Every header field is an input. Addresses are taken modulo `Wrap64`, flash
offsets modulo `Wrap32`, as the C types do. Memory holds, per address, the flash
offset it was loaded from, a zero, what was there or the loader itself; `dirty` is
what is in the cache and not cleaned, lost by the jump. A copy or fill of no bytes
touches nothing, wherever it points. `LoaderAssumption` has what the code's
limits give: the program headers end below 2^64 for any offset the checks let
through.

### NpkParser and RouterOSLoader

`NpkParser` is the parser's control with the lengths it reads chosen where it
reads them: the walk over the parts, inflating with a doubling buffer, the table
of entries with an allocation each, the copy of one file, and every free. `realloc`
of `uefi_libc.h` allocates a new block and frees the old one, so buffer and array go by
their sizes; freeing a block that is not allocated leaves the mark `Corrupt` on the heap,
which no set of blocks that may be live has in it.
`RouterOSLoader` extends it: while its `pc` is "parse", the steps are the
parser's, on the same heap; then come stub, initial RAM disk, device tree and the
start of the kernel, each with its error exits. The device tree stays installed
from run to run. Some things are never freed, and `Kept` names them: device trees that were
installed, also when a later one takes their place; the pages of the RAM disk, which are
lost if the tree could not be patched (KernelBoot.c 172-196); and the buffer of a second stream
that is empty (KernelExtract.c 458-471). zlib, XZ and the boot services are external.

### FormatBlock

The layout in the source's arithmetic and real sizes, then one action per write in
the order of the code, each of which may fail. A write whose result is looked at stops at the
first block that fails; the loops of FSInfo, FATs and root directory go on behind one
(`Unchecked`): any of their blocks may be missing and all that the device has may be
written. `TablesWhole` is about the end: the blocks of a table were all written, and no later
write touched one (`Survives`). It holds for the MBR, the header and the entries on every device that is
accepted, and for the backups on those that `SizeFits` describes. The sizes stay far below 2^30, where `Wrap32` and `Wrap64` are
set because TLC's integers end at 2^31; a scaled instance reaches the wrap (section 3).

`SizeFits` describes the devices the layout is made for: the FAT of one
cluster per block can be sized in 32 bits, and a device with room for a partition has
room for the reserved sectors, two FATs and a cluster of FAT32. With the source's 512-byte
blocks this leaves out devices of about 2^30 blocks and more, where sizes wrap, and those with a
partition of 2 to 97 blocks. Of the latter, up to 33 blocks make the subtractions of the FAT32
branch wrap (lines 428-430); from 34 on nothing wraps, but FATs and root cluster lie over the
backup tables. The code refuses neither and reports success (`BackupSurvives`, section 3). The run has
devices of both kinds; `SizeFits` is a condition in the properties, not of the instance.

### BoardInfo

The area is a sequence of cells; a record has a header of `HeaderSize >= 2` of them, the
tag in the first and the length in the last, so that the end of the area can cut a
header off. Every cell can be read as either or as data, so overlapping readings are
covered. All areas over
the chosen cells are initial states. What the area says is defined apart from the walk:
the places where a record may start are the least set that has the front and, with
each whole record, the cell behind it (`Reached`).

## 3. Runs

| Run | Shows |
|---|---|
| `rx_path` | the right frame from the right buffer over more than one turn of the ring id, exact signalling, refinement of `FrameQueue`, liveness |
| `snp_lifecycle` | DMA and memory, transmit, address and filters, unbinding and ExitBootServices under every order of calls; liveness |
| `snp_stop_up` | violation: Stop without Shutdown leaves the hardware running |
| `i2c_request` | requests with timeouts, refusals and late answers; refinement of `I2cBus`; lock and bus are given back |
| `mux` | the cached channel under two task priority levels, failing and stray transfers; the fan's keepalive is served |
| `yaffs_scan` | newest version and tree after power failures at any point and within pages, with stale summaries; what faults may and may not do |
| `yaffs_files` | reads, directory listing, links and paths over any order of calls |
| `flash_update` | success only for an image that is in the flash, nothing else changed, every update ends, on a chip that hangs too |
| `spi_loader` | any program headers: the loader survives, reads stay in the image, the jump finds what the headers describe |
| `ros_loader` | any package: reads stay in the file, every pool buffer is freed exactly once over repeated runs but for the leaks named in section 2, the installed device tree names live pages |
| `format_layout` | primary tables whole on success on any device; where `SizeFits` holds the backups too, parts apart and inside the partition, FAT16 counted alike |
| `board_info` | any area: the walk stays inside, strings terminated, the last whole record counts |

Several invariants are conjunctions of named parts (`MuxInv`, `ScanInv`,
`FlashInv`, `LoaderInv`, `FileInv`, `NpkInv`, `LayoutSound`, `AreaSafe`): the type
invariant of the module and the parts described there.

**Bounds.** `rx_path`: four slots, two buffers and a reserve of two, the boundary
`NumRx + Reserve = RingSize` of the assumption (the board has 32 + 16 of 64);
`MaxFrames = 18` because sixteen bring the two-bit ring id round, and the first
`MaxOdd = 5` frames, enough to wrap the ring, may be damaged or of bad length.
`snp_lifecycle`: two pages, one bring-up's worth, so that a bring-up after a leak
runs out of memory; two transmit buffers on a ring of four, which wraps; two
addresses and no board information. Larger page sets add nothing the theorems of
section 4 do not already cover. `i2c_request`: two slaves, a FIFO of two, writes
longer than the FIFO, a register read, a lone read, a packet with an empty last
operation, and `MaxRequests = 3`: one to give up, one to meet what it left, one
after that. `mux`: two channels; nothing counts up. `yaffs_scan`: two blocks of
three pages and a summary, one directory and one file beside the root,
`MaxWrites = 5`, a full block and two pages of the other, so that old and new
versions lie in blocks read either way and a torn page (`MaxTorn = 1`) has pages before and
behind it; it reads with a sequence number below, at or above the writer's (`SeqMax = 3`) and
a live or the deleted parent; a summary may be zero at its second entry too (`StaleAt`); faults
(`MaxErrors = 1`, one failing allocation) only on flashes with at most `MaxFaulty = 3` pages
written.
`flash_update`: six sectors of two pages, two slots and a raw area, images on and
off a sector's boundary that share their first page, raw
offsets on and off a sector's boundary and one just below `Wrap`, from which the
longest image wraps to zero, `MaxUpdates = 2`,
`MaxPowerCuts = 1`. `spi_loader`: all pairs of headers over small, limiting and
wrapping fields. `ros_loader`: files of at most nine bytes against headers of two
and three, `MaxRuns = 3`. `format_layout`: real sizes, next to every change of
cluster size and type, and partitions of 34, 70 and 97 blocks, too small for the FAT32 layout.
`board_info`: six cells, headers of two.

Deadlock is checked in `rx_path`, `i2c_request`, `mux` and `yaffs_files`. The others come to
an end: nothing happens after ExitBootServices, the scan, a jump, the last run or
the last write.

**Fairness.** `AlEthRx`: Receive is called again and again and runs to its end (the
network stack polls it from a timer). `AlEthSnp`: a call that has begun ends, the
engine sends what it was given, GetStatus is polled while a frame is out. `DwI2c`:
the driver's loops are bounded, so it goes on; the controller goes on because a
slave gives the clock back in the end. `Pca954x`: calls end for the same reason, a
request on the wire is carried or given up; strong fairness only for the keepalive,
because RestoreTPL dispatches pending notifications each time a lock is dropped.
`FlashUpdate`: the driver goes on, its polls being counted, so that a wait that is not over
runs out (`Waits`); the application goes on and power returns. Nothing is assumed of the
flash chip, which may stay busy for ever, nor of lifecycle calls, arriving frames, slaves'
answers or callers.

**Disagreements.** `snp_stop_up` is a run because it is a hazard of section 1 at work. The other
places where a comment or message says more than the code does are stated as properties in the
modules and checked by no run; each fails in the instance named.

| Property | Instance | The text, and what the code does |
|---|---|---|
| `AlEthRx!RefusedFrameIsKept` | `AlEthRx.cfg` | AlEthNextDxe.c:922 "Don't re-submit — caller will retry"; lines 965-973 post the buffer again and the frame is lost |
| `AlEthSnp!HandedBackByGetStatus` | `AlEthSnp.cfg` | AlEthNextDxe.c:861 "completion checked via GetStatus()"; the next Transmit reclaims the buffer (820-828) and GetStatus never returns it |
| `DwI2c!AbortSendsOnlyStop` | one slave, one request | DwI2cDxe.c:518 "Send STOP on abort"; line 520 writes a zero data byte with the STOP |
| `Yaffs2Scan!StarvationReported` | `Yaffs2Scan.cfg` | Scan.c:849 "EFI_OUT_OF_RESOURCES Allocation failure."; a failed allocation drops the object and the scan succeeds |
| `Yaffs2Scan!BlockFullyProcessed` | `StaleAt = {2}`, `MaxWrites = 3` | Scan.c:569 "block was fully processed"; only the first entry of a summary is tested for zero (681-683), pages behind later zeroes are skipped |
| `FlashUpdate!WelVerified` | `FlashUpdate.cfg` | SpiNorFlashDxe.c:136 "Verify WEL is set"; after a wait that ran out the old latch is taken for the new one |
| `FlashUpdate!AcceptedFits` | `RawOffsets = {0, 46}` | FlashApp.c:257 "Write would exceed flash size"; the sum is taken in 32 bits and may wrap |
| `RouterOSLoader!WithoutMeansWithout` | `RouterOSLoader.cfg` | KernelExtract.c:474 "proceeding without initrd"; the tree of an earlier, failed run still names one |
| `RouterOSLoader!StubSizeIsDecompressedSize` | `RouterOSLoader.cfg` | RouterOSLoader.h:106; the size comes from the section headers and is not compared with what was decompressed |
| `RouterOSLoader!FallbackHasElfHeader` | `RouterOSLoader.cfg` | KernelExtract.c:31, 382; every error of FindElfSection is taken for a missing section |
| `FormatBlock!BackupSurvives` | 137 blocks | FormatBlockApp.c:643 "Writing GPT (primary + backup)"; the size check (220) asks for two usable blocks only, the root cluster of FAT32 (434-437, 576-580) goes over the backup entries, and success is reported |
| `FormatBlock!ClustersMatchType` | 4194304 blocks | FormatBlockApp.c:381 "FAT32: >= 65525 clusters"; the count is not checked, 2048 MB give 65518 |
| `FormatBlock!Fat32Covers` | 8243200 blocks | FormatBlockApp.c:427; the FAT is sized for one cluster fewer than the volume has |
| `FormatBlock!FatWritesReported` | `FormatBlock.cfg` | FormatBlockApp.c:653; failing writes of FSInfo, FATs and root directory go unnoticed |
| `FormatBlock!TooSmallRefused` | scaled, three blocks | FormatBlockApp.c:221 "Device too small for GPT"; LastUsable wraps below zero and the test passes |

## 4. Proofs

All theorems are for every value of the constants that satisfies the named
assumptions, which TLC evaluates in the runs: `UdmaAssumption`, `RxAssumption`,
`SnpAssumption`, `DwAssumption`, `MuxAssumption`, those of `SpiNor`, `FlashUpdate`,
`SpiLoader`, `NpkParser` and `RouterOSLoader`, `ScanAssumption`, `InfoAssumption`,
`FormatAssumption` and `WidthAssumption`, `FileAssumption` and `VolumeAssumption`. Besides
types they say: the posted buffers and the reserve fit the ring; no object has the id of a
pseudo object, and a block has at least two pages; slots are sector-aligned and the flash's
size is a whole number of sectors; the image area and the program headers lie
below the wrap of 64-bit addresses; package ids differ from the value that means
"none"; 32 bits hold what a FAT16 volume can have; a scanned volume is closed under
parents and children and its root is a directory. Every invariant, action property and
refinement that a passing run checks is a theorem.

**Receive path.** The lemmas on modular distances come first: what moving one end of
an interval does to its length, and that a slot is determined by its distance.
`RxInv` is inductive. Its core is `RingAgrees`: counted from
`next_cdesc_idx`, the first `accepted - consumed` slots are completed, the first
`NumRx - Held` are posted in buffer order starting at the tail, each slot carries
the ring id of its pass, and every other slot carries the id of the pass before.
None of the properties is inductive without it: that the copied buffer is the
right one follows only because posting and completing happen in the same order,
and that a completion is recognised only because the slots between carry another
id. From it: `CopyCorrect`, `NoBufferLostCorrect`, `NoDmaIntoHeldBufferCorrect`,
`SignalCorrect`, and `Refinement`, step by step (HwReceive is Arrive, ReceiveCopy
is Deliver, ReceivePoll of a frame that is not copied is GiveUp, a bring-up is
Flush, all else stutters). It uses `NumRx + Reserve <= RingSize`, which is why
`al_eth_rx_buffer_add` cannot fail.

**Lifecycle.** `SnpInv` is inductive: the adapter runs only on allocated pages,
is off while AlEthHwShutdown is under way, and the transmit ring has one entry
exactly when a buffer is in flight; PROMIS_EN is on from a bring-up to the next call of
ReceiveFilters, and from there what the setting says. `NoDmaToFreedCorrect`, `PointersCorrect`,
`PagesCorrect`, `TxCorrect`, `EcAddressCorrect` and `PromiscuousCorrect` hold for
callers of every kind; `QuietCorrect` and
`ReturnedCorrect` assume that callers Shutdown before they Stop (`~StopWhileUp`),
and the run `snp_stop_up` shows that this is needed.

**I2C.** `DwInv` is inductive together with the types. `BusHandedOver` says that
between requests the controller is quiet or about to stop, that it is off when
`IC_TAR` is written and on, for this slave, for the rest of the request; it gives
`SentCorrect` and `LeftOverCorrect`. `OneRead` follows the single read command on
its way through the transmit FIFO, the wire and the receive FIFO and gives
`ReadCorrect`.

That success means done needs the whole sequence of commands. `SuccessInv` is
inductive on top of `DwInv`: the wire, the command being sent and the FIFO, put
together, are one stream (`StreamInOrder`); its commands are those of the
request, in order and without a gap; while nothing was refused the stream is
exactly what the driver queued (`DriverAt` says how far that is for each of its
steps); a STOP bit is only on the last byte; commands of earlier requests are on
the wire only (`OldCommands`). When the driver has seen STOP and no abort, FIFO
and wire have nothing left to send and the stream is the whole request:
`StreamCorrect`, `SuccessCorrect`. `BusRefined` then shows, action by action, that
every step of the controller and the driver is a step of `I2cBus` or a stutter.

**Multiplexer.** `MuxInv` is inductive. `CacheIsRight` and `ReachesItsChannel` are
not by themselves: that the cache may be believed needs `OneAtATime` (one context uses the
bus, under the lock if it goes through the multiplexer, and the bus' record names
its slave), `SelectOnWire` (a select on the wire belongs to no channel's request,
and one that went through has connected what it carried) and `ProbeFirst` (the
driver's own write of the register happens before any channel exists).
`MuxCorrect` holds for every set of channels. It speaks of the abstract bus, which
`DwI2c` implements by `BusRefined`.

**Scan.** For every geometry, every set of directories and files and every history
of the writer, with any number of torn pages that read as any garbage and summaries stale at
any entries. `IInv` has two halves. `WriterInv` is what a writer can leave. It speaks of
copies, pages that were written to their end: the copies of a block share a sequence number
that no other block has (`Copies`); an entry of a summary is zero or right about a copy
(`Summaries`); while the writer runs its block is blank from `pos` on and its copies have the
highest number (`WriterAt`); what was last written of a live object is the
newest copy on good blocks, and of a deleted one the newest header says so, if any is left
(`Current`, which holds through garbage collection because a block goes only when all of it is
needless); live objects are in live directories (`LiveTree`). Of what a torn page reads as nothing
is assumed but its type, and that it is no accepted summary: the checksum would have to match.

`Scanned` is the scan:
where it is (`ScanAt`, with the page that the page register holds between tags and body),
that the tables hold pages that were seen (`Tables`), that without a fault the pages seen
are the `Visible` ones behind the scan (`Covered`), and that a block is read page by page only
if its summary is no good, and up to here without an erased page (`PageByPage`). `NewestSoFar` alone is not inductive: that an entry
of a summary speaks of the page it is recorded under needs `Summaries`, that the
body belongs to the tags needs `ScanAt`. From it `ScanSafe`, under any read
errors and failing allocations. At the end of a scan without faults exactly the visible pages
are seen, torn ones among them; for a `Readable` key the newest of them is the newest copy, hence what was last
written: `FilesCurrent`, `TreeCurrent`.

**SpiLoader.** For every image, header and program-header table. `LoaderInv`
together with `ReadsStayInImage` is inductive: the checks made when a header is
read bound each of the following transfers, modulo the 64-bit and 32-bit wraps
(`LoaderSafe`, `ReadsInImage`). `ImagePlaced` is about the moment of the jump and
needs what memory holds while segments are being stored: `PlacedSoFar` says that
an address which an earlier segment covers last holds that segment's byte or
zero, and that the stored part of the present segment is in place. `ImageIsPlaced`
follows at the last header.

**Flash update.** `FlashInv` is inductive as it stands: `CallMatches` ties the
driver's call in progress (its address, length and what the chip was told) to the
application's position, so that whatever the chip does by itself after a wait
that ran out stays in the slot being written; with it `OthersUntouched` holds at
every step, power cuts included (`FlashSafe`). `SuccessIsTrue` needs
`Compared`: the sectors already compared hold the image, and nothing that the chip
may still be doing can touch them, because a call only returns success when the
chip was seen idle.

**Package loader.** `NpkInv` (the parser's place agrees with the block it is in, no
read outside the file, and at each position the live blocks are exactly those still to be freed), `EntriesTile`,
`RunsFreeTheirBuffers` and `DtbNamesLivePages` are proved together
(`NpkSafe`, `EntriesTileContent`, `BuffersFreed`, `DtbLive`) because the two
modules share heap and position: at every step the heap without what is `Kept` equals
what the run still has to free (`Held`), so an error exit
that forgets one block would show, and one that frees a block twice or too early too, as the block
`Corrupt`. Blocks of different kinds are told apart by
their first field. The device tree needs the converse, that no page it names is
freed by a later run.

**Files.** For every volume that satisfies `VolumeAssumption`, any number of handles, any
path and any bound on the links followed. What a recursive function computes is
shown without an induction theorem: the natural numbers are well founded, so every set of them
has a least element (`LeastNat`); a least counterexample then gives that the equations
of a chain of steps have a solution (`ChainExists`) and that every solution stays in a set the
steps do not leave (`ChainStays`). With the set of all objects this says where
`ResolveHardlinks` and `Walk` end, with the objects that are no links that handles
never sit on one, with a link and its target that a plain link resolves to its target or not
at all. `FileInd` is inductive: a handle is closed or on an object with its cursor
among the children (`HandlesOK`); `listed` is what lies before the cursor (`ListedOK`);
the bytes gathered by the read in progress are the file's and no more than are there
(`JobOK`, which needs that inside a page quotient and remainder move together,
`SamePage`); the handle of the last result stays on its object (`ResultOK`).
`EnumerationIsComplete` holds for every volume; `FileSafe` assumes `ParentsHold`,
for the conjunct that no handle is on a link; `ListedOpens` assumes
`NamesAndLinksPlain`. TLC evaluates both on the volume of the run.

**Board information.** `InfoInv` is inductive: the walk is at a place of `Reached` and no
record before it reaches behind it (`OnTheChain`), the tables say what the last
record before it said (`SaidSoFar`), and where the walk has ended no record starts
(`AtTheEnd`). That nothing starts between one record and the next, or behind the end, is where
leastness is used: the places without the gap are chained too, so `Reached` is among
them. `BoardAreaSafe` and `BoardSaysTheLast` hold for every area, every size of the fields and headers of
two cells or more, cut off by the end of the area or not.

**Formatting.** `FormatInv` is inductive: each part is written at most once, where the
layout puts it, and only at stages behind it (`PutOnce`, `PutInPlace`, `TablesSoFar`), the second half
of the tables and the volume only where both halves have room (`PutWithRoom`),
and past the size check there is a partition (`StageHasRoom`). The layout is arithmetic: `Try16Facts` and
`Try32Facts` bound the two rounds in which the FAT's size and the number of clusters
are computed from each other, with the lemmas on quotients, remainders and wraps, and
`PlacesApart` orders the places. That the tables are whole at the end needs it too: each was
written to its end, and what was written later lies apart. `FormatTablesWhole`,
`FormatLayoutSound` and `FormatFat16Agrees` prove the properties of the run; for the primary tables `BehindPrimary` suffices,
which needs no `SizeFits`: past the size check everything else lies behind them.

Only model-checked: the liveness properties (`EventuallyFetched`,
`TransmitRecovers`, `LockReleased`, `BusFreed`, `KeepaliveServed`, `UpdateEnds`),
which need fairness and are out of the prover's reach; and the disagreements of section 3,
each of which is a counterexample of TLC's.

## 5. Not modelled, and the plan

Not modelled, with the reason:

- PHY bring-up, device-tree patching, SMBIOS and GPIO tables, console and
  boot-option registration, PlatformLib and PciHostBridgeLib: tables installed once
  at boot or fixed register sequences whose failure is ignored; no behaviour after that.
- The diagnostic applications: straight-line tools without state
  (BoardI2cEepromProbeApp's requests are users of the bus in `Pca954x`).
- AlNandDxe's BlockIo and the register sequences of the NAND controller;
  SpiNorFlashDxe's WriteStatus and MtYaffs2Dxe's Yaffs2DetectFilesystem, which have
  no caller; RouterOSLoader's warm reset; UART and SPI set-up of SpiLoader.
- The vendored code beyond the UDMA queue: register headers and drivers of
  AlpineHalLib (and their copies in SpiLoader), ZlibLib and XzDec. They are about
  109 of the 123 thousand lines of the implementation and are used through a few
  calls each; this is why the map covers a small share of all lines and about half
  of the firmware's own.

Known hazards without a property: there is no checksum over a firmware slot, so
that an interrupted update cannot be told from a good image by SpiLoader; HAL
calls that time out while stopping the adapter are ignored by AlEthHwShutdown and
taken to succeed here; WaitForPacket may interrupt AlEthHwShutdown between halt
and free; Reset of the I2C controller leaves `BusSpeedHz` as it was (no bus speed in
the model); each wait of the I2C driver may take ten seconds at TPL_NOTIFY (no
real time in the model).

What could come next: the interruption of Reset by WaitForPacket, as a step of its own in
`AlEthRx`; and `VolumeAssumption` as a theorem about the tree that `Yaffs2Scan` builds, with
the two modules over one representation of a volume.
