# A verification development of the FTL of msst2015-ftl

The repository is the firmware of an OpenSSD "Jasmine" board with a page-mapped flash
translation layer (FTL) that can *program low pages again* ("overwrite") instead of moving
data, and the installer that prepares a board. This directory holds TLA+ models of them, the
TLC configurations that check the models on small instances, and proofs checked by TLAPS.

All paths below are relative to `src/`.

## 1. Inventory

| component | source | state | operations |
|---|---|---|---|
| Host requests, set-up | `ftl_seal/ftl.c` | SATA buffer ids, bad block bitmap | `ftl_open`, `format`, `build_bad_blk_list`, `ftl_read`, `ftl_write`, `ftl_trim`, `backgroundCleaning`, `ftl_flush` (empty), `ftl_isr` |
| Host writes | `ftl_seal/write.c` | `LOG_BUF`, `logBufMeta`, `chunkPtr`, the bank of the request (`bank_`) | whole pages to the next bank's W block, single chunks to the bank's log buffer, flushes |
| Host overwrites | `ftl_seal/overwrite.c` | `OW_LOG_BUF`, `owLogBufMeta`, `owChunkPtr`, `OwCounter` | in place while the page stands it, else to the OW log |
| Host reads | `ftl_seal/read.c` | `FTL_BUF(0)` | rebuild a page from the map |
| Log blocks | `ftl_seal/log.c` | `RWCtrl`, `OWCtrl`, the lists of logical pages | next page of a block, allocation, sealing an OW block |
| Garbage collection | `ftl_seal/garbage_collection.c` | `gcNestLevel`, `GC_BUF`, `VICTIM_LPN_LIST` | collect one block, recursively through other banks |
| Clean block list | `ftl_seal/cleanList.c` | linked nodes in DRAM | init, push, pop, size |
| Victim heap | `ftl_seal/heap.c` | two arrays in DRAM per heap and bank | insert, decrement, set, reset and remove, least |
| Bad blocks, block map, free blocks | `ftl.c`, `blk_management.c`, `log.c`, `dram_layout.h` | bitmap of bad blocks, logical to physical log blocks, two spare blocks per bank | scan the lists of bad blocks, hand out blocks, get, return, set |
| Chunk map and addresses | `ftl_parameters.h`, `dram_layout.h`, `ftl_metadata.*` | `ChunksMapTable` | 32-bit address arithmetic, `findChunkLocation` |
| SATA command intake | `sata/sata_main.c`, `sata_isr.c`, `sata_cmd.c` | event queue, slow command, `eq_full` | `Main`, FIQ handler, SRST |
| Flash driver | `target_spw/flash.c`, `flash_wrapper.c` | the FCP registers; in the controller the Waiting Room and the state of each bank | issue a command, wait for it, give up and reset |
| Memory utility | `target_spw/mem_util.c` | | words, halfwords and bits of a DRAM that has check codes in it |
| Installer | `installer/installer-linux.c` | lists of bad blocks in memory, in files and in page 0 of each bank | scan, save, load, erase, install |
| Tables, identify data, start-up, the benchmark host, the Windows installer | `sata/sata_table.c`, `target_spw/misc.c`, `host_side/`, ... | | not modelled |

**Interaction.** The FIQ handler puts reads, writes and trims into the hardware's event queue.
`Main` takes them out and calls `ftl_read`, `ftl_write` or `ftl_trim`, which run to the end;
nothing else runs at the same time but the handler and the flash and SATA hardware. A write
goes through `write.c` or `overwrite.c`, which take pages from `log.c`; a page that fills its
block makes `log.c` allocate another, from the clean list, or by sealing an OW block, or by a
garbage collection, which writes the chunks it saves to *other banks* with the same functions
and so can recurse. `heap.c` counts the valid chunks of every block and gives the victims. All
of them hand commands to the flash driver and go on: programs take their data from the DRAM
buffers later. Before any of this the installer has written a list of bad blocks and the
firmware into block zero, and `format` has built the tables from the lists.

**What is hard here.** (1) The recursion: a function's view of the map, of a block or of a bank
is stale after any call that may collect garbage. (2) The buffers: no buffer has an owner, and
each caller waits for what it believes to be enough before it fills one again. (3) Main against
the FIQ handler. (4) Power: nothing is persisted, so everything must be right again after
`format`, whatever the DRAM holds; the installer can end at any step. (5) Commands that are
given up, lists that are damaged, erases that fail.

**What makes each part correct.** The host reads what it wrote last (map, buffers, flash).
Every block has exactly one use, every physical block one place. The valid counts are exact,
since collection stops at the count and not at the end of the block. The lists name the owner
of every mapped chunk. A page is programmed again only when it is a low page of an OW block and
within its limit. The firmware does not stop in one of its `while(1)`. Every request ends. The
list of clean blocks is a FIFO that loses nothing; the heap gives a block with the least count.
Every read and write the handler accepted is answered, every transfer put off is started, once. No
buffer is filled while a program has still to read it, and a read that returns has happened. No
bad block is used, no good one is refused, and the factory's marks survive (all but those on
block `FirstBlk`, 180 in the build, which `format` erases at every start and nobody uses).

The hazards behind these, each at its line, are listed in `PROJECT.json`.

## 2. Modules

    FifoList   <-- CleanList  <-- CleanListProofs, MCCleanList
    VictimPool <-- ValidHeap  <-- ValidHeapProofs, MCValidHeap
    FtlState <-- FtlLog <-- FtlGc <-- FtlWrite <-- FtlOverwrite <-- Ftl <-- MCFtl
    Ftl <-- FtlProofs
    Dram <-- BlockMap <-- BlockMapProofs, MCBlockMap
    BlockMap, Installer <-- Commission <-- CommissionProofs, MCCommission
    FlashDriver <-- FlashClients <-- MCFlashClients
    FlashClients <-- ClientLists <-- ClientProofs
    SataQueue <-- SataQueueProofs, MCSataQueue

* `CleanList`: the nodes, `head`, `tail`, the unused list and `size` of one bank, pointer by
  pointer. `FifoList` is the bounded queue it implements. Two history variables, `order` and
  `pool`, say which nodes the pointers should spell.
* `ValidHeap`: the array of elements and the array of positions of one bank, swap by swap.
  `VictimPool` is the abstract pool it implements: a count for every block, and among the
  blocks inserted one with the least count leaves.
* `FtlState` to `Ftl`: the translation layer proper, all banks. It uses the clean list as the
  queue of `FifoList`, and the heaps as the pools of `VictimPool`: the choice among blocks with
  the same count is nondeterministic, so whatever order the heap has is covered.
* `Dram`: the memory as `mem_util.c` makes it look: real addresses step over the check codes,
  a halfword or a bit is a change of the word around it.
* `BlockMap`: `build_bad_blk_list`, `format` and the exchange of blocks by garbage collection,
  over such a memory, with lists of bad blocks that may be damaged, erases that fail, nested
  collections, and power cycles at every step.
* `Installer`, `Commission`: the installer's menu, which can end at any step, and its
  composition with the firmware of `BlockMap`: they meet in page 0, in block zero and in the
  marks of the factory. A saved list may be cut off (`Cuts`): the installer was killed or met
  `ERR_EXIT` between `fopen` and `fclose`, or `fclose` could not write and nobody looked. What
  `fread` then finds is put over the list in memory, byte by byte (`Overlaid`), and counts as
  a list that was read.
* `FlashDriver`, `FlashClients`: the driver and the controller it drives; and the writes,
  overwrites, trims, reads and collections reduced to the buffers they fill, the commands they
  issue and what they wait for. Code is a list of steps (`todo`), a function the list of its
  steps; banks, host and processor take turns.
* `SataQueue`: `Main` and the FIQ handler, interleaved.

### How the core corresponds to the code

The state of `Ftl` is the firmware's: `chunksMap` (`ChunksMapTable`), `rwCtrl`, `owCtrl` and
their lists, `clean`, counts and heaps, the two buffers of each bank and their pointers,
`gcNest`, `refBank`, and what the flash holds. `stk` is the C stack: one frame per function
under way, with the locals that outlive a call. One action is the code from one possible
garbage collection to the next; since `getRWLpn`, `getOWLpn`, `increaseRWLpn`, `increaseOWLpn`
and the flushes are the only places that can collect, the functions are cut there and nowhere
else. For instance `overwriteCompletePageInOwLog` is `OverwritePageRequest` (up to `getOWLpn`),
then, when the bank has no OW block, `GetOWLpn` with `AllocOw*` and the collections it starts,
then `OwPage`, which ends with `increaseOWLpn` (`IncreaseOWLpn`) and may push `AllocOw` again.
A `while(1)` of the firmware sets `err`, and nothing happens afterwards.

A slot of flash or buffer holds the latest data of a chunk, or stale data, or nothing. When
the host sends new data every other copy becomes stale (`FlashWithout`, `BufWithout`): this is
history, not something the firmware does, and it is what lets `ReadBack` be said in a finite
model.

### Abstractions

* Requests of the core stay inside one logical page. `ftl_write` and `ftl_trim` cut longer ones
  into such requests; between the pieces of one write there is no background cleaning, which is
  the behaviour of `CleanDone` at once (any bank may be busy).
* A piece of a chunk covered in part is merged with the old data by `Merged`.
* In the core a flash operation is over when it is issued, and a log block stands for the
  physical block behind it. What this leaves out is the subject of `FlashClients` and of
  `BlockMap`: `GcFullPage`, for instance, is seen once for its metadata, once for `GC_BUF`
  (`FullPage`) and once for the exchange of blocks (`EndGc`). The three views are not composed.
* `isBankBusy` in `backgroundCleaning` may answer anything.
* The SW log is left out: `SWCtrl.logLpn` is never given a block, so its branches are dead.
* `504`, `124`, `125`, `127` are expressed by `LowPages` and `ChunksPerPage`; with the real
  values (63 and 8) they are the numbers of the code.
* In `FlashClients` contents are left out: the properties are about who is at which buffer. The
  controller is external: it is modelled as `flash.h` and the comments of `flash.c` describe it.
  `InTime` assumes that the ring of write buffers is long enough that the host does not go all
  the way round it while a bank has still to take its data.

## 3. Runs

| run | instance | shows |
|---|---|---|
| `clean_list` | 3 blocks, 3 nodes | pointers, conservation of nodes, refinement of `FifoList` |
| `valid_heap` | 5 blocks, counts to 2 | the arrays are inverse, the heap is ordered, refinement of `VictimPool` |
| `chunks` | 1 bank x 4 blocks of 3 pages (1 low), 2 logical pages of 2 chunks; writes and overwrites of pages, chunks and parts, trims | data and counts through the two buffers, their holes, every move of a chunk between buffers and logs, and collection |
| `mixed_pages` | the same instance, writes and overwrites of whole pages, fairness | OW blocks are sealed, filled as W blocks and collected; the firmware does not stop; every request ends |
| `tight` | 2 banks x 2 blocks of 5 pages (2 low), 4 logical pages | collections nested across banks; when the firmware stops, the bank that wants a block has one clean block left and nothing to collect or to seal, and it never stops for a count, for the depth of nesting or after ten collections; no overwrite in place is led to a block that was collected |
| `block_map` | 2 banks x 8 blocks, 2 log and 2 free blocks, a unit of 8 bytes between check codes, one failing erase, two nested collections | no physical block is handed out twice or lost, none that is bad is used, none that is good is refused |
| `commissioning` | 2 banks x 5 blocks, one bad block on each and a mark on block `FirstBlk` of one (4 marks), saved lists cut off to nothing or in the middle of the first entry, one failing erase | the marks but the one on `FirstBlk` survive any sequence of interrupted installations and use; a firmware that starts has all of them in its lists; no bad block is in use |
| `flash` | 2 banks, pages of 2 chunks, 4 write buffers | no buffer is filled while a program has to read it; the limit passes no such buffer; a read that returns has happened |
| `flash_calls` | the same, pages of 1 chunk, one command given up | whatever is under way comes to its end |
| `sata_queue` | queue of 3, full at 2, 2 resets | reads and writes are answered, transfers put off are started once, soft resets are executed |
| `moved_pages` | as `mixed_pages`, 3 logical pages | **violation** of `ReadBack`, see below |
| `gc_buffer` | as `flash`, collections of 2 pages | **violation** of `GcBufKept`, see below |

**Bounds.** Two chunks in a page are enough for a page to be whole, partly valid or empty and
for a buffer to be half full. With `LowPages = 1` a block has the pages 0, 1, 2: one low page,
one that remains for a sealed block, one that is only used by W blocks; `LowPages = 2`
(`tight`) gives an OW block a second page. `OwLimit = 2` has one program in place between the
first and the last. The number of blocks is chosen so that collection starts after a few
requests and yet the logical pages fit; `tight` has two banks, since a collection can only nest
through another bank. Five blocks in `valid_heap` give a father with two children, a father
with one, and a third level. A unit of 8 bytes in `block_map` puts a check code between cells
of one table and between the bitmaps of two banks, whose bits are not aligned; the last bank
has any of six pages, good, damaged or never written. In the flash runs two banks are enough
for a program to wait on one while the other goes on; `MaxPages` and `MaxChunks` are 1 where the
property is about one transfer and 2 in `gc_buffer`, where it is about the page before.
`MaxNest`, `MaxFailures`, `MaxResets` and `Jobs` are bounds as well, named in their modules.

`MCFtl`, `MCBlockMap`, `MCCommission` and `MCFlashClients` use views, and `MCFtl` a symmetry
(logical pages are interchangeable: the code only compares them). The view of `MCFtl` leaves
out what no action and no property can tell apart: data nobody can read any more, slots of
buffers that will be written before they are read, list entries that name no owner; and it
numbers the blocks of a bank by use, their number being of no consequence. The view of
`MCFlashClients` numbers the write buffers from the limit, and the other two drop
`g_bsp_isr_flag` once `format`, its only reader, is done. The runs with liveness properties use neither.

`CHECK_DEADLOCK FALSE` is set where the system stops by design (`clean_list`, `valid_heap`: a
misuse ends in `while(1)`; `tight`; `block_map` and `commissioning`: failing erases and nested
collections are bounded, and an overrun ends the model) and in `mixed_pages`, where a stop is
reported by `RequestsComplete`.

**What the passing runs assume.**
* `chunks` has a constraint (`OverwritesAmple`): once overwrites are in flash or in a buffer,
  every bank has two clean blocks. Without it the run meets the two defects described below,
  and so does `mixed_pages` with a third logical page. What these runs show of overwrites is
  what holds before the defects bite. The constraint also keeps sealing, and the collection of
  OW blocks for space, out of `chunks`: these are in `mixed_pages` and `tight`, for blocks in
  which nothing is valid any more, and with live data in `MCFtlSealed.cfg`.
* A request covers at least one chunk of every page it is cut into (`Request`): the loops of
  `ftl.c` go on while sectors are left.
* `commissioning` claims nothing (`Claimed`) once the user was warned that no list was read, or
  has read files of which one was missing or did not give back the list that was saved in it
  (`partial`). A file that was written whole stays as it is.
* Marks on block `FirstBlk` are not among those that survive (`Guarded`): `ftl.c:311-312` erases
  that block of every bank at every start, bad or not. A later scan does not find them, so the
  lists do not have them either. `NoBadBlockInUse` has no such exception: `format` takes blocks
  after `FirstBlk` only.
* A mark is on any block but block zero of a bank (`FactoryAssumption`): block zero is where the
  ROM and the installer expect to be able to write.
* `BootBanks = {0}`: the ROM is not part of the repository; it is taken to load the firmware
  from bank 0, which the installer writes first and erases first.
* `flash` has no command that is given up, and in `flash_calls` a command is given up only
  while no program from the host is under way (`NoneOfHost`): what the buffer manager makes of
  such a program when the controller is reset is not in the sources.

**Fairness.** `FairSpec` of `Ftl` has weak fairness of the steps of the FTL thread: it is the
only thread and never waits for the host inside a request. New requests are not fair.
`SataQueue!Spec` has weak fairness of `Main`, which polls for ever, and of the end of a transfer
the hardware has started. `FlashClients!Fairness` has it for the processor, which polls, for the
controller and for the host, which sends the data of the writes it announced; a command that
takes too long is given up or not, without fairness.

### What the violations show

1. `moved_pages` (`overwrite.c:343`). An overwrite of a whole page first takes the old copies
   off the counts and then calls `getOWLpn`. The comment at line 274 says no collection can
   happen in between; but `getOWLpn` collects when clean blocks are scarce. The collection
   still finds the old copies in the map and copies them as valid; it stops when it has found
   as many chunks as were counted and erases the block, and with it a chunk of another page.
2. `gc_buffer` (`garbage_collection.c:233`). A page of which all chunks are valid is copied by a
   program out of `GC_BUF`, possibly to another bank; the next page is read into `GC_BUF` after
   a wait for that bank only when it is a whole page too.

Four further configurations are kept beside the runs; TLC reports each of them violated.
* `MCFtlExhausted.cfg` (`GcFindsExpected`; `overwrite.c:503`): the chunks of a partial overwrite
  leave an exhausted page one by one and the count is lowered once at the end. A flush in the
  loop can collect the block with a count that is too high. With `OwChunksInOwBlocks` or
  `ProgramsAllowed` in its place, and no deadlock check, TLC reports those as well: the collection that misses a chunk
  erases it, the map still leads there, and the next overwrite in place programs the erased
  block, or the page of another block it has become.
* `MCSataSrst.cfg` (`SrstExecuted`; `sata_main.c:124`): a soft reset recorded while `Main`
  finishes another slow command is overwritten with `NONE`. `SrstServed`, which holds, leaves
  this moment out.
* `MCCommissionPartial.cfg` (`WarnedOrSpared`; `installer-linux.c:1098-1102`): a list counts as
  read as soon as one file was opened. When the files of other banks are missing, or a save that
  did not get to its end (`:1043-1056`) left one cut off, the user gets the weaker warning, or
  none when he installs, and marks that are in no list are erased. An empty file
  leaves the empty list that was in memory.
* `MCFlashLostCommand.cfg` (`ReadsDeliver`; `flash.c:198`): after a reset nobody issues the
  command again, and a read comes back without its page.

Two more configurations are kept beside the runs, and TLC finds them in order.

`MCFtlNested.cfg` (`NestsTwiceAtMost`; `garbage_collection.c:31`) has two banks of three blocks,
one more than `tight`. There a collection does nest back into its own bank, which in `tight` the
want of blocks prevents, and never a third time, which would stop the firmware. The block is paid
for with the defect of `moved_pages`, which the instance meets, so that of the invariants only
those about blocks are checked.

`MCFtlSealed.cfg` is the
instance of `moved_pages`, where OW blocks are sealed with live data in them. In the passing
runs only OW blocks are sealed in which nothing is valid any more: with the two logical pages of `mixed_pages` no
W block has more to copy than an OW block with live data, and in `tight` a full OW block is collected
at once.
`OwChunksInOwBlocks` outlasts the defect that breaks `ReadBack` in it, and fails when `SealedMap`
leaves an overwrite bit set.

## 4. Proofs

All theorems are for every value of the constants the assumptions of the modules allow.

* `CleanListProofs`: `TypeCorrect`, `PointersCorrect`, `NodesAreConserved`,
  `CleanListIsAFifo` (refinement). The inductive invariant is the conjunction of the three
  invariants: that a pointer update touches one list only needs the two lists to be disjoint
  and without repetition, and that the pop of the last node clears the tail needs the tail to
  be the last node.
* `ValidHeapProofs`: `HeapTypeCorrect` and `PositionsAreInverse` rest on one lemma, that a swap
  keeps inverse arrays inverse (`SwapKeepsInverse`). `HeapIsOrdered` needs a strengthening,
  since `HeapOrdered` alone is not inductive: while an element is on its way, its father must
  not be greater than its children (`Bridged`), or the swap that lifts it would leave a disorder
  below. `RiseKeepsOrder` and `SinkKeepsOrder` are the two loops, `LesserMayRise` the state they
  start from.
  `HeapIsAPool` is the refinement: the heap implements `VictimPool`. A swap takes an element to
  where its block is then said to be (`SwapMovesElements`), so an iteration of a loop changes no
  count and stutters; of all the positions with a value less than the first, the least would have
  a father that is one as well, so an ordered heap has a least value in front (`RootIsLeast`).
* `FtlProofs`: `TypeCorrect` of `Ftl`. `TypeOK` is not inductive: `increaseOWLpn` takes the next
  low page, so the page of an OW block must be a low one for the next to exist, and a sealed
  block goes on by two pages, so it must stand at an even page to meet the last one. That is
  `PagesInRange`; with it every step has one lemma. What the lemmas share is what `Min` and `Max`
  give of a set that is not empty, which rests on the least number principle, and how `Push` and
  `Return` change the stack.
* `FtlProofs`: `BlocksHaveOneUse` (`OneUse`): every log block is in the clean list, or the W block,
  or the OW block, or in one of the two heaps, or the victim of one collection, and in one of
  them only. `OneUse` counts uses; the proof goes by the six conditions, of which exactly one holds
  (`ExactlyOne`). To get there `UseInv` also says: the clean list has no block twice (or the pop
  would leave it there); while the search for an OW block is on the stack the bank has none (or
  it would be forgotten when the search ends: this is where a collection that asks for an OW
  block itself would hurt, and `Ordered` says none does); a bank gets its W block before anything
  else runs; two collections have two victims (`VictimsDiffer`).
* `FtlProofs`: `ProgramsStayAllowed` (`Spec /\ []OwChunksInOwBlocks => ProgramsAllowed`) and
  `WritesProgramOnce`. What a page may be programmed for depends on what it held, and where
  erased pages are is `PageInv`: all pages of the blocks in the clean list; of a W block those
  from its next page on, every other one if it was sealed; the high pages of every OW block
  (`Blank`). A counter that is not 0 belongs to a page programmed in a block that still is an OW
  block (`CountersInRange`), and never passes the limit. That a program hits no page that is
  blank for another reason, and that an erase or a seal leaves no counter behind, rests on
  `UseInv`: a block has one use. Every step is one of three things to a page (`PageStep`,
  `PagesStep`): it leaves it, erases it or programs it.
  - The program of an overwrite in place goes where the map leads, which is not a matter of
    pages but of data, lists and counts. That it is an OW block is the hypothesis
    `OwChunksInOwBlocks`, checked by `tight` and with `MCFtlSealed.cfg`. It cannot be proved for every value of the
    constants: the defect of `MCFtlExhausted.cfg` falsifies it, and `ProgramsAllowed` with it.
    The theorem says that nothing else can.
  - `WritesProgramOnce` needs no hypothesis but that no request is an overwrite: then no frame of
    the overwrite code is ever on the stack, no bank has an OW block and no chunk is in the OW log
    (`NothingOverwritten`). What is not erased is then never programmed.
* `FtlProofs`: `WholePagesReadBack` (`ReadBack`), `WholePagesCountExactly` (`CountsExact`),
  `WholePagesKeepLists` (`ListsComplete`), `WholePagesAreFound` (`GcFindsExpected`). The four do
  not hold of every host (see below). These theorems are of a host that writes and trims whole
  pages and never overwrites, whatever the geometry, the number of logical pages and the
  collections that nest. The invariant behind them, `PagesInv`, is one for the four:
  - every logical page is nowhere, or all of its chunks lie in one page of one block, in order
    (`Together`), with its data there and its number in the list, and the block is not clean
    (`Placed`). What tells the blocks apart is `OneUse` again.
  - The count of a block in the heap is that of the pages it holds, and the W block's count has
    its pages to come in addition (`Counted`). A page the host has sent and not programmed
    yet (`Coming`) lies where it was and has left the count already.
  - That is what loses data in `moved_pages`, so the proof has to show that no collection runs
    meanwhile: between the old page's count and the program, `getRWLpn` asks for a block only
    when the bank never had one, and a bank that never had one has nothing to collect
    (`OneComing`, `NoneSealed`). A collection it would start stops in the `while(1)` for a heap
    that is empty.
  - A collection has found what the count had when it started, less the pages its victim still
    holds, and none of these is behind it (`ScanOk`); while a page is being copied it counts
    as found and as held (`CopyOk`). Each page of a victim is valid as a whole or not at all
    (`VictimPage`), so nothing passes through the buffers, whose frames are never on the
    stack (`PageOps`).
* `ClientProofs`: `ClientsTypeCorrect`, `BuffersStayKept`, `WriteBuffersStayKept`,
  `ReadsAlwaysDeliver`, for any number of banks, write buffers, chunks and pages. A piece of the
  firmware is a list of steps; `ClientLists` shows once for each of them what the list
  looks like (`Shape`, `Inner`, `Block`, `Returns`), and that lists put together keep it.
  - `BufInv` says of the list that is left what protects a buffer: a buffer a program has still
    to read is waited for before the list uses it again (`UsesWait`); a page buffer that is partly
    full has no program under way (`OpenKept`); the bank that last wrote from `FTL_BUF(1)` is the
    one `lastBank` names (`LastKnown`); a read under way is waited for (`ReadAwaited`).
  - `WriteBuffersKept` needs the ring in addition (`RingInv`): the programs from the host that
    have not been read are between the limit and where the code is (`Frontier`), the limit is the
    first of them, and a place that is further than `Zone` from the limit has such a program. Were
    the code to run into the limit from behind, there would be more programs under way than
    banks: `RingNotFull` is that pigeonhole, and where `NumWrBufs > NumBanks + 1` and `InTime` are
    used. `HostInv` says when the code goes to the next buffer.
  - `ReadsAlwaysDeliver` is `resets = 0 => ReadsDeliver`: `ReadInv` follows a read from the
    registers through the waiting room and the bank to the wait. Once a command is given up the
    property is false (`MCFlashLostCommand.cfg`).
* `BlockMapProofs`: first the memory, with `HalfwordsAreMemory`. Real addresses drift from
  addresses by four bytes a unit, which is monotone (`DivisionMonotone`), so words at different
  addresses do not overlap (`WordsApart`); a halfword is then a part of one word. Then
  `BlocksStayDistinct`, `VictimsStayCurrent`, `BlocksStayKept`. First the
  layout: the tables lie in memory one after another (`Layout`), cells of different banks or
  tables are different (`PlacesDiffer`, `BanksDiffer`), and the bits of bad blocks are before
  them (`BitOutsideTables`, which needs `BitmapFits`: that the rounding leaves room for the byte
  each bank is given too many). Then the invariant `Inv`: which cells format has filled so far
  (`Handed`), that the numbers in them are distinct, that the search for blocks has passed all
  of them (`UpTo`: the next block is therefore new), that the two ends of the free block queue
  coincide between collections (`Search`), and that no block is collected twice at a time and
  every collection has the current block of its victim (`Victims`). The end of a collection is
  then an exchange of two cells (`CollectionEnds`).
  Then `BlockMapTypeCorrect`, `BitmapIsExact` and `GoodBlocksStayUsed`:
  - a byte keeps its other bits when one that is not set is added (`BitAdded`, a finite table of
    powers of two), and the bits of two blocks are at different places even for two banks, whose
    bitmaps need not begin at a word (`BitsDiffer`). So marking a block changes one bit of the
    map (`BitMarked`), and what is written to the list or to the tables changes none
    (`BitsKept`);
  - `ListInv` follows the list of one bank through `TEMP_BUF`: read, checked entry by entry, and
    searched with its header cleared. For a list that is refused nothing is claimed of the bits
    of its bank, but the scan of it must still not touch those of another bank. `BitmapInv` says
    which blocks of which banks have been looked for so far, and that the others are not marked;
  - `GoodInv` says of the bank format is at that it has every good block up to the one looked at,
    and of a bank it has finished that it has a block for every cell or all good ones; and that
    none of them is `FirstBlk`, the search starting after it.
    `EraseFails` makes a block bad that was found by nobody, because the search has passed all
    that were (`UpTo`).

  The proof showed that `TypeOK` gave `lbn` too small a range: format counts the free blocks with
  it, of which there may be more than log blocks.
* `CommissionProofs`: `DriveTypeCorrect`, `MarksAlwaysSurvive`, `NoBadBlockIsUsed` and
  `AlwaysStartsInformed`. `Commission` extends `BlockMap`, so the firmware's part of the invariant
  is the one of `BlockMapProofs`; page 0 may become anything while the firmware is off
  (`PageMayChange`), and every step of the firmware is a step of `BlockMap` (`FirmwareSteps`).
  - The three safety properties are one invariant, because each needs the others: the installer
    spares what its list names, and the list is complete because the marks were all there when
    they were scanned, or because the page or file it was read from was complete (`Knowledge`:
    whatever lists there are, in memory, on page 0 or meant for a file, are `Full`: they have all
    marks but those on `FirstBlk`); the firmware spares what
    page 0 names, which is complete on all banks before block zero of bank 0 has a firmware, and
    not touched before that firmware is erased (`Installation`). Both hold as long as the user was
    not warned and the files he read gave back the lists saved in them (`Quiet`). Files that are
    cut off may well be there: what is shown is that they do no harm until they are read.
  - Marks on `FirstBlk` are erased by the firmware and are no part of the invariant (`Guarded`).
    For `NoBadBlockIsUsed` they need a fact about the firmware instead: `InUseIsGood` gives that
    no block in use is `FirstBlk`, from `GoodInv`.
  - `ScanFills`: a scan makes any sound list full, also one that has entries already. The order
    of the entries is the ROM's (`InSomeOrder`). `MarkedIsBad` leads from a marked flash block
    to the block of the firmware it is a plane of, `VictimsGood` covers the collections under way.
  - Assumptions: what can be left of a file is shorter than the file (`Cuts`), no mark is on block
    zero (`FactoryAssumption`); an entry of a list has 15 bits for the block and one for the chip, and the count
    is a `UINT16` (`EntryAssumption`). `BootBanks \subseteq {0}` is a hypothesis of the three
    safety theorems and not of `DriveTypeCorrect`: a ROM that would load the firmware from another
    bank could start an old firmware when bank 0 is erased already, and the theorems would be
    false.
* `SataQueueProofs`: `HeldStaysReleasable`, and `TransfersDoNotMeet` from `OneAtATime`: what
  the handler and `Main` are at follows from the one command the host waits for. It is stated
  for the time before the first reset, after which a transfer of a command given up can indeed
  be started.

Only model-checked:
* of the core, `ReadBack`, `CountsExact`, `ListsComplete` and `GcFindsExpected` of hosts that
  overwrite or write parts of pages, and `OwChunksInOwBlocks`. The defects `moved_pages` and
  `MCFtlExhausted.cfg` show (section 3) falsify all five in larger instances, so no invariant can
  prove them for every value of the constants; the runs show them up to where the defects
  bite. A host that only writes, but parts of pages, meets neither defect; its chunks
  go through the log buffers, for which there is no theorem yet;
* of the core also `StopsForWantOfBlocks`. Why the firmware stops depends on how
  many blocks there are for the logical pages: with overwrites of whole pages alone, four logical
  pages and three blocks a bank, TLC finds it stopping after ten collections in vain (`log.c:474`);
* `GcBufKept`, which is violated, and `ReadsDeliver` once a command was given up;
* the liveness properties (`RequestsComplete`, `DataServed`, `SrstServed`, `CallsReturn`).

## 5. Not modelled

* The address arithmetic of chunks (`findChunkLocation` and its macros): a location and a
  position stand for an address.
* The ring of read buffers, and the grouping of the chunks of one flash page in a read.
* The configuration registers, copyback and the other calls of the driver that nothing uses;
  start-up, timers, UART; tables and identify data of SATA: register sequences and constants.
* What ATA functions do but send their status.
* Requests beyond the end of the drive (`ftl_trim` does not compare the range with the capacity).
* In the installer: finding the device, the ECC mode and the configuration of the controller.
  `installer.c` and `ntddstor.h` are its Windows twin.
* `host_side/` is a benchmark of the development host; `heapTest`, `testCleanList`, `test` and
  `sanity_check` are test routines.
* A bank with fewer good blocks than log blocks, seen by the translation layer: `BlockMap` has
  such banks, `Ftl` takes every log block for a physical one.

What would come next is a composition of `FlashClients` with `Ftl`, in which a step of the
core issues its commands instead of ending them.
