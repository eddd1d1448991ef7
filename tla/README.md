# HDDChecker: TLA+ models, checks and proofs

HDDChecker is a PlayStation 2 program that checks, repairs and defragments the
internal hard disk: the partition scheme (APA) and the PFS filesystems in the
partitions. This directory holds TLA+ models of it, TLC configurations that
check them on small instances, and TLAPS proofs. All references below are to
files under `src/`.

## 1. The system

| component | state | operations | used by |
|---|---|---|---|
| libapa cache and journal (`common/libapa/src/cache.c`, `journal.c`) | ring of header buffers (dirty flag, use count, sector), journal buffer, sector `apal` and its slots on the disk | get, free and allocate a header; flush all dirty headers through the journal; reset, write, restore the journal | everything in hdck and hdsk |
| libapa partition chain (`apa.c`) | headers linked by `next` and `prev`, main partitions with lists of their sub-partitions, `nsub` | insert, remove, delete, merge with free neighbours, walk, error sector record | hdck, hdsk |
| libapa free space, passwords (`free.c`, `password.c`) | none | map of free space, cipher | hdsk |
| hdck (`hdck/hdck.c`) | local to one devctl | one devctl: check and repair the chain | EE engine |
| hdsk (`hdsk/*.c`) | thread, event flag, stop flag, status, progress | start, wait, poll, stop, status, progress, free space, simulation | EE engine |
| libpfs (`common/libpfs/src/*.c`) | cache of metadata blocks, journal, zone bitmap, inodes, directories, super block | mount, format, allocate and free zones, read and write directory entries, flush | fsck, fssk |
| fsck (`fsck/*.c`) | bitmap of the zones met, error counters, thread, prompt | open (super block), start, wait, poll, stop, prompts, close | EE engine |
| fssk (`fssk/fssk.c`) | as fsck, and the sub-partitions to be emptied | open, start, wait, poll, stop, close | EE engine |
| hdlog (`hdlog/main.c`) | one mounted file | mount, write, unmount | EE engine |
| hdst (`hdst/main.c`) | none | S.M.A.R.T. and self-test commands | EE engine |
| EE engine (`system.c`, `iop.c`) | which modules the IOP runs, abort flag, error counts | scan, optimise, surface scan, zero fill; reboots of the IOP between them | menus |
| menus, fonts, graphics, pads, languages | presentation | - | user |

**Interaction.** The EE calls into the IOP through remote `devctl`/`ioctl2`
calls that each run to their end; hdsk, fsck and fssk answer START by waking a
thread of their own, which the EE then polls and may stop. hdck runs inside the
call. All of them change the disk only through the caches of libapa and libpfs;
each change is put in the cache, then flushed through a journal. The EE reboots
the IOP before and after every operation, so every module starts on a disk that
an earlier one, or a loss of power, has left.

**What is hard.** A flush is many writes, and the drive's own cache reorders
them; the power fails between any two. Results of transfers are ignored in many
places. The check of the chain repairs what it walks over, twice, in two
directions. Lengths are unsigned 32-bit numbers and subtracted. hdsk's thread
and its devctl share a cache without a lock. A stop may race the start or the
end of a thread. libpfs gives a buffer that is dirty to another block by flushing
everything, in the middle of whatever its caller is changing. The walks of fsck
and fssk advance by lengths read from the disk they mend. The full list, line by line, is `hazards` in `PROJECT.json`.

**What makes each part correct.** Journal: a flush is atomic and durable, a
restore writes no header to another's place. Chain: every operation leaves, at
each of its flushes, a chain linked both ways that covers the drive, and only
the partition it was asked for leaves it. hdck: it ends, it keeps the partitions
that the damage does not concern, and what it calls good is consistent. hdsk: a
move preserves data and chain, the simulation predicts it, a stop is obeyed.
libpfs: a block has one buffer and a flush is atomic; an allocated zone has one
owner, the free ones are counted, entries tile their sectors. fsck: it ends, what is
sound is kept, what it clears the error bit of is sound. fssk: the filesystem can be
mounted after any step, and a sub-partition that goes is empty. EE: an operation
ends unless a thread of the IOP hangs, its result is that of the threads, a surface scan
erases only bad sectors and passes over no sector that the user does not know of.

## 2. What is modelled

| module | models |
|---|---|
| `AtomicStore` | what the header cache promises: a store a crash cannot tear, a copy in memory, flushes that move all changes at once |
| `ApaJournal` | `cache.c` and `journal.c` of libapa on a drive with a write cache: each transfer of `apaCacheFlushAllDirty` and `apaJournalRestore` is an action |
| `ApaJournalProofs` | theorems about `ApaJournal`, and that it implements `AtomicStore` |
| `MCApaJournal` | the faults its runs use |
| `ApaChain` | the chain of headers and `apaDelete` with `apaDeleteFixPrev`, `apaDeleteFixNext`, `apaMakeEmpty`; the consistent drives; `Consistent` |
| `ApaDelete`, `MCApaDelete` | calls of `apaDelete` with losses of power |
| `ApaDeleteProofs` | lemmas about the loops and walks of `ApaChain`, for drives of every size; theorems about `ApaDelete` |
| `Hdck`, `MCHdck` | the whole of `HdckDevctl` on damaged drives, with losses of power |
| `Hdsk`, `MCHdsk` | the thread of the defragmenter, `HdskThread`, on drives full of games, with stops, failing transfers and losses of power |
| `PfsCache`, `MCPfsCache` | `cache.c` and `journal.c` of libpfs: the ring of counted buffers, the flush in the middle of a get, the replay at the next mount |
| `PfsCacheProofs` | theorems about `PfsCache`: the ring and the buffers; what a loss of power leaves and what a get gives |
| `PfsZones` | operators on bitmaps, counts of free zones and segments of inodes (`bitmap.c`, `block.c`) |
| `PfsFile`, `MCPfsFile` | files and the root directory: format, create, extend, cut, remove (`dir.c`, `inode.c`, `block.c`, `super.c`) |
| `PfsZonesProofs` | lemmas about the search for free zones, their release, lists of segments and where the data of a file is, for partitions of every number and size |
| `PfsFileProofs` | theorems about `PfsFile` |
| `Fsck`, `MCFsck` | the check of a PFS filesystem, `FsckOpen` and `FsckThread`, on damaged filesystems |
| `FsckProofs` | theorems about `Fsck` |
| `Fssk`, `MCFssk` | the trimmer of a PFS filesystem, with the mount it starts with and losses of power |
| `FsskProofs` | theorems about `Fssk` |
| `SurfaceScan` | `SurfScanDisk` and `ZeroFillDisk` of the EE, verification and erasing of hdst |
| `HddChecker`, `MCHddChecker` | the operations of the EE engine, composed with the threads of fsck, fssk and hdsk, hdlog, `SurfaceScan`, the lock and the power button |
| `HddCheckerProofs` | theorems about `HddChecker` and `SurfaceScan` |

**Composition.** Each layer uses what the one below it is checked to promise.
`Hdck` and `Hdsk` flush in one step since `ApaJournal` implements `AtomicStore`;
`PfsFile`, `Fsck` and `Fssk` take metadata as one record, since `PfsCache` shows that
a get returns what was stored last and that a flush is all or nothing; they share the
operators of `PfsZones`. `HddChecker` extends `SurfaceScan` and takes the threads of
the IOP as steps that end with a verdict: what they do to the drive is in `Fsck`,
`Fssk` and `Hdsk`.

### ApaJournal

`cache` and `dirty` are the buffers (one per header; a buffer that is not in
the ring is `NoBuf`), `jbuf` is `journalBuf.sectors[0..num-1]`, `todo` what a
loop over the cache has left, `idx` the loop variable of `apaJournalRestore`.
`pc` is the statement reached, `phase` the caller of `apaJournalFlush`
(`commit`: the first call of a flush; `reset`: `apaJournalReset` after it;
`restore`: when the module starts). The drive is two copies of every sector:
what it returns (`home`, `slot`, `apal`), and what is on the platter (`pHome`,
`pSlot`, `pApal`). `Destage*` moves one sector at any time, in any order;
`ata_device_flush_cache` (`Barrier`) moves all.

A behaviour has failures of one kind, chosen at the start. `PowerLoss` leaves
what is on the platter, with any two-sector header that was being written torn
(`Garbage`; the journal is one sector and is not torn). `IopReset` (the EE
reboots the IOP, `iop.c:136`) leaves the drive's cache and perhaps one torn
header. Every transfer may fail as `Faults` says; a failed write leaves the old
sector or a torn one. `apaJournalFlush` returns at the first error;
`apaCacheFlushAllDirty` ignores it and goes on; `apaCacheTransfer` clears the
dirty flag whatever happened; `apaJournalRestore` leaves its loop and resets.

Not modelled: the use counts and the order of the ring, read errors
(`apaSaveError`), the checksum test (a header that is `Garbage` is not read).

### ApaChain

Addresses and lengths are in units of the smallest partition (0x40000 sectors);
a unit is free, a header, or inside a partition. A header is a record with
`next`, `prev`, `len`, its type, whether it is a sub-partition and of which
main, and the list of a main's sub-partitions (`nsub` is its length). `Bad` is a
sector that cannot be read as a header. `Flush` is one step because `ApaJournal`
implements `AtomicStore`, and `header->start` is left out because
`NoForeignReplay` shows that a header is always at its own address. The cache
has 256 buffers in hdck, more than a drive has partitions in the models, so
`mem` keeps every header that was read or changed.

`apaDelete` is a small activation record (`del`) and one action per flush:
`DeleteLast` (each turn of its loop), `DeleteFixPrev` and `DeleteFixNext` (each
twice), `DeleteMakeEmpty`. The loops inside a step, and the walk that `Consistent`
follows, are functions from locals to locals (`GrowBack`, `GrowOn`, `Follow`) that
`Turns` applies as often as a drive of `Units` can need.

**The free tail.** `overTail`, in `ApaDelete` and `Hdsk`, remembers a call of
`apaDelete` made while the last partition was free. `apaDelete` leaves none there,
but a loss of power in the loop of `DeleteLast` does. If a neighbour then swallows
it, the neighbour has no next partition, and when it grows back in the second
round `apaDeleteFixPrev` writes `start + length`, the end of the drive, into its
`next` (`apa.c:275`). `AlwaysConsistent`, `OnlyTheVictim` and, in `Hdsk`, the
properties about the drive hold until such a call is made.

### Hdck

`pc` is the part of `HdckDevctl` reached; `cur`, `parent` and `seen` the walk
and the list of `AddPartitionToList`; `e1`, `e1prev`, `e2`, `e2prev` the four
error variables; `rem` and `link` the locals of
`MarkUnreadablePartionAsEmpty`; `mains` and `subs` the lists that
`ReadPartitionMap` leaves in `IOBuffer`. One action is one turn of a loop, which
flushes at most once. Lengths in `MarkUnreadablePartionAsEmpty` wrap at
`2^Bits` units, as they do at 2^32 sectors in the code, where a unit is 2^18
sectors.

The drive is any consistent one (`Drives`), with damage of one kind: headers
that cannot be read, or links that are wrong (`prev` to the MBR; `next` past the
end, which `apaDeleteFixPrev` itself produces on a free last partition,
`apa.c:275`), and perhaps a sub-partition whose header became free while its
main partition still lists it. The MBR is not damaged. `PowerLoss` restarts the
check from what is on the disk. Four history variables serve the properties:
`healthy` (main partitions that can be read and do not lie between two that
cannot), `lastGood`, `gaveUp`, and `halfMarked` (power was lost in the loop of
`MarkUnreadablePartionAsEmpty`). `HealthyKept` asks whether a healthy partition is in the
chain at its address, not what type it has there.

Not modelled: the error sector record, memory that `apaGetPartErrorSector`
leaks, and more partitions than the lists hold.

### Hdsk

`pc` is the statement reached; `size` is `PartSize`; `dest` and `start` are the
two headers a move works on; `tmp`, `subs` and `back` belong to `hdskRemoveTmp`,
which is called from four places and returns to `back`. `block`, `left` and
`halved` are `MovePartitionsBlock`, its `remaining`, and whether
`SplitEmptyPartition` has set its result. `data` is what each unit of the drive
holds, `hdl` the information of a game (each main partition is taken to hold one):
the address of each of its parts, as its `part_specs` give them. `CopyPartition`
copies one unit per step. The header itself is not copied, it is swapped.

The four searches of the thread are four actions that share `Search`. A search is
one step, since nothing but the stop flag changes under it; its second disjunct is
a stop in the middle, which returns the partition the search had got to, as the
code does. `SplitEmptyPartition` flushes after each halving, one step each. The
data of a copy is on the platter before the headers that point to it: the first
barrier of the flush sees to it (`FlushBarrier1`). `SwapPartition` on a
sub-partition that its main partition does not list changes `mem` only.

`Init` is every consistent drive of the bounds; at most one main partition with
sub-partitions is called `_tmp`, or one sub-partition is in no list.

Not modelled: failures of the headers' own transfers, the status that
`hdskRemoveTmp` may leave, the simulation (`sim.c`). The rest of the devctl is in
`HddChecker`.

### PfsCache

`buf` is `pfsCacheBuf[1..]` (block, content, dirty flag, `nused`), `ring` the list of
those that may be reused, `lastError` of the mount. `pc` is the statement reached in
`pfsCacheFlushAllDirty`, `pfsJournalWrite`, `pfsJournalFlush`, `pfsJournalReset` or
`pfsJournalRestore`, `pending` the call a flush was begun for: a get (`Miss`) whose
buffer is dirty, a flush, or the close. `jlog` is `pfsJournalBuf.log`. `disk` is what
the drive returns, `may` the contents each sector may have on the platter.

The client does what the library's callers do: gets with and without
`PFS_CACHE_FLAG_NOLOAD`, `pfsCacheUsedAdd`, `pfsCacheFree`, changes, `MarkClean`,
flushes, close and mount. `want` is what it has stored; `saved` what a restart must
not lose; `undef` the blocks whose content it gave up itself. `pfsCacheTransfer`
after an error, and the two builds (fsck does not record errors), are in the module; the
run's transfers succeed. `Faults` names the transfers that may fail; a read of the log
(`"log"`) that fails at a mount leads straight to `pfsJournalReset`, as in the code. Not modelled: checksums of blocks and magic numbers.

### PfsZones and PfsFile

A bitmap is the set of its ones, `vol` the bitmaps and `free_zone` of every
partition. An inode is the list of its segments, those of its indirect descriptors
after its own, with `number_blocks`, `number_segdesg` and `size`. `dir` is the list of
sectors of the root directory, each a list of entries with their `aLen`. One action is
one call, but `pfsAllocZones` takes its segments one action each (`call` is what is
left), so that a full filesystem is met in the middle of it. `hung` stands for the
loop that `pfsBitmapSearchFreeZone` does not leave. `lost` is set when a file with
indirect descriptors is removed, `miscut` holds the files `pfsFreeZones` has cut inside
a segment: what the code does there is modelled as it is, and the properties name these
two as their exceptions.

Not modelled: symbolic links, paths, permissions, dates, and zones given back by a
call that fails half-way (no read fails here).

### Fsck

The filesystem is one record `fs`: inodes, directories, bitmaps (`stray` is what
`pfsBitmapReadPartition` finds in a sub-partition at the offset of the main one), and the
flags of the super block. `FsckOpen` checks the super block and the bitmaps. `pc` is
the place in `FsckThread`, `stack` the recursion of `fsckCheckFiles` with the offset in
each directory and the test that is due, `seg` the loop of `fsckCheckDirentryInode`,
`map` the bitmap made on the way. `Fix` is `fsckPromptUserAction`: the error is fixed
(`hasError` stays) or remembered. `FsckStop` comes at any step. `FsckClose` after a
thread that gave up loses what was not flushed.

A filesystem is sound or has any two of some fifty damages: segments outside the
volume, in the reserved zones or over another's, entries of wrong length, alignment or
target (an inode that has two names, a directory inside itself, a `.` or `..` that leads
elsewhere), a name of two characters that starts with a dot, bits missing or in
excess, unreadable data, attributes, bitmaps, super block. `WellFormed` says which
filesystems the module is about in general: any inodes and segments, and sectors of any
entries, as long as there is an entry wherever the walk can come to.

An entry has a length, the length its name needs, a type, an inode and, of its name, whether
it is `.`, `..`, another one of two characters that starts with a dot (`.x`), or any other:
`fsckCheckFiles` takes `.x` for `..` (`fsck.c:678`) and makes it lead to the parent (`Up`).
`fsckCheckFile` goes by the type in the entry and not by the inode's: what it does with an
entry that calls a file a directory is to walk the file's data, which the model does not
have, so that `TypesAgree` is asked of the filesystems (not of what a check makes of
them: `TypeInv` is proved).

`DirectoriesMended` says of every sector that is reached after a check without an error left
that its entries are aligned, have room for their names, and lead where a dot says. That they
fill the sector is claimed if no entry was too long for it: `fsckFixDEntry` adds the wrong
length of such an entry to the entry before it, which the walk has passed
(`fsck.c:665-672`), and the next check finds that one too long.

`HealthyKept` has to except inodes that the tree leads to twice (`Tangled`): when
`fsckCheckDentryInode` meets an inode for the second time, all its zones are in the bitmap
already, and `fsckFillInode` cuts the file to nothing, under both its names.

Not modelled: the prompt (the program opens fsck in its automatic mode,
`system.c:348`; a check that may change nothing is in the model as well), the
verbosity, indirect descriptors, symbolic links. The run has no sub-partition.

### Fssk

`fs` and `vol` are the cache, `disk` what a mount would find, `content` of each zone the
zone its data was first in. `main` and `backup` are `num_subs` in the two super
blocks, `present` the sub-partitions there are. `Open`, `FormatSubs`, `CountSubs` and
`CountSubsInBackup` are `pfsMountSuperBlock` with `pfsUpdateSuperBlock`. `mv` is
`fsskMoveInode` at work: the inode it copies, the one it makes, segment and rest.
`Copied` is `fsskCopyBlock`. `hung` is a place the thread does not leave. What the
thread does is taken from the code to the letter, its exchanged arguments
(`fssk.c:355`) and the count that wraps (`fssk.c:285`) included. `parts` is `partsDeleted`.

`MaxFaults` bounds the losses of power and the transfers that fail; both come at any step. `CopyCut` stops `fsskCopyBlock` after
any number of zones, with the zone it was writing torn or not (`Torn`), in each of its three
calls: for the inode (`MoveBeginFails`, which is also the case where the cache has no buffer
for it, `fssk.c:231-232`, `305-306`), for what goes next to the inode (`MoveSegment`) and for
the rest (`CopyRest`). `ReadFails` is an inode or a sector of a directory that cannot be read
in the walk. `SearchFails` is a bitmap that cannot be read: the mount records the error, no
buffer is read after that, and the search of `fsckBitmapSearchFreeZoneSpecial` goes on
without end. `OpenFails` is a mount that fails: `FsskOpen` returns what `getstat` returned, and
so succeeds (`fssk.c:561-573`); the file is then open on no filesystem (`astray`), and what is
asked of it is not modelled. `Forgotten` is what a close and a loss of power do to the mount.

`Images` are the filesystems it may be started on: `WellFormed` ones, where a directory tree
has nothing wrong with it. fssk tests none of that; what it does to a damaged filesystem is
not modelled. `RemovedIsEmpty` is about the step that lowers `num_subs`, not about every state: a
new inode lists old segments behind its `number_data`, and a later move that adds to it can
bring them back (`Store`), in metadata that is never written.

Not modelled: indirect descriptors, extended attributes, a search that passes over a bitmap
that cannot be read and finds its zones in another one that is in the cache, and bitmaps that
cannot be read when zones next to the inode are taken or zones are given back.

### SurfaceScan

`lba`, `remaining`, `numBad`, `retry` and `mode` are the locals of `SurfScanDisk`; `turn`
is the place in its loop, `bad` the sectors that cannot be read, `zeroed` those zeros
were written to. A drive may not replace a sector it is told to write, may fail
otherwise, and the user chooses each time or for all.

`wait` is the block mode of fileXio. `PatchSector` is called under `FXIO_WAIT`, and after it
(or after its failure, if the user goes on) the mode is `FXIO_NOWAIT` (`system.c:709`) until the
next sector is patched or the IOP is rebooted. Under it the verification returns 0 before the
drive has answered (`Heard`): the rest of the scan, the retry of the patched sector
included, finds nothing, and the scan ends as complete. `CompleteMeansAll` therefore vouches
only for what lies before the first sector that was to be remapped; `allowed` keeps, for the
properties, the sectors that were to be remapped and those that were passed over.

`answer` is the label on the button the user pressed, `mode` what `GetBadSectorAction` makes of
the button's number. The labels' numbers and their texts are in different orders
(`lang.h:99-102`, `lang.c:90-93`), so that "Skip" stands on the button that skips all, and
"Skip all" on the one that skips once (`Labels`, `Modes`).

### HddChecker

`pc`, `op` and `stage` are the main thread, what the user chose and the module it is
at; `i` the partition, `result`, `userAborted`, `errorsFound` the engine's variables
(`userAborted` is never reset, as in the code). `mods` are the modules of the IOP, `mount`
and `thread` those of fsck, fssk or hdsk, `event` and `stopFlag` their protocol, `log`
the file of hdlog, `lock` the semaphore that operations and the power button's callback
take. `Reboot` is `IopInitStart`. `ThreadHangs` is a thread of fssk or hdsk that does not come
out of one of its loops (`fssk.c:117-131`, `hdsk.c:416-430`): only a cancel, with the reboot that
follows, ends the operation then. Not modelled: the start of the program, the estimates
of time, the texts.

## 3. What the runs check

| run | instance | states | shows |
|---|---|---|---|
| `apal_crash` | 2 headers, 2 values, 2 slots, 2 failures | 0.4 M | `TypeOK`, `NoForeignReplay`, `RestoreCopiesJournal`, `ImplementsAtomicStore`, `AlwaysIdleAgain`: with transfers that succeed, the write path of libapa is an atomic store |
| `apal_faults` | the same, 1 failing transfer of a flush, 1 failure | 2.4 M | `FlushedMeansDurable`, `CleanMeansHome`: what is left of it when transfers fail |
| `apa_delete` | 8 units, up to 5 partitions, 2 deletions, 2 losses of power | 0.9 M | `AlwaysConsistent`, `OnlyTheVictim`, `NoFreeTail` |
| `hdck_check` | 8 units, up to 4 partitions, 2 bad headers or 2 bad links, 1 lost sub, 1 loss of power | 0.9 M | `HealthyKept`, `LinksRepaired`, `ChainUsable`, `CheckEnds` |
| `hdck_last` | 1 bad header | | counterexample to `OnlyAffectedDeleted` |
| `hdsk` | 8 units, up to 6 partitions, 1 sub, 1 `_tmp` or unlisted sub, 1 stop, failing copy or loss of power | 1.5 M | `AlwaysConsistent`, `FilesKept`, `Defragmented`, `DefragEndsOrOverruns` |
| `pfs_cache` | 2 buffers, 3 blocks, 2 values, 1 failure | 3.9 M | `RingIsFree`, `OneBufferPerBlock`, `ReadsAreTrue`, `LossIsAtomic` |
| `pfs_files` | partitions of 7 and 3 zones, 3 names | 0.8 M | `OneOwner`, `CountsTrue`, `HangsOnlyWhenFull`, `DirectoryTrue`, `DataStays` |
| `fsck` | 16 zones, 2 directories, 2 files, any 2 of some 50 damages, stops, repeated checks | 0.8 M | `ClearedMeansSound`, `DirectoriesMended`, `HealthyKept`, `CheckEnds` |
| `fssk` | partitions of 18, 4 and 4 zones, 11 trees, stops, 2 losses of power or failing transfers | 1.2 M | `Mountable`, `UnmovedKept`, `RemovedIsEmpty`, `HangsOnlyOnData` |
| `hddchecker` | 2 partitions, 7 sectors, up to 3 of them bad, threads that hang | 0.1 M | `CompleteMeansAll`, `OnlyBadErased`, `ThreadsUndisturbed`, `ResultsTrue`, `OperationEnds` |
| `scan_abort` | 2 partitions | | counterexample to `MountOutlivesThread` |

**Bounds.** Two headers are the fewest a flush can tear apart, and two slots
the fewest a journal can confuse; a second failure is needed to interrupt a
recovery. Eight units hold partitions of three sizes, aligned and not, so that
merging happens over both neighbours and twice in a row; four partitions
are a main partition with a lost sub-partition and healthy neighbours on both
sides. `BadLimit` is the 9 of the code and is out of reach of two bad headers
unless the check repeats itself. Six partitions in `hdsk` are the fewest with a
block of two that is moved completely and is followed by another partition;
with one partition less, the block's move always ends at the end of the chain. No
partition of four units can lie behind a free one of four on eight units, so
`MaxSize` is 4 there. A real drive has larger partitions behind these: the small
drive stands for its beginning. With nine units the free tail can do its damage
(`apa_delete` with `Units = 9`, `MaxParts = 6`, one loss of power, partitions at 1, 2,
4, 6, 7 and 8; `hdsk` on a drive of 9 units with used partitions at 2, 6 and 8): there the
properties that except it by `overTail` would be false without the exception. On eight
units it cannot; the theorems of `ApaDeleteProofs` hold for all sizes.

`pfs_cache` has fewer buffers than blocks, so that gets evict and flush, and two
references to a buffer. Blocks and values are symmetric: they are only compared and
copied. In `pfs_files` the inode lists two segments (`InodeMax`; 114 in the code), a
descriptor three (123), and a segment has at most three zones (`CountMax`; 65535), so
that files need descriptors, segments reach their limit and the ten zones run out;
the names have two lengths, and a sector of six bytes is full with two of them.
In `fsck` a sector has eight bytes, entries are aligned to two, and directories are
three deep (`MaxDepth`), so that every test of an entry's length has both outcomes.
In `fssk`, `MinFree` 3 percent lets both sub-partitions go if there is room; the trees have
files wholly and partly in them, in one piece or fragmented, and a directory there. In
`hddchecker` seven sectors are two runs of `RunMax` 4 (65536), and a run two buffers of
`IOBufferSize` 2 (256), so that bad sectors lie at the ends and in the middle of runs.

**Fairness.** `WF_vars(Program)` in `ApaJournal`, `WF_vars(Check)` in `Hdck`,
`WF_vars(Thread)` in `Hdsk`, `WF_vars(FsckThread)` in `Fsck`, `WF_vars(MainThread)` in
`HddChecker`: the thread that executes the code is scheduled again, as the kernels'
schedulers do. `WF_vars(ThreadEnds \/ ThreadHangs)` in `HddChecker` says that a thread of the
IOP ends, or, in fssk and hdsk, hangs: `CheckEnds` shows for fsck that it ends, and
`DefragEndsOrOverruns` for hdsk that it ends or hangs in `SplitEmptyPartition`.
`OperationEnds` does not assume that they end: it claims the end of an operation unless its
thread hangs. A question to the user is part of
`MainThread`: he answers. Nothing is assumed of when he cancels, of the drive's
destaging or the power. `AlwaysIdleAgain` needs the bound on failures: a program that
is restarted for ever never gets to its end.

**Deadlock** is checked in `apal_crash`, `apal_faults` and `fsck`. The others may really stop: a
check or defragmentation that is done, a user with no deletions left, a client that holds
every buffer of the cache when the journal is to be copied, a full filesystem whose
search does not end, a filesystem that cannot be mounted, a program that exits.

### Disagreements between code and documentation

With a run:

1. `hdck.c:242-243` set the dirty bit in the headers' flags: with the last header
   bad, the healthy main partition before it becomes a sub-partition in memory and
   is deleted (`hdck_last`; `docs/README-hdck.txt:28`).
2. `system.c:364-377`: a cancel sends STOP, and the file is closed and the IOP rebooted
   without waiting for the thread, although `docs/README-fsck.txt:38` and `README-fssk.txt` say
   that termination must be confirmed with WAIT or POLL. `FsckClose` clears the mount
   under a running thread (`scan_abort`).

The following statements do not hold either. Their definitions stay in the modules;
each is violated in the instance given (the constants not named as in the
module's passing run).

3. `RestoreCopiesJournal` (`journal.c:84`, with `Faults <- ReplayFaults`, `MaxFaults = 1`,
   `MaxCrashes = 2`): the journal is erased although a transfer has failed and headers
   were not copied; the comment at line 60 promises a copy.
4. `NothingLeftOut` (`hdck.c:387-406`; `MaxBad = 1`, nothing else): the partition marked
   empty is shorter than the bad one, and the space after it belongs to no partition.
5. `OrphansDeleted` (`hdck.c:534`; `MaxBad = 0`, `MaxLost = 1`): an orphaned
   sub-partition is kept if its main partition's list is not empty.
6. `DefragEnds` (`hdsk.c:416-430`; `Units = 13`, `MaxParts = 7`, `MaxSubs = 0`,
   `MaxLeft = 0`, `MaxSize = 8`, nothing fails): `SplitEmptyPartition` halves until the
   lengths are equal, and `hdskFindLastUsedBlock` admits a block with a partition longer
   than what is left of the free one. The length goes to 0 and the thread never ends,
   although `HDSK_DEVCTL_WAIT` waits for its end. Properties about the drive
   are stated for as long as this has not happened (`Overrun`).
7. `GamesStartRight` (`hdsk.c:334`; `MaxParts = 5`): the index of a sub-partition is passed to
   `hdlUpdateGameSliceInfo`, which takes entry 0 for the main partition
   (`hdsk.c:364`): the game is broken, which `hdl.c:1-4` says it prevents.
8. `FragmentationReduced` (`hdsk.c:227`; `MaxSubs = 0`): blocks that are not aligned to
   their size are moved. What they leave are halves of two different partitions, which
   do not merge: the largest free partition is then smaller than before, although the
   module is for reducing fragmentation (`README-hdsk.txt:4`). The simulation
   (`sim.c:220`) tests for the opposite.
9. `AllFilesChecked` (`fsck.c:653-662`; `Images <- OneDamage`): an entry too small for its
   name, when the name needs the rest of the sector, takes the entries behind it out of
   the walk; the bitmap is then made without their files and the error bit cleared.
10. `FilesKept` in `Fssk` (`fssk.c:301`, `355`; `README-fssk.txt:4`): a move that fails frees
   the original's zones, and one that succeeds is an error of the mount, because the new
   inode is read with partition and zone exchanged.

11. `ScanReadsAll` (`system.c:709`; any bad sector): "Performs a surface scan of the disk"
   (`Readme.md:16`). Once a sector was remapped, the scan reads no result any more and says it
   is complete over sectors that cannot be read.
12. `AsTheUserSaid` (`menu.c:607-616`, `lang.c:90-93`; any bad sector): the button "Skip" skips all bad
   sectors from then on, and "Skip all" only this one.

### Other observations

Read off the code while modelling it; where a definition shows them, it is named.

*libapa, hdck.* The length that
`MarkUnreadablePartionAsEmpty` decreases wraps when the partition before the bad
one is longer than what remains, and the loop goes on until the difference comes
to 0; a loss of power inside it leaves an empty partition that overlaps a healthy
one (hence the exception in `ChainUsable`, for empty partitions after such a loss, `halfMarked`); `apaDeleteFixPrev` on a free last
partition sets `next` to the end of the drive, and the check then ends with
`-EIO` (`MapFails`); after a gap is left by 4., merging frees that are not
neighbours leaves a wrong `prev`; `apaDelete` returns 0 when a neighbour cannot
be read; a loss of power in the loop of `apaDelete` (`apa.c:345`) leaves a free last
partition, over which a later call breaks the chain (`overTail`, section 2); and the branch of `CheckPartitions` at line 505 is never taken, since
`nsub` is reduced first.

*hdsk.* The simulation unlinks and clears the header it goes on with, not the one
it has merged, and then follows a null pointer (`sim.c:94`); it goes on removing
while `type != 0`, that is, partitions in use (`sim.c:115-120`). The EE starts
hdsk only if the total the simulation announces is positive (`system.c:470`).

*libpfs.* With failing writes or replays `LossIsAtomic` and `ReadsAreTrue` do not hold,
since `pfsJournalWrite`'s result is ignored. A log that cannot be read at a mount is erased
(`journal.c:113-119`), and with it what a flush that was cut short had not yet written home:
`LossIsAtomic` does not hold with `Faults = {"log"}`. Failing reads of blocks alone do not harm
`LossIsAtomic`, nor, where they are recorded, `ReadsAreTrue` (section 4); the build of
fsck does not record them, and `pfsFsckStat` reads the super block into a shared buffer. `pfsBitmapSearchFreeZone` never returns the `-ENOSPC` its comment announces
(`bitmap.c:211-213`, `239`; `hung`). `pfsBitmapFreeInodeBlocks` frees the inode's zone twice
and nothing that the descriptors list (`bitmap.c:337-360`; `FreeInodeBlocks`).
`pfsFreeZones` keeps, of the segment it cuts, as many zones as it should free
(`dir.c:654-659`; `miscut`); nothing in this repository calls it.

*fsck.* A thread that gives up leaves its fixes unflushed (`FsckClose`). `fsckFillInode` leaves
the size of a file it shortens. An entry that is too long goes, with its wrong
length, to the entry before it (`Fits`). A file with a name like `.x` is lost: its entry is
made to lead to the parent (`Up`). The bitmap of a sub-partition is read at the
offset of the main one (`fsck/bitmap.c:26`; `stray`). The marks of a segment that is cut
stay in the new bitmap.

*fssk.* Only the first sector of a directory is walked (`OneSector`). A directory cannot be
moved: the loop at `fssk.c:117-131` has no end. The count of what is left to copy wraps
(`fssk.c:285`; `HangsOnlyOnData`). Nor does the search for zones end when a bitmap cannot be
read (`SearchFails`). An open on a filesystem that cannot be mounted succeeds (`OpenFails`).

*EE engine.* `userAborted` is never reset. `HdskDisk` does not read the status after the last poll. The
result of a partition that could not be opened is overwritten by the next. A drive
whose partitions cannot be listed counts as completed. Sectors found bad in a
retry are not counted (`CountBad`). `CheckFormat` runs without the lock. The callback
of the power button may run before the lock exists (`main.c:66`, `iop.c:187`).

## 4. What is proved

`ApaJournalProofs`, for every set of headers and values, every number of slots,
every choice of failing transfers and every bound on them:

- `TypeCorrect`: `Spec => []TypeOK`;
- `Inductive`: `Spec => []IInv`;
- `ReplayIsSafe`: `Spec => []NoForeignReplay`;
- `FlushIsDurable`: `Spec => []FlushedMeansDurable`;
- `CleanIsHome`: `Spec => []CleanMeansHome`.

`FlushIsDurable` says that after a return of 0 the journal is erased and nothing the flush
wrote home is left in the drive's cache. It does not say that every header was written: a
write home that fails goes unreported (`cache.c:75`), which is what `CleanMeansHome` excepts.

The only assumptions are those on the constants (`ConstantsAssumption`).

**The argument.** `NoForeignReplay` is not inductive: it speaks of the journal a
restart would find. `IInv` adds what each point of the code knows.
`ControlInv`: who can be where, and that `jbuf` is empty outside a flush.
`JournalInv`: while slots are being written there is no journal, on the platter
either; from the first barrier on, the slots named by `jbuf` hold their headers
on the platter; so when the journal sector is written it names sound slots.
Every part of it is conditional on no erasure having failed. `CleanInv` extends
`CleanMeansHome` to the inside of a flush. The proof that `IInv` is preserved has
a lemma per group of actions (flush of the journal, buffers, journal writes,
restore, drive, failures).

In the same module, under the hypothesis `Faults = {}` (every transfer
succeeds; the power and the IOP may fail at any step), for the same constants:

- `AtomicInductive`: `Spec => []RInv`, with `RInv == IInv /\ AtomicInv`;
- `RestoreIsCopy`: `Spec => []RestoreCopiesJournal`;
- `RefinesAtomicStore`: `Spec => ImplementsAtomicStore`.

**The argument.** The refinement mapping takes for the abstract store what a
restart would find: the headers it finds at home, with the journal it finds
replayed over them (`Stored`). `AtomicInv` says that a header the drive holds
back is named in that journal (so its value at home does not matter); that during
a flush the dirty headers are those journalled and those still to be; and that
during an erasure the journal has been copied (so erasing it does not matter).
With it, every step but one per flush leaves `Stored` alone. The abstract commit
is the moment the journal sector can no longer be lost: its write when only
the IOP may fail, its way to the platter (`DestageApal` or the second barrier)
when the power may. The hypothesis is needed: with failing
transfers a recovery can tear a flush (3. above).

`PfsCacheProofs`, for every set of blocks and values, every number of buffers and of
references, both builds, and every choice of failing transfers (`pfs_cache` checks
the same properties on an instance whose transfers succeed):

- `CacheInductive`: `Spec => []CacheInv`;
- `RingCorrect`: `Spec => []RingIsFree`;
- `BlockHasOneBuffer`: `Spec => []OneBufferPerBlock`.

The only assumptions are those on the constants (`CacheAssumption`).

**The argument.** `OneBufferPerBlock` is not inductive: `pfsCacheGetData` looks for
the block, then `pfsCacheAlloc` may flush, and only then is the buffer given to the
block. `ControlInv` says that while a flush is made for a get, the block is in no
buffer and the ring is not empty, and that nothing is dirty where the journal is
erased, copied, or a buffer is about to be taken. `BufInv` says that the ring, a
sequence without repetitions, has just the unused buffers (lemmas `RemoveAtRing`,
`AppendRing`, `PrependRing`), and that a dirty buffer has a block, so that the log
names blocks. `DriveInv` has the types of the drive and of what the client stored.

And, in the same module, for what a loss of power leaves and what a get gives:

- `CrashInductive`: `OnlyBlockReadsFail => (Spec => []CrashInv)`;
- `FlushIsAtomic`: `OnlyBlockReadsFail => (Spec => []LossIsAtomic)`;
- `GetsAreTrue`: `ReadsRecorded => (Spec => []ReadsAreTrue)`.

`OnlyBlockReadsFail` says that no write, flush of the drive or replay fails, nor the read of the
log at a mount (any read of a block may fail, and the power at any step); `ReadsRecorded` that, in addition, a read that fails is recorded
in the mount, as in the build without `PFS_NO_WRITE_ERROR_STAT` (fssk). Both are needed: TLC finds counterexamples
without them.

**The argument.** `MayInv`: the drive returns one of the contents its platter may hold, and a
log names a block once. `DirtyInv`: what a dirty buffer holds is what is to be written, and a
block whose stored content differs from what a restart must not lose is in a dirty buffer or,
once the flush has begun, in the log. `QuietInv`: before the log is written there is no
journal, on the platter either, and the blocks are at home. `FlushInv`: the slots of the log
hold their blocks, and from the log's write on a mount that finds it restores all that is to
be written. `MountInv` and `ResetInv` say the same of a replay and of the erasure. What a
mount finds is then, at every step, all of the state of before or all of the state of after. For
`GetsAreTrue`, `BufferInv` adds that every buffer holds what its block is to hold.

`HddCheckerProofs`, for every number of partitions and sectors, and every size of runs and
buffers (`NumPartitionsAssumption`,
`SurfaceAssumption`):

- `HddInductive`: `Spec => []HddInv`;
- `ScanIsComplete`: `Spec => []CompleteMeansAll`;
- `ScanErasesOnlyBad`: `Spec => OnlyBadErased`;
- `ThreadsKeepTheirMount`: `Spec => []ThreadsUndisturbed`;
- `ScanCountsErrors`: `Spec => []ResultsTrue`.

**The argument.** `SurfaceInv`: every bad sector before `lba` was passed over or lies behind the
first one that was to be remapped, the scan does not wait for results only if one was, and
`lba` and `remaining` make up the drive, whatever run, buffer or retry the scan is in; that
a run ends on the first bad sector of it is `MinFacts` on the set of those. `ControlInv`: a thread runs only
while the main thread waits for it, or was stopped, or until the reboot that ends the
operation, and so does one that hangs; no event is pending while it runs, so a wait is ended by its own thread.
`ScanInv`: where the loop over the partitions has got to, which have an outcome, and that
`errorsFound` counts those below it; a scan that says it is complete has been through all
of them. None of the three is inductive alone: the outcome of a partition is that of its
thread only because the mount was not disturbed.

`ApaDeleteProofs`, for drives of every size and layout and every bound
(`ChainAssumption`):

- `DriveIsWhole`: the drives of `Drives` are whole and have no free tail;
- `DeleteInductive`: `Spec => []DeleteInv`;
- `ChainAlwaysWhole`: `Spec => []AlwaysConsistent`;
- `NoFreeTailLeft`: `Spec => []NoFreeTail`;
- `OnlyVictimLeaves`: `Spec => OnlyTheVictim`.

**The argument.** `Consistent` follows the links from the MBR; to reason about it,
`IsChain(d, C)` says of a set `C` of headers, without a walk, that it is linked both ways, in the order of
the addresses, each ending where the next begins. `ReachedIsChain` shows that the walk then
meets just `C`. `FixPrevTakes` and `FixNextTakes` show by induction over the turns of the
loops (`Induction`, from the well-foundedness of `<`) that the partitions taken are free and
lie together; `Splice` that the chain without those between two headers is a chain if the
first has the length to the second; `UnlinkLast` that the chain without its last one is.
`DeleteInv` says that memory and disk hold the same whole chain, that the call is at a
partition of it which is its victim or free, is not the last except in the loop of
`DeleteLast`, and that the victim, if it still is in the chain as data, is where the call is
and as long as it was: hence `DeleteMakeEmpty` misses no victim. It is conditional on
`overTail`, as the properties are.

`PfsZonesProofs` and `PfsFileProofs`, for partitions of every number and size, inodes and
indirect descriptors of every number of segments, and any names
(`ZonesAssumption`, `FileAssumption`):

- `FilesInductive`: `Spec => []IInv`, with `IInv == FilesInv /\ CallInv /\ DirInv`;
- `ZonesHaveOneOwner`: `Spec => []OneOwner`;
- `FreeCountsAreTrue`: `Spec => []CountsTrue`;
- `SearchEndsUnlessFull`: `Spec => []HangsOnlyWhenFull`;
- `DirectoryStaysTrue`: `Spec => []DirectoryTrue`;
- `DataStaysInPlace`: `Spec => DataStays`.

`FileAssumption` asks four things that the code needs: a format leaves two free zones in
the main partition (for the inode and the entries of the root, `pfsFormat`), the count of a
segment can be more than one, a sector of entries has room for `.` and any other entry, the
empty name needing least (512 bytes, an entry of at most 264), and the value that stands
for no inode is none.

**The argument.** Three facts about the search are proved first. What it finds is a run of
zeros in one partition, no longer than asked for, and `Mark` adds it to the zones in use and
takes its length from `free_zone`; releasing a segment is the reverse. And when it finds
nothing, no partition has a zero (`SearchFreeZone` visits them all, and the halving of what
it asks for, from any length of 16 bits, comes to 1); this needs `FreeEnough`, that
`free_zone` is never below the number of zeros, since the search passes over a partition
whose count is too low. `FreeEnough` still holds after indirect descriptors were lost, when
the counts are not exact any more, so it is a part of the invariant of its own.

`FilesInv` relates the inodes to the bitmaps: what they own is disjoint, in use, not
reserved, and counted. An operation works on one inode. `Room(vol, ino, base, exact, counted)`
says what it needs to know: what the inode owns is in use and apart from `base`, the zones
of everything else; a lemma for each operator (`ExpandSegment`, `WithDescriptor`,
`WithSegment`, `Cut`, `Returned`) says that it keeps `Room` with the same `base`, and
`FilesReplaced` that this is enough for `FilesInv`. That the segment of a descriptor is
one zone (`GoodSegments`) is needed because `number_blocks - number_segdesg` is to be the
zones of data. `OneOwner` is not inductive without the rest: two files are kept apart only
because what they own is marked as in use.

`CallInv` says that the file of the call in progress exists. `DirInv` says that a name is
at one position of the directory at most, that the files there are, and no others, are
listed, but for the one that is being entered, which is not yet: `pfsGetDentry` was called
long before `pfsDirAddEntry` writes, with the allocation of a sector between them. And it
says that every sector is `Tiled`: there is a function that ends each entry where the one
before it ended plus its length, and the last at the end of the sector (`Adds`); each entry
is at least as long as its name needs, and is of nobody if and only if it has no name. The
lemmas on `Adds` take that function and shift it by one at the entry that is split
(`AddsSplit`) or merged (`AddsMerged`); `TiledShort` is why a sector whose first entry is as
long as itself holds no other, so that `pfsDirRemoveEntry` may drop it, and `RoomyFacts` why
what `pfsGetDentry` returns is long enough to be split, or taken over when it has no name.

For `DataStaysInPlace`, `Grows(s, t)` says that one list of segments goes on from where
another ends. Every operation that allocates makes the lists it works on grow
(`GrowsAppended`, `GrowsGrown`), those it does not work on stay, and what `pfsFreeZones` cut
is what the cut list would have to grow from (`GrowsCut`). `GrowsBegins` then says that the
zones of the data, which `FileZones` collects segment by segment, begin with those there
were (`FlattenBegins`, by induction over the segments), and `FileZonesCount` that there are
as many as the segments count.

`FsskProofs`, for every well formed filesystem, partitions of every number and size,
segments of every length, any depth of directories and any number of losses of power and
failing transfers
(`ZonesAssumption`, `FsskAssumption`):

- `FsskInvariant`: `Spec => []IInv`;
- `FsskMountable`: `Spec => []Mountable`;
- `FsskUnmovedKept`: `Spec => []UnmovedKept`;
- `FsskRemovedIsEmpty`: `Spec => RemovedIsEmpty`;
- `FsskHangsOnlyOnData`: `Spec => []HangsOnlyOnData`.

`FsskAssumption` asks that the images are well formed, that a count has 16 bits, and that
`minFree` is 3 at least (`fssk.c:565`, `658`).

**The argument.** None of the four is inductive. `SuperInv` orders the steps of the end: while
sub-partitions are deleted, both super blocks already count so many fewer.
For `UnmovedKept`, call *guarded* the directories that the walk gets to (`SeenDirs`, the
least set that has the root and is closed under the first sectors) and the inodes that lie
in the main partition. `Tree(first, d)` says what any state of the metadata, on the disk or in the
cache, has in common with that of the start: guarded inodes are as they were, the zones that other
inodes list are apart from those of the guarded ones, and entries
of guarded inodes, and those the walk does not get to, have not changed. An inode that is moved is not
guarded (`MovedNotGuarded`: it is no directory and lies past what stays), so neither the zones it gives back,
nor those its copy lists when a move fails, are of a guarded one (`FreesKeep`); what is
taken and written to was free (`TakesKeep`, `CopiedKeeps`; `CutKeeps` for a copy that fails
after any of its zones). `TreeMoved` is the step that
changes an entry. That a reached inode is still reached is shown level by level
(`ReachedStays`).

For `RemovedIsEmpty`, `Walked` says of the stack of directories what the walk has done: all
entries before the next one of each directory fit in what stays, and directories among them
are done, or are the next on the stack. `Done` is the union of all sets of directories that
are closed in that sense, so that the root is in it when the stack is empty (`AllDone`), and
what is done is all there is if no directory has a second sector (`AllSeen`). A walk that was stopped says
nothing, and removes nothing.

For `HangsOnlyOnData`, `RoomInv` says that there is room in what stays for every zone of
what goes, and, while an inode is moved, for what is left of it to copy, if all of it lies in what
goes: `fsskCalculateSpaceToRemove`
sets aside a zone for each one that goes, and asks for some percent on top (`SpaceFacts`); a mount counts
the zeros (`MountCounts`); and a walk that moves one inode moves no other, since the move ends in
an error. `SpecialFinds` shows that `fsckBitmapSearchFreeZoneSpecial` finds any zone that is free in
what stays. `HangInv` keeps, for a thread that hangs, why it does: in a search only because a
transfer has failed, the count had wrapped, an earlier move had changed the inode, or the file
also lies in a partition that stays, so that the room it needs was not counted.

`FsckProofs`, for every well formed filesystem, partitions of every number and size, sectors of
any size and entries of any length, any depth of directories, and any number of checks, stops and
checks that give up (`ZonesAssumption`, `FsckAssumption`):

- `FsckInvariant`: `Spec => [](HealthInv /\ EntriesInv)`;
- `FsckHealthyKept`: `Spec => []HealthyKept`;
- `FsckSoundness`: `Spec => [](HealthInv /\ EntriesInv /\ SoundInv)`;
- `FsckClearedMeansSound`: `Spec => []ClearedMeansSound`;
- `FsckDirectoriesMended`: `Spec => []DirectoriesMended`.

`WellFormed`, which `FsckAssumption` asks of the filesystems a check may start from, restricts no segment,
and an entry only as far as the walk can come to it: what is at an aligned offset after an entry
is another entry or the end of the sector. `TypesAgree` is asked of them too.

**The argument.** `TreeInv` says what any later state has in common with the first: lists of segments
are beginnings of what they were, and sectors are `SectorMended`. A mend
(`OneMend`: a length that becomes the rest of the sector, an entry that is merged with the one before it, an entry
without its inode, a dot) parses nothing that was not parsed before (`MendKeeps`), so
`PathInv` can say of each directory being walked that its offset is one the walk of the first
filesystem comes to. `MapInv` gives every zone of the bitmap a source: it is reserved, or of a segment
before the one in hand, or of an inode that has been checked; a zone has one
place in the bitmap (`PlacesDiffer`), so what `fsckCheckZones` meets is that source.
The segments before the one in hand and those of other inodes make the inode not `Alone`; what is
left is an inode that is checked twice. `VisitInv` is why only a tangled one is: a set `V` of
inodes has been checked, each of them that is not tangled was met at the one entry
that names it, and every walk of that entry's directory is past it (`Passed`). Walks only go on
(`StackTurned`); a directory is pushed a second time only if it was checked a second time,
and then it, and all that is below it, is tangled (`PathsAppended`).

`HealthInv` says what a check may not destroy; `SoundInv` says what it has established, as long as
no error is left, nobody has asked for a stop and no entry makes it skip others (`Clean`). There is a set `W` of inodes
whose segments have been checked. `WalkInv`: in every directory of `W` all entries were
passed (`DirDone`), or its last walk on the stack has passed those before its offset (`DoneUpTo`), and an
entry that was passed leads into `W`. When the stack is empty `W` is closed under the
entries, and so contains everything that is reached (`WalkComplete`). `ZonesInv`: the segments of `W`,
and those before the one in hand, are inside their partitions, disjoint, and marked in
the bitmap; a new one is disjoint from them because `fsckCheckZones` has met none of its zones there, and
places of different zones differ. The same walk says of an entry it has passed that it is
tidy (`EntryTidy`): aligned, long enough for its name, and leading where a dot should. A directory may be
walked twice at the same time, so that a mend can come to a sector another walk on the stack is in the middle
of, or has done: `DoneStays` and `HereDone` show that what was passed there stays so. Where `Fits`
holds of a sector, an entry that goes to the one before it is the last of it, and has the rest of it as its
length (`FixDEntryDone`), so that the walk ends where the sector does (`Closed`).

`EntriesInv` is why the dots are right: each directory on the stack was entered from its `parent` by
an entry of the first filesystem (`ParentInv`, through `EntriesStep`), no mend changes the type or the name of an entry
(`MendedAgrees`), and an inode whose segments are being checked has the mode the entry says
(`TypeInv`), so what is walked as a directory is one.

Only model-checked:

- the liveness properties (`AlwaysIdleAgain`, `CheckEnds`, `DefragEndsOrOverruns`,
  `OperationEnds`), out of the prover's reach;
- the properties of `Hdck` and `Hdsk`. The lemmas of `ApaDeleteProofs` are about the operators `Hdck` and `Hdsk` use. `Induction` there
  and the recursive functions of `PfsZones` (`ZonesUpTo`, `FreeSegments`) show how a loop is reasoned
  about without an induction theorem: the set of the turns at which a fact fails has a
  least element.

## 5. Plan

In order of importance:

1. Proofs: the chain in `Hdsk` (`AlwaysConsistent`, `FilesKept`) with the lemmas of
   `ApaDeleteProofs`, and what `Hdck` keeps.
2. `PfsCache`: what remains of `LossIsAtomic` when writes fail.
3. hdsk: the simulation against the real run.
4. fsck with sub-partitions and indirect descriptors; fssk with indirect descriptors.
5. The buffers of libapa shared by the devctl of hdsk and its thread.
6. The estimates of fsck and fssk, and the free space of libapa.

Not planned: menus, fonts, graphics, pads and languages beyond what `HddChecker` takes
from the menu (no state the rest depends on), the password cipher (pure computation
without a property to tell apart), S.M.A.R.T. commands (no state).
