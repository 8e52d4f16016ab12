# A TLA+ model of cromfs

cromfs is a compressed read-only filesystem. `mkcromfs` builds an image from a
directory tree; the FUSE driver (`cromfs.cc`, `fuse-ops.cc`) mounts it;
`unmkcromfs` extracts it; `cvcromfs` converts between format variants.

In an image, files, directories, symlinks and the inode table itself are cut
into *blocks*. A block is stored nowhere by itself: a *locator* (`blktab`) says
at which offset of which *fblock* its bytes begin. Fblocks are the units of
compression, of at most `FSIZE` raw bytes each unless a single block is larger. Blocks
may overlap inside an fblock,
and identical blocks share a block number. The correctness of the filesystem is
that the block list of each inode, through locators and fblocks, gives back the
bytes of the file, however cleverly the blocks were merged and overlapped.

Paths below are relative to the repository.

## Inventory

| Part | State | Operations | What makes it correct |
|---|---|---|---|
| Blockifier, `lib/cromfs-blockifier.cc` | schedule, block lists, locators, fblock contents, free space index, hash indexes, autoindex, identical list | `ScheduleBlockify`, `FlushBlockifyRequests` and what it calls | each block number written resolves to the bytes of its block for ever; no append makes an fblock outgrow `FSIZE`; block lists are complete; identical blocks are merged |
| Overlap functions, `lib/append.cc`, `lib/boyermooreneedle.hh` | none | `AnalyzeAppend`, the needle searches, `put_appended_raw` | a block is only put where it agrees with what is there |
| Parallel overlap search, `OverlapFindWorker`, `lib/threadworkengine.tcc` | `SmallestInfo`, `cancel`, the shares of the loop | `RunTasks`, `DoWork`, `FindOverlap` | it ends; the plan is valid whatever the interleaving; nothing better is lost |
| Reading, `cromfs.cc`, `lib/datacache.hh` | fblock cache, the request's buffer, the threads' shares | `read_file_data`, `read_block`, `read_fblock`, `DataCache` | a read returns the file's bytes, whatever is cached and whichever thread comes first; the cache is bounded |
| File writing, `lib/sparsewrite.cc`, `lib/longfilewrite.cc` | the file, the buffer of merged writes, the hole before it | `SparseWrite`, `is_zero_block`, `LongFileWrite`, `FileOutputter` | every byte arrives at its own place; only zeros become holes (they do not, see the findings) |
| Image writing and recovery, `util/mkcromfs.cc` | the image on the disk and in the page cache, temporary fblock files, the ordered loop | `CreateAndWriteFs`, `ResumeWritingFs` | no fblock is lost by a crash; recovery finishes the image; the loop ends |
| Layout and inode numbering, `util/mkcromfs.cc` | the collection of the directory walk, hard-link map, inode table, superblock | the directory walk, `EstimateSpaceNeededFor`, `CreateAndWriteFs` | the tree is collected whole; inodes do not overlap; block numbers fit their width |
| Block table encodings, `lib/cromfs-blockfun.cc` | storage options | packed locators, width of block numbers | encode and decode are inverse over the range chosen |
| Superblock and directories in the driver, `cromfs.cc` | superblock, root directory, inode table, directory cache | `reread_superblock`, `read_dir`, `dir_lookup` | what is read belongs to one superblock |
| FUSE operations, `fuse-ops.cc` | directory cache, open handles | `lookup`, `getattr`, `readlink`, `read`, paged `readdir` | every answer is one that the source tree would give |
| Fblock files, `lib/cromfs-fblockfun.cc` | raw or compressed, mapped, open | `InitDataReadBuffer`, `put_appended_raw`, `Close`, `Unmap` | contents survive the changes of representation |
| Mapped vectors, `lib/mmap_vector.hh` | sections of one backing file, memory of their own | `resize`, `reserve`, `push_back`, `GetAndRelease` | items are kept; pointers into the inode table stay good |
| Work engine with pthreads, `lib/threadworkengine.tcc` | workers, condition variables | `RunTasks`, `RunUntil` | every task is done once; nobody waits for ever |
| Data sources and schedule cache, `lib/datasource_detail.hh`, `lib/cromfs-blockifier.cc` | open sources, mappings, buffers that point into them | `get`, `read`, `schedule_cache` | nothing is closed or unmapped while a thread reads it |
| Hash index layers, `lib/cromfs-blockindex.*`, `lib/cromfs-hashmap_*` | stacked hash indexes, compressed pages | `Add`, `Find`, `Del` | they behave as one set of pairs |
| Range maps, `lib/range*.tcc` | sorted ranges | set, erase, find | they behave as a map of points |
| String search, `lib/boyermoore*`, `lib/stringsearchutil*` | occurrence and skip tables | the searches, comparison by words | the first occurrence is found |
| LZMA parameter search, `lib/lzma.cc` | the parabolic finder, the best so far | `DoLZMACompress` | the best of what was to be tried is returned |
| LZMA codec, `lib/lzma/C` (as this program calls it) | range coder, probabilities, window, hashes, trees | `LzmaEnc_MemEncode`, `LzmaDecode`, `MatchFinder` | decoding inverts encoding; truncated input is refused |
| Command line, `main` of `util/mkcromfs.cc` | settings | the options in any order, the checks behind them | accepted settings are ones that the parts they go to can use |
| `util/unmkcromfs.cc` | extraction schedule, fblock cache, the target directory | scan, create, write, fix up, `--simgraph` | the files come out as they went in |
| `util/cvcromfs.cc` | converted tables | `Convert` | the converted image shows the same tree |
| Hash function, allocators, SIMD, LZO, google containers | - | - | taken as given |

The hard behaviours: the OpenMP loops and tasks (the overlap search, the read,
the directory walk, the sections of the mount, the extraction, the ordered write
of fblocks) and the pthread workers, and what they read without locks; buffers
that point into mappings which someone else may drop; the very long sequences of
appends, reuses and index changes through which a locator must stay good; crash
and recovery of the image file; and boundary arithmetic, nearly all of it
unsigned (`FSIZE` limits, minimum overlaps, bit sets, alignment).

`PROJECT.json` lists the hazards at their lines.

## Modules

| Module | Models | Extends |
|---|---|---|
| `Overlap` | where a block may be put in an fblock, as operators | |
| `Blockifier` | the blockifier, one action per step of the two loops of a flush | `Overlap` |
| `OverlapSearch` | `CreateWritePlan` step by step, with threads | `Overlap` |
| `ReadFile` | `read_file_data` with its team of threads and the fblock cache | |
| `SparsePieces` | which bytes of a buffer `SparseWrite` writes, as operators | |
| `WriteFs` | the fblock loop of `CreateAndWriteFs`, crashes, `ResumeWritingFs` | `SparsePieces` |
| `FblockFile` | the temporary files behind the fblocks: raw or compressed, mapped, open | instantiates `Overlap` |
| `WorkEngine` | the pthread `RunTasks` and `RunUntil`, and the search that uses them | |
| `Format` | inodes, directories, locators and superblock as written and read | |
| `Convert` | `cvcromfs` as a function of an image | `Format` |
| `MakeFs` | `mkcromfs` from the walk to the finished image | `Convert` |
| `Cromfs` | the class `cromfs` as functions of what was read | `Format` |
| `Driver` | mounting and FUSE operations over the image of `MakeFs` | `MakeFs`, `Cromfs`; instantiates `TreeFs` |
| `TreeFs` | abstract: the source tree itself answers | `Format` |
| `Extract` | the passes and threads of `unmkcromfs` | |
| `Ranges`, `Simgraph` | range sets and multimap; `--simgraph` over them | |
| `HashIndex` | the stacked layers over each kind of hash map | `Ranges` |
| `SparseWrite`, `FileWrite` | `SparseWrite` piece by piece; `LongFileWrite` over it | `SparsePieces` |
| `MmapVector` | `mmap_vector` with the inode table and the block list in one file | |
| `StringSearch` | the string searches position by position | instantiates `Overlap` |
| `LzmaSearch` | the full and the parabolic search for LZMA parameters | |
| `Sources` | open sources, mappings and buffers in both passes of a flush | |
| `Options` | the command line of `mkcromfs` | |
| `LzmaCodec` | LZMA range encoder and decoder, bit by bit | |
| `MatchFinder` | the bt4 match finder of the encoder | |
| `Optimum` | the lookahead of the encoder: `GetOptimum` and `Backward`, prices left open | |
| `BlockifierProofs` | theorems | `Blockifier`, `Overlap` |
| `OverlapSearchProofs` | theorems | `OverlapSearch` |
| `ReadFileProofs` | theorems | `ReadFile` |
| `WriteFsProofs` | theorems | `WriteFs` |
| `FblockFileProofs` | theorems | `FblockFile` |
| `WorkEngineProofs` | theorems | `WorkEngine` |
| `DriverProofs` | theorems | `Driver`, `MakeFs` |
| `LibraryProofs` | theorems | `Sources`, `Options`, `MmapVector`, `FileWrite`, `LzmaSearch` |
| `MC*` | instances for TLC; `MCThreads` and `MCLibrary` hold one of several parts in each behaviour | |

Each definition that stands for code is in the `map` of `PROJECT.json` with its
lines. A definition marked `Mutant` in its comment is a plausible bug of the one
that follows it; the run that is to notice it is listed under `mutants`. A property
that joins several named parts has a mutant for each part that says something of
its own.

### Overlap and Blockifier

An fblock is the sequence of its raw bytes; offsets are those of the code.
Boyer-Moore is modelled by what it finds: the first complete occurrence, or the
first position, in steps of the granularity, from which the rest of the fblock
is a prefix of the block. `AppendBaseOffset`, `FindOverlap`, `ThisIsGood` and
`WritePlans` follow the conditions of `AnalyzeAppend`, `FindOverlap` and
`CreateWritePlan`.

`Blockifier` schedules sources in any order and flushes any number of times. A
flush sorts (`BeginFlush`), runs the loop that maps items and searches for
identical blocks (`MapItem`, `FindIdentical`, `NextItem`, `EndIdentical`), and
the loop that blockifies (`ReuseIdentical`, `ReuseIndexed`, `WriteBlock`). All
seven values of `--blockindexmethod` are there, and so is a list of identical
blocks loaded from a file (`Resume`). Where threads decide which of several
finds is used, the action chooses any. `is_zero_block` is modelled as it is: it
is true for a block without a zero byte. `BlockWhereList::Find` is modelled with
`lower_bound`, empty sources included. `AutoIndex` is a set of new entries rather than a
loop: of the offsets it visits, those whose bytes were not indexed before, and of equal
ones the first.

The size of a block is any positive number: `main` holds `--bsize` against `--fsize`, but not
the sizes of `--bsize_for`. A block larger than `FSIZE` finds no room anywhere, gets an fblock
of its own, and nothing is ever appended there; `FblocksFit` says that this is the only way to
an fblock above `FSIZE`. `OverlapSearch`, `FblockFile` and `MakeFs` take their blocks and
fblocks within `FSIZE`.

Not in this module: the cache of open sources (`Sources`), packed locators
(`Format`), the layers of the hash index (`HashIndex`), the progress output.

### OverlapSearch

One action per access to shared state: the loop hands out chunks
(`schedule(guided,1)`), `OverlapFindWorker` looks at `found` twice under one
mutex, `FindOverlap` reads `adds` under another one and `found` without it
(`Limit`), and updates `SmallestInfo` under its mutex. `cancel` may be seen late.
The team has any number of the threads of the constant `Thread`.

`PlanIsAllowed` connects it to `Blockifier`: whatever the threads do, the result
is in `WritePlans`, the set that `WriteBlock` chooses from, so the atomic step of
`Blockifier` is sound.

### ReadFile

A read collects the fblocks it touches in the ad hoc bit set (`Touched`), puts the
cached ones first (`FblockLists`: any two lists that hold each of them once, as the
bits decide the order), shares both lists statically among the team (`Share`), and each
thread goes through the request once per fblock and copies its cut of each block
(`Cut`). `SoundImage` is what the blockifier promises of the block table. A `Find` that runs while another thread is
inside `Put` may miss an entry, because the map is not locked for `Find`
(`Racing`). `CheckAges` runs after the parallel region and may drop any surplus
entries, as ages are whole seconds. `1U << n` with `n` not below the width is
undefined; the constant `Shifts` has the two outcomes of real builds.

### WriteFs

The image is a function from positions to cells (a length word or a byte of a
compressed fblock), once as the system shows it (`out`) and once as the disk has
it (`synced`). Threads take iterations dynamically and pass the ordered section
in order. `Crash` keeps any part of what was not synced. The temporary fblock
files are taken to survive a crash.

Both the length word and the data go through `SparseWrite`, and nobody looks at its result.
Of the data only what `KeptOffsets` (`SparsePieces`) names gets into the image: a piece
without a zero byte stays a hole, with no failure at all. On a full disk a
write puts some first part of its cells there (`WriteCells`). `NothingLost` is therefore about
`PutInImage`, the length word and every byte that `SparseWrite` writes, and `InImage`, the
whole fblock, is what `ToldIsWritten` asks for. The superblock and the
tables are one cell. `Healthy` leaves out the runs in which an fblock was invalid or
oversized, as `mkcromfs` then ends with an error and all has to be done again, and those in
which a write failed; `ToldIsWritten` shows what the latter lose.

After an interrupted run `ResumeWritingFs` walks the fblocks in the image; a fblock object that
was just constructed has file size 0, so the walk always ends at the first one missing, and the
code behind that test is unreachable and not modelled. Compression is not modelled,
only the length it yields.

### FblockFile

The members of `mkcromfs_fblock` are operators from the fblocks before to the
fblocks after, composed as the code calls them; an action is a call from the
blockifier or from `CreateAndWriteFs`. A compressed file is a sequence of cells
that name the data they encode, so it can be decoded only if it is complete. What
the environment decides in an operation is a record (`Outcomes`): whether each
`mmap` succeeds, and in which order the fblocks were last used. `refd` says that a
buffer in use points into the mapping; every unmapping or moving of it clears
the flag. Freeing descriptors and compressing in the order of last use are given in closed
form (`CloseSome`, `Compressible`, `CompressAt`): each loop of the source stops after the
first entries that suffice. The history variable `stored` is updated with the `PutAppendedRaw` of
`Overlap`, the operator `Blockifier` is written with: `ContentsKept` is what
allows `Blockifier` to see a fblock as a sequence of bytes. The value of a
variable that was never assigned is chosen from all lengths up to `FSIZE`. An
operation is one step; see the hazard at `lib/cromfs-fblockfun.cc:204` for what
that leaves out. Errors of `pwrite64` are thrown, caught nowhere and end
`mkcromfs`; they are not modelled.

### WorkEngine

All of `params` is guarded by one mutex, so what a thread does between taking and
releasing it is one step. A thread that waits is in `asleep` until a signal, a
broadcast or nothing at all (`WakeSpuriously`) wakes it. Cancellation is
deferred: it acts where a thread waits and in `DoWork`. `RunUntil` is there with
the search of the autoindex that calls it, including the worker that finds a match
and cannot take the lock.

### Format, MakeFs, Cromfs, Driver and TreeFs

`Driver` is the whole way of a tree: `mkcromfs` estimates the sizes and chooses the
width of block numbers, walks the directories in tasks that append to and sort one
collection, numbers the inodes, creates them in any order, writes the block
lists and the tables; `cvcromfs` may convert the image; the driver mounts it,
with the three sections of `reread_superblock` in any order, and answers the
kernel. A field of n bytes holds values below `Radix^n`, so that a number too large
for its width is truncated as in the code. A name is a number with a length. What
the blockifier promises (`LocatorsResolve`) is taken from `Blockifier`.

`TreeFs` is what all that is for: the source tree, read-only, answers itself. The
refinement `DriverShowsTree` maps a directory handle of the driver to the names
that it has yet to list; `mkcromfs`, `cvcromfs` and the mount are stutters. In
a version 1 image the link count that the driver gives the root directory depends
on which section of the mount came first; `racy` in `TreeFs` allows both.

### Extract, Ranges and Simgraph

One action per entry of each pass of `unmkcromfs`, and one or two per inode of each
thread in the writing pass. The target directory is a host filesystem with names,
objects, rights and times (external): making a link touches its directory, and a
user other than root needs write permission in it. Blocks are written through
`LongFileWrite`, sparsely unless `--nosparse` is given: a block that is the whole file, or
larger than the buffer, then loses the pieces without a zero byte (`ThroughSparse`, `Filled`).
`ExtractedAsImage` states the contents of a file up to that loss, and exactly with
`--nosparse` and for all other blocks. `InodeStaysCached` is about the
fblock cache that the threads share. `Ranges` has change points as the source
does; `MatchesRight` compares what `--simgraph` reports with the sets of bytes that
two files share.

### HashIndex

A stack of layers for each of the five kinds of hash map, with `Add`, `Find` and `Del`
as the first pass of a flush calls them, in the normal and in the speedup mode
with its second list. The stripes of `CompressedHashLayer_Sparse` grow, merge and
are loaded and stored. LZO is what is put in and taken out.

### SparseWrite and FileWrite

The position arithmetic is that of the code: `& ~BlockSize` clears one bit, and
`NextBlockBoundary - WritePos` is unsigned. A `pwrite64` may be short or fail.
`FileWrite` adds the buffer in which `LongFileWrite` merges blocks that follow one
another; blocks come in any order. A block goes to `SparseWrite` only if it is the whole file
or larger than the buffer, and if holes are wanted. `FileComplete` and `KeptPiecesWritten` say
that everything else arrives, and of such a block every piece with a zero byte in it;
`WrittenFaithfully` says what the comment in `lib/longfilewrite.cc` promises, that nothing but
zeros is left out, and is violated.

### MmapVector

Two vectors, the inode table and the block list, take sections of one backing file as
`CreateAndWriteFs` uses them. Every `mmap` and `mremap` may fail, and the vector then
goes on in memory of its own. `PointersStay` is about the pointers into inodes
that the blockifier keeps until the flush.

### StringSearch

The tables are computed as in the code, and a search is a loop with one step per
position. `SearchRight` says that each search gives what `Overlap` takes it for:
this joins the two levels.

### LzmaSearch

A compression is a function of the parameters; the sizes are inputs. A step is a
critical section or a compression. Threads ask the shared finder, wait, tell it
their results and meet at a barrier after each of the three axes.

### Sources

Which data is equal is left open. Buffers know what they point into, so that an
unmapping (`Displaced`) or a closing (`Closed`) makes them invalid. A file is mapped as a whole, in
sections or not at all. The team of the first pass reads other
sources through `schedule_cache` while the current one must stay, which is what
`can_close` is for. When the whole file cannot be mapped, a read of another place moves the
section away under the buffers of earlier reads. `BuffersUsable` excepts exactly that: a buffer
in use that has lost its memory points into a file that is mapped in part and still open.
`BuffersBacked`, without the exception, is violated.

### Options

Each option is an action; up to `MaxOptions` of them come in any order with values
below, on and above their limits. The checks after the last option are one action. They
compare the default block size with `--fsize` (`DefaultSizeFits`) and the sizes of `--bsize_for`
with nothing: `BlockSizesTaken` says no more of those than that each is at least 8, and
`oversized_fblock` shows what follows.

### LzmaCodec, MatchFinder and Optimum

The encoder writes packets bit by bit through the range encoder, with probabilities,
the cache byte and its carry; the decoder reads them with its dictionary, its
dummy decoding near the end of the input and the rest of a match that crosses
the end of the dictionary. Sizes are scaled: a byte has `ByteBits` bits. The scaled
parameters must keep every probability at least `kBitModelTotal / ByteBase`, so that
one shift normalises, as 31/2048 >= 1/256 does in the code. Which parse is taken is
left open: the encoder may take every literal, match and repeat that the data allows.
`MatchesAreRepeats` of `MatchFinder` says that the real one is offered only such matches,
and `ParseRight` of `Optimum` that what `GetOptimum` makes of them is again such a
parse, whatever the prices are: a price comparison is a choice. `LZMA_DIC_MIN` has no
scaled counterpart. The end marker is decoded and never written.

`MatchFinder` is `LzFind.c` with four hash bytes and binary trees: window, limits,
moves, reduction of positions (`Normalize3`), the hashes of two, three and four bytes
and the cyclic array of sons. Sons that were never written are left out. The finder
hc4 of quick trials is not modelled; other finders and decoding in pieces are never
called by this program (`lib/lzma.cc` decodes in one call).

## Runs

| Run | Result | Shows |
|---|---|---|
| `blockifier` | pass | `TypeOK`, `LocatorsResolve`, `FblocksFit`, `FlushComplete`, `IndexesSound` (the list of identical blocks and the autoindex), `IdenticalBlocksMerged`, `OnlyAppends`: two sources of up to 3 bytes over two bytes with block sizes 1 and 2, or of up to 7 bytes with block size 5, `FSIZE` 4, a hash with many collisions, all methods |
| `threads` | pass | the search: `PlanIsAllowed`, `FitsUsed` (no full overlap is lost; a team of one finds the best fit), `SearchEnds` for every store that two writes leave, teams of one and two; the read: `ReadComplete`, `CacheServes` (trimmed between reads; a team of one loads no fblock twice), `ReadReturns` over all placements of 3 blocks in 4 fblocks, two of which share a bit, two reads in a row; the engine: `WorkDoneOnce`, `NobodyLeftWorking`, `MatchIsFound`, `CallsReturn`, two workers, three calls of up to three units, cancellation, spurious wakeups |
| `write_fs` | pass | `NothingLost`, `ResumeKeepsImage`, `WriteEnds` with crashes, invalid and oversized fblocks, a full disk, and fblocks of which `SparseWrite` leaves out pieces |
| `write_fs_resume` | violation | `--finish-interrupted` does not finish |
| `write_fs_told` | violation | on a full disk the user is invited to delete data that is not in the image |
| `fblock_file` | pass | `TypeOK`, `ContentsKept`, `BuffersValid` (mappings and the reader's buffer), `ImageFaithfulWithLookup` for two fblocks of up to 2 bytes, one descriptor, compressed forms that are longer, equal and shorter, every `mmap` failing or not |
| `fblock_file_image` | violation | without `--decompresslookups`, a fblock compressed in between may reach the image with a wrong length |
| `image` | pass | `TypeOK`, `LayoutSound` (the walk is complete, inodes do not overlap), `DriverShowsTree`: trees with hard links, symlinks, devices, excluded names, block counts on and above the limit of a width, conversions to every version and locator kind, two listings at once, the directory cache at its limit |
| `convert_silently` | violation | `cvcromfs` makes an image of an older version whose files cannot be read |
| `sparse_write` | violation | `SparseWrite` leaves out a piece in which no byte is zero |
| `oversized_fblock` | violation | a size of `--bsize_for` above `--fsize` makes an fblock larger than `--fsize` |
| `library` | pass | one property for each of the library's parts (two for mapped vectors): `FileFaithful`, `VectorsFaithful`, `PointersStay`, `SearchesRight`, `BestReturned`, `IndexFaithful`, `SourcesUsable`, `SettingsUsable`, `CodecFaithful`, `EncoderRight` (the match finder and the parse); and of `unmkcromfs` `ExtractedAsImage`, `InodeStaysCached`, `MatchesRight`: everything, parts, flat, sparse and not, over existing files, as root and not; all pairs of small files for `--simgraph` |

Deadlock. `blockifier`, `threads`, `write_fs` and `fblock_file` do not check for it:
a flush of everything, a search, a bounded
number of reads, appends or calls and a finished image are states in which the
program is done, and the liveness properties cover the absence of a deadlock
before that. In `image` and `library` it is checked: their ends
are actions of their own (`...Done`), so that any other state without a successor is
an error.

Why the bounds are enough. Every branch of the modelled code depends on
comparisons between a block, an fblock and `FSIZE`. With blocks of 1 and 2 bytes
and `FSIZE` 4 an fblock can be empty, hold one block, hold overlapping blocks, be
full to the reserve, or refuse a block; the second and later fblocks are reached; the
reserve `MinimumFreeSpace` = 2 is entered by overlapping blocks only; last blocks are
partial; sources are empty. Block size 5 is above `FSIZE`: sources have one such block, two, or
a partial one that does fit. What holds at these bounds of the blockifier is
proved for all values (below). Two threads are enough for the races on
`SmallestInfo`, `cancel` and the cache, each of which is between one reader and
one writer; three fblocks give one that is cached, one being loaded and one to be
dropped, and an error between two good fblocks. The fourth fblock of the read is the one that
has no bit of its own: a word of the set has `LongBits` = 4 bits and `1U` has `UnsignedBits` = 3,
and `Shifts` has both outcomes of such a shift. Compressed fblocks in `write_fs` have one
to three bytes in pieces of two, at places on and off a piece's boundary, with and without
zeros. `MaxReads` = 2 lets a read find
what another one left in the cache. Two workers are enough for a signal that only
one of them gets and for a caller that comes before the last of them, and a
second call meets what a finished, a cancelled and a linear one left.

In `image`, `Radix` = 6 makes the width of two bytes end at 36 and the offsets of a
packed locator at 1296, so that both limits are crossed by trees of a few files.
Four constraints cut states off: `OneListing` (one listing at a time of a converted
image), `OneReply` (a request that changes neither driver nor handle has no
successor: what could follow it could follow without it), `KeepsBlockSizes` (the case
of `convert_silently`) and `PacksWhatFits` (`cvcromfs` is told not to pack volumes above
4 gigabytes of data, `util/cvcromfs.cc:507`).

In `threads` and `library` each behaviour is one part, and the others are over or idle: the
parts share no state, and one run evaluates them all. The match finder has a history of five
bytes and three windows of data, so that the window moves, positions are reduced
while trees and hashes hold older ones, and the cut value ends a search. The
codec's data has matches of each kind, repeats of each of the last four
distances, a match over the end of the dictionary, and streams with nothing, one
and three bytes cut off. The lookahead has a table of seven entries (`NumOpts`), `NumFastBytes`
4 and matches of up to 5 bytes, so that a long match ends the lookahead, the table
overflows and both kinds of combined steps occur. The string searches get all needles of up to five
letters of two in all haystacks of seven. TLC's coverage shows that
every action and every disjunct is taken.

Fairness. `OverlapSearch`, `ReadFile` and `WriteFs` assume weak fairness of each
thread: OpenMP threads of a parallel region run until its barrier, and the
critical sections contain no wait. `WorkEngine` assumes weak fairness of the caller and
of each worker, which a thread that can take the mutex has under any scheduler
that does not starve it; a wakeup is not assumed: it must come from a signal.
Nothing is assumed of the user, of crashes or of new requests. The other
specifications state no fairness and have only safety properties; `TreeFs` promises
what the answers are, not that there are any.

### Outside of the passing runs

What the code does beyond the bounds of the passing runs. TLC finds each of these properties
violated, with the configuration that is named or with the change given.

| Configuration | Property | Shows |
|---|---|---|
| `MCThreadsRace.cfg` (`MCThreads`) | `BestFitFound` | two threads may miss the best fit |
| `MCThreadsBitset.cfg` (`MCThreads`) | `ReadExact` | with 64-bit `unsigned long`, a needed fblock may be left out of the read |
| `MCLibrary.cfg` with the invariant `BuffersBacked` | `BuffersBacked` | when only a section of a file can be mapped, a second read unmaps what the first one's buffer points into |

## Findings

- `util/mkcromfs.cc:1226` (`write_fs_resume`): the file size of a fresh
  `mkcromfs_fblock` is 0, so `--finish-interrupted` finishes nothing.
- `lib/cromfs-fblockfun.cc:250` (`fblock_file_image`): `InitDataReadBuffer` does not
  assign `size` when it decompresses into memory; `FinalCompressFblock` uses it as the
  length of the data. `TestAutoIndexMatch` uses it too; `Blockifier` takes the
  comparison there to be right, which is so with `--decompresslookups` or without
  temporary compression.
- `util/cvcromfs.cc:313` (`convert_silently`): what the older versions cannot
  represent is converted all the same. For block numbers of two and three bytes
  `cvcromfs` says that it cannot, and goes on; for block sizes of single inodes it
  says nothing.
- `lib/sparsewrite.cc:318` (`sparse_write`): `!memchr(data, '\0', size)` is not "all zero":
  it is true where no byte is zero. `SparseWrite` leaves such pieces out, in the image
  and in extracted files; the comment at `lib/longfilewrite.cc:61` says that blocks that consist
  entirely of zeroes are. The same function decides `--blockindexmethod blanks`, which
  indexes blocks without a zero byte rather than blank ones.
- `util/mkcromfs.cc:1816` (`oversized_fblock`): a size of `--bsize_for` is never compared with
  `--fsize`. README.html:723 has the maximum fblock size mandated by `--fsize`; a larger
  block gets an fblock of its own size. A packed locator, `fblocknum*FSIZE+startoffs`, cannot
  hold an offset of `FSIZE` or more inside such an fblock, which the autoindex may give.
- `util/mkcromfs.cc:1096` (`write_fs_told`): the result of `SparseWrite` is ignored, and the
  fblock is announced as no longer needed. The comment at `:1121` says that its data is ensured
  to be written.

From outside of the passing runs:

- `lib/cromfs-blockifier.cc:231`: `found` is read outside the lock; a worse fit
  may win. `PlanIsAllowed` shows that the plan stays valid.
- `cromfs.cc:801`: `1U <<` in a bit set of `unsigned long`.
- `lib/datasource_detail.hh:138`: the section is unmapped although buffers of earlier
  reads refer to it; `lib/cromfs-blockifier.cc:1456` relies on them.

Met while modelling and covered by no run of their own:

- Blockifier: `lower_bound` finds an empty source instead of the one behind it
  (`lib/cromfs-blockifier.cc:955`), so that the first block of that one is not
  merged with later ones (the exception in `IdenticalBlocksMerged`); an overlap that
  fills an fblock to exactly `FSIZE` is not found (`lib/boyermooreneedle.hh:171`; it
  is the exception `FillsUp` in `BestFitAlone`); overlap lengths are congruent to
  the first length tried rather than multiples of the granularity
  (`lib/boyermooreneedle.hh:168`); the result of `open()` of a source is ignored
  (`lib/cromfs-blockifier.cc:939`).
- Fblock files: a compressed fblock that cannot be mapped is read from the
  address of the failed mapping (`lib/cromfs-fblockfun.cc:316`; `ok` in `FblockFile`
  is false there).
- `mkcromfs`: after an oversized fblock in a sparse image the following ones are
  written to wrong places (`util/mkcromfs.cc:1109`; `mkcromfs` ends with an error then, and
  `Healthy` leaves it out); tasks add to the estimate of file bytes without a lock (`:1358`);
  the address of the first byte of an empty directory is taken (`:862`).
- Driver: the cache holds every fblock a read needs until the read ends
  (`cromfs.cc:873`); `EraseRandomlyOne` (`cromfs.cc:60`), which would divide by zero for
  a single entry, is called nowhere; the timed dropping of the block
  table (`cromfs.cc:346`) is compiled with a timeout of 0, which turns it off.
- `unmkcromfs`: `--flat` takes off only the first component of a path; an existing target of a
  device is made again as a regular file; permissions are set before the
  owner, and changing the owner clears set-user-id; for a user other than root, a directory
  may be read-only before the hard links in it are made.
- Hash index: `Find` and `Del` end at the first layer without the hash, which is right
  as a layer holds one block of a hash; `CacheFile` cannot hold the value 0; a
  stripe that ends at the hash 2^32-1 has the end 0.
- LZMA search: with more threads than values, a value may be tried twice, which
  `lib/lzma.cc:508` says never happens; a failed compression gives an empty result,
  which counts as the smallest (`EncoderAccepts` shows that accepted options do not
  lead there).

## Theorems

A theorem holds for every value of the constants that satisfies the `ASSUME` of its
module. Each `ASSUME` states types of inputs and what `main()` checks of the options; TLC
evaluates all of them on the runs. What a theorem needs beyond that is in its own
`ASSUME` and is said below.

`BlockifierProofs` begins with the operators of `Overlap`: `AppendPositionMeets` (where
`AnalyzeAppend` puts a block, it agrees with the bytes that are there) and
`AppendedBlockIsHeld` (after `put_appended_raw` the fblock holds the block and all it held
before). Then it proves, for any sources, contents, hash function, methods and
parameters that satisfy `OverlapParameters` and `BlockifierParameters`:

- `ImageCorrect`: `Spec => []LocatorsResolve`
- `FblocksBounded`: `Spec => []FblocksFit`
- `FsizeKept`: `Spec => []FsizeMandated`, if no source has blocks larger than `FSIZE`
- `FlushesComplete`: `Spec => []FlushComplete`
- `StoreOnlyGrows`: `Spec => OnlyAppends`
- `IndexesRight`: `Spec => []IndexesSound`
- `BlocksMerged`: `Spec => []IdenticalBlocksMerged`
- `TypeCorrect`: `Spec => []TypeOK`

The assumptions are the option checks of `main()` in `mkcromfs` (`FSIZE` is
positive, `BSIZE` is within it, `MinimumFreeSpace` is below it) and the types of the inputs.
Block sizes are any positive numbers, as `main` lets `--bsize_for` have them. The hash is any
function.

The argument. `LocatorsResolve` alone is not inductive. `WriteBlock` and
`ReuseIndexed` keep it because of `WritePlanFits`, `WriteKeepsStore` and the test
against the bytes of the fblock. `ReuseIdentical` writes the number of another
block, so it needs that (a) the other block already has a number, (b) it is the
block the comparison was made with, and (c) it is at least as long. (a) is that
recorded reuses point backwards and that the block list of each passed item is
complete (`IdenticalInv`, `LoopInv`). (b) is that `where_list` is the running
total of the sizes, so that `WhereFind` means the same in both loops
(`WhereInv`, lemmas `WhereFindItem` and `WhereFindStable`). (c) is that `SameData`
held when the reuse was recorded (`IdenticalInv`): the second loop compares bytes
again, but not lengths. `ScheduleInv` says that a source belongs to one flush.
`IndInv` is the conjunction; each action has a lemma (`...Step`).

`IndexesRight` has two halves. `AllTrue` says that each entry of the autoindex is the hash
of bytes that are where it says; fblocks only grow, so entries stay true
(`EntriesStay`), and `TryAutoIndex` is only called where a whole block is left.
`ReuseInv` says that a block has one recorded reuse at most and that the two blocks have
the same number once both have one; `BlockPlaced` ties the positions of the loop to the
lengths of the block lists.

`BlocksMerged` is about what the search must not miss: the blocks it compares with. Equal data may
still be stored twice, and `Comparable` says when: a first block right behind an empty source is
hidden from `BlockWhereList::Find`, and a source with smaller blocks is turned down by the size
test. `Covered` says, for each of the five
methods, how a passed block can be found again: it, or a block that passes the same tests, is
in the index (`All`); or its hash is no duplicate (`All_Prepass`); or it is the only block
with its hash so far and moves to the index when the hash is met again (`All_Speedup`);
the hash list has them all (`Collect`). `SearchInv` claims this of every passed block that
`BlockWhereList::Find` can see, `FoundInv` that each block that occurred before has a
recorded reuse. `Found` is the step from the first to the second, and `ReuseInv` carries
it to block numbers.

The other proof modules do the same for one component each. An invariant is a
conjunction of named parts that TLC checks on the instances of the runs, and is kept by
a lemma per action.

`OverlapSearchProofs`: `SearchAllowed` (`PlanIsAllowed`, for every team) and
`FullOverlapNeverLost` (`FullOverlapUsed`, the first part of `FitsUsed`). `SmallestInv` says
that what `SmallestInfo` holds is a find of a candidate under some limit, and that some
candidate is good without any; `InfoInv` the same of a find not yet entered;
`TriedInv` that each candidate taken from the loop was tried or is in the hands of a thread.
The second theorem assumes `AutoIndexPeriod # 1`: with 1, `FindOverlap` leaves full overlaps to
the autoindex. The other part of `FitsUsed`, `BestFitAlone`, does not hold for all
parameters: an overlap length that is not congruent to the granularity is not tried.

`ReadFileProofs`: `ReadsWhole` (`ReadComplete`) and `CacheWorks` (`CacheServes`).
`TargetInv` says that a position is copied unless it is pending, that is, its fblock is
still to come in the work of a thread or that thread is not behind the position yet, and
that `result` counts the positions; `WorkDistinct` that no two threads have the same fblock.
`ReadsWhole` has no assumption on the width of a word. Its first half, `ReadRight`, holds
always: what is in the buffer is right. Its second half is exactness for reads that
`BitsTellApart`: each fblock of the read has a bit, and no two share one. `LowBitsTell` says when
that is so: for fblock numbers below `UnsignedBits` in their word, so for all of them where
`unsigned long` has 32 bits, and for the first 32 everywhere. Beyond that a read may lack bytes
(`MCThreadsBitset.cfg`). `CacheWorks` assumes `CacheMaxSize # 1`: `CheckAges` leaves
room for one more, and takes the limit 0 that results for none.

`WriteFsProofs`: `NoFblockLost` (`NothingLost`) and `ResumeHarmless`
(`ResumeKeepsImage`). `LoopInv` is about the ordered loop: each number from `turn` to `next` is in
the hands of one thread, and only the one at `turn` is inside the ordered section.
`OffsetInv` and `WrittenInv` say how far the image is, in `out` and in `synced`, at each point
of that section; `FilesInv` that the user deletes only what was announced; `ResumeInv`
where the walk of `--finish-interrupted` may stand, which after a crash may be a hole.
All but the loop is claimed only while `Healthy`. `WrittenInv` counts as written what
`SparseWrite` writes: the theorem does not say that a fblock without zeros survives, which
it does not.

`FblockFileProofs`: `FilesTyped` (`TypeOK`), `ContentsStay` (`ContentsKept`), `ReadersSafe`
(`BuffersValid`) and `ImageRight` (`ImageFaithfulWithLookup`). `ContentsInv` says that there are
contents such that each file, raw or compressed, encodes them and each mapping covers its
file; they are those of the history, except of a fblock that `FinalCompressFblock`
may have got wrong without `--decompresslookups` (the finding above). Each member of
`mkcromfs_fblock` has a lemma that it keeps the contents of all fblocks, whatever
`mmap` does. `BufferInv` says that what a buffer refers to is raw and mapped. The
assumptions are that LZMA output is never empty and that a word holds twice `FSIZE`.

`WorkEngineProofs`: `UnitsDoneOnce` (`WorkDoneOnce`), `NobodyLeft` (`NobodyLeftWorking`) and
`MatchFound` (`MatchIsFound`), for every number of threads. `Phases` says for each place of the
caller where the workers may be and what the counters are; `Units` accounts for each unit
of work; `TeamInv` follows an entry that matches from the hand-out until it is stored.

`DriverProofs`: `LayoutSafe` (`LayoutSound`), for every set of trees, every set of hidden names,
all sizes, block sizes of patterns and widths, every order of the tasks. It assumes
`MakeFsAssumption`: names have finite listings, an entry leads to a node of the tree, sizes are
not negative. The argument has two layers. `WalkInv` is about the tasks of the walk, which append
to one collection and sort their parts of it while others run. `PlacesRight` says how far
the task of each entry is; `PartsRight` that the part of each directory is a stretch of
the collection that holds the names of that directory, each once, and no other's; from
this follows that an append or a sort leaves the parts of the others alone. `DirinfosRight`
says that a `cromfs_dirinfo` has the names of the tasks that are over, so that at the end of
the walk it has them all. `LayoutInv` adds, for each phase of `CreateAndWriteFs`, what is known
of numbers and inodes. `NumbersRight`: the nodes met so far have the numbers that the entries
show, and the room kept for an inode lies behind those of all earlier ones and within the
table. `InodesRight`: what stands in the table is an inode of the entry whose room it is in,
and no larger. A room is sized before there are blocks, from the size of the file and the
width chosen, and the inode is written with what is known later; `LayoutInv` says that the width
and the patterns of `--bsize_for` do not change in between (`SettingsRight`), and the
lemmas about the sizes that both calculations round alike. Mounting, the requests of the
kernel and `cvcromfs` leave all that alone.

`LibraryProofs` has the parts of the library one after the other.

- `SourcesListed` (what of `SourcesUsable` does not depend on the mappings) and
  `SourcesRight` (`SourcesUsable`). Between `can_close = FALSE` and the end of a search
  `schedule_cache::Get` closes nothing, so that the buffers of the threads stay. The list
  of open sources has no duplicates, the lock is held by the thread that appends, and a
  match that was counted is in the list or still with a thread. `SourcesRight` is for every kind of
  mapping: `BufsInv` says that nobody but the reader of another place of the same file, mapped in
  part, takes the memory of a buffer in use.
- `SettingsSafe` (`SettingsUsable`): for any numbers, lists of bits and any number of options.
  `OptionsInv` keeps, after each option, the range of each number that is stored, what a list
  of bits may be (`BitsRight`), and that the three variables behind the width of block numbers
  agree with the widths that were asked for (`WidthRight`); the checks after the last option
  add the relations between numbers. Of the sizes of `--bsize_for` it claims what `main` checks,
  that they are at least 8. Where `main` adjusts a number by a division
  (`EndOptions`), `QuotientBound` says where the result is.
- `VectorsSafe` (`VectorsFaithful`) and `PointersSafe` (`PointersStay`), for every page size,
  size of the inode table and list of blocks. `MmapInv` says that each vector is one
  section, in the file or in memory of its own (`GoodVector`), that its items are those it was
  told and zeros behind them (`Holds`), and that in the file the blocks begin behind the
  inode table and end where the storage ends. The last part is what makes it safe to extend
  the blocks in place; that the file has only zeros behind what was handed out (`GoodStore`) is
  what makes it right to extend at all without writing. Pointers stay because the inode
  table is given its whole size before the first of them is taken.
- `FileSafe` (`FileFaithful`), for any blocks that do not overlap, in any order, sparse or not,
  and any sizes of the buffer and of a block of `SparseWrite`. `LongRight` is about
  `LongFileWrite`: a byte that was passed to it is in the file, in the buffer at its place, with
  the call of `SparseWrite` in progress, or in a piece that
  `SparseWrite` leaves out. `CallRight` is about that
  call: what is behind `done` is settled or part of the stretch that is still collected, and
  `done` stands where `IsZeroBlock` is asked about a piece (`AtPiece`).
- `BestFound` (`BestReturned`), for any team, any limits and any sizes that the encoder yields.
  `AutoInv` is about the automatic search, where threads share a finder. A result in the
  finder is that of its value, and the best so far is as good unless a thread is still to
  compare the two (`DoneRight`); a value that is pending is in the hands of a thread
  (`PendingHeld`), so that no team waits for nobody; and when one thread left the axis, the
  finder was `Satisfied`: all values are known or being tried, or on one side the sizes rise
  and the other end was tried. If the sizes are parabolic in a parameter, the smallest is then
  among those tried: a least counterexample to monotonicity (`ParabolaTried`) would
  contradict the two neighbours that the finder compared. `HeavyInv` is about the full
  search: each combination is still to be tried, being compared, or no better than the best
  (`Accounted`), and the shares of the threads are all combinations.

Two things are not in the library in a form that the provers can use, and are proved where
they are needed: that a set of numbers has a least element (`Least`, `LeastOf`, from
well-foundedness), and from least counterexamples that a recursive function satisfies its
equation (`FilePos` in `WriteFsProofs`; `RunExists` in `BlockifierProofs`).

## Only model-checked

- `BestFitAlone` of `OverlapSearch`, which is false for some parameters (above), and
  therefore `FitsUsed` as a whole.
- Beyond the proof system: liveness (`SearchEnds`, `ReadReturns`, `WriteEnds`,
  `CallsReturn`), which needs `ENABLED`.
- What recursive definitions compute for every input: `SearchesRight`, `CodecFaithful`,
  `EncoderRight`, `MatchesRight`. An induction over the text, the packets or the bits of a
  number is behind each of them, and their modules are written with recursive operators.
- `IndexFaithful`: the layers are folds over a stack and functions built with `@@`, of
  which the provers know nothing.
- `TypeOK` of `Driver` and the refinement `DriverShowsTree`: both are about what the driver
  decodes from what `mkcromfs` and `cvcromfs` encoded, and so about inverses of the folds
  with which tables and directories are written. `LayoutSafe` is the part of it that is about
  order and arithmetic rather than encoding.
- `ExtractedAsImage` needs a model of the host filesystem along every path, which is recursive
  in the directories.
- `InodeStaysCached` is no invariant for every image: an image whose inode table and
  directories need more fblocks than the cache holds may drop the inode while it
  is read. The run has the limit at which this does not happen.

## Not modelled

- `statfs` and `access` of the driver: they answer from constants and keep no state.
- Listings, `--simgraph`'s output format, progress and the console.
- `-S` of `cvcromfs` and the growth factors for the rooms of the tables in `mkcromfs`:
  they leave bytes unused between the parts of the image.
- Asynchronous I/O, `rbtree.hh`, `allocatornk.hh`: not compiled into any program.
- The hash function: all that matters of it is that it is a function, and the models
  hold for hashes with many collisions.
- LZO and the google containers: third-party code behind the interface of a map and of
  a codec, mostly macros for compilers and platforms.
- In the LZMA library: prices, match finders other than bt4, decoding in pieces, threads
  inside the encoder. Prices and hc4 have an effect in this program, on the size of the
  result.
- Of the fblock files, a descriptor that another thread closes in the middle of an operation
  (`lib/cromfs-fblockfun.cc:204`), and writes that fail, which end `mkcromfs`.
- `--resume-blockify` with a list of another run (`lib/cromfs-blockifier.cc:1162`): block
  numbers out of range have no meaning in the model.

## Plan

The modules are written and the properties that the provers can reach are proved. What would
come next: an encoding of the block table and of directories without folds, as functions with
proved inverses, which is what a proof of `DriverShowsTree` needs first; and the layers of
`HashIndex` as functions over a fixed stack.
