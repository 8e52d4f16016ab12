------------------------------ MODULE ReadFile ------------------------------
(***************************************************************************)
(* cromfs::read_file_data of the filesystem driver (cromfs.cc) and the      *)
(* fblock cache it works on (lib/datacache.hh).                             *)
(*                                                                          *)
(* A read collects the fblocks it needs, the cached ones first, and a team  *)
(* of OpenMP threads fills the target buffer one fblock at a time.  The     *)
(* driver's session loop serves one request after the other.                *)
(*                                                                          *)
(* Fblock numbers count from 0 as in the code, block numbers and positions  *)
(* in sequences from 1.                                                     *)
(***************************************************************************)
EXTENDS Integers, Sequences, FiniteSets

CONSTANTS
    Threads,        \* most threads a team can have
    LongBits,       \* bits of unsigned long: 64, or 32 on 32-bit systems
    UnsignedBits,   \* bits of unsigned int: 32
    Shifts,         \* what 1U << n does for n >= UnsignedBits: "wraps", "zero"
    CacheMaxSize,   \* FBLOCK_CACHE_MAX_SIZE
    MaxReads,       \* bound on the requests served
    Requests,       \* the [offset, size] asked for
    Images          \* the filesystems considered

Min2(x, y) == IF x <= y THEN x ELSE y

(* An image: fblktab holds the raw bytes of the fblocks, blktab the locators *)
(* and the file is the inode with its block list.  The images are whole, as *)
(* Blockifier leaves them: the list covers the file, and the bytes of every *)
(* block of it are inside their fblock.                                     *)
SoundImage(im) ==
    /\ im.bsize \in Nat \ {0} /\ im.bytesize \in Nat
    /\ im.fblktab \in Seq(Seq(Nat))
    /\ im.blktab \in Seq([fblocknum : 0..(Len(im.fblktab) - 1), startoffs : Nat])
    /\ im.blocklist \in Seq(1..Len(im.blktab))
    /\ im.bytesize <= Len(im.blocklist) * im.bsize
    /\ \A k \in 0..(Len(im.blocklist) - 1) :
          LET loc == im.blktab[im.blocklist[k + 1]]
          IN  loc.startoffs + Min2(im.bsize, im.bytesize - k * im.bsize)
                <= Len(im.fblktab[loc.fblocknum + 1])

ASSUME ReadParameters ==
    /\ Threads \in Nat \ {0}
    /\ LongBits \in Nat \ {0} /\ UnsignedBits \in Nat \ {0}
    /\ Shifts \subseteq {"wraps", "zero"}
    /\ CacheMaxSize \in Nat \ {0} /\ MaxReads \in Nat
    /\ Requests \subseteq [offset : Nat, size : Nat]
    /\ \A im \in Images : SoundImage(im)

VARIABLES
    readers,    \* number of threads of the parallel region; never changes
    image,      \* [fblktab, blktab, blocklist, bsize, bytesize]; never changes
    shift,      \* the behaviour of the shift in this build; never changes
    reads,      \* number of requests begun
    request,    \* [offset, size] of the current request
    stage,      \* "idle", "parallel" or "age"
    work,       \* by thread: the fblocks it has still to go through
    pos,        \* by thread: position in the file
    loading,    \* by thread: it is decompressing the fblock at hand
    target,     \* the buffer: file position -> byte, for the bytes written
    result,     \* number of bytes reported so far
    loads,      \* fblocks decompressed for this request, with repetitions
    cache       \* the fblocks in fblock_cache

threadVars == <<work, pos, loading>>
readVars == <<readers, image, shift, reads, request, stage, threadVars, target, result, loads, cache>>

Reader == 1..Threads

-----------------------------------------------------------------------------
(* The part of the file that a request r covers.                            *)
StartOf(r) == Min2(image.bytesize, r.offset)

EndOf(r) == Min2(image.bytesize, r.offset + r.size)

StartPos == StartOf(request)

EndPos == EndOf(request)

(* The locator of block k of the file, and of the one at file position p.   *)
BlockOf(k) == image.blktab[image.blocklist[k + 1]]

BlockAt(p) == BlockOf(p \div image.bsize)

(* Mutant: the bytes before p are taken for those behind it.                *)
ConsumeBefore(p) == Min2(EndPos - p, p % image.bsize)

Consume(p) == Min2(EndPos - p, image.bsize - (p % image.bsize))

(* The blocks of the file that a request touches.                           *)
Touched(r) ==
    IF StartOf(r) >= EndOf(r) THEN {}
    ELSE (StartOf(r) \div image.bsize)..((EndOf(r) - 1) \div image.bsize)

-----------------------------------------------------------------------------
(* The ad hoc bitset.  The words are unsigned long, but the bit is computed *)
(* as an unsigned int.                                                      *)

(* Word and bit that stand for fblock f; empty when the value has no bit.   *)
FblockBit(f) ==
    LET n == f % LongBits
    IN  IF n < UnsignedBits THEN {<<f \div LongBits, n>>}
        ELSE IF shift = "wraps" THEN {<<f \div LongBits, n % UnsignedBits>>}
        ELSE {}

(* Mutant: the bit is not looked at.                                        *)
PushedAlways(r) == Touched(r)

(* The blocks at which the loop over them lists the fblock: its bit is not  *)
(* set by a block before.                                                   *)
Pushed(r) ==
    {k \in Touched(r) :
        LET b == FblockBit(BlockOf(k).fblocknum)
        IN  b = {} \/ \A j \in Touched(r) : j < k => FblockBit(BlockOf(j).fblocknum) # b}

(* The fblocks pushed into a vector by the blocks K of the file, in the     *)
(* order of the blocks.  There is only one such list.                       *)
FblockLists(K) ==
    {[i \in DOMAIN ks |-> BlockOf(ks[i]).fblocknum] : ks \in
        {ks \in [1..Cardinality(K) -> K] :
            /\ \A k \in K : \E i \in DOMAIN ks : ks[i] = k
            /\ \A i, j \in DOMAIN ks : i < j => ks[i] < ks[j]}}

CachedBlocks(r) == {k \in Pushed(r) : BlockOf(k).fblocknum \in cache}

(* omp for with the static schedule: of n iterations, t threads get those   *)
(* up to Cut(n, t).                                                         *)
Cut(n, t) == t * (n \div readers) + Min2(t, n % readers)

Share(s, t) == SubSeq(s, Cut(Len(s), t - 1) + 1, Cut(Len(s), t))

-----------------------------------------------------------------------------
ReadInit ==
    /\ readers \in 1..Threads
    /\ image \in Images /\ shift \in Shifts
    /\ reads = 0 /\ request = [offset |-> 0, size |-> 0]
    /\ stage = "idle"
    /\ work = [t \in Reader |-> <<>>] /\ pos = [t \in Reader |-> 0]
    /\ loading = [t \in Reader |-> FALSE]
    /\ target = <<>> /\ result = 0 /\ loads = <<>>
    /\ cache = {}

(* read_file_data up to the parallel region.                                *)
BeginRead(r) ==
    /\ stage = "idle" /\ reads < MaxReads
    /\ reads' = reads + 1
    /\ request' = r
    /\ stage' = "parallel"
    /\ target' = <<>> /\ result' = 0 /\ loads' = <<>>
    /\ \E cached   \in FblockLists(CachedBlocks(r)) :
       \E uncached \in FblockLists(Pushed(r) \ CachedBlocks(r)) :
          work' = [t \in Reader |-> IF t > readers THEN <<>>
                                    ELSE Share(cached, t) \o Share(uncached, t)]
    /\ pos' = [t \in Reader |-> StartOf(r)]
    /\ UNCHANGED <<readers, image, shift, loading, cache>>

(* One turn of the loop of read_file_data_from_one_fblock_only for a block  *)
(* that lies in another fblock, or the end of that loop.                    *)
SkipBlock(t) ==
    /\ stage = "parallel" /\ work[t] # <<>> /\ ~loading[t]
    /\ IF pos[t] < EndPos
       THEN /\ BlockAt(pos[t]).fblocknum # Head(work[t])
            /\ pos' = [pos EXCEPT ![t] = @ + Consume(@)]
            /\ work' = work
       ELSE /\ work' = [work EXCEPT ![t] = Tail(@)]
            /\ pos' = [pos EXCEPT ![t] = StartPos]
    /\ UNCHANGED <<readers, image, shift, reads, request, stage, loading, target, result, loads, cache>>

(* Mutant: the offset inside the block is not added.                        *)
CopyFromStart(p) ==
    LET h == image.fblktab[BlockAt(p).fblocknum + 1]
        startoffs == BlockAt(p).startoffs
        n == Min2(Len(h) - startoffs, Consume(p))
    IN  [q \in p..(p + n - 1) |-> h[startoffs + q - p + 1]]

(* read_block: what is copied for the block at p.  Nothing is copied from   *)
(* behind the end of the fblock.                                            *)
Copy(p) ==
    LET h == image.fblktab[BlockAt(p).fblocknum + 1]
        startoffs == BlockAt(p).startoffs + (p % image.bsize)
        n == Min2(Len(h) - startoffs, Consume(p))
    IN  [q \in p..(p + n - 1) |-> h[startoffs + q - p + 1]]

(* The buffer after bytes are copied into it.                               *)
Over(bytes, buf) ==
    [q \in DOMAIN bytes \cup DOMAIN buf |-> IF q \in DOMAIN bytes THEN bytes[q] ELSE buf[q]]

CopyBlock(t) ==
    /\ target' = Over(Copy(pos[t]), target)
    /\ pos' = [pos EXCEPT ![t] = @ + Consume(@)]
    /\ result' = result + Consume(pos[t])

(* Another thread may be inside Put, which changes the map that Find walks. *)
Racing(t) == \E u \in Reader \ {t} : loading[u]

(* read_fblock: Find, without a lock, either has it ...                     *)
FindFblock(t) ==
    /\ stage = "parallel" /\ work[t] # <<>> /\ ~loading[t]
    /\ pos[t] < EndPos
    /\ BlockAt(pos[t]).fblocknum = Head(work[t])
    /\ \/ /\ Head(work[t]) \in cache
          /\ CopyBlock(t)
          /\ UNCHANGED <<loading, loads>>
       \/ /\ Head(work[t]) \notin cache \/ Racing(t)
          /\ loading' = [loading EXCEPT ![t] = TRUE]
          /\ loads' = Append(loads, Head(work[t]))
          /\ UNCHANGED <<target, pos, result>>
    /\ UNCHANGED <<readers, image, shift, reads, request, stage, work, cache>>

(* Mutant: nothing is put into a cache that CheckAges(-1) would leave full. *)
PutIfRoom(f) ==
    IF Cardinality(cache) >= CacheMaxSize - 1 THEN cache ELSE cache \cup {f}

(* DataCache::Put: it never drops an entry; CheckAges does.                 *)
Put(f) == cache \cup {f}

(* ... or the fblock is decompressed and Put into the cache.                *)
PutFblock(t) ==
    /\ stage = "parallel" /\ loading[t]
    /\ cache' = Put(Head(work[t]))
    /\ loading' = [loading EXCEPT ![t] = FALSE]
    /\ CopyBlock(t)
    /\ UNCHANGED <<readers, image, shift, reads, request, stage, work, loads>>

(* The barrier at the end of the parallel region.                           *)
EndParallel ==
    /\ stage = "parallel" /\ \A t \in Reader : work[t] = <<>>
    /\ stage' = "age"
    /\ UNCHANGED <<readers, image, shift, reads, request, threadVars, target, result, loads, cache>>

(* Mutant: the offset of the count is forgotten.                            *)
KeepMaxSize == CacheMaxSize

(* CheckAges(-1); a limit of 0 means no limit.                              *)
EffectiveMaxSize == CacheMaxSize - 1

(* fblock_cache.CheckAges(-1) drops the surplus.  Ages are whole seconds    *)
(* and all the entries of a read may be of the same second, so any may go.  *)
CheckAges ==
    /\ stage = "age"
    /\ stage' = "idle"
    /\ IF EffectiveMaxSize # 0 /\ Cardinality(cache) > EffectiveMaxSize
       THEN cache' \in {c \in SUBSET cache : Cardinality(c) = EffectiveMaxSize}
       ELSE cache' = cache
    /\ UNCHANGED <<readers, image, shift, reads, request, threadVars, target, result, loads>>

ThreadStep(t) == SkipBlock(t) \/ FindFblock(t) \/ PutFblock(t)

ReadNext ==
    \/ \E r \in Requests : BeginRead(r)
    \/ \E t \in Reader : ThreadStep(t)
    \/ EndParallel
    \/ CheckAges

(* The threads of a team run until they reach the barrier.                  *)
ReadFairness ==
    /\ \A t \in Reader : WF_readVars(ThreadStep(t))
    /\ WF_readVars(EndParallel) /\ WF_readVars(CheckAges)

ReadSpec == ReadInit /\ [][ReadNext]_readVars /\ ReadFairness

-----------------------------------------------------------------------------
(* Properties.                                                              *)

(* The bytes of the file by its definition: block list, locator, fblock.    *)
FileByte(p) ==
    image.fblktab[BlockAt(p).fblocknum + 1]
        [BlockAt(p).startoffs + (p % image.bsize) + 1]

(* Each fblock that the read needs has a bit, and no two the same.          *)
BitsTellApart(r) ==
    \A j, k \in Touched(r) :
       LET f == BlockOf(j).fblocknum
           g == BlockOf(k).fblocknum
       IN  FblockBit(f) # {} /\ (FblockBit(f) = FblockBit(g) => f = g)

(* A read returns all the bytes asked for that the file has, and the count  *)
(* of them: whichever fblocks they are in, cached or not, whichever thread  *)
(* gets there first.  The bits lose fblocks on 64-bit systems, where not    *)
(* all have their own.  ReadExact then fails, see MCThreadsBitset.cfg.     *)
ReadExact ==
    stage = "age" =>
      /\ result = Cardinality(StartPos..(EndPos - 1))
      /\ target = [p \in StartPos..(EndPos - 1) |-> FileByte(p)]

(* What arrives in the buffer belongs there, in any read.                   *)
ReadRight ==
    stage # "idle" => \A p \in DOMAIN target : p \in StartPos..(EndPos - 1) /\ target[p] = FileByte(p)

(* No read returns wrong bytes, and none that can tell its fblocks apart    *)
(* returns too few.                                                         *)
ReadComplete == ReadRight /\ (BitsTellApart(request) => ReadExact)

(* No fblock is decompressed twice for one read: that is what sorting the   *)
(* work by fblock is for.  It takes a team of one: otherwise a Find that    *)
(* races with a Put may miss what is there.                                 *)
LoadedOnce ==
    readers = 1 => \A i, j \in DOMAIN loads : loads[i] = loads[j] => i = j

(* Between requests the cache has room for one more fblock, however many a  *)
(* read needed.                                                             *)
CacheTrimmed == stage = "idle" => Cardinality(cache) < CacheMaxSize

(* Every read that began returns.                                           *)
ReadReturns == stage = "parallel" ~> stage = "idle"

(* The fblock cache does what it is for: no fblock twice in one read, and   *)
(* no more of them kept than the limit when the read is over.               *)
CacheServes == CacheTrimmed /\ LoadedOnce
=============================================================================
