----------------------------- MODULE FblockFile -----------------------------
(***************************************************************************)
(* The temporary files in which mkcromfs keeps its fblocks:                 *)
(* lib/cromfs-fblockfun.cc with lib/mmapping.hh and lib/datareadbuf.hh, and *)
(* what CreateAndWriteFs in util/mkcromfs.cc does with them in the end.     *)
(* A fblock file is raw or LZMA compressed, mapped or not, open or not, and *)
(* is moved between these states by readers, by appends and by              *)
(* FreeSomeResources.  Blockifier sees a fblock as the sequence of its raw  *)
(* bytes; the history variable `stored' is that sequence, and the           *)
(* properties say that the files always amount to it.                       *)
(*                                                                         *)
(* An operation on a fblock is one step: the parallel loops of mkcromfs     *)
(* give every fblock to one thread at a time, and the only thing fblocks    *)
(* share is the number of open descriptors.  That another thread closes a   *)
(* descriptor in the middle of an operation is not modelled.                *)
(***************************************************************************)
EXTENDS Integers, Sequences, FiniteSets

CONSTANTS
    FSIZE,                  \* maximum raw size of a fblock
    Byte,                   \* the byte values, 1-tuples (see LZMACompress)
    LzmaSize(_),            \* length of the compressed form of some data
    MaxFblocks,             \* bound on the number of fblocks
    MaxAppend,              \* bound on the length of an appended block
    MaxOpen,                \* number of files that may be open
    WordSize,               \* 2^w for the w bits of uint_fast32_t
    RandomCompressPeriod,   \* -r
    SparseFblocks,          \* CROMFS_OPT_SPARSE_FBLOCKS
    Requests                \* pairs of an offset and a size that readers ask for

(* A cell of a file that nobody has written in this run.                    *)
Junk == <<>>

ASSUME FblockFileParameters ==
    /\ FSIZE \in Nat \ {0}
    /\ MaxFblocks \in Nat \ {0}
    /\ MaxAppend \in 1..FSIZE
    /\ MaxOpen \in Nat \ {0}
    /\ WordSize \in Nat /\ WordSize > 2 * FSIZE
    /\ RandomCompressPeriod \in Nat \ {0}
    /\ SparseFblocks \in BOOLEAN
    /\ Requests \subseteq (0..FSIZE) \X (0..(WordSize - 1))
    /\ \A n \in 0..FSIZE : \A d \in [1..n -> Byte \cup {Junk}] :
         LzmaSize(d) \in Nat \ {0}

VARIABLES
    fb,             \* mkcromfs_fblockset: the fblocks, by number
    stored,         \* history: the raw bytes that were put into each fblock
    idle,           \* fblocks whose last access is at least 10 seconds ago
    counter,        \* the static counter of FreeSomeResources
    buffer,         \* the DataReadBuffer in use, or NoBuffer
    pc,             \* "plan", "index" (in Execute), "final" (in CreateAndWriteFs) or "end"
    done,           \* fblocks that FinalCompressFblock has dealt with
    terminate_for,  \* terminate_for of CreateAndWriteFs
    image,          \* what was written to the image, fblock by fblock
    lookup          \* DecompressWhenLookup, never changed

vars == <<fb, stored, idle, counter, buffer, pc, done, terminate_for, image, lookup>>

NotMapped == -1
Unset     == -1       \* a size variable that was never assigned
NoBuffer  == [f |-> 0]

(* What Blockifier takes put_appended_raw to be.                            *)
Plan == INSTANCE Overlap WITH BSIZE <- 1, MinimumFreeSpace <- 0,
            OverlapGranularity <- 1, MaxFblockCountForBruteForce <- 1,
            AutoIndexPeriod <- 0

-----------------------------------------------------------------------------
(* The codec.  Compressed cells are 2-tuples that name the data and a       *)
(* position, so that data can be recovered from the complete sequence only. *)
LZMACompress(d) == [i \in 1..LzmaSize(d) |-> <<d, i>>]

IsLZMA(c) == c # <<>> /\ Len(c[1]) = 2 /\ c = LZMACompress(c[1][1])

LZMADeCompress(c) == IF IsLZMA(c) THEN c[1][1] ELSE <<>>

(* The kernel's part: pwrite64, a copy into a shared mapping (which cannot  *)
(* make the file longer) and ftruncate.                                     *)
Pwrite(file, data, pos) ==
    [i \in 1..Plan!Larger(Len(file), pos + Len(data)) |->
        CASE i - pos \in DOMAIN data -> data[i - pos]
          [] i - pos \notin DOMAIN data /\ i <= Len(file) -> file[i]
          [] OTHER -> Junk]

CopyToMap(file, data) ==
    [i \in DOMAIN file |-> IF i \in DOMAIN data THEN data[i] ELSE file[i]]

Truncated(file, n) ==
    [i \in 1..n |-> IF i \in DOMAIN file THEN file[i] ELSE Junk]

(* The choices the environment makes in one operation: the order in which   *)
(* sort puts the fblocks (by the second of their last access), and whether  *)
(* mmap succeeds in SetFileContent (write) and elsewhere (map).             *)
AccessOrders ==
    {o \in [DOMAIN fb -> DOMAIN fb] :
        /\ \A f \in DOMAIN fb : \E i \in DOMAIN fb : o[i] = f
        /\ \A i, j \in DOMAIN fb : i < j /\ o[j] \in idle => o[i] \in idle}

Outcomes == [order : AccessOrders, map : BOOLEAN, write : BOOLEAN]

-----------------------------------------------------------------------------
(* The members of mkcromfs_fblock, as functions from the fblocks s to the   *)
(* fblocks afterwards; f is the fblock, e the outcomes.                     *)
NewFblock(file) ==
    [file |-> file, filesize |-> 0, mapped |-> NotMapped, refd |-> FALSE,
     fd |-> FALSE, is_compressed |-> FALSE]

IsMapped(s, f) == s[f].mapped # NotMapped

Close(s, f) == [s EXCEPT ![f].fd = FALSE]

(* A buffer that refers to the mapping is invalid from here on.             *)
Unmap(s, f) == [s EXCEPT ![f].mapped = NotMapped, ![f].refd = FALSE]

(* mmap refuses to map nothing. *)
SetMap(s, f, ok) ==
    IF ok /\ s[f].filesize > 0
    THEN [Unmap(s, f) EXCEPT ![f].mapped = s[f].filesize]
    ELSE Unmap(s, f)

(* Mutant: the mapping keeps its old length.                                *)
KeepMap(s, f, ok) == s

(* mremap may move the mapping; the caller unmaps when it fails.            *)
ReMapIfNecessary(s, f, ok) ==
    IF s[f].mapped \in {NotMapped, s[f].filesize} THEN s ELSE SetMap(s, f, ok)

CloseSome(s, e) ==
    LET open == {i \in DOMAIN e.order : s[e.order[i]].fd}
    IN  IF open = {} THEN s ELSE Close(s, e.order[Plan!FirstOf(open, 0)])

OpenFiles(s) == {g \in DOMAIN s : s[g].fd}

EnsureOpen(s, f, e) ==
    LET full == Cardinality(OpenFiles(s)) >= MaxOpen
    IN  IF s[f].fd THEN s
        ELSE [(IF full THEN CloseSome(s, e) ELSE s) EXCEPT ![f].fd = TRUE]

Stored(s, f) == SubSeq(s[f].file, 1, s[f].filesize)

Raw(s, f) ==
    IF s[f].is_compressed THEN LZMADeCompress(Stored(s, f)) ELSE Stored(s, f)

(* Mutant: the mapping is used also when the file is too short for it.      *)
AlwaysEnough(s, f, length) == length > 0

(* There is enough backing storage for a mapping of the new contents.       *)
EnoughStorage(s, f, length) == s[f].filesize >= length

CloseIfMapped(s, f) == IF IsMapped(s, f) THEN Close(s, f) ELSE s

Resized(s, f, n) == [s EXCEPT ![f].filesize = n]

WriteContent(s, f, data) ==
    CloseIfMapped([s EXCEPT ![f].file =
        Truncated(IF IsMapped(s, f) THEN CopyToMap(@, data) ELSE Pwrite(@, data, 0),
                  Len(data))], f)

SetFileContent(s, f, data, e) ==
    WriteContent(SetMap(Resized(EnsureOpen(Unmap(s, f), f, e), f, Len(data)), f,
                        e.write /\ EnoughStorage(s, f, Len(data))), f, data)

Decompress(s, f, e) ==
    IF ~s[f].is_compressed THEN s
    ELSE [SetFileContent(IF IsMapped(s, f) THEN Unmap(s, f) ELSE EnsureOpen(s, f, e),
                         f, Raw(s, f), e)
            EXCEPT ![f].is_compressed = FALSE]

PutCompressed(s, f, data, e) ==
    SetFileContent([s EXCEPT ![f].is_compressed = TRUE], f, data, e)

(* Mutant: the file is mapped again although it is mapped.                  *)
MapAgain(s, f, ok, e) == CloseIfMapped(SetMap(EnsureOpen(s, f, e), f, ok), f)

(* EnsureMMapped(false). *)
MapAsIs(s, f, ok, e) ==
    IF IsMapped(s, f) THEN s
    ELSE CloseIfMapped(SetMap(EnsureOpen(s, f, e), f, ok), f)

EnsureMMapped(s, f, e) == MapAsIs(Decompress(s, f, e), f, e.map, e)

(* The part of `extent' bytes that a request gets, with unsigned sums.      *)
Window(offset, size, extent) ==
    LET from == Plan!Smaller(offset, extent)
        n    == IF (from + size) % WordSize > extent \/ size > extent
                THEN extent - from ELSE size
    IN  [from |-> IF n = 0 /\ n # size THEN 0 ELSE from, n |-> n]

(* A buffer with the window w of the raw bytes, by reference or as a copy.  *)
NewBuffer(s, ref, raw, w, size) ==
    [fb |-> s, ref |-> ref, from |-> w.from, n |-> w.n,
     data |-> IF ref THEN <<>> ELSE SubSeq(raw, w.from + 1, w.from + w.n),
     size |-> size]

FromFile(s, f, offset, size, e) ==
    NewBuffer(IF IsMapped(s, f) THEN s ELSE EnsureOpen(s, f, e), IsMapped(s, f),
              Stored(s, f), Window(offset, size, s[f].filesize), s[f].filesize)

FromMemory(s, raw, offset, size) ==
    NewBuffer(s, FALSE, raw, Window(offset, size, Len(raw)), Unset)

(* The branch of InitDataReadBuffer that decompresses without saving the    *)
(* result does not assign `size'.                                           *)
InitDataReadBuffer(s, f, offset, size, e) ==
    IF lookup \/ ~s[f].is_compressed
    THEN FromFile(EnsureMMapped(s, f, e), f, offset, size, e)
    ELSE FromMemory(EnsureOpen(s, f, e), Raw(s, f), offset, size)

All == WordSize - 1    \* ~(uint_fast32_t)0

(* Mutant: what is compressed already is compressed once more.              *)
CompressTwice(s, f, e) ==
    PutCompressed(EnsureOpen(s, f, e), f, LZMACompress(Stored(s, f)), e)

CompressBuffer(b, f, e) == PutCompressed(b.fb, f, LZMACompress(Stored(b.fb, f)), e)

Compress(s, f, e) ==
    IF s[f].is_compressed THEN s
    ELSE CompressBuffer(InitDataReadBuffer(s, f, 0, All, e), f, e)

(* Only what sticks out behind the end of the file is written.              *)
WriteAppended(s, f, base, data, e) ==
    [EnsureOpen(s, f, e) EXCEPT
        ![f].file = Pwrite(@, SubSeq(data, s[f].filesize - base + 1, Len(data)),
                           s[f].filesize),
        ![f].filesize = base + Len(data)]

AppendToRaw(s, f, base, data, e) ==
    IF base + Len(data) <= s[f].filesize THEN s
    ELSE ReMapIfNecessary(WriteAppended(s, f, base, data, e), f, e.map)

PutAppendedRaw(s, f, base, data, e) ==
    AppendToRaw(Decompress(s, f, e), f, base, data, e)

(* The loop of FreeSomeResources over the idle fblocks in F: Unmap, Close.  *)
Freed(s, F) ==
    [f \in DOMAIN s |-> IF f \in F THEN Close(Unmap(s, f), f)[f] ELSE s[f]]

-----------------------------------------------------------------------------
(* A file of an earlier mkcromfs with the same process id may still be      *)
(* there: it is opened without O_TRUNC.                                     *)
LeftOver == {<<>>, [i \in 1..FSIZE |-> Junk]}

Init ==
    /\ fb = <<>>
    /\ stored = <<>>
    /\ idle = {}
    /\ counter = RandomCompressPeriod
    /\ buffer = NoBuffer
    /\ pc = "plan"
    /\ done = {}
    /\ terminate_for = FALSE
    /\ image = <<>>
    /\ lookup \in BOOLEAN

(* Ten seconds pass for some of the fblocks. *)
TimePasses ==
    /\ pc # "end"
    /\ idle' \in {idle \cup s : s \in SUBSET DOMAIN fb}
    /\ UNCHANGED <<fb, stored, counter, buffer, pc, done, terminate_for, image,
                   lookup>>

(* mkcromfs_fblockset::operator[] makes the next fblock when it is asked    *)
(* for it.                                                                  *)
Reach(s, f, file) == IF f > Len(s) THEN Append(s, NewFblock(file)) ELSE s

(* Execute(WritePlan): the block agrees with the bytes it overlaps, or      *)
(* begins a new fblock.                                                     *)
ExecuteAppend ==
    /\ pc = "plan" /\ buffer = NoBuffer
    /\ \E f \in 1..Plan!Smaller(Len(fb) + 1, MaxFblocks), file \in LeftOver :
       LET old == IF f > Len(fb) THEN Append(stored, <<>>) ELSE stored
       IN  \E base \in 0..Len(old[f]),
              d \in UNION {[1..n -> Byte] : n \in 1..MaxAppend}, e \in Outcomes :
             /\ base + Len(d) <= FSIZE
             /\ Plan!Meets(old[f], base, d)
             /\ fb' = PutAppendedRaw(Reach(fb, f, file), f, base, d, e)
             /\ stored' = [old EXCEPT ![f] = Plan!PutAppendedRaw(@, base, d)]
             /\ idle' = idle \ {f}
    /\ pc' = "index"
    /\ UNCHANGED <<counter, buffer, done, terminate_for, image, lookup>>

(* Mutant: the counter is decremented also at zero.                         *)
CountDown(postpone) == IF counter = 0 /\ ~postpone THEN RandomCompressPeriod
                                                   ELSE counter - 1

(* The static counter; at zero it stays until a fblock could be compressed. *)
NextCounter(postpone) ==
    IF counter > 0 THEN counter - 1
    ELSE IF postpone THEN 0 ELSE RandomCompressPeriod

(* The places in the order of idle fblocks that may be compressed, when one *)
(* is to be.                                                                *)
Compressible(e) ==
    {i \in DOMAIN e.order : /\ counter = 0
                            /\ e.order[i] \in idle
                            /\ ~fb[e.order[i]].is_compressed}

(* The loop up to the i-th place, where it compresses.                      *)
CompressAt(i, e) ==
    Compress(Freed(fb, {e.order[j] : j \in 1..(i - 1)} \cap idle), e.order[i], e)

(* FreeSomeResources, at the end of Execute: the first idle fblock that is  *)
(* not compressed may be compressed, and all idle ones are freed.           *)
FreeSomeResources ==
    /\ pc = "index" /\ buffer = NoBuffer
    /\ \E e \in Outcomes :
          /\ fb' = Freed(IF Compressible(e) = {} THEN fb
                         ELSE CompressAt(Plan!FirstOf(Compressible(e), 0), e), idle)
          /\ counter' = NextCounter(Compressible(e) = {})
    /\ pc' = "plan"
    /\ UNCHANGED <<stored, idle, buffer, done, terminate_for, image, lookup>>

(* EnsureMMapped, for the candidates of CreateWritePlan. *)
MapCandidate ==
    /\ pc = "plan" /\ buffer = NoBuffer
    /\ \E f \in DOMAIN fb, e \in Outcomes :
          /\ fb' = EnsureMMapped(fb, f, e)
          /\ idle' = idle \ {f}
    /\ UNCHANGED <<stored, counter, buffer, pc, done, terminate_for, image, lookup>>

(* size(), which decompresses: PredictiveAutoIndex.                         *)
AskSize ==
    /\ pc \in {"plan", "index"} /\ buffer = NoBuffer
    /\ \E f \in DOMAIN fb, e \in Outcomes :
          /\ fb' = Decompress(fb, f, e)
          /\ idle' = idle \ {f}
    /\ UNCHANGED <<stored, counter, buffer, pc, done, terminate_for, image, lookup>>

(* The bytes a buffer shows.                                                *)
Seen(s, f, b) ==
    IF b.ref THEN SubSeq(s[f].file, b.from + 1, b.from + b.n) ELSE b.data

(* A reader gets a buffer: FindOverlap, TestAutoIndexMatch, AutoIndex.      *)
Read ==
    /\ pc \in {"plan", "index"} /\ buffer = NoBuffer
    /\ \E f \in DOMAIN fb, q \in Requests, e \in Outcomes :
       \E r \in {InitDataReadBuffer(fb, f, q[1], q[2], e)} :
          /\ fb' = IF r.ref THEN [r.fb EXCEPT ![f].refd = TRUE] ELSE r.fb
          /\ buffer' = [f |-> f, offset |-> q[1], request |-> q[2],
                        ref |-> r.ref, from |-> r.from, n |-> r.n,
                        data |-> r.data, size |-> r.size]
          /\ idle' = idle \ {f}
    /\ UNCHANGED <<stored, counter, pc, done, terminate_for, image, lookup>>

(* While AutoIndex and FindOverlap use their buffer, TryAutoIndex and other *)
(* threads read any fblock (TestAutoIndexMatch).                            *)
ReadAnother ==
    /\ buffer # NoBuffer
    /\ \E f \in DOMAIN fb, e \in Outcomes :
          /\ fb' = InitDataReadBuffer(fb, f, 0, All, e).fb
          /\ idle' = idle \ {f}
    /\ UNCHANGED <<stored, counter, buffer, pc, done, terminate_for, image, lookup>>

Release ==
    /\ buffer # NoBuffer
    /\ buffer' = NoBuffer
    /\ fb' = [fb EXCEPT ![buffer.f].refd = FALSE]
    /\ UNCHANGED <<stored, idle, counter, pc, done, terminate_for, image, lookup>>

-----------------------------------------------------------------------------
(* CreateAndWriteFs begins to write the fblocks. *)
BeginWriting ==
    /\ pc = "plan" /\ buffer = NoBuffer
    /\ pc' = "final"
    /\ UNCHANGED <<fb, stored, idle, counter, buffer, done, terminate_for, image,
                   lookup>>

Alive == \A f \in DOMAIN image : image[f].ok

(* FinalCompressFblock, in any order: compresses as many bytes of the       *)
(* buffer as its variable fblock_rawlength says.  When that was not         *)
(* assigned it is anything; beyond the buffer there is junk.                *)
FinalCompressFblock ==
    /\ pc = "final" /\ Alive /\ ~terminate_for
    /\ \E f \in DOMAIN fb \ done, e \in Outcomes :
       \E r \in {InitDataReadBuffer(fb, f, 0, All, e)} :
       \E fblock_rawlength \in IF r.size = Unset THEN 0..FSIZE ELSE {r.size} :
          /\ fb' = PutCompressed(r.fb, f,
                      LZMACompress(Truncated(Seen(r.fb, f, r), fblock_rawlength)), e)
          /\ idle' = idle \ {f}
          /\ done' = done \cup {f}
    /\ UNCHANGED <<stored, counter, buffer, pc, terminate_for, image, lookup>>

(* InitCompressedDataReadBuffer: the fblocks afterwards, and whether the    *)
(* buffer it returns is one.  Of a compressed fblock that cannot be mapped  *)
(* it returns the address of the failed mapping.                            *)
InitCompressedDataReadBuffer(s, f, again, e) ==
    LET After(m) == [fb |-> m, ok |-> IsMapped(m, f) \/ ~s[f].is_compressed]
    IN  After(MapAsIs(Compress(s, f, e), f, again, e))

(* The ordered section: fblock after fblock is written to the image.        *)
WriteFblock ==
    LET f == Len(image) + 1
    IN  /\ pc = "final" /\ Alive
        /\ f \in DOMAIN fb
        /\ f \in done \/ terminate_for
        /\ \E e \in Outcomes, again \in BOOLEAN :
           \E r \in {InitCompressedDataReadBuffer(fb, f, again, e)} :
              /\ fb' = r.fb
              /\ image' = Append(image, [ok |-> r.ok, data |-> LZMADeCompress(Stored(r.fb, f))])
              /\ terminate_for' = (terminate_for \/ (SparseFblocks /\ r.fb[f].filesize > FSIZE))
        /\ UNCHANGED <<stored, idle, counter, buffer, pc, done, lookup>>

(* The destructors: Delete unlinks the files.                               *)
DeleteAll ==
    /\ pc = "final" /\ Alive /\ Len(image) = Len(fb)
    /\ pc' = "end"
    /\ fb' = <<>>
    /\ idle' = {}
    /\ UNCHANGED <<stored, counter, buffer, done, terminate_for, image, lookup>>

Next ==
    \/ TimePasses \/ ExecuteAppend \/ FreeSomeResources
    \/ MapCandidate \/ AskSize \/ Read \/ ReadAnother \/ Release
    \/ BeginWriting \/ FinalCompressFblock \/ WriteFblock \/ DeleteAll

Spec == Init /\ [][Next]_vars

-----------------------------------------------------------------------------
(* The bytes that a request for `size' bytes at `offset' asks for.          *)
Wanted(f, offset, size) ==
    SubSeq(stored[f], offset + 1, Plan!Smaller(offset + size, Len(stored[f])))

(* The descriptors, sizes and flags of fblocks are of their types, and at   *)
(* most MaxOpen files are open.                                             *)
TypeOK ==
    /\ Len(fb) \in 0..MaxFblocks
    /\ \A f \in DOMAIN fb :
          /\ fb[f].filesize \in Nat /\ fb[f].mapped \in Nat \cup {NotMapped}
          /\ fb[f].fd \in BOOLEAN /\ fb[f].is_compressed \in BOOLEAN
    /\ Cardinality(OpenFiles(fb)) <= MaxOpen
    /\ idle \subseteq DOMAIN fb
    /\ counter \in 0..RandomCompressPeriod
    /\ pc \in {"plan", "index", "final", "end"}
    /\ Len(image) <= MaxFblocks

(* However appends, lookups, FreeSomeResources and a shortage of            *)
(* descriptors or of address space follow one another, the file of a fblock *)
(* amounts to the bytes that Blockifier put into it.  (In the final         *)
(* compression only with --decompresslookups, see ImageFaithful.)           *)
ContentsKept ==
    pc \in {"plan", "index"} \/ lookup =>
        \A f \in DOMAIN fb : Raw(fb, f) = stored[f]

(* A mapping that InitDataReadBuffer and SetFileContent use ends where the  *)
(* fblock ends and is backed by the file to its last byte.                  *)
MappingCovers ==
    \A f \in DOMAIN fb :
        IsMapped(fb, f) => /\ fb[f].mapped = fb[f].filesize
                           /\ fb[f].filesize <= Len(fb[f].file)

(* As long as a reader uses its buffer, the buffer has the bytes that were  *)
(* asked for, whatever InitDataReadBuffer is called for meanwhile: what it  *)
(* refers to is not unmapped, moved or compressed.  If the size of the      *)
(* fblock was told, it is right.                                            *)
BufferFaithful ==
    buffer # NoBuffer =>
        /\ Wanted(buffer.f, buffer.offset, buffer.request) =
             Seen(fb, buffer.f, buffer)
        /\ buffer.ref => fb[buffer.f].refd
        /\ buffer.size \in {Unset, Len(stored[buffer.f])}

(* Temporary compression only saves disk space: every fblock is written to  *)
(* the image with the bytes that were put into it, if it is written at all. *)
ImageFaithful ==
    \A f \in DOMAIN image : image[f].ok => image[f].data = stored[f]

(* With --decompresslookups ImageFaithful holds.                            *)
ImageFaithfulWithLookup == lookup => ImageFaithful

(* No reader meets memory that is not the fblock's: neither its own buffer  *)
(* nor the mapping that the next buffer will point into.                    *)
BuffersValid == MappingCovers /\ BufferFaithful
=============================================================================
