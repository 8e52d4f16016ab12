----------------------------- MODULE MmapVector -----------------------------
(***************************************************************************)
(* mmap_vector and mmap_storage (lib/mmap_vector.hh, mmapping.hh): arrays  *)
(* whose memory is mapped from the output file, and their two uses in      *)
(* CreateAndWriteFs of mkcromfs: the inode table, whose inodes are written *)
(* through pointers that are kept until all blocks are known, and the list *)
(* of blocks, which grows meanwhile.                                       *)
(*                                                                         *)
(* An item has size one.  mmap and mremap (external) may fail; the vector  *)
(* then goes on with memory of its own.                                    *)
(***************************************************************************)
EXTENDS Integers, Sequences, FiniteSets, SequencesExt, FiniteSetsExt

CONSTANTS
    PageSize,      \* MMAP_PAGESIZE
    ZeroBlockSize, \* blocksize of EnsureZeroUntil
    InotabSizes,   \* sizes of the inode table
    BlockCounts    \* numbers of blocks: <<of the files, of the inode table>>

ASSUME MmapAssumption ==
    /\ PageSize \in Nat \ {0} /\ ZeroBlockSize \in Nat \ {0}
    /\ InotabSizes \subseteq Nat \ {0} /\ BlockCounts \subseteq Nat \X Nat

VARIABLES
    store,      \* the storage: [alloc_cap, zero_cap, cells], cells the file's contents
    vector,     \* "inotab" and "blocks" to [real, reported, lazy, data]
    phase,      \* what CreateAndWriteFs is doing
    counts,     \* the element of BlockCounts
    inodes,     \* indices of the inode table that are written and pointed to
    told        \* vector to what was written: what a plain array has

mmapVars == <<store, vector, phase, counts, inodes, told>>

RoundUp(n) == ((n + PageSize - 1) \div PageSize) * PageSize

EmptyVector == [real |-> 0, reported |-> 0, lazy |-> 0, data |-> <<>>]

MmapInit ==
    /\ store = [alloc_cap |-> 0, zero_cap |-> 0, cells |-> <<>>]
    /\ vector = [inotab |-> EmptyVector, blocks |-> EmptyVector]
    /\ phase = "walk" /\ counts \in BlockCounts /\ inodes = {}
    /\ told = [inotab |-> <<>>, blocks |-> <<>>]

MmapIdle ==
    /\ store = [alloc_cap |-> 0, zero_cap |-> 0, cells |-> <<>>]
    /\ vector = [inotab |-> EmptyVector, blocks |-> EmptyVector]
    /\ phase = "done" /\ counts = <<0, 0>> /\ inodes = {}
    /\ told = [inotab |-> <<>>, blocks |-> <<>>]

-----------------------------------------------------------------------------
(* mmap_storage.                                                             *)

\* Mutant: whole blocks only, without a last one that is more than is needed.
ZeroBelow(s, cap) ==
    LET n == IF cap <= s.zero_cap THEN 0 ELSE (cap - s.zero_cap) \div ZeroBlockSize
        z == s.zero_cap + n * ZeroBlockSize
    IN  [s EXCEPT !.zero_cap = z,
                  !.cells = [p \in 0 .. z - 1 |-> IF p < s.zero_cap THEN @[p] ELSE 0]]

\* Zeros, in whole blocks, from zero_cap until it is beyond the cap.
EnsureZeroUntil(s, cap) ==
    LET n == IF cap <= s.zero_cap THEN 0
             ELSE (cap - s.zero_cap + ZeroBlockSize - 1) \div ZeroBlockSize
        z == s.zero_cap + n * ZeroBlockSize
    IN  [s EXCEPT !.zero_cap = z,
                  !.cells = [p \in 0 .. z - 1 |-> IF p < s.zero_cap THEN @[p] ELSE 0]]

TryAllocExtend(s, offset, oldsize) == offset + oldsize = s.alloc_cap

\* Mutant: the room is not marked as taken.
NotTaken(s, cap) == EnsureZeroUntil(s, cap)

Extended(s, cap) == EnsureZeroUntil([s EXCEPT !.alloc_cap = cap], cap)

-----------------------------------------------------------------------------
(* mmap_vector_base.  A section is [offset, length, fileoffset, map, data]:  *)
(* data is its own memory, if it is not mapped.                              *)

Reserve(v, n) == IF n < v.lazy THEN v ELSE [v EXCEPT !.lazy = RoundUp(n)]

VectorResize(v, n) ==
    IF n < v.reported THEN v ELSE Reserve([v EXCEPT !.reported = n], n)

Zeros(n) == [i \in 1 .. n |-> 0]

Content(s, x) ==
    IF x.map THEN [i \in 1 .. x.length |-> s.cells[x.fileoffset + i - 1]] ELSE x.data

\* The last section extends if nothing was allocated behind it.  A remapping
\* that fails copies it.
ExtendLast(s, v, works) ==
    LET x == Last(v.data)
        length == v.lazy - x.offset
        y == [x EXCEPT !.length = length, !.map = x.map /\ works,
                       !.data = IF x.map /\ works THEN <<>>
                                ELSE Content(s, x) \o Zeros(length - x.length)]
    IN  <<Extended(s, x.fileoffset + length),
          [v EXCEPT !.data = Append(Front(@), y), !.real = v.lazy]>>

AddSection(s, v, works) ==
    LET length == v.lazy - v.real
        start == RoundUp(s.alloc_cap)
        x == [offset |-> v.real, length |-> length, fileoffset |-> start, map |-> works,
              data |-> IF works THEN <<>> ELSE Zeros(length)]
    IN  <<Extended(s, start + length), [v EXCEPT !.data = Append(@, x), !.real = v.lazy]>>

\* The storage and the vector after EnsureRealSizeMatchesReportedSize.
EnsureReal(s, v, works) ==
    IF v.lazy <= v.real THEN <<s, v>>
    ELSE IF v.data # <<>> /\ TryAllocExtend(s, Last(v.data).fileoffset, Last(v.data).length)
    THEN ExtendLast(s, v, works)
    ELSE AddSection(s, v, works)

\* The section that GetRef takes: the last that begins before the offset, unless
\* it is the offset of the first.
SectionOf(v, offset) ==
    IF offset = v.data[1].offset THEN 1
    ELSE Max({1} \cup {i \in DOMAIN v.data : v.data[i].offset < offset})

\* An item is stored through the reference.
StoredAt(s, v, i, val) ==
    LET k == SectionOf(v, i)
        x == v.data[k]
    IN  IF x.map
        THEN <<[s EXCEPT !.cells[x.fileoffset + i - x.offset] = val], v>>
        ELSE <<s, [v EXCEPT !.data[k].data[i - x.offset + 1] = val]>>

\* The section whose copy has the item.
HolderOf(v, offset) == Max({k \in DOMAIN v.data : v.data[k].offset <= offset})

\* What an array of the items gives: each section is copied to its offset.
Items(s, v) ==
    [i \in 1 .. v.real |-> LET x == v.data[HolderOf(v, i - 1)] IN Content(s, x)[i - x.offset]]

-----------------------------------------------------------------------------
(* CreateAndWriteFs.                                                         *)

Store(name, sv, i, val) ==
    /\ store' = sv[1]
    /\ vector' = [vector EXCEPT ![name] = sv[2]]
    /\ told' = [told EXCEPT ![name] = [k \in 1 .. Max({Len(@), i + 1}) |->
                                          IF k = i + 1 THEN val ELSE IF k <= Len(@) THEN @[k] ELSE 0]]

\* Mutant: the table grows with the directories.
SizeAgain ==
    /\ phase = "walk"
    /\ \E n \in InotabSizes : vector' = [vector EXCEPT !.inotab = VectorResize(@, n)]
    /\ UNCHANGED <<store, phase, counts, inodes, told>>

\* WalkRootDir knows how large the inode table is.
SizeInotab ==
    /\ phase = "walk" /\ vector.inotab.reported = 0
    /\ \E n \in InotabSizes : vector' = [vector EXCEPT !.inotab = VectorResize(@, n)]
    /\ UNCHANGED <<store, phase, counts, inodes, told>>

\* put_inode, and a pointer to the inode's block list for the blockifier.
PutInode ==
    /\ phase = "walk"
    /\ \E i \in 0 .. vector.inotab.reported - 1, works \in BOOLEAN :
       \E sv \in {EnsureReal(store, vector.inotab, works)} :
          /\ \A j \in inodes : j < i
          /\ \E to \in {StoredAt(sv[1], sv[2], i, 1)} : Store("inotab", to, i, 1)
          /\ inodes' = inodes \cup {i}
    /\ UNCHANGED <<phase, counts>>

\* FlushBlockifyRequests: room for the blocks that it counted.
ReserveBlocks(this, next, n) ==
    /\ phase = this
    /\ vector' = [vector EXCEPT !.blocks = Reserve(@, @.reported + n)]
    /\ phase' = next
    /\ UNCHANGED <<store, counts, inodes, told>>

BeginFiles == vector.inotab.real > 0 /\ ReserveBlocks("walk", "files", counts[1])

push_back(this, last) ==
    /\ phase = this /\ vector.blocks.reported < last
    /\ \E works \in BOOLEAN, i \in {vector.blocks.reported} :
       \E sv \in {EnsureReal(store, VectorResize(vector.blocks, i + 1), works)} :
       \E to \in {StoredAt(sv[1], sv[2], i, i + 2)} : Store("blocks", to, i, i + 2)
    /\ UNCHANGED <<phase, counts, inodes>>

PushFileBlock == push_back("files", counts[1])
PushInotabBlock == push_back("inotab", counts[1] + counts[2])

\* A block number goes through the pointer into the inode table.
StoreBlockNumber ==
    /\ phase = "files"
    /\ \E i \in inodes : \E to \in {StoredAt(store, vector.inotab, i, 2)} : Store("inotab", to, i, 2)
    /\ UNCHANGED <<phase, counts, inodes>>

\* One section with memory of its own is left.
Released(s, v) ==
    LET n == v.reported
    IN  [real |-> n, reported |-> n, lazy |-> n,
         data |-> <<[offset |-> 0, length |-> n, fileoffset |-> v.data[1].fileoffset, map |-> FALSE,
                     data |-> SubSeq(Items(s, v), 1, n)]>>]

GetAndRelease ==
    /\ phase = "files" /\ vector.blocks.reported = counts[1]
    /\ vector' = [vector EXCEPT !.inotab = Released(store, @)]
    /\ phase' = "released"
    /\ UNCHANGED <<store, counts, inodes, told>>

BeginInotab == ReserveBlocks("released", "inotab", counts[2])

MmapDone ==
    /\ \/ phase = "done"
       \/ phase = "inotab" /\ vector.blocks.reported = counts[1] + counts[2]
    /\ UNCHANGED mmapVars

MmapNext ==
    \/ SizeInotab \/ PutInode \/ BeginFiles \/ PushFileBlock \/ StoreBlockNumber
    \/ GetAndRelease \/ BeginInotab \/ PushInotabBlock
    \/ MmapDone

-----------------------------------------------------------------------------
(* Properties.                                                               *)

\* A vector is the array that its user believes it to be: no growth, failed
\* mapping or write to the other vector changes an item.
VectorsKeepItems ==
    \A name \in {"inotab", "blocks"} :
       told[name] = SubSeq(Items(store, vector[name]), 1, Len(told[name]))

\* Mapped memory is backed by zeros that were written: touching it beyond the
\* end of the file would be a bus error.
MappedIsBacked ==
    \A name \in {"inotab", "blocks"} : \A k \in DOMAIN vector[name].data :
       LET x == vector[name].data[k]
       IN  x.map => x.fileoffset + x.length <= store.zero_cap

\* The memory of the inode table, as far as pointers to it are concerned.
Placed == [k \in DOMAIN vector.inotab.data |->
              <<vector.inotab.data[k].map, vector.inotab.data[k].length>>]

Pointed == inodes # {} /\ phase \in {"walk", "files"}

\* Once the blockifier has a pointer into the inode table, the memory of the
\* table neither moves nor is replaced until all blocks of the files are known.
PointersStay == [][(Pointed /\ Pointed') => Placed' = Placed]_mmapVars

\* The two vectors in one backing file keep their items and touch only what the
\* file backs, through growth, failed mappings and the filling with zeros.
VectorsFaithful == MappedIsBacked /\ VectorsKeepItems
=============================================================================
