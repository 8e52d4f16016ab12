------------------------------- MODULE Format -------------------------------
(***************************************************************************)
(* The format of a cromfs image, as the functions that mkcromfs writes it  *)
(* with and the functions that the readers read it with: directories       *)
(* (lib/cromfs-directoryfun.cc), inodes (lib/cromfs-inodefun.cc), the      *)
(* block table (lib/cromfs-blockfun.hh) and the superblock                 *)
(* (cromfs-defs.hh).                                                       *)
(*                                                                         *)
(* Sizes and offsets are those of the format.  A field of n bytes holds    *)
(* values below Radix^n (256^n in the code).  A name is a number: names    *)
(* are ordered by it, and NameSize gives their length.                     *)
(***************************************************************************)
EXTENDS Integers, Sequences, FiniteSets, SequencesExt

CONSTANTS
    Radix,          \* values of a byte
    FSIZE,          \* raw size of a fblock
    NameSize(_)     \* bytes of a name, without the nul

ASSUME FormatAssumption == Radix \in Nat \ {0, 1} /\ FSIZE \in Nat \ {0}

Increasing(S) == SetToSortSeq(S, LAMBDA x, y : x < y)

\* A field of n bytes.
put_n(x, n) == x % (Radix ^ n)

CalcSizeInBlocks(filesize, bsize) == (filesize + bsize - 1) \div bsize

-----------------------------------------------------------------------------
(* storage_opts: the bytes of a block number, packed locators, block sizes   *)
(* in the inodes.                                                            *)

INODE_HEADER_SIZE(opts) == 24 + (IF opts.variable THEN 4 ELSE 0)

INODE_SIZE_BYTES(opts, nblocks) == INODE_HEADER_SIZE(opts) + opts.numsize * nblocks

RoundUp4(n) == ((n + 3) \div 4) * 4

GetInodeOffset(inonum) == (inonum - 2) * 4

get_first_free_inode_number(inotab_size) == (inotab_size + 3) \div 4 + 2

-----------------------------------------------------------------------------
(* Directories: functions from names to inode numbers.                       *)

\* The bytes counted one by one: four for the number of entries, and for each
\* its offset, its inode number and its name with a nul.
calc_encoded_directory_size(dir) ==
    4 + Cardinality(UNION {{n} \X (1 .. 4 + 8 + NameSize(n) + 1) : n \in DOMAIN dir})

\* cromfs_dirinfo is a map, so its names come in order.
NamesInOrder(dir) == Increasing(DOMAIN dir)

\* The bytes of a directory: the count, the pointers, and the entries at the
\* offsets the pointers have.
encode_directory(dir) ==
    LET names == NamesInOrder(dir)
        n     == Len(names)
        offs[i \in 1 .. n + 1] ==
            IF i = 1 THEN 4 + 4 * n
                     ELSE offs[i - 1] + 8 + NameSize(names[i - 1]) + 1
    IN  [count |-> n,
         index |-> [i \in 1 .. n |-> offs[i]],
         entry |-> [o \in {offs[i] : i \in 1 .. n} |->
                        LET i == CHOOSE j \in 1 .. n : offs[j] = o
                        IN  [name |-> names[i], ino |-> dir[names[i]]]],
         size  |-> offs[n + 1]]

-----------------------------------------------------------------------------
(* Inodes.  The time is left out.                                            *)

IsDevice(mode) == mode = "chr"

RdevLinks(inode) == IF IsDevice(inode.mode) THEN inode.rdev ELSE inode.links

put_inode(inode, opts) ==
    [mode       |-> inode.mode,
     rdev_links |-> RdevLinks(inode),
     uid        |-> put_n(inode.uid, 2),
     bytesize   |-> inode.bytesize,
     blocksize  |-> IF opts.variable THEN inode.blocksize ELSE 0,
     blocks     |-> [i \in DOMAIN inode.blocklist |->
                        put_n(inode.blocklist[i], opts.numsize)],
     as         |-> opts]

\* What read_inode returns, and get_inode without the blocks.
get_inode_header(raw, opts, bsize) ==
    [mode      |-> raw.mode,
     links     |-> IF IsDevice(raw.mode) THEN 1 ELSE raw.rdev_links,
     rdev      |-> IF IsDevice(raw.mode) THEN raw.rdev_links ELSE 0,
     uid       |-> raw.uid,
     bytesize  |-> raw.bytesize,
     blocksize |-> IF opts.variable THEN raw.blocksize ELSE bsize]

\* The bytes of the block list, read with other options than they were
\* written with, are other numbers.
SameLayout(o1, o2) == o1.numsize = o2.numsize /\ o1.variable = o2.variable

OtherNumber == Radix ^ 4

\* The block list has as many elements as the size and the block size give.
get_inode_blocks(raw, opts, bsize) ==
    LET h == get_inode_header(raw, opts, bsize)
    IN  [i \in 1 .. CalcSizeInBlocks(h.bytesize, h.blocksize) |->
            IF i \in DOMAIN raw.blocks /\ SameLayout(raw.as, opts)
            THEN raw.blocks[i] ELSE OtherNumber]

\* Called so many times for the inode.
increment_inode_linkcount(raw, times) ==
    IF IsDevice(raw.mode) THEN raw ELSE [raw EXCEPT !.rdev_links = @ + times]

-----------------------------------------------------------------------------
(* Data locators.                                                            *)

EncodeLocator(loc, opts) ==
    IF opts.packed
    THEN <<put_n(loc.fblocknum * FSIZE + loc.startoffs, 4)>>
    ELSE <<put_n(loc.fblocknum, 4), put_n(loc.startoffs, 4)>>

DecodeLocator(raw, opts) ==
    IF opts.packed
    THEN [fblocknum |-> raw[1] \div FSIZE, startoffs |-> raw[1] % FSIZE]
    ELSE [fblocknum |-> raw[1], startoffs |-> raw[2]]

\* EnablePackedBlocksIfPossible: MinimumBsize is 1.
PackingPossible(nfblocks) == (FSIZE - 1) * nfblocks < Radix ^ 4

-----------------------------------------------------------------------------
(* The superblock.                                                           *)

SetOffsets(sb) ==
    LET extended == \/ sb.rootdir_size # sb.rootdir_room
                    \/ sb.inotab_size # sb.inotab_room
                    \/ sb.blktab_size # sb.blktab_room
        head     == IF extended THEN 80 ELSE 56
    IN  [sb EXCEPT !.rootdir_offs = head,
                   !.inotab_offs  = head + sb.rootdir_room,
                   !.blktab_offs  = head + sb.rootdir_room + sb.inotab_room,
                   !.fblktab_offs = head + sb.rootdir_room + sb.inotab_room
                                         + sb.blktab_room]

\* GetSize(sparse_mode): the old versions have only the short one.
GetSize(sig, long) == IF sig < 3 \/ ~long THEN 56 ELSE 80

HasSizes(sig, rootdir_offs) == GetSize(sig, rootdir_offs >= 80) >= 80

\* The words of the superblock; the sizes reach the file only in a long one.
WriteToBuffer(sb) ==
    [sig   |-> sb.sig,
     offs  |-> <<sb.blktab_offs, sb.fblktab_offs, sb.inotab_offs, sb.rootdir_offs>>,
     fsize |-> sb.fsize, bsize |-> sb.bsize, bytes |-> sb.bytes_of_files,
     sizes |-> IF GetSize(sb.sig, sb.rootdir_offs >= 80) >= 80
               THEN <<sb.rootdir_size, sb.inotab_size, sb.blktab_size>> ELSE <<>>]

\* ReadFromBuffer with RecalcRoom: without sizes, a region fills its room.
ReadFromBuffer(buf) ==
    LET room == <<buf.offs[3] - buf.offs[4], buf.offs[1] - buf.offs[3],
                  buf.offs[2] - buf.offs[1]>>
        size == IF HasSizes(buf.sig, buf.offs[4]) THEN buf.sizes ELSE room
    IN  [sig          |-> buf.sig,
         blktab_offs  |-> buf.offs[1], fblktab_offs |-> buf.offs[2],
         inotab_offs  |-> buf.offs[3], rootdir_offs |-> buf.offs[4],
         rootdir_room |-> room[1], inotab_room |-> room[2], blktab_room |-> room[3],
         rootdir_size |-> size[1], inotab_size |-> size[2], blktab_size |-> size[3],
         fsize |-> buf.fsize, bsize |-> buf.bsize, bytes_of_files |-> buf.bytes]
=============================================================================
