------------------------------- MODULE Cromfs -------------------------------
(***************************************************************************)
(* The class cromfs (cromfs.cc), with which the driver and unmkcromfs read *)
(* an image: the superblock, the two special inodes and the tables, the    *)
(* inodes, the directories and the lookup of a name.  Everything here is a *)
(* function of what was read; the modules that use the class have its      *)
(* state.  How read_file_data collects the bytes is the module ReadFile's. *)
(*                                                                         *)
(* Data is a tuple of a kind and a value; data whose blocks do not belong  *)
(* together is Garbage.                                                    *)
(***************************************************************************)
EXTENDS Format, FiniteSetsExt

Garbage == <<"garbage", 0>>

GarbageInode == [mode |-> "garbage", links |-> 0, rdev |-> 0, uid |-> 0, bytesize |-> 0,
                 blocksize |-> 1, blocklist |-> <<>>]

get_inode(raw, opts, bsize) ==
    get_inode_header(raw, opts, bsize) @@ [blocklist |-> get_inode_blocks(raw, opts, bsize)]

-----------------------------------------------------------------------------
(* reread_superblock and what it calls.                                      *)

\* The inotab inode is read again with the options its header has.  The old
\* versions have no options.
NoOptions == [numsize |-> 4, packed |-> FALSE, variable |-> FALSE]

StorageOpts(img, sb) == IF sb.sig < 3 THEN NoOptions ELSE img.inotab.opts

\* The special inodes of version 1 are not compressed.
Readable(img, sb) == img.lzma = (sb.sig # 1)

read_inotab(img, sb) ==
    IF Readable(img, sb) THEN get_inode(img.inotab.raw, StorageOpts(img, sb), sb.bsize)
    ELSE GarbageInode

read_rootdir(img, opts, sb) ==
    IF Readable(img, sb) THEN get_inode(img.rootdir, opts, sb.bsize) ELSE GarbageInode

DecodeBlockTable(img, opts) == [b \in DOMAIN img.blktab |-> DecodeLocator(img.blktab[b], opts)]

\* The fblocks one after another until the end of the file, each behind the
\* four bytes of its length.
reread_fblktab(img, sb) ==
    LET n   == Len(img.fblocks)
        pos[k \in 0 .. n] == IF k = 0 THEN sb.fblktab_offs
                             ELSE pos[k - 1] + 4 + img.fblocks[k]
        eof == pos[n]
    IN  [k \in 1 .. Cardinality({j \in 0 .. n - 1 : pos[j] + 17 < eof}) |->
            [filepos |-> pos[k - 1] + 4, length |-> img.fblocks[k]]]

-----------------------------------------------------------------------------
(* read_file_data, seen from outside.  fs is what the object has read.       *)

\* A block, as the content it belongs to and its number in it.
PieceAt(fs, num) ==
    IF num + 1 \notin DOMAIN fs.blktab THEN <<0, 0>>
    ELSE LET loc == fs.blktab[num + 1]
         IN  IF loc.fblocknum >= Len(fs.fblktab) \/ loc \notin DOMAIN fs.store THEN <<0, 0>>
             ELSE fs.store[loc]

\* The content that the blocks first .. last of an inode belong to.
DataBetween(fs, inode, first, last) ==
    LET p == PieceAt(fs, inode.blocklist[first])
    IN  IF \A k \in first .. last : PieceAt(fs, inode.blocklist[k]) = <<p[1], k>>
        THEN fs.contents[p[1]] ELSE Garbage

ReadData(fs, inode) ==
    IF inode.blocklist = <<>> THEN <<"empty", 0>>
    ELSE DataBetween(fs, inode, 1, Len(inode.blocklist))

\* The inode table between two of its bytes.
InotabAt(fs, offset, size) ==
    LET first == offset \div fs.inotab.blocksize + 1
        last  == (offset + size - 1) \div fs.inotab.blocksize + 1
    IN  IF last > Len(fs.inotab.blocklist) THEN Garbage
        ELSE DataBetween(fs, fs.inotab, first, last)

-----------------------------------------------------------------------------
(* Inodes.                                                                   *)

InodeOffset(ino) == GetInodeOffset(ino)

RawInode(fs, ino) ==
    LET o    == InodeOffset(ino)
        data == InotabAt(fs, o, INODE_HEADER_SIZE(fs.opts))
    IN  IF data[1] # "inotab" \/ o < 0 THEN GarbageInode
        ELSE IF o \notin DOMAIN data[2] THEN GarbageInode
        ELSE data[2][o]

read_inode(fs, ino) ==
    IF ino = 1 THEN fs.rootdir
    ELSE LET raw == RawInode(fs, ino)
         IN  IF raw.mode = "garbage" THEN GarbageInode
             ELSE get_inode_header(raw, fs.opts, fs.sb.bsize)

\* The block list is read in a second read, behind the header.
read_inode_and_blocks(fs, ino) ==
    IF ino = 1 THEN fs.rootdir
    ELSE LET raw == RawInode(fs, ino)
             n   == INODE_SIZE_BYTES(fs.opts, Len(get_inode_blocks(raw, fs.opts, fs.sb.bsize)))
         IN  IF raw.mode = "garbage" THEN GarbageInode
             ELSE IF InotabAt(fs, InodeOffset(ino), n) = Garbage THEN GarbageInode
             ELSE get_inode(raw, fs.opts, fs.sb.bsize)

-----------------------------------------------------------------------------
(* Directories.                                                              *)

\* The encoded directory of an inode, or the error that is thrown.
DirOf(fs, ino) ==
    LET inode == read_inode_and_blocks(fs, ino)
    IN  IF ino # 1 /\ inode.mode # "dir" THEN [err |-> "ENOTDIR"]
        ELSE IF inode.bytesize < 4 THEN [err |-> "EIO"]
        ELSE LET data == ReadData(fs, inode)
             IN  IF data[1] = "dir" THEN [err |-> "", enc |-> data[2]] ELSE [err |-> "EIO"]

\* Where the entries of a portion that begins with entry first and ends before
\* the byte end are looked for: behind the one before, with room for a name.
Placed(enc, first, i, end) ==
    /\ enc.index[i] >= enc.index[first]
    /\ enc.index[i] + 9 < end
    /\ i > first => enc.index[i] >= enc.index[i - 1]

\* The end of entry i: where the next one begins, or the directory ends.
EntryEnd(enc, i) == IF i = enc.count THEN enc.size ELSE enc.index[i + 1]

\* Entries offset+1 .. offset+count of a directory, as a function of the names.
Entries(enc, offset, count) ==
    LET some == {i \in 1 .. enc.count : i > offset /\ i <= offset + count}
    IN  [x \in {enc.entry[enc.index[i]].name : i \in some} |->
            (CHOOSE e \in {enc.entry[enc.index[i]] : i \in some} : e.name = x).ino]

read_dir(fs, ino, offset, count) ==
    LET d    == DirOf(fs, ino)
        last == Min({offset + count, d.enc.count})
    IN  IF d.err # "" THEN d
        ELSE IF \E i \in offset + 1 .. last : ~Placed(d.enc, offset + 1, i, EntryEnd(d.enc, last))
        THEN [err |-> "EIO"]
        ELSE [err |-> "", info |-> Entries(d.enc, offset, count)]

\* get_dirinfo_portion: the same entries of a directory that is in the cache.
get_dirinfo_portion(info, offset, count) ==
    LET names == NamesInOrder(info)
    IN  [x \in {names[i] : i \in {j \in DOMAIN names : j > offset /\ j <= offset + count}} |->
            info[x]]

\* Mutant: the upper half begins with the middle's next but one.
SkipOne(first, half) == first + half + 2

NextFirst(first, half) == first + half + 1

\* An entry that is too short or reaches beyond the directory.
BadEntry(enc, i) == enc.index[i] + 9 >= EntryEnd(enc, i) \/ EntryEnd(enc, i) > enc.size

\* The binary search reads the pointers it needs: a number, or an error.
Search(enc, name) ==
    LET find[first \in 0 .. enc.count + 2, len \in 0 .. enc.count] ==
            IF len = 0 \/ first >= enc.count THEN [err |-> "", ino |-> 0]
            ELSE LET half == len \div 2
                     e    == enc.entry[enc.index[first + half + 1]]
                 IN  IF BadEntry(enc, first + half + 1) THEN [err |-> "EIO"]
                     ELSE IF e.name = name THEN [err |-> "", ino |-> e.ino]
                     ELSE IF name > e.name THEN find[NextFirst(first, half), len - half - 1]
                     ELSE find[first, half]
    IN  find[0, enc.count]

\* A directory that is in the cache is searched there.
dir_lookup(fs, cache, ino, name) ==
    IF ino \in DOMAIN cache
    THEN [err |-> "", ino |-> IF name \in DOMAIN cache[ino] THEN cache[ino][name] ELSE 0]
    ELSE LET d == DirOf(fs, ino) IN IF d.err # "" THEN d ELSE Search(d.enc, name)
=============================================================================
