------------------------------- MODULE Driver -------------------------------
(***************************************************************************)
(* The driver over the image that mkcromfs made: the mounting, with the    *)
(* three OpenMP sections of reread_superblock in any order, and the        *)
(* operations of fuse-ops.cc, which fuse_session_loop calls one at a time. *)
(* The directory cache is bounded; its victims are arbitrary, because its  *)
(* ages have the resolution of a second.                                   *)
(*                                                                         *)
(* The kernel is external: it asks for inode numbers that it was told of,  *)
(* and it goes on with a listing at the offset of the last entry it got.   *)
(***************************************************************************)
EXTENDS MakeFs, Cromfs

CONSTANTS
    Conversions,    \* uses of cvcromfs: [ver, packed, force]
    Handles,        \* directory handles of the kernel
    ReaddirSizes,   \* sizes of its buffers
    ReaddirMax,     \* READDIR_CACHE_MAX_SIZE
    Getuid          \* who runs the driver

ASSUME DriverAssumption == ReaddirMax \in Nat \ {0, 1}

VARIABLES
    converted,      \* cvcromfs: "no", "done", "complained"
    state,          \* "none", "sections", "mounted", "failed"
    sections,       \* sections of reread_superblock that are to run
    fs,             \* the cromfs object
    readdir_cache,  \* inode number to dirinfo
    handle,         \* handle to its directory, its offset, and what it has listed
    reply           \* the last request and the reply to it, with the nodes that
                    \* the inode numbers are

driverVars == <<converted, state, sections, fs, readdir_cache, handle, reply>>
vars == <<makeVars, driverVars>>

NoHandle == [ino |-> 0, off |-> 0, got |-> {}]

Init ==
    /\ MakeInit
    /\ converted = "no" /\ state = "none" /\ sections = {} /\ fs = <<>> /\ readdir_cache = <<>>
    /\ handle = [h \in Handles |-> NoHandle]
    /\ reply = [to |-> <<"nothing">>, is |-> <<"nothing">>]

-----------------------------------------------------------------------------
(* cvcromfs, between the making and the mounting; once is the bound.         *)

Cvcromfs(c) ==
    /\ phase = "made" /\ ~warned /\ state = "none" /\ converted = "no"
    /\ ~SameVer(image, c.ver, c.force)
    /\ image' = ConvertImage(image, c.ver, c.packed)
    /\ converted' = IF Complains(image, c.ver) THEN "complained" ELSE "done"
    /\ UNCHANGED <<tree, BSIZE_FOR, phase, opts, warned, bytes_of_files>>
    /\ UNCHANGED <<guessVars, walkVars, numberVars, inotab, sched, blocks>>
    /\ UNCHANGED <<state, sections, fs, readdir_cache, handle, reply>>

-----------------------------------------------------------------------------
(* Mounting.                                                                 *)

\* What is read before the sections: superblock, options, inotab.
Header(sb) ==
    [sb |-> sb, opts |-> StorageOpts(image, sb), inotab |-> read_inotab(image, sb),
     rootdir |-> GarbageInode, blktab |-> <<>>, fblktab |-> <<>>, store |-> image.store,
     contents |-> image.contents]

Initialize ==
    /\ phase = "made" /\ state = "none"
    /\ \E sb \in {ReadFromBuffer(image.sb)} :
          /\ fs' = Header(sb)
          /\ state' = IF sb.sig \in 1 .. 3 THEN "sections" ELSE "failed"
    /\ sections' = {"rootdir", "blktab", "fblktab"}
    /\ UNCHANGED <<makeVars, converted, readdir_cache, handle, reply>>

Running(s) == state = "sections" /\ s \in sections /\ sections' = sections \ {s}

SectionRootdir ==
    /\ Running("rootdir")
    /\ fs' = [fs EXCEPT !.rootdir = read_rootdir(image, fs.opts, fs.sb)]
    /\ UNCHANGED <<makeVars, converted, state, readdir_cache, handle, reply>>

\* This section also writes into the root inode, which the other one reads.
SectionBlktab ==
    /\ Running("blktab")
    /\ fs' = [fs EXCEPT !.rootdir.mode = "dir", !.rootdir.uid = 0,
                        !.rootdir.links = IF fs.sb.sig = 1 THEN 2 ELSE @,
                        !.blktab = DecodeBlockTable(image, fs.opts)]
    /\ UNCHANGED <<makeVars, converted, state, readdir_cache, handle, reply>>

SectionFblktab ==
    /\ Running("fblktab")
    /\ fs' = [fs EXCEPT !.fblktab = reread_fblktab(image, fs.sb)]
    /\ UNCHANGED <<makeVars, converted, state, readdir_cache, handle, reply>>

EndSections ==
    /\ state = "sections" /\ sections = {}
    /\ state' = IF fs.fblktab = <<>> THEN "failed" ELSE "mounted"
    /\ UNCHANGED <<makeVars, converted, sections, fs, readdir_cache, handle, reply>>

-----------------------------------------------------------------------------
(* The operations.                                                           *)

Answer(q, r) == reply' = [to |-> q, is |-> r] /\ UNCHANGED <<makeVars, converted, state, sections, fs>>

\* The inode numbers that the kernel can know of.
Inodes == {1} \cup {hardlink_map[n] : n \in DOMAIN hardlink_map}

\* The node of an inode number that the kernel has.
NodeOf(ino) ==
    IF ino = 1 THEN Root
    ELSE IF ino \in Inodes THEN CHOOSE n \in DOMAIN hardlink_map : hardlink_map[n] = ino
    ELSE "none"

stat_inode(i) == [mode |-> i.mode, links |-> i.links, rdev |-> i.rdev,
                  uid |-> IF i.uid = 0 THEN Getuid ELSE i.uid, size |-> i.bytesize]

\* The reply has the inode number 0 for a name that is not there.
cromfs_lookup(parent, name) ==
    /\ state = "mounted" /\ parent \in Inodes
    /\ \E found \in {dir_lookup(fs, readdir_cache, parent, name)} :
          Answer(<<"lookup", NodeOf(parent), name>>,
                 IF found.err # "" THEN <<"error", found.err>>
                 ELSE IF found.ino = 0 THEN <<"error", "ENOENT">>
                 ELSE <<"entry", NodeOf(found.ino), stat_inode(read_inode(fs, found.ino))>>)
    /\ UNCHANGED <<readdir_cache, handle>>

cromfs_getattr(ino) ==
    /\ state = "mounted" /\ ino \in Inodes
    /\ Answer(<<"getattr", NodeOf(ino)>>, <<"attr", stat_inode(read_inode(fs, ino))>>)
    /\ UNCHANGED <<readdir_cache, handle>>

cromfs_open(ino, writing) ==
    /\ state = "mounted" /\ ino \in Inodes
    /\ Answer(<<"open", NodeOf(ino), writing>>,
              IF read_inode(fs, ino).mode = "dir" THEN <<"error", "EISDIR">>
              ELSE IF writing THEN <<"error", "EACCES">> ELSE <<"opened">>)
    /\ UNCHANGED <<readdir_cache, handle>>

\* cromfs_read and cromfs_readlink: the kernel reads what was opened.
cromfs_read(ino) ==
    /\ state = "mounted" /\ ino \in Inodes
    /\ read_inode(fs, ino).mode \in {"reg", "lnk"}
    /\ Answer(<<"read", NodeOf(ino)>>, ReadData(fs, read_inode_and_blocks(fs, ino)))
    /\ UNCHANGED <<readdir_cache, handle>>

cromfs_opendir(h, ino) ==
    /\ state = "mounted" /\ ino \in Inodes /\ handle[h] = NoHandle
    /\ \E isdir \in {read_inode(fs, ino).mode = "dir"} :
          /\ Answer(<<"opendir", NodeOf(ino)>>, IF isdir THEN <<"opened">> ELSE <<"error", "ENOTDIR">>)
          /\ handle' = IF isdir THEN [handle EXCEPT ![h].ino = ino] ELSE handle
    /\ UNCHANGED readdir_cache

\* Mutant: room is made for nothing.
KeepMax == ReaddirMax

\* CheckAges(-1): room for one more.
KeepAtMost == ReaddirMax - 1

\* What read_dir(ino, 0, ~0) leaves in the cache.
Cached(ino, info) ==
    IF ino \in DOMAIN readdir_cache THEN {readdir_cache}
    ELSE {(ino :> info) @@ [i \in keep |-> readdir_cache[i]] :
             keep \in {k \in SUBSET DOMAIN readdir_cache :
                          Cardinality(k) = Min({Cardinality(DOMAIN readdir_cache),
                                                KeepAtMost})}}

\* fuse_add_direntry: a header of 24 bytes and the name, padded.
EntrySize(name) == ((24 + NameSize(name) + 7) \div 8) * 8

SumOfSizes(names) == FoldLeft(LAMBDA sum, x : sum + EntrySize(x), 0, names)

\* The reply is filled with portions of the directory, whose size is guessed,
\* until an entry does not fit.
Filled(info, offset, size) ==
    LET fill[off \in 0 .. Cardinality(DOMAIN info), room \in 0 .. size] ==
            LET batch == NamesInOrder(get_dirinfo_portion(info, off, (room + 63) \div 64))
                fits  == {k \in 0 .. Len(batch) : SumOfSizes(SubSeq(batch, 1, k)) <= room}
                part  == SubSeq(batch, 1, Max(fits))
            IN  IF room = 0 \/ batch = <<>> THEN <<>>
                ELSE IF part # batch THEN part
                ELSE part \o fill[off + Len(part), room - SumOfSizes(part)]
    IN  fill[offset, size]

\* Mutant: the offset of an entry is that of the entry behind the next.
SkipNext(off, names) == off + Len(names) + 1

\* The offset that comes with the last entry of a reply.
LastOffset(off, names) == off + Len(names)

\* First the whole directory is read, then it is found in the cache.
cromfs_readdir(h, size) ==
    /\ state = "mounted" /\ handle[h] # NoHandle
    /\ \E dir \in {IF handle[h].ino \in DOMAIN readdir_cache
                   THEN [err |-> "", info |-> readdir_cache[handle[h].ino]]
                   ELSE read_dir(fs, handle[h].ino, 0, Radix ^ 4)} :
          IF dir.err # ""
          THEN Answer(<<"readdir", h>>, <<"error", dir.err>>) /\ UNCHANGED <<readdir_cache, handle>>
          ELSE /\ readdir_cache' \in Cached(handle[h].ino, dir.info)
               /\ \E names \in {Filled(readdir_cache'[handle[h].ino], handle[h].off, size)} :
                     /\ Answer(<<"readdir", h>>, <<"names", Range(names)>>)
                     /\ handle' = [handle EXCEPT ![h].off = LastOffset(@, names),
                                                 ![h].got = @ \cup Range(names)]

releasedir(h) ==
    /\ state = "mounted" /\ handle[h] # NoHandle
    /\ handle' = [handle EXCEPT ![h] = NoHandle]
    /\ Answer(<<"releasedir", h>>, <<"nothing">>)
    /\ UNCHANGED readdir_cache

-----------------------------------------------------------------------------

\* mkcromfs has said that the image is likely corrupt, or cvcromfs that the
\* version cannot have the numbers: nobody mounts it.
Doubtful == warned \/ converted = "complained"

GivenUp == phase = "made" /\ Doubtful /\ UNCHANGED vars

AllNames == UNION {DOMAIN tree[n].dir : n \in DOMAIN tree}

Make == MakeNext /\ UNCHANGED driverVars

Next ==
    \/ Make
    \/ GivenUp
    \/ \E c \in Conversions : Cvcromfs(c)
    \/ ~Doubtful /\ Initialize
    \/ SectionRootdir \/ SectionBlktab \/ SectionFblktab \/ EndSections
    \/ \E ino \in Inodes : \/ \E x \in AllNames : cromfs_lookup(ino, x)
                           \/ cromfs_getattr(ino) \/ cromfs_read(ino)
                           \/ \E w \in BOOLEAN : cromfs_open(ino, w)
                           \/ \E h \in Handles : cromfs_opendir(h, ino)
    \/ \E h \in Handles : \/ \E size \in ReaddirSizes : cromfs_readdir(h, size)
                          \/ releasedir(h)

Spec == Init /\ [][Next]_vars

-----------------------------------------------------------------------------
(* Properties.                                                               *)

TypeOK ==
    /\ phase \in {"estimate", "walk", "number", "create", "flush", "inotab", "made"}
    /\ opts.numsize \in {0, 2, 3, 4}
    /\ state \in {"none", "sections", "mounted", "failed"}
    /\ \A h \in Handles :
          handle[h] # NoHandle =>
             /\ handle[h].ino \in Inodes
             /\ handle[h].off \in 0 .. Cardinality(DOMAIN tree[NodeOf(handle[h].ino)].dir)
    /\ DOMAIN readdir_cache \subseteq Inodes /\ Cardinality(DOMAIN readdir_cache) <= ReaddirMax

\* The tasks of the walk share one collection, and each sorts a part of it
\* while others append to it: in the end every directory has exactly the
\* names that the host showed and no pattern excludes, and every entry of the
\* collection stands behind its directory.
WalkComplete ==
    phase \in {"number", "create"} =>
       \A p \in DOMAIN dirinfo :
          /\ DOMAIN dirinfo[p] = DOMAIN tree[NodeAt(p)].dir \ Hidden
          /\ \A x \in DOMAIN dirinfo[p] :
                \E q \in DOMAIN coll : /\ coll[q].parent = p /\ coll[q].name = x
                                       /\ coll[q].node = tree[NodeAt(p)].dir[x]

\* The room that the numbering gave to each inode is the room that the inode
\* takes when it is written: inodes never overlap and the table ends behind
\* the last.
InodesDisjoint ==
    LET Bytes(o) == o .. o + INODE_SIZE_BYTES(opts, Len(inotab[o].blocks)) - 1
    IN  phase \in {"create", "flush", "inotab"} =>
        \A o \in DOMAIN inotab :
           /\ Bytes(o) \subseteq 0 .. inotab_size - 1
           /\ \A q \in DOMAIN inotab \ {o} : Bytes(o) \cap Bytes(q) = {}

Promised == INSTANCE TreeFs WITH
    racy <- state = "mounted" /\ fs.sb.sig = 1,
    open <- [h \in Handles |->
                IF handle[h] = NoHandle THEN [node |-> "none", left |-> {}]
                ELSE [node |-> NodeOf(handle[h].ino),
                      left |-> (DOMAIN tree[NodeOf(handle[h].ino)].dir \ Hidden) \ handle[h].got]],
    answer <- reply

\* Whatever mkcromfs made of a tree without complaint, every answer that the
\* driver gives about it is one that the tree itself would give: lookup,
\* attributes, links, content, and listings in pieces of any size while the
\* directory comes into the cache and leaves it.
DriverShowsTree == Promised!TreeSpec

\* No request to a file system that was made and converted without complaint
\* finds damage: the only errors are those that the kernel's request deserves.
NoDamage == reply.is # <<"error", "EIO">>

\* What the parallel tasks of the walk collect is the whole tree, and the room
\* computed for each inode before its blocks exist is the room it takes.
LayoutSound == WalkComplete /\ InodesDisjoint
=============================================================================
