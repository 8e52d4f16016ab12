------------------------------- MODULE Extract ------------------------------
(***************************************************************************)
(* The extraction of unmkcromfs (util/unmkcromfs.cc): the scan of the      *)
(* directories, the creation of the files, the writing of their blocks by  *)
(* threads that have a fblock each, and the three passes that repair what  *)
(* could not be made at once: symlinks, owners and permissions, then hard  *)
(* links, then times.                                                      *)
(*                                                                         *)
(* The image is a function from inode numbers to inodes: what the class    *)
(* cromfs reads of an image is the module Cromfs's.  A path is a sequence  *)
(* of names.  The target directory is part of a host filesystem (external) *)
(* with names, objects, and the rights of its user.                        *)
(***************************************************************************)
EXTENDS Integers, Sequences, FiniteSets, SequencesExt, FiniteSetsExt, TLC

CONSTANTS
    Calls,          \* uses of unmkcromfs: [image, wanted, flat, sparse, existing, root], with
                    \*   image: inode number to [mode, dir, blocks, write, time]; a
                    \*     block is [fblock, data, kept, large], with
                    \*       kept: what SparseWrite leaves of its data (SparsePieces)
                    \*       large: it has more than the 0x80000 bytes of the buffer
                    \*   wanted: the paths that MatchFile accepts
                    \*   flat: --flat
                    \*   sparse: not --nosparse
                    \*   existing: the target directory before, path to mode
                    \*   root: unmkcromfs has all rights
    InotabFblock,   \* inode number to the fblock that has its inode
    DirFblocks,     \* fblocks that the scan leaves in the cache
    FblockMax       \* FBLOCK_CACHE_MAX_SIZE

ASSUME ExtractAssumption == FblockMax \in Nat \ {0, 1}

VARIABLES
    job,            \* the use of unmkcromfs
    step,           \* what do_extract is doing
    stack,          \* directories that scan_dir_recursive has yet to read
    dir,            \* path to inode number: what is to be extracted
    inode_files,    \* inode numbers and paths, in the order they were found
    extra_dirs,     \* directories that no pattern names
    fblock_users,   \* fblock and inode number
    entry,          \* position of a sequential pass
    busy,           \* thread (its fblock) to what it does
    cache,          \* fblock_cache, as the set of its fblocks
    names,          \* the target directory: path to object
    objs            \* object to its attributes

scanVars == <<stack, dir, inode_files, extra_dirs, fblock_users>>
diskVars == <<names, objs>>
extractVars == <<job, step, scanVars, entry, busy, cache, diskVars>>

img == job.image
extract_paths == ~job.flat

Now == 0
Free == [ino |-> 0, todo |-> {}]

-----------------------------------------------------------------------------
(* Paths.                                                                    *)

PathBefore(s, t) ==
    \/ IsStrictPrefix(s, t)
    \/ \E i \in DOMAIN s \cap DOMAIN t :
          s[i] < t[i] /\ \A j \in 1 .. i - 1 : s[j] = t[j]

\* The i-th of some paths, in the order of a std::map.
Nth(paths, i) == CHOOSE p \in paths : Cardinality({q \in paths : PathBefore(q, p)}) = i - 1

\* --flat takes away the first component of a path.
GetTargetPath(p) == IF extract_paths \/ Len(p) = 1 THEN p ELSE Tail(p)

-----------------------------------------------------------------------------
(* The host's filesystem: the target directory itself is the object 0.       *)

Parent(t) == IF Len(t) = 1 THEN 0
             ELSE IF Front(t) \in DOMAIN names THEN names[Front(t)] ELSE -1

MayChange(t) ==
    LET d == Parent(t)
    IN  d # -1 /\ objs[d].mode = "dir" /\ (job.root \/ objs[d].write)

\* The directory of a name that comes or goes has a new time.
Touched(o, t) == [o EXCEPT ![Parent(t)].time = Now]

\* An object of the kind that mknod, mkdir and symlink make.
Fresh(mode, n) == [mode |-> mode, data |-> [k \in 1 .. n |-> 0], write |-> TRUE, time |-> Now]

-----------------------------------------------------------------------------

ExtractInit ==
    /\ job \in Calls
    /\ step = "scan" /\ stack = <<<<1, <<>>>>>>
    /\ dir = <<>> /\ inode_files = <<>> /\ extra_dirs = {} /\ fblock_users = {}
    /\ entry = 1 /\ busy = <<>> /\ cache = DirFblocks
    /\ names = [p \in DOMAIN job.existing |-> 100 + Cardinality({q \in DOMAIN job.existing : PathBefore(q, p)})]
    /\ objs = (0 :> Fresh("dir", 0)) @@
              [o \in Range(names) |->
                  Fresh(job.existing[CHOOSE p \in DOMAIN job.existing : names[p] = o], 0)]

-----------------------------------------------------------------------------
(* ScanDirectories.                                                          *)

HasContent(ino) == img[ino].mode \in {"reg", "lnk"}

FblocksOf(ino) == {img[ino].blocks[k].fblock : k \in DOMAIN img[ino].blocks}

FirstName(ino) == SelectInSeq(inode_files, LAMBDA e : e[1] = ino)

\* scan_dir_recursive, for one directory: its entries, then its
\* subdirectories in their order.
ScanDir ==
    /\ step = "scan" /\ stack # <<>>
    /\ \E d \in {img[Head(stack)[1]].dir}, parent \in {Head(stack)[2]} :
       \E kept \in {{x \in DOMAIN d : Append(parent, x) \in job.wanted \/ img[d[x]].mode = "dir"}} :
       \E order \in {SetToSortSeq(kept, <)} :
          /\ stack' = SelectSeq([i \in DOMAIN order |-> <<d[order[i]], Append(parent, order[i])>>],
                                LAMBDA e : img[e[1]].mode = "dir") \o Tail(stack)
          /\ dir' = [p \in {Append(parent, x) : x \in kept} |-> d[Last(p)]] @@ dir
          /\ extra_dirs' = extra_dirs \cup {d[x] : x \in {y \in kept : Append(parent, y) \notin job.wanted}}
          /\ inode_files' = inode_files \o [i \in DOMAIN order |->
                                              <<d[order[i]], Append(parent, order[i])>>]
          /\ fblock_users' = fblock_users \cup
                UNION {FblocksOf(d[x]) \X {d[x]} : x \in {y \in kept : HasContent(d[y])}}
    /\ UNCHANGED <<job, step, entry, busy, cache, diskVars>>

\* Mutant: a directory is kept only if itself or an entry of it is wanted.
NecessaryNear(p) ==
    extract_paths /\ \E q \in DOMAIN dir : Front(q) = p /\ dir[q] \notin extra_dirs

\* An extra directory is necessary if something in it is wanted.
Necessary(p) ==
    extract_paths /\ \E q \in DOMAIN dir : IsStrictPrefix(p, q) /\ dir[q] \notin extra_dirs

RemoveExtraDirs ==
    /\ step = "scan" /\ stack = <<>>
    /\ dir' = [p \in {q \in DOMAIN dir : dir[q] \notin extra_dirs \/ Necessary(q)} |-> dir[p]]
    /\ extra_dirs' = {}
    /\ step' = "create"
    /\ UNCHANGED <<job, stack, inode_files, fblock_users, entry, busy, cache, diskVars>>

-----------------------------------------------------------------------------
(* The creation, in the order of the paths.                                  *)

Path(i) == IF dir = <<>> THEN <<>> ELSE Nth(DOMAIN dir, i)

IsFirstOccuranceOfInodenum(p) == dir # <<>> /\ inode_files[FirstName(dir[p])][2] = p

\* The next entry of a pass over dir, or the end of the pass.
Pass(this, next) ==
    /\ step = this
    /\ IF entry < Cardinality(DOMAIN dir) THEN step' = step /\ entry' = entry + 1
                                       ELSE step' = next /\ entry' = 1
    /\ UNCHANGED <<job, scanVars, cache>>

\* mkdir leaves what is there; mknod is tried again without it, unless it is a
\* directory.  A symlink begins as a file.
MakeNode(p, t) ==
    LET ino  == dir[p]
        mode == IF img[ino].mode = "lnk" THEN "reg" ELSE img[ino].mode
        kept == t \in DOMAIN names /\ (mode = "dir" \/ objs[names[t]].mode = "dir")
    IN  IF ~MayChange(t) \/ kept
        THEN UNCHANGED diskVars
        ELSE /\ names' = (t :> ino) @@ names
             /\ objs' = Touched((ino :> Fresh(IF t \in DOMAIN names THEN "reg" ELSE mode,
                                              Len(img[ino].blocks))) @@ objs, t)

\* A second name of an inode is not created now.
CreateEntry ==
    /\ Pass("create", "write")
    /\ IF IsFirstOccuranceOfInodenum(Path(entry))
       THEN MakeNode(Path(entry), GetTargetPath(Path(entry)))
       ELSE UNCHANGED diskVars
    /\ busy' = IF step' = "create" THEN busy
               ELSE [f \in {u[1] : u \in fblock_users} |->
                        [ino |-> 0, todo |-> {u[2] : u \in {v \in fblock_users : v[1] = f}}]]

-----------------------------------------------------------------------------
(* The parallel loop over the fblocks.                                       *)

\* Mutant: the fblock of the thread comes into the cache too.
ReadCached(f) == {f}

\* read_fblock_uncached: the cache is for the inode table.
ComesIntoCache(f) == {}

\* read_inode_and_blocks begins: the fblock of the inode is in the cache, and
\* the thread has a reference to it.
BeginInode(f) ==
    /\ step = "write" /\ busy[f].ino = 0
    /\ \E ino \in busy[f].todo :
          /\ busy' = [busy EXCEPT ![f] = [ino |-> ino, todo |-> @.todo \ {ino}]]
          /\ cache' = cache \cup {InotabFblock[ino]} \cup ComesIntoCache(f)
    /\ UNCHANGED <<job, step, scanVars, entry, diskVars>>

\* CheckAges(-1) of an arbitrary part, as the ages have a second's resolution.
Trimmed(c) ==
    IF Cardinality(c) <= FblockMax - 1 THEN {c}
    ELSE {k \in SUBSET c : Cardinality(k) = FblockMax - 1}

BlocksFrom(ino, f) == {k \in DOMAIN img[ino].blocks : img[ino].blocks[k].fblock = f}

\* FileOutputter::write collects blocks in its buffer, and writes them as they
\* are; but not the whole file in one piece, nor what is larger than the buffer:
\* with --sparse, those go to SparseWrite (see FileWrite).
ThroughSparse(i, k) == job.sparse /\ (Len(i.blocks) = 1 \/ i.blocks[k].large)

Filled(o, ino, f) ==
    [o EXCEPT !.data = [k \in DOMAIN @ |->
        IF k \notin BlocksFrom(ino, f) THEN @[k]
        ELSE IF ThroughSparse(img[ino], k) THEN img[ino].blocks[k].kept ELSE img[ino].blocks[k].data]]

\* The blocks are written through the first name of the inode.
WriteInode(f) ==
    /\ step = "write" /\ busy[f].ino # 0
    /\ LET ino == busy[f].ino
           t   == GetTargetPath(inode_files[FirstName(ino)][2])
       IN  objs' = IF t \in DOMAIN names /\ objs[names[t]].mode = "reg"
                   THEN [objs EXCEPT ![names[t]] = Filled(@, ino, f)] ELSE objs
    /\ cache' \in Trimmed(cache)
    /\ busy' = [busy EXCEPT ![f].ino = 0]
    /\ UNCHANGED <<job, step, scanVars, entry, names>>

\* fblock_cache.clear
EndWrite ==
    /\ step = "write" /\ \A f \in DOMAIN busy : busy[f] = Free
    /\ step' = "fixup" /\ cache' = {}
    /\ UNCHANGED <<job, scanVars, entry, busy, diskVars>>

-----------------------------------------------------------------------------
(* FixupSymlinksAndOwnerships, FixupHardlinks, FixupModificationTimes.       *)

\* unlink and symlink; the link's text is what was written into the file.
ToSymlink(t) ==
    IF MayChange(t)
    THEN Touched([objs EXCEPT ![names[t]].mode = "lnk"], t) ELSE objs

\* chmod, for all but symlinks.  The owner is left out, and so is truncate64: a
\* file has had its size since CreateEntry.
FixupEntry ==
    /\ Pass("fixup", "hardlinks")
    /\ LET p == Path(entry)
           t == GetTargetPath(p)
       IN  IF ~IsFirstOccuranceOfInodenum(p) \/ t \notin DOMAIN names
           THEN UNCHANGED objs
           ELSE IF img[dir[p]].mode = "lnk" THEN objs' = ToSymlink(t)
           ELSE objs' = [objs EXCEPT ![names[t]].write = img[dir[p]].write]
    /\ UNCHANGED <<names, busy>>

\* The second and later names of an inode, in the order of the multimap.
LinksToMake == {i \in DOMAIN inode_files : i # FirstName(inode_files[i][1])}

MakeLink(n, i) ==
    LET old == GetTargetPath(inode_files[FirstName(inode_files[i][1])][2])
        new == GetTargetPath(inode_files[i][2])
    IN  IF old \notin DOMAIN names \/ ~MayChange(new) THEN n ELSE (new :> names[old]) @@ n

FixupHardlinks ==
    /\ step = "hardlinks"
    /\ names' = FoldSet(LAMBDA i, n : MakeLink(n, i), names, LinksToMake)
    /\ objs' = FoldSet(LAMBDA i, o : LET t == GetTargetPath(inode_files[i][2])
                                     IN  IF MayChange(t) THEN Touched(o, t) ELSE o,
                       objs, LinksToMake)
    /\ step' = "times"
    /\ UNCHANGED <<job, scanVars, entry, busy, cache>>

\* Backwards, so that the directories come after the files in them.
FixupTime ==
    /\ Pass("times", "done")
    /\ LET p == Path(Cardinality(DOMAIN dir) + 1 - entry)
           t == GetTargetPath(p)
       IN  IF ~IsFirstOccuranceOfInodenum(p) \/ t \notin DOMAIN names
           THEN UNCHANGED objs
           ELSE objs' = [objs EXCEPT ![names[t]].time = img[dir[p]].time]
    /\ UNCHANGED <<names, busy>>

ExtractDone == step = "done" /\ UNCHANGED extractVars

ExtractNext ==
    \/ ScanDir \/ RemoveExtraDirs \/ CreateEntry
    \/ \E f \in DOMAIN busy : BeginInode(f) \/ WriteInode(f)
    \/ EndWrite \/ FixupEntry \/ FixupHardlinks \/ FixupTime
    \/ ExtractDone

ExtractSpec == ExtractInit /\ [][ExtractNext]_extractVars

-----------------------------------------------------------------------------
(* Properties.                                                               *)

\* The inode of a path of the image, and the paths that there are.
InoAt[p \in Seq(Nat)] == IF p = <<>> THEN 1 ELSE img[InoAt[Front(p)]].dir[Last(p)]

PathsOfLength[k \in Nat] ==
    IF k = 0 THEN {<<>>}
    ELSE UNION {{Append(p, x) : x \in DOMAIN img[InoAt[p]].dir} : p \in PathsOfLength[k - 1]}

AllPaths == UNION {PathsOfLength[k] : k \in 1 .. Cardinality(DOMAIN img)}

\* What is wanted, and the directories on the way to it.
Asked == {p \in AllPaths : \/ p \in job.wanted
                           \/ extract_paths /\ \E q \in AllPaths \cap job.wanted : IsPrefix(p, q)}

\* Where a file belongs: --flat is said to leave the paths out.
Belongs(p) == IF extract_paths THEN p ELSE <<Last(p)>>

\* The content of a file, from whichever fblocks its blocks are in: that of the
\* image with --nosparse, or if SparseWrite loses nothing; without, a file of one
\* block or of large ones may have lost the pieces without a zero byte.
ContentRight(o, i) ==
    /\ DOMAIN o.data = DOMAIN i.blocks
    /\ \A k \in DOMAIN i.blocks :
          \/ o.data[k] = i.blocks[k].data
          \/ ThroughSparse(i, k) /\ o.data[k] = i.blocks[k].kept

\* What the passes leave in the target directory is what the image has: every
\* file that was asked for, with its content but for what SparseWrite loses of
\* it, its permissions, its time although later steps touch directories, one
\* object for the names of one inode; and nothing else.
ExtractedAsImage ==
    step = "done" =>
       /\ DOMAIN names = {Belongs(p) : p \in Asked} \cup DOMAIN job.existing
       /\ \A p \in Asked :
             LET o == objs[names[Belongs(p)]]
                 i == img[InoAt[p]]
             IN  /\ o.mode = i.mode
                 /\ o.time = i.time
                 /\ i.mode \in {"reg", "lnk"} => ContentRight(o, i)
                 /\ i.mode # "lnk" => o.write = i.write
       /\ \A p, q \in Asked :
             names[Belongs(p)] = names[Belongs(q)] <=> InoAt[p] = InoAt[q]

\* While a thread reads an inode, the fblock that has it stays in the cache,
\* whatever the other threads load and drop.
InodeStaysCached ==
    \A f \in DOMAIN busy : busy[f].ino # 0 => InotabFblock[busy[f].ino] \in cache
=============================================================================
