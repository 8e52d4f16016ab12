------------------------------- MODULE MakeFs -------------------------------
(***************************************************************************)
(* How mkcromfs makes an image of a directory tree (util/mkcromfs.cc):     *)
(* the estimate that chooses the width of block numbers, the walk through  *)
(* the tree in OpenMP tasks that share one collection, the numbering of    *)
(* the inodes, their creation in a parallel loop, and the writing of the   *)
(* block lists, the inode table, the block table and the superblock.       *)
(*                                                                         *)
(* A source tree is a function from the nodes of the host's filesystem     *)
(* (device and inode number) to their stat data and content.  What the     *)
(* blockifier promises, and the module Blockifier shows, is taken as it    *)
(* is: each block gets a number whose locator has the block's content, the *)
(* same one for identical blocks.                                          *)
(***************************************************************************)
EXTENDS Convert, FiniteSetsExt, TLC

CONSTANTS
    Trees,          \* the source trees
    Root,           \* the node where mkcromfs starts
    Hidden,         \* names that --exclude matches
    BSIZE,          \* --bsize
    UserChoices,    \* [bsize_for, numsize]: the sequence of [names, size] that
                    \* --bsize_for gave, and the bytes of a block number; 0: choose
    PerFblock       \* blocks that find room in a fblock

ASSUME MakeFsAssumption ==
    /\ BSIZE \in Nat \ {0} /\ PerFblock \in Nat \ {0}
    /\ LzmaSize \in Nat /\ LzmaSize > 13     \* an LZMA stream has 13 bytes of header
    /\ \A c \in UserChoices : c.numsize \in {0, 2, 3, 4}
    /\ FSIZE \div PerFblock > 0
    /\ \A c \in UserChoices : c.bsize_for \in Seq([names : SUBSET Nat, size : Nat \ {0}])
    /\ \A t \in Trees :
          /\ Root \in DOMAIN t
          /\ \A n \in DOMAIN t :
                /\ t[n].size \in Nat
                /\ t[n].dir \in [DOMAIN t[n].dir -> DOMAIN t]
                /\ IsFiniteSet(DOMAIN t[n].dir)
                /\ \A x \in DOMAIN t[n].dir : x \in Nat /\ NameSize(x) \in Nat

VARIABLES
    tree,           \* the source tree
    BSIZE_FOR,      \* the option --bsize_for
    phase,          \* what CreateAndWriteFs is doing
    todo,           \* directories that the estimate has yet to handle
    seen,           \* hardlink_set of the estimate
    estimate,       \* its num_blocks
    opts,           \* storage_opts
    coll,           \* collection: all the entries found
    stage,          \* how far WalkDir_Recursive is with each of them; 0: the root
    range,          \* the part of the collection that a directory's entries have
    dirinfo,        \* cromfs_dirinfo of the root and of each directory entry
    at,             \* position of the numbering loop
    inotab_size,
    hardlink_map,   \* node to inode number
    inotab,         \* offset to inode
    sched,          \* entries scheduled for blockifying
    blocks,         \* block number (from 1 here) to its locator and content
    bytes_of_files,
    warned,         \* mkcromfs said that the filesystem is likely corrupt
    image           \* what is written

walkVars  == <<coll, stage, range, dirinfo>>
numberVars == <<at, inotab_size, hardlink_map>>
writeVars == <<inotab, sched, blocks, bytes_of_files>>
guessVars == <<todo, seen, estimate>>
makeVars  == <<tree, BSIZE_FOR, phase, todo, seen, estimate, opts, coll, stage, range, dirinfo,
               at, inotab_size, hardlink_map, inotab, sched, blocks,
               bytes_of_files, warned, image>>

NoImage == [made |-> FALSE]

\* The name under which the inode table is matched with the patterns.
INOTAB == 0

\* A map with one more entry, or with another value for it.
Put(map, key, value) == [k \in DOMAIN map \cup {key} |-> IF k = key THEN value ELSE map[k]]

-----------------------------------------------------------------------------
(* The host's filesystem.                                                    *)

IsDir(n) == tree[n].type = "dir"

\* The names that CollectOneDir keeps: MatchFile and lstat64.
Visible(n) == {x \in DOMAIN tree[n].dir : x \notin Hidden}

\* The last pattern that matches wins.
CalcBSIZEfor(name) ==
    LET m == {i \in DOMAIN BSIZE_FOR : name \in BSIZE_FOR[i].names}
    IN  IF m = {} THEN BSIZE ELSE BSIZE_FOR[Max(m)].size

MakeInit ==
    /\ tree \in Trees
    /\ phase = "estimate" /\ todo = {Root} /\ seen = {} /\ estimate = 0
    /\ \E c \in UserChoices :
          /\ BSIZE_FOR = c.bsize_for
          /\ opts = [numsize |-> c.numsize, packed |-> FALSE, variable |-> c.bsize_for # <<>>]
    /\ coll = <<>> /\ stage = [p \in {0} |-> "collect"] /\ range = <<>> /\ dirinfo = [p \in {0} |-> <<>>]
    /\ at = 1 /\ inotab_size = 0 /\ hardlink_map = <<>>
    /\ inotab = <<>> /\ sched = {} /\ blocks = <<>> /\ bytes_of_files = 0
    /\ warned = FALSE /\ image = NoImage

-----------------------------------------------------------------------------
(* EstimateSpaceNeededFor and CheckSomeDefaultOptions.                       *)

\* Handle: every file counts once, by the name it is met under first.
EstimateDir(d) ==
    /\ phase = "estimate" /\ d \in todo
    /\ LET new == {tree[d].dir[x] : x \in Visible(d)} \ seen
       IN  \E name \in [new -> Visible(d)] :
              /\ \A n \in new : tree[d].dir[name[n]] = n
              /\ estimate' = FoldSet(LAMBDA n, sum : sum
                                  + CalcSizeInBlocks(tree[n].size, CalcBSIZEfor(name[n])),
                                estimate, {n \in new : ~IsDir(n)})
              /\ todo' = (todo \ {d}) \cup {n \in new : IsDir(n)}
              /\ seen' = seen \cup new
    /\ UNCHANGED <<tree, BSIZE_FOR, phase, opts, warned, image>>
    /\ UNCHANGED <<walkVars, numberVars, writeVars>>

\* Directories and the inode table are not in the estimate.
ChooseWidth(n) == CASE n < Radix ^ 2 -> 2 [] n < Radix ^ 3 -> 3 [] OTHER -> 4

CheckSomeDefaultOptions ==
    /\ phase = "estimate" /\ todo = {}
    /\ opts' = [opts EXCEPT !.numsize = IF @ = 0 THEN ChooseWidth(estimate) ELSE @]
    /\ phase' = "walk"
    /\ UNCHANGED <<tree, BSIZE_FOR, warned, image, guessVars, walkVars, numberVars, writeVars>>

-----------------------------------------------------------------------------
(* Step 1: WalkDir_Recursive.  Each entry is a task, each step below holds   *)
(* the lock of the collection.                                               *)

NodeAt(p) == IF p = 0 THEN Root ELSE coll[p].node

Orders(S) == {s \in [1 .. Cardinality(S) -> S] : \A x \in S : \E i \in DOMAIN s : s[i] = x}

\* The entries of a directory come in any order, and go to the end.
Collect(p) ==
    /\ phase = "walk" /\ p \in DOMAIN stage /\ stage[p] = "collect"
    /\ \E order \in Orders(Visible(NodeAt(p))) :
          coll' = coll \o [i \in DOMAIN order |->
                             [parent |-> p, name |-> order[i],
                              node |-> tree[NodeAt(p)].dir[order[i]]]]
    /\ range' = Put(range, p, Len(coll) + 1 .. Len(coll'))
    /\ stage' = [stage EXCEPT ![p] = "sort"]
    /\ UNCHANGED <<tree, BSIZE_FOR, phase, opts, dirinfo, warned, image>>
    /\ UNCHANGED <<guessVars, numberVars, writeVars>>

\* Mutant: the part to sort ends where the collection ends by now.
SortToEnd(p) == Min(range[p] \cup {Len(coll) + 1}) .. Len(coll)

\* Step 2 of the walk: this part is sorted, by the pathname.
SortedPart(p) == range[p]

Before(e, f) == e.parent < f.parent \/ (e.parent = f.parent /\ e.name < f.name)

SortRange(p) ==
    LET r == SortedPart(p)
    IN  \E s \in Orders(r) :
           /\ \A i, j \in DOMAIN s : i < j => Before(coll[s[i]], coll[s[j]])
           /\ coll' = [i \in DOMAIN coll |-> IF i \in r THEN coll[s[i - Min(r) + 1]] ELSE coll[i]]

\* Then there is a task for each entry; the directory itself can be inserted.
Sort(p) ==
    /\ phase = "walk" /\ p \in DOMAIN stage /\ stage[p] = "sort"
    /\ SortRange(p)
    /\ stage' = [i \in DOMAIN stage \cup range[p] |->
                    IF i \in range[p] THEN "enter"
                    ELSE IF i # p THEN stage[i] ELSE IF p = 0 THEN "done" ELSE "insert"]
    /\ UNCHANGED <<tree, BSIZE_FOR, phase, opts, range, dirinfo, warned, image>>
    /\ UNCHANGED <<guessVars, numberVars, writeVars>>

\* A subdirectory gets its dirinfo, and the lock is given up for the recursion.
Enter(p) ==
    /\ phase = "walk" /\ p \in DOMAIN stage \ {0} /\ stage[p] = "enter"
    /\ IsDir(coll[p].node)
    /\ dirinfo' = Put(dirinfo, p, <<>>)
    /\ stage' = [stage EXCEPT ![p] = "collect"]
    /\ UNCHANGED <<tree, BSIZE_FOR, phase, opts, coll, range, warned, image>>
    /\ UNCHANGED <<guessVars, numberVars, writeVars>>

\* The entry comes into the dirinfo of its directory, with a dummy number.
Insert(p) ==
    /\ phase = "walk" /\ p \in DOMAIN stage \ {0}
    /\ \/ stage[p] = "insert"
       \/ stage[p] = "enter" /\ ~IsDir(coll[p].node)
    /\ dirinfo' = [dirinfo EXCEPT ![coll[p].parent] = Put(@, coll[p].name, 0)]
    /\ stage' = [stage EXCEPT ![p] = "done"]
    /\ UNCHANGED <<tree, BSIZE_FOR, phase, opts, coll, range, warned, image>>
    /\ UNCHANGED <<guessVars, numberVars, writeVars>>

EndWalk ==
    /\ phase = "walk" /\ \A p \in DOMAIN stage : stage[p] = "done"
    /\ phase' = "number"
    /\ UNCHANGED <<tree, BSIZE_FOR, opts, warned, image, guessVars, walkVars, numberVars, writeVars>>

-----------------------------------------------------------------------------
(* Step 2: the inode numbers.                                                *)

Bytesize(p) == IF IsDir(coll[p].node) THEN calc_encoded_directory_size(dirinfo[p])
                                      ELSE tree[coll[p].node].size

\* Mutant: a directory is taken as large as it is in the host's filesystem.
RoomForHostSize(p) ==
    INODE_SIZE_BYTES(opts, CalcSizeInBlocks(tree[coll[p].node].size,
                                            CalcBSIZEfor(coll[p].name)))

\* The bytes that the inode will need.
RoomFor(p) ==
    INODE_SIZE_BYTES(opts, CalcSizeInBlocks(Bytesize(p), CalcBSIZEfor(coll[p].name)))

IsHardlink(p) == coll[p].node \in DOMAIN hardlink_map

GiveNumber(p, ino) ==
    dirinfo' = [dirinfo EXCEPT ![coll[p].parent][coll[p].name] = ino]

NumberHardlink ==
    /\ phase = "number" /\ at <= Len(coll) /\ IsHardlink(at)
    /\ GiveNumber(at, hardlink_map[coll[at].node])
    /\ at' = at + 1
    /\ UNCHANGED <<tree, BSIZE_FOR, phase, opts, coll, stage, range, inotab_size, hardlink_map>>
    /\ UNCHANGED <<warned, image, guessVars, writeVars>>

NumberNew ==
    /\ phase = "number" /\ at <= Len(coll) /\ ~IsHardlink(at)
    /\ LET ino == get_first_free_inode_number(inotab_size)
       IN  /\ GiveNumber(at, ino)
           /\ hardlink_map' = Put(hardlink_map, coll[at].node, ino)
    /\ inotab_size' = RoundUp4(inotab_size + RoomFor(at))
    /\ at' = at + 1
    /\ UNCHANGED <<tree, BSIZE_FOR, phase, opts, coll, stage, range>>
    /\ UNCHANGED <<warned, image, guessVars, writeVars>>

EndNumber ==
    /\ phase = "number" /\ at > Len(coll)
    /\ phase' = "create"
    /\ UNCHANGED <<tree, BSIZE_FOR, opts, warned, image, guessVars, walkVars, numberVars, writeVars>>

Ino(p) == dirinfo[coll[p].parent][coll[p].name]

\* needs_blockify: the first entry of its node in the collection.
NeedsBlockify(p) == \A q \in 1 .. p - 1 : coll[q].node # coll[p].node

-----------------------------------------------------------------------------
(* Step 4: the inodes, in a parallel loop; the schedule has a lock.          *)

HasData(n) == tree[n].type \in {"dir", "lnk", "reg"}

\* The inode without its block numbers, which the blockifier fills in.
NewInode(p) ==
    LET n == tree[coll[p].node]
    IN  [mode      |-> n.type,
         links     |-> IF n.type = "dir" THEN Cardinality(DOMAIN dirinfo[p]) ELSE 1,
         rdev      |-> IF IsDevice(n.type) THEN n.rdev ELSE 0,
         uid       |-> n.uid,
         bytesize  |-> IF HasData(coll[p].node) THEN Bytesize(p) ELSE 0,
         blocksize |-> CalcBSIZEfor(coll[p].name),
         blocklist |-> IF HasData(coll[p].node)
                       THEN [k \in 1 .. CalcSizeInBlocks(Bytesize(p),
                                              CalcBSIZEfor(coll[p].name)) |-> 0]
                       ELSE <<>>]

CreateInode(p) ==
    /\ phase = "create" /\ p \in DOMAIN coll
    /\ NeedsBlockify(p) /\ GetInodeOffset(Ino(p)) \notin DOMAIN inotab
    /\ inotab' = Put(inotab, GetInodeOffset(Ino(p)), put_inode(NewInode(p), opts))
    /\ sched' = IF HasData(coll[p].node) THEN sched \cup {p} ELSE sched
    /\ bytes_of_files' = bytes_of_files + NewInode(p).bytesize
    /\ UNCHANGED <<tree, BSIZE_FOR, phase, opts, blocks, warned, image>>
    /\ UNCHANGED <<guessVars, walkVars, numberVars>>

AddsLink(p) == ~NeedsBlockify(p)

\* Step 5: the other entries of a node each add a link.
PatchLinks ==
    /\ phase = "create"
    /\ \A p \in DOMAIN coll : GetInodeOffset(Ino(p)) \in DOMAIN inotab
    /\ inotab' = [o \in DOMAIN inotab |->
                    increment_inode_linkcount(inotab[o],
                        Cardinality({p \in DOMAIN coll : AddsLink(p) /\ GetInodeOffset(Ino(p)) = o}))]
    /\ phase' = "flush"
    /\ UNCHANGED <<tree, BSIZE_FOR, opts, sched, blocks, bytes_of_files, warned, image>>
    /\ UNCHANGED <<guessVars, walkVars, numberVars>>

-----------------------------------------------------------------------------
(* The root inode, the blockifying, and the inode table.                     *)

RootInode == [mode |-> "dir", links |-> Cardinality(DOMAIN dirinfo[0]), rdev |-> 0,
              uid |-> 0, bytesize |-> calc_encoded_directory_size(dirinfo[0]),
              blocksize |-> BSIZE,
              blocklist |-> [k \in 1 .. CalcSizeInBlocks(
                                calc_encoded_directory_size(dirinfo[0]), BSIZE) |-> 0]]

DataOf(p) == IF p = 0 THEN <<"dir", encode_directory(dirinfo[0])>>
             ELSE IF IsDir(coll[p].node) THEN <<"dir", encode_directory(dirinfo[p])>>
             ELSE <<tree[coll[p].node].type, tree[coll[p].node].data>>

\* The path of an entry, as CompareSchedulingOrder compares it within a class.
PathTo[p \in Nat] == IF p = 0 THEN <<>> ELSE PathTo[coll[p].parent] \o <<coll[p].name>>

PathLess(s, t) ==
    \/ IsStrictPrefix(s, t)
    \/ \E i \in DOMAIN s \cap DOMAIN t :
          s[i] < t[i] /\ \A j \in 1 .. i - 1 : s[j] = t[j]

DataClass(p) == IF p = 0 THEN 1
                ELSE CASE tree[coll[p].node].type = "dir" -> 1
                       [] tree[coll[p].node].type = "lnk" -> 2
                       [] OTHER -> 3

ScheduleLess(p, q) == \/ DataClass(p) < DataClass(q)
                      \/ DataClass(p) = DataClass(q) /\ PathLess(PathTo[p], PathTo[q])

Locator(b) == [fblocknum |-> (b - 1) \div PerFblock,
               startoffs |-> ((b - 1) % PerFblock) * (FSIZE \div PerFblock)]

\* A piece of data gets the number of an identical block, or a new one.
Blockify(known, pieces) ==
    FoldLeft(LAMBDA acc, piece :
                 IF \E b \in DOMAIN acc : acc[b].piece = piece THEN acc
                 ELSE Append(acc, [piece |-> piece, loc |-> Locator(Len(acc) + 1)]),
             known, pieces)

NumberOf(known, piece) == (CHOOSE b \in DOMAIN known : known[b].piece = piece) - 1

Pieces(data, n) == [k \in 1 .. n |-> <<data[1], data[2], k>>]

WithNumbers(raw, data, known, o) ==
    [raw EXCEPT !.blocks = [k \in DOMAIN raw.blocks |->
        put_n(NumberOf(known, <<data[1], data[2], k>>), o.numsize)]]

BlocksOf(p) == IF p = 0 THEN Len(RootInode.blocklist)
               ELSE Len(inotab[GetInodeOffset(Ino(p))].blocks)

\* FlushBlockifyRequests("Files and directories"): the root comes with them.
FlushFiles ==
    /\ phase = "flush"
    /\ \E order \in {SetToSortSeq(sched \cup {0}, ScheduleLess)} :
          blocks' = Blockify(<<>>, FlattenSeq([i \in DOMAIN order |->
                        Pieces(DataOf(order[i]), BlocksOf(order[i]))]))
    /\ inotab' = [o \in DOMAIN inotab |->
                    LET ps == {p \in sched : GetInodeOffset(Ino(p)) = o}
                    IN  IF ps = {} THEN inotab[o]
                        ELSE WithNumbers(inotab[o], DataOf(Min(ps)), blocks', opts)]
    /\ phase' = "inotab"
    /\ UNCHANGED <<tree, BSIZE_FOR, opts, sched, bytes_of_files, warned, image>>
    /\ UNCHANGED <<guessVars, walkVars, numberVars>>

InotabInode == [mode |-> "inotab", links |-> 1, rdev |-> 0, uid |-> 0,
                bytesize |-> inotab_size, blocksize |-> CalcBSIZEfor(INOTAB),
                blocklist |-> [k \in 1 .. CalcSizeInBlocks(inotab_size,
                                              CalcBSIZEfor(INOTAB)) |-> 0]]

nfblocks(known) == (Len(known) + PerFblock - 1) \div PerFblock

\* The end of EnablePackedBlocksIfPossible.
TooManyBlocks(n, o) == (o.numsize = 2 /\ n >= Radix ^ 2) \/ (o.numsize = 3 /\ n >= Radix ^ 3)

-----------------------------------------------------------------------------
(* The image.                                                                *)

Superblock ==
    WriteToBuffer(SetOffsets(
        [rootdir_size |-> LzmaSize, inotab_size |-> LzmaSize, blktab_size |-> LzmaSize,
         rootdir_room |-> LzmaSize, inotab_room |-> LzmaSize, blktab_room |-> LzmaSize,
         rootdir_offs |-> 0, inotab_offs |-> 0, blktab_offs |-> 0, fblktab_offs |-> 0,
         sig |-> 3, fsize |-> FSIZE, bsize |-> BSIZE, bytes_of_files |-> bytes_of_files]))

\* What the fblocks have at each locator is a block of one of the contents.
\* The opts are put into the inotab inode again once packing is decided.
ImageWith(known, o, contents) ==
    [made    |-> TRUE, lzma |-> TRUE,
     sb      |-> Superblock,
     rootdir |-> WithNumbers(put_inode(RootInode, o), DataOf(0), known, o),
     inotab  |-> [opts |-> o,
                  raw  |-> WithNumbers(put_inode(InotabInode, o), <<"inotab", inotab>>,
                                       known, o)],
     blktab  |-> [b \in DOMAIN known |-> EncodeLocator(known[b].loc, o)],
     fblocks |-> [i \in 1 .. nfblocks(known) |-> LzmaSize],
     contents |-> contents,
     store   |-> [l \in {known[b].loc : b \in DOMAIN known} |->
                    LET piece == (CHOOSE e \in Range(known) : e.loc = l).piece
                    IN  <<CHOOSE i \in DOMAIN contents : contents[i] = <<piece[1], piece[2]>>,
                          piece[3]>>]]

\* FlushBlockifyRequests("INOTAB"), EnablePackedBlocksIfPossible, the block
\* table and the superblock.
WriteImage ==
    /\ phase = "inotab"
    /\ \E known \in {Blockify(blocks, Pieces(<<"inotab", inotab>>,
                                             Len(InotabInode.blocklist)))} :
       \E o \in {[opts EXCEPT !.packed = PackingPossible(nfblocks(known))]} :
          /\ blocks' = known
          /\ opts' = o
          /\ warned' = TooManyBlocks(Len(known), o)
          /\ image' = ImageWith(known, o, SetToSeq({<<e.piece[1], e.piece[2]>> :
                                                       e \in Range(known)}))
    /\ phase' = "made"
    /\ UNCHANGED <<tree, BSIZE_FOR, inotab, sched, bytes_of_files, guessVars, walkVars, numberVars>>

MakeNext ==
    \/ \E d \in todo : EstimateDir(d)
    \/ CheckSomeDefaultOptions
    \/ \E p \in DOMAIN stage : Collect(p) \/ Sort(p) \/ Enter(p) \/ Insert(p)
    \/ EndWalk
    \/ NumberHardlink \/ NumberNew \/ EndNumber
    \/ \E p \in DOMAIN coll : CreateInode(p)
    \/ PatchLinks
    \/ FlushFiles
    \/ WriteImage
=============================================================================
