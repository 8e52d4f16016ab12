------------------------------ MODULE Simgraph ------------------------------
(***************************************************************************)
(* unmkcromfs --simgraph (do_simgraph): which inodes of an image share     *)
(* data in its fblocks, and how many bytes.                                *)
(***************************************************************************)
EXTENDS Ranges

CONSTANTS
    SimImages,   \* images: inode number to [bytesize, blocksize, blocks], with
                 \* the blocks as positions in the fblocks
    FblockSpan   \* the positions of a fblock: 2^32

VARIABLES
    image,
    range_map,   \* inode to what it covers
    handled_inodes,
    simstep,     \* "ranges", "matches" or "done", and the next inode
    matches      \* <<inode, inode, bytes>> that were printed

simVars == <<image, range_map, handled_inodes, simstep, matches>>

SimIdle ==
    /\ image = <<>> /\ range_map = <<>> /\ handled_inodes = {}
    /\ simstep = <<"done", 1>> /\ matches = {}

SimInit ==
    /\ image \in SimImages /\ range_map = <<>> /\ handled_inodes = {}
    /\ simstep = <<"ranges", 1>> /\ matches = {}

block_index(blk) == blk[1] * FblockSpan + blk[2]

\* The last block may be smaller.
SizeOf(ino, k) ==
    IF k < Len(ino.blocks) THEN ino.blocksize
    ELSE ino.bytesize - (Len(ino.blocks) - 1) * ino.blocksize

create_rangeset(ino) ==
    FoldLeft(LAMBDA d, k : RangeSet(d, block_index(ino.blocks[k]),
                                       block_index(ino.blocks[k]) + SizeOf(ino, k)),
             <<>>, [k \in DOMAIN ino.blocks |-> k])

NextInode(this, next) ==
    simstep' = IF simstep[2] < Len(image) THEN <<this, simstep[2] + 1>> ELSE <<next, 1>>

CreateRangeset ==
    /\ simstep[1] = "ranges" /\ NextInode("ranges", "matches")
    /\ \E r \in {RangeList(create_rangeset(image[simstep[2]]))} :
          range_map' = FoldLeft(LAMBDA m, x : MultiSet(m, x[1], x[2], simstep[2]), range_map, r)
    /\ UNCHANGED <<image, handled_inodes, matches>>

Coinciding(a) ==
    UNION {get_valuelist(range_map, r[1], r[2]) : r \in ToSet(RangeList(range_map[a]))}

LengthOf(data) == FoldLeft(LAMBDA n, r : n + r[2] - r[1], 0, RangeList(data))

\* Empty inodes are left out, and a pair that was seen from its other side.
MatchInode ==
    /\ simstep[1] = "matches" /\ NextInode("matches", "done")
    /\ LET a == simstep[2]
       IN  IF a \in handled_inodes \/ image[a].bytesize = 0
           THEN UNCHANGED <<handled_inodes, matches>>
           ELSE /\ handled_inodes' = handled_inodes \cup {a}
                /\ \E with \in {Coinciding(a) \ handled_inodes'} :
                      matches' = matches \cup
                         {<<a, b, LengthOf(intersect(range_map[a], range_map[b]))>> : b \in with}
    /\ UNCHANGED <<image, range_map>>

SimDone == simstep[1] = "done" /\ UNCHANGED simVars

SimNext == CreateRangeset \/ MatchInode \/ SimDone

-----------------------------------------------------------------------------
(* Properties.                                                               *)

\* The bytes of the fblocks that an inode covers.
BytesOf(ino) ==
    UNION {LET p == block_index(ino.blocks[k]) IN p .. p + SizeOf(ino, k) - 1 : k \in DOMAIN ino.blocks}

Shared(a, b) == Cardinality(BytesOf(image[a]) \cap BytesOf(image[b]))

\* The list of matches is what a comparison byte by byte gives: each pair of
\* inodes that have bytes in common once, with the number of these bytes.
MatchesRight ==
    simstep[1] = "done" =>
       matches = {<<p[1], p[2], Shared(p[1], p[2])>> : p \in
                     {q \in (DOMAIN image) \X (DOMAIN image) : q[1] < q[2] /\ Shared(q[1], q[2]) > 0}}
=============================================================================
