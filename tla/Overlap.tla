------------------------------ MODULE Overlap ------------------------------
(***************************************************************************)
(* Where a block may be put in a fblock: lib/append.cc (AnalyzeAppend),     *)
(* lib/boyermooreneedle.hh (the append searches), FindOverlap and           *)
(* CreateWritePlan in lib/cromfs-blockifier.cc and the raw write of         *)
(* lib/cromfs-fblockfun.cc (put_appended_raw).  A fblock is the sequence of *)
(* its raw bytes; offsets are zero-based as in the code, so the byte at     *)
(* offset p is h[p + 1].                                                    *)
(***************************************************************************)
EXTENDS Integers, Sequences, FiniteSets

CONSTANTS
    FSIZE,               \* maximum raw size of a fblock
    BSIZE,               \* the default block size
    MinimumFreeSpace,    \* room that only overlapping blocks may use
    OverlapGranularity,  \* step of the tail overlap search, 0 = no tail overlaps
    MaxFblockCountForBruteForce,    \* --bruteforcelimit
    AutoIndexPeriod      \* distance of the automatically indexed offsets, 0 = none

(* The checks of main() in util/mkcromfs.cc, lines 2215-2263. *)
ASSUME OverlapParameters ==
    /\ FSIZE \in Nat \ {0}
    /\ BSIZE \in 1..FSIZE
    /\ MinimumFreeSpace \in 0..(FSIZE - 1)
    /\ OverlapGranularity \in Nat
    /\ MaxFblockCountForBruteForce \in Nat
    /\ AutoIndexPeriod \in Nat

-----------------------------------------------------------------------------
(* Data d lies entirely inside h at offset p: the success of a memcmp that  *)
(* first made sure of having p + Len(d) bytes.                              *)
Holds(h, p, d) ==
    /\ p + Len(d) <= Len(h)
    /\ \A i \in 1..Len(d) : h[p + i] = d[i]

(* d agrees with h from offset p to the end of h: d may be stored at p by   *)
(* appending only what sticks out.                                          *)
Meets(h, p, d) ==
    \A i \in 1..Len(d) : p + i <= Len(h) => h[p + i] = d[i]

(* The least element of S, or default when there is none.                   *)
FirstOf(S, default) ==
    IF S = {} THEN default ELSE CHOOSE p \in S : \A q \in S : p <= q

Smaller(x, y) == IF x <= y THEN x ELSE y

Larger(x, y) == IF x >= y THEN x ELSE y

-----------------------------------------------------------------------------
(* BoyerMooreNeedle::SearchInTurbo from offset `from': the first complete   *)
(* occurrence of d, or Len(h).                                              *)
SearchInTurbo(h, from, d) ==
    FirstOf({p \in from..Len(h) : Holds(h, p, d)}, Len(h))

(* BoyerMooreNeedle::SearchInWithAppendOnly on the part of h that begins at *)
(* `from': the first offset, in steps of the granularity, from which the    *)
(* rest of h is a prefix of d and at least minimum_overlap + 1 bytes long.  *)
SearchInWithAppendOnly(h, from, d, minimum_overlap) ==
    LET base == Len(h) - Smaller(Len(h) - from, Len(d))
    IN  FirstOf({p \in base..(Len(h) - 1) :
                    /\ (p - base) % OverlapGranularity = 0
                    /\ p < Len(h) - minimum_overlap
                    /\ Meets(h, p, d)}, Len(h))

(* Where AnalyzeAppend puts d: over an occurrence at or after minimum_pos,  *)
(* else over the tail of h, else behind h.                                  *)
AppendBaseOffset(d, minimum_pos, minimum_overlap, h) ==
    LET hlen == Len(h)
        full == SearchInTurbo(h, minimum_pos, d)
        tail == IF OverlapGranularity = 0 THEN hlen
                ELSE SearchInWithAppendOnly(h, minimum_pos, d, minimum_overlap)
    IN  IF minimum_pos >= hlen THEN hlen
        ELSE IF minimum_pos > hlen - Smaller(hlen, Len(d)) THEN tail
        ELSE IF full # hlen THEN full ELSE tail

AnalyzeAppend(d, minimum_pos, minimum_overlap, h) ==
    LET base == AppendBaseOffset(d, minimum_pos, minimum_overlap, h)
    IN  [OldSize |-> Len(h), AppendBaseOffset |-> base,
         AppendedSize |-> Larger(Len(h), base + Len(d))]

-----------------------------------------------------------------------------
(* FindOverlap.  `limit' is how much the block may add to be of interest:   *)
(* Len(d) while nothing was found, what the best candidate adds afterwards. *)

MaxMayAdd(d, limit, h) ==
    Larger(0, IF Len(h) + limit > FSIZE THEN FSIZE - Len(h) ELSE limit)

(* The early return "No way this is going to work, skip this fblock". The  *)
(* history of tested positions is new for every block, so it is 0 here.     *)
Skipped(d, limit, h) ==
    \/ Len(d) - MaxMayAdd(d, limit, h) > Len(h)
    \/ Len(d) > Len(h) + MaxMayAdd(d, limit, h)

MinimumPos(d, h) ==
    IF AutoIndexPeriod = 1 /\ BSIZE = Len(d)
        THEN Larger(0, Len(h) - Len(d) + 1) ELSE 0

FindOverlap(d, limit, h) ==
    AnalyzeAppend(d, MinimumPos(d, h), Len(d) - MaxMayAdd(d, limit, h), h)

Adds(info) == info.AppendedSize - info.OldSize

(* Mutant: the size before the append is compared.                          *)
OldSizeIsGood(d, info) == info.OldSize <= FSIZE

(* this_is_good, before the comparison with the best candidate so far.      *)
ThisIsGood(d, info) ==
    info.AppendedSize <= IF Adds(info) = Len(d) THEN FSIZE - MinimumFreeSpace ELSE FSIZE

-----------------------------------------------------------------------------
(* CreateWritePlan.  fbs are the fblocks and space the free space index.    *)

(* Mutant: the reserve is subtracted instead of compared with.              *)
RoomLeftUnchecked(size) == FSIZE - size - MinimumFreeSpace

(* The room Execute(WritePlan) gives to UpdateFreeSpaceIndex.               *)
RoomLeft(size) ==
    IF FSIZE - size >= MinimumFreeSpace THEN FSIZE - size ELSE 0

(* FindFblockThatHasAtleastNbytesSpace: the tightest hole, 0 for none.      *)
Tightest(fbs, space, n) ==
    LET fit == {f \in 1..Len(fbs) : space[f] >= n}
    IN  FirstOf({f \in fit : \A g \in fit : space[f] <= space[g]}, 0)

FirstCandidates(fbs, space, d) ==
    LET i == Tightest(fbs, space, Len(d) + MinimumFreeSpace)
        j == Tightest(fbs, space, Len(d))
    IN  {i, j} \ {0}

(* The tightest holes, then the last fblocks up to the brute force limit.   *)
Candidates(fbs, space, d) ==
    LET first == FirstCandidates(fbs, space, d)
    IN  first \cup
          {f \in 1..Len(fbs) :
              Cardinality({g \in (f + 1)..Len(fbs) : g \notin first})
                + Cardinality(first) < MaxFblockCountForBruteForce}

(* The good finds a search of the candidates can end with.  The threads     *)
(* test a candidate against whatever limit is current when they get to it,  *)
(* so every limit up to Len(d) is allowed for (module OverlapSearch models  *)
(* the threads and shows that their result is one of these).                *)
GoodFits(fbs, space, d) ==
    {p \in Candidates(fbs, space, d) \X (0..Len(d)) :
        /\ ~Skipped(d, p[2], fbs[p[1]])
        /\ ThisIsGood(d, FindOverlap(d, p[2], fbs[p[1]]))}

(* When no candidate is good even without competition, the block starts a   *)
(* new fblock.                                                              *)
WritePlans(fbs, space, d) ==
    IF \E p \in GoodFits(fbs, space, d) : p[2] = Len(d)
    THEN {[fblocknum |-> p[1],
           offset |-> FindOverlap(d, p[2], fbs[p[1]]).AppendBaseOffset] :
             p \in GoodFits(fbs, space, d)}
    ELSE {[fblocknum |-> Len(fbs) + 1, offset |-> 0]}

-----------------------------------------------------------------------------
(* Mutant: the first byte that sticks out is not written.                   *)
PutAllButOne(h, base, d) == h \o SubSeq(d, Len(h) - base + 2, Len(d))

(* Mutant: the fblock is cut behind the block.                              *)
PutAndTruncate(h, base, d) == SubSeq(h, 1, base) \o d

(* put_appended_raw: only the bytes behind the end of the file are written. *)
PutAppendedRaw(h, base, d) ==
    h \o SubSeq(d, Len(h) - base + 1, Len(d))

=============================================================================
