----------------------------- MODULE MCThreads ------------------------------
(* The parts where threads share state, on small instances: the search for   *)
(* the best overlap, the driver's read, and the engine that runs the tasks.  *)
(* Each behaviour is one of the three; the other two are over, and stay so.  *)
EXTENDS OverlapSearch, ReadFile, WorkEngine, SequencesExt

CONSTANTS MaxLen, Writes, NumFblocks, NumBlocks, BlockSizes, ByteSizes, Offsets, ReadSizes

(* The search: fblocks that a few blocks left behind.                       *)
MCByte == {0, 1}

MCData == UNION {[1..n -> MCByte] : n \in 1..MaxLen}

(* The fblocks after one more block was written to them.                    *)
Write(store, d) ==
    LET room == [f \in 1..Len(store) |-> RoomLeft(Len(store[f]))]
    IN  {IF p.fblocknum > Len(store) THEN Append(store, d)
         ELSE [store EXCEPT ![p.fblocknum] = PutAppendedRaw(@, p.offset, d)] :
            p \in WritePlans(store, room, d)}

(* All that n blocks can leave behind.                                      *)
StoresAfter[n \in 0..Writes] ==
    IF n = 0 THEN {<<>>}
    ELSE UNION {UNION {Write(s, d) : d \in MCData} : s \in StoresAfter[n - 1]}

MCStores == StoresAfter[Writes]

-----------------------------------------------------------------------------
(* The driver: all the placements of the blocks of a file.                  *)
MCRequests == [offset : Offsets, size : ReadSizes]

(* Block b has the bytes 10*b, 10*b+1, ...                                  *)
BlockBytes(b, n) == [i \in 1..n |-> 10 * b + i - 1]

(* The fblocks when block b lies in fblock home[b]: the blocks one behind   *)
(* the other, each overlapping nothing.                                     *)
Layout(home, bsize) ==
    LET before(b) == {c \in 1..(b - 1) : home[c] = home[b]}
        inside(f) == SetToSortSeq({b \in 1..NumBlocks : home[b] = f}, LAMBDA x, y : x < y)
    IN  [fblktab |-> [f \in 1..NumFblocks |->
                        FoldLeft(LAMBDA h, b : h \o BlockBytes(b, bsize), <<>>, inside(f - 1))],
         blktab  |-> [b \in 1..NumBlocks |->
                        [fblocknum |-> home[b], startoffs |-> bsize * Cardinality(before(b))]]]

(* Files that use the blocks in the order of their numbers, some twice.     *)
BlockLists(n) ==
    {list \in [1..n -> 1..NumBlocks] :
        \A k \in 1..n : list[k] > 1 => \E j \in 1..(k - 1) : list[j] = list[k] - 1 \/ list[j] = list[k]}

(* Blocks that the file does not use lie in the first fblock.               *)
MCImages ==
    UNION {UNION {UNION {
        {[fblktab |-> l.fblktab, blktab |-> l.blktab, blocklist |-> list,
          bsize |-> bsize, bytesize |-> n] : list \in
            {list \in BlockLists((n + bsize - 1) \div bsize) :
               \A b \in 1..NumBlocks : l.blktab[b].fblocknum = 0 \/ \E k \in DOMAIN list : list[k] = b}} :
              l \in {Layout(home, bsize) : home \in [1..NumBlocks -> 0..(NumFblocks - 1)]}} :
                bsize \in BlockSizes} : n \in ByteSizes}

-----------------------------------------------------------------------------
(* Each part when it is over: no action of it can be taken.                 *)

(* A search that had no fblocks to look at.                                 *)
SearchOver ==
    /\ team = {CHOOSE t \in Thread : TRUE}
    /\ data = <<0>> /\ fbs = <<>> /\ candidates = <<>> /\ next = 1
    /\ chunk = [t \in Thread |-> <<>>] /\ cancel = FALSE
    /\ pc = [t \in Thread |-> "end"] /\ old_adds = [t \in Thread |-> 0]
    /\ info = [t \in Thread |-> [OldSize |-> 0, AppendBaseOffset |-> 0, AppendedSize |-> 0]]
    /\ smallest = [found |-> 0, fblocknum |-> 0, adds |-> 0, offset |-> 0]
    /\ plan = [fblocknum |-> 1, offset |-> 0]

(* The last read has returned.                                              *)
ReadsOver ==
    /\ readers = 1 /\ shift = "zero" /\ reads = MaxReads
    /\ image = [fblktab |-> <<>>, blktab |-> <<>>, blocklist |-> <<>>, bsize |-> 1, bytesize |-> 0]
    /\ request = [offset |-> 0, size |-> 0] /\ stage = "idle"
    /\ work = [t \in Reader |-> <<>>] /\ pos = [t \in Reader |-> 0]
    /\ loading = [t \in Reader |-> FALSE]
    /\ target = <<>> /\ result = 0 /\ loads = <<>> /\ cache = {}

(* The last call has returned.                                              *)
CallsOver ==
    /\ main = "idle" /\ calls = MaxCalls /\ threads = 0 /\ ends = 0
    /\ params = [init_ok |-> FALSE, done_ok |-> FALSE, num_inits |-> 0,
                 num_done |-> 0, num_doneconfirm |-> 0, work_index |-> 0,
                 num_totalworks |-> 0, cancelled |-> FALSE]
    /\ place = [w \in Worker |-> "none"] /\ cur = [w \in Worker |-> 0]
    /\ cancelflag = [w \in Worker |-> FALSE] /\ asleep = {} /\ pending = {}
    /\ runs = <<>> /\ wanted = FALSE /\ until = NoTeam /\ openmp = FALSE

MCInit ==
    \/ Init /\ ReadsOver /\ CallsOver
    \/ ReadInit /\ SearchOver /\ CallsOver
    \/ EngineInit /\ SearchOver /\ ReadsOver

MCNext ==
    \/ Next /\ UNCHANGED <<readVars, engineVars>>
    \/ ReadNext /\ UNCHANGED <<vars, engineVars>>
    \/ EngineNext /\ UNCHANGED <<vars, readVars>>

MCSpec ==
    /\ MCInit /\ [][MCNext]_<<vars, readVars, engineVars>>
    /\ Fairness /\ ReadFairness /\ EngineFairness
=============================================================================
