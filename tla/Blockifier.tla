----------------------------- MODULE Blockifier -----------------------------
(***************************************************************************)
(* cromfs_blockifier: from scheduled data sources to block numbers, data    *)
(* locators and fblocks (lib/cromfs-blockifier.{hh,cc}).                    *)
(*                                                                          *)
(* Sources (files, directories, symlinks, the inode table) are scheduled in *)
(* any order.  A flush sorts them, looks for identical blocks by hash,      *)
(* then gives every block a block number: the number of an identical block, *)
(* a new number for data the autoindex finds in a fblock, or a new number   *)
(* for data written over, or behind, the end of some fblock.                *)
(*                                                                          *)
(* Fblock and block numbers count from 1 here and from 0 in the code.       *)
(***************************************************************************)
EXTENDS Overlap

CONSTANTS
    Source,         \* the data sources, each named by its block number target
    SortKey,        \* order of (data class, name) of a source
    Byte,
    Zero,           \* the byte '\0'
    Hash(_),        \* newhash_calc; nothing but being a function is assumed
    Inputs,         \* possible [Source -> [data, blocksize]]
    Methods,        \* the values of --blockindexmethod considered
    Resume,         \* whether --resume-blockify finds a list saved by an earlier run
    BSizes,         \* BSIZE and the sizes of BSIZE_FOR, in increasing order; no
                    \* size of --bsize_for is ever compared with FSIZE
    AutoIndexStep   \* 1024*256: growth after which a fblock is indexed again

AllMethods == {"None", "BlanksOnly", "All", "All_Speedup", "All_Prepass",
               "Collect", "Collect_Speedup"}

ASSUME BlockifierParameters ==
    /\ SortKey \in [Source -> Nat]
    /\ Zero \in Byte
    /\ Inputs \subseteq [Source -> [data : Seq(Byte), blocksize : Nat \ {0}]]
    /\ Methods \subseteq AllMethods
    /\ Resume \in BOOLEAN
    /\ BSizes \in Seq(Nat \ {0})
    /\ AutoIndexStep \in Nat

VARIABLES
    input,          \* what each source delivers; never changes
    method,         \* BlockHashing_Method; never changes
    pass,           \* "open", "identical" or "blockify"
    schedule,       \* the requests, sorted once the flush began
    flushed,        \* the sources of the finished flushes
    loaded,         \* reuselist_already_loaded
    hash_duplicate, \* hashes the prepass saw more than once
    item, index,    \* loop position: schedule[item], block number `index' of it
    blocks_done,    \* blocks passed in this loop, over all sources
    where_list,     \* BlockWhereList: the first block of each schedule item
    full_hash_list, \* the hash of each block passed; also the bits of hash_seen
    blockhashlist,  \* set of <<hash, block>>: the index of blocks by hash
    identical_list, \* set of <<block, earlier identical block>>
    targets,        \* the block numbers written for each source
    blocks,         \* the data locators, by block number
    fblocks,        \* the raw bytes of each fblock
    space,          \* the free space index of mkcromfs_fblockset
    autoindex,      \* set of <<hash, locator>>
    last_autoindex_length   \* by fblock and block size

loopVars  == <<item, index, blocks_done, where_list>>
hashVars  == <<hash_duplicate, full_hash_list, blockhashlist, identical_list>>
storeVars == <<blocks, fblocks, space, autoindex, last_autoindex_length>>
vars == <<input, method, pass, schedule, flushed, loaded, loopVars, hashVars,
          targets, storeVars>>

-----------------------------------------------------------------------------
(* Blocks of a source.  All but the last have blocksize bytes.              *)

Data(s)      == input[s].data
BlockSize(s) == input[s].blocksize

Offset(s, k) == k * BlockSize(s)

Eat(s, k) == Smaller(BlockSize(s), Len(Data(s)) - Offset(s, k))

ReadSource(s, pos, n) == SubSeq(Data(s), pos + 1, pos + n)

Block(s, k) == ReadSource(s, Offset(s, k), Eat(s, k))

(* Mutant: a loop that stops before a last block that is not full.          *)
HasFullBlock(s, k) == Offset(s, k) + BlockSize(s) <= Len(Data(s))

(* for(offset=0; offset<nbytes; offset += blocksize) has not ended at k.    *)
HasBlock(s, k) == Offset(s, k) < Len(Data(s))

CalcSizeInBlocks(s) == (Len(Data(s)) + BlockSize(s) - 1) \div BlockSize(s)

(* is_zero_block looks for a zero byte and is true when there is none.      *)
IsZeroBlock(d) == \A i \in 1..Len(d) : d[i] # Zero

-----------------------------------------------------------------------------
(* BlockWhereList::Find: the schedule item and the block of it that block   *)
(* number w of the loop belongs to.  lower_bound finds the FIRST of several *)
(* items that begin at w, also when that one is an empty source.            *)
WhereFind(w) ==
    LET lb == FirstOf({i \in 1..Len(where_list) : where_list[i] >= w},
                      Len(where_list) + 1)
        i  == IF lb <= Len(where_list) /\ where_list[lb] = w THEN lb ELSE lb - 1
    IN  [source |-> schedule[i], index |-> w - where_list[i]]

(* Mutant: the search trusts the hash and does not compare the bytes.       *)
SameHashOnly(s, k, other) ==
    LET o == WhereFind(other)
    IN  /\ BlockSize(s) <= BlockSize(o.source)
        /\ Offset(o.source, o.index) + Eat(s, k) <= Len(Data(o.source))

(* The tests the identical-block search makes before it compares the bytes  *)
(* of block k of s with those of the earlier block `other'.                 *)
SameData(s, k, other) ==
    LET o == WhereFind(other)
        filepos == Offset(o.source, o.index)
    IN  /\ BlockSize(s) <= BlockSize(o.source)
        /\ filepos + Eat(s, k) <= Len(Data(o.source))
        /\ ReadSource(o.source, filepos, Eat(s, k)) = Block(s, k)

(* All the blocks of the schedule: what the prepass reads.                  *)
ScheduledBlocks ==
    UNION {{<<i, k>> : k \in 0..(CalcSizeInBlocks(schedule[i]) - 1)} :
              i \in 1..Len(schedule)}

DuplicateHashes ==
    {Hash(Block(schedule[b[1]], b[2])) : b \in
        {b \in ScheduledBlocks : \E c \in ScheduledBlocks \ {b} :
            Hash(Block(schedule[b[1]], b[2])) = Hash(Block(schedule[c[1]], c[2]))}}

-----------------------------------------------------------------------------
(* Locators and the autoindex.                                              *)

Locators(fbs) == [fblocknum : 1..Len(fbs), startoffs : Nat]

HoldsAt(fbs, loc, d) == Holds(fbs[loc.fblocknum], loc.startoffs, d)

(* TestAutoIndexMatch succeeds for an entry found under the hash.           *)
Indexed(ai, fbs, d) ==
    {loc \in {e[2] : e \in ai} :
        loc \in Locators(fbs) /\ <<Hash(d), loc>> \in ai /\ HoldsAt(fbs, loc, d)}

(* CreateReusingPlan: any of the matches, whichever thread reports first.   *)
ReusingPlans(d) == Indexed(autoindex, fblocks, d)

BytesAt(fbs, f, offs, n) == SubSeq(fbs[f], offs + 1, offs + n)

(* TryAutoIndex. *)
TryAutoIndex(ai, fbs, f, offs, bsize) ==
    LET d == BytesAt(fbs, f, offs, bsize)
    IN  IF Indexed(ai, fbs, d) # {} THEN ai
        ELSE ai \cup {<<Hash(d), [fblocknum |-> f, startoffs |-> offs]>>}

(* Where PredictiveAutoIndex looks in fblock f, f+1, ...: at offs, and where *)
(* the overhang over the fblock before points to.                           *)
LookAt(fbs, f, offs, bsize) ==
    LET pos[k \in 0..(Len(fbs) - f)] ==
            IF k = 0 THEN offs ELSE pos[k - 1] + bsize - Len(fbs[f + k - 1])
    IN  pos

(* PredictiveAutoIndex: index the first of these places that does not stick *)
(* out of its fblock.                                                       *)
PredictiveAutoIndex(ai, fbs, f, offs, bsize) ==
    LET pos  == LookAt(fbs, f, offs, bsize)
        fits == {k \in 0..(Len(fbs) - f) : pos[k] + bsize <= Len(fbs[f + k])}
        k    == FirstOf(fits, 0)
    IN  IF fits = {} THEN ai ELSE TryAutoIndex(ai, fbs, f + k, pos[k], bsize)

CalcAutoIndexCount(raw_size, bsize) ==
    IF raw_size - bsize + AutoIndexPeriod < 0 THEN 0
    ELSE (raw_size - bsize + AutoIndexPeriod) \div AutoIndexPeriod

(* AutoIndex and AutoIndexBetween: TryAutoIndex at the offsets not indexed   *)
(* yet, in steps of the period.  Each offset is added whose bytes were not  *)
(* indexed before, and of equal ones the first.                             *)
AutoIndex(ai, fbs, f, old_raw_size, bsize) ==
    LET offsets == {AutoIndexPeriod * i :
                      i \in CalcAutoIndexCount(old_raw_size, bsize)
                              ..(CalcAutoIndexCount(Len(fbs[f]), bsize) - 1)}
        bytes(o) == BytesAt(fbs, f, o, bsize)
        added == {o \in offsets : /\ Indexed(ai, fbs, bytes(o)) = {}
                                  /\ \A p \in offsets : p < o => bytes(p) # bytes(o)}
    IN  IF AutoIndexPeriod = 0 THEN ai
        ELSE ai \cup {<<Hash(bytes(o)), [fblocknum |-> f, startoffs |-> o]>> : o \in added}

(* Execute(WritePlan): a fblock is indexed again for a block size when it   *)
(* grew enough or is about to be full.  The second comparison is unsigned:  *)
(* it fails when FSIZE-MinimumFreeSpace-bsize is negative.                  *)
MustAutoIndex(last, size, bsize) ==
    \/ size - last >= AutoIndexStep
    \/ FSIZE - MinimumFreeSpace - bsize \in 0..size

AutoIndexUpTo(ai, fbs, f, last) ==
    LET upto[a \in 0..Len(BSizes)] ==
            IF a = 0 THEN ai
            ELSE IF MustAutoIndex(last[BSizes[a]], Len(fbs[f]), BSizes[a])
                 THEN AutoIndex(upto[a - 1], fbs, f, last[BSizes[a]], BSizes[a])
                 ELSE upto[a - 1]
    IN  upto

AutoIndexAll(ai, fbs, f, last) == AutoIndexUpTo(ai, fbs, f, last)[Len(BSizes)]

-----------------------------------------------------------------------------
Init ==
    /\ input \in Inputs
    /\ method \in Methods
    /\ pass = "open"
    /\ schedule = <<>> /\ flushed = {} /\ loaded = FALSE
    /\ item = 1 /\ index = 0 /\ blocks_done = 0 /\ where_list = <<>>
    /\ hash_duplicate = {} /\ full_hash_list = <<>>
    /\ blockhashlist = {} /\ identical_list = {}
    /\ targets = [s \in Source |-> <<>>]
    /\ blocks = <<>> /\ fblocks = <<>> /\ space = <<>>
    /\ autoindex = {} /\ last_autoindex_length = <<>>

(* mkcromfs makes one source per inode, so each is scheduled once.          *)
ScheduleBlockify(s) ==
    /\ pass = "open"
    /\ s \notin flushed /\ \A i \in 1..Len(schedule) : schedule[i] # s
    /\ schedule' = Append(schedule, s)
    /\ UNCHANGED <<input, method, pass, flushed, loaded, loopVars, hashVars,
                   targets, storeVars>>

(* The stable sort of FlushBlockifyRequests.                                *)
Sorts(perm) ==
    \A i, j \in 1..Len(schedule) : i < j =>
        LET x == SortKey[schedule[perm[i]]]
            y == SortKey[schedule[perm[j]]]
        IN  x < y \/ (x = y /\ perm[i] < perm[j])

(* FlushBlockifyRequests up to its first loop: sort, try to load a saved    *)
(* list of identical blocks, run the hash prepass when it is asked for.     *)
BeginFlush ==
    /\ pass = "open"
    /\ schedule # <<>>
    /\ \E perm \in [1..Len(schedule) -> 1..Len(schedule)] :
          /\ Sorts(perm)
          /\ schedule' = [i \in 1..Len(schedule) |-> schedule[perm[i]]]
    /\ pass' = "identical"
    /\ loaded' \in {FALSE, Resume}
    /\ UNCHANGED <<input, method, flushed, loopVars, full_hash_list, blockhashlist,
                   identical_list, targets, storeVars>>
    /\ hash_duplicate' = IF method = "All_Prepass" /\ ~loaded'
                         THEN DuplicateHashes' ELSE {}

-----------------------------------------------------------------------------
(* First loop: "Finding identical blocks" or "Mapping the block list".      *)

InLoop(p) == pass = p /\ item <= Len(schedule)

current == schedule[item]

(* where_list.Add; without a search the blocks are only counted.            *)
MapItem ==
    /\ InLoop("identical") /\ Len(where_list) = item - 1
    /\ where_list' = Append(where_list, blocks_done)
    /\ IF method = "None" \/ loaded
       THEN /\ blocks_done' = blocks_done + CalcSizeInBlocks(current)
            /\ item' = item + 1
       ELSE UNCHANGED <<blocks_done, item>>
    /\ UNCHANGED <<input, method, pass, schedule, flushed, loaded, index, hashVars,
                   targets, storeVars>>

SeenHash(h) == \E w \in 1..Len(full_hash_list) : full_hash_list[w] = h

(* do_checkhash = use_index: search in blockhashlist.                       *)
UseIndex(d) ==
    \/ method = "All"
    \/ method = "BlanksOnly"   /\ IsZeroBlock(d)
    \/ method = "All_Prepass"  /\ Hash(d) \in hash_duplicate
    \/ method = "All_Speedup"  /\ SeenHash(Hash(d))

(* do_checkhash = use_list: search in full_hash_list.                       *)
UseList(d) ==
    \/ method = "Collect"
    \/ method = "Collect_Speedup" /\ SeenHash(Hash(d))

(* Mutant: All_Speedup forgets the first block of a hash.                   *)
HashListAsIs(h) == blockhashlist

(* All_Speedup moves the first block of a hash to blockhashlist when the    *)
(* hash is met again.                                                       *)
HashListFor(h) ==
    IF method = "All_Speedup" /\ \A e \in blockhashlist : e[1] # h
    THEN blockhashlist \cup
           {<<h, FirstOf({w \in 0..(Len(full_hash_list) - 1) :
                             full_hash_list[w + 1] = h}, 0)>>}
    ELSE blockhashlist

(* The blocks the search compares with, by their number in this loop.       *)
Others(d) ==
    IF UseIndex(d) THEN {e[2] : e \in {x \in HashListFor(Hash(d)) : x[1] = Hash(d)}}
    ELSE IF UseList(d) THEN {w \in 0..(blocks_done - 1) : full_hash_list[w + 1] = Hash(d)}
    ELSE {}

(* One block of the search.  The threads stop at the first match, which may *)
(* be any; exactly one is recorded.                                         *)
FindIdentical ==
    /\ InLoop("identical") /\ Len(where_list) = item
    /\ HasBlock(current, index)
    /\ LET d == Block(current, index)
           same == {w \in Others(d) : SameData(current, index, w)}
       IN  /\ full_hash_list' = Append(full_hash_list, Hash(d))
           /\ \/ /\ same # {}
                 /\ \E other \in same :
                       identical_list' = identical_list \cup {<<blocks_done, other>>}
                 /\ blockhashlist' = IF UseIndex(d) THEN HashListFor(Hash(d))
                                     ELSE blockhashlist
              \/ /\ same = {}
                 /\ identical_list' = identical_list
                 /\ blockhashlist' =
                       IF UseIndex(d)
                       THEN HashListFor(Hash(d)) \cup {<<Hash(d), blocks_done>>}
                       ELSE blockhashlist
    /\ index' = index + 1
    /\ blocks_done' = blocks_done + 1
    /\ UNCHANGED <<input, method, pass, schedule, flushed, loaded, item, where_list,
                   hash_duplicate, targets, storeVars>>

(* The end of a source, in either loop.                                     *)
NextItem ==
    /\ \/ InLoop("identical") /\ Len(where_list) = item
       \/ InLoop("blockify")
    /\ ~HasBlock(current, index)
    /\ item' = item + 1 /\ index' = 0
    /\ UNCHANGED <<input, method, pass, schedule, flushed, loaded, blocks_done,
                   where_list, hashVars, targets, storeVars>>

(* What an earlier run over the same data can have saved: at most one       *)
(* verified earlier block for each block of the schedule.                   *)
SavedLists ==
    LET number(b) == where_list[b[1]] + b[2]
        valid == UNION {{<<number(b), o>> : o \in
                    {o \in 0..(number(b) - 1) : SameData(schedule[b[1]], b[2], o)}} :
                        b \in ScheduledBlocks}
    IN  {l \in SUBSET valid : \A e, f \in l : e[1] = f[1] => e = f}

EndIdentical ==
    /\ pass = "identical" /\ item > Len(schedule)
    /\ pass' = "blockify"
    /\ identical_list' \in IF loaded THEN SavedLists ELSE {identical_list}
    /\ item' = 1 /\ index' = 0 /\ blocks_done' = 0
    /\ UNCHANGED <<input, method, schedule, flushed, loaded, where_list,
                   hash_duplicate, full_hash_list, blockhashlist, targets, storeVars>>

-----------------------------------------------------------------------------
(* Second loop: "Blockifying".                                              *)

(* put_n into the target, and the next block.                               *)
PutBlockNumber(num) ==
    /\ targets' = [targets EXCEPT ![current] = Append(@, num)]
    /\ index' = index + 1
    /\ blocks_done' = blocks_done + 1
    /\ UNCHANGED <<input, method, pass, schedule, flushed, loaded, item, where_list,
                   hashVars>>

(* The reuse indication of this block still holds: the bytes are compared   *)
(* again, but not the block sizes.                                          *)
Reusable(other) ==
    LET o == WhereFind(other)
    IN  ReadSource(o.source, Offset(o.source, o.index), Eat(current, index))
          = Block(current, index)

ReuseIdentical ==
    /\ InLoop("blockify") /\ HasBlock(current, index)
    /\ \E e \in identical_list :
          /\ e[1] = blocks_done
          /\ Reusable(e[2])
          /\ LET o == WhereFind(e[2])
             IN  PutBlockNumber(targets[o.source][o.index + 1])
    /\ UNCHANGED storeVars

MustPlace ==
    /\ InLoop("blockify") /\ HasBlock(current, index)
    /\ \A e \in identical_list : e[1] = blocks_done => ~Reusable(e[2])

(* Execute(ReusingPlan).                                                    *)
ReuseIndexed ==
    /\ MustPlace
    /\ LET d == Block(current, index)
       IN  \E loc \in ReusingPlans(d) :
              /\ blocks' = Append(blocks, loc)
              /\ autoindex' =
                    PredictiveAutoIndex(autoindex \ {<<Hash(d), loc>>}, fblocks,
                        loc.fblocknum, loc.startoffs + Len(d), Len(d))
    /\ PutBlockNumber(Len(blocks) + 1)
    /\ UNCHANGED <<fblocks, space, last_autoindex_length>>

(* fblocks[fblocknum] creates the fblock when it does not exist yet.        *)
OldFblock(f) == IF f > Len(fblocks) THEN <<>> ELSE fblocks[f]

StoreRaw(f, h) ==
    IF f > Len(fblocks) THEN Append(fblocks, h) ELSE [fblocks EXCEPT ![f] = h]

SetAt(s, f, v) == IF f > Len(s) THEN Append(s, v) ELSE [s EXCEPT ![f] = v]

BSizeSet == {BSizes[i] : i \in DOMAIN BSizes}

NoneIndexed == [b \in BSizeSet |-> 0]

LastIndexed(f) ==
    IF f > Len(last_autoindex_length) THEN NoneIndexed ELSE last_autoindex_length[f]

(* Execute(WritePlan).                                                      *)
WriteAppended(plan, d) ==
    LET f   == plan.fblocknum
        old == OldFblock(f)
        new == PutAppendedRaw(old, plan.offset, d)
        stored == StoreRaw(f, new)
        last   == LastIndexed(f)
        after  == plan.offset + Len(d)
        predicted == IF after <= Len(old)
                     THEN PredictiveAutoIndex(autoindex, fblocks, f, after, Len(d))
                     ELSE autoindex
    IN  /\ fblocks' = stored
        /\ autoindex' = AutoIndexAll(predicted, stored, f, last)
        /\ last_autoindex_length' = SetAt(last_autoindex_length, f,
              [b \in BSizeSet |->
                  IF MustAutoIndex(last[b], Len(new), b) THEN Len(new) ELSE last[b]])
        /\ space' = SetAt(space, f, RoomLeft(Len(new)))
        /\ blocks' = Append(blocks, [fblocknum |-> f, startoffs |-> plan.offset])

WriteBlock ==
    /\ MustPlace
    /\ LET d == Block(current, index)
       IN  /\ ReusingPlans(d) = {}
           /\ \E plan \in WritePlans(fblocks, space, d) : WriteAppended(plan, d)
    /\ PutBlockNumber(Len(blocks) + 1)

(* schedule.clear(), and the end of the scope of the lists.                 *)
EndFlush ==
    /\ pass = "blockify" /\ item > Len(schedule)
    /\ pass' = "open" /\ loaded' = FALSE
    /\ flushed' = flushed \cup {schedule[i] : i \in 1..Len(schedule)}
    /\ schedule' = <<>>
    /\ item' = 1 /\ index' = 0 /\ blocks_done' = 0 /\ where_list' = <<>>
    /\ hash_duplicate' = {} /\ full_hash_list' = <<>>
    /\ blockhashlist' = {} /\ identical_list' = {}
    /\ UNCHANGED <<input, method, targets, storeVars>>

Next ==
    \/ \E s \in Source : ScheduleBlockify(s)
    \/ BeginFlush \/ MapItem \/ FindIdentical \/ NextItem \/ EndIdentical
    \/ ReuseIdentical \/ ReuseIndexed \/ WriteBlock \/ EndFlush

Spec == Init /\ [][Next]_vars

-----------------------------------------------------------------------------
(* Properties.                                                              *)

TypeOK ==
    /\ input \in Inputs /\ method \in Methods
    /\ pass \in {"open", "identical", "blockify"}
    /\ schedule \in Seq(Source) /\ flushed \subseteq Source /\ loaded \in BOOLEAN
    /\ item \in Nat \ {0} /\ index \in Nat /\ blocks_done \in Nat
    /\ where_list \in Seq(Nat)
    /\ identical_list \subseteq Nat \X Nat
    /\ targets \in [Source -> Seq(Nat)]
    /\ fblocks \in Seq(Seq(Byte))
    /\ blocks \in Seq([fblocknum : Nat, startoffs : Nat])
    /\ space \in Seq(Nat)

(* The image is right: every block number written into an inode names a     *)
(* locator at which the fblock holds the bytes of that block of the source, *)
(* whatever was appended, indexed or reused since it was written.           *)
LocatorsResolve ==
    \A s \in Source : \A i \in 1..Len(targets[s]) :
        /\ targets[s][i] \in 1..Len(blocks)
        /\ blocks[targets[s][i]].fblocknum \in 1..Len(fblocks)
        /\ HoldsAt(fblocks, blocks[targets[s][i]], Block(s, i - 1))

(* d is a block of a source whose blocks are larger than a fblock may be.   *)
OversizedBlock(d) ==
    \E s \in Source : /\ BlockSize(s) > FSIZE
                      /\ \E k \in 0..(CalcSizeInBlocks(s) - 1) : d = Block(s, k)

(* Appending keeps within FSIZE, whatever it overlaps with: a fblock of more *)
(* bytes is one block, larger than FSIZE itself, that was given a fblock of *)
(* its own, and to which nothing is ever appended.                          *)
FblocksFit ==
    \A f \in 1..Len(fblocks) : Len(fblocks[f]) <= FSIZE \/ OversizedBlock(fblocks[f])

(* What README.html:723 says of --fsize: "The maximum fblock size is        *)
(* mandated by the --fsize commandline parameter."                          *)
FsizeMandated == \A f \in 1..Len(fblocks) : Len(fblocks[f]) <= FSIZE

(* A recorded reuse names an earlier block, and once the block it is for    *)
(* was passed, the two have the same block number.                          *)
IdenticalListSound ==
    pass = "blockify" =>
      \A e \in identical_list :
        /\ e[2] < e[1]
        /\ e[1] < blocks_done =>
             \A i \in 1..Len(where_list) :
                e[1] - where_list[i] \in 0..(CalcSizeInBlocks(schedule[i]) - 1) =>
                  LET o == WhereFind(e[2])
                  IN  targets[schedule[i]][e[1] - where_list[i] + 1]
                        = targets[o.source][o.index + 1]

(* Locators already handed out stay good: fblocks only ever grow at their   *)
(* end and locators are never redefined (put_appended_raw, CreateNewBlock). *)
ExtendedBy(s, t) == Len(s) <= Len(t) /\ \A i \in 1..Len(s) : t[i] = s[i]

StoreGrows ==
    /\ ExtendedBy(blocks, blocks')
    /\ Len(fblocks) <= Len(fblocks')
    /\ \A f \in 1..Len(fblocks) : ExtendedBy(fblocks[f], fblocks'[f])

OnlyAppends == [][StoreGrows]_vars

(* Once a source is flushed, the block list the inode has room for is full, *)
(* no more and no less: CalcSizeInBlocks sized it before the loops ran.     *)
FlushComplete == \A s \in flushed : Len(targets[s]) = CalcSizeInBlocks(s)

(* The first block of schedule item i is hidden from BlockWhereList::Find   *)
(* by an empty source that sorts directly before it.                        *)
Shadowed(i) == i > 1 /\ Data(schedule[i - 1]) = <<>>

(* The blocks <<item, number>> of this flush that were given a number.      *)
Placed == {b \in ScheduledBlocks : b[2] < Len(targets[schedule[b[1]]])}

PlacedBefore(b) ==
    {c \in Placed : c[1] < b[1] \/ (c[1] = b[1] /\ c[2] < b[2])}

NumberOf(b) == targets[schedule[b[1]]][b[2] + 1]

BytesOf(b) == Block(schedule[b[1]], b[2])

(* The search compares b with c: the source of b has not the larger blocks, *)
(* and c can be found again under its number.                               *)
Comparable(b, c) ==
    /\ BlockSize(schedule[b[1]]) <= BlockSize(schedule[c[1]])
    /\ ~(c[2] = 0 /\ Shadowed(c[1]))

(* In a flush that searches all blocks, and reads no saved list, a block    *)
(* whose bytes a comparable block had before is not given a new number.     *)
(* Of equal blocks the code does store again, this excepts two kinds: those *)
(* seen before only as the first block of a source behind an empty one, and *)
(* those seen before only in sources of smaller blocks.                     *)
IdenticalBlocksMerged ==
    (/\ pass = "blockify" /\ ~loaded
     /\ method \in {"All", "All_Speedup", "All_Prepass", "Collect", "Collect_Speedup"}) =>
      \A b \in Placed :
        (\E c \in PlacedBefore(b) : BytesOf(c) = BytesOf(b) /\ Comparable(b, c))
          => \E c \in PlacedBefore(b) : NumberOf(c) = NumberOf(b)

(* The autoindex stays truthful while fblocks grow: every entry is the hash *)
(* of bytes that are still at the place it names.                           *)
AutoindexSound ==
    \A e \in autoindex :
        /\ e[2].fblocknum \in 1..Len(fblocks)
        /\ \E n \in 1..(Len(fblocks[e[2].fblocknum]) - e[2].startoffs) :
              e[1] = Hash(BytesAt(fblocks, e[2].fblocknum, e[2].startoffs, n))

(* Both ways to find a block again tell the truth, after any number of      *)
(* appends and flushes: the list of identical blocks and the autoindex.     *)
IndexesSound == IdenticalListSound /\ AutoindexSound

-----------------------------------------------------------------------------
(* The inductive invariant behind LocatorsResolve, FblocksFit and           *)
(* FlushComplete.                                                           *)

(* A source is in at most one flush, and has no block numbers before it is  *)
(* its turn to be blockified.                                               *)
ScheduleInv ==
    /\ \A i, j \in 1..Len(schedule) : schedule[i] = schedule[j] => i = j
    /\ \A i \in 1..Len(schedule) : schedule[i] \notin flushed
    /\ \A s \in Source \ flushed :
          targets[s] # <<>> => /\ pass = "blockify"
                               /\ \E i \in 1..Len(schedule) : i <= item /\ schedule[i] = s

(* where_list holds the running total of the sizes in blocks.               *)
WhereInv ==
    /\ Len(where_list) <= Len(schedule)
    /\ where_list # <<>> => where_list[1] = 0
    /\ \A i, j \in 1..Len(where_list) :
          i < j => where_list[i] + CalcSizeInBlocks(schedule[i]) <= where_list[j]
    /\ \A i \in 1..Len(where_list) :
          i + 1 <= Len(where_list) =>
            where_list[i + 1] = where_list[i] + CalcSizeInBlocks(schedule[i])

(* The loop positions: blocks_done is the number of block `index' of the    *)
(* current item, and an item is left only when its blocks are used up.      *)
LoopInv ==
    /\ pass = "open" =>
          where_list = <<>> /\ item = 1 /\ index = 0 /\ blocks_done = 0
    /\ pass = "identical" =>
          /\ item <= Len(schedule) + 1
          /\ Len(where_list) \in {item - 1, item}
          /\ Len(where_list) = item =>
                /\ blocks_done = where_list[item] + index
                /\ index <= CalcSizeInBlocks(schedule[item])
          /\ Len(where_list) = item - 1 =>
                /\ index = 0
                /\ item = 1 => blocks_done = 0
                /\ item > 1 => blocks_done = where_list[item - 1]
                                 + CalcSizeInBlocks(schedule[item - 1])
    /\ pass = "blockify" =>
          /\ item <= Len(schedule) + 1
          /\ Len(where_list) = Len(schedule)
          /\ item <= Len(schedule) =>
                /\ blocks_done = where_list[item] + index
                /\ index <= CalcSizeInBlocks(schedule[item])
                /\ Len(targets[schedule[item]]) = index
          /\ \A i \in 1..Len(schedule) : i < item =>
                Len(targets[schedule[i]]) = CalcSizeInBlocks(schedule[i])

(* The hash indexes and the reuse list only name earlier blocks, and a      *)
(* recorded reuse passed the tests for the block it is recorded for.        *)
IdenticalInv ==
    /\ \A e \in blockhashlist : e[2] \in Nat /\ (pass = "identical" => e[2] < blocks_done)
    /\ \A e \in identical_list :
          /\ e[2] < e[1]
          /\ pass = "identical" => e[1] < blocks_done
          /\ \A i \in 1..Len(where_list) :
                e[1] - where_list[i] \in 0..(CalcSizeInBlocks(schedule[i]) - 1)
                  => SameData(schedule[i], e[1] - where_list[i], e[2])
    /\ full_hash_list \in Seq({full_hash_list[w] : w \in DOMAIN full_hash_list})
    /\ pass = "identical" => Len(full_hash_list) <= blocks_done
    /\ pass = "open" => /\ blockhashlist = {} /\ identical_list = {}
                        /\ full_hash_list = <<>>

IndInv == /\ TypeOK /\ ScheduleInv /\ WhereInv /\ LoopInv /\ IdenticalInv
          /\ LocatorsResolve /\ FblocksFit /\ FlushComplete
=============================================================================
