--------------------------- MODULE OverlapSearch ---------------------------
(***************************************************************************)
(* CreateWritePlan step by step: the threads of ThreadWorkEngine::RunTasks  *)
(* run OverlapFindWorker on the candidate fblocks and compete for the       *)
(* SmallestInfo record (lib/cromfs-blockifier.cc).  Module Blockifier takes *)
(* the whole search as one step whose outcome is in WritePlans.             *)
(*                                                                          *)
(* RunTasks is the OpenMP 2.5 version, the one the build selects.           *)
(***************************************************************************)
EXTENDS Overlap

CONSTANTS
    Byte,       \* what fblocks and blocks consist of
    Thread,     \* the threads there may be
    Stores,     \* possible contents of the fblocks when the search begins
    Data        \* possible blocks

ASSUME SearchParameters ==
    /\ IsFiniteSet(Thread) /\ Thread # {}
    /\ \A s \in Stores : s \in Seq(Seq(Byte)) /\ \A f \in 1..Len(s) : Len(s[f]) <= FSIZE
    /\ \A d \in Data : d \in Seq(Byte) /\ Len(d) \in 1..FSIZE

VARIABLES
    team,       \* the threads of the parallel region; never changes
    data,       \* the block to place; never changes
    fbs,        \* the fblocks; nobody writes them during the search
    candidates, \* the fblocks to try, in the order of the vector
    next,       \* first iteration of the parallel loop not handed out yet
    chunk,      \* by thread: the iterations it has taken and not finished
    cancel,     \* the flag of RunTasks
    pc,         \* by thread: where it is in the loop body
    old_adds,   \* by thread: smallest_adds of FindOverlap
    info,       \* by thread: the AppendInfo FindOverlap computed
    smallest,   \* the SmallestInfo record
    plan        \* what CreateWritePlan returned, NoPlan before

vars == <<team, data, fbs, candidates, next, chunk, cancel, pc, old_adds, info, smallest, plan>>

NoPlan == [fblocknum |-> 0, offset |-> 0]

-----------------------------------------------------------------------------
Room == [f \in 1..Len(fbs) |-> RoomLeft(Len(fbs[f]))]

(* The order of the vector: the tightest holes, then the last fblocks.      *)
Before(f, g) ==
    LET i == Tightest(fbs, Room, Len(data) + MinimumFreeSpace)
        j == Tightest(fbs, Room, Len(data))
    IN  g # i /\ (f = i \/ (g # j /\ (f = j \/ f > g)))

(* The vector of the candidates: all of them, in this order.  There is only *)
(* one such list.                                                           *)
CandidateLists ==
    LET C == Candidates(fbs, Room, data)
    IN  {list \in [1..Cardinality(C) -> C] :
            /\ \A f \in C : \E a \in DOMAIN list : list[a] = f
            /\ \A a, b \in DOMAIN list : a < b => Before(list[a], list[b])}

Candidate(t) == candidates[Head(chunk[t])]

Init ==
    /\ team \in (SUBSET Thread) \ {{}}
    /\ data \in Data /\ fbs \in Stores
    /\ candidates \in CandidateLists
    /\ next = 1
    /\ chunk = [t \in Thread |-> <<>>]
    /\ cancel = FALSE
    /\ pc = [t \in Thread |-> IF t \in team THEN "loop" ELSE "end"]
    /\ old_adds = [t \in Thread |-> 0]
    /\ info = [t \in Thread |-> [OldSize |-> 0, AppendBaseOffset |-> 0, AppendedSize |-> 0]]
    /\ smallest = [found |-> 0, fblocknum |-> 0, adds |-> 0, offset |-> 0]
    /\ plan = NoPlan

-----------------------------------------------------------------------------
(* The parallel for loop, schedule(guided,1): a thread takes a share of the *)
(* iterations that are left, and leaves the loop when there are none.       *)
TakeChunk(t) ==
    LET left == Len(candidates) - next + 1
        n == (left + Cardinality(team) - 1) \div Cardinality(team)
    IN  /\ pc[t] = "loop" /\ chunk[t] = <<>>
        /\ IF left > 0
           THEN /\ chunk' = [chunk EXCEPT ![t] = [i \in 1..n |-> next + i - 1]]
                /\ next' = next + n
                /\ pc' = pc
           ELSE /\ pc' = [pc EXCEPT ![t] = "end"]
                /\ UNCHANGED <<chunk, next>>
        /\ UNCHANGED <<team, data, fbs, candidates, cancel, old_adds, info, smallest, plan>>

(* if(!cancel && DoWork(...)).  Nothing flushes the flag after it is set,   *)
(* so a thread may still see the old value.                                 *)
Iterate(t) ==
    /\ pc[t] = "loop" /\ chunk[t] # <<>>
    /\ \/ /\ pc' = [pc EXCEPT ![t] = "found"]
          /\ chunk' = chunk
       \/ /\ cancel
          /\ chunk' = [chunk EXCEPT ![t] = Tail(@)]
          /\ pc' = pc
    /\ UNCHANGED <<team, data, fbs, candidates, next, cancel, old_adds, info, smallest, plan>>

(* Mutant: the iteration is not counted.                                    *)
DoWorkAgain(t, res) ==
    /\ pc' = [pc EXCEPT ![t] = "loop"]
    /\ chunk' = chunk
    /\ cancel' = (cancel \/ res)

(* OverlapFindWorker returns: the next iteration, and the flag when asked.  *)
DoWorkReturns(t, res) ==
    /\ pc' = [pc EXCEPT ![t] = "loop"]
    /\ chunk' = [chunk EXCEPT ![t] = Tail(@)]
    /\ cancel' = (cancel \/ res)

-----------------------------------------------------------------------------
(* OverlapFindWorker.  The mutex of the parameters is held between its two  *)
(* looks at found; FindOverlap changes found under another mutex.           *)
GetFound(t) ==
    /\ pc[t] = "found"
    /\ \A u \in Thread : pc[u] # "necessary"
    /\ IF smallest.found = 2
       THEN DoWorkReturns(t, TRUE)
       ELSE /\ pc' = [pc EXCEPT ![t] = "necessary"]
            /\ UNCHANGED <<chunk, cancel>>
    /\ UNCHANGED <<team, data, fbs, candidates, next, old_adds, info, smallest, plan>>

(* The candidates up to the brute force limit are tried until a full        *)
(* overlap is found, the others only while nothing is found.                *)
Necessarity(a) == IF a <= MaxFblockCountForBruteForce THEN 2 ELSE 1

IsNecessary(t) ==
    /\ pc[t] = "necessary"
    /\ IF Necessarity(Head(chunk[t])) > smallest.found
       THEN /\ pc' = [pc EXCEPT ![t] = "adds"]
            /\ UNCHANGED <<chunk, cancel>>
       ELSE DoWorkReturns(t, FALSE)
    /\ UNCHANGED <<team, data, fbs, candidates, next, old_adds, info, smallest, plan>>

-----------------------------------------------------------------------------
(* FindOverlap.  It reads adds under the mutex of SmallestInfo ...          *)
ReadAdds(t) ==
    /\ pc[t] = "adds"
    /\ old_adds' = [old_adds EXCEPT ![t] = smallest.adds]
    /\ pc' = [pc EXCEPT ![t] = "search"]
    /\ UNCHANGED <<team, data, fbs, candidates, next, chunk, cancel, info, smallest, plan>>

(* Mutant: the limit is what was read, also when nothing was found yet.     *)
OldAdds(t) == old_adds[t]

(* ... and found later, without it.                                         *)
Limit(t) == IF smallest.found # 0 THEN old_adds[t] ELSE Len(data)

Search(t) ==
    LET h == fbs[Candidate(t)]
    IN  /\ pc[t] = "search"
        /\ IF Skipped(data, Limit(t), h)
           THEN /\ pc' = [pc EXCEPT ![t] = "return"]
                /\ info' = info
           ELSE /\ info' = [info EXCEPT ![t] = FindOverlap(data, Limit(t), h)]
                /\ pc' = [pc EXCEPT ![t] = "update"]
        /\ UNCHANGED <<team, data, fbs, candidates, next, chunk, cancel, old_adds, smallest, plan>>

(* Mutant: the last one to finish wins.                                     *)
AnyIsGood(t) == ThisIsGood(data, info[t])

(* this_is_good: the find fits and is better than the best so far.          *)
IsBetter(t) ==
    /\ ThisIsGood(data, info[t])
    /\ \/ smallest.found = 0
       \/ Adds(info[t]) < smallest.adds
       \/ Adds(info[t]) = smallest.adds /\ Candidate(t) < smallest.fblocknum

Update(t) ==
    /\ pc[t] = "update"
    /\ smallest' = IF IsBetter(t)
                   THEN [found |-> IF Adds(info[t]) = 0 THEN 2 ELSE 1,
                         fblocknum |-> Candidate(t),
                         adds |-> Adds(info[t]),
                         offset |-> info[t].AppendBaseOffset]
                   ELSE smallest
    /\ pc' = [pc EXCEPT ![t] = "return"]
    /\ UNCHANGED <<team, data, fbs, candidates, next, chunk, cancel, old_adds, info, plan>>

Return(t) ==
    /\ pc[t] = "return"
    /\ DoWorkReturns(t, smallest.found >= 2)
    /\ UNCHANGED <<team, data, fbs, candidates, next, old_adds, info, smallest, plan>>

-----------------------------------------------------------------------------
(* The barrier at the end of the loop, and the plan.                        *)
Decide ==
    /\ plan = NoPlan
    /\ \A t \in Thread : pc[t] = "end"
    /\ plan' = IF smallest.found # 0
               THEN [fblocknum |-> smallest.fblocknum, offset |-> smallest.offset]
               ELSE [fblocknum |-> Len(fbs) + 1, offset |-> 0]
    /\ UNCHANGED <<team, data, fbs, candidates, next, chunk, cancel, pc, old_adds, info, smallest>>

Step(t) ==
    \/ TakeChunk(t) \/ Iterate(t) \/ GetFound(t) \/ IsNecessary(t)
    \/ ReadAdds(t) \/ Search(t) \/ Update(t) \/ Return(t)

Next == Decide \/ \E t \in Thread : Step(t)

(* The threads of a parallel region run until they reach its barrier.       *)
Fairness == WF_vars(Decide) /\ \A t \in Thread : WF_vars(Step(t))

Spec == Init /\ [][Next]_vars /\ Fairness

-----------------------------------------------------------------------------
(* Properties.                                                              *)

(* However the threads interleave, CreateWritePlan ends with one of the     *)
(* plans that module Blockifier lets its atomic search return; in           *)
(* particular it starts a new fblock only when no candidate is good.        *)
PlanIsAllowed == plan # NoPlan => plan \in WritePlans(fbs, Room, data)

(* The candidates within the brute force limit.                             *)
PriorityCandidates ==
    {candidates[a] : a \in {a \in DOMAIN candidates : Necessarity(a) = 2}}

PlanAdds ==
    IF plan.fblocknum > Len(fbs) THEN Len(data)
    ELSE Larger(0, plan.offset + Len(data) - Len(fbs[plan.fblocknum]))

(* All the places in fblock f where the block could lie, overlapping what   *)
(* is there or behind it, without the fblock becoming too large.            *)
Fits(f) ==
    {p \in 0..Len(fbs[f]) :
        /\ Meets(fbs[f], p, data)
        /\ p + Len(data) <= IF p = Len(fbs[f]) THEN FSIZE - MinimumFreeSpace ELSE FSIZE}

AddsAt(f, p) == Larger(0, p + Len(data) - Len(fbs[f]))

(* A block that some candidate holds completely is never stored again: the  *)
(* race for SmallestInfo cannot lose a full overlap.                        *)
FullOverlapUsed ==
    plan # NoPlan =>
      ((\E f \in PriorityCandidates : \E p \in Fits(f) : AddsAt(f, p) = 0) => PlanAdds = 0)

(* No candidate within the limit would have reused more, except at a place  *)
(* that `missed' says.                                                      *)
BestFitUnless(missed(_, _)) ==
    plan # NoPlan =>
      \A f \in PriorityCandidates : \A p \in Fits(f) :
          PlanAdds <= AddsAt(f, p) \/ missed(f, p)

(* A partial overlap that would fill the fblock to exactly FSIZE bytes: the *)
(* search only takes overlaps longer than minimum_overlap.                  *)
FillsUp(f, p) == p < Len(fbs[f]) /\ p + Len(data) = FSIZE

(* A team of one finds the fit that reuses the maximum amount of data,      *)
(* short of one that fills a fblock up.                                     *)
BestFitAlone == Cardinality(team) = 1 => BestFitUnless(FillsUp)

(* "Check each candidate ... for the fit which reuses the maximum amount of *)
(* data" (the task description in CreateWritePlan), of any team.            *)
BestFitFound == BestFitUnless(FillsUp)

(* The search ends: no thread waits for another forever.                    *)
SearchEnds == <>(plan # NoPlan)

(* The race for SmallestInfo costs no full overlap with any team, and a     *)
(* team of one loses nothing.                                               *)
FitsUsed == FullOverlapUsed /\ BestFitAlone
=============================================================================
