------------------------ MODULE OverlapSearchProofs -------------------------
(***************************************************************************)
(* The race of the search threads for SmallestInfo, for every team, every   *)
(* contents of the fblocks and every setting of the parameters: what        *)
(* CreateWritePlan returns is a plan that module Blockifier allows for, and *)
(* a block that a fblock holds already is found there.                      *)
(***************************************************************************)
EXTENDS OverlapSearch, FiniteSetTheorems, SequenceTheorems, WellFoundedInduction, TLAPS

(* A find of block d in fblock h against the limit l.                       *)
GoodFind(d, h, l) == ~Skipped(d, l, h) /\ ThisIsGood(d, FindOverlap(d, l, h))

(* The block is in the fblock.                                              *)
HasBlock(h, d) == \E p \in 0..Len(h) : Holds(h, p, d)

Block(a) == fbs[candidates[a]]

(* The iteration for candidate a is over, and the race has not lost what it *)
(* found: nothing is found only if this candidate is no good, and a block   *)
(* that it holds is known to be held.                                       *)
Tried(a) ==
    /\ smallest.found = 0 => ~GoodFind(data, Block(a), Len(data))
    /\ AutoIndexPeriod # 1 /\ Necessarity(a) = 2 /\ HasBlock(Block(a), data) => smallest.found = 2

Taken(a) == \E t \in Thread : \E k \in DOMAIN chunk[t] : chunk[t][k] = a

Working == {"found", "necessary", "adds", "search", "update", "return"}

(* What the search works on never changes.                                  *)
Fixed ==
    /\ team \in (SUBSET Thread) \ {{}}
    /\ data \in Data /\ fbs \in Stores
    /\ candidates \in CandidateLists

Number == 1..Len(candidates)

LoopInv ==
    /\ next \in 1..(Len(candidates) + 1)
    /\ chunk \in [Thread -> Seq(Number)]
    /\ pc \in [Thread -> Working \cup {"loop", "end"}]
    /\ \A t \in Thread : pc[t] \in Working => chunk[t] # <<>>
    /\ \A t \in Thread : pc[t] = "end" => chunk[t] = <<>>
    /\ \A t \in team : pc[t] = "end" => next = Len(candidates) + 1

SmallestInv ==
    /\ smallest \in [found : 0..2, fblocknum : Nat, adds : 0..Len(data), offset : Nat]
    /\ cancel \in BOOLEAN /\ (cancel => smallest.found = 2)
    /\ smallest.found # 0 => (smallest.found = 2 <=> smallest.adds = 0)
    /\ smallest.found # 0 =>
         \E a \in Number : \E l \in 0..Len(data) :
            /\ GoodFind(data, Block(a), l)
            /\ smallest.fblocknum = candidates[a]
            /\ smallest.adds = Adds(FindOverlap(data, l, Block(a)))
            /\ smallest.offset = FindOverlap(data, l, Block(a)).AppendBaseOffset
    /\ smallest.found # 0 => \E a \in Number : GoodFind(data, Block(a), Len(data))

(* A thread that found something before anybody had searched without a      *)
(* limit.                                                                   *)
InfoInv ==
    /\ old_adds \in [Thread -> 0..Len(data)]
    /\ DOMAIN info = Thread
    /\ \A t \in Thread : pc[t] = "update" =>
         \E l \in 0..Len(data) :
            /\ smallest.found = 0 => l = Len(data)
            /\ ~Skipped(data, l, Block(Head(chunk[t])))
            /\ info[t] = FindOverlap(data, l, Block(Head(chunk[t])))

TriedInv ==
    /\ \A t \in Thread : pc[t] = "return" => Tried(Head(chunk[t]))
    /\ \A a \in 1..(next - 1) : Tried(a) \/ Taken(a)

PlanInv == PlanIsAllowed /\ (AutoIndexPeriod # 1 => FullOverlapUsed)

SearchInv == Fixed /\ LoopInv /\ SmallestInv /\ InfoInv /\ TriedInv /\ PlanInv

-----------------------------------------------------------------------------
(* What FindOverlap computes.                                               *)

(* A nonempty set of numbers has the least element FirstOf picks.           *)
LEMMA FirstOfInSet ==
    ASSUME NEW S, S \subseteq Nat, S # {}, NEW default
    PROVE  FirstOf(S, default) \in S /\ \A q \in S : FirstOf(S, default) <= q
<1>1. PICK x \in S : \A y \in S : ~(<<y, x>> \in OpToRel(<, Nat))
  BY WFMin, NatLessThanWellFounded, Zenon
<1>2. \A y \in S : x <= y
  <2> SUFFICES ASSUME NEW y \in S PROVE x <= y
    OBVIOUS
  <2>1. ~(<<y, x>> \in Nat \X Nat /\ <<y, x>>[1] < <<y, x>>[2])
    BY <1>1 DEF OpToRel
  <2> QED BY <2>1
<1>3. \E p \in S : \A q \in S : p <= q
  BY <1>2
<1> QED BY <1>3 DEF FirstOf

(* FirstOf returns an element or the default.                               *)
LEMMA FirstOfType ==
    ASSUME NEW S, S \subseteq Nat, NEW default
    PROVE  FirstOf(S, default) \in S \cup {default}
BY FirstOfInSet DEF FirstOf

(* Wherever AnalyzeAppend wants to put a block, the bytes the fblock has    *)
(* there already are bytes of the block: what is appended completes it.     *)
LEMMA AppendPositionMeets ==
    ASSUME NEW B, NEW h \in Seq(B), NEW d \in Seq(B), 
           NEW minimum_pos \in Nat, NEW minimum_overlap \in Int
    PROVE  LET p == AppendBaseOffset(d, minimum_pos, minimum_overlap, h)
           IN  p \in 0..Len(h) /\ Meets(h, p, d)
<1> DEFINE full == SearchInTurbo(h, minimum_pos, d)
           tail == SearchInWithAppendOnly(h, minimum_pos, d, minimum_overlap)
<1>1. Len(h) \in 0..Len(h) /\ Meets(h, Len(h), d)
  BY DEF Meets
<1>2. full \in 0..Len(h) /\ Meets(h, full, d)
  <2>1. full \in {p \in minimum_pos..Len(h) : Holds(h, p, d)} \cup {Len(h)}
    BY FirstOfType DEF SearchInTurbo
  <2> QED BY <1>1, <2>1 DEF Holds, Meets
<1>3. ASSUME minimum_pos < Len(h)
      PROVE  tail \in 0..Len(h) /\ Meets(h, tail, d)
  <2> DEFINE base == Len(h) - Smaller(Len(h) - minimum_pos, Len(d))
             S == {p \in base..(Len(h) - 1) :
                    /\ (p - base) % OverlapGranularity = 0
                    /\ p < Len(h) - minimum_overlap
                    /\ Meets(h, p, d)}
  <2>1. base \in Nat
    BY <1>3 DEF Smaller
  <2>2. S \subseteq Nat
    BY <2>1
  <2>3. tail \in S \cup {Len(h)}
    <3>1. tail = FirstOf(S, Len(h))
      BY DEF SearchInWithAppendOnly
    <3> HIDE DEF S
    <3> QED BY <2>2, <3>1, FirstOfType
  <2> QED BY <1>1, <2>1, <2>3
<1> HIDE DEF full, tail
<1>4. AppendBaseOffset(d, minimum_pos, minimum_overlap, h) \in {full, tail, Len(h)}
  BY DEF AppendBaseOffset, full, tail
<1>5. minimum_pos >= Len(h) => AppendBaseOffset(d, minimum_pos, minimum_overlap, h) = Len(h)
  BY DEF AppendBaseOffset
<1> QED BY <1>1, <1>2, <1>3, <1>4, <1>5

(* A find begins within the fblock or at its end, and adds no more than the *)
(* block.                                                                   *)
LEMMA FindOverlapType ==
    ASSUME NEW B, NEW h \in Seq(B), NEW d \in Seq(B), NEW l \in 0..Len(d)
    PROVE  /\ FindOverlap(d, l, h).AppendBaseOffset \in 0..Len(h)
           /\ Adds(FindOverlap(d, l, h)) \in 0..Len(d)
           /\ Adds(FindOverlap(d, l, h))
                = Larger(0, FindOverlap(d, l, h).AppendBaseOffset + Len(d) - Len(h))
<1> DEFINE m == MinimumPos(d, h)
           o == Len(d) - MaxMayAdd(d, l, h)
           p == AppendBaseOffset(d, m, o, h)
<1>1. m \in Nat
  BY DEF MinimumPos, Larger
<1>2. o \in Int
  BY OverlapParameters DEF MaxMayAdd, Larger
<1>3. p \in 0..Len(h)
  BY <1>1, <1>2, AppendPositionMeets
<1>4. FindOverlap(d, l, h) = [OldSize |-> Len(h), AppendBaseOffset |-> p,
                              AppendedSize |-> Larger(Len(h), p + Len(d))]
  BY DEF FindOverlap, AnalyzeAppend
<1> HIDE DEF p
<1> QED BY <1>3, <1>4 DEF Adds, Larger

(* A block that the fblock holds is found whatever the limit is, unless all *)
(* offsets are indexed and the search leaves complete occurrences out.      *)
LEMMA HeldBlockFound ==
    ASSUME NEW B, NEW h \in Seq(B), NEW d \in Seq(B), NEW l \in 0..Len(d),
           Len(d) >= 1, Len(h) <= FSIZE, AutoIndexPeriod # 1, HasBlock(h, d)
    PROVE  GoodFind(d, h, l) /\ Adds(FindOverlap(d, l, h)) = 0
<1> DEFINE o == Len(d) - MaxMayAdd(d, l, h)
           S == {q \in 0..Len(h) : Holds(h, q, d)}
           p == FirstOf(S, Len(h))
<1>1. PICK q \in 0..Len(h) : Holds(h, q, d)
  BY DEF HasBlock
<1>2. Len(d) <= Len(h)
  BY <1>1 DEF Holds
<1>3. MaxMayAdd(d, l, h) \in Nat
  BY OverlapParameters DEF MaxMayAdd, Larger
<1>4. ~Skipped(d, l, h)
  BY <1>2, <1>3 DEF Skipped
<1>5. MinimumPos(d, h) = 0
  BY DEF MinimumPos
<1>6. S # {} /\ S \subseteq Nat
  BY <1>1
<1>7. p \in S
  BY <1>6, FirstOfInSet
<1>8. p \in 0..Len(h) /\ p + Len(d) <= Len(h)
  BY <1>7 DEF Holds
<1>9. SearchInTurbo(h, 0, d) = p
  BY DEF SearchInTurbo
<1> HIDE DEF p, o
<1>10. AppendBaseOffset(d, 0, o, h) = p
  BY <1>2, <1>8, <1>9 DEF AppendBaseOffset, Smaller
<1>11. FindOverlap(d, l, h) = [OldSize |-> Len(h), AppendBaseOffset |-> p,
                               AppendedSize |-> Larger(Len(h), p + Len(d))]
  BY <1>5, <1>10 DEF FindOverlap, AnalyzeAppend, o
<1>12. Adds(FindOverlap(d, l, h)) = 0 /\ FindOverlap(d, l, h).AppendedSize = Len(h)
  BY <1>8, <1>11 DEF Adds, Larger
<1> QED BY <1>4, <1>12 DEF GoodFind, ThisIsGood

(* The share of the iterations that a thread takes: at least one, and never *)
(* more than there are.                                                     *)
LEMMA ShareWithin ==
    ASSUME NEW left \in Nat \ {0}, NEW c \in Nat \ {0}
    PROVE  (left + c - 1) \div c \in 1..left
<1> DEFINE q == (left + c - 1) \div c
<1>1. q \in Int /\ c * q <= left + c - 1 /\ left + c - 1 < c * q + c
  OBVIOUS
<1> HIDE DEF q
<1>2. q >= 1
  <2> SUFFICES ASSUME q <= 0 PROVE FALSE
    BY <1>1
  <2>1. c * q <= 0
    BY <1>1
  <2> QED BY <1>1, <2>1
<1>3. q <= left
  <2> SUFFICES ASSUME q >= left + 1 PROVE FALSE
    BY <1>1
  <2>1. c * q >= c * (left + 1)
    BY <1>1
  <2>2. c * (left + 1) = c * left + c /\ c * left >= left
    OBVIOUS
  <2> QED BY <1>1, <2>1, <2>2
<1> QED BY <1>1, <1>2, <1>3 DEF q

-----------------------------------------------------------------------------
(* The candidates.                                                          *)

(* Only fblocks there are are candidates.                                   *)
LEMMA CandidatesExist ==
    ASSUME NEW s \in Seq(Seq(Byte)), NEW space, NEW d \in Seq(Byte)
    PROVE  /\ Candidates(s, space, d) \subseteq 1..Len(s)
           /\ Cardinality(Candidates(s, space, d)) \in Nat
<1>1. ASSUME NEW n PROVE Tightest(s, space, n) \in 0..Len(s)
  <2> DEFINE fit == {f \in 1..Len(s) : space[f] >= n}
             S == {f \in fit : \A g \in fit : space[f] <= space[g]}
  <2>1. S \subseteq Nat /\ S \subseteq 1..Len(s)
    OBVIOUS
  <2>2. FirstOf(S, 0) \in S \cup {0}
    BY <2>1, FirstOfType
  <2>3. Tightest(s, space, n) = FirstOf(S, 0)
    BY DEF Tightest
  <2> HIDE DEF S
  <2>4. Len(s) \in Nat
    OBVIOUS
  <2>5. \A x \in S \cup {0} : x \in 0..Len(s)
    BY <2>1, <2>4
  <2> QED BY <2>2, <2>3, <2>5
<1>2. FirstCandidates(s, space, d) \subseteq 1..Len(s)
  BY <1>1 DEF FirstCandidates
<1>3. Candidates(s, space, d) \subseteq 1..Len(s)
  BY <1>2 DEF Candidates
<1>4. IsFiniteSet(1..Len(s))
  BY FS_Interval
<1> QED BY <1>3, <1>4, FS_Subset, FS_CardinalityType

(* What the rest of the proof needs of the input and of the vector.         *)
LEMMA FixedFacts ==
    ASSUME Fixed
    PROVE  /\ data \in Seq(Byte) /\ Len(data) \in 1..FSIZE
           /\ candidates \in Seq(1..Len(fbs))
           /\ \A a \in Number : /\ candidates[a] \in Candidates(fbs, Room, data)
                                /\ candidates[a] \in 1..Len(fbs)
                                /\ Block(a) \in Seq(Byte) /\ Len(Block(a)) <= FSIZE
           /\ \A f \in Candidates(fbs, Room, data) : \E a \in Number : candidates[a] = f
           /\ Cardinality(team) \in Nat \ {0}
           /\ fbs \in Seq(Seq(Byte))
<1> DEFINE C == Candidates(fbs, Room, data)
<1>1. data \in Seq(Byte) /\ Len(data) \in 1..FSIZE /\ fbs \in Seq(Seq(Byte))
      /\ \A f \in 1..Len(fbs) : Len(fbs[f]) <= FSIZE
  BY SearchParameters DEF Fixed
<1>2. C \subseteq 1..Len(fbs) /\ Cardinality(C) \in Nat
  BY <1>1, CandidatesExist
<1>3. candidates \in [1..Cardinality(C) -> C]
      /\ \A f \in C : \E a \in DOMAIN candidates : candidates[a] = f
  BY DEF Fixed, CandidateLists
<1> HIDE DEF C
<1>4. candidates \in Seq(C) /\ Len(candidates) = Cardinality(C)
  BY <1>2, <1>3
<1>5. candidates \in Seq(1..Len(fbs))
  <2>1. candidates \in [1..Cardinality(C) -> 1..Len(fbs)]
    BY <1>2, <1>3
  <2> QED BY <1>2, <2>1
<1>6. Number = DOMAIN candidates
  BY <1>4 DEF Number
<1>7. \A a \in Number : candidates[a] \in C /\ candidates[a] \in 1..Len(fbs)
                        /\ Block(a) \in Seq(Byte) /\ Len(Block(a)) <= FSIZE
  <2> SUFFICES ASSUME NEW a \in Number
               PROVE  candidates[a] \in C /\ candidates[a] \in 1..Len(fbs)
                      /\ Block(a) \in Seq(Byte) /\ Len(Block(a)) <= FSIZE
    OBVIOUS
  <2>1. candidates[a] \in C
    BY <1>3, <1>6
  <2>2. candidates[a] \in 1..Len(fbs)
    BY <1>2, <2>1
  <2>3. fbs[candidates[a]] \in Seq(Byte)
    BY <1>1, <2>2
  <2> QED BY <1>1, <2>1, <2>2, <2>3 DEF Block
<1>8. IsFiniteSet(team)
  BY SearchParameters, FS_Subset DEF Fixed
<1>9. Cardinality(team) \in Nat \ {0}
  <2>1. team # {}
    BY DEF Fixed
  <2>2. Cardinality(team) \in Nat
    BY <1>8, FS_CardinalityType
  <2>3. Cardinality(team) # 0
    BY <1>8, <2>1, FS_EmptySet
  <2> QED BY <2>2, <2>3
<1> QED BY <1>1, <1>3, <1>5, <1>6, <1>7, <1>9 DEF C

-----------------------------------------------------------------------------
(* Steps that leave a part of the state alone.                              *)

Frame == UNCHANGED <<team, data, fbs, candidates>>

LEMMA FrameKeeps ==
    ASSUME Fixed, Frame
    PROVE  /\ Fixed' /\ Number' = Number
           /\ \A a : Block(a)' = Block(a)
<1>1. team' = team /\ data' = data /\ fbs' = fbs /\ candidates' = candidates
  BY DEF Frame
<1>2. Room' = Room
  BY <1>1 DEF Room
<1>3. CandidateLists' = CandidateLists
  BY <1>1, <1>2 DEF CandidateLists, Before
<1> QED BY <1>1, <1>3 DEF Fixed, Number, Block

LEMMA PlanKeeps ==
    ASSUME PlanInv, Frame, plan' = plan
    PROVE  PlanInv'
<1>1. team' = team /\ data' = data /\ fbs' = fbs /\ candidates' = candidates
  BY DEF Frame
<1>2. Room' = Room
  BY <1>1 DEF Room
<1>3. PlanIsAllowed'
  BY <1>1, <1>2 DEF PlanInv, PlanIsAllowed
<1>4. PriorityCandidates' = PriorityCandidates
  BY <1>1, Zenon DEF PriorityCandidates
<1>5. PlanAdds' = PlanAdds
  BY <1>1, Zenon DEF PlanAdds
<1>6. ASSUME NEW f PROVE Fits(f)' = Fits(f) /\ \A p : AddsAt(f, p)' = AddsAt(f, p)
  BY <1>1, Zenon DEF Fits, AddsAt
<1>7. FullOverlapUsed' <=> FullOverlapUsed
  BY <1>4, <1>5, <1>6, Zenon DEF FullOverlapUsed
<1> QED BY <1>3, <1>7 DEF PlanInv

LEMMA SmallestKeeps ==
    ASSUME Fixed, SmallestInv, Frame, smallest' = smallest,
           cancel' \in BOOLEAN, cancel' => smallest.found = 2
    PROVE  SmallestInv'
<1>1. data' = data /\ fbs' = fbs /\ candidates' = candidates
  BY DEF Frame
<1> QED BY <1>1 DEF SmallestInv, Number, Block

LEMMA TriedKeeps ==
    ASSUME Frame, smallest' = smallest, NEW a, Tried(a)
    PROVE  Tried(a)'
<1>1. data' = data /\ fbs' = fbs /\ candidates' = candidates
  BY DEF Frame
<1> QED BY <1>1 DEF Tried, Block

(* A thread goes on with its candidate.                                     *)
LEMMA MoveKeeps ==
    ASSUME SearchInv, Frame, NEW t \in Thread, NEW x \in Working \ {"update", "return"},
           pc' = [pc EXCEPT ![t] = x], chunk[t] # <<>>, chunk' = chunk, next' = next,
           smallest' = smallest, info' = info, old_adds' \in [Thread -> 0..Len(data)]
    PROVE  LoopInv' /\ InfoInv' /\ TriedInv'
<1>1. team' = team /\ data' = data /\ fbs' = fbs /\ candidates' = candidates
  BY DEF Frame
<1>2. Number' = Number /\ \A a : Block(a)' = Block(a)
  BY FrameKeeps DEF SearchInv
<1>3. pc \in [Thread -> Working \cup {"loop", "end"}]
  BY DEF SearchInv, LoopInv
<1>4. \A u \in Thread : pc'[u] = IF u = t THEN x ELSE pc[u]
  BY <1>3
<1>5. x # "update" /\ x # "return" /\ x # "end" /\ x \in Working
  BY DEF Working
<1>6. LoopInv'
  <2>1. pc' \in [Thread -> Working \cup {"loop", "end"}]
    BY <1>3, <1>5
  <2>2. \A u \in team : u \in Thread
    BY DEF SearchInv, Fixed
  <2> QED BY <1>1, <1>2, <1>4, <1>5, <2>1, <2>2 DEF SearchInv, LoopInv
<1>7. InfoInv'
  BY <1>1, <1>2, <1>4, <1>5 DEF SearchInv, InfoInv
<1>8. TriedInv'
  <2>1. \A u \in Thread : pc'[u] = "return" => Tried(Head(chunk[u]))
    BY <1>4, <1>5 DEF SearchInv, TriedInv
  <2>2. \A u \in Thread : pc'[u] = "return" => Tried(Head(chunk[u]))'
    BY <1>1, <2>1 DEF Tried, Block
  <2>3. \A a \in 1..(next - 1) : Tried(a) \/ Taken(a)
    BY DEF SearchInv, TriedInv
  <2>4. \A a : Taken(a)' <=> Taken(a)
    BY DEF Taken
  <2>5. \A a \in 1..(next - 1) : Tried(a)' \/ Taken(a)'
    BY <2>3, <2>4, TriedKeeps
  <2> QED BY <2>2, <2>5 DEF TriedInv
<1> QED BY <1>6, <1>7, <1>8

(* A thread is done with its candidate.                                     *)
LEMMA LeaveKeeps ==
    ASSUME SearchInv, Frame, NEW t \in Thread,
           pc' = [pc EXCEPT ![t] = "loop"], chunk[t] # <<>>,
           chunk' = [chunk EXCEPT ![t] = Tail(@)], Tried(Head(chunk[t])), next' = next,
           smallest' = smallest, info' = info, old_adds' = old_adds, pc[t] # "end"
    PROVE  LoopInv' /\ InfoInv' /\ TriedInv'
<1>1. team' = team /\ data' = data /\ fbs' = fbs /\ candidates' = candidates
  BY DEF Frame
<1>2. Number' = Number /\ \A a : Block(a)' = Block(a)
  BY FrameKeeps DEF SearchInv
<1>3. pc \in [Thread -> Working \cup {"loop", "end"}] /\ chunk \in [Thread -> Seq(Number)]
  BY DEF SearchInv, LoopInv
<1>4. \A u \in Thread : pc'[u] = IF u = t THEN "loop" ELSE pc[u]
  BY <1>3
<1>5. \A u \in Thread : chunk'[u] = IF u = t THEN Tail(chunk[t]) ELSE chunk[u]
  BY <1>3
<1>6. Tail(chunk[t]) \in Seq(Number)
  BY <1>3, HeadTailProperties
<1>7. LoopInv'
  <2>1. pc' \in [Thread -> Working \cup {"loop", "end"}] /\ chunk' \in [Thread -> Seq(Number)]
    BY <1>3, <1>6
  <2>2. \A u \in team : u \in Thread
    BY DEF SearchInv, Fixed
  <2>3. "loop" \notin Working
    BY DEF Working
  <2> QED BY <1>1, <1>2, <1>4, <1>5, <2>1, <2>2, <2>3 DEF SearchInv, LoopInv
<1>8. InfoInv'
  BY <1>1, <1>2, <1>4, <1>5 DEF SearchInv, InfoInv
<1>9. TriedInv'
  <2>1. \A u \in Thread : pc'[u] = "return" => Tried(Head(chunk'[u]))
    BY <1>4, <1>5 DEF SearchInv, TriedInv
  <2>2. \A u \in Thread : pc'[u] = "return" => Tried(Head(chunk[u]))'
    BY <1>1, <2>1 DEF Tried, Block
  <2>3. ASSUME NEW a \in 1..(next - 1) PROVE Tried(a)' \/ Taken(a)'
    <3>1. CASE Tried(a)
      BY <3>1, TriedKeeps
    <3>2. CASE ~Tried(a)
      <4>1. Taken(a)
        BY <3>2 DEF SearchInv, TriedInv
      <4>2. PICK u \in Thread : \E k \in DOMAIN chunk[u] : chunk[u][k] = a
        BY <4>1 DEF Taken
      <4>3. PICK k \in DOMAIN chunk[u] : chunk[u][k] = a
        BY <4>2
      <4>4. CASE u # t
        <5>1. chunk'[u] = chunk[u]
          BY <1>5, <4>4
        <5> QED BY <4>3, <5>1 DEF Taken
      <4>5. CASE u = t
        <5>1. chunk[t] \in Seq(Number) /\ k \in 1..Len(chunk[t]) /\ chunk[t][k] = a
          BY <1>3, <4>3, <4>5
        <5>2. k # 1
          BY <3>2, <5>1
        <5>3. Len(Tail(chunk[t])) = Len(chunk[t]) - 1
              /\ \A i \in 1..Len(Tail(chunk[t])) : Tail(chunk[t])[i] = chunk[t][i + 1]
          BY <1>3, HeadTailProperties
        <5>4. k - 1 \in DOMAIN Tail(chunk[t]) /\ Tail(chunk[t])[k - 1] = a
          BY <1>6, <5>1, <5>2, <5>3
        <5>5. chunk'[t] = Tail(chunk[t])
          BY <1>5
        <5> QED BY <5>4, <5>5 DEF Taken
      <4> QED BY <4>4, <4>5
    <3> QED BY <3>1, <3>2
  <2> QED BY <2>2, <2>3 DEF TriedInv
<1> QED BY <1>7, <1>8, <1>9

-----------------------------------------------------------------------------
(* The steps.                                                               *)

LEMMA TakeChunkKeeps ==
    ASSUME SearchInv, NEW t \in Thread, TakeChunk(t)
    PROVE  SearchInv'
<1> DEFINE left == Len(candidates) - next + 1
           n == (left + Cardinality(team) - 1) \div Cardinality(team)
           taken == [i \in 1..n |-> next + i - 1]
<1>0. /\ Frame /\ pc[t] = "loop" /\ chunk[t] = <<>>
      /\ plan' = plan /\ smallest' = smallest /\ cancel' = cancel /\ info' = info /\ old_adds' = old_adds
  BY DEF TakeChunk, Frame
<1>1. team' = team /\ data' = data /\ fbs' = fbs /\ candidates' = candidates
  BY <1>0 DEF Frame
<1>2. Fixed' /\ Number' = Number /\ \A a : Block(a)' = Block(a)
  BY <1>0, FrameKeeps DEF SearchInv
<1>3. SmallestInv' /\ PlanInv'
  BY <1>0, SmallestKeeps, PlanKeeps DEF SearchInv, SmallestInv
<1>4. pc \in [Thread -> Working \cup {"loop", "end"}] /\ chunk \in [Thread -> Seq(Number)]
      /\ next \in 1..(Len(candidates) + 1) /\ Len(candidates) \in Nat
  BY FixedFacts DEF SearchInv, LoopInv
<1>5. \A u \in team : u \in Thread
  BY DEF SearchInv, Fixed
<1>6. CASE left > 0
  <2>1. pc' = pc /\ next' = next + n /\ chunk' = [chunk EXCEPT ![t] = taken]
    BY <1>6 DEF TakeChunk
  <2>2. n \in 1..left
    <3>1. left \in Nat \ {0} /\ Cardinality(team) \in Nat \ {0}
      BY <1>4, <1>6, FixedFacts DEF SearchInv
    <3> HIDE DEF left
    <3> QED BY <3>1, ShareWithin
  <2> HIDE DEF n
  <2>3. taken \in Seq(Number) /\ DOMAIN taken = 1..n /\ \A i \in 1..n : taken[i] = next + i - 1
    <3>1. \A i \in 1..n : next + i - 1 \in Number
      BY <1>4, <2>2 DEF Number
    <3>2. taken \in [1..n -> Number]
      BY <3>1
    <3> QED BY <2>2, <3>2
  <2>4. taken # <<>>
    BY <2>2, <2>3
  <2> HIDE DEF taken
  <2>5. \A u \in Thread : chunk'[u] = IF u = t THEN taken ELSE chunk[u]
    BY <1>4, <2>1
  <2>6. LoopInv'
    <3>1. chunk' \in [Thread -> Seq(Number)]
      BY <1>4, <2>1, <2>3
    <3>2. next' \in 1..(Len(candidates) + 1)
      BY <1>4, <2>1, <2>2
    <3>3. \A u \in team : pc[u] # "end"
      BY <1>4, <1>6, <2>1, <2>2 DEF SearchInv, LoopInv
    <3>4. "loop" \notin Working
      BY DEF Working
    <3> QED BY <1>0, <1>1, <1>2, <1>4, <1>5, <2>1, <2>5, <3>1, <3>2, <3>3, <3>4 DEF SearchInv, LoopInv
  <2>7. InfoInv'
    BY <1>0, <1>1, <1>2, <2>1, <2>5 DEF SearchInv, InfoInv
  <2>8. TriedInv'
    <3>1. \A u \in Thread : pc'[u] = "return" => Tried(Head(chunk'[u]))
      BY <1>0, <2>1, <2>5 DEF SearchInv, TriedInv
    <3>2. \A u \in Thread : pc'[u] = "return" => Tried(Head(chunk[u]))'
      BY <1>0, <1>1, <3>1 DEF Tried, Block
    <3>3. ASSUME NEW a \in 1..(next' - 1) PROVE Tried(a)' \/ Taken(a)'
      <4>1. CASE a \in 1..(next - 1) /\ Tried(a)
        BY <1>0, <4>1, TriedKeeps
      <4>2. CASE a \in 1..(next - 1) /\ ~Tried(a)
        <5>1. Taken(a)
          BY <4>2 DEF SearchInv, TriedInv
        <5>2. PICK u \in Thread : \E k \in DOMAIN chunk[u] : chunk[u][k] = a
          BY <5>1 DEF Taken
        <5>3. u # t
          BY <1>0, <5>2
        <5>4. chunk'[u] = chunk[u]
          BY <2>5, <5>3
        <5> QED BY <5>2, <5>4 DEF Taken
      <4>3. CASE a \notin 1..(next - 1)
        <5>1. a - next + 1 \in 1..n
          BY <1>4, <2>1, <2>2, <4>3
        <5>2. taken[a - next + 1] = a
          BY <1>4, <2>3, <5>1
        <5>3. a - next + 1 \in DOMAIN chunk'[t] /\ chunk'[t][a - next + 1] = a
          BY <2>3, <2>5, <5>1, <5>2
        <5> QED BY <5>3 DEF Taken
      <4> QED BY <4>1, <4>2, <4>3
    <3> QED BY <3>2, <3>3 DEF TriedInv
  <2> QED BY <1>2, <1>3, <2>6, <2>7, <2>8 DEF SearchInv
<1>7. CASE ~(left > 0)
  <2>1. pc' = [pc EXCEPT ![t] = "end"] /\ next' = next /\ chunk' = chunk
    BY <1>7 DEF TakeChunk
  <2>2. next = Len(candidates) + 1
    BY <1>4, <1>7
  <2>3. \A u \in Thread : pc'[u] = IF u = t THEN "end" ELSE pc[u]
    BY <1>4, <2>1
  <2>4. LoopInv'
    <3>1. pc' \in [Thread -> Working \cup {"loop", "end"}]
      BY <1>4, <2>1
    <3>2. "end" \notin Working
      BY DEF Working
    <3> QED BY <1>0, <1>1, <1>2, <1>5, <2>1, <2>2, <2>3, <3>1, <3>2 DEF SearchInv, LoopInv
  <2>5. InfoInv'
    BY <1>0, <1>1, <1>2, <2>1, <2>3 DEF SearchInv, InfoInv
  <2>6. TriedInv'
    <3>1. \A u \in Thread : pc'[u] = "return" => Tried(Head(chunk[u]))
      BY <2>3 DEF SearchInv, TriedInv
    <3>2. \A u \in Thread : pc'[u] = "return" => Tried(Head(chunk[u]))'
      BY <1>0, <1>1, <2>1, <3>1 DEF Tried, Block
    <3>3. \A a : Taken(a)' <=> Taken(a)
      BY <2>1 DEF Taken
    <3>4. \A a \in 1..(next - 1) : Tried(a) \/ Taken(a)
      BY DEF SearchInv, TriedInv
    <3>5. \A a \in 1..(next - 1) : Tried(a)' \/ Taken(a)'
      BY <1>0, <3>3, <3>4, TriedKeeps
    <3> QED BY <2>1, <3>2, <3>5 DEF TriedInv
  <2> QED BY <1>2, <1>3, <2>4, <2>5, <2>6 DEF SearchInv
<1> QED BY <1>6, <1>7

(* Once a full overlap is found nothing is left to find.                    *)
LEMMA TriedWhenFull ==
    ASSUME smallest.found = 2, NEW a
    PROVE  Tried(a)
BY DEF Tried

(* An iteration that begins, or that the flag prevents.                     *)
LEMMA IterateKeeps ==
    ASSUME SearchInv, NEW t \in Thread, Iterate(t)
    PROVE  SearchInv'
<1>0. /\ Frame /\ pc[t] = "loop" /\ chunk[t] # <<>> /\ next' = next
      /\ plan' = plan /\ smallest' = smallest /\ cancel' = cancel /\ info' = info /\ old_adds' = old_adds
  BY DEF Iterate, Frame
<1>1. Fixed' /\ SmallestInv' /\ PlanInv'
  BY <1>0, FrameKeeps, SmallestKeeps, PlanKeeps DEF SearchInv, SmallestInv
<1>2. CASE pc' = [pc EXCEPT ![t] = "found"] /\ chunk' = chunk
  <2>1. "found" \in Working \ {"update", "return"} /\ old_adds' \in [Thread -> 0..Len(data)]
    BY <1>0 DEF Working, SearchInv, InfoInv
  <2>2. LoopInv' /\ InfoInv' /\ TriedInv'
    BY <1>0, <1>2, <2>1, MoveKeeps
  <2> QED BY <1>1, <2>2 DEF SearchInv
<1>3. CASE cancel /\ chunk' = [chunk EXCEPT ![t] = Tail(@)] /\ pc' = pc
  <2>1. Tried(Head(chunk[t]))
    BY <1>3, TriedWhenFull DEF SearchInv, SmallestInv
  <2>2. pc' = [pc EXCEPT ![t] = "loop"]
    BY <1>0, <1>3 DEF SearchInv, LoopInv
  <2>3. LoopInv' /\ InfoInv' /\ TriedInv'
    BY <1>0, <1>3, <2>1, <2>2, LeaveKeeps
  <2> QED BY <1>1, <2>3 DEF SearchInv
<1> QED BY <1>2, <1>3 DEF Iterate

(* The way back to the loop, with a candidate that is tried.                *)
LEMMA ReturnsKeeps ==
    ASSUME SearchInv, NEW t \in Thread, NEW res \in BOOLEAN, DoWorkReturns(t, res), Frame,
           pc[t] \in Working, Tried(Head(chunk[t])), res => smallest.found = 2,
           next' = next, plan' = plan, smallest' = smallest, info' = info, old_adds' = old_adds
    PROVE  SearchInv'
<1>1. /\ pc' = [pc EXCEPT ![t] = "loop"] /\ chunk' = [chunk EXCEPT ![t] = Tail(@)]
      /\ cancel' = (cancel \/ res)
  BY DEF DoWorkReturns
<1>2. chunk[t] # <<>> /\ pc[t] # "end"
  BY DEF SearchInv, LoopInv, Working
<1>3. LoopInv' /\ InfoInv' /\ TriedInv'
  BY <1>1, <1>2, LeaveKeeps
<1>4. cancel' \in BOOLEAN /\ (cancel' => smallest.found = 2)
  BY <1>1 DEF SearchInv, SmallestInv
<1>5. Fixed' /\ SmallestInv' /\ PlanInv'
  BY <1>4, FrameKeeps, SmallestKeeps, PlanKeeps DEF SearchInv
<1> QED BY <1>3, <1>5 DEF SearchInv

(* The first looks at SmallestInfo.                                         *)
LEMMA LookKeeps ==
    ASSUME SearchInv, NEW t \in Thread, GetFound(t) \/ IsNecessary(t) \/ ReadAdds(t) \/ Return(t)
    PROVE  SearchInv'
<1>0. /\ Frame /\ next' = next /\ plan' = plan /\ smallest' = smallest /\ info' = info
      /\ pc[t] \in Working /\ chunk[t] # <<>>
  BY DEF GetFound, IsNecessary, ReadAdds, Return, Frame, Working, SearchInv, LoopInv
<1>1. Fixed' /\ PlanInv'
  BY <1>0, FrameKeeps, PlanKeeps DEF SearchInv
<1>2. smallest.found \in 0..2 /\ smallest.adds \in 0..Len(data) /\ cancel \in BOOLEAN
      /\ (cancel => smallest.found = 2)
  BY DEF SearchInv, SmallestInv
<1>3. old_adds \in [Thread -> 0..Len(data)]
  BY DEF SearchInv, InfoInv
<1>4. ASSUME NEW x \in Working \ {"update", "return"}, pc' = [pc EXCEPT ![t] = x],
             chunk' = chunk, cancel' = cancel, old_adds' \in [Thread -> 0..Len(data)]
      PROVE  SearchInv'
  <2>1. LoopInv' /\ InfoInv' /\ TriedInv'
    BY <1>0, <1>4, MoveKeeps
  <2>2. SmallestInv'
    BY <1>0, <1>2, <1>4, SmallestKeeps DEF SearchInv
  <2> QED BY <1>1, <2>1, <2>2 DEF SearchInv
<1>5. CASE GetFound(t)
  <2>1. old_adds' = old_adds
    BY <1>5 DEF GetFound
  <2>2. CASE smallest.found = 2
    <3>1. DoWorkReturns(t, TRUE)
      BY <1>5, <2>2 DEF GetFound
    <3>2. Tried(Head(chunk[t]))
      BY <2>2, TriedWhenFull
    <3> QED BY <1>0, <2>1, <2>2, <3>1, <3>2, ReturnsKeeps
  <2>3. CASE smallest.found # 2
    <3>1. pc' = [pc EXCEPT ![t] = "necessary"] /\ chunk' = chunk /\ cancel' = cancel
      BY <1>5, <2>3 DEF GetFound
    <3>2. "necessary" \in Working \ {"update", "return"}
      BY DEF Working
    <3> QED BY <1>3, <1>4, <2>1, <3>1, <3>2
  <2> QED BY <2>2, <2>3
<1>6. CASE IsNecessary(t)
  <2>1. old_adds' = old_adds
    BY <1>6 DEF IsNecessary
  <2>2. CASE Necessarity(Head(chunk[t])) > smallest.found
    <3>1. pc' = [pc EXCEPT ![t] = "adds"] /\ chunk' = chunk /\ cancel' = cancel
      BY <1>6, <2>2 DEF IsNecessary
    <3>2. "adds" \in Working \ {"update", "return"}
      BY DEF Working
    <3> QED BY <1>3, <1>4, <2>1, <3>1, <3>2
  <2>3. CASE ~(Necessarity(Head(chunk[t])) > smallest.found)
    <3>1. DoWorkReturns(t, FALSE)
      BY <1>6, <2>3 DEF IsNecessary
    <3>2. Tried(Head(chunk[t]))
      BY <1>2, <2>3 DEF Tried, Necessarity
    <3> QED BY <1>0, <2>1, <3>1, <3>2, ReturnsKeeps
  <2> QED BY <2>2, <2>3
<1>7. CASE ReadAdds(t)
  <2>1. /\ old_adds' = [old_adds EXCEPT ![t] = smallest.adds] /\ pc' = [pc EXCEPT ![t] = "search"]
        /\ chunk' = chunk /\ cancel' = cancel
    BY <1>7 DEF ReadAdds
  <2>2. old_adds' \in [Thread -> 0..Len(data)]
    BY <1>2, <1>3, <2>1
  <2>3. "search" \in Working \ {"update", "return"}
    BY DEF Working
  <2> QED BY <1>4, <2>1, <2>2, <2>3
<1>8. CASE Return(t)
  <2>1. pc[t] = "return" /\ old_adds' = old_adds
    BY <1>8 DEF Return
  <2>2. Tried(Head(chunk[t]))
    BY <2>1 DEF SearchInv, TriedInv
  <2>3. DoWorkReturns(t, smallest.found >= 2)
    BY <1>8 DEF Return
  <2>4. CASE smallest.found = 2
    <3>1. DoWorkReturns(t, TRUE)
      BY <1>2, <2>3, <2>4 DEF DoWorkReturns
    <3> QED BY <1>0, <2>1, <2>2, <2>4, <3>1, ReturnsKeeps
  <2>5. CASE smallest.found # 2
    <3>1. DoWorkReturns(t, FALSE)
      BY <1>2, <2>3, <2>5 DEF DoWorkReturns
    <3> QED BY <1>0, <2>1, <2>2, <3>1, ReturnsKeeps
  <2> QED BY <2>4, <2>5
<1> QED BY <1>5, <1>6, <1>7, <1>8

(* FindOverlap on a candidate, against the limit there is.                  *)
LEMMA SearchKeeps ==
    ASSUME SearchInv, NEW t \in Thread, Search(t)
    PROVE  SearchInv'
<1> DEFINE a == Head(chunk[t])
<1>0. /\ Frame /\ pc[t] = "search" /\ next' = next /\ chunk' = chunk /\ plan' = plan
      /\ smallest' = smallest /\ cancel' = cancel /\ old_adds' = old_adds
  BY DEF Search, Frame
<1>1. team' = team /\ data' = data /\ fbs' = fbs /\ candidates' = candidates
  BY <1>0 DEF Frame
<1>2. Fixed' /\ Number' = Number /\ \A b : Block(b)' = Block(b)
  BY <1>0, FrameKeeps DEF SearchInv
<1>3. SmallestInv' /\ PlanInv'
  BY <1>0, SmallestKeeps, PlanKeeps DEF SearchInv, SmallestInv
<1>4. pc \in [Thread -> Working \cup {"loop", "end"}] /\ chunk \in [Thread -> Seq(Number)]
      /\ DOMAIN info = Thread /\ old_adds \in [Thread -> 0..Len(data)]
  BY DEF SearchInv, LoopInv, InfoInv
<1>5. chunk[t] # <<>>
  BY <1>0 DEF SearchInv, LoopInv, Working
<1>6. a \in Number
  BY <1>4, <1>5, HeadTailProperties
<1>7. data \in Seq(Byte) /\ Len(data) >= 1 /\ Block(a) \in Seq(Byte) /\ Len(Block(a)) <= FSIZE
  BY <1>6, FixedFacts DEF SearchInv
<1>8. Limit(t) \in 0..Len(data) /\ (smallest.found = 0 => Limit(t) = Len(data))
  BY <1>4, <1>7 DEF Limit
<1>9. fbs[Candidate(t)] = Block(a)
  BY DEF Candidate, Block
<1> HIDE DEF a
<1>10. \A u \in team : u \in Thread
  BY DEF SearchInv, Fixed
<1>11. CASE Skipped(data, Limit(t), Block(a))
  <2>1. pc' = [pc EXCEPT ![t] = "return"] /\ info' = info
    BY <1>9, <1>11 DEF Search
  <2>2. \A u \in Thread : pc'[u] = IF u = t THEN "return" ELSE pc[u]
    BY <1>4, <2>1
  <2>3. Tried(a)
    <3>1. smallest.found = 0 => ~GoodFind(data, Block(a), Len(data))
      BY <1>8, <1>11 DEF GoodFind
    <3>2. AutoIndexPeriod # 1 => ~HasBlock(Block(a), data)
      BY <1>7, <1>8, <1>11, HeldBlockFound DEF GoodFind
    <3> QED BY <3>1, <3>2 DEF Tried
  <2>4. LoopInv'
    <3>1. pc' \in [Thread -> Working \cup {"loop", "end"}] /\ "return" \in Working /\ "return" # "end"
      BY <1>4, <2>1 DEF Working
    <3> QED BY <1>0, <1>1, <1>2, <1>5, <1>10, <2>2, <3>1 DEF SearchInv, LoopInv
  <2>5. InfoInv'
    BY <1>0, <1>1, <1>2, <2>1, <2>2 DEF SearchInv, InfoInv
  <2>6. TriedInv'
    <3>1. \A u \in Thread : pc'[u] = "return" => Tried(Head(chunk[u]))
      BY <2>2, <2>3 DEF SearchInv, TriedInv, a
    <3>2. \A u \in Thread : pc'[u] = "return" => Tried(Head(chunk[u]))'
      BY <1>0, <1>1, <3>1 DEF Tried, Block
    <3>3. \A b : Taken(b)' <=> Taken(b)
      BY <1>0 DEF Taken
    <3>4. \A b \in 1..(next - 1) : Tried(b) \/ Taken(b)
      BY DEF SearchInv, TriedInv
    <3>5. \A b \in 1..(next - 1) : Tried(b)' \/ Taken(b)'
      BY <1>0, <3>3, <3>4, TriedKeeps
    <3> QED BY <1>0, <3>2, <3>5 DEF TriedInv
  <2> QED BY <1>2, <1>3, <2>4, <2>5, <2>6 DEF SearchInv
<1>12. CASE ~Skipped(data, Limit(t), Block(a))
  <2>1. /\ pc' = [pc EXCEPT ![t] = "update"]
        /\ info' = [info EXCEPT ![t] = FindOverlap(data, Limit(t), Block(a))]
    BY <1>9, <1>12 DEF Search
  <2>2. \A u \in Thread : pc'[u] = IF u = t THEN "update" ELSE pc[u]
    BY <1>4, <2>1
  <2>3. /\ DOMAIN info' = Thread
        /\ \A u \in Thread : info'[u] = IF u = t THEN FindOverlap(data, Limit(t), Block(a)) ELSE info[u]
    BY <1>4, <2>1
  <2>4. LoopInv'
    <3>1. pc' \in [Thread -> Working \cup {"loop", "end"}] /\ "update" \in Working /\ "update" # "end"
      BY <1>4, <2>1 DEF Working
    <3> QED BY <1>0, <1>1, <1>2, <1>5, <1>10, <2>2, <3>1 DEF SearchInv, LoopInv
  <2>5. InfoInv'
    <3>1. ASSUME NEW u \in Thread, pc'[u] = "update"
          PROVE  \E l \in 0..Len(data) :
                    /\ smallest.found = 0 => l = Len(data)
                    /\ ~Skipped(data, l, Block(Head(chunk[u])))
                    /\ info'[u] = FindOverlap(data, l, Block(Head(chunk[u])))
      <4>1. CASE u = t
        BY <1>8, <1>12, <2>3, <4>1 DEF a
      <4>2. CASE u # t
        BY <2>2, <2>3, <3>1, <4>2 DEF SearchInv, InfoInv
      <4> QED BY <4>1, <4>2
    <3> QED BY <1>0, <1>1, <1>2, <1>4, <2>3, <3>1 DEF InfoInv
  <2>6. TriedInv'
    <3>1. \A u \in Thread : pc'[u] = "return" => Tried(Head(chunk[u]))
      BY <2>2 DEF SearchInv, TriedInv
    <3>2. \A u \in Thread : pc'[u] = "return" => Tried(Head(chunk[u]))'
      BY <1>0, <1>1, <3>1 DEF Tried, Block
    <3>3. \A b : Taken(b)' <=> Taken(b)
      BY <1>0 DEF Taken
    <3>4. \A b \in 1..(next - 1) : Tried(b) \/ Taken(b)
      BY DEF SearchInv, TriedInv
    <3>5. \A b \in 1..(next - 1) : Tried(b)' \/ Taken(b)'
      BY <1>0, <3>3, <3>4, TriedKeeps
    <3> QED BY <1>0, <3>2, <3>5 DEF TriedInv
  <2> QED BY <1>2, <1>3, <2>4, <2>5, <2>6 DEF SearchInv
<1> QED BY <1>11, <1>12

(* SmallestInfo after a thread compared its find with it.                   *)
LEMMA UpdateKeeps ==
    ASSUME SearchInv, NEW t \in Thread, Update(t)
    PROVE  SearchInv'
<1>a. PICK a : a = Head(chunk[t])
  OBVIOUS
<1>0. /\ Frame /\ pc[t] = "update" /\ next' = next /\ chunk' = chunk /\ plan' = plan
      /\ cancel' = cancel /\ old_adds' = old_adds /\ info' = info
      /\ pc' = [pc EXCEPT ![t] = "return"]
  BY DEF Update, Frame
<1>1. team' = team /\ data' = data /\ fbs' = fbs /\ candidates' = candidates
  BY <1>0 DEF Frame
<1>2. Fixed' /\ Number' = Number /\ (\A b : Block(b)' = Block(b)) /\ PlanInv'
  BY <1>0, FrameKeeps, PlanKeeps DEF SearchInv
<1>3. pc \in [Thread -> Working \cup {"loop", "end"}] /\ chunk \in [Thread -> Seq(Number)]
  BY DEF SearchInv, LoopInv
<1>4. chunk[t] # <<>>
  BY <1>0 DEF SearchInv, LoopInv, Working
<1>5. a \in Number
  BY <1>a, <1>3, <1>4, HeadTailProperties
<1>6. /\ data \in Seq(Byte) /\ Len(data) >= 1 /\ Block(a) \in Seq(Byte) /\ Len(Block(a)) <= FSIZE
      /\ candidates[a] \in Nat
  BY <1>5, FixedFacts DEF SearchInv
<1>7. Candidate(t) = candidates[a]
  BY <1>a DEF Candidate
<1>8. PICK l \in 0..Len(data) : /\ smallest.found = 0 => l = Len(data)
                                /\ ~Skipped(data, l, Block(a))
                                /\ info[t] = FindOverlap(data, l, Block(a))
  BY <1>a, <1>0 DEF SearchInv, InfoInv
<1>9. /\ Adds(info[t]) \in 0..Len(data) /\ info[t].AppendBaseOffset \in Nat
  <2>1. FindOverlap(data, l, Block(a)).AppendBaseOffset \in 0..Len(Block(a))
        /\ Adds(FindOverlap(data, l, Block(a))) \in 0..Len(data)
    BY <1>6, <1>8, FindOverlapType
  <2>2. Len(Block(a)) \in Nat
    BY <1>6
  <2>3. FindOverlap(data, l, Block(a)).AppendBaseOffset \in Nat
    BY <2>1, <2>2
  <2> QED BY <1>8, <2>1, <2>3
<1>10. smallest \in [found : 0..2, fblocknum : Nat, adds : 0..Len(data), offset : Nat]
       /\ (smallest.found # 0 => (smallest.found = 2 <=> smallest.adds = 0))
  BY DEF SearchInv, SmallestInv
<1>11. ASSUME AutoIndexPeriod # 1, HasBlock(Block(a), data)
       PROVE  ThisIsGood(data, info[t]) /\ Adds(info[t]) = 0
  BY <1>6, <1>8, <1>11, HeldBlockFound DEF GoodFind
<1>12. \A u \in Thread : pc'[u] = IF u = t THEN "return" ELSE pc[u]
  BY <1>0, <1>3
<1>13. \A u \in team : u \in Thread
  BY DEF SearchInv, Fixed
<1>14. LoopInv'
  <2>1. pc' \in [Thread -> Working \cup {"loop", "end"}] /\ "return" \in Working /\ "return" # "end"
    BY <1>0, <1>3 DEF Working
  <2> QED BY <1>0, <1>1, <1>2, <1>4, <1>12, <1>13, <2>1 DEF SearchInv, LoopInv
<1>15. CASE IsBetter(t)
  <2>1. smallest' = [found |-> IF Adds(info[t]) = 0 THEN 2 ELSE 1, fblocknum |-> candidates[a],
                     adds |-> Adds(info[t]), offset |-> info[t].AppendBaseOffset]
    BY <1>7, <1>15 DEF Update
  <2>2. GoodFind(data, Block(a), l)
    BY <1>8, <1>15 DEF IsBetter, GoodFind
  <2>3. /\ smallest'.found # 0 /\ (smallest'.found = 2 <=> smallest'.adds = 0)
        /\ smallest'.fblocknum = candidates[a]
        /\ smallest'.adds = Adds(FindOverlap(data, l, Block(a)))
        /\ smallest'.offset = FindOverlap(data, l, Block(a)).AppendBaseOffset
        /\ smallest'.found \in 1..2
    BY <1>8, <2>1
  <2>4. smallest.found = 2 => smallest'.found = 2
    BY <1>9, <1>10, <1>15, <2>1 DEF IsBetter
  <2>5. \E b \in Number : GoodFind(data, Block(b), Len(data))
    BY <1>5, <1>8, <2>2 DEF SearchInv, SmallestInv
  <2>6. smallest' \in [found : 0..2, fblocknum : Nat, adds : 0..Len(data), offset : Nat]
    BY <1>6, <1>9, <2>1
  <2>7. SmallestInv'
    <3>1. cancel' \in BOOLEAN /\ (cancel' => smallest'.found = 2)
      BY <1>0, <2>4 DEF SearchInv, SmallestInv
    <3>2. \E b \in Number : \E k \in 0..Len(data) :
              /\ GoodFind(data, Block(b), k)
              /\ smallest'.fblocknum = candidates[b]
              /\ smallest'.adds = Adds(FindOverlap(data, k, Block(b)))
              /\ smallest'.offset = FindOverlap(data, k, Block(b)).AppendBaseOffset
      BY <1>5, <2>2, <2>3
    <3> QED BY <1>1, <1>2, <2>3, <2>5, <2>6, <3>1, <3>2 DEF SmallestInv
  <2>8. ASSUME NEW b, Tried(b) PROVE Tried(b)'
    BY <1>1, <1>2, <2>3, <2>4, <2>8 DEF Tried
  <2>9. Tried(a)'
    <3>1. AutoIndexPeriod # 1 /\ HasBlock(Block(a), data) => smallest'.found = 2
      BY <1>11, <2>1
    <3> QED BY <1>1, <1>2, <2>3, <3>1 DEF Tried
  <2>10. InfoInv'
    <3>1. \A u \in Thread : pc'[u] = "update" =>
            \E k \in 0..Len(data) :
                /\ ~Skipped(data, k, Block(Head(chunk[u])))
                /\ info[u] = FindOverlap(data, k, Block(Head(chunk[u])))
      BY <1>12 DEF SearchInv, InfoInv
    <3>2. old_adds \in [Thread -> 0..Len(data)] /\ DOMAIN info = Thread
      BY DEF SearchInv, InfoInv
    <3> QED BY <1>0, <1>1, <1>2, <2>3, <3>1, <3>2 DEF InfoInv
  <2>11. TriedInv'
    <3>1. ASSUME NEW u \in Thread, pc'[u] = "return" PROVE Tried(Head(chunk[u]))'
      <4>1. CASE u = t
        BY <1>a, <1>0, <1>1, <2>9, <4>1 DEF Tried, Block
      <4>2. CASE u # t
        <5>1. PICK b : b = Head(chunk[u])
          OBVIOUS
        <5>2. Tried(b)
          BY <1>12, <3>1, <4>2, <5>1 DEF SearchInv, TriedInv
        <5>3. Tried(b)'
          BY <2>8, <5>2
        <5> QED BY <1>0, <1>1, <5>1, <5>3 DEF Tried, Block
      <4> QED BY <4>1, <4>2
    <3>2. \A b : Taken(b)' <=> Taken(b)
      BY <1>0 DEF Taken
    <3>3. \A b \in 1..(next - 1) : Tried(b) \/ Taken(b)
      BY DEF SearchInv, TriedInv
    <3>4. \A b \in 1..(next - 1) : Tried(b)' \/ Taken(b)'
      BY <2>8, <3>2, <3>3
    <3> QED BY <1>0, <3>1, <3>4 DEF TriedInv
  <2> QED BY <1>2, <1>14, <2>7, <2>10, <2>11 DEF SearchInv
<1>16. CASE ~IsBetter(t)
  <2>1. smallest' = smallest
    BY <1>16 DEF Update
  <2>2. SmallestInv'
    BY <1>0, <2>1, SmallestKeeps DEF SearchInv, SmallestInv
  <2>3. Tried(a)
    <3>1. smallest.found = 0 => ~GoodFind(data, Block(a), Len(data))
      BY <1>8, <1>16 DEF IsBetter, GoodFind
    <3>2. AutoIndexPeriod # 1 /\ HasBlock(Block(a), data) => smallest.found = 2
      BY <1>10, <1>11, <1>16 DEF IsBetter
    <3> QED BY <3>1, <3>2 DEF Tried
  <2>4. InfoInv'
    BY <1>0, <1>1, <1>2, <1>12, <2>1 DEF SearchInv, InfoInv
  <2>5. TriedInv'
    <3>1. \A u \in Thread : pc'[u] = "return" => Tried(Head(chunk[u]))
      BY <1>a, <1>12, <2>3 DEF SearchInv, TriedInv
    <3>2. \A u \in Thread : pc'[u] = "return" => Tried(Head(chunk[u]))'
      BY <1>0, <1>1, <2>1, <3>1 DEF Tried, Block
    <3>3. \A b : Taken(b)' <=> Taken(b)
      BY <1>0 DEF Taken
    <3>4. \A b \in 1..(next - 1) : Tried(b) \/ Taken(b)
      BY DEF SearchInv, TriedInv
    <3>5. \A b \in 1..(next - 1) : Tried(b)' \/ Taken(b)'
      BY <1>0, <2>1, <3>3, <3>4, TriedKeeps
    <3> QED BY <1>0, <3>2, <3>5 DEF TriedInv
  <2> QED BY <1>2, <1>14, <2>2, <2>4, <2>5 DEF SearchInv
<1> QED BY <1>15, <1>16

(* The plan, when all threads have left the loop.                           *)
LEMMA DecideKeeps ==
    ASSUME SearchInv, Decide
    PROVE  SearchInv'
<1>0. /\ Frame /\ UNCHANGED <<next, chunk, cancel, pc, old_adds, info, smallest>>
      /\ \A t \in Thread : pc[t] = "end"
  BY DEF Decide, Frame
<1>1. team' = team /\ data' = data /\ fbs' = fbs /\ candidates' = candidates
      /\ next' = next /\ chunk' = chunk /\ cancel' = cancel /\ pc' = pc /\ old_adds' = old_adds
      /\ info' = info /\ smallest' = smallest
  BY <1>0 DEF Frame
<1>2. Fixed' /\ Number' = Number /\ \A b : Block(b)' = Block(b)
  BY <1>0, FrameKeeps DEF SearchInv
<1>3. LoopInv' /\ SmallestInv' /\ InfoInv' /\ TriedInv'
  <2>1. LoopInv'
    BY <1>1, <1>2 DEF SearchInv, LoopInv
  <2>2. SmallestInv'
    BY <1>0, <1>1, SmallestKeeps DEF SearchInv, SmallestInv
  <2>3. InfoInv'
    BY <1>1, <1>2 DEF SearchInv, InfoInv
  <2>4. TriedInv'
    BY <1>1 DEF SearchInv, TriedInv, Tried, Taken, Block
  <2> QED BY <2>1, <2>2, <2>3, <2>4
<1>4. \A a \in Number : Tried(a)
  <2>1. PICK t : t \in team /\ t \in Thread
    BY DEF SearchInv, Fixed
  <2>2. next = Len(candidates) + 1 /\ Len(candidates) \in Nat
    BY <1>0, <2>1, FixedFacts DEF SearchInv, LoopInv
  <2>3. \A a : ~Taken(a)
    BY <1>0 DEF Taken, SearchInv, LoopInv
  <2> QED BY <2>2, <2>3 DEF SearchInv, TriedInv, Number
<1>5. Room' = Room
  BY <1>1 DEF Room
<1>6. /\ data \in Seq(Byte) /\ Len(data) \in Nat \ {0} /\ fbs \in Seq(Seq(Byte))
      /\ \A a \in Number : /\ candidates[a] \in Candidates(fbs, Room, data)
                           /\ candidates[a] \in 1..Len(fbs) /\ Block(a) \in Seq(Byte)
      /\ \A f \in Candidates(fbs, Room, data) : \E a \in Number : candidates[a] = f
  BY FixedFacts DEF SearchInv
<1>7. ASSUME NEW a \in Number, NEW l \in 0..Len(data)
      PROVE  <<candidates[a], l>> \in GoodFits(fbs, Room, data) <=> GoodFind(data, Block(a), l)
  BY <1>6 DEF GoodFits, GoodFind, Block
<1>8. PlanIsAllowed'
  <2>1. CASE smallest.found # 0
    <3>1. PICK a \in Number, l \in 0..Len(data) :
                 /\ GoodFind(data, Block(a), l)
                 /\ smallest.fblocknum = candidates[a]
                 /\ smallest.offset = FindOverlap(data, l, Block(a)).AppendBaseOffset
      BY <2>1 DEF SearchInv, SmallestInv
    <3>2. PICK b \in Number : GoodFind(data, Block(b), Len(data))
      BY <2>1 DEF SearchInv, SmallestInv
    <3>3. <<candidates[a], l>> \in GoodFits(fbs, Room, data)
      BY <1>7, <3>1
    <3>4. <<candidates[b], Len(data)>> \in GoodFits(fbs, Room, data)
      BY <1>6, <1>7, <3>2
    <3>5. \E p \in GoodFits(fbs, Room, data) : p[2] = Len(data)
      BY <3>4
    <3>6. plan' = [fblocknum |-> candidates[a],
                   offset |-> FindOverlap(data, l, fbs[candidates[a]]).AppendBaseOffset]
      BY <2>1, <3>1 DEF Decide, Block
    <3>7. PICK p : p = <<candidates[a], l>>
      OBVIOUS
    <3>8. p \in GoodFits(fbs, Room, data)
          /\ plan' = [fblocknum |-> p[1], offset |-> FindOverlap(data, p[2], fbs[p[1]]).AppendBaseOffset]
      BY <3>3, <3>6, <3>7
    <3>9. plan' \in WritePlans(fbs, Room, data)
      BY <3>5, <3>8 DEF WritePlans
    <3> QED BY <1>1, <1>5, <3>9 DEF PlanIsAllowed
  <2>2. CASE smallest.found = 0
    <3>1. ASSUME NEW p \in GoodFits(fbs, Room, data), p[2] = Len(data) PROVE FALSE
      <4>1. p = <<p[1], p[2]>> /\ p[1] \in Candidates(fbs, Room, data)
        BY DEF GoodFits
      <4>2. PICK a \in Number : candidates[a] = p[1]
        BY <1>6, <4>1
      <4>3. GoodFind(data, Block(a), Len(data))
        BY <1>6, <1>7, <3>1, <4>1, <4>2
      <4> QED BY <1>4, <2>2, <4>3 DEF Tried
    <3>2. plan' = [fblocknum |-> Len(fbs) + 1, offset |-> 0]
      BY <2>2 DEF Decide
    <3>3. plan' \in WritePlans(fbs, Room, data)
      BY <3>1, <3>2 DEF WritePlans
    <3> QED BY <1>1, <1>5, <3>3 DEF PlanIsAllowed
  <2> QED BY <2>1, <2>2
<1>9. ASSUME AutoIndexPeriod # 1 PROVE FullOverlapUsed'
  <2> SUFFICES ASSUME NEW f \in PriorityCandidates, NEW p \in Fits(f), AddsAt(f, p) = 0
               PROVE  PlanAdds' = 0
    BY <1>1, ZenonT(40) DEF FullOverlapUsed, PriorityCandidates, Fits, AddsAt
  <2>1. PICK a \in DOMAIN candidates : f = candidates[a] /\ Necessarity(a) = 2
    BY DEF PriorityCandidates
  <2>2. a \in Number
    BY <2>1, FixedFacts, SMTT(40) DEF SearchInv, Number
  <2>3. f = candidates[a] /\ fbs[f] = Block(a) /\ Block(a) \in Seq(Byte)
    BY <1>6, <2>1, <2>2 DEF Block
  <2>4. p \in 0..Len(Block(a)) /\ Meets(Block(a), p, data)
    BY <2>3 DEF Fits
  <2>5. p + Len(data) <= Len(Block(a))
    BY <1>6, <2>3, <2>4 DEF AddsAt, Larger
  <2>6. Holds(Block(a), p, data)
    BY <1>6, <2>3, <2>4, <2>5 DEF Holds, Meets
  <2>7. smallest.found = 2
    BY <1>4, <1>9, <2>1, <2>2, <2>4, <2>6 DEF Tried, HasBlock
  <2>8. smallest.adds = 0
    BY <2>7 DEF SearchInv, SmallestInv
  <2>9. PICK b \in Number, l \in 0..Len(data) :
               /\ smallest.fblocknum = candidates[b]
               /\ smallest.adds = Adds(FindOverlap(data, l, Block(b)))
               /\ smallest.offset = FindOverlap(data, l, Block(b)).AppendBaseOffset
    BY <2>7 DEF SearchInv, SmallestInv
  <2>10. Larger(0, smallest.offset + Len(data) - Len(Block(b))) = 0
    BY <1>6, <2>8, <2>9, FindOverlapType
  <2>11. plan' = [fblocknum |-> candidates[b], offset |-> smallest.offset]
    BY <2>7, <2>9 DEF Decide
  <2>12. candidates[b] \in 1..Len(fbs) /\ Len(fbs) \in Nat
    BY <1>6
  <2>13. PlanAdds' = Larger(0, smallest.offset + Len(data) - Len(fbs[candidates[b]]))
    BY <1>1, <2>11, <2>12 DEF PlanAdds
  <2> QED BY <2>10, <2>13 DEF Block
<1> QED BY <1>2, <1>3, <1>8, <1>9 DEF SearchInv, PlanInv

-----------------------------------------------------------------------------
(* Before the loop nothing is found and nothing is tried.                   *)
LEMMA SearchInitial ==
    ASSUME Init PROVE SearchInv
<1>1. Fixed
  BY DEF Init, Fixed
<1>2. Len(candidates) \in Nat /\ Len(data) \in Nat
  BY <1>1, FixedFacts
<1>3. LoopInv
  <2>1. \A t \in team : t \in Thread
    BY <1>1 DEF Fixed
  <2>2. <<>> \in Seq(Number)
    OBVIOUS
  <2>3. chunk \in [Thread -> Seq(Number)] /\ next \in 1..(Len(candidates) + 1)
    BY <1>2, <2>2 DEF Init
  <2> QED BY <2>1, <2>3 DEF Init, LoopInv, Working
<1>4. SmallestInv
  <2>1. smallest = [found |-> 0, fblocknum |-> 0, adds |-> 0, offset |-> 0] /\ cancel = FALSE
    BY DEF Init
  <2>2. 0 \in 0..2 /\ 0 \in Nat /\ 0 \in 0..Len(data)
    BY <1>2
  <2>3. smallest \in [found : 0..2, fblocknum : Nat, adds : 0..Len(data), offset : Nat]
    BY <2>1, <2>2
  <2>4. smallest.found = 0 /\ cancel \in BOOLEAN /\ ~cancel
    BY <2>1
  <2> QED BY <2>3, <2>4 DEF SmallestInv
<1>5. InfoInv
  BY <1>2 DEF Init, InfoInv
<1>6. TriedInv
  BY DEF Init, TriedInv
<1>7. PlanInv
  BY DEF Init, PlanInv, PlanIsAllowed, FullOverlapUsed
<1> QED BY <1>1, <1>3, <1>4, <1>5, <1>6, <1>7 DEF SearchInv

(* Every step of a thread, and the decision at the end, keeps the invariant. *)
LEMMA SearchStep ==
    ASSUME SearchInv, [Next]_vars PROVE SearchInv'
<1>1. CASE Decide
  BY <1>1, DecideKeeps
<1>2. ASSUME NEW t \in Thread, Step(t) PROVE SearchInv'
  BY <1>2, TakeChunkKeeps, IterateKeeps, LookKeeps, SearchKeeps, UpdateKeeps DEF Step
<1>3. CASE UNCHANGED vars
  <2>1. /\ Frame /\ plan' = plan /\ UNCHANGED <<next, chunk, cancel, pc, old_adds, info, smallest>>
    BY <1>3 DEF vars, Frame
  <2>2. Fixed' /\ Number' = Number /\ \A b : Block(b)' = Block(b)
    BY <2>1, FrameKeeps DEF SearchInv
  <2>3. PlanInv' /\ SmallestInv'
    BY <2>1, PlanKeeps, SmallestKeeps DEF SearchInv, SmallestInv
  <2>4. LoopInv'
    BY <2>1, <2>2 DEF SearchInv, LoopInv, Frame
  <2>5. InfoInv'
    BY <2>1, <2>2 DEF SearchInv, InfoInv, Frame
  <2>6. TriedInv'
    BY <2>1 DEF SearchInv, TriedInv, Tried, Taken, Block, Frame
  <2> QED BY <2>2, <2>3, <2>4, <2>5, <2>6 DEF SearchInv
<1> QED BY <1>1, <1>2, <1>3 DEF Next

(* CreateWritePlan with any number of search threads, however they race for *)
(* SmallestInfo and see the cancel flag late: the plan is one that the      *)
(* atomic search of Blockifier may return, and a new fblock is begun only   *)
(* when no candidate is good.                                               *)
THEOREM SearchAllowed == Spec => []PlanIsAllowed
<1>1. Init => SearchInv
  BY SearchInitial
<1>2. SearchInv /\ [Next]_vars => SearchInv'
  BY SearchStep
<1>3. SearchInv => PlanIsAllowed
  BY DEF SearchInv, PlanInv
<1> QED BY <1>1, <1>2, <1>3, PTL DEF Spec

(* OverlapFindWorker's race loses no full overlap: when a candidate within  *)
(* the brute force limit holds the block, nothing is appended.  With        *)
(* --autoindexperiod 1 the search leaves complete occurrences to the index. *)
THEOREM FullOverlapNeverLost ==
    ASSUME AutoIndexPeriod # 1
    PROVE  Spec => []FullOverlapUsed
<1>1. Init => SearchInv
  BY SearchInitial
<1>2. SearchInv /\ [Next]_vars => SearchInv'
  BY SearchStep
<1>3. SearchInv => FullOverlapUsed
  BY DEF SearchInv, PlanInv
<1> QED BY <1>1, <1>2, <1>3, PTL DEF Spec
=============================================================================
